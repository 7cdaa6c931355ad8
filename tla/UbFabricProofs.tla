--------------------------- MODULE UbFabricProofs ---------------------------
(***************************************************************************)
(* Proofs about UbFabric, for every fabric, mode of the flow control and   *)
(* value of its constants.                                                 *)
(*                                                                         *)
(* The handlers of a node are operators on its state, so the proof of a    *)
(* step has three layers: what each handler makes of a state s (a relation *)
(* between s and the state t it leaves), what each action does as a chain  *)
(* of such relations, and which relation keeps which invariant.            *)
(***************************************************************************)
EXTENDS UbFabric, SequenceLemmas, FiniteSetTheorems, TLAPS

(* Sums over finite sets.                                                  *)

Chosen(s) == CHOOSE x \in s : TRUE
SumBody(f, it, s) == IF s = {} THEN 0 ELSE f[Chosen(s)] + it[s \ {Chosen(s)}]
IsSumOn(f, T, it) == it = [s \in T |-> SumBody(f, it, s)]
UpTo(S, n) == {s \in SUBSET S : Cardinality(s) <= n}

LEMMA SumIs ==
    ASSUME NEW f, NEW S
    PROVE  SumFunctionOnSet(f, S) = (CHOOSE it : IsSumOn(f, SUBSET S, it))[S]
  BY DEF SumFunctionOnSet, FoldFunctionOnSet, MapThenFoldSet, IsSumOn, SumBody, Chosen

\* A part of a finite set without one of its elements.
LEMMA OneLess ==
    ASSUME NEW S, IsFiniteSet(S), S # {}, NEW x \in S
    PROVE  /\ IsFiniteSet(S \ {x}) /\ Cardinality(S) \in Nat /\ Cardinality(S) >= 1
           /\ Cardinality(S \ {x}) = Cardinality(S) - 1
<1>1. Cardinality(S) \in Nat /\ Cardinality(S \ {x}) \in Nat
  BY FS_RemoveElement, FS_CardinalityType
<1>2. IsFiniteSet(S \ {x}) /\ Cardinality(S \ {x}) = Cardinality(S) - 1
  BY FS_RemoveElement
<1> QED
  BY <1>1, <1>2

LEMMA ChosenIn ==
    ASSUME NEW S, S # {}
    PROVE  Chosen(S) \in S
  BY DEF Chosen

LEMMA SumOnExists ==
    ASSUME NEW f, NEW S, IsFiniteSet(S)
    PROVE  \E it : IsSumOn(f, SUBSET S, it)
<1> DEFINE P == {n \in Nat : \E it : IsSumOn(f, UpTo(S, n), it)}
<1>0. \A s \in SUBSET S : IsFiniteSet(s) /\ Cardinality(s) \in Nat
  BY FS_Subset, FS_CardinalityType
<1>1. 0 \in P
  <2> DEFINE it == [s \in UpTo(S, 0) |-> 0]
  <2>1. \A s \in UpTo(S, 0) : s = {}
    BY <1>0, FS_EmptySet DEF UpTo
  <2>2. it = [s \in UpTo(S, 0) |-> SumBody(f, it, s)]
    BY <2>1 DEF SumBody
  <2> QED
    BY <2>2 DEF IsSumOn
<1>2. ASSUME NEW n \in Nat, n \in P PROVE n + 1 \in P
  <2>1. PICK g : g = [s \in UpTo(S, n) |-> SumBody(f, g, s)]
    BY <1>2 DEF IsSumOn
  <2> DEFINE h == [s \in UpTo(S, n + 1) |-> SumBody(f, g, s)]
  <2>2. ASSUME NEW s \in UpTo(S, n + 1) PROVE SumBody(f, g, s) = SumBody(f, h, s)
    <3>1. CASE s = {}
      BY <3>1 DEF SumBody
    <3>2. CASE s # {}
      <4> DEFINE u == s \ {Chosen(s)}
      <4>1. s \in SUBSET S /\ Cardinality(s) <= n + 1
        BY DEF UpTo
      <4>2. Chosen(s) \in s
        BY <3>2, ChosenIn
      <4>3. u \in SUBSET S /\ Cardinality(u) = Cardinality(s) - 1 /\ Cardinality(s) \in Nat
        BY <1>0, <3>2, <4>1, <4>2, OneLess
      <4>4. u \in UpTo(S, n) /\ u \in UpTo(S, n + 1)
        BY <4>1, <4>3 DEF UpTo
      <4>5. g[u] = SumBody(f, g, u)
        BY <2>1, <4>4, Zenon
      <4>6. h[u] = SumBody(f, g, u)
        BY <4>4
      <4> QED
        BY <4>5, <4>6 DEF SumBody
    <3> QED
      BY <3>1, <3>2
  <2>3. h = [s \in UpTo(S, n + 1) |-> SumBody(f, h, s)]
    BY <2>2
  <2> HIDE DEF h
  <2>4. IsSumOn(f, UpTo(S, n + 1), h)
    BY <2>3 DEF IsSumOn
  <2> QED
    BY <2>4
<1>3. Nat \subseteq P
  <2> HIDE DEF P
  <2> QED
    BY <1>1, <1>2, NatInductiveSet
<1>4. Cardinality(S) \in Nat
  BY FS_CardinalityType
<1>5. UpTo(S, Cardinality(S)) = SUBSET S
  BY FS_Subset DEF UpTo
<1> QED
  BY <1>3, <1>4, <1>5

\* The recursion has one value, whatever larger set it is part of.
LEMMA SumOnUnique ==
    ASSUME NEW f, NEW S, IsFiniteSet(S), NEW T \in SUBSET S, NEW g, NEW h,
           IsSumOn(f, SUBSET S, g), IsSumOn(f, SUBSET T, h)
    PROVE  g[T] = h[T]
<1> DEFINE P == {n \in Nat : \A s \in SUBSET T : Cardinality(s) = n => g[s] = h[s]}
<1>0. \A s \in SUBSET T : IsFiniteSet(s) /\ Cardinality(s) \in Nat /\ s \in SUBSET S
  BY FS_Subset, FS_CardinalityType
<1>1. \A s \in SUBSET S : g[s] = SumBody(f, g, s)
  BY Zenon DEF IsSumOn
<1>2. \A s \in SUBSET T : h[s] = SumBody(f, h, s)
  BY Zenon DEF IsSumOn
<1>3. 0 \in P
  <2> SUFFICES ASSUME NEW s \in SUBSET T, Cardinality(s) = 0 PROVE g[s] = h[s]
    OBVIOUS
  <2>1. s = {}
    BY <1>0, FS_EmptySet
  <2> QED
    BY <1>0, <1>1, <1>2, <2>1 DEF SumBody
<1>4. ASSUME NEW n \in Nat, n \in P PROVE n + 1 \in P
  <2> SUFFICES ASSUME NEW s \in SUBSET T, Cardinality(s) = n + 1 PROVE g[s] = h[s]
    OBVIOUS
  <2> DEFINE u == s \ {Chosen(s)}
  <2>1. s # {}
    BY FS_EmptySet
  <2>2. Chosen(s) \in s
    BY <2>1, ChosenIn
  <2>3. u \in SUBSET T /\ Cardinality(u) = n
    BY <1>0, <2>1, <2>2, OneLess
  <2>4. g[u] = h[u]
    BY <1>4, <2>3
  <2> QED
    BY <1>0, <1>1, <1>2, <2>1, <2>4 DEF SumBody
<1>5. Nat \subseteq P
  <2> HIDE DEF P
  <2> QED
    BY <1>3, <1>4, NatInductiveSet
<1> QED
  BY <1>0, <1>5

\* What a sum is: zero, or one element and the sum of the others.
LEMMA SumRecursion ==
    ASSUME NEW f, NEW S, IsFiniteSet(S)
    PROVE  /\ S = {} => SumFunctionOnSet(f, S) = 0
           /\ S # {} => SumFunctionOnSet(f, S) =
                            f[Chosen(S)] + SumFunctionOnSet(f, S \ {Chosen(S)})
<1> DEFINE G(T) == CHOOSE it : IsSumOn(f, SUBSET T, it)
<1>1. \A T : SumFunctionOnSet(f, T) = G(T)[T]
  BY SumIs
<1>2. \A T \in SUBSET S : IsFiniteSet(T)
  BY FS_Subset
<1>3. \A T \in SUBSET S : IsSumOn(f, SUBSET T, G(T))
  BY <1>2, SumOnExists
<1> HIDE DEF G
<1>4. G(S)[S] = SumBody(f, G(S), S)
  BY <1>3, Zenon DEF IsSumOn
<1>5. CASE S = {}
  BY <1>1, <1>4, <1>5 DEF SumBody
<1>6. CASE S # {}
  <2> DEFINE u == S \ {Chosen(S)}
  <2>1. u \in SUBSET S
    OBVIOUS
  <2>4. IsSumOn(f, SUBSET S, G(S)) /\ IsSumOn(f, SUBSET u, G(u))
    BY <1>3, <2>1
  <2> HIDE DEF u
  <2>2. G(S)[u] = G(u)[u]
    BY <2>1, <2>4, SumOnUnique
  <2>3. G(S)[S] = f[Chosen(S)] + G(S)[u]
    BY <1>4, <1>6 DEF SumBody, u
  <2> QED
    BY <1>1, <1>6, <2>2, <2>3 DEF u
<1> QED
  BY <1>5, <1>6

LEMMA SumEmpty ==
    ASSUME NEW f
    PROVE  SumFunctionOnSet(f, {}) = 0
  BY SumRecursion, FS_EmptySet

LEMMA SumInt ==
    ASSUME NEW S, IsFiniteSet(S), NEW f, \A x \in S : f[x] \in Int
    PROVE  SumFunctionOnSet(f, S) \in Int
<1> DEFINE P == {n \in Nat : \A T \in SUBSET S : Cardinality(T) = n => SumFunctionOnSet(f, T) \in Int}
<1>0. \A T \in SUBSET S : IsFiniteSet(T) /\ Cardinality(T) \in Nat
  BY FS_Subset, FS_CardinalityType
<1>1. 0 \in P
  <2> SUFFICES ASSUME NEW T \in SUBSET S, Cardinality(T) = 0 PROVE SumFunctionOnSet(f, T) \in Int
    OBVIOUS
  <2>1. T = {}
    BY <1>0, FS_EmptySet
  <2> QED
    BY <2>1, SumEmpty
<1>2. ASSUME NEW n \in Nat, n \in P PROVE n + 1 \in P
  <2> SUFFICES ASSUME NEW T \in SUBSET S, Cardinality(T) = n + 1 PROVE SumFunctionOnSet(f, T) \in Int
    OBVIOUS
  <2>1. T # {}
    BY FS_EmptySet
  <2>2. Chosen(T) \in T
    BY <2>1, ChosenIn
  <2>3. T \ {Chosen(T)} \in SUBSET S /\ Cardinality(T \ {Chosen(T)}) = n
    BY <1>0, <2>1, <2>2, OneLess
  <2>4. SumFunctionOnSet(f, T \ {Chosen(T)}) \in Int
    BY <1>2, <2>3
  <2>5. SumFunctionOnSet(f, T) = f[Chosen(T)] + SumFunctionOnSet(f, T \ {Chosen(T)})
    BY <1>0, <2>1, SumRecursion
  <2> QED
    BY <2>2, <2>4, <2>5
<1>3. Nat \subseteq P
  <2> HIDE DEF P
  <2> QED
    BY <1>1, <1>2, NatInductiveSet
<1> QED
  BY <1>0, <1>3

\* Any element may be taken out.
LEMMA SumRemove ==
    ASSUME NEW S, IsFiniteSet(S), NEW f, \A x \in S : f[x] \in Int, NEW y \in S
    PROVE  SumFunctionOnSet(f, S) = f[y] + SumFunctionOnSet(f, S \ {y})
<1> DEFINE Sm(T) == SumFunctionOnSet(f, T)
           P == {n \in Nat : \A T \in SUBSET S : Cardinality(T) = n =>
                                 \A z \in T : Sm(T) = f[z] + Sm(T \ {z})}
<1>0. \A T \in SUBSET S : IsFiniteSet(T) /\ Cardinality(T) \in Nat /\ Sm(T) \in Int
  BY FS_Subset, FS_CardinalityType, SumInt
<1>1. 0 \in P
  BY <1>0, FS_EmptySet
<1>2. ASSUME NEW n \in Nat, n \in P PROVE n + 1 \in P
  <2> SUFFICES ASSUME NEW T \in SUBSET S, Cardinality(T) = n + 1, NEW z \in T
               PROVE  Sm(T) = f[z] + Sm(T \ {z})
    OBVIOUS
  <2> DEFINE c == Chosen(T)
  <2>1. c \in T
    BY ChosenIn
  <2>2. Sm(T) = f[c] + Sm(T \ {c})
    BY <1>0, SumRecursion
  <2>3. CASE z = c
    <3> HIDE DEF Sm, c
    <3> QED
      BY <2>2, <2>3
  <2>4. CASE z # c
    <3>1. /\ T \ {c} \in SUBSET S /\ Cardinality(T \ {c}) = n /\ z \in T \ {c}
          /\ T \ {z} \in SUBSET S /\ Cardinality(T \ {z}) = n /\ c \in T \ {z}
      BY <1>0, <2>1, <2>4, OneLess
    <3>2. Sm(T \ {c}) = f[z] + Sm((T \ {c}) \ {z})
      BY <1>2, <3>1
    <3>3. Sm(T \ {z}) = f[c] + Sm((T \ {z}) \ {c})
      BY <1>2, <3>1
    <3>4. (T \ {c}) \ {z} = (T \ {z}) \ {c} /\ (T \ {z}) \ {c} \in SUBSET S
      OBVIOUS
    <3>5. Sm((T \ {z}) \ {c}) \in Int /\ f[z] \in Int /\ f[c] \in Int
      BY <1>0, <2>1, <3>4
    <3> DEFINE r == Sm((T \ {z}) \ {c})
    <3>6. Sm((T \ {c}) \ {z}) = r
      BY <3>4, Zenon
    <3>7. Sm(T) = f[c] + (f[z] + r)
      BY <2>2, <3>2, <3>6, Zenon
    <3>8. r \in Int
      BY <3>5
    <3> HIDE DEF Sm, c, r
    <3> QED
      BY <3>3, <3>5, <3>7, <3>8 DEF r
  <2> QED
    BY <2>3, <2>4
<1>3. Nat \subseteq P
  <2> HIDE DEF P
  <2> QED
    BY <1>1, <1>2, NatInductiveSet
<1>4. S \in SUBSET S /\ Cardinality(S) \in Nat
  BY <1>0
<1> QED
  BY <1>3, <1>4

\* An induction on the parts of a finite set, one element more at a time.
LEMMA PartsInduction ==
    ASSUME NEW S, IsFiniteSet(S), NEW Q, {} \in Q,
           \A T \in SUBSET S : \A x \in T : T \ {x} \in Q => T \in Q
    PROVE  S \in Q
<1> DEFINE P == {n \in Nat : \A T \in SUBSET S : Cardinality(T) = n => T \in Q}
<1>0. \A T \in SUBSET S : IsFiniteSet(T) /\ Cardinality(T) \in Nat
  BY FS_Subset, FS_CardinalityType
<1>1. 0 \in P
  BY <1>0, FS_EmptySet
<1>2. ASSUME NEW n \in Nat, n \in P PROVE n + 1 \in P
  <2> SUFFICES ASSUME NEW T \in SUBSET S, Cardinality(T) = n + 1 PROVE T \in Q
    OBVIOUS
  <2>0. n + 1 # 0 /\ IsFiniteSet(T)
    BY <1>0
  <2>1. T # {}
    BY <2>0, FS_EmptySet
  <2>2. PICK x \in T : TRUE
    BY <2>1
  <2>3. T \ {x} \in SUBSET S /\ Cardinality(T \ {x}) = n
    BY <1>0, <2>1, OneLess
  <2> QED
    BY <1>2, <2>3
<1>3. Nat \subseteq P
  <2> HIDE DEF P
  <2> QED
    BY <1>1, <1>2, NatInductiveSet
<1> QED
  BY <1>0, <1>3

LEMMA SumNat ==
    ASSUME NEW S, IsFiniteSet(S), NEW f, \A x \in S : f[x] \in Nat
    PROVE  SumFunctionOnSet(f, S) \in Nat
<1> DEFINE Q == {T \in SUBSET S : SumFunctionOnSet(f, T) \in Nat}
<1>1. {} \in Q
  BY SumEmpty
<1>2. ASSUME NEW T \in SUBSET S, NEW x \in T, T \ {x} \in Q PROVE T \in Q
  <2>1. IsFiniteSet(T) /\ \A z \in T : f[z] \in Int
    BY FS_Subset
  <2>2. SumFunctionOnSet(f, T) = f[x] + SumFunctionOnSet(f, T \ {x})
    BY <2>1, SumRemove
  <2>3. f[x] \in Nat /\ SumFunctionOnSet(f, T \ {x}) \in Nat
    BY <1>2
  <2> QED
    BY <2>2, <2>3
<1>3. S \in Q
  <2> HIDE DEF Q
  <2> QED
    BY <1>1, <1>2, PartsInduction
<1> QED
  BY <1>3

\* Two functions that agree on a set have one sum there.
LEMMA SumSame ==
    ASSUME NEW S, IsFiniteSet(S), NEW f, \A x \in S : f[x] \in Int,
           NEW g, \A x \in S : g[x] = f[x]
    PROVE  SumFunctionOnSet(g, S) = SumFunctionOnSet(f, S)
<1> DEFINE Q == {T \in SUBSET S : SumFunctionOnSet(g, T) = SumFunctionOnSet(f, T)}
<1>1. {} \in Q
  BY SumEmpty
<1>2. ASSUME NEW T \in SUBSET S, NEW x \in T, T \ {x} \in Q PROVE T \in Q
  <2>1. IsFiniteSet(T) /\ (\A z \in T : f[z] \in Int) /\ \A z \in T : g[z] \in Int
    BY FS_Subset
  <2>2. SumFunctionOnSet(f, T) = f[x] + SumFunctionOnSet(f, T \ {x})
    BY <2>1, SumRemove
  <2>3. SumFunctionOnSet(g, T) = g[x] + SumFunctionOnSet(g, T \ {x})
    BY <2>1, SumRemove
  <2>4. g[x] = f[x] /\ SumFunctionOnSet(f, T \ {x}) = SumFunctionOnSet(g, T \ {x})
    BY <1>2
  <2>5. SumFunctionOnSet(g, T) = SumFunctionOnSet(f, T)
    BY <2>2, <2>3, <2>4, Zenon
  <2> QED
    BY <2>5
<1>3. S \in Q
  <2> HIDE DEF Q
  <2> QED
    BY <1>1, <1>2, PartsInduction
<1> QED
  BY <1>3

\* A sum changes by as much as its only element that changes.
LEMMA SumChange ==
    ASSUME NEW S, IsFiniteSet(S), NEW f, \A x \in S : f[x] \in Int,
           NEW y \in S, NEW d \in Int, NEW g, \A x \in S : x # y => g[x] = f[x], g[y] = f[y] + d
    PROVE  SumFunctionOnSet(g, S) = SumFunctionOnSet(f, S) + d
<1>1. \A x \in S : g[x] \in Int
  <2> SUFFICES ASSUME NEW x \in S PROVE g[x] \in Int
    OBVIOUS
  <2>1. CASE x = y
    <3>1. f[y] \in Int /\ g[x] = f[y] + d
      BY <2>1
    <3> QED
      BY <3>1
  <2>2. CASE x # y
    BY <2>2
  <2> QED
    BY <2>1, <2>2
<1> DEFINE T == S \ {y}
<1>2. SumFunctionOnSet(f, S) = f[y] + SumFunctionOnSet(f, T)
  BY SumRemove
<1>3. SumFunctionOnSet(g, S) = g[y] + SumFunctionOnSet(g, T)
  BY <1>1, SumRemove
<1>4. IsFiniteSet(T) /\ (\A x \in T : f[x] \in Int) /\ \A x \in T : g[x] = f[x]
  BY FS_Subset
<1> HIDE DEF T
<1>5. SumFunctionOnSet(g, T) = SumFunctionOnSet(f, T) /\ SumFunctionOnSet(f, T) \in Int
  BY <1>4, SumSame, SumInt
<1>6. f[y] \in Int /\ g[y] = f[y] + d
  OBVIOUS
<1> QED
  BY <1>2, <1>3, <1>5, <1>6

LEMMA SumPlus ==
    ASSUME NEW S, IsFiniteSet(S), NEW f, \A x \in S : f[x] \in Int,
           NEW g, \A x \in S : g[x] \in Int, NEW h, \A x \in S : h[x] = f[x] + g[x]
    PROVE  SumFunctionOnSet(h, S) = SumFunctionOnSet(f, S) + SumFunctionOnSet(g, S)
<1> DEFINE F(T) == SumFunctionOnSet(f, T)
           G(T) == SumFunctionOnSet(g, T)
           H(T) == SumFunctionOnSet(h, T)
           Q == {T \in SUBSET S : H(T) = F(T) + G(T)}
<1>1. {} \in Q
  BY SumEmpty
<1>2. ASSUME NEW T \in SUBSET S, NEW x \in T, T \ {x} \in Q PROVE T \in Q
  <2>1. /\ IsFiniteSet(T) /\ (\A z \in T : f[z] \in Int) /\ (\A z \in T : g[z] \in Int)
        /\ \A z \in T : h[z] \in Int
    BY FS_Subset
  <2>2. F(T) = f[x] + F(T \ {x}) /\ G(T) = g[x] + G(T \ {x}) /\ H(T) = h[x] + H(T \ {x})
    BY <2>1, SumRemove
  <2>3. h[x] = f[x] + g[x] /\ f[x] \in Int /\ g[x] \in Int /\ H(T \ {x}) = F(T \ {x}) + G(T \ {x})
    BY <1>2
  <2>4. IsFiniteSet(T \ {x}) /\ (\A z \in T \ {x} : f[z] \in Int) /\ \A z \in T \ {x} : g[z] \in Int
    BY FS_Subset, <2>1
  <2>5. F(T \ {x}) \in Int /\ G(T \ {x}) \in Int
    BY <2>4, SumInt
  <2>6. H(T) = F(T) + G(T)
    <3> HIDE DEF F, G, H
    <3> QED
      BY <2>2, <2>3, <2>5
  <2> QED
    BY <2>6
<1>3. S \in Q
  <2> HIDE DEF Q
  <2> QED
    BY <1>1, <1>2, PartsInduction
<1> QED
  BY <1>3

LEMMA SumTimes ==
    ASSUME NEW S, IsFiniteSet(S), NEW f, \A x \in S : f[x] \in Int,
           NEW k \in Int, NEW h, \A x \in S : h[x] = k * f[x]
    PROVE  SumFunctionOnSet(h, S) = k * SumFunctionOnSet(f, S)
<1> DEFINE F(T) == SumFunctionOnSet(f, T)
           H(T) == SumFunctionOnSet(h, T)
           Q == {T \in SUBSET S : H(T) = k * F(T)}
<1>1. {} \in Q
  BY SumEmpty
<1>2. ASSUME NEW T \in SUBSET S, NEW x \in T, T \ {x} \in Q PROVE T \in Q
  <2>1. /\ IsFiniteSet(T) /\ (\A z \in T : f[z] \in Int) /\ \A z \in T : h[z] \in Int
    BY FS_Subset
  <2>2. F(T) = f[x] + F(T \ {x}) /\ H(T) = h[x] + H(T \ {x})
    BY <2>1, SumRemove
  <2>3. h[x] = k * f[x] /\ f[x] \in Int /\ H(T \ {x}) = k * F(T \ {x})
    BY <1>2
  <2>4. IsFiniteSet(T \ {x}) /\ \A z \in T \ {x} : f[z] \in Int
    BY FS_Subset, <2>1
  <2>5. F(T \ {x}) \in Int
    BY <2>4, SumInt
  <2>6. H(T) = k * F(T)
    <3> HIDE DEF F, H
    <3> QED
      BY <2>2, <2>3, <2>5
  <2> QED
    BY <2>6
<1>3. S \in Q
  <2> HIDE DEF Q
  <2> QED
    BY <1>1, <1>2, PartsInduction
<1> QED
  BY <1>3

\* One element is no more than a sum of naturals it is part of.
LEMMA SumBounds ==
    ASSUME NEW S, IsFiniteSet(S), NEW f, \A x \in S : f[x] \in Nat, NEW y \in S
    PROVE  f[y] <= SumFunctionOnSet(f, S)
<1>1. SumFunctionOnSet(f, S) = f[y] + SumFunctionOnSet(f, S \ {y})
  BY SumRemove
<1>2. IsFiniteSet(S \ {y}) /\ \A x \in S \ {y} : f[x] \in Nat
  BY FS_Subset
<1>3. SumFunctionOnSet(f, S \ {y}) \in Nat
  BY <1>2, SumNat
<1>4. f[y] \in Nat
  OBVIOUS
<1> QED
  BY <1>1, <1>3, <1>4

\* The sum of all values of a function.
LEMMA SumAll ==
    ASSUME NEW f
    PROVE  SumFunction(f) = SumFunctionOnSet(f, DOMAIN f)
  BY DEF SumFunction

(* Sums over the elements of a sequence.                                   *)

SumSeq(w, s) == SumFunction([i \in DOMAIN s |-> w[s[i]]])
SumFirst(w, s, n) == SumFunctionOnSet([i \in DOMAIN s |-> w[s[i]]], 1..n)

LEMMA SumFirstStep ==
    ASSUME NEW S, NEW w \in [S -> Nat], NEW s \in Seq(S)
    PROVE  /\ SumSeq(w, s) = SumFirst(w, s, Len(s))
           /\ SumFirst(w, s, 0) = 0
           /\ \A n \in 0..Len(s) : SumFirst(w, s, n) \in Nat
           /\ \A n \in Nat : n + 1 <= Len(s) => SumFirst(w, s, n + 1) = SumFirst(w, s, n) + w[s[n + 1]]
<1> DEFINE f == [i \in DOMAIN s |-> w[s[i]]]
<1>1. Len(s) \in Nat /\ DOMAIN s = 1..Len(s) /\ DOMAIN f = 1..Len(s) /\ \A i \in 1..Len(s) : f[i] \in Nat
  BY LenProperties
<1>2. SumSeq(w, s) = SumFirst(w, s, Len(s))
  BY <1>1, SumAll DEF SumSeq, SumFirst
<1>3. 1..0 = {}
  OBVIOUS
<1>4. SumFirst(w, s, 0) = 0
  BY <1>3, SumEmpty DEF SumFirst
<1>5. ASSUME NEW n \in 0..Len(s) PROVE SumFirst(w, s, n) \in Nat
  <2>1. IsFiniteSet(1..n) /\ \A i \in 1..n : f[i] \in Nat
    BY <1>1, FS_Interval
  <2> HIDE DEF f
  <2>2. SumFunctionOnSet(f, 1..n) \in Nat
    BY <2>1, SumNat
  <2> QED
    BY <2>2 DEF SumFirst, f
<1>6. ASSUME NEW n \in Nat, n + 1 <= Len(s)
      PROVE  SumFirst(w, s, n + 1) = SumFirst(w, s, n) + w[s[n + 1]]
  <2>0. IsFiniteSet(1..(n + 1))
    BY FS_Interval
  <2>7. n + 1 \in 1..(n + 1) /\ n + 1 \in 1..Len(s) /\ (1..(n + 1)) \ {n + 1} = 1..n
    BY <1>1, <1>6
  <2>8. f[n + 1] = w[s[n + 1]] /\ f[n + 1] \in Nat
    BY <1>1, <2>7
  <2>9. \A i \in 1..(n + 1) : f[i] \in Int
    BY <1>1, <1>6
  <2>1. /\ IsFiniteSet(1..(n + 1)) /\ \A i \in 1..(n + 1) : f[i] \in Int
        /\ n + 1 \in 1..(n + 1) /\ (1..(n + 1)) \ {n + 1} = 1..n
        /\ f[n + 1] = w[s[n + 1]] /\ f[n + 1] \in Nat
    BY <2>0, <2>7, <2>8, <2>9
  <2> HIDE DEF f
  <2>2. SumFunctionOnSet(f, 1..(n + 1)) = f[n + 1] + SumFunctionOnSet(f, (1..(n + 1)) \ {n + 1})
    BY <2>1, SumRemove
  <2>3. SumFunctionOnSet(f, 1..n) \in Nat
    BY <1>1, <1>5, <1>6, SMTT(30) DEF SumFirst, f
  <2>4. SumFunctionOnSet(f, 1..(n + 1)) = w[s[n + 1]] + SumFunctionOnSet(f, 1..n)
    BY <2>1, <2>2
  <2>5. w[s[n + 1]] \in Nat
    BY <2>1
  <2>6. SumFunctionOnSet(f, 1..(n + 1)) = SumFunctionOnSet(f, 1..n) + w[s[n + 1]]
    BY <2>3, <2>4, <2>5
  <2> QED
    BY <2>6 DEF SumFirst, f
<1> QED
  BY <1>2, <1>4, <1>5, <1>6

LEMMA SumSeqNat ==
    ASSUME NEW S, NEW w \in [S -> Nat], NEW s \in Seq(S)
    PROVE  SumSeq(w, s) \in Nat
<1>1. Len(s) \in Nat
  BY LenProperties
<1>2. Len(s) \in 0..Len(s)
  BY <1>1
<1> QED
  BY <1>2, SumFirstStep

LEMMA SumSeqEmpty ==
    ASSUME NEW S, NEW w \in [S -> Nat]
    PROVE  SumSeq(w, <<>>) = 0
<1>1. <<>> \in Seq(S) /\ Len(<<>>) = 0
  BY EmptySeq
<1> QED
  BY <1>1, SumFirstStep

LEMMA SumFirstNext ==
    ASSUME NEW S, NEW w \in [S -> Nat], NEW s \in Seq(S)
    PROVE  \A n \in Nat : \A m \in Nat : m = n + 1 /\ m <= Len(s) =>
               /\ SumFirst(w, s, m) = SumFirst(w, s, n) + w[s[m]]
               /\ SumFirst(w, s, n) \in Nat /\ w[s[m]] \in Nat
<1> SUFFICES ASSUME NEW n \in Nat, NEW m \in Nat, m = n + 1, m <= Len(s)
             PROVE  /\ SumFirst(w, s, m) = SumFirst(w, s, n) + w[s[m]]
                    /\ SumFirst(w, s, n) \in Nat /\ w[s[m]] \in Nat
  OBVIOUS
<1>1. n \in 0..Len(s) /\ m \in 1..Len(s)
  BY LenProperties
<1>2. SumFirst(w, s, n) \in Nat /\ SumFirst(w, s, n + 1) = SumFirst(w, s, n) + w[s[n + 1]]
  BY <1>1, SumFirstStep
<1>3. w[s[m]] \in Nat
  BY <1>1, LenProperties
<1> QED
  BY <1>2, <1>3

\* Two sequences whose elements agree, s from 1 on and r from d + 1 on.
Shifted(s, r, d, N) == \A i \in 1..N : \A j \in Nat : j = d + i => s[i] = r[j]

ShiftLaw(w, s, r) ==
    \A d, N, m \in Nat :
        N <= Len(s) /\ m = d + N /\ m <= Len(r) /\ Shifted(s, r, d, N) =>
            SumFirst(w, r, m) = SumFirst(w, r, d) + SumFirst(w, s, N)

LEMMA SumFirstShift ==
    ASSUME NEW S, NEW w \in [S -> Nat], NEW s \in Seq(S), NEW r \in Seq(S)
    PROVE  ShiftLaw(w, s, r)
<1> SUFFICES ASSUME NEW d \in Nat, NEW N \in Nat, NEW m \in Nat,
                    N <= Len(s), m = d + N, m <= Len(r), Shifted(s, r, d, N)
             PROVE  SumFirst(w, r, m) = SumFirst(w, r, d) + SumFirst(w, s, N)
  BY DEF ShiftLaw
<1> DEFINE P == {n \in Nat : n <= N => \A k \in Nat : k = d + n =>
                                   SumFirst(w, r, k) = SumFirst(w, r, d) + SumFirst(w, s, n)}
<1>0. Len(s) \in Nat /\ Len(r) \in Nat /\ d \in 0..Len(r)
  BY LenProperties
<1>4. SumFirst(w, r, d) \in Nat /\ SumFirst(w, s, 0) = 0
  BY <1>0, SumFirstStep
<1>6. \A n \in Nat : \A j \in Nat : j = n + 1 /\ j <= Len(s) =>
               /\ SumFirst(w, s, j) = SumFirst(w, s, n) + w[s[j]]
               /\ SumFirst(w, s, n) \in Nat /\ w[s[j]] \in Nat
  BY SumFirstNext, Zenon
<1>7. \A n \in Nat : \A j \in Nat : j = n + 1 /\ j <= Len(r) =>
               /\ SumFirst(w, r, j) = SumFirst(w, r, n) + w[r[j]]
               /\ SumFirst(w, r, n) \in Nat /\ w[r[j]] \in Nat
  BY SumFirstNext, Zenon
<1>1. 0 \in P
  <2> SUFFICES ASSUME NEW k \in Nat, k = d + 0
               PROVE  SumFirst(w, r, k) = SumFirst(w, r, d) + SumFirst(w, s, 0)
    OBVIOUS
  <2>1. k = d
    OBVIOUS
  <2> QED
    BY <1>4, <2>1
<1>2. ASSUME NEW n \in Nat, n \in P PROVE n + 1 \in P
  <2> SUFFICES ASSUME n + 1 <= N, NEW k \in Nat, k = d + (n + 1)
               PROVE  SumFirst(w, r, k) = SumFirst(w, r, d) + SumFirst(w, s, n + 1)
    OBVIOUS
  <2> DEFINE m1 == n + 1
             l == d + n
  <2>1. l \in Nat /\ k = l + 1 /\ k <= Len(r) /\ m1 <= Len(s) /\ m1 \in 1..N /\ m1 = n + 1
        /\ l = d + n /\ k = d + m1 /\ n <= N /\ m1 \in Nat
    BY <1>0
  <2> HIDE DEF m1, l
  <2>2. SumFirst(w, r, l) = SumFirst(w, r, d) + SumFirst(w, s, n)
    BY <1>2, <2>1
  <2>3. SumFirst(w, r, k) = SumFirst(w, r, l) + w[r[k]]
    BY <1>7, <2>1
  <2>4. /\ SumFirst(w, s, m1) = SumFirst(w, s, n) + w[s[m1]]
        /\ SumFirst(w, s, n) \in Nat /\ w[s[m1]] \in Nat
    BY <1>6, <2>1
  <2>5. s[m1] = r[k]
    BY <2>1 DEF Shifted
  <2> DEFINE x == w[s[m1]]
             a == SumFirst(w, r, d)
             b == SumFirst(w, s, n)
  <2>8. SumFirst(w, r, k) = (a + b) + x
    BY <2>2, <2>3, <2>5, Zenon
  <2>9. SumFirst(w, s, m1) = b + x /\ x \in Nat /\ a \in Nat /\ b \in Nat
    BY <1>4, <2>4
  <2> HIDE DEF x, a, b
  <2>12. (a + b) + x = a + (b + x)
    BY <2>9
  <2>10. SumFirst(w, r, k) = SumFirst(w, r, d) + SumFirst(w, s, m1)
    BY <2>8, <2>9, <2>12, Zenon DEF a
  <2> QED
    BY <2>10 DEF m1
<1>3. Nat \subseteq P
  <2> HIDE DEF P
  <2> QED
    BY <1>1, <1>2, NatInductiveSet
<1> QED
  BY <1>3

LEMMA SumSeqAppend ==
    ASSUME NEW S, NEW w \in [S -> Nat], NEW s \in Seq(S), NEW e \in S
    PROVE  SumSeq(w, Append(s, e)) = SumSeq(w, s) + w[e]
<1> DEFINE r == Append(s, e)
<1>1. r \in Seq(S) /\ Len(r) = Len(s) + 1 /\ (\A i \in 1..Len(s) : s[i] = r[i]) /\ r[Len(s) + 1] = e
  BY AppendProperties
<1>2. Len(s) \in Nat
  BY LenProperties
<1> HIDE DEF r
<1>3. SumFirst(w, r, Len(s)) = SumFirst(w, s, Len(s))
  <2>1. Shifted(s, r, 0, Len(s)) /\ 0 + Len(s) = Len(s) /\ Len(s) <= Len(r)
    BY <1>1, <1>2 DEF Shifted
  <2>2. SumFirst(w, r, Len(s)) = SumFirst(w, r, 0) + SumFirst(w, s, Len(s))
    <3>1. 0 \in Nat /\ Len(s) <= Len(s) /\ Len(s) = 0 + Len(s)
      BY <1>2
    <3> QED
      BY <1>1, <1>2, <2>1, <3>1, SumFirstShift DEF ShiftLaw
  <2>3. SumFirst(w, r, 0) = 0
    BY <1>1, SumFirstStep
  <2>4. Len(s) \in 0..Len(s)
    BY <1>2
  <2>5. SumFirst(w, s, Len(s)) \in Nat
    BY <2>4, SumFirstStep
  <2>6. SumFirst(w, r, Len(s)) = 0 + SumFirst(w, s, Len(s))
    BY <2>2, <2>3, Zenon
  <2> QED
    BY <2>5, <2>6
<1>4. SumFirst(w, r, Len(r)) = SumFirst(w, r, Len(s)) + w[r[Len(s) + 1]]
  <2> DEFINE m == Len(r)
             n == Len(s)
  <2>1. m <= Len(r) /\ m = n + 1 /\ n \in Nat /\ m \in Nat
    BY <1>1, <1>2
  <2>2. \A i \in Nat : \A j \in Nat : j = i + 1 /\ j <= Len(r) =>
            /\ SumFirst(w, r, j) = SumFirst(w, r, i) + w[r[j]]
            /\ SumFirst(w, r, i) \in Nat /\ w[r[j]] \in Nat
    BY <1>1, SumFirstNext, Zenon
  <2>4. r[Len(s) + 1] = r[m]
    BY <1>1
  <2> HIDE DEF m, n
  <2>3. SumFirst(w, r, m) = SumFirst(w, r, n) + w[r[m]]
    BY <2>1, <2>2
  <2> QED
    BY <2>3, <2>4, Zenon DEF m, n
<1>5. SumSeq(w, r) = SumFirst(w, r, Len(r)) /\ SumSeq(w, s) = SumFirst(w, s, Len(s))
  BY <1>1, SumFirstStep
<1>6. SumSeq(w, r) = SumSeq(w, s) + w[e]
  BY <1>1, <1>3, <1>4, <1>5, Zenon
<1> QED
  BY <1>6 DEF r

LEMMA SumSeqTail ==
    ASSUME NEW S, NEW w \in [S -> Nat], NEW s \in Seq(S), s # <<>>
    PROVE  SumSeq(w, s) = w[Head(s)] + SumSeq(w, Tail(s))
<1> DEFINE t == Tail(s)
<1>1. /\ t \in Seq(S) /\ Len(t) = Len(s) - 1 /\ Head(s) = s[1] /\ Head(s) \in S
      /\ \A i \in 1..Len(t) : t[i] = s[i + 1]
  BY HeadTailProperties
<1>2. Len(s) \in Nat /\ Len(t) \in Nat /\ Len(s) # 0 /\ Len(s) = 1 + Len(t)
  BY <1>1, LenProperties, EmptySeq
<1> HIDE DEF t
<1>3. Shifted(t, s, 1, Len(t)) /\ Len(s) <= Len(s)
  BY <1>1, <1>2 DEF Shifted
<1>4. SumFirst(w, s, Len(s)) = SumFirst(w, s, 1) + SumFirst(w, t, Len(t))
  <2>1. 1 \in Nat /\ Len(t) <= Len(t)
    BY <1>2
  <2>2. ShiftLaw(w, t, s)
    <3>1. t \in Seq(S)
      BY <1>1
    <3> QED
      BY <3>1, SumFirstShift
  <2> DEFINE a == Len(s)
             b == Len(t)
  <2>3. /\ b <= Len(t) /\ a = 1 + b /\ a <= Len(s) /\ Shifted(t, s, 1, b)
        /\ a \in Nat /\ b \in Nat /\ 1 \in Nat
    BY <1>2, <1>3, <2>1
  <2> HIDE DEF a, b
  <2>4. SumFirst(w, s, a) = SumFirst(w, s, 1) + SumFirst(w, t, b)
    BY <2>2, <2>3 DEF ShiftLaw
  <2> QED
    BY <2>4 DEF a, b
<1>5. SumFirst(w, s, 1) = SumFirst(w, s, 0) + w[s[1]] /\ SumFirst(w, s, 0) = 0
  <2>1. 1 = 0 + 1 /\ 1 <= Len(s)
    BY <1>2
  <2> QED
    BY <2>1, SumFirstNext, SumFirstStep
<1>6. w[Head(s)] \in Nat
  BY <1>1
<1>7. SumFirst(w, s, 1) = w[Head(s)]
  BY <1>1, <1>5, <1>6
<1>8. SumSeq(w, s) = SumFirst(w, s, Len(s)) /\ SumSeq(w, t) = SumFirst(w, t, Len(t))
  BY <1>1, <1>2, SumFirstStep
<1>9. SumSeq(w, s) = w[Head(s)] + SumSeq(w, t)
  BY <1>4, <1>7, <1>8, Zenon
<1> QED
  BY <1>9 DEF t

LEMMA SumSeqConcat ==
    ASSUME NEW S, NEW w \in [S -> Nat], NEW s \in Seq(S), NEW r \in Seq(S)
    PROVE  SumSeq(w, s \o r) = SumSeq(w, s) + SumSeq(w, r)
<1> DEFINE c == s \o r
<1>1. /\ c \in Seq(S) /\ Len(c) = Len(s) + Len(r)
      /\ \A i \in 1..(Len(s) + Len(r)) : c[i] = IF i <= Len(s) THEN s[i] ELSE r[i - Len(s)]
  BY ConcatProperties
<1>2. Len(s) \in Nat /\ Len(r) \in Nat /\ Len(c) \in Nat
  BY <1>1, LenProperties
<1> HIDE DEF c
<1>3. Shifted(s, c, 0, Len(s)) /\ Len(s) = 0 + Len(s) /\ Len(s) <= Len(c) /\ Len(c) <= Len(c)
  BY <1>1, <1>2 DEF Shifted
<1>4. Shifted(r, c, Len(s), Len(r))
  <2> SUFFICES ASSUME NEW i \in 1..Len(r), NEW j \in Nat, j = Len(s) + i PROVE r[i] = c[j]
    BY DEF Shifted
  <2>1. j \in 1..(Len(s) + Len(r)) /\ ~(j <= Len(s)) /\ j - Len(s) = i
    BY <1>2
  <2> QED
    BY <1>1, <2>1
<1>12. 0 \in Nat /\ Len(s) <= Len(s) /\ Len(r) <= Len(r)
  BY <1>2
<1>5. SumFirst(w, c, Len(s)) = SumFirst(w, c, 0) + SumFirst(w, s, Len(s))
  BY <1>1, <1>2, <1>3, <1>12, SumFirstShift DEF ShiftLaw
<1>6. SumFirst(w, c, Len(c)) = SumFirst(w, c, Len(s)) + SumFirst(w, r, Len(r))
  <2>2. ShiftLaw(w, r, c)
    <3>1. c \in Seq(S)
      BY <1>1
    <3> QED
      BY <3>1, SumFirstShift
  <2> DEFINE a == Len(s)
             b == Len(r)
             n == Len(c)
  <2>3. /\ b <= Len(r) /\ n = a + b /\ n <= Len(c) /\ Shifted(r, c, a, b)
        /\ a \in Nat /\ b \in Nat /\ n \in Nat
    BY <1>1, <1>2, <1>3, <1>4, <1>12
  <2> HIDE DEF a, b, n
  <2>4. SumFirst(w, c, n) = SumFirst(w, c, a) + SumFirst(w, r, b)
    BY <2>2, <2>3 DEF ShiftLaw
  <2> QED
    BY <2>4 DEF a, b, n
<1>7. /\ SumSeq(w, s) = SumFirst(w, s, Len(s)) /\ SumSeq(w, r) = SumFirst(w, r, Len(r))
      /\ SumSeq(w, c) = SumFirst(w, c, Len(c)) /\ SumFirst(w, c, 0) = 0
  BY <1>1, SumFirstStep
<1>8. SumSeq(w, s) \in Nat
  BY <1>2, SumSeqNat
<1>9. SumFirst(w, c, Len(s)) = 0 + SumSeq(w, s)
  BY <1>5, <1>7, <1>8, Zenon
<1>10. SumFirst(w, c, Len(s)) = SumSeq(w, s)
  BY <1>8, <1>9
<1>11. SumSeq(w, c) = SumSeq(w, s) + SumSeq(w, r)
  BY <1>6, <1>7, <1>10, Zenon
<1> QED
  BY <1>11 DEF c

\* Every element is no more than the sum.
LEMMA SumSeqBounds ==
    ASSUME NEW S, NEW w \in [S -> Nat], NEW s \in Seq(S), NEW b \in Nat, NEW n \in Nat,
           \A i \in DOMAIN s : w[s[i]] <= b, Len(s) <= n
    PROVE  SumSeq(w, s) <= n * b
<1> DEFINE P == {k \in Nat : k <= Len(s) => SumFirst(w, s, k) <= k * b}
<1>0. Len(s) \in Nat /\ DOMAIN s = 1..Len(s)
  BY LenProperties
<1>1. 0 \in P
  BY SumFirstStep
<1>2. ASSUME NEW k \in Nat, k \in P PROVE k + 1 \in P
  <2> SUFFICES ASSUME k + 1 <= Len(s) PROVE SumFirst(w, s, k + 1) <= (k + 1) * b
    OBVIOUS
  <2> DEFINE m == k + 1
  <2>1. m \in 1..Len(s) /\ m = k + 1 /\ m <= Len(s) /\ k <= Len(s)
    BY <1>0
  <2> HIDE DEF m
  <2>2. SumFirst(w, s, m) = SumFirst(w, s, k) + w[s[m]] /\ SumFirst(w, s, k) \in Nat /\ w[s[m]] \in Nat
    BY <2>1, SumFirstNext
  <2>3. w[s[m]] <= b
    BY <1>0, <2>1
  <2>4. SumFirst(w, s, k) <= k * b
    BY <1>2, <2>1
  <2>5. (k + 1) * b = k * b + b /\ k * b \in Nat
    OBVIOUS
  <2> DEFINE x == w[s[m]]
             y == SumFirst(w, s, k)
             z == k * b
  <2> HIDE DEF x, y, z
  <2>6. y + x <= z + b
    BY <2>2, <2>3, <2>4, <2>5, SMTT(30) DEF x, y, z
  <2>7. SumFirst(w, s, m) <= (k + 1) * b
    BY <2>2, <2>5, <2>6 DEF x, y, z
  <2> QED
    BY <2>7 DEF m
<1>3. Nat \subseteq P
  <2> HIDE DEF P
  <2> QED
    BY <1>1, <1>2, NatInductiveSet
<1>4. SumSeq(w, s) <= Len(s) * b /\ SumSeq(w, s) \in Nat
  BY <1>0, <1>3, SumFirstStep, SumSeqNat
<1>5. Len(s) * b <= n * b
  <2>1. n - Len(s) \in Nat
    BY <1>0
  <2>2. (n - Len(s)) * b \in Nat
    BY <2>1
  <2>3. n * b = Len(s) * b + (n - Len(s)) * b
    BY <1>0
  <2>4. Len(s) * b \in Nat
    BY <1>0
  <2> QED
    BY <2>2, <2>3, <2>4
<1>6. Len(s) * b \in Nat /\ n * b \in Nat
  BY <1>0
<1> DEFINE x == SumSeq(w, s)
           y == Len(s) * b
           z == n * b
<1>7. x \in Nat /\ y \in Nat /\ z \in Nat /\ x <= y /\ y <= z
  BY <1>4, <1>5, <1>6
<1> HIDE DEF x, y, z
<1>8. x <= z
  BY <1>7
<1> QED
  BY <1>8 DEF x, z

(* A packet that goes from one queue to the next.                          *)

LEMMA HeadFirst ==
    ASSUME NEW S, NEW x \in Seq(S), x # <<>>
    PROVE  x = <<Head(x)>> \o Tail(x)
<1> DEFINE h == <<Head(x)>>
           t == Tail(x)
<1>1. /\ h \in Seq(S) /\ Len(h) = 1 /\ h[1] = Head(x) /\ Head(x) = x[1]
      /\ t \in Seq(S) /\ Len(t) = Len(x) - 1 /\ \A i \in 1..Len(t) : t[i] = x[i + 1]
  BY HeadTailProperties
<1>2. Len(x) \in Nat \ {0}
  BY EmptySeq
<1> HIDE DEF h, t
<1>3. /\ h \o t \in Seq(S) /\ Len(h \o t) = Len(h) + Len(t)
      /\ \A i \in 1 .. (Len(h) + Len(t)) : (h \o t)[i] = IF i <= Len(h) THEN h[i] ELSE t[i - Len(h)]
  <2>1. h \in Seq(S) /\ t \in Seq(S)
    BY <1>1
  <2> QED
    BY <2>1, ConcatProperties
<1> DEFINE c == h \o t
<1>4. c \in Seq(S) /\ Len(c) = Len(x)
      /\ \A i \in 1 .. Len(x) : c[i] = IF i <= 1 THEN h[i] ELSE t[i - 1]
  BY <1>1, <1>2, <1>3
<1> HIDE DEF c
<1>5. ASSUME NEW i \in 1..Len(x) PROVE x[i] = c[i]
  <2>1. CASE i = 1
    BY <1>1, <1>4, <2>1
  <2>2. CASE i # 1
    <3>1. ~(i <= 1) /\ i - 1 \in 1..Len(t) /\ (i - 1) + 1 = i
      BY <1>1, <1>2, <2>2
    <3> QED
      BY <1>1, <1>4, <3>1
  <2> QED
    BY <2>1, <2>2
<1>6. x = c
  BY <1>4, <1>5, SeqEqual
<1> QED
  BY <1>6 DEF c, h, t

LEMMA MoveHead ==
    ASSUME NEW S, NEW w \in Seq(S), NEW x \in Seq(S), x # <<>>
    PROVE  Append(w, Head(x)) \o Tail(x) = w \o x
<1> DEFINE h == <<Head(x)>>
<1>1. h \in Seq(S) /\ Tail(x) \in Seq(S) /\ Head(x) \in S
  BY HeadTailProperties
<1>2. x = h \o Tail(x)
  BY HeadFirst
<1>3. Append(w, Head(x)) = w \o h
  BY <1>1, ConcatOne
<1> HIDE DEF h
<1>4. (w \o h) \o Tail(x) = w \o (h \o Tail(x))
  BY <1>1, ConcatAssociative, SMTT(30)
<1> QED
  BY <1>2, <1>3, <1>4, Zenon

LEMMA ConcatAppend ==
    ASSUME NEW S, NEW w \in Seq(S), NEW x \in Seq(S), NEW e \in S
    PROVE  w \o Append(x, e) = Append(w \o x, e)
<1>1. <<e>> \in Seq(S) /\ w \o x \in Seq(S)
  BY ConcatProperties
<1>2. Append(x, e) = x \o <<e>> /\ Append(w \o x, e) = (w \o x) \o <<e>>
  BY <1>1, ConcatOne
<1>3. (w \o x) \o <<e>> = w \o (x \o <<e>>)
  BY <1>1, ConcatAssociative
<1> QED
  BY <1>2, <1>3, Zenon

(* The types of the state of the nodes.                                    *)

Kinds == {"TriggerTransmit", "TriggerAllocator", "NotifyAllocationFinish"}
Frames(mode) == [VLs -> IF mode = "PFC" THEN {0, CreditMax} ELSE 0 .. CreditMax]
Packets(mode) == {Data(f) : f \in FlowIds} \cup {Control(c) : c \in Frames(mode)}
FcStates == [txfree : [VLs -> Nat], toReturn : [VLs -> Nat], share : Nat,
             open : [VLs -> {0, CreditMax}], snd : [VLs -> {0, CreditMax}],
             last : [VLs -> {0, CreditMax}]]
PortStates(mode) == [busy : BOOLEAN, egress : Seq(Packets(mode)), wire : Seq(Packets(mode)),
                     running : BOOLEAN, oneMore : BOOLEAN]
Accounts == [Ports -> [VLs -> Int]]
NodeStates(mode) ==
    [fc : [Ports -> FcStates], voq : [VoqKeys -> Seq(Packets(mode))],
     inBuf : Accounts, outBuf : Accounts,
     port : [Ports -> PortStates(mode)], events : [Ports -> Seq(Kinds)]]

LEMMA NumbersTyped ==
    /\ VlNum \in Nat \ {0} /\ CellBytes \in Nat \ {0} /\ Grain \in Nat \ {0}
    /\ CreditMod \in Nat /\ CreditMod >= 2 /\ CreditMax \in Nat /\ CreditMax >= 1
    /\ InitCrd \in Nat /\ SharedCrd \in Nat /\ CtrlBytes \in Nat \ {0}
    /\ PfcUpThld \in Nat /\ PfcLowThld \in Nat
    /\ VLs \subseteq Nat /\ 0 \in VLs
  BY FlowControlAssumption DEF CreditMax, VLs

LEMMA FlowsTyped ==
    /\ FlowIds \subseteq Nat \ {0} /\ IsFiniteSet(FlowIds)
    /\ \A f \in FlowIds : /\ Flows[f].src \in Ports /\ Flows[f].vl \in VLs
                          /\ Flows[f].bytes \in Nat \ {0} /\ Flows[f].announced \in Nat
                          /\ Flows[f].via \in {"TP", "LDST"}
<1> DEFINE R == [src : Ports, dst : {NodeOf[p] : p \in Ports}, vl : VLs,
                 bytes : Nat \ {0}, announced : Nat, via : {"TP", "LDST"}]
<1>1. Flows \in Seq(R)
  BY FabricAssumption
<1> HIDE DEF R
<1>2. FlowIds = 1..Len(Flows) /\ Len(Flows) \in Nat /\ \A f \in FlowIds : Flows[f] \in R
  BY <1>1, LenProperties DEF FlowIds
<1>3. IsFiniteSet(1..Len(Flows))
  BY <1>2, FS_Interval
<1> QED
  BY <1>2, <1>3 DEF R

\* No frame that is sent is the absence of one.
LEMMA FrameIsOne ==
    ASSUME NEW T, NEW c \in [VLs -> T]
    PROVE  c # NoFrame
<1>1. 0 \in DOMAIN c /\ 0 \notin DOMAIN NoFrame
  BY NumbersTyped DEF NoFrame
<1> QED
  BY <1>1

LEMMA PacketKinds ==
    ASSUME NEW mode, NEW pkt \in Packets(mode)
    PROVE  /\ IsData(pkt) => pkt.flow \in FlowIds /\ pkt = Data(pkt.flow)
           /\ ~IsData(pkt) => pkt.credits \in Frames(mode) /\ pkt = Control(pkt.credits)
           /\ Bytes(pkt) \in Nat \ {0}
<1>1. CASE \E f \in FlowIds : pkt = Data(f)
  BY <1>1, FlowsTyped DEF Data, IsData, Bytes
<1>2. CASE \E c \in Frames(mode) : pkt = Control(c)
  BY <1>2, NumbersTyped DEF Control, IsData, Bytes
<1> QED
  BY <1>1, <1>2 DEF Packets

LEMMA DataPacket ==
    ASSUME NEW f \in FlowIds
    PROVE  /\ IsData(Data(f)) /\ Data(f).flow = f /\ Bytes(Data(f)) = Flows[f].bytes
           /\ \A mode : Data(f) \in Packets(mode)
  BY FlowsTyped DEF Data, IsData, Bytes, Packets

LEMMA ControlPacket ==
    ASSUME NEW c
    PROVE  /\ ~IsData(Control(c)) /\ Control(c).credits = c /\ Bytes(Control(c)) = CtrlBytes
           /\ \A mode : c \in Frames(mode) => Control(c) \in Packets(mode)
  BY DEF Control, IsData, Bytes, Packets

\* A finite set of numbers has a greatest one.
LEMMA GreatestOf ==
    ASSUME NEW S, S \subseteq Nat, IsFiniteSet(S), S # {}
    PROVE  \E m \in S : \A k \in S : k <= m
<1> DEFINE Q == {T \in SUBSET S : T # {} => \E m \in T : \A k \in T : k <= m}
<1>1. {} \in Q
  OBVIOUS
<1>2. ASSUME NEW T \in SUBSET S, NEW x \in T, T \ {x} \in Q PROVE T \in Q
  <2>1. CASE T \ {x} = {}
    BY <2>1
  <2>2. CASE T \ {x} # {}
    <3>1. PICK m \in T \ {x} : \A k \in T \ {x} : k <= m
      BY <1>2, <2>2
    <3>2. CASE x <= m
      BY <3>1, <3>2
    <3>3. CASE ~(x <= m)
      BY <3>1, <3>3
    <3> QED
      BY <3>2, <3>3
  <2> QED
    BY <2>1, <2>2
<1>3. S \in Q
  <2> HIDE DEF Q
  <2> QED
    BY <1>1, <1>2, PartsInduction
<1> QED
  BY <1>3

\* An order of the elements of a set of numbers exists.
LEMMA InOrderExists ==
    ASSUME NEW S, S \subseteq Nat, IsFiniteSet(S)
    PROVE  /\ InOrder(S) \in [1 .. Cardinality(S) -> S]
           /\ \A i, j \in 1 .. Cardinality(S) : i < j => InOrder(S)[i] < InOrder(S)[j]
<1> DEFINE Ordered(T, q) == /\ q \in [1 .. Cardinality(T) -> T]
                            /\ \A i, j \in DOMAIN q : i < j => q[i] < q[j]
           P == {n \in Nat : \A T \in SUBSET S : Cardinality(T) = n => \E q : Ordered(T, q)}
<1>0. \A T \in SUBSET S : IsFiniteSet(T) /\ Cardinality(T) \in Nat
  BY FS_Subset, FS_CardinalityType
<1>1. 0 \in P
  <2> SUFFICES ASSUME NEW T \in SUBSET S, Cardinality(T) = 0 PROVE \E q : Ordered(T, q)
    OBVIOUS
  <2>1. Ordered(T, [i \in 1..0 |-> 0])
    OBVIOUS
  <2> QED
    BY <2>1
<1>2. ASSUME NEW n \in Nat, n \in P PROVE n + 1 \in P
  <2> SUFFICES ASSUME NEW T \in SUBSET S, Cardinality(T) = n + 1 PROVE \E q : Ordered(T, q)
    OBVIOUS
  <2>1. T # {} /\ IsFiniteSet(T)
    BY <1>0, FS_EmptySet
  <2>2. PICK m \in T : \A k \in T : k <= m
    BY <2>1, GreatestOf
  <2>3. T \ {m} \in SUBSET S /\ Cardinality(T \ {m}) = n
    BY <1>0, <2>1, <2>2, OneLess
  <2>4. PICK q : Ordered(T \ {m}, q)
    BY <1>2, <2>3
  <2> DEFINE r == [i \in 1..(n + 1) |-> IF i = n + 1 THEN m ELSE q[i]]
  <2>5. q \in [1..n -> T \ {m}] /\ (\A i, j \in 1..n : i < j => q[i] < q[j])
    BY <2>3, <2>4
  <2>6. r \in [1..(n + 1) -> T]
    BY <2>5
  <2>7. ASSUME NEW i \in 1..(n + 1), NEW j \in 1..(n + 1), i < j PROVE r[i] < r[j]
    <3>1. i \in 1..n /\ r[i] = q[i] /\ q[i] \in T \ {m}
      BY <2>5, <2>7
    <3>2. CASE j = n + 1
      <4>1. r[j] = m /\ q[i] <= m /\ q[i] # m /\ q[i] \in Nat /\ m \in Nat
        BY <2>2, <3>1, <3>2
      <4> QED
        BY <3>1, <4>1
    <3>3. CASE j # n + 1
      <4>1. j \in 1..n /\ r[j] = q[j]
        BY <3>3
      <4> QED
        BY <2>5, <2>7, <3>1, <4>1
    <3> QED
      BY <3>2, <3>3
  <2> QED
    BY <2>6, <2>7
<1>3. Nat \subseteq P
  <2> HIDE DEF P
  <2> QED
    BY <1>1, <1>2, NatInductiveSet
<1>4. \E q : Ordered(S, q)
  BY <1>0, <1>3
<1> QED
  BY <1>4 DEF InOrder

LEMMA PortsTyped ==
    /\ Ports \subseteq Nat /\ IsFiniteSet(Ports) /\ Peer \in [Ports -> Ports]
    /\ \A p \in Ports : Peer[Peer[p]] = p /\ Peer[p] # p
    /\ \A p \in Ports : /\ p \in PortsOf(p) /\ PortsOf(p) \subseteq Ports /\ IsFiniteSet(PortsOf(p))
                        /\ Cardinality(PortsOf(p)) \in Nat \ {0}
                        /\ FedBy(p) \subseteq Ports /\ IsFiniteSet(FedBy(p))
    /\ IsFiniteSet(VLs)
<1>1. /\ Ports \subseteq Nat /\ IsFiniteSet(Ports) /\ Peer \in [Ports -> Ports]
      /\ \A p \in Ports : Peer[Peer[p]] = p /\ Peer[p] # p
  BY FabricAssumption
<1>2. ASSUME NEW p \in Ports
      PROVE  /\ p \in PortsOf(p) /\ PortsOf(p) \subseteq Ports /\ IsFiniteSet(PortsOf(p))
             /\ Cardinality(PortsOf(p)) \in Nat \ {0}
             /\ FedBy(p) \subseteq Ports /\ IsFiniteSet(FedBy(p))
  <2>1. p \in PortsOf(p) /\ PortsOf(p) \subseteq Ports /\ FedBy(p) \subseteq Ports
    BY DEF PortsOf, FedBy
  <2>2. IsFiniteSet(PortsOf(p)) /\ IsFiniteSet(FedBy(p))
    BY <1>1, <2>1, FS_Subset
  <2>3. Cardinality(PortsOf(p)) \in Nat /\ Cardinality(PortsOf(p)) # 0
    BY <2>1, <2>2, FS_CardinalityType, FS_EmptySet
  <2> QED
    BY <2>1, <2>2, <2>3
<1>3. IsFiniteSet(VLs)
  BY NumbersTyped, FS_Interval DEF VLs
<1> QED
  BY <1>1, <1>2, <1>3

LEMMA KeysTyped ==
    /\ VoqKeys \subseteq Ports \X VLs \X Ports
    /\ \A p \in Ports, in \in Ports : \A vl \in VLs :
          NodeOf[p] = NodeOf[in] <=> <<p, vl, in>> \in VoqKeys
    /\ \A p \in Ports : \A in \in PortsOf(p) : \A vl \in VLs :
          /\ in \in Ports /\ NodeOf[in] = NodeOf[p]
          /\ <<p, vl, in>> \in VoqKeys /\ <<in, vl, p>> \in VoqKeys
<1>1. VoqKeys \subseteq Ports \X VLs \X Ports
  BY DEF VoqKeys
<1>2. ASSUME NEW p \in Ports, NEW in \in Ports, NEW vl \in VLs
      PROVE  NodeOf[p] = NodeOf[in] <=> <<p, vl, in>> \in VoqKeys
  <2> DEFINE k == <<p, vl, in>>
  <2>1. k \in Ports \X VLs \X Ports /\ k[1] = p /\ k[3] = in
    OBVIOUS
  <2> HIDE DEF k
  <2>2. NodeOf[p] = NodeOf[in] <=> k \in VoqKeys
    BY <2>1 DEF VoqKeys
  <2> QED
    BY <2>2 DEF k
<1>3. ASSUME NEW p \in Ports, NEW in \in PortsOf(p), NEW vl \in VLs
      PROVE  /\ in \in Ports /\ NodeOf[in] = NodeOf[p]
             /\ <<p, vl, in>> \in VoqKeys /\ <<in, vl, p>> \in VoqKeys
  <2>1. in \in Ports /\ NodeOf[in] = NodeOf[p]
    BY DEF PortsOf
  <2> QED
    BY <1>2, <2>1
<1> QED
  BY <1>1, <1>2, <1>3

LEMMA WayStarts ==
    ASSUME NEW f \in FlowIds
    PROVE  Flows[f].src \in Way(f) /\ Way(f) \subseteq Ports
  BY FlowsTyped DEF Way

\* A packet of f that reaches the next port is for its node, or is sent on.
LEMMA WayGoesOn ==
    ASSUME NEW f \in FlowIds, NEW p \in Way(f), ~IsLocal(Peer[p], f)
    PROVE  /\ OutPort(Peer[p], f) \in Way(f) /\ OutPort(Peer[p], f) \in Ports
           /\ OutPort(Peer[p], f) # Peer[p]
           /\ NodeOf[OutPort(Peer[p], f)] = NodeOf[Peer[p]]
<1>1. /\ OutPort(Peer[p], f) \in Ports \ {Peer[p]}
      /\ NodeOf[OutPort(Peer[p], f)] = NodeOf[Peer[p]]
  BY FabricAssumption
<1> DEFINE out == OutPort(Peer[p], f)
<1>2. ASSUME NEW S \in SUBSET Ports, Flows[f].src \in S,
             \A x \in S : ~IsLocal(Peer[x], f) => OutPort(Peer[x], f) \in S
      PROVE  out \in S
  <2>1. p \in S
    BY <1>2 DEF Way
  <2> QED
    BY <1>2, <2>1
<1>3. out \in Way(f)
  <2>1. out \in Ports
    BY <1>1
  <2> HIDE DEF out
  <2> QED
    BY <1>2, <2>1 DEF Way
<1> QED
  BY <1>1, <1>3

LEMMA IngressTyped ==
    ASSUME NEW p \in Ports, NEW vl \in VLs
    PROVE  /\ Len(IngressSources[p][vl]) \in Nat \ {0}
           /\ DOMAIN IngressSources[p][vl] = 1..Len(IngressSources[p][vl])
           /\ \A i \in DOMAIN IngressSources[p][vl] :
                 \/ \E in \in PortsOf(p) : IngressSources[p][vl][i] = Voq(p, vl, in)
                 \/ \E f \in FlowIds : /\ Flows[f].via = "TP" /\ Flows[f].src = p
                                       /\ Flows[f].vl = vl /\ IngressSources[p][vl][i] = Tp(f)
<1> DEFINE tps == {f \in FlowIds : Flows[f].via = "TP" /\ Flows[f].src = p /\ Flows[f].vl = vl}
           A == {Voq(p, vl, in) : in \in PortsOf(p)}
           B == {Tp(f) : f \in tps}
           a == [i \in 1 .. Cardinality(PortsOf(p)) |-> Voq(p, vl, InOrder(PortsOf(p))[i])]
           b == [i \in 1 .. Cardinality(tps) |-> Tp(InOrder(tps)[i])]
<1>1. IngressSources[p][vl] = a \o b
  BY DEF IngressSources
<1>2. PortsOf(p) \subseteq Nat /\ IsFiniteSet(PortsOf(p)) /\ Cardinality(PortsOf(p)) \in Nat \ {0}
  BY PortsTyped
<1>3. tps \subseteq Nat /\ IsFiniteSet(tps) /\ Cardinality(tps) \in Nat
  BY FlowsTyped, FS_Subset, FS_CardinalityType
<1>4. InOrder(PortsOf(p)) \in [1 .. Cardinality(PortsOf(p)) -> PortsOf(p)]
  BY <1>2, InOrderExists
<1>5. InOrder(tps) \in [1 .. Cardinality(tps) -> tps]
  <2> HIDE DEF tps
  <2> QED
    BY <1>3, InOrderExists
<1>6. a \in [1 .. Cardinality(PortsOf(p)) -> A \cup B]
  BY <1>4
<1>7. b \in [1 .. Cardinality(tps) -> A \cup B]
  <2> HIDE DEF tps, A
  <2> QED
    BY <1>5
<1> HIDE DEF a, b, A, B, tps
<1>8. a \in Seq(A \cup B) /\ Len(a) = Cardinality(PortsOf(p)) /\ b \in Seq(A \cup B) /\ Len(b) = Cardinality(tps)
  BY <1>2, <1>3, <1>6, <1>7, IsASeq, LenProperties
<1>9. a \o b \in Seq(A \cup B) /\ Len(a \o b) = Len(a) + Len(b)
  BY <1>8, ConcatProperties
<1>10. Len(a \o b) \in Nat \ {0} /\ DOMAIN (a \o b) = 1..Len(a \o b)
       /\ \A i \in DOMAIN (a \o b) : (a \o b)[i] \in A \cup B
  <2>1. Len(a \o b) \in Nat \ {0}
    BY <1>2, <1>3, <1>8, <1>9
  <2> QED
    BY <1>9, <2>1, LenProperties
<1>11. ASSUME NEW q \in A \cup B
       PROVE  \/ \E in \in PortsOf(p) : q = Voq(p, vl, in)
              \/ \E f \in FlowIds : Flows[f].via = "TP" /\ Flows[f].src = p /\ Flows[f].vl = vl /\ q = Tp(f)
  BY DEF A, B, tps
<1> QED
  BY <1>1, <1>10, <1>11

\* The fields of the queues that an allocator serves.
LEMMA QueueFields ==
    ASSUME NEW p, NEW vl, NEW in, NEW f
    PROVE  /\ Voq(p, vl, in).type = "VOQ" /\ Voq(p, vl, in).out = p
           /\ Voq(p, vl, in).vl = vl /\ Voq(p, vl, in).in = in
           /\ Tp(f).type = "TP" /\ Tp(f).out = Flows[f].src /\ Tp(f).vl = Flows[f].vl
           /\ Tp(f).in = Flows[f].src /\ Tp(f).flow = f
  BY DEF Voq, Tp

Awaited(evs, kind) == \E i \in DOMAIN evs : evs[i] = kind

\* Only the port p and its events differ.
PortOnly(s, t, p) ==
    /\ t.fc = s.fc /\ t.voq = s.voq /\ t.inBuf = s.inBuf /\ t.outBuf = s.outBuf
    /\ \A q \in Ports \ {p} : t.port[q] = s.port[q] /\ t.events[q] = s.events[q]

\* What an attempt to transmit changes at most, and what it leaves behind.
Pumped(s, t, p) ==
    /\ PortOnly(s, t, p)
    /\ t.port[p].running = s.port[p].running /\ t.port[p].oneMore = s.port[p].oneMore
    /\ t.port[p].wire \o t.port[p].egress = s.port[p].wire \o s.port[p].egress
    /\ Len(t.port[p].egress) <= Len(s.port[p].egress)
    /\ s.port[p].busy => t.port[p].busy
    /\ \/ t.events[p] = s.events[p]
       \/ t.events[p] = Append(s.events[p], "TriggerAllocator") /\ t.port[p].egress = <<>>

Busy(t, p) == t.port[p].busy
Kicked(t, p) == t.port[p].busy \/ Awaited(t.events[p], "TriggerAllocator")

LEMMA NodeFields ==
    ASSUME NEW mode, NEW s \in NodeStates(mode)
    PROVE  /\ s = [fc |-> s.fc, voq |-> s.voq, inBuf |-> s.inBuf, outBuf |-> s.outBuf,
                   port |-> s.port, events |-> s.events]
           /\ s.fc \in [Ports -> FcStates] /\ s.voq \in [VoqKeys -> Seq(Packets(mode))]
           /\ s.inBuf \in Accounts /\ s.outBuf \in Accounts
           /\ s.port \in [Ports -> PortStates(mode)] /\ s.events \in [Ports -> Seq(Kinds)]
  BY DEF NodeStates

LEMMA PortFields ==
    ASSUME NEW mode, NEW s \in NodeStates(mode), NEW p \in Ports
    PROVE  /\ s.port[p] \in PortStates(mode)
           /\ s.port[p].busy \in BOOLEAN /\ s.port[p].running \in BOOLEAN
           /\ s.port[p].oneMore \in BOOLEAN
           /\ s.port[p].egress \in Seq(Packets(mode)) /\ s.port[p].wire \in Seq(Packets(mode))
           /\ Len(s.port[p].egress) \in Nat
           /\ s.events[p] \in Seq(Kinds) /\ s.fc[p] \in FcStates
<1>1. s.port[p] \in PortStates(mode) /\ s.events[p] \in Seq(Kinds) /\ s.fc[p] \in FcStates
  BY NodeFields
<1>2. s.port[p].egress \in Seq(Packets(mode))
  BY <1>1 DEF PortStates
<1>3. Len(s.port[p].egress) \in Nat
  BY <1>2, LenProperties
<1> QED
  BY <1>1, <1>2, <1>3 DEF PortStates

\* An event more at the port p.
EventMore(s, t, p, kind) ==
    /\ t.fc = s.fc /\ t.voq = s.voq /\ t.inBuf = s.inBuf /\ t.outBuf = s.outBuf
    /\ t.port = s.port
    /\ t.events[p] = Append(s.events[p], kind) /\ Awaited(t.events[p], kind)
    /\ \A q \in Ports \ {p} : t.events[q] = s.events[q]

LEMMA ScheduleNowDoes ==
    ASSUME NEW mode, NEW s \in NodeStates(mode), NEW p \in Ports, NEW kind \in Kinds
    PROVE  /\ ScheduleNow(s, p, kind) \in NodeStates(mode)
           /\ EventMore(s, ScheduleNow(s, p, kind), p, kind)
<1> DEFINE t == ScheduleNow(s, p, kind)
<1>1. s.events \in [Ports -> Seq(Kinds)] /\ s.events[p] \in Seq(Kinds)
  BY NodeFields
<1>2. Append(s.events[p], kind) \in Seq(Kinds)
  BY <1>1, AppendProperties
<1>3. /\ t \in NodeStates(mode)
      /\ t.fc = s.fc /\ t.voq = s.voq /\ t.inBuf = s.inBuf /\ t.outBuf = s.outBuf
      /\ t.port = s.port
      /\ t.events = [s.events EXCEPT ![p] = Append(s.events[p], kind)]
  BY <1>2 DEF ScheduleNow, NodeStates
<1> HIDE DEF t
<1>4. t.events[p] = Append(s.events[p], kind) /\ \A q \in Ports \ {p} : t.events[q] = s.events[q]
  BY <1>1, <1>3
<1>5. /\ Len(s.events[p]) + 1 \in DOMAIN Append(s.events[p], kind)
      /\ Append(s.events[p], kind)[Len(s.events[p]) + 1] = kind
  BY <1>1, AppendElement
<1>6. Awaited(Append(s.events[p], kind), kind)
  BY <1>5 DEF Awaited
<1>7. t \in NodeStates(mode) /\ EventMore(s, t, p, kind)
  BY <1>3, <1>4, <1>6 DEF EventMore
<1> QED
  BY <1>7 DEF t

LEMMA DequeuePacketDoes ==
    ASSUME NEW mode, NEW s \in NodeStates(mode), NEW p \in Ports, s.port[p].egress # <<>>
    PROVE  /\ DequeuePacket(s, p) \in NodeStates(mode) /\ Pumped(s, DequeuePacket(s, p), p)
           /\ Busy(DequeuePacket(s, p), p)
<1> DEFINE t == DequeuePacket(s, p)
<1> DEFINE x == s.port[p].egress
           pt == [s.port[p] EXCEPT !.busy = TRUE, !.egress = Tail(@),
                                   !.wire = Append(@, Head(s.port[p].egress))]
           w == s.port[p].wire
           sent == [s EXCEPT !.port[p].busy = TRUE, !.port[p].egress = Tail(@),
                             !.port[p].wire = Append(@, Head(s.port[p].egress))]
<1>0. x \in Seq(Packets(mode)) /\ w \in Seq(Packets(mode)) /\ x # <<>>
  BY PortFields
<1>1. /\ Tail(x) \in Seq(Packets(mode)) /\ Head(x) \in Packets(mode)
      /\ Append(w, Head(x)) \in Seq(Packets(mode)) /\ Len(x) \in Nat /\ Len(Tail(x)) <= Len(x)
  <2>1. /\ Tail(x) \in Seq(Packets(mode)) /\ Head(x) \in Packets(mode) /\ Len(x) \in Nat
        /\ Len(Tail(x)) = Len(x) - 1
    <3>1. x \in Seq(Packets(mode)) /\ x # <<>>
      BY <1>0
    <3> HIDE DEF x
    <3> QED
      BY <3>1, HeadTailProperties, LenProperties
  <2>2. Append(w, Head(x)) \in Seq(Packets(mode))
    <3> DEFINE h == Head(x)
               S == Packets(mode)
    <3>1. w \in Seq(S) /\ h \in S
      BY <1>0, <2>1
    <3> HIDE DEF w, h, S
    <3>2. Append(w, h) \in Seq(S)
      BY <3>1, AppendProperties
    <3> QED
      BY <3>2 DEF h, S
  <2> QED
    BY <2>1, <2>2, SMTT(30)
<1>3. Append(w, Head(x)) \o Tail(x) = w \o x
  BY <1>0, MoveHead
<1>5. /\ sent \in NodeStates(mode)
      /\ sent.fc = s.fc /\ sent.voq = s.voq /\ sent.inBuf = s.inBuf /\ sent.outBuf = s.outBuf
      /\ sent.events = s.events
      /\ \A q \in Ports \ {p} : sent.port[q] = s.port[q]
  <2>1. sent \in NodeStates(mode)
    <3>1. pt \in PortStates(mode)
      BY <1>1, PortFields, ZenonT(60) DEF PortStates
    <3>2. sent = [s EXCEPT !.port = [s.port EXCEPT ![p] = pt]]
      BY DEF NodeStates
    <3> HIDE DEF pt, sent
    <3> QED
      BY <3>1, <3>2 DEF NodeStates
  <2>2. /\ sent.fc = s.fc /\ sent.voq = s.voq /\ sent.inBuf = s.inBuf /\ sent.outBuf = s.outBuf
        /\ sent.events = s.events
    BY DEF NodeStates
  <2>3. \A q \in Ports \ {p} : sent.port[q] = s.port[q]
    BY DEF NodeStates
  <2> QED
    BY <2>1, <2>2, <2>3
<1>2. /\ sent.port[p].busy /\ sent.port[p].running = s.port[p].running
      /\ sent.port[p].oneMore = s.port[p].oneMore
      /\ sent.port[p].egress = Tail(x) /\ sent.port[p].wire = Append(w, Head(x))
  BY <1>1 DEF NodeStates, PortStates
<1>6. t = IF sent.port[p].egress = <<>> THEN ScheduleNow(sent, p, "TriggerAllocator") ELSE sent
  BY DEF DequeuePacket
<1> HIDE DEF sent, t
<1>7. /\ t \in NodeStates(mode)
      /\ t.fc = s.fc /\ t.voq = s.voq /\ t.inBuf = s.inBuf /\ t.outBuf = s.outBuf
      /\ t.port = sent.port
      /\ \A q \in Ports \ {p} : t.port[q] = s.port[q] /\ t.events[q] = s.events[q]
      /\ \/ t.events[p] = s.events[p]
         \/ t.events[p] = Append(s.events[p], "TriggerAllocator") /\ t.port[p].egress = <<>>
  <2>1. CASE sent.port[p].egress = <<>>
    <3>1. t = ScheduleNow(sent, p, "TriggerAllocator") /\ "TriggerAllocator" \in Kinds
      BY <1>6, <2>1 DEF Kinds
    <3>2. t \in NodeStates(mode) /\ EventMore(sent, t, p, "TriggerAllocator")
      BY <1>5, <3>1, ScheduleNowDoes
    <3> QED
      BY <1>5, <2>1, <3>2 DEF EventMore
  <2>2. CASE sent.port[p].egress # <<>>
    BY <1>5, <1>6, <2>2
  <2> QED
    BY <2>1, <2>2
<1> HIDE DEF x, w
<1>8. t \in NodeStates(mode) /\ Pumped(s, t, p) /\ Busy(t, p)
  BY <1>1, <1>2, <1>3, <1>7 DEF Pumped, PortOnly, Busy, x, w
<1> QED
  BY <1>8 DEF t

LEMMA TriggerTransmitDoes ==
    ASSUME NEW mode, NEW s \in NodeStates(mode), NEW p \in Ports
    PROVE  /\ TriggerTransmit(s, p) \in NodeStates(mode) /\ Pumped(s, TriggerTransmit(s, p), p)
           /\ Kicked(TriggerTransmit(s, p), p)
<1> DEFINE t == TriggerTransmit(s, p)
<1>0. s.port[p].busy \in BOOLEAN /\ Len(s.port[p].egress) \in Nat
  BY PortFields
<1>1. /\ s.port[p].busy => t = s
      /\ ~s.port[p].busy /\ s.port[p].egress = <<>> => t = ScheduleNow(s, p, "TriggerAllocator")
      /\ ~s.port[p].busy /\ s.port[p].egress # <<>> => t = DequeuePacket(s, p)
  BY DEF TriggerTransmit
<1> HIDE DEF t
<1>2. t \in NodeStates(mode) /\ Pumped(s, t, p) /\ Kicked(t, p)
  <2>1. CASE s.port[p].busy
    <3>1. Len(s.port[p].egress) <= Len(s.port[p].egress)
      BY <1>0
    <3>2. Pumped(s, s, p)
      BY <3>1, Zenon DEF Pumped, PortOnly
    <3>3. Kicked(s, p)
      BY <2>1, Zenon DEF Kicked
    <3> QED
      BY <1>1, <2>1, <3>2, <3>3
  <2>2. CASE ~s.port[p].busy /\ s.port[p].egress = <<>>
    <3>1. "TriggerAllocator" \in Kinds
      BY DEF Kinds
    <3>2. t \in NodeStates(mode) /\ EventMore(s, t, p, "TriggerAllocator")
      BY <1>1, <2>2, <3>1, ScheduleNowDoes
    <3>3. Len(t.port[p].egress) <= Len(s.port[p].egress)
      BY <1>0, <3>2 DEF EventMore
    <3>4. Pumped(s, t, p)
      BY <2>2, <3>2, <3>3, Zenon DEF Pumped, PortOnly, EventMore
    <3> QED
      BY <3>2, <3>4 DEF Kicked, EventMore
  <2>3. CASE ~s.port[p].busy /\ s.port[p].egress # <<>>
    <3>1. t \in NodeStates(mode) /\ Pumped(s, t, p) /\ Busy(t, p)
      BY <1>1, <2>3, DequeuePacketDoes
    <3> QED
      BY <3>1 DEF Kicked, Busy
  <2> QED
    BY <2>1, <2>2, <2>3
<1> QED
  BY <1>2 DEF t

(* The flow control of a port.                                             *)

SameCredits(x, y) == y.txfree = x.txfree /\ y.share = x.share /\ y.open = x.open

LEMMA DivMod ==
    ASSUME NEW a \in Nat, NEW b \in Nat \ {0}
    PROVE  /\ a \div b \in Nat /\ a % b \in Nat /\ a % b < b
           /\ a = b * (a \div b) + (a % b)
  OBVIOUS

LEMMA DivMonotone ==
    ASSUME NEW a \in Nat, NEW b \in Nat, a <= b, NEW g \in Nat \ {0}
    PROVE  a \div g <= b \div g
<1> DEFINE q == a \div g
           r == b \div g
           u == a % g
           v == b % g
<1>1. /\ q \in Nat /\ u \in Nat /\ u < g /\ a = g * q + u
      /\ r \in Nat /\ v \in Nat /\ v < g /\ b = g * r + v
  BY DivMod
<1> HIDE DEF q, r, u, v
<1>2. SUFFICES ASSUME r < q PROVE FALSE
  BY <1>1 DEF q, r
<1>3. PICK d \in Nat : q = r + 1 + d
  <2>1. q - r - 1 \in Nat /\ q = r + 1 + (q - r - 1)
    BY <1>1, <1>2
  <2> QED
    BY <2>1
<1>4. g * q = g * r + g + g * d
  BY <1>1, <1>3
<1>5. g * r \in Nat /\ g * d \in Nat
  BY <1>1
<1> DEFINE x == g * r
           y == g * d
           z == g * q
<1>6. z = x + g + y /\ x \in Nat /\ y \in Nat /\ a = z + u /\ b = x + v
  BY <1>1, <1>4, <1>5
<1> HIDE DEF x, y, z
<1> QED
  BY <1>1, <1>6

LEMMA CellsTyped ==
    ASSUME NEW bytes \in Nat
    PROVE  /\ Cells(bytes) \in Nat /\ bytes <= CellBytes * Cells(bytes)
           /\ bytes # 0 => Cells(bytes) # 0
<1> DEFINE a == bytes + CellBytes - 1
           c == a \div CellBytes
<1>1. a \in Nat /\ CellBytes \in Nat \ {0}
  BY NumbersTyped
<1> HIDE DEF a
<1>2. c \in Nat /\ a % CellBytes < CellBytes /\ a % CellBytes \in Nat /\ a = CellBytes * c + (a % CellBytes)
  BY <1>1, DivMod
<1>3. Cells(bytes) = c
  BY DEF Cells, a
<1> DEFINE m == CellBytes * c
           r == a % CellBytes
<1>4. m \in Nat
  BY <1>1, <1>2
<1> HIDE DEF c
<1>5. c = 0 => m = 0
  BY <1>1
<1> HIDE DEF m, r
<1>6. bytes <= m /\ (bytes # 0 => m # 0)
  BY <1>1, <1>2, <1>4 DEF a, m, r
<1> QED
  BY <1>2, <1>3, <1>5, <1>6 DEF m

LEMMA MinMax ==
    ASSUME NEW a \in Int, NEW b \in Int
    PROVE  /\ Min({a, b}) = IF a <= b THEN a ELSE b
           /\ Max({a, b}) = IF a <= b THEN b ELSE a
<1>1. Min({a, b}) \in {a, b} /\ Min({a, b}) <= a /\ Min({a, b}) <= b
  <2>1. \E x \in {a, b} : \A y \in {a, b} : x <= y
    OBVIOUS
  <2> QED
    BY <2>1 DEF Min
<1>2. Max({a, b}) \in {a, b} /\ Max({a, b}) >= a /\ Max({a, b}) >= b
  <2>1. \E x \in {a, b} : \A y \in {a, b} : x >= y
    OBVIOUS
  <2> QED
    BY <2>1 DEF Max
<1> QED
  BY <1>1, <1>2

\* What a check of the thresholds leaves: nothing told, or a frame that says
\* what is noted as told.
Checked(x, r) ==
    /\ r.fc \in FcStates /\ SameCredits(x, r.fc) /\ r.fc.toReturn = x.toReturn
    /\ \/ r.frame = NoFrame /\ r.fc.last = x.last
       \/ r.frame \in [VLs -> {0, CreditMax}] /\ r.frame # NoFrame /\ r.fc.last = r.frame

LEMMA CheckPfcThresholdDoes ==
    ASSUME NEW x \in FcStates, NEW used \in [VLs -> Int]
    PROVE  Checked(x, CheckPfcThreshold(x, used))
<1> DEFINE snd == [vl \in VLs |->
                  CASE used[vl] < 0 \/ used[vl] >= PfcUpThld -> 0
                    [] used[vl] \in 0 .. PfcLowThld - 1 /\ used[vl] < PfcUpThld -> CreditMax
                    [] OTHER -> x.snd[vl]]
           r == CheckPfcThreshold(x, used)
<1>1. snd \in [VLs -> {0, CreditMax}]
  <2>1. x.snd \in [VLs -> {0, CreditMax}]
    BY DEF FcStates
  <2> SUFFICES ASSUME NEW vl \in VLs PROVE snd[vl] \in {0, CreditMax}
    OBVIOUS
  <2>2. x.snd[vl] \in {0, CreditMax} /\ used[vl] \in Int /\ PfcLowThld \in Int /\ PfcUpThld \in Int
    BY <2>1, NumbersTyped
  <2>3. snd[vl] = CASE used[vl] < 0 \/ used[vl] >= PfcUpThld -> 0
                    [] used[vl] \in 0 .. PfcLowThld - 1 /\ used[vl] < PfcUpThld -> CreditMax
                    [] OTHER -> x.snd[vl]
    OBVIOUS
  <2> HIDE DEF snd
  <2>4. CASE used[vl] < 0 \/ used[vl] >= PfcUpThld
    <3>1. ~(used[vl] \in 0 .. PfcLowThld - 1 /\ used[vl] < PfcUpThld)
      BY <2>2, <2>4
    <3> QED
      BY <2>3, <2>4, <3>1
  <2>5. CASE ~(used[vl] < 0 \/ used[vl] >= PfcUpThld) /\ used[vl] \in 0 .. PfcLowThld - 1 /\ used[vl] < PfcUpThld
    BY <2>3, <2>5
  <2>6. CASE ~(used[vl] < 0 \/ used[vl] >= PfcUpThld) /\ ~(used[vl] \in 0 .. PfcLowThld - 1 /\ used[vl] < PfcUpThld)
    BY <2>2, <2>3, <2>6
  <2> QED
    BY <2>4, <2>5, <2>6
<1>2. snd # NoFrame
  BY <1>1, FrameIsOne
<1>3. r = IF snd = x.last THEN [fc |-> [x EXCEPT !.snd = snd], frame |-> NoFrame]
          ELSE [fc |-> [x EXCEPT !.snd = snd, !.last = snd], frame |-> snd]
  BY DEF CheckPfcThreshold
<1> HIDE DEF snd, r
<1>4. Checked(x, r)
  <2>1. CASE snd = x.last
    <3>1. r.fc = [x EXCEPT !.snd = snd] /\ r.frame = NoFrame
      BY <1>3, <2>1
    <3> QED
      BY <1>1, <3>1 DEF Checked, SameCredits, FcStates
  <2>2. CASE snd # x.last
    <3>1. r.fc = [x EXCEPT !.snd = snd, !.last = snd] /\ r.frame = snd
      BY <1>3, <2>2
    <3> QED
      BY <1>1, <1>2, <3>1 DEF Checked, SameCredits, FcStates
  <2> QED
    BY <2>1, <2>2
<1> QED
  BY <1>4 DEF r

\* Cells that a packet of the VL takes, as a count for every VL.
Taken(vl, bytes, w) == IF w = vl THEN Cells(bytes) ELSE 0
Told(frame, w) == IF frame = NoFrame THEN 0 ELSE frame[w]

Released(x, r, vl, bytes) ==
    /\ r.fc \in FcStates /\ SameCredits(x, r.fc) /\ r.fc.last = x.last
    /\ r.frame = NoFrame \/ (r.frame \in [VLs -> 0 .. CreditMax] /\ r.frame # NoFrame)
    /\ \A w \in VLs : r.fc.toReturn[w] < Grain
    /\ (Grain - 1 + Cells(bytes)) \div Grain <= CreditMax /\ (\A w \in VLs : x.toReturn[w] < Grain) =>
          \A w \in VLs : r.fc.toReturn[w] + Grain * Told(r.frame, w)
                         = x.toReturn[w] + Taken(vl, bytes, w)

LEMMA ReleaseOccupiedCrdDoes ==
    ASSUME NEW x \in FcStates, NEW vl \in VLs, NEW bytes \in Nat
    PROVE  Released(x, ReleaseOccupiedCrd(x, vl, bytes), vl, bytes)
<1> DEFINE due    == [x.toReturn EXCEPT ![vl] = @ + Cells(bytes)]
           grains == [w \in VLs |-> due[w] \div Grain]
           rest   == [w \in VLs |-> due[w] % Grain]
           tell   == [w \in VLs |-> grains[w] % CreditMod]
           r == ReleaseOccupiedCrd(x, vl, bytes)
<1>0. Grain \in Nat \ {0} /\ CreditMod \in Nat \ {0} /\ CreditMax = CreditMod - 1 /\ CreditMod \in Nat
  BY NumbersTyped DEF CreditMax
<1>1. x.toReturn \in [VLs -> Nat]
  BY DEF FcStates
<1>2. due \in [VLs -> Nat] /\ \A w \in VLs : due[w] = x.toReturn[w] + Taken(vl, bytes, w)
  <2>1. Cells(bytes) \in Nat
    BY CellsTyped
  <2> QED
    BY <1>1, <2>1 DEF Taken
<1>3. \A w \in VLs : Taken(vl, bytes, w) \in Nat
  BY CellsTyped DEF Taken
<1>4. r = [fc |-> [x EXCEPT !.toReturn = rest],
           frame |-> IF \E w \in VLs : grains[w] > 0 THEN tell ELSE NoFrame]
  BY DEF ReleaseOccupiedCrd
<1> HIDE DEF due
<1>5. \A w \in VLs : /\ grains[w] \in Nat /\ rest[w] \in Nat /\ rest[w] < Grain
                     /\ due[w] = Grain * grains[w] + rest[w]
                     /\ grains[w] = due[w] \div Grain
  BY <1>0, <1>2, DivMod
<1> HIDE DEF rest
<1>6. rest \in [VLs -> Nat]
  BY <1>5 DEF rest
<1>7. \A w \in VLs : tell[w] \in 0..CreditMax
  <2> SUFFICES ASSUME NEW w \in VLs PROVE tell[w] \in 0..CreditMax
    OBVIOUS
  <2>1. tell[w] = grains[w] % CreditMod /\ grains[w] \in Nat
    BY <1>5
  <2> HIDE DEF tell, grains
  <2>2. grains[w] % CreditMod \in Nat /\ grains[w] % CreditMod < CreditMod
    BY <1>0, <2>1, DivMod
  <2> QED
    BY <1>0, <2>1, <2>2
<1>8. tell \in [VLs -> 0 .. CreditMax]
  BY <1>7
<1>11. \A w \in VLs : grains[w] <= CreditMax => tell[w] = grains[w]
  <2> SUFFICES ASSUME NEW w \in VLs, grains[w] <= CreditMax PROVE tell[w] = grains[w]
    OBVIOUS
  <2>1. tell[w] = grains[w] % CreditMod /\ grains[w] \in Nat
    BY <1>5
  <2> HIDE DEF tell, grains
  <2>2. grains[w] < CreditMod
    BY <1>0, <2>1
  <2> QED
    BY <1>0, <2>1, <2>2
<1> HIDE DEF tell, grains
<1>9. tell # NoFrame
  BY <1>8, FrameIsOne
<1> HIDE DEF r
<1>10. /\ r.fc \in FcStates /\ SameCredits(x, r.fc) /\ r.fc.last = x.last /\ r.fc.toReturn = rest
       /\ r.frame = IF \E w \in VLs : grains[w] > 0 THEN tell ELSE NoFrame
  BY <1>4, <1>6 DEF FcStates, SameCredits
<1>12. ASSUME (Grain - 1 + Cells(bytes)) \div Grain <= CreditMax, \A w \in VLs : x.toReturn[w] < Grain,
              NEW w \in VLs
       PROVE  rest[w] + Grain * Told(r.frame, w) = x.toReturn[w] + Taken(vl, bytes, w)
  <2>1. grains[w] <= CreditMax
    <3> DEFINE a == due[w]
               b == Grain - 1 + Cells(bytes)
    <3>1. a \in Nat /\ b \in Nat /\ a <= b
      <4>1. Cells(bytes) \in Nat /\ x.toReturn[w] \in Nat /\ x.toReturn[w] < Grain
            /\ due[w] = x.toReturn[w] + Taken(vl, bytes, w) /\ due[w] \in Nat
        BY <1>1, <1>2, <1>12, CellsTyped
      <4>2. Taken(vl, bytes, w) <= Cells(bytes) /\ Taken(vl, bytes, w) \in Nat
        BY <4>1 DEF Taken
      <4> QED
        BY <1>0, <4>1, <4>2
    <3> HIDE DEF a, b
    <3>2. a \div Grain <= b \div Grain
      BY <1>0, <3>1, DivMonotone
    <3>3. grains[w] = a \div Grain /\ b \div Grain <= CreditMax /\ grains[w] \in Nat
          /\ b \div Grain \in Nat /\ CreditMax \in Int
      BY <1>0, <1>5, <1>12, <3>1, DivMod DEF a, b
    <3> QED
      BY <3>2, <3>3
  <2>2. Told(r.frame, w) = grains[w]
    <3>1. CASE \E v \in VLs : grains[v] > 0
      BY <1>9, <1>10, <1>11, <2>1, <3>1 DEF Told
    <3>2. CASE ~\E v \in VLs : grains[v] > 0
      <4>1. grains[w] = 0
        BY <1>5, <3>2
      <4> QED
        BY <1>10, <3>2, <4>1 DEF Told
    <3> QED
      BY <3>1, <3>2
  <2>3. due[w] = Grain * grains[w] + rest[w] /\ grains[w] \in Nat /\ rest[w] \in Nat
    BY <1>5
  <2>4. Grain * grains[w] \in Nat
    BY <1>0, <2>3
  <2>5. due[w] = x.toReturn[w] + Taken(vl, bytes, w)
    BY <1>2
  <2>6. rest[w] + Grain * grains[w] = Grain * grains[w] + rest[w]
    BY <2>3, <2>4
  <2> QED
    BY <2>2, <2>3, <2>5, <2>6
<1>13. Released(x, r, vl, bytes)
  <2>1. r.frame = NoFrame \/ (r.frame \in [VLs -> 0 .. CreditMax] /\ r.frame # NoFrame)
    BY <1>8, <1>9, <1>10
  <2>2. \A w \in VLs : r.fc.toReturn[w] < Grain
    BY <1>5, <1>10
  <2> QED
    BY <1>10, <1>12, <2>1, <2>2 DEF Released
<1> QED
  BY <1>13 DEF r

Below(f, n) == SumFunctionOnSet(f, 0 .. n - 1)

LEMMA BelowStep ==
    ASSUME NEW f, \A w \in VLs : f[w] \in Nat
    PROVE  /\ Below(f, 0) = 0
           /\ \A n \in 0 .. VlNum : Below(f, n) \in Nat
           /\ \A n \in VLs : Below(f, n + 1) = Below(f, n) + f[n]
<1>1. 0 .. 0 - 1 = {}
  OBVIOUS
<1>2. Below(f, 0) = 0
  BY <1>1, SumEmpty DEF Below
<1>3. ASSUME NEW n \in 0 .. VlNum PROVE Below(f, n) \in Nat
  <2>1. 0 .. n - 1 \subseteq VLs /\ IsFiniteSet(0 .. n - 1)
    BY NumbersTyped, FS_Interval DEF VLs
  <2> QED
    BY <2>1, SumNat DEF Below
<1>4. ASSUME NEW n \in VLs PROVE Below(f, n + 1) = Below(f, n) + f[n]
  <2> DEFINE S == 0 .. (n + 1) - 1
  <2>1. /\ S \subseteq VLs /\ IsFiniteSet(S) /\ n \in S /\ S \ {n} = 0 .. n - 1
        /\ n \in 0 .. VlNum /\ \A w \in S : f[w] \in Int
    BY NumbersTyped, FS_Interval, SMTT(30) DEF VLs
  <2>2. SumFunctionOnSet(f, S) = f[n] + SumFunctionOnSet(f, S \ {n})
    <3> HIDE DEF S
    <3> QED
      BY <2>1, SumRemove
  <2>3. Below(f, n) \in Nat /\ f[n] \in Nat
    BY <1>3, <2>1
  <2>4. Below(f, n + 1) = f[n] + Below(f, n)
    BY <2>1, <2>2, Zenon DEF Below
  <2> QED
    BY <2>3, <2>4
<1> QED
  BY <1>2, <1>3, <1>4

LEMMA BelowAll ==
    ASSUME NEW T, NEW f \in [VLs -> T]
    PROVE  SumFunction(f) = Below(f, VlNum)
  BY SumAll DEF Below, VLs

\* What the pool gives to the VLs, lowest first, is all they need or all it has.
Give(need, pool) == [vl \in VLs |-> Min({need[vl], Max({0, pool - Below(need, vl)})})]

LEMMA GiveSum ==
    ASSUME NEW need \in [VLs -> Nat], NEW pool \in Nat
    PROVE  /\ Give(need, pool) \in [VLs -> Nat]
           /\ \A w \in VLs : Give(need, pool)[w] <= need[w]
           /\ SumFunction(Give(need, pool)) \in 0 .. pool
<1> DEFINE give == Give(need, pool)
           rest(w) == pool - Below(need, w)
<1>0. \A w \in VLs : w \in 0..VlNum /\ w + 1 \in 0..VlNum
  BY NumbersTyped DEF VLs
<1>1. ASSUME NEW w \in VLs
      PROVE  /\ rest(w) \in Int /\ need[w] \in Nat
             /\ give[w] = IF rest(w) < 0 THEN 0 ELSE IF need[w] <= rest(w) THEN need[w] ELSE rest(w)
  <2>1. Below(need, w) \in Nat
    BY <1>0, BelowStep
  <2>2. rest(w) \in Int /\ need[w] \in Nat
    BY <2>1
  <2>3. give[w] = Min({need[w], Max({0, rest(w)})})
    BY DEF Give
  <2> HIDE DEF rest, give
  <2>4. Max({0, rest(w)}) = IF 0 <= rest(w) THEN rest(w) ELSE 0
    <3>1. \A r \in Int : Max({0, r}) = IF 0 <= r THEN r ELSE 0
      <4> TAKE r \in Int
      <4> QED
        BY 0 \in Int, MinMax
    <3> QED
      BY <2>2, <3>1
  <2>5. CASE 0 <= rest(w)
    <3>1. Min({need[w], rest(w)}) = IF need[w] <= rest(w) THEN need[w] ELSE rest(w)
      BY <2>2, MinMax
    <3> QED
      BY <2>2, <2>3, <2>4, <2>5, <3>1
  <2>6. CASE ~(0 <= rest(w))
    <3>1. Min({need[w], 0}) = IF need[w] <= 0 THEN need[w] ELSE 0
      BY <2>2, MinMax
    <3> QED
      BY <2>2, <2>3, <2>4, <2>6, <3>1
  <2> QED
    BY <2>5, <2>6
<1>2. \A w \in VLs : give[w] \in Nat /\ give[w] <= need[w]
  <2> HIDE DEF give, rest
  <2> QED
    BY <1>1
<1>3. give \in [VLs -> Nat]
  BY <1>2 DEF Give
<1> HIDE DEF give
<1> DEFINE P == {n \in Nat : n <= VlNum =>
                    Below(give, n) = IF Below(need, n) <= pool THEN Below(need, n) ELSE pool}
<1>4. 0 \in P
  BY <1>2, BelowStep
<1>5. ASSUME NEW n \in Nat, n \in P PROVE n + 1 \in P
  <2> SUFFICES ASSUME n + 1 <= VlNum
               PROVE  Below(give, n + 1) =
                        IF Below(need, n + 1) <= pool THEN Below(need, n + 1) ELSE pool
    OBVIOUS
  <2>1. n \in VLs /\ n <= VlNum /\ n \in 0..VlNum
    BY NumbersTyped DEF VLs
  <2>2. Below(give, n) = IF Below(need, n) <= pool THEN Below(need, n) ELSE pool
    BY <1>5, <2>1
  <2>3. Below(give, n + 1) = Below(give, n) + give[n]
    BY <1>2, <2>1, BelowStep
  <2>4. Below(need, n + 1) = Below(need, n) + need[n]
    BY <2>1, BelowStep
  <2>5. /\ Below(need, n) \in Nat /\ need[n] \in Nat
        /\ give[n] = IF pool - Below(need, n) < 0 THEN 0
                     ELSE IF need[n] <= pool - Below(need, n) THEN need[n] ELSE pool - Below(need, n)
    BY <1>1, <2>1, BelowStep
  <2> DEFINE a == Below(need, n)
             b == need[n]
             c == give[n]
             d == Below(give, n)
  <2>6. /\ a \in Nat /\ b \in Nat /\ d = (IF a <= pool THEN a ELSE pool)
        /\ c = IF pool - a < 0 THEN 0 ELSE IF b <= pool - a THEN b ELSE pool - a
    BY <2>2, <2>5
  <2> HIDE DEF a, b, c, d
  <2>7. d + c = IF a + b <= pool THEN a + b ELSE pool
    BY <2>6
  <2> QED
    BY <2>3, <2>4, <2>7 DEF a, b, c, d
<1>6. Nat \subseteq P
  <2> HIDE DEF P
  <2> QED
    BY <1>4, <1>5, NatInductiveSet
<1>7. VlNum \in Nat /\ VlNum \in 0..VlNum
  BY NumbersTyped
<1>8. Below(give, VlNum) = IF Below(need, VlNum) <= pool THEN Below(need, VlNum) ELSE pool
  BY <1>6, <1>7
<1>9. Below(need, VlNum) \in Nat
  BY <1>7, BelowStep
<1>10. SumFunction(give) = Below(give, VlNum)
  BY <1>3, BelowAll
<1>11. SumFunction(give) \in 0 .. pool
  BY <1>8, <1>9, <1>10
<1> QED
  BY <1>2, <1>3, <1>11 DEF give

(* What the handlers of the flow control make of its record.               *)

SameNotes(x, y) == y.toReturn = x.toReturn /\ y.snd = x.snd /\ y.last = x.last

LEMMA HandleSentPacketDoes ==
    ASSUME NEW mode, NEW x \in FcStates, NEW q, NEW vl \in VLs, NEW bytes \in Nat
    PROVE  /\ HandleSentPacket(mode, x, q, vl, bytes) \in FcStates
           /\ SameNotes(x, HandleSentPacket(mode, x, q, vl, bytes))
           /\ HandleSentPacket(mode, x, q, vl, bytes).open = x.open
<1> DEFINE c == Cells(bytes)
           pool == Min({x.share, c})
           own == Min({x.txfree[vl], c - pool})
           y == HandleSentPacket(mode, x, q, vl, bytes)
<1>0. x.txfree \in [VLs -> Nat] /\ x.share \in Nat /\ x.txfree[vl] \in Nat /\ c \in Nat
  BY CellsTyped DEF FcStates
<1>1. pool \in Nat /\ x.share - pool \in Nat /\ pool <= c
  <2>1. pool = IF x.share <= c THEN x.share ELSE c
    BY <1>0, MinMax
  <2> HIDE DEF pool
  <2> QED
    BY <1>0, <2>1
<1>2. own \in Nat /\ x.txfree[vl] - own \in Nat
  <2>1. c - pool \in Nat
    BY <1>0, <1>1
  <2> HIDE DEF pool, c
  <2>2. own = IF x.txfree[vl] <= c - pool THEN x.txfree[vl] ELSE c - pool
    BY <1>0, <2>1, MinMax
  <2> HIDE DEF own
  <2> QED
    BY <1>0, <2>1, <2>2
<1>3. \/ y = x
      \/ y = [x EXCEPT !.txfree[vl] = @ - c] /\ x.txfree[vl] >= c
      \/ y = [x EXCEPT !.share = @ - pool, !.txfree[vl] = @ - own]
  BY DEF HandleSentPacket, CbfcConsumeCrd, CbfcSharedConsumeCrd
<1> HIDE DEF y, pool, own, c
<1>4. y \in FcStates /\ SameNotes(x, y) /\ y.open = x.open
  <2>1. CASE y = x
    BY <2>1 DEF SameNotes
  <2>2. CASE y = [x EXCEPT !.txfree[vl] = @ - c] /\ x.txfree[vl] >= c
    <3>1. x.txfree[vl] - c \in Nat
      BY <1>0, <2>2
    <3> QED
      BY <1>0, <2>2, <3>1 DEF FcStates, SameNotes
  <2>3. CASE y = [x EXCEPT !.share = @ - pool, !.txfree[vl] = @ - own]
    BY <1>0, <1>1, <1>2, <2>3 DEF FcStates, SameNotes
  <2> QED
    BY <1>3, <2>1, <2>2, <2>3
<1> QED
  BY <1>4 DEF y

Returned(c) == SumFunction(c) * Grain
Need(x) == [vl \in VLs |-> Max({0, InitCrd - x.txfree[vl]})]

LEMMA ReturnedTyped ==
    ASSUME NEW c \in [VLs -> 0 .. CreditMax]
    PROVE  Returned(c) \in Nat
<1>1. IsFiniteSet(VLs) /\ DOMAIN c = VLs /\ \A w \in VLs : c[w] \in Nat
  BY PortsTyped, NumbersTyped
<1>2. SumFunction(c) \in Nat
  BY <1>1, SumAll, SumNat
<1> QED
  BY <1>2, NumbersTyped DEF Returned

LEMMA NeedTyped ==
    ASSUME NEW x \in FcStates
    PROVE  Need(x) \in [VLs -> Nat] /\ \A w \in VLs : Need(x)[w] = IF InitCrd <= x.txfree[w] THEN 0 ELSE InitCrd - x.txfree[w]
<1> SUFFICES ASSUME NEW w \in VLs
             PROVE  /\ Need(x)[w] \in Nat
                    /\ Need(x)[w] = IF InitCrd <= x.txfree[w] THEN 0 ELSE InitCrd - x.txfree[w]
  BY DEF Need
<1>1. x.txfree[w] \in Nat /\ InitCrd \in Nat
  BY NumbersTyped DEF FcStates
<1> DEFINE d == InitCrd - x.txfree[w]
<1>2. d \in Int
  BY <1>1
<1>3. Need(x)[w] = Max({0, d})
  BY DEF Need
<1> HIDE DEF d
<1>4. Need(x)[w] = IF 0 <= d THEN d ELSE 0
  BY <1>2, <1>3, MinMax
<1> QED
  BY <1>1, <1>2, <1>4 DEF d

SharedRestored(x, y, c) ==
    LET pool == x.share + Returned(c)
        give == Give(Need(x), pool)
    IN  y = IF Returned(c) = 0 THEN x
            ELSE [x EXCEPT !.share = pool - SumFunction(give),
                           !.txfree = [vl \in VLs |-> @[vl] + give[vl]]]

LEMMA SharedRestoreIs ==
    ASSUME NEW x, NEW c
    PROVE  SharedRestored(x, CbfcSharedRestoreCrd(x, c), c)
  BY DEF SharedRestored, CbfcSharedRestoreCrd, Returned, Need, Give, Below

LEMMA HandleReceivedDoes ==
    ASSUME NEW mode, NEW x \in FcStates, NEW c \in Frames(mode)
    PROVE  /\ HandleReceivedControlPacket(mode, x, c) \in FcStates
           /\ SameNotes(x, HandleReceivedControlPacket(mode, x, c))
           /\ mode = "PFC" => HandleReceivedControlPacket(mode, x, c).open = c
<1> DEFINE y == HandleReceivedControlPacket(mode, x, c)
<1>0. c \in [VLs -> 0 .. CreditMax] /\ (mode = "PFC" => c \in [VLs -> {0, CreditMax}])
  BY NumbersTyped DEF Frames
<1>1. CASE mode = "CBFC"
  <2> DEFINE tx == [vl \in VLs |-> x.txfree[vl] + c[vl] * Grain]
  <2>1. y = [x EXCEPT !.txfree = tx]
    BY <1>1 DEF HandleReceivedControlPacket, CbfcRestoreCrd
  <2>2. tx \in [VLs -> Nat]
    BY <1>0, NumbersTyped DEF FcStates
  <2> HIDE DEF tx, y
  <2>3. y \in FcStates /\ SameNotes(x, y)
    BY <2>1, <2>2 DEF FcStates, SameNotes
  <2> QED
    BY <1>1, <2>3 DEF y
<1>2. CASE mode = "CBFC_SHARED"
  <2>1. SharedRestored(x, y, c)
    BY <1>2, SharedRestoreIs DEF HandleReceivedControlPacket
  <2> DEFINE pool == x.share + Returned(c)
             give == Give(Need(x), pool)
             tx == [vl \in VLs |-> x.txfree[vl] + give[vl]]
  <2>2. x.share \in Nat /\ x.txfree \in [VLs -> Nat] /\ Returned(c) \in Nat /\ pool \in Nat
    BY <1>0, ReturnedTyped DEF FcStates
  <2> HIDE DEF pool, y
  <2>3. give \in [VLs -> Nat] /\ SumFunction(give) \in 0 .. pool
    BY <2>2, NeedTyped, GiveSum
  <2>4. y = x \/ y = [x EXCEPT !.share = pool - SumFunction(give), !.txfree = tx]
    BY <2>1 DEF SharedRestored, pool
  <2> HIDE DEF give
  <2>5. pool - SumFunction(give) \in Nat /\ tx \in [VLs -> Nat]
    BY <2>2, <2>3
  <2> HIDE DEF tx
  <2>6. y \in FcStates /\ SameNotes(x, y)
    BY <2>4, <2>5 DEF FcStates, SameNotes
  <2> QED
    BY <1>2, <2>6 DEF y
<1>3. CASE mode = "PFC"
  <2>1. y = [x EXCEPT !.open = c]
    BY <1>3 DEF HandleReceivedControlPacket
  <2> HIDE DEF y
  <2>3. y \in FcStates /\ SameNotes(x, y) /\ y.open = c
    BY <1>0, <1>3, <2>1 DEF FcStates, SameNotes
  <2> QED
    BY <1>3, <2>3 DEF y
<1>4. CASE mode \notin {"CBFC", "CBFC_SHARED", "PFC"}
  BY <1>4 DEF HandleReceivedControlPacket, SameNotes
<1> QED
  BY <1>1, <1>2, <1>3, <1>4

(* What the handlers of a node make of its state.                          *)

\* The flow control of the port r becomes y.
FcSet(s, t, r, y) ==
    /\ t.voq = s.voq /\ t.inBuf = s.inBuf /\ t.outBuf = s.outBuf
    /\ t.port = s.port /\ t.events = s.events
    /\ t.fc[r] = y /\ \A q \in Ports \ {r} : t.fc[q] = s.fc[q]

LEMMA FcBecomes ==
    ASSUME NEW mode, NEW s \in NodeStates(mode), NEW r \in Ports, NEW y \in FcStates
    PROVE  /\ [s EXCEPT !.fc[r] = y] \in NodeStates(mode)
           /\ FcSet(s, [s EXCEPT !.fc[r] = y], r, y)
<1> DEFINE t == [s EXCEPT !.fc[r] = y]
<1>1. t \in NodeStates(mode)
  BY DEF NodeStates
<1>2. /\ t.voq = s.voq /\ t.inBuf = s.inBuf /\ t.outBuf = s.outBuf
      /\ t.port = s.port /\ t.events = s.events
  BY DEF NodeStates
<1>3. t.fc[r] = y /\ \A q \in Ports \ {r} : t.fc[q] = s.fc[q]
  BY DEF NodeStates
<1> QED
  BY <1>1, <1>2, <1>3 DEF FcSet

\* The account of a port and a VL grows by n.
Grown(b, c, p, vl, n) ==
    \A q \in Ports : \A w \in VLs : c[q][w] = IF q = p /\ w = vl THEN b[q][w] + n ELSE b[q][w]

Pushed(s, t, pkt, in, out, vl) ==
    /\ t.fc = s.fc /\ t.port = s.port /\ t.events = s.events
    /\ t.voq[<<out, vl, in>>] = Append(s.voq[<<out, vl, in>>], pkt)
    /\ \A k \in VoqKeys \ {<<out, vl, in>>} : t.voq[k] = s.voq[k]
    /\ Grown(s.inBuf, t.inBuf, in, vl, Bytes(pkt)) /\ Grown(s.outBuf, t.outBuf, out, vl, Bytes(pkt))

LEMMA AccountGrows ==
    ASSUME NEW b \in Accounts, NEW p \in Ports, NEW vl \in VLs, NEW n \in Int
    PROVE  /\ [b EXCEPT ![p][vl] = b[p][vl] + n] \in Accounts
           /\ Grown(b, [b EXCEPT ![p][vl] = b[p][vl] + n], p, vl, n)
<1>1. b[p][vl] + n \in Int
  BY DEF Accounts
<1>2. [b EXCEPT ![p][vl] = b[p][vl] + n] \in Accounts
  BY <1>1 DEF Accounts
<1>3. Grown(b, [b EXCEPT ![p][vl] = b[p][vl] + n], p, vl, n)
  BY <1>1 DEF Accounts, Grown
<1> QED
  BY <1>2, <1>3

LEMMA PushToVoqDoes ==
    ASSUME NEW mode, NEW s \in NodeStates(mode), NEW pkt \in Packets(mode),
           NEW in \in Ports, NEW out \in Ports, NEW vl \in VLs, <<out, vl, in>> \in VoqKeys
    PROVE  /\ PushToVoq(s, pkt, in, out, vl) \in NodeStates(mode)
           /\ Pushed(s, PushToVoq(s, pkt, in, out, vl), pkt, in, out, vl)
<1> DEFINE t == PushToVoq(s, pkt, in, out, vl)
           n == Bytes(pkt)
           b == [s.inBuf EXCEPT ![in][vl] = s.inBuf[in][vl] + n]
           c == [s.outBuf EXCEPT ![out][vl] = s.outBuf[out][vl] + n]
           k == <<out, vl, in>>
           v == [s.voq EXCEPT ![k] = Append(s.voq[k], pkt)]
<1>1. n \in Int /\ s.inBuf \in Accounts /\ s.outBuf \in Accounts
  BY PacketKinds, NodeFields
<1>2. k \in VoqKeys /\ s.voq \in [VoqKeys -> Seq(Packets(mode))]
  BY NodeFields
<1>3. t = [s EXCEPT !.voq = v, !.inBuf = b, !.outBuf = c]
  BY DEF PushToVoq, NodeStates
<1> HIDE DEF n
<1>4. b \in Accounts /\ Grown(s.inBuf, b, in, vl, n)
  BY <1>1, AccountGrows
<1>5. c \in Accounts /\ Grown(s.outBuf, c, out, vl, n)
  BY <1>1, AccountGrows
<1> HIDE DEF b, c, k
<1>6. Append(s.voq[k], pkt) \in Seq(Packets(mode))
  BY <1>2, AppendProperties
<1>7. /\ v \in [VoqKeys -> Seq(Packets(mode))] /\ v[k] = Append(s.voq[k], pkt)
      /\ \A j \in VoqKeys \ {k} : v[j] = s.voq[j]
  BY <1>2, <1>6
<1> HIDE DEF v, t
<1>8. t \in NodeStates(mode)
  BY <1>3, <1>4, <1>5, <1>7 DEF NodeStates
<1>9. /\ t.voq = v /\ t.inBuf = b /\ t.outBuf = c
      /\ t.fc = s.fc /\ t.port = s.port /\ t.events = s.events
  BY <1>3, <1>4, <1>5, <1>7 DEF NodeStates
<1>10. Pushed(s, t, pkt, in, out, vl)
  BY <1>4, <1>5, <1>7, <1>9 DEF Pushed, k, n
<1> QED
  BY <1>8, <1>10 DEF t

\* The port r notes what it tells, and puts the frame in its queue, if any.
Tells(s, t, r, frame) ==
    /\ \A q \in Ports \ {r} : t.fc[q] = s.fc[q]
    /\ SameCredits(s.fc[r], t.fc[r])
    /\ t.port = s.port /\ t.events = s.events
    /\ \A k \in VoqKeys \ {<<r, 0, r>>} : t.voq[k] = s.voq[k]
    /\ IF frame = NoFrame
       THEN t.voq = s.voq /\ t.inBuf = s.inBuf /\ t.outBuf = s.outBuf
       ELSE /\ t.voq[<<r, 0, r>>] = Append(s.voq[<<r, 0, r>>], Control(frame))
            /\ Grown(s.inBuf, t.inBuf, r, 0, CtrlBytes) /\ Grown(s.outBuf, t.outBuf, r, 0, CtrlBytes)

PfcTells(s, t, r) ==
    /\ t.fc[r].toReturn = s.fc[r].toReturn
    /\ \/ Tells(s, t, r, NoFrame) /\ t.fc[r].last = s.fc[r].last
       \/ \E frame \in [VLs -> {0, CreditMax}] : frame # NoFrame /\ Tells(s, t, r, frame) /\ t.fc[r].last = frame

CreditTells(s, t, r, vl, bytes) ==
    \E rel : Released(s.fc[r], rel, vl, bytes) /\ t.fc[r] = rel.fc /\ Tells(s, t, r, rel.frame)

LEMMA ControlKey ==
    ASSUME NEW r \in Ports
    PROVE  <<r, 0, r>> \in VoqKeys /\ 0 \in VLs
  BY KeysTyped, PortsTyped, NumbersTyped

\* Noting y and pushing a frame.
LEMMA NoteAndPush ==
    ASSUME NEW mode, NEW s \in NodeStates(mode), NEW r \in Ports, NEW y \in FcStates,
           SameCredits(s.fc[r], y), NEW frame \in Frames(mode), frame # NoFrame,
           NEW m, m \in NodeStates(mode), FcSet(s, m, r, y)
    PROVE  /\ PushControlFrame(m, r, frame) \in NodeStates(mode)
           /\ Tells(s, PushControlFrame(m, r, frame), r, frame)
           /\ PushControlFrame(m, r, frame).fc[r] = y
<1> DEFINE t == PushControlFrame(m, r, frame)
           pkt == Control(frame)
<1>1. pkt \in Packets(mode) /\ Bytes(pkt) = CtrlBytes
  BY ControlPacket
<1>2. t = PushToVoq(m, pkt, r, r, 0)
  BY DEF PushControlFrame
<1>3. <<r, 0, r>> \in VoqKeys /\ 0 \in VLs
  BY ControlKey
<1> HIDE DEF t, pkt
<1>4. t \in NodeStates(mode) /\ Pushed(m, t, pkt, r, r, 0)
  BY <1>1, <1>2, <1>3, PushToVoqDoes
<1>5. Tells(s, t, r, frame) /\ t.fc[r] = y
  BY <1>1, <1>4 DEF Pushed, Tells, FcSet, pkt
<1> QED
  BY <1>4, <1>5 DEF t

\* A set of states that the steps of a pause frame do not leave.
PfcClosed(mode, I, r) ==
    /\ I \subseteq NodeStates(mode)
    /\ \A a \in I : \A b \in NodeStates(mode) : PfcTells(a, b, r) \/ Pumped(a, b, r) => b \in I

LEMMA PfcCheckDoes ==
    ASSUME NEW mode, NEW s \in NodeStates(mode), NEW r \in Ports
    PROVE  Checked(s.fc[r], PfcCheck(s, r))
<1>1. s.fc[r] \in FcStates /\ s.inBuf[r] \in [VLs -> Int]
  BY NodeFields DEF Accounts
<1> QED
  BY <1>1, CheckPfcThresholdDoes DEF PfcCheck

LEMMA CheckAgainStays ==
    ASSUME NEW I, NEW r \in Ports, PfcClosed("PFC", I, r), NEW s \in I
    PROVE  CheckAgain(s, r) \in I
<1> DEFINE check == PfcCheck(s, r)
           s1 == [s EXCEPT !.fc[r] = check.fc]
           s2 == PushControlFrame(s1, r, check.frame)
           s3 == TriggerTransmit(s2, r)
<1>0. s \in NodeStates("PFC")
  BY DEF PfcClosed
<1>1. Checked(s.fc[r], check)
  BY <1>0, PfcCheckDoes
<1> HIDE DEF check
<1>2. s1 \in NodeStates("PFC") /\ FcSet(s, s1, r, check.fc)
  BY <1>0, <1>1, FcBecomes DEF Checked
<1>3. CheckAgain(s, r) = IF check.frame = NoFrame THEN s1 ELSE s3
  BY DEF CheckAgain, check
<1> HIDE DEF s1
<1>4. CASE check.frame = NoFrame
  <2>1. PfcTells(s, s1, r)
    BY <1>1, <1>2, <1>4 DEF Checked, PfcTells, Tells, FcSet
  <2> QED
    BY <1>2, <1>3, <1>4, <2>1 DEF PfcClosed
<1>5. CASE check.frame # NoFrame
  <2>0. check.frame \in [VLs -> {0, CreditMax}] /\ check.frame \in Frames("PFC") /\ check.fc \in FcStates
        /\ SameCredits(s.fc[r], check.fc)
    BY <1>1, <1>5 DEF Checked, Frames
  <2>1. s2 \in NodeStates("PFC") /\ Tells(s, s2, r, check.frame) /\ s2.fc[r] = check.fc
    BY <1>0, <1>2, <1>5, <2>0, NoteAndPush
  <2> HIDE DEF s2
  <2>2. PfcTells(s, s2, r)
    BY <1>1, <1>5, <2>0, <2>1 DEF Checked, PfcTells
  <2>3. s2 \in I
    BY <2>1, <2>2 DEF PfcClosed
  <2>4. s3 \in NodeStates("PFC") /\ Pumped(s2, s3, r)
    BY <2>1, TriggerTransmitDoes
  <2> HIDE DEF s3
  <2> QED
    BY <1>3, <1>5, <2>3, <2>4 DEF PfcClosed
<1> QED
  BY <1>4, <1>5

Still(s, t) == t.voq = s.voq /\ t.port = s.port /\ t.events = s.events

LEMMA SendControlFrameStays ==
    ASSUME NEW I, NEW r \in Ports, PfcClosed("PFC", I, r), NEW m \in I,
           flowControl = "PFC", NEW t, t = TriggerTransmit(CheckAgain(m, r), r)
    PROVE  t \in I /\ Kicked(t, r)
<1> DEFINE a == CheckAgain(m, r)
<1>1. a \in I
  BY CheckAgainStays
<1> HIDE DEF a
<1>2. a \in NodeStates("PFC")
  BY <1>1 DEF PfcClosed
<1>3. t = TriggerTransmit(a, r)
  BY DEF a
<1>4. t \in NodeStates("PFC") /\ Pumped(a, t, r) /\ Kicked(t, r)
  BY <1>2, <1>3, TriggerTransmitDoes
<1> QED
  BY <1>1, <1>4 DEF PfcClosed

LEMMA CheckPfcStays ==
    ASSUME NEW I, NEW r \in Ports, PfcClosed("PFC", I, r), NEW s \in I, flowControl = "PFC"
    PROVE  /\ CheckPfc(s, r) \in I
           /\ Kicked(CheckPfc(s, r), r) \/ Still(s, CheckPfc(s, r))
<1> DEFINE check == PfcCheck(s, r)
           s1 == [s EXCEPT !.fc[r] = check.fc]
           s2 == PushControlFrame(s1, r, check.frame)
           t == TriggerTransmit(CheckAgain(s2, r), r)
<1>0. s \in NodeStates("PFC")
  BY DEF PfcClosed
<1>1. Checked(s.fc[r], check)
  BY <1>0, PfcCheckDoes
<1> HIDE DEF check
<1>2. s1 \in NodeStates("PFC") /\ FcSet(s, s1, r, check.fc)
  BY <1>0, <1>1, FcBecomes DEF Checked
<1>3. CheckPfc(s, r) = IF check.frame = NoFrame THEN s1 ELSE t
  BY DEF CheckPfc, SendControlFrame, check
<1> HIDE DEF s1
<1>4. CASE check.frame = NoFrame
  <2>1. PfcTells(s, s1, r)
    BY <1>1, <1>2, <1>4 DEF Checked, PfcTells, Tells, FcSet
  <2>2. s1 \in I /\ Still(s, s1)
    BY <1>2, <2>1 DEF PfcClosed, FcSet, Still
  <2> QED
    BY <1>3, <1>4, <2>2
<1>5. CASE check.frame # NoFrame
  <2>0. check.frame \in [VLs -> {0, CreditMax}] /\ check.frame \in Frames("PFC") /\ check.fc \in FcStates
        /\ SameCredits(s.fc[r], check.fc)
    BY <1>1, <1>5 DEF Checked, Frames
  <2>1. s2 \in NodeStates("PFC") /\ Tells(s, s2, r, check.frame) /\ s2.fc[r] = check.fc
    BY <1>0, <1>2, <1>5, <2>0, NoteAndPush
  <2> HIDE DEF s2
  <2>2. PfcTells(s, s2, r)
    BY <1>1, <1>5, <2>0, <2>1 DEF Checked, PfcTells
  <2>3. s2 \in I
    BY <2>1, <2>2 DEF PfcClosed
  <2>5. t = TriggerTransmit(CheckAgain(s2, r), r)
    BY DEF t
  <2> HIDE DEF t
  <2>4. t \in I /\ Kicked(t, r)
    BY <2>3, <2>5, SendControlFrameStays
  <2> QED
    BY <1>3, <1>5, <2>4
<1> QED
  BY <1>4, <1>5

\* What returning credits for pkt does: the note and perhaps a frame, and then
\* an attempt to transmit.
CreditsReturned(mode, s, t, r, vl, bytes) ==
    \E m \in NodeStates(mode) :
        /\ CreditTells(s, m, r, vl, bytes)
        /\ \/ t = m /\ Still(s, t)
           \/ Pumped(m, t, r) /\ Kicked(t, r)

LEMMA ReturnCreditsDoes ==
    ASSUME NEW mode, mode \in CreditTypes, flowControl = mode,
           NEW s \in NodeStates(mode), NEW r \in Ports, NEW pkt \in Packets(mode), IsData(pkt)
    PROVE  /\ ReturnCredits(s, r, pkt) \in NodeStates(mode)
           /\ CreditsReturned(mode, s, ReturnCredits(s, r, pkt), r, Flows[pkt.flow].vl, Bytes(pkt))
<1> DEFINE vl == Flows[pkt.flow].vl
           n == Bytes(pkt)
           rel == ReleaseOccupiedCrd(s.fc[r], vl, n)
           s1 == [s EXCEPT !.fc[r] = rel.fc]
           s2 == PushControlFrame(s1, r, rel.frame)
           s3 == TriggerTransmit(s2, r)
           t == ReturnCredits(s, r, pkt)
<1>0. s.fc[r] \in FcStates /\ vl \in VLs /\ n \in Nat /\ mode # "PFC"
  BY PortFields, PacketKinds, FlowsTyped DEF CreditTypes
<1> HIDE DEF vl, n
<1>1. Released(s.fc[r], rel, vl, n)
  BY <1>0, ReleaseOccupiedCrdDoes
<1>3. t = IF rel.frame = NoFrame THEN s1 ELSE s3
  BY <1>0 DEF ReturnCredits, SendControlFrame, vl, n
<1> HIDE DEF rel, t
<1>2. s1 \in NodeStates(mode) /\ FcSet(s, s1, r, rel.fc)
  BY <1>1, FcBecomes DEF Released
<1> HIDE DEF s1
<1>4. CASE rel.frame = NoFrame
  <2>1. Tells(s, s1, r, rel.frame) /\ s1.fc[r] = rel.fc
    BY <1>1, <1>2, <1>4 DEF Released, Tells, FcSet
  <2>2. CreditTells(s, s1, r, vl, n) /\ Still(s, s1)
    BY <1>1, <1>2, <2>1 DEF CreditTells, FcSet, Still
  <2>3. t = s1
    BY <1>3, <1>4
  <2>4. t \in NodeStates(mode) /\ CreditsReturned(mode, s, t, r, vl, n)
    BY <1>2, <2>2, <2>3 DEF CreditsReturned
  <2> QED
    BY <2>4 DEF t, vl, n
<1>5. CASE rel.frame # NoFrame
  <2>0. rel.frame \in Frames(mode) /\ rel.fc \in FcStates /\ SameCredits(s.fc[r], rel.fc)
    BY <1>0, <1>1, <1>5 DEF Released, Frames
  <2>1. s2 \in NodeStates(mode) /\ Tells(s, s2, r, rel.frame) /\ s2.fc[r] = rel.fc
    BY <1>2, <1>5, <2>0, NoteAndPush
  <2> HIDE DEF s2
  <2>2. CreditTells(s, s2, r, vl, n)
    BY <1>1, <2>1 DEF CreditTells
  <2>3. s3 \in NodeStates(mode) /\ Pumped(s2, s3, r) /\ Kicked(s3, r)
    BY <2>1, TriggerTransmitDoes
  <2> HIDE DEF s3
  <2>4. t \in NodeStates(mode) /\ CreditsReturned(mode, s, t, r, vl, n)
    BY <1>3, <1>5, <2>1, <2>2, <2>3 DEF CreditsReturned
  <2> QED
    BY <2>4 DEF t, vl, n
<1> QED
  BY <1>4, <1>5

\* What the frames of the port r do not touch.
Beside(s, t, r) ==
    /\ \A q \in Ports \ {r} : /\ t.port[q] = s.port[q] /\ t.events[q] = s.events[q]
                              /\ t.fc[q] = s.fc[q]
    /\ SameCredits(s.fc[r], t.fc[r])
    /\ \A k \in VoqKeys \ {<<r, 0, r>>} : t.voq[k] = s.voq[k]
    /\ t.port[r].wire \o t.port[r].egress = s.port[r].wire \o s.port[r].egress
    /\ t.port[r].running = s.port[r].running /\ t.port[r].oneMore = s.port[r].oneMore

LEMMA PumpedBeside ==
    ASSUME NEW s, NEW t, NEW r, Pumped(s, t, r)
    PROVE  Beside(s, t, r) /\ t.voq = s.voq /\ t.inBuf = s.inBuf /\ t.outBuf = s.outBuf /\ t.fc = s.fc
  BY DEF Pumped, PortOnly, Beside, SameCredits

LEMMA TellsBeside ==
    ASSUME NEW s, NEW t, NEW r, NEW frame, Tells(s, t, r, frame)
    PROVE  Beside(s, t, r)
  BY DEF Tells, Beside, SameCredits

LEMMA BesideTwice ==
    ASSUME NEW s, NEW m, NEW t, NEW r, Beside(s, m, r), Beside(m, t, r)
    PROVE  Beside(s, t, r)
  BY Zenon DEF Beside, SameCredits

(* The steps that the actions are made of, as relations between states.    *)

\* An event of the port p is taken to be run.
EventTaken(s, t, p, kind) ==
    /\ t.fc = s.fc /\ t.voq = s.voq /\ t.inBuf = s.inBuf /\ t.outBuf = s.outBuf
    /\ t.port = s.port
    /\ s.events[p] # <<>> /\ kind = Head(s.events[p]) /\ t.events[p] = Tail(s.events[p])
    /\ \A q \in Ports \ {p} : t.events[q] = s.events[q]

LEMMA EventTakenDoes ==
    ASSUME NEW mode, NEW s \in NodeStates(mode), NEW p \in Ports, s.events[p] # <<>>,
           NEW kind, kind = Head(s.events[p])
    PROVE  /\ [s EXCEPT !.events[p] = Tail(@)] \in NodeStates(mode)
           /\ EventTaken(s, [s EXCEPT !.events[p] = Tail(@)], p, kind)
           /\ kind \in Kinds
<1> DEFINE t == [s EXCEPT !.events[p] = Tail(@)]
           ev == s.events[p]
<1>1. ev \in Seq(Kinds) /\ ev # <<>>
  BY PortFields
<1> HIDE DEF ev
<1>2. Tail(ev) \in Seq(Kinds) /\ Head(ev) \in Kinds
  BY <1>1, HeadTailProperties
<1>3. t = [s EXCEPT !.events[p] = Tail(ev)]
  BY DEF NodeStates, ev
<1> HIDE DEF t
<1>4. t \in NodeStates(mode)
  BY <1>2, <1>3 DEF NodeStates
<1>5. /\ t.fc = s.fc /\ t.voq = s.voq /\ t.inBuf = s.inBuf /\ t.outBuf = s.outBuf
      /\ t.port = s.port /\ t.events = [s.events EXCEPT ![p] = Tail(ev)]
  BY <1>2, <1>3 DEF NodeStates
<1>6. s.events \in [Ports -> Seq(Kinds)]
  BY NodeFields
<1>7. t.events[p] = Tail(ev) /\ \A q \in Ports \ {p} : t.events[q] = s.events[q]
  BY <1>5, <1>6
<1>8. EventTaken(s, t, p, kind)
  BY <1>1, <1>5, <1>7 DEF EventTaken, ev
<1> QED
  BY <1>2, <1>4, <1>8 DEF t, ev

\* The port p becomes pt, and nothing else changes.
PortSet(s, t, p, pt) ==
    /\ t.fc = s.fc /\ t.voq = s.voq /\ t.inBuf = s.inBuf /\ t.outBuf = s.outBuf
    /\ t.events = s.events
    /\ t.port[p] = pt /\ \A q \in Ports \ {p} : t.port[q] = s.port[q]

LEMMA PortBecomes ==
    ASSUME NEW mode, NEW s \in NodeStates(mode), NEW p \in Ports, NEW pt \in PortStates(mode)
    PROVE  /\ [s EXCEPT !.port[p] = pt] \in NodeStates(mode)
           /\ PortSet(s, [s EXCEPT !.port[p] = pt], p, pt)
<1> DEFINE t == [s EXCEPT !.port[p] = pt]
<1>1. t \in NodeStates(mode)
  BY DEF NodeStates
<1>2. /\ t.fc = s.fc /\ t.voq = s.voq /\ t.inBuf = s.inBuf /\ t.outBuf = s.outBuf
      /\ t.events = s.events
  BY DEF NodeStates
<1>3. t.port[p] = pt /\ \A q \in Ports \ {p} : t.port[q] = s.port[q]
  BY DEF NodeStates
<1> QED
  BY <1>1, <1>2, <1>3 DEF PortSet


AllocatorTriggered(s, t, p) ==
    PortSet(s, t, p, t.port[p]) /\
    LET x == s.port[p]
        y == t.port[p]
    IN  /\ y.busy = x.busy /\ y.egress = x.egress /\ y.wire = x.wire /\ y.running
        /\ y.oneMore = (x.oneMore \/ x.running)

LEMMA TriggerAllocatorDoes ==
    ASSUME NEW mode, NEW s \in NodeStates(mode), NEW p \in Ports
    PROVE  /\ TriggerAllocator(s, p) \in NodeStates(mode)
           /\ AllocatorTriggered(s, TriggerAllocator(s, p), p)
<1> DEFINE x == s.port[p]
           a == [x EXCEPT !.oneMore = TRUE]
           b == [x EXCEPT !.running = TRUE]
           t == TriggerAllocator(s, p)
<1>1. x \in PortStates(mode)
  BY PortFields
<1>2. x.running => t = [s EXCEPT !.port[p] = a]
  BY DEF TriggerAllocator, NodeStates
<1>3. ~x.running => t = [s EXCEPT !.port[p] = b]
  BY DEF TriggerAllocator, NodeStates
<1> HIDE DEF x, t
<1>4. /\ a \in PortStates(mode) /\ a.busy = x.busy /\ a.egress = x.egress /\ a.wire = x.wire
      /\ a.running = x.running /\ a.oneMore
  BY <1>1 DEF PortStates
<1>5. /\ b \in PortStates(mode) /\ b.busy = x.busy /\ b.egress = x.egress /\ b.wire = x.wire
      /\ b.running /\ b.oneMore = x.oneMore
  BY <1>1 DEF PortStates
<1> HIDE DEF a, b
<1>6. x.running \in BOOLEAN /\ x.oneMore \in BOOLEAN /\ a.oneMore \in BOOLEAN /\ b.running \in BOOLEAN
  BY <1>1, <1>4, <1>5 DEF PortStates
<1>7. CASE x.running
  <2>1. t \in NodeStates(mode) /\ PortSet(s, t, p, a)
    BY <1>2, <1>4, <1>7, PortBecomes
  <2>2. t.port[p] = a
    BY <2>1 DEF PortSet
  <2>3. a.oneMore = (x.oneMore \/ x.running)
    BY <1>4, <1>6, <1>7
  <2>4. AllocatorTriggered(s, t, p)
    BY <1>4, <1>7, <2>1, <2>2, <2>3 DEF AllocatorTriggered, x
  <2> QED
    BY <2>1, <2>4 DEF t
<1>8. CASE ~x.running
  <2>1. t \in NodeStates(mode) /\ PortSet(s, t, p, b)
    BY <1>3, <1>5, <1>8, PortBecomes
  <2>2. t.port[p] = b
    BY <2>1 DEF PortSet
  <2>3. b.oneMore = (x.oneMore \/ x.running)
    BY <1>5, <1>6, <1>8
  <2>4. AllocatorTriggered(s, t, p)
    BY <1>5, <1>8, <2>1, <2>2, <2>3 DEF AllocatorTriggered, x
  <2> QED
    BY <2>1, <2>4 DEF t
<1> QED
  BY <1>7, <1>8

Notified(s, t, p) ==
    \/ t = s /\ (s.port[p].busy \/ s.port[p].egress = <<>>)
    \/ Pumped(s, t, p) /\ Busy(t, p)

LEMMA NotifyAllocationFinishDoes ==
    ASSUME NEW mode, NEW s \in NodeStates(mode), NEW p \in Ports
    PROVE  /\ NotifyAllocationFinish(s, p) \in NodeStates(mode)
           /\ Notified(s, NotifyAllocationFinish(s, p), p)
<1>1. CASE s.port[p].busy \/ s.port[p].egress = <<>>
  BY <1>1 DEF NotifyAllocationFinish, Notified
<1>2. CASE ~(s.port[p].busy \/ s.port[p].egress = <<>>)
  <2>1. NotifyAllocationFinish(s, p) = DequeuePacket(s, p) /\ s.port[p].egress # <<>>
    BY <1>2 DEF NotifyAllocationFinish
  <2>2. DequeuePacket(s, p) \in NodeStates(mode) /\ Pumped(s, DequeuePacket(s, p), p)
        /\ Busy(DequeuePacket(s, p), p)
    BY <2>1, DequeuePacketDoes
  <2> QED
    BY <2>1, <2>2 DEF Notified
<1> QED
  BY <1>1, <1>2

\* The end of a round.
RoundEnd(s, t, p) ==
    /\ PortOnly(s, t, p)
    /\ t.port[p].busy = s.port[p].busy /\ t.port[p].egress = s.port[p].egress
    /\ t.port[p].wire = s.port[p].wire /\ ~t.port[p].running /\ ~t.port[p].oneMore
    /\ t.events[p] = IF s.port[p].oneMore
                     THEN Append(Append(s.events[p], "NotifyAllocationFinish"), "TriggerAllocator")
                     ELSE Append(s.events[p], "NotifyAllocationFinish")

LEMMA RoundFinishedDoes ==
    ASSUME NEW mode, NEW s \in NodeStates(mode), NEW p \in Ports
    PROVE  /\ RoundFinished(s, p) \in NodeStates(mode)
           /\ RoundEnd(s, RoundFinished(s, p), p)
<1> DEFINE x == s.port[p]
           a == [x EXCEPT !.running = FALSE, !.oneMore = FALSE]
           m == [s EXCEPT !.port[p] = a]
           m0 == [s EXCEPT !.port[p].running = FALSE, !.port[p].oneMore = FALSE]
           n == ScheduleNow(m, p, "NotifyAllocationFinish")
           t == RoundFinished(s, p)
<1>0. "NotifyAllocationFinish" \in Kinds /\ "TriggerAllocator" \in Kinds
  BY DEF Kinds
<1>1. x \in PortStates(mode)
  BY PortFields
<1>2. m0 = m
  BY DEF NodeStates
<1>3. t = IF x.oneMore THEN ScheduleNow(n, p, "TriggerAllocator") ELSE n
  BY <1>2 DEF RoundFinished
<1> HIDE DEF x, t, m0
<1>4. /\ a \in PortStates(mode) /\ a.busy = x.busy /\ a.egress = x.egress /\ a.wire = x.wire
      /\ ~a.running /\ ~a.oneMore
  BY <1>1 DEF PortStates
<1> HIDE DEF a
<1>5. m \in NodeStates(mode) /\ PortSet(s, m, p, a)
  BY <1>4, PortBecomes
<1> HIDE DEF m
<1>6. n \in NodeStates(mode) /\ EventMore(m, n, p, "NotifyAllocationFinish")
  BY <1>0, <1>5, ScheduleNowDoes
<1> HIDE DEF n
<1>7. CASE x.oneMore
  <2>1. t \in NodeStates(mode) /\ EventMore(n, t, p, "TriggerAllocator")
    BY <1>0, <1>3, <1>6, <1>7, ScheduleNowDoes
  <2>2. RoundEnd(s, t, p)
    BY <1>4, <1>5, <1>6, <1>7, <2>1 DEF RoundEnd, PortOnly, PortSet, EventMore, x
  <2> QED
    BY <2>1, <2>2 DEF t
<1>8. CASE ~x.oneMore
  <2>1. t = n
    BY <1>3, <1>8
  <2>2. RoundEnd(s, t, p)
    BY <1>4, <1>5, <1>6, <1>8, <2>1 DEF RoundEnd, PortOnly, PortSet, EventMore, x
  <2> QED
    BY <1>6, <2>1, <2>2 DEF t
<1> QED
  BY <1>7, <1>8

\* The VOQ k becomes v, and nothing else changes.
VoqSet(s, t, k, v) ==
    /\ t.fc = s.fc /\ t.inBuf = s.inBuf /\ t.outBuf = s.outBuf
    /\ t.port = s.port /\ t.events = s.events
    /\ t.voq[k] = v /\ \A j \in VoqKeys \ {k} : t.voq[j] = s.voq[j]

LEMMA VoqBecomes ==
    ASSUME NEW mode, NEW s \in NodeStates(mode), NEW k \in VoqKeys, NEW v \in Seq(Packets(mode))
    PROVE  /\ [s EXCEPT !.voq[k] = v] \in NodeStates(mode)
           /\ VoqSet(s, [s EXCEPT !.voq[k] = v], k, v)
<1> DEFINE t == [s EXCEPT !.voq[k] = v]
<1>1. t \in NodeStates(mode)
  BY DEF NodeStates
<1>2. /\ t.fc = s.fc /\ t.inBuf = s.inBuf /\ t.outBuf = s.outBuf
      /\ t.port = s.port /\ t.events = s.events
  BY DEF NodeStates
<1>3. t.voq[k] = v /\ \A j \in VoqKeys \ {k} : t.voq[j] = s.voq[j]
  BY DEF NodeStates
<1> QED
  BY <1>1, <1>2, <1>3 DEF VoqSet

\* A packet is handed to the egress queue, which takes it if it has room, and
\* to the flow control.
Enqueued(mode, s, t, p, q, pkt) ==
    /\ t.voq = s.voq /\ t.inBuf = s.inBuf /\ t.outBuf = s.outBuf /\ t.events = s.events
    /\ \A r \in Ports \ {p} : t.port[r] = s.port[r] /\ t.fc[r] = s.fc[r]
    /\ t.fc[p] = HandleSentPacket(mode, s.fc[p], q, q.vl, Bytes(pkt))
    /\ t.port[p].busy = s.port[p].busy /\ t.port[p].wire = s.port[p].wire
    /\ t.port[p].running = s.port[p].running /\ t.port[p].oneMore = s.port[p].oneMore
    /\ t.port[p].egress = IF EgressHasRoom(s.port[p], pkt) THEN Append(s.port[p].egress, pkt)
                          ELSE s.port[p].egress

LEMMA EnqueuedDoes ==
    ASSUME NEW mode, NEW s \in NodeStates(mode), NEW p \in Ports, NEW q, q.vl \in VLs,
           NEW pkt \in Packets(mode)
    PROVE  LET t == [s EXCEPT !.fc[p] = HandleSentPacket(mode, @, q, q.vl, Bytes(pkt)),
                              !.port[p] = DoEnqueue(@, pkt)]
           IN  t \in NodeStates(mode) /\ Enqueued(mode, s, t, p, q, pkt)
<1> DEFINE x == s.port[p]
           pt == DoEnqueue(x, pkt)
           y == HandleSentPacket(mode, s.fc[p], q, q.vl, Bytes(pkt))
           t == [s EXCEPT !.fc[p] = HandleSentPacket(mode, @, q, q.vl, Bytes(pkt)),
                          !.port[p] = DoEnqueue(@, pkt)]
           m == [s EXCEPT !.fc[p] = y]
           n == [m EXCEPT !.port[p] = pt]
<1>1. x \in PortStates(mode) /\ s.fc[p] \in FcStates /\ Bytes(pkt) \in Nat
  BY PortFields, PacketKinds
<1>2. y \in FcStates
  BY <1>1, HandleSentPacketDoes
<1>3. /\ pt \in PortStates(mode) /\ pt.busy = x.busy /\ pt.wire = x.wire
      /\ pt.running = x.running /\ pt.oneMore = x.oneMore
      /\ pt.egress = IF EgressHasRoom(x, pkt) THEN Append(x.egress, pkt) ELSE x.egress
  <2>1. x.egress \in Seq(Packets(mode))
    BY <1>1 DEF PortStates
  <2>2. Append(x.egress, pkt) \in Seq(Packets(mode))
    BY <2>1, AppendProperties
  <2>3. CASE EgressHasRoom(x, pkt)
    <3>1. pt = [x EXCEPT !.egress = Append(x.egress, pkt)]
      BY <1>1, <2>3 DEF DoEnqueue, PortStates
    <3> HIDE DEF pt, x
    <3> QED
      BY <1>1, <2>2, <2>3, <3>1 DEF PortStates
  <2>4. CASE ~EgressHasRoom(x, pkt)
    <3>1. pt = x
      BY <2>4 DEF DoEnqueue
    <3> HIDE DEF pt, x
    <3> QED
      BY <1>1, <2>4, <3>1
  <2> QED
    BY <2>3, <2>4
<1>4. t = n
  BY DEF NodeStates
<1> HIDE DEF y, pt, t
<1>5. m \in NodeStates(mode) /\ FcSet(s, m, p, y)
  BY <1>2, FcBecomes
<1> HIDE DEF m
<1>6. n \in NodeStates(mode) /\ PortSet(m, n, p, pt)
  BY <1>3, <1>5, PortBecomes
<1> HIDE DEF n
<1>7. n \in NodeStates(mode) /\ Enqueued(mode, s, n, p, q, pkt)
  BY <1>3, <1>5, <1>6 DEF FcSet, PortSet, Enqueued, y, x
<1> QED
  BY <1>4, <1>7 DEF t

\* Bytes leave the accounts of a VOQ.
Shrunk(s, t, in, out, vl, n) ==
    /\ t.fc = s.fc /\ t.voq = s.voq /\ t.port = s.port /\ t.events = s.events
    /\ Grown(s.inBuf, t.inBuf, in, vl, -n) /\ Grown(s.outBuf, t.outBuf, out, vl, -n)

LEMMA ShrunkDoes ==
    ASSUME NEW mode, NEW s \in NodeStates(mode), NEW in \in Ports, NEW out \in Ports,
           NEW vl \in VLs, NEW n \in Int
    PROVE  /\ [s EXCEPT !.inBuf[in][vl] = @ - n, !.outBuf[out][vl] = @ - n] \in NodeStates(mode)
           /\ Shrunk(s, [s EXCEPT !.inBuf[in][vl] = @ - n, !.outBuf[out][vl] = @ - n], in, out, vl, n)
<1> DEFINE t == [s EXCEPT !.inBuf[in][vl] = @ - n, !.outBuf[out][vl] = @ - n]
           b == [s.inBuf EXCEPT ![in][vl] = s.inBuf[in][vl] + (-n)]
           c == [s.outBuf EXCEPT ![out][vl] = s.outBuf[out][vl] + (-n)]
<1>1. s.inBuf \in Accounts /\ s.outBuf \in Accounts /\ -n \in Int
  BY NodeFields
<1>2. t = [s EXCEPT !.inBuf = b, !.outBuf = c]
  <2>1. s.inBuf[in][vl] \in Int /\ s.outBuf[out][vl] \in Int
    BY <1>1 DEF Accounts
  <2>2. s.inBuf[in][vl] - n = s.inBuf[in][vl] + (-n) /\ s.outBuf[out][vl] - n = s.outBuf[out][vl] + (-n)
    BY <2>1
  <2> QED
    BY <2>2 DEF NodeStates
<1>3. b \in Accounts /\ Grown(s.inBuf, b, in, vl, -n)
  BY <1>1, AccountGrows
<1>4. c \in Accounts /\ Grown(s.outBuf, c, out, vl, -n)
  BY <1>1, AccountGrows
<1> HIDE DEF b, c, t
<1>5. t \in NodeStates(mode)
  BY <1>2, <1>3, <1>4 DEF NodeStates
<1>6. /\ t.fc = s.fc /\ t.voq = s.voq /\ t.port = s.port /\ t.events = s.events
      /\ t.inBuf = b /\ t.outBuf = c
  BY <1>2, <1>3, <1>4 DEF NodeStates
<1>7. Shrunk(s, t, in, out, vl, n)
  BY <1>3, <1>4, <1>6 DEF Shrunk
<1> QED
  BY <1>5, <1>7 DEF t

\* The check of the thresholds, by what it cannot leave.
PfcChecked(s, t, r) ==
    /\ \A I : PfcClosed("PFC", I, r) /\ s \in I => t \in I
    /\ Kicked(t, r) \/ Still(s, t)

LEMMA CheckPfcDoes ==
    ASSUME NEW r \in Ports, NEW s \in NodeStates("PFC"), flowControl = "PFC"
    PROVE  CheckPfc(s, r) \in NodeStates("PFC") /\ PfcChecked(s, CheckPfc(s, r), r)
<1>1. PfcClosed("PFC", NodeStates("PFC"), r)
  BY DEF PfcClosed
<1>2. CheckPfc(s, r) \in NodeStates("PFC") /\ (Kicked(CheckPfc(s, r), r) \/ Still(s, CheckPfc(s, r)))
  BY <1>1, CheckPfcStays
<1>3. ASSUME NEW I, PfcClosed("PFC", I, r), s \in I PROVE CheckPfc(s, r) \in I
  BY <1>3, CheckPfcStays
<1> QED
  BY <1>2, <1>3 DEF PfcChecked

\* What is done for the link that the packet came by.
Freed(mode, s, t, pkt, in, out) ==
    \/ t = s /\ (in = out \/ mode = "NONE")
    \/ /\ in # out /\ mode \in CreditTypes
       /\ CreditsReturned(mode, s, t, in, Flows[pkt.flow].vl, Bytes(pkt))
    \/ in # out /\ mode = "PFC" /\ PfcChecked(s, t, in)

LEMMA HandleReleaseOccupiedDoes ==
    ASSUME NEW mode \in FcTypes, flowControl = mode, NEW s \in NodeStates(mode),
           NEW in \in Ports, NEW out \in Ports, NEW pkt \in Packets(mode), in # out => IsData(pkt)
    PROVE  /\ HandleReleaseOccupied(s, pkt, in, out) \in NodeStates(mode)
           /\ Freed(mode, s, HandleReleaseOccupied(s, pkt, in, out), pkt, in, out)
<1>1. CASE in # out /\ mode \in CreditTypes
  <2>1. HandleReleaseOccupied(s, pkt, in, out) = ReturnCredits(s, in, pkt)
    BY <1>1 DEF HandleReleaseOccupied, CreditTypes
  <2>2. /\ ReturnCredits(s, in, pkt) \in NodeStates(mode)
        /\ CreditsReturned(mode, s, ReturnCredits(s, in, pkt), in, Flows[pkt.flow].vl, Bytes(pkt))
    BY <1>1, ReturnCreditsDoes
  <2> QED
    BY <1>1, <2>1, <2>2 DEF Freed
<1>2. CASE in # out /\ mode = "PFC"
  <2>1. HandleReleaseOccupied(s, pkt, in, out) = CheckPfc(s, in)
    BY <1>2 DEF HandleReleaseOccupied, CreditTypes
  <2>2. CheckPfc(s, in) \in NodeStates(mode) /\ PfcChecked(s, CheckPfc(s, in), in)
    BY <1>2, CheckPfcDoes
  <2> QED
    BY <1>2, <2>1, <2>2 DEF Freed
<1>3. CASE ~(in # out /\ mode \in CreditTypes) /\ ~(in # out /\ mode = "PFC")
  <2>1. in = out \/ mode = "NONE"
    BY <1>3 DEF FcTypes, CreditTypes
  <2>2. ~(in # out /\ flowControl \in CreditTypes) /\ ~(in # out /\ flowControl = "PFC")
    BY <1>3
  <2>3. HandleReleaseOccupied(s, pkt, in, out) = s
    <3>1. CASE in = out
      BY <3>1 DEF HandleReleaseOccupied
    <3>2. CASE flowControl = "NONE"
      BY <3>2 DEF HandleReleaseOccupied, CreditTypes
    <3> QED
      BY <2>1, <3>1, <3>2
  <2> QED
    BY <2>1, <2>3 DEF Freed
<1> QED
  BY <1>1, <1>2, <1>3

\* A packet is pushed to the VOQ of its output port, which is then triggered.
Forwarded(mode, s, t, pkt, in, out, vl) ==
    \E a, b \in NodeStates(mode) :
        /\ Pushed(s, a, pkt, in, out, vl)
        /\ IF mode = "PFC" THEN PfcChecked(a, b, in) ELSE b = a
        /\ Pumped(b, t, out) /\ Kicked(t, out)

LEMMA SendPacketDoes ==
    ASSUME NEW mode, flowControl = mode, NEW s \in NodeStates(mode), NEW pkt \in Packets(mode),
           NEW in \in Ports, NEW out \in Ports, NEW vl \in VLs, <<out, vl, in>> \in VoqKeys
    PROVE  /\ SendPacket(s, pkt, in, out, vl) \in NodeStates(mode)
           /\ Forwarded(mode, s, SendPacket(s, pkt, in, out, vl), pkt, in, out, vl)
<1> DEFINE a == PushToVoq(s, pkt, in, out, vl)
           b == IF mode = "PFC" THEN CheckPfc(a, in) ELSE a
           t == TriggerTransmit(b, out)
<1>1. SendPacket(s, pkt, in, out, vl) = t
  BY DEF SendPacket
<1>2. a \in NodeStates(mode) /\ Pushed(s, a, pkt, in, out, vl)
  BY PushToVoqDoes
<1> HIDE DEF a
<1>3. b \in NodeStates(mode) /\ (IF mode = "PFC" THEN PfcChecked(a, b, in) ELSE b = a)
  <2>1. CASE mode = "PFC"
    <3>1. CheckPfc(a, in) \in NodeStates("PFC") /\ PfcChecked(a, CheckPfc(a, in), in)
      BY <1>2, <2>1, CheckPfcDoes
    <3> QED
      BY <2>1, <3>1
  <2>2. CASE mode # "PFC"
    BY <1>2, <2>2
  <2> QED
    BY <2>1, <2>2
<1> HIDE DEF b
<1>4. t \in NodeStates(mode) /\ Pumped(b, t, out) /\ Kicked(t, out)
  BY <1>3, TriggerTransmitDoes
<1> HIDE DEF t
<1>5. Forwarded(mode, s, t, pkt, in, out, vl)
  BY <1>2, <1>3, <1>4 DEF Forwarded
<1> QED
  BY <1>1, <1>4, <1>5

-----------------------------------------------------------------------------
(* Where packets are.                                                      *)

\* The packets that a port has begun to send or will, the oldest first.
Line(s, p) == s.port[p].wire \o s.port[p].egress

\* Packets that belong on a port, and in a VOQ.
OnPort(mode, p) == {pkt \in Packets(mode) : IsData(pkt) => p \in Way(pkt.flow)}
InVoq(mode, k) ==
    {pkt \in Packets(mode) :
        IF IsData(pkt) THEN /\ k[1] \in Way(pkt.flow) /\ Flows[pkt.flow].vl = k[2]
                            /\ k[1] = k[3] => Flows[pkt.flow].via = "LDST"
        ELSE k[1] = k[3] /\ k[2] = 0}

\* The states of the nodes with every packet where it belongs.
PlacedStates(mode) ==
    {s \in NodeStates(mode) : /\ \A p \in Ports : Line(s, p) \in Seq(OnPort(mode, p))
                              /\ \A k \in VoqKeys : s.voq[k] \in Seq(InVoq(mode, k))}

\* A sequence of elements of Q.
LEMMA SeqWithin ==
    ASSUME NEW S, NEW Q, NEW w \in Seq(S), \A i \in DOMAIN w : w[i] \in Q
    PROVE  w \in Seq(Q)
  OBVIOUS

\* The parts of a sequence of elements of Q.
LEMMA PartsOf ==
    ASSUME NEW S, NEW Q, NEW w \in Seq(S), NEW x \in Seq(S), w \o x \in Seq(Q)
    PROVE  w \in Seq(Q) /\ x \in Seq(Q)
<1> DEFINE d == w \o x
<1>1. /\ \A i \in DOMAIN w : i \in DOMAIN d /\ d[i] = w[i]
      /\ \A i \in DOMAIN x : \E j \in DOMAIN d : j = i + Len(w) /\ d[j] = x[i]
  BY ConcatParts
<1>2. d \in Seq(Q)
  OBVIOUS
<1> HIDE DEF d
<1>3. \A j \in DOMAIN d : d[j] \in Q
  BY <1>2, SeqElement
<1>4. (\A i \in DOMAIN w : w[i] \in Q) /\ (\A i \in DOMAIN x : x[i] \in Q)
  BY <1>1, <1>3
<1> QED
  BY <1>4, SeqWithin

LEMMA LineTyped ==
    ASSUME NEW mode, NEW s \in PlacedStates(mode), NEW p \in Ports
    PROVE  /\ s \in NodeStates(mode)
           /\ s.port[p].wire \in Seq(OnPort(mode, p)) /\ s.port[p].egress \in Seq(OnPort(mode, p))
           /\ Line(s, p) \in Seq(OnPort(mode, p)) /\ Line(s, p) \in Seq(Packets(mode))
<1>1. s \in NodeStates(mode) /\ Line(s, p) \in Seq(OnPort(mode, p))
  BY DEF PlacedStates
<1>2. s.port[p].wire \in Seq(Packets(mode)) /\ s.port[p].egress \in Seq(Packets(mode))
  BY <1>1, PortFields
<1>3. s.port[p].wire \in Seq(OnPort(mode, p)) /\ s.port[p].egress \in Seq(OnPort(mode, p))
  BY <1>1, <1>2, PartsOf DEF Line
<1>4. Line(s, p) \in Seq(Packets(mode))
  BY <1>2, ConcatHolds DEF Line
<1> QED
  BY <1>1, <1>3, <1>4

LEMMA PlacedKept ==
    ASSUME NEW mode, NEW s \in PlacedStates(mode), NEW t \in NodeStates(mode),
           \A p \in Ports : Line(t, p) = Line(s, p), t.voq = s.voq
    PROVE  t \in PlacedStates(mode)
  BY DEF PlacedStates

LEMMA PlacedMore ==
    ASSUME NEW mode, NEW s \in PlacedStates(mode), NEW t \in NodeStates(mode),
           \A p \in Ports : Line(t, p) = Line(s, p), NEW k \in VoqKeys, NEW pkt \in InVoq(mode, k),
           t.voq[k] = Append(s.voq[k], pkt), \A j \in VoqKeys \ {k} : t.voq[j] = s.voq[j]
    PROVE  t \in PlacedStates(mode)
<1>1. Append(s.voq[k], pkt) \in Seq(InVoq(mode, k))
  <2>1. s.voq[k] \in Seq(InVoq(mode, k))
    BY DEF PlacedStates
  <2> QED
    BY <2>1, AppendSeq
<1>2. \A j \in VoqKeys : t.voq[j] \in Seq(InVoq(mode, j))
  <2> SUFFICES ASSUME NEW j \in VoqKeys PROVE t.voq[j] \in Seq(InVoq(mode, j))
    OBVIOUS
  <2>1. CASE j = k
    BY <1>1, <2>1
  <2>2. CASE j # k
    BY <2>2 DEF PlacedStates
  <2> QED
    BY <2>1, <2>2
<1> QED
  BY <1>2 DEF PlacedStates

LEMMA PlacedPumped ==
    ASSUME NEW mode, NEW s \in PlacedStates(mode), NEW t \in NodeStates(mode), NEW r \in Ports,
           Pumped(s, t, r)
    PROVE  t \in PlacedStates(mode)
<1>1. t.voq = s.voq /\ \A p \in Ports : Line(t, p) = Line(s, p)
  BY DEF Pumped, PortOnly, Line
<1> QED
  BY <1>1, PlacedKept

LEMMA PlacedTells ==
    ASSUME NEW mode, NEW s \in PlacedStates(mode), NEW t \in NodeStates(mode), NEW r \in Ports,
           NEW frame, frame = NoFrame \/ frame \in Frames(mode), Tells(s, t, r, frame)
    PROVE  t \in PlacedStates(mode)
<1>1. \A p \in Ports : Line(t, p) = Line(s, p)
  BY DEF Tells, Line
<1>2. CASE frame = NoFrame
  BY <1>1, <1>2, PlacedKept DEF Tells
<1>3. CASE frame # NoFrame
  <2> DEFINE k == <<r, 0, r>>
  <2>1. k \in VoqKeys /\ k[1] = r /\ k[2] = 0 /\ k[3] = r
    BY ControlKey
  <2>2. frame \in Frames(mode) /\ Control(frame) \in Packets(mode) /\ ~IsData(Control(frame))
    BY <1>3, ControlPacket
  <2>3. t.voq[k] = Append(s.voq[k], Control(frame)) /\ \A j \in VoqKeys \ {k} : t.voq[j] = s.voq[j]
    BY <1>3 DEF Tells
  <2> HIDE DEF k
  <2>4. Control(frame) \in InVoq(mode, k)
    BY <2>1, <2>2 DEF InVoq
  <2> QED
    BY <1>1, <2>1, <2>3, <2>4, PlacedMore
<1> QED
  BY <1>2, <1>3

LEMMA PlacedClosed ==
    ASSUME NEW r \in Ports
    PROVE  PfcClosed("PFC", PlacedStates("PFC"), r)
<1>1. PlacedStates("PFC") \subseteq NodeStates("PFC")
  BY DEF PlacedStates
<1>2. ASSUME NEW a \in PlacedStates("PFC"), NEW b \in NodeStates("PFC"), PfcTells(a, b, r)
      PROVE  b \in PlacedStates("PFC")
  <2>1. PICK frame : (frame = NoFrame \/ frame \in Frames("PFC")) /\ Tells(a, b, r, frame)
    BY <1>2 DEF PfcTells, Frames
  <2> QED
    BY <2>1, PlacedTells
<1>3. ASSUME NEW a \in PlacedStates("PFC"), NEW b \in NodeStates("PFC"), Pumped(a, b, r)
      PROVE  b \in PlacedStates("PFC")
  BY <1>3, PlacedPumped
<1> QED
  BY <1>1, <1>2, <1>3 DEF PfcClosed

LEMMA PlacedReturned ==
    ASSUME NEW mode \in CreditTypes, NEW s \in PlacedStates(mode), NEW t \in NodeStates(mode), NEW r \in Ports,
           NEW vl, NEW bytes, CreditsReturned(mode, s, t, r, vl, bytes)
    PROVE  t \in PlacedStates(mode)
<1>1. PICK m \in NodeStates(mode) :
         CreditTells(s, m, r, vl, bytes) /\ ((t = m /\ Still(s, t)) \/ Pumped(m, t, r))
  BY DEF CreditsReturned
<1>2. PICK rel : Released(s.fc[r], rel, vl, bytes) /\ Tells(s, m, r, rel.frame)
  BY <1>1 DEF CreditTells
<1>3. rel.frame = NoFrame \/ rel.frame \in Frames(mode)
  BY <1>2 DEF Released, Frames, CreditTypes
<1>4. m \in PlacedStates(mode)
  BY <1>1, <1>2, <1>3, PlacedTells
<1> QED
  BY <1>1, <1>4, PlacedPumped

LEMMA PlacedChecked ==
    ASSUME NEW s \in PlacedStates("PFC"), NEW t, NEW r \in Ports, PfcChecked(s, t, r)
    PROVE  t \in PlacedStates("PFC")
  BY PlacedClosed DEF PfcChecked

LEMMA PlacedFreed ==
    ASSUME NEW mode, NEW s \in PlacedStates(mode), NEW t \in NodeStates(mode), NEW in \in Ports, NEW out \in Ports,
           NEW pkt, Freed(mode, s, t, pkt, in, out)
    PROVE  t \in PlacedStates(mode)
<1>1. CASE t = s
  BY <1>1
<1>2. CASE mode \in CreditTypes /\ CreditsReturned(mode, s, t, in, Flows[pkt.flow].vl, Bytes(pkt))
  BY <1>2, PlacedReturned
<1>3. CASE mode = "PFC" /\ PfcChecked(s, t, in)
  BY <1>3, PlacedChecked
<1> QED
  BY <1>1, <1>2, <1>3 DEF Freed

-----------------------------------------------------------------------------
(* What each action does to the state of the nodes, from s to t.           *)

LEMMA Became ==
    ASSUME NEW mode, NEW t \in NodeStates(mode), Become(t)
    PROVE  NodeState' = t
<1>1. t = [fc |-> t.fc, voq |-> t.voq, inBuf |-> t.inBuf, outBuf |-> t.outBuf,
           port |-> t.port, events |-> t.events]
  BY NodeFields
<1> HIDE <1>1
<1>2. NodeState' = [fc |-> t.fc, voq |-> t.voq, inBuf |-> t.inBuf, outBuf |-> t.outBuf,
                    port |-> t.port, events |-> t.events]
  BY DEF Become, NodeState
<1> QED
  BY <1>1, <1>2

LEMMA NodeStateFields ==
    /\ NodeState.fc = fc /\ NodeState.voq = voq /\ NodeState.inBuf = inBuf
    /\ NodeState.outBuf = outBuf /\ NodeState.port = port /\ NodeState.events = events
    /\ NodeState'.fc = fc' /\ NodeState'.voq = voq' /\ NodeState'.inBuf = inBuf'
    /\ NodeState'.outBuf = outBuf' /\ NodeState'.port = port' /\ NodeState'.events = events'
  BY DEF NodeState

Ran(m, t, p, kind) ==
    \/ kind = "TriggerTransmit" /\ Pumped(m, t, p) /\ Kicked(t, p)
    \/ kind = "TriggerAllocator" /\ AllocatorTriggered(m, t, p)
    \/ kind = "NotifyAllocationFinish" /\ Notified(m, t, p)

RunShape(mode, s, t, p) ==
    \E m \in NodeStates(mode) : \E kind \in Kinds : EventTaken(s, m, p, kind) /\ Ran(m, t, p, kind)

LEMMA RunDoes ==
    ASSUME NodeState \in NodeStates(flowControl), RunScheduledNow
    PROVE  /\ NodeState' \in NodeStates(flowControl)
           /\ \E p \in Ports : events[p] # <<>> /\ RunShape(flowControl, NodeState, NodeState', p)
<1> DEFINE S == {q \in Ports : events[q] # <<>>}
           p == Min(S)
           kind == Head(events[p])
           m == [NodeState EXCEPT !.events[p] = Tail(@)]
           t == CASE kind = "TriggerTransmit" -> TriggerTransmit(m, p)
                  [] kind = "TriggerAllocator" -> TriggerAllocator(m, p)
                  [] kind = "NotifyAllocationFinish" -> NotifyAllocationFinish(m, p)
<1>1. S \subseteq Nat /\ S # {}
  BY PortsTyped DEF RunScheduledNow
<1>2. p \in S
  <2> HIDE DEF S
  <2>1. \E x \in S : \A k \in S : x <= k
    BY <1>1, LeastNatural
  <2> QED
    BY <2>1 DEF Min
<1>3. p \in Ports /\ events[p] # <<>> /\ NodeState.events = events
  BY <1>2, NodeStateFields
<1>4. Become(t)
  BY DEF RunScheduledNow
<1> HIDE DEF p, S
<1>5. m \in NodeStates(flowControl) /\ EventTaken(NodeState, m, p, kind) /\ kind \in Kinds
  BY <1>3, EventTakenDoes
<1> HIDE DEF m, kind
<1>6. t \in NodeStates(flowControl) /\ Ran(m, t, p, kind)
  <2>1. CASE kind = "TriggerTransmit"
    <3>1. t = TriggerTransmit(m, p)
      BY <2>1
    <3> QED
      BY <1>3, <1>5, <2>1, <3>1, TriggerTransmitDoes DEF Ran
  <2>2. CASE kind = "TriggerAllocator"
    <3>1. t = TriggerAllocator(m, p)
      BY <2>2
    <3> QED
      BY <1>3, <1>5, <2>2, <3>1, TriggerAllocatorDoes DEF Ran
  <2>3. CASE kind = "NotifyAllocationFinish"
    <3>1. t = NotifyAllocationFinish(m, p)
      BY <2>3
    <3> QED
      BY <1>3, <1>5, <2>3, <3>1, NotifyAllocationFinishDoes DEF Ran
  <2> QED
    BY <1>5, <2>1, <2>2, <2>3 DEF Kinds
<1> HIDE DEF t
<1>7. NodeState' = t
  BY <1>4, <1>6, Became
<1> QED
  BY <1>3, <1>5, <1>6, <1>7 DEF RunShape

LEMMA TpOfferDoes ==
    ASSUME NodeState \in NodeStates(flowControl), NEW f \in FlowIds, TpOffer(f)
    PROVE  /\ NodeState' \in NodeStates(flowControl)
           /\ Pumped(NodeState, NodeState', Flows[f].src) /\ Kicked(NodeState', Flows[f].src)
<1> DEFINE t == TriggerTransmit(NodeState, Flows[f].src)
<1>1. Become(t)
  BY DEF TpOffer, Timed
<1>2. t \in NodeStates(flowControl) /\ Pumped(NodeState, t, Flows[f].src) /\ Kicked(t, Flows[f].src)
  BY FlowsTyped, TriggerTransmitDoes
<1> HIDE DEF t
<1> QED
  BY <1>1, <1>2, Became

LdstShape(mode, s, t, f) ==
    LET p == Flows[f].src
        k == <<p, Flows[f].vl, p>>
    IN  \E m \in NodeStates(mode) : /\ VoqSet(s, m, k, Append(s.voq[k], Data(f)))
                                    /\ EventMore(m, t, p, "TriggerTransmit")

LEMMA LdstSendDoes ==
    ASSUME NodeState \in NodeStates(flowControl), NEW f \in FlowIds, LdstSend(f)
    PROVE  /\ NodeState' \in NodeStates(flowControl)
           /\ LdstShape(flowControl, NodeState, NodeState', f)
<1> DEFINE p == Flows[f].src
           k == <<p, Flows[f].vl, p>>
           m == [NodeState EXCEPT !.voq[k] = Append(@, Data(f))]
           v == Append(NodeState.voq[k], Data(f))
           t == ScheduleNow(m, p, "TriggerTransmit")
<1>1. Become(t)
  BY DEF LdstSend, Timed
<1>2. p \in Ports /\ k \in VoqKeys /\ Data(f) \in Packets(flowControl)
  BY FlowsTyped, KeysTyped, DataPacket
<1>3. v \in Seq(Packets(flowControl))
  BY <1>2, NodeFields, AppendSeq
<1>4. m = [NodeState EXCEPT !.voq[k] = v]
  OBVIOUS
<1>5. m \in NodeStates(flowControl) /\ VoqSet(NodeState, m, k, v)
  <2> HIDE DEF v, k, m
  <2> QED
    BY <1>2, <1>3, <1>4, VoqBecomes
<1> HIDE DEF m
<1>6. t \in NodeStates(flowControl) /\ EventMore(m, t, p, "TriggerTransmit")
  BY <1>2, <1>5, ScheduleNowDoes DEF Kinds
<1> HIDE DEF t
<1>7. NodeState' = t
  BY <1>1, <1>6, Became
<1> QED
  BY <1>5, <1>6, <1>7 DEF LdstShape

CompleteShape(mode, s, t, p) ==
    \E m \in NodeStates(mode) : /\ PortSet(s, m, p, [s.port[p] EXCEPT !.busy = FALSE])
                                /\ EventMore(m, t, p, "TriggerTransmit")

LEMMA TransmitCompleteDoes ==
    ASSUME NodeState \in NodeStates(flowControl), NEW p \in Ports, TransmitComplete(p)
    PROVE  /\ NodeState' \in NodeStates(flowControl)
           /\ CompleteShape(flowControl, NodeState, NodeState', p)
<1> DEFINE m == [NodeState EXCEPT !.port[p].busy = FALSE]
           pt == [NodeState.port[p] EXCEPT !.busy = FALSE]
           t == ScheduleNow(m, p, "TriggerTransmit")
<1>1. Become(t)
  BY DEF TransmitComplete, Timed
<1>2. pt \in PortStates(flowControl)
  <2>1. NodeState.port[p] \in PortStates(flowControl)
    BY PortFields
  <2> QED
    BY <2>1 DEF PortStates
<1>3. m = [NodeState EXCEPT !.port[p] = pt]
  OBVIOUS
<1>4. m \in NodeStates(flowControl) /\ PortSet(NodeState, m, p, pt)
  <2> HIDE DEF pt, m
  <2> QED
    BY <1>2, <1>3, PortBecomes
<1> HIDE DEF m
<1>5. t \in NodeStates(flowControl) /\ EventMore(m, t, p, "TriggerTransmit")
  BY <1>4, ScheduleNowDoes DEF Kinds
<1> HIDE DEF t
<1>6. NodeState' = t
  BY <1>1, <1>5, Became
<1> QED
  BY <1>4, <1>5, <1>6 DEF CompleteShape

LEMMA AllocateNothingDoes ==
    ASSUME NodeState \in NodeStates(flowControl), NEW p \in Ports, AllocateNothing(p)
    PROVE  NodeState' \in NodeStates(flowControl) /\ RoundEnd(NodeState, NodeState', p)
<1> DEFINE t == RoundFinished(NodeState, p)
<1>1. Become(t)
  BY DEF AllocateNothing, Timed
<1>2. t \in NodeStates(flowControl) /\ RoundEnd(NodeState, t, p)
  BY RoundFinishedDoes
<1> HIDE DEF t
<1> QED
  BY <1>1, <1>2, Became

ServeTpShape(mode, s, t, p, f) ==
    \E a \in NodeStates(mode) : Enqueued(mode, s, a, p, Tp(f), Data(f)) /\ RoundEnd(a, t, p)

ServeVoqShape(mode, s, t, p, vl, in) ==
    LET q   == Voq(p, vl, in)
        k   == <<p, vl, in>>
        pkt == Head(s.voq[k])
    IN  \E a, b, c, d \in NodeStates(mode) :
            /\ VoqSet(s, a, k, Tail(s.voq[k]))
            /\ Enqueued(mode, a, b, p, q, pkt)
            /\ Freed(mode, b, c, pkt, in, p)
            /\ IF IsGeneratedDataPacket(q) THEN d = c ELSE Shrunk(c, d, in, p, vl, Bytes(pkt))
            /\ RoundEnd(d, t, p)

\* Served packets that the egress queue has no room for.
Lost(p, pkt) ==
    dropped' = [f \in FlowIds |-> IF pkt.flow = f /\ ~EgressHasRoom(port[p], pkt)
                                  THEN dropped[f] + 1 ELSE dropped[f]]

TpServed(p, f) ==
    /\ Flows[f].via = "TP" /\ Flows[f].src = p /\ CanSend(p, Tp(f))
    /\ ServeTpShape(flowControl, NodeState, NodeState', p, f)
    /\ offered' = [offered EXCEPT ![f] = @ - 1] /\ Lost(p, Data(f))

VoqServed(p, vl, in) ==
    /\ CanSend(p, Voq(p, vl, in)) /\ voq[<<p, vl, in>>] # <<>>
    /\ ServeVoqShape(flowControl, NodeState, NodeState', p, vl, in)
    /\ UNCHANGED offered /\ Lost(p, Head(voq[<<p, vl, in>>]))

LEMMA HeadOfVoq ==
    ASSUME NEW mode, NEW s \in PlacedStates(mode), NEW k \in VoqKeys, s.voq[k] # <<>>
    PROVE  /\ Head(s.voq[k]) \in InVoq(mode, k) /\ Head(s.voq[k]) \in Packets(mode)
           /\ Tail(s.voq[k]) \in Seq(InVoq(mode, k)) /\ Tail(s.voq[k]) \in Seq(Packets(mode))
<1>1. s.voq[k] \in Seq(InVoq(mode, k)) /\ s.voq[k] \in Seq(Packets(mode))
  BY NodeFields DEF PlacedStates
<1> QED
  BY <1>1, HeadTailSeq DEF InVoq

\* The packet of a transport channel.
LEMMA TpServes ==
    ASSUME NodeState \in PlacedStates(flowControl), flowControl \in FcTypes, NEW p \in Ports, NEW f \in FlowIds,
           Flows[f].via = "TP", Flows[f].src = p, AllocateFromTp(p, Tp(f))
    PROVE  /\ NodeState' \in NodeStates(flowControl)
           /\ ServeTpShape(flowControl, NodeState, NodeState', p, f)
           /\ offered' = [offered EXCEPT ![f] = @ - 1]
<1> DEFINE q == Tp(f)
           pkt == Data(f)
           a == [NodeState EXCEPT !.fc[p] = HandleSentPacket(flowControl, @, q, q.vl, Bytes(pkt)),
                                  !.port[p] = DoEnqueue(@, pkt)]
           b == HandleReleaseOccupied(a, pkt, p, p)
           t == RoundFinished(b, p)
<1>1. q.type = "TP" /\ q.in = p /\ q.flow = f /\ q.vl \in VLs /\ pkt \in Packets(flowControl)
  BY QueueFields, FlowsTyped, DataPacket
<1>2. NextPacket(q) = pkt
  BY <1>1 DEF NextPacket
<1>3. Become(t) /\ offered' = [offered EXCEPT ![f] = @ - 1]
  BY <1>1, <1>2 DEF AllocateFromTp, Timed, Moved
<1> HIDE DEF q, pkt
<1>4. NodeState \in NodeStates(flowControl)
  BY DEF PlacedStates
<1>5. a \in NodeStates(flowControl) /\ Enqueued(flowControl, NodeState, a, p, q, pkt)
  BY <1>1, <1>4, EnqueuedDoes
<1> HIDE DEF a
<1>6. b \in NodeStates(flowControl) /\ Freed(flowControl, a, b, pkt, p, p)
  BY <1>1, <1>5, HandleReleaseOccupiedDoes
<1> HIDE DEF b
<1>7. b = a
  BY <1>6 DEF Freed
<1>8. t \in NodeStates(flowControl) /\ RoundEnd(a, t, p)
  BY <1>5, <1>7, RoundFinishedDoes
<1> HIDE DEF t
<1>9. NodeState' = t
  BY <1>3, <1>8, Became
<1> QED
  BY <1>3, <1>5, <1>8, <1>9 DEF ServeTpShape, q, pkt

\* The packet at the head of a VOQ.
LEMMA VoqServes ==
    ASSUME NodeState \in PlacedStates(flowControl), flowControl \in FcTypes, NEW p \in Ports, NEW vl \in VLs,
           NEW in \in PortsOf(p), voq[<<p, vl, in>>] # <<>>, AllocateFromVoq(p, Voq(p, vl, in))
    PROVE  /\ NodeState' \in NodeStates(flowControl)
           /\ ServeVoqShape(flowControl, NodeState, NodeState', p, vl, in)
           /\ UNCHANGED offered
<1> DEFINE q == Voq(p, vl, in)
           k == <<p, vl, in>>
           pkt == Head(voq[k])
           v == Tail(voq[k])
           a == [NodeState EXCEPT !.voq[k] = v]
           b == [a EXCEPT !.fc[p] = HandleSentPacket(flowControl, @, q, q.vl, Bytes(pkt)),
                          !.port[p] = DoEnqueue(@, pkt)]
           c == HandleReleaseOccupied(b, pkt, in, p)
           d == IF IsGeneratedDataPacket(q) THEN c
                ELSE [c EXCEPT !.inBuf[in][vl] = @ - Bytes(pkt), !.outBuf[p][vl] = @ - Bytes(pkt)]
           t == RoundFinished(d, p)
<1>1. /\ q.type = "VOQ" /\ q.out = p /\ q.in = in /\ q.vl = vl /\ q.vl \in VLs
      /\ in \in Ports /\ k \in VoqKeys
  <2>1. q.type = "VOQ" /\ q.out = p /\ q.in = in /\ q.vl = vl
    BY QueueFields
  <2>2. in \in Ports /\ k \in VoqKeys
    BY KeysTyped
  <2> QED
    BY <2>1, <2>2
<1>2. NextPacket(q) = pkt
  BY <1>1 DEF NextPacket
<1>3. a = [NodeState EXCEPT !.voq[<<p, q.vl, q.in>>] = Tail(@)]
  BY <1>1, NodeStateFields
<1>4. Become(t) /\ UNCHANGED offered
  BY <1>1, <1>2, <1>3 DEF AllocateFromVoq, Timed, Moved
<1>5. k[1] = p /\ k[2] = vl /\ k[3] = in
  OBVIOUS
<1> HIDE DEF q, k
<1>6. NodeState \in NodeStates(flowControl) /\ NodeState.voq = voq
  BY NodeStateFields DEF PlacedStates
<1>7. pkt \in InVoq(flowControl, k) /\ pkt \in Packets(flowControl) /\ v \in Seq(Packets(flowControl))
  <2>1. NodeState.voq[k] # <<>>
    BY <1>6 DEF k
  <2> QED
    BY <1>1, <1>6, <2>1, HeadOfVoq
<1>8. Bytes(pkt) \in Int
  BY <1>7, PacketKinds
<1> HIDE DEF pkt, v
<1>9. a \in NodeStates(flowControl) /\ VoqSet(NodeState, a, k, v)
  BY <1>1, <1>6, <1>7, VoqBecomes
<1> HIDE DEF a
<1>10. b \in NodeStates(flowControl) /\ Enqueued(flowControl, a, b, p, q, pkt)
  <2>1. q.vl \in VLs /\ pkt \in Packets(flowControl) /\ a \in NodeStates(flowControl)
    BY <1>1, <1>7, <1>9
  <2> QED
    BY <2>1, EnqueuedDoes
<1> HIDE DEF b
<1>11. in # p => IsData(pkt)
  BY <1>5, <1>7 DEF InVoq
<1>12. c \in NodeStates(flowControl) /\ Freed(flowControl, b, c, pkt, in, p)
  BY <1>1, <1>7, <1>10, <1>11, HandleReleaseOccupiedDoes
<1> HIDE DEF c
<1>13. d \in NodeStates(flowControl)
       /\ IF IsGeneratedDataPacket(q) THEN d = c ELSE Shrunk(c, d, in, p, vl, Bytes(pkt))
  <2>1. CASE IsGeneratedDataPacket(q)
    BY <1>12, <2>1
  <2>2. CASE ~IsGeneratedDataPacket(q)
    <3> DEFINE n == Bytes(pkt)
               e == [c EXCEPT !.inBuf[in][vl] = @ - n, !.outBuf[p][vl] = @ - n]
    <3>1. d = e
      BY <2>2
    <3>2. n \in Int
      BY <1>8
    <3> HIDE DEF d, n
    <3>3. e \in NodeStates(flowControl) /\ Shrunk(c, e, in, p, vl, n)
      <4>1. in \in Ports /\ c \in NodeStates(flowControl)
        BY <1>1, <1>12
      <4> QED
        BY <3>2, <4>1, ShrunkDoes
    <3> QED
      BY <2>2, <3>1, <3>3 DEF n
  <2> QED
    BY <2>1, <2>2
<1> HIDE DEF d
<1>14. t \in NodeStates(flowControl) /\ RoundEnd(d, t, p)
  BY <1>13, RoundFinishedDoes
<1> HIDE DEF t
<1>15. NodeState' = t
  BY <1>4, <1>14, Became
<1>16. NodeState.voq = voq
  BY NodeStateFields
<1> QED
  BY <1>4, <1>9, <1>10, <1>12, <1>13, <1>14, <1>15, <1>16 DEF ServeVoqShape, q, k, pkt, v

\* The allocator of p serves the queue i of the VL.
Selects(p, vl, i) ==
    LET q == IngressSources[p][vl][i]
    IN  /\ IsSelected(p, vl, i)
        /\ \/ q.type = "TP" /\ AllocateFromTp(p, q)
           \/ q.type = "VOQ" /\ AllocateFromVoq(p, q)
        /\ Lost(p, NextPacket(q))
        /\ rrIdx' = [rrIdx EXCEPT ![p][vl] = RoundRobin(p, vl, i)]

LEMMA AllocateDoes ==
    ASSUME NodeState \in PlacedStates(flowControl), flowControl \in FcTypes, NEW p \in Ports, AllocateNextPacket(p)
    PROVE  /\ NodeState' \in NodeStates(flowControl) /\ port[p].running
           /\ \/ \E f \in FlowIds : TpServed(p, f)
              \/ \E vl \in VLs : \E in \in PortsOf(p) : VoqServed(p, vl, in)
<1>0. PICK vl \in VLs : \E i \in DOMAIN IngressSources[p][vl] : Selects(p, vl, i)
  BY DEF AllocateNextPacket, Selects, Lost
<1>1. PICK i \in DOMAIN IngressSources[p][vl] : Selects(p, vl, i)
  BY <1>0
<1> DEFINE q == IngressSources[p][vl][i]
<1>2. CanSend(p, q)
  BY <1>1 DEF Selects, IsSelected
<1>3. Lost(p, NextPacket(q))
  BY <1>1 DEF Selects
<1>4. \/ \E in \in PortsOf(p) : q = Voq(p, vl, in)
      \/ \E f \in FlowIds : Flows[f].via = "TP" /\ Flows[f].src = p /\ Flows[f].vl = vl /\ q = Tp(f)
  BY IngressTyped
<1>5. (q.type = "TP" /\ AllocateFromTp(p, q)) \/ (q.type = "VOQ" /\ AllocateFromVoq(p, q))
  BY <1>1 DEF Selects
<1>6. port[p].running
  BY DEF AllocateNextPacket
<1> HIDE DEF q
<1>7. ASSUME NEW in \in PortsOf(p), q = Voq(p, vl, in)
      PROVE  NodeState' \in NodeStates(flowControl) /\ VoqServed(p, vl, in)
  <2>1. q.type = "VOQ" /\ q.out = p /\ q.vl = vl /\ q.in = in
    BY <1>7, QueueFields
  <2>2. voq[<<p, vl, in>>] # <<>> /\ NextPacket(q) = Head(voq[<<p, vl, in>>])
    BY <1>2, <2>1 DEF CanSend, QueueIsEmpty, NextPacket
  <2>3. AllocateFromVoq(p, q)
    BY <1>5, <2>1
  <2>4. /\ NodeState' \in NodeStates(flowControl)
        /\ ServeVoqShape(flowControl, NodeState, NodeState', p, vl, in)
        /\ UNCHANGED offered
    BY <1>7, <2>2, <2>3, VoqServes
  <2> QED
    BY <1>2, <1>3, <1>7, <2>2, <2>4 DEF VoqServed
<1>8. ASSUME NEW f \in FlowIds, Flows[f].via = "TP", Flows[f].src = p, q = Tp(f)
      PROVE  NodeState' \in NodeStates(flowControl) /\ TpServed(p, f)
  <2>1. q.type = "TP" /\ q.flow = f
    BY <1>8, QueueFields
  <2>2. NextPacket(q) = Data(f)
    BY <2>1 DEF NextPacket
  <2>3. AllocateFromTp(p, q)
    BY <1>5, <2>1
  <2>4. /\ NodeState' \in NodeStates(flowControl)
        /\ ServeTpShape(flowControl, NodeState, NodeState', p, f)
        /\ offered' = [offered EXCEPT ![f] = @ - 1]
    BY <1>8, <2>3, TpServes
  <2> QED
    BY <1>2, <1>3, <1>8, <2>2, <2>4 DEF TpServed
<1> QED
  BY <1>4, <1>6, <1>7, <1>8

\* The packet at the head of the wire that ends at p is taken from it.
Received(s, t, p) ==
    LET q == Peer[p]
    IN  /\ s.port[q].wire # <<>>
        /\ PortSet(s, t, q, [s.port[q] EXCEPT !.wire = Tail(s.port[q].wire)])

LEMMA UnwiredDoes ==
    ASSUME NodeState \in PlacedStates(flowControl), NEW p \in Ports, Arrivable(p)
    PROVE  /\ Unwired(p) \in NodeStates(flowControl) /\ Received(NodeState, Unwired(p), p)
           /\ Arriving(p) = Head(NodeState.port[Peer[p]].wire)
           /\ Arriving(p) \in OnPort(flowControl, Peer[p]) /\ Arriving(p) \in Packets(flowControl)
<1> DEFINE q == Peer[p]
           w == port[q].wire
           pt == [NodeState.port[q] EXCEPT !.wire = Tail(w)]
<1>0. q \in Ports /\ NodeState.port = port /\ NodeState \in NodeStates(flowControl)
  BY PortsTyped, NodeStateFields DEF PlacedStates
<1>1. w \in Seq(Packets(flowControl)) /\ w \in Seq(OnPort(flowControl, q)) /\ port[q] \in PortStates(flowControl)
  BY <1>0, PortFields, LineTyped
<1>2. w # <<>>
  <2>1. Len(w) > 0
    BY <1>1 DEF Arrivable
  <2> QED
    BY <1>1, <2>1
<1>3. /\ Head(w) \in Packets(flowControl) /\ Head(w) \in OnPort(flowControl, q)
      /\ Tail(w) \in Seq(Packets(flowControl))
  BY <1>1, <1>2, HeadTailSeq
<1>4. pt \in PortStates(flowControl)
  <2> HIDE DEF w
  <2> QED
    BY <1>0, <1>1, <1>3 DEF PortStates
<1>5. Unwired(p) = [NodeState EXCEPT !.port[q] = pt]
  BY <1>0 DEF Unwired
<1> HIDE DEF pt
<1>6. Unwired(p) \in NodeStates(flowControl) /\ PortSet(NodeState, Unwired(p), q, pt)
  BY <1>0, <1>4, <1>5, PortBecomes
<1> QED
  BY <1>0, <1>2, <1>3, <1>6 DEF Received, Arriving, pt

ControlShape(mode, s, t, p, credits) ==
    \E a, b \in NodeStates(mode) :
        /\ Received(s, a, p)
        /\ FcSet(a, b, p, HandleReceivedControlPacket(mode, s.fc[p], credits))
        /\ EventMore(b, t, p, "TriggerTransmit")

SinkShape(mode, s, t, p, pkt) ==
    \E a \in NodeStates(mode) :
        /\ Received(s, a, p)
        /\ IF mode \in CreditTypes
           THEN CreditsReturned(mode, a, t, p, Flows[pkt.flow].vl, Bytes(pkt)) ELSE t = a

ForwardShape(mode, s, t, p, pkt) ==
    \E a \in NodeStates(mode) :
        /\ Received(s, a, p)
        /\ Forwarded(mode, a, t, pkt, p, OutPort(p, pkt.flow), Flows[pkt.flow].vl)

LEMMA ReceiveControlDoes ==
    ASSUME NodeState \in PlacedStates(flowControl), NEW p \in Ports, ReceiveControlFrame(p)
    PROVE  /\ NodeState' \in NodeStates(flowControl)
           /\ ~IsData(Arriving(p)) /\ Arriving(p).credits \in Frames(flowControl)
           /\ Arriving(p) = Head(NodeState.port[Peer[p]].wire)
           /\ ControlShape(flowControl, NodeState, NodeState', p, Arriving(p).credits)
<1> DEFINE a == Unwired(p)
           c == Arriving(p).credits
           y == HandleReceivedControlPacket(flowControl, a.fc[p], c)
           b == [a EXCEPT !.fc[p] = HandleReceivedControlPacket(flowControl, @, c)]
           t == ScheduleNow(b, p, "TriggerTransmit")
<1>1. Become(t) /\ Arrivable(p) /\ ~IsData(Arriving(p))
  BY DEF ReceiveControlFrame, Timed
<1>2. a \in NodeStates(flowControl) /\ Received(NodeState, a, p)
  BY <1>1, UnwiredDoes
<1>3. Arriving(p) \in Packets(flowControl) /\ Arriving(p) = Head(NodeState.port[Peer[p]].wire)
  BY <1>1, UnwiredDoes
<1>4. c \in Frames(flowControl)
  BY <1>1, <1>3, PacketKinds
<1> HIDE DEF a, c
<1>5. a.fc[p] \in FcStates /\ a.fc = NodeState.fc
  BY <1>2, PortFields DEF Received, PortSet
<1>6. y \in FcStates
  BY <1>4, <1>5, HandleReceivedDoes
<1>7. b = [a EXCEPT !.fc[p] = y]
  OBVIOUS
<1>8. y = HandleReceivedControlPacket(flowControl, NodeState.fc[p], c)
  BY <1>5
<1> HIDE DEF y, b
<1>9. b \in NodeStates(flowControl) /\ FcSet(a, b, p, y)
  BY <1>2, <1>6, <1>7, FcBecomes
<1>10. t \in NodeStates(flowControl) /\ EventMore(b, t, p, "TriggerTransmit")
  BY <1>9, ScheduleNowDoes DEF Kinds
<1>11. t = ScheduleNow(b, p, "TriggerTransmit")
  OBVIOUS
<1>12. Become(t)
  BY <1>1 DEF b, a, c
<1> HIDE DEF t
<1>13. NodeState' = t
  BY <1>10, <1>12, Became
<1> QED
  BY <1>1, <1>2, <1>3, <1>4, <1>8, <1>9, <1>10, <1>13 DEF ControlShape, c

LEMMA SinkDoes ==
    ASSUME NodeState \in PlacedStates(flowControl), flowControl \in FcTypes, NEW p \in Ports, SinkDataPacket(p)
    PROVE  /\ NodeState' \in NodeStates(flowControl)
           /\ IsData(Arriving(p)) /\ Arriving(p).flow \in FlowIds
           /\ Arriving(p) = Head(NodeState.port[Peer[p]].wire)
           /\ SinkShape(flowControl, NodeState, NodeState', p, Arriving(p))
<1> DEFINE a == Unwired(p)
           pkt == Arriving(p)
           t == IF flowControl \in CreditTypes THEN ReturnCredits(a, p, pkt) ELSE a
<1>1. Become(t) /\ Arrivable(p) /\ IsData(pkt)
  BY DEF SinkDataPacket, Timed
<1>2. a \in NodeStates(flowControl) /\ Received(NodeState, a, p)
      /\ pkt \in Packets(flowControl) /\ pkt = Head(NodeState.port[Peer[p]].wire)
  BY <1>1, UnwiredDoes
<1>3. pkt.flow \in FlowIds
  BY <1>1, <1>2, PacketKinds
<1> HIDE DEF a, pkt
<1>4. /\ t \in NodeStates(flowControl)
      /\ IF flowControl \in CreditTypes
         THEN CreditsReturned(flowControl, a, t, p, Flows[pkt.flow].vl, Bytes(pkt)) ELSE t = a
  <2>1. CASE flowControl \in CreditTypes
    <3>1. t = ReturnCredits(a, p, pkt)
      BY <2>1
    <3> HIDE DEF t
    <3> QED
      BY <1>1, <1>2, <2>1, <3>1, ReturnCreditsDoes
  <2>2. CASE flowControl \notin CreditTypes
    BY <1>2, <2>2
  <2> QED
    BY <2>1, <2>2
<1> HIDE DEF t
<1>5. NodeState' = t
  BY <1>1, <1>4, Became
<1> QED
  BY <1>1, <1>2, <1>3, <1>4, <1>5 DEF SinkShape, pkt

LEMMA ForwardDoes ==
    ASSUME NodeState \in PlacedStates(flowControl), NEW p \in Ports, ForwardDataPacket(p)
    PROVE  LET pkt == Arriving(p)
               out == OutPort(p, pkt.flow)
           IN  /\ NodeState' \in NodeStates(flowControl)
               /\ IsData(pkt) /\ pkt.flow \in FlowIds /\ pkt \in Packets(flowControl)
               /\ pkt = Head(NodeState.port[Peer[p]].wire)
               /\ out \in Way(pkt.flow) /\ out \in Ports /\ out # p /\ <<out, Flows[pkt.flow].vl, p>> \in VoqKeys
               /\ IF CheckInPortSpace(p, Flows[pkt.flow].vl, Bytes(pkt))
                  THEN /\ ForwardShape(flowControl, NodeState, NodeState', p, pkt)
                       /\ UNCHANGED dropped
                  ELSE /\ Received(NodeState, NodeState', p)
                       /\ dropped' = [dropped EXCEPT ![pkt.flow] = @ + 1]
<1> DEFINE a == Unwired(p)
           pkt == Arriving(p)
           vl == Flows[pkt.flow].vl
           out == OutPort(p, pkt.flow)
           t == SendPacket(a, pkt, p, out, vl)
           room == CheckInPortSpace(p, vl, Bytes(pkt))
<1>1. /\ Arrivable(p) /\ IsData(pkt) /\ ~IsLocal(p, pkt.flow)
      /\ \/ room /\ Become(t) /\ UNCHANGED dropped
         \/ ~room /\ Become(a) /\ dropped' = [dropped EXCEPT ![pkt.flow] = @ + 1]
  BY DEF ForwardDataPacket, Timed
<1>2. a \in NodeStates(flowControl) /\ Received(NodeState, a, p)
      /\ pkt \in Packets(flowControl) /\ pkt = Head(NodeState.port[Peer[p]].wire)
      /\ pkt \in OnPort(flowControl, Peer[p])
  BY <1>1, UnwiredDoes
<1>3. pkt.flow \in FlowIds /\ vl \in VLs
  BY <1>1, <1>2, PacketKinds, FlowsTyped
<1>4. Peer[p] \in Way(pkt.flow) /\ Peer[Peer[p]] = p
  BY <1>1, <1>2, PortsTyped DEF OnPort
<1>5. ~IsLocal(Peer[Peer[p]], pkt.flow)
  BY <1>1, <1>4
<1> HIDE DEF a, pkt
<1>6. out \in Way(pkt.flow) /\ out \in Ports /\ out # p /\ NodeOf[out] = NodeOf[p]
  BY <1>3, <1>4, <1>5, WayGoesOn
<1>7. <<out, vl, p>> \in VoqKeys
  BY <1>3, <1>6, KeysTyped
<1> HIDE DEF vl, out, room
<1>8. t \in NodeStates(flowControl) /\ Forwarded(flowControl, a, t, pkt, p, out, vl)
  BY <1>2, <1>3, <1>6, <1>7, SendPacketDoes
<1> HIDE DEF t
<1>9. IF room THEN NodeState' = t /\ UNCHANGED dropped
      ELSE NodeState' = a /\ dropped' = [dropped EXCEPT ![pkt.flow] = @ + 1]
  BY <1>1, <1>2, <1>8, Became
<1>10. IF room THEN ForwardShape(flowControl, NodeState, t, p, pkt) ELSE TRUE
  BY <1>2, <1>8 DEF ForwardShape, vl, out
<1>11. /\ NodeState' \in NodeStates(flowControl)
       /\ IF room THEN ForwardShape(flowControl, NodeState, NodeState', p, pkt) /\ UNCHANGED dropped
          ELSE Received(NodeState, NodeState', p) /\ dropped' = [dropped EXCEPT ![pkt.flow] = @ + 1]
  BY <1>2, <1>8, <1>9, <1>10
<1> QED
  BY <1>1, <1>2, <1>3, <1>6, <1>7, <1>11 DEF pkt, out, vl, room

-----------------------------------------------------------------------------
(* The types, and where packets are, in every state.                       *)

\* What leaves the packets of the nodes where they are.
SameQueues(s, t) == t.voq = s.voq /\ \A p \in Ports : Line(t, p) = Line(s, p)

LEMMA SameQueuesOf ==
    ASSUME NEW mode, NEW s, NEW t, NEW p \in Ports,
           \/ \E kind : EventTaken(s, t, p, kind) \/ EventMore(s, t, p, kind)
           \/ RoundEnd(s, t, p) \/ AllocatorTriggered(s, t, p) \/ Notified(s, t, p) \/ Pumped(s, t, p)
           \/ \E in, out, vl, n : Shrunk(s, t, in, out, vl, n)
           \/ \E y : FcSet(s, t, p, y)
    PROVE  SameQueues(s, t)
<1>1. CASE \E kind : EventTaken(s, t, p, kind) \/ EventMore(s, t, p, kind)
  BY <1>1 DEF EventTaken, EventMore, SameQueues, Line
<1>2. CASE RoundEnd(s, t, p)
  BY <1>2 DEF RoundEnd, PortOnly, SameQueues, Line
<1>3. CASE AllocatorTriggered(s, t, p)
  BY <1>3 DEF AllocatorTriggered, PortSet, SameQueues, Line
<1>4. ASSUME Pumped(s, t, p) PROVE SameQueues(s, t)
  BY <1>4 DEF Pumped, PortOnly, SameQueues, Line
<1>5. CASE Notified(s, t, p)
  BY <1>4, <1>5 DEF Notified, SameQueues
<1>6. CASE \E in, out, vl, n : Shrunk(s, t, in, out, vl, n)
  BY <1>6 DEF Shrunk, SameQueues, Line
<1>7. CASE \E y : FcSet(s, t, p, y)
  BY <1>7 DEF FcSet, SameQueues, Line
<1> QED
  BY <1>1, <1>2, <1>3, <1>4, <1>5, <1>6, <1>7

LEMMA PlacedSame ==
    ASSUME NEW mode, NEW s \in PlacedStates(mode), NEW t \in NodeStates(mode), SameQueues(s, t)
    PROVE  t \in PlacedStates(mode)
  BY PlacedKept DEF SameQueues

LEMMA PlacedRun ==
    ASSUME NEW mode, NEW s \in PlacedStates(mode), NEW t \in NodeStates(mode), NEW p \in Ports,
           RunShape(mode, s, t, p)
    PROVE  t \in PlacedStates(mode)
<1>1. PICK m \in NodeStates(mode), kind \in Kinds : EventTaken(s, m, p, kind) /\ Ran(m, t, p, kind)
  BY DEF RunShape
<1>2. SameQueues(s, m) /\ SameQueues(m, t)
  BY <1>1, SameQueuesOf DEF Ran
<1> QED
  BY <1>1, <1>2, PlacedSame

LEMMA PlacedLdst ==
    ASSUME NEW mode, NEW s \in PlacedStates(mode), NEW t \in NodeStates(mode), NEW f \in FlowIds,
           Flows[f].via = "LDST", LdstShape(mode, s, t, f)
    PROVE  t \in PlacedStates(mode)
<1> DEFINE p == Flows[f].src
           k == <<p, Flows[f].vl, p>>
<1>1. PICK m \in NodeStates(mode) : /\ VoqSet(s, m, k, Append(s.voq[k], Data(f)))
                                    /\ EventMore(m, t, p, "TriggerTransmit")
  BY DEF LdstShape
<1>2. p \in Ports /\ k \in VoqKeys /\ Data(f) \in Packets(mode) /\ IsData(Data(f)) /\ Data(f).flow = f
      /\ p \in Way(f) /\ k[1] = p /\ k[2] = Flows[f].vl
  BY FlowsTyped, KeysTyped, DataPacket, WayStarts
<1> HIDE DEF k, p
<1>3. Data(f) \in InVoq(mode, k)
  BY <1>2 DEF InVoq
<1>4. m \in PlacedStates(mode)
  <2>1. /\ \A r \in Ports : Line(m, r) = Line(s, r)
        /\ m.voq[k] = Append(s.voq[k], Data(f)) /\ \A j \in VoqKeys \ {k} : m.voq[j] = s.voq[j]
    BY <1>1 DEF VoqSet, Line
  <2> QED
    BY <1>2, <1>3, <2>1, PlacedMore
<1> QED
  BY <1>1, <1>2, <1>4, SameQueuesOf, PlacedSame

LEMMA PlacedComplete ==
    ASSUME NEW mode, NEW s \in PlacedStates(mode), NEW t \in NodeStates(mode), NEW p \in Ports,
           CompleteShape(mode, s, t, p)
    PROVE  t \in PlacedStates(mode)
<1>1. PICK m \in NodeStates(mode) : /\ PortSet(s, m, p, [s.port[p] EXCEPT !.busy = FALSE])
                                    /\ EventMore(m, t, p, "TriggerTransmit")
  BY DEF CompleteShape
<1>2. s.port[p] \in PortStates(mode)
  BY PortFields DEF PlacedStates
<1>3. SameQueues(s, m)
  BY <1>1, <1>2 DEF PortSet, SameQueues, Line, PortStates
<1> QED
  BY <1>1, <1>3, SameQueuesOf, PlacedSame

LEMMA PlacedEnqueued ==
    ASSUME NEW mode, NEW s \in PlacedStates(mode), NEW t \in NodeStates(mode), NEW p \in Ports,
           NEW q, NEW pkt \in OnPort(mode, p), Enqueued(mode, s, t, p, q, pkt)
    PROVE  /\ t \in PlacedStates(mode)
           /\ Line(t, p) = IF EgressHasRoom(s.port[p], pkt) THEN Append(Line(s, p), pkt) ELSE Line(s, p)
<1>1. /\ s.port[p].wire \in Seq(OnPort(mode, p)) /\ s.port[p].egress \in Seq(OnPort(mode, p))
      /\ Line(s, p) \in Seq(OnPort(mode, p))
  BY LineTyped
<1>2. /\ s.port[p].wire \o Append(s.port[p].egress, pkt) = Append(Line(s, p), pkt)
      /\ Append(Line(s, p), pkt) \in Seq(OnPort(mode, p))
  <2>1. s.port[p].wire \o Append(s.port[p].egress, pkt) = Append(s.port[p].wire \o s.port[p].egress, pkt)
    <3> DEFINE w == s.port[p].wire
               x == s.port[p].egress
    <3>1. w \in Seq(OnPort(mode, p)) /\ x \in Seq(OnPort(mode, p))
      BY <1>1
    <3> HIDE DEF w, x
    <3>2. w \o Append(x, pkt) = Append(w \o x, pkt)
      BY <3>1, ConcatAppend
    <3> QED
      BY <3>2 DEF w, x
  <2> QED
    BY <1>1, <2>1, AppendSeq DEF Line
<1>3. /\ Line(t, p) = IF EgressHasRoom(s.port[p], pkt) THEN Append(Line(s, p), pkt) ELSE Line(s, p)
      /\ t.voq = s.voq /\ \A r \in Ports \ {p} : Line(t, r) = Line(s, r)
  BY <1>2 DEF Enqueued, Line
<1>4. Line(t, p) \in Seq(OnPort(mode, p))
  BY <1>1, <1>2, <1>3
<1> QED
  BY <1>3, <1>4 DEF PlacedStates

LEMMA PlacedTp ==
    ASSUME NEW mode, NEW s \in PlacedStates(mode), NEW t \in NodeStates(mode), NEW p \in Ports,
           NEW f \in FlowIds, Flows[f].src = p, ServeTpShape(mode, s, t, p, f)
    PROVE  t \in PlacedStates(mode)
<1>1. PICK a \in NodeStates(mode) : Enqueued(mode, s, a, p, Tp(f), Data(f)) /\ RoundEnd(a, t, p)
  BY DEF ServeTpShape
<1>2. Data(f) \in OnPort(mode, p)
  BY DataPacket, WayStarts DEF OnPort
<1>3. a \in PlacedStates(mode)
  BY <1>1, <1>2, PlacedEnqueued
<1> QED
  BY <1>1, <1>3, SameQueuesOf, PlacedSame

LEMMA PlacedShorter ==
    ASSUME NEW mode, NEW s \in PlacedStates(mode), NEW t \in NodeStates(mode), NEW k \in VoqKeys,
           s.voq[k] # <<>>, VoqSet(s, t, k, Tail(s.voq[k]))
    PROVE  t \in PlacedStates(mode)
<1>1. Tail(s.voq[k]) \in Seq(InVoq(mode, k))
  BY HeadOfVoq
<1>2. \A j \in VoqKeys : t.voq[j] \in Seq(InVoq(mode, j))
  <2> SUFFICES ASSUME NEW j \in VoqKeys PROVE t.voq[j] \in Seq(InVoq(mode, j))
    OBVIOUS
  <2>1. CASE j = k
    BY <1>1, <2>1 DEF VoqSet
  <2>2. CASE j # k
    BY <2>2 DEF PlacedStates, VoqSet
  <2> QED
    BY <2>1, <2>2
<1> QED
  BY <1>2 DEF PlacedStates, VoqSet, Line

LEMMA PlacedVoq ==
    ASSUME NEW mode, NEW s \in PlacedStates(mode), NEW t \in NodeStates(mode), NEW p \in Ports,
           NEW vl \in VLs, NEW in \in PortsOf(p), s.voq[<<p, vl, in>>] # <<>>,
           ServeVoqShape(mode, s, t, p, vl, in)
    PROVE  t \in PlacedStates(mode)
<1> DEFINE q == Voq(p, vl, in)
           k == <<p, vl, in>>
           pkt == Head(s.voq[k])
<1>1. PICK a, b, c, d \in NodeStates(mode) :
         /\ VoqSet(s, a, k, Tail(s.voq[k])) /\ Enqueued(mode, a, b, p, q, pkt)
         /\ Freed(mode, b, c, pkt, in, p)
         /\ IF IsGeneratedDataPacket(q) THEN d = c ELSE Shrunk(c, d, in, p, vl, Bytes(pkt))
         /\ RoundEnd(d, t, p)
  BY DEF ServeVoqShape
<1>2. in \in Ports /\ k \in VoqKeys /\ s.voq[k] # <<>> /\ k[1] = p
  BY KeysTyped
<1> HIDE DEF k, q
<1>3. a \in PlacedStates(mode)
  BY <1>1, <1>2, PlacedShorter
<1>4. pkt \in OnPort(mode, p)
  BY <1>2, HeadOfVoq DEF InVoq, OnPort
<1> HIDE DEF pkt
<1>5. b \in PlacedStates(mode)
  BY <1>1, <1>3, <1>4, PlacedEnqueued
<1>6. c \in PlacedStates(mode)
  BY <1>1, <1>2, <1>5, PlacedFreed
<1>7. d = c \/ SameQueues(c, d)
  BY <1>1, SameQueuesOf
<1>8. d \in PlacedStates(mode)
  BY <1>6, <1>7, PlacedSame
<1> QED
  BY <1>1, <1>8, SameQueuesOf, PlacedSame

LEMMA PlacedReceived ==
    ASSUME NEW mode, NEW s \in PlacedStates(mode), NEW t \in NodeStates(mode), NEW p \in Ports,
           Received(s, t, p)
    PROVE  /\ t \in PlacedStates(mode)
           /\ Line(s, Peer[p]) # <<>> /\ Head(Line(s, Peer[p])) = Head(s.port[Peer[p]].wire)
           /\ Line(t, Peer[p]) = Tail(Line(s, Peer[p]))
           /\ t.port[Peer[p]].egress = s.port[Peer[p]].egress
           /\ t.port[Peer[p]].busy = s.port[Peer[p]].busy
           /\ t.port[Peer[p]].running = s.port[Peer[p]].running
           /\ t.port[Peer[p]].oneMore = s.port[Peer[p]].oneMore
           /\ \A q \in Ports \ {Peer[p]} : t.port[q] = s.port[q]
           /\ t.fc = s.fc /\ t.voq = s.voq /\ t.inBuf = s.inBuf /\ t.outBuf = s.outBuf /\ t.events = s.events
<1> DEFINE q == Peer[p]
           w == s.port[q].wire
           x == s.port[q].egress
<1>0. q \in Ports
  BY PortsTyped
<1>1. /\ s.port[q] \in PortStates(mode) /\ w \in Seq(Packets(mode)) /\ x \in Seq(Packets(mode))
      /\ Line(s, q) \in Seq(OnPort(mode, q))
  BY <1>0, LineTyped, PortFields
<1>2. w # <<>> /\ PortSet(s, t, q, [s.port[q] EXCEPT !.wire = Tail(w)])
  BY DEF Received
<1>3. /\ t.port[q].wire = Tail(w) /\ t.port[q].egress = x /\ t.port[q].busy = s.port[q].busy
      /\ t.port[q].running = s.port[q].running /\ t.port[q].oneMore = s.port[q].oneMore
      /\ \A r \in Ports \ {q} : t.port[r] = s.port[r]
      /\ t.fc = s.fc /\ t.voq = s.voq /\ t.inBuf = s.inBuf /\ t.outBuf = s.outBuf /\ t.events = s.events
  BY <1>1, <1>2 DEF PortSet, PortStates
<1>4. Tail(w) \o x = Tail(w \o x) /\ w \o x # <<>> /\ Head(w \o x) = Head(w)
  <2> HIDE DEF w, x
  <2> QED
    BY <1>1, <1>2
<1>5. Line(s, q) # <<>> /\ Head(Line(s, q)) = Head(w) /\ Line(t, q) = Tail(Line(s, q))
  BY <1>3, <1>4 DEF Line
<1>6. Line(t, q) \in Seq(OnPort(mode, q))
  BY <1>1, <1>5, HeadTailSeq
<1>7. \A r \in Ports \ {q} : Line(t, r) = Line(s, r)
  BY <1>3 DEF Line
<1>8. t \in PlacedStates(mode)
  BY <1>3, <1>6, <1>7 DEF PlacedStates
<1> QED
  BY <1>3, <1>5, <1>8

LEMMA PlacedControl ==
    ASSUME NEW mode, NEW s \in PlacedStates(mode), NEW t \in NodeStates(mode), NEW p \in Ports,
           NEW c, ControlShape(mode, s, t, p, c)
    PROVE  t \in PlacedStates(mode)
<1>1. PICK a, b \in NodeStates(mode) :
        /\ Received(s, a, p) /\ FcSet(a, b, p, HandleReceivedControlPacket(mode, s.fc[p], c))
        /\ EventMore(b, t, p, "TriggerTransmit")
  BY DEF ControlShape
<1>2. a \in PlacedStates(mode)
  BY <1>1, PlacedReceived
<1>3. b \in PlacedStates(mode)
  BY <1>1, <1>2, SameQueuesOf, PlacedSame
<1> QED
  BY <1>1, <1>3, SameQueuesOf, PlacedSame

LEMMA PlacedSink ==
    ASSUME NEW mode, NEW s \in PlacedStates(mode), NEW t \in NodeStates(mode), NEW p \in Ports,
           NEW pkt, SinkShape(mode, s, t, p, pkt)
    PROVE  t \in PlacedStates(mode)
<1>1. PICK a \in NodeStates(mode) :
        /\ Received(s, a, p)
        /\ IF mode \in CreditTypes
           THEN CreditsReturned(mode, a, t, p, Flows[pkt.flow].vl, Bytes(pkt)) ELSE t = a
  BY DEF SinkShape
<1>2. a \in PlacedStates(mode)
  BY <1>1, PlacedReceived
<1> QED
  BY <1>1, <1>2, PlacedReturned

LEMMA PlacedForwarded ==
    ASSUME NEW mode, NEW s \in PlacedStates(mode), NEW t \in NodeStates(mode), NEW in \in Ports,
           NEW out \in Ports, out # in, NEW pkt \in Packets(mode), IsData(pkt), out \in Way(pkt.flow),
           <<out, Flows[pkt.flow].vl, in>> \in VoqKeys, Forwarded(mode, s, t, pkt, in, out, Flows[pkt.flow].vl)
    PROVE  t \in PlacedStates(mode)
<1> DEFINE vl == Flows[pkt.flow].vl
           k == <<out, vl, in>>
<1>1. PICK a, b \in NodeStates(mode) :
        /\ Pushed(s, a, pkt, in, out, vl)
        /\ IF mode = "PFC" THEN PfcChecked(a, b, in) ELSE b = a
        /\ Pumped(b, t, out)
  BY DEF Forwarded
<1>2. k \in VoqKeys /\ k[1] = out /\ k[2] = vl /\ k[1] # k[3]
  OBVIOUS
<1>3. /\ a.voq[k] = Append(s.voq[k], pkt) /\ \A j \in VoqKeys \ {k} : a.voq[j] = s.voq[j]
      /\ \A r \in Ports : Line(a, r) = Line(s, r)
  BY <1>1 DEF Pushed, Line
<1> HIDE DEF k
<1>4. pkt \in InVoq(mode, k)
  BY <1>2 DEF InVoq
<1>5. a \in PlacedStates(mode)
  BY <1>2, <1>3, <1>4, PlacedMore
<1>6. b \in PlacedStates(mode)
  BY <1>1, <1>5, PlacedChecked
<1> QED
  BY <1>1, <1>6, PlacedPumped

LEMMA PlacedForward ==
    ASSUME NEW mode, NEW s \in PlacedStates(mode), NEW t \in NodeStates(mode), NEW p \in Ports,
           NEW pkt \in Packets(mode), IsData(pkt), OutPort(p, pkt.flow) \in Way(pkt.flow),
           OutPort(p, pkt.flow) \in Ports, OutPort(p, pkt.flow) # p,
           <<OutPort(p, pkt.flow), Flows[pkt.flow].vl, p>> \in VoqKeys, ForwardShape(mode, s, t, p, pkt)
    PROVE  t \in PlacedStates(mode)
<1>1. PICK a \in NodeStates(mode) :
        Received(s, a, p) /\ Forwarded(mode, a, t, pkt, p, OutPort(p, pkt.flow), Flows[pkt.flow].vl)
  BY DEF ForwardShape
<1>2. a \in PlacedStates(mode)
  BY <1>1, PlacedReceived
<1> QED
  BY <1>1, <1>2, PlacedForwarded

\* The inductive invariant of the types.
RoundsTyped == /\ rrIdx \in [Ports -> [VLs -> Nat]]
               /\ \A p \in Ports : \A vl \in VLs : rrIdx[p][vl] < Len(IngressSources[p][vl])
CountsTyped == \A counts \in {left, offered, received, dropped} : counts \in [FlowIds -> Nat]
TypeInv ==
    /\ flowControl \in FcTypes /\ NodeState \in PlacedStates(flowControl)
    /\ RoundsTyped /\ CountsTyped /\ draining \in BOOLEAN

LEMMA InitTyped ==
    ASSUME Init
    PROVE  TypeInv
<1>1. flowControl \in FcTypes /\ left \in [FlowIds -> Nat]
  <2>1. PICK s \in Scenarios : flowControl = s[1] /\ left = s[2]
    BY DEF Init
  <2>2. s \in FcTypes \X [FlowIds -> Nat]
    BY FabricAssumption
  <2> QED
    BY <2>1, <2>2
<1>2. NodeState \in NodeStates(flowControl)
  <2>1. FlowControlInit \in FcStates
    BY NumbersTyped DEF FlowControlInit, FcStates
  <2>2. fc \in [Ports -> FcStates]
    BY <2>1 DEF Init
  <2>3. \A T : <<>> \in Seq(T)
    OBVIOUS
  <2>4. voq \in [VoqKeys -> Seq(Packets(flowControl))]
    BY <2>3 DEF Init
  <2>5. inBuf \in Accounts /\ outBuf \in Accounts
    BY DEF Init, Accounts
  <2>6. port \in [Ports -> PortStates(flowControl)]
    BY <2>3 DEF Init, PortStates
  <2>7. events \in [Ports -> Seq(Kinds)]
    BY <2>3 DEF Init
  <2> QED
    BY <2>2, <2>4, <2>5, <2>6, <2>7 DEF NodeStates, NodeState
<1>3. NodeState \in PlacedStates(flowControl)
  <2>1. NodeState.voq = voq /\ NodeState.port = port
    BY NodeStateFields
  <2>2. \A T : <<>> \in Seq(T)
    OBVIOUS
  <2>3. \A p \in Ports : Line(NodeState, p) \in Seq(OnPort(flowControl, p))
    <3>1. \A p \in Ports : port[p].wire = <<>> /\ port[p].egress = <<>>
      BY DEF Init
    <3>2. <<>> \o <<>> = <<>>
      OBVIOUS
    <3> QED
      BY <2>1, <2>2, <3>1, <3>2 DEF Line
  <2>4. \A k \in VoqKeys : NodeState.voq[k] \in Seq(InVoq(flowControl, k))
    BY <2>1, <2>2 DEF Init
  <2> QED
    BY <1>2, <2>3, <2>4 DEF PlacedStates
<1>4. RoundsTyped
  BY IngressTyped DEF Init, RoundsTyped
<1>5. offered \in [FlowIds -> Nat] /\ received \in [FlowIds -> Nat] /\ dropped \in [FlowIds -> Nat]
  BY DEF Init
<1> QED
  BY <1>1, <1>3, <1>4, <1>5 DEF TypeInv, CountsTyped, Init

\* The state of the nodes, action by action.
LEMMA NodesPlaced ==
    ASSUME TypeInv, Next
    PROVE  NodeState' \in PlacedStates(flowControl)
<1> DEFINE mode == flowControl
           s == NodeState
           t == NodeState'
<1>0. mode \in FcTypes /\ s \in PlacedStates(mode) /\ s \in NodeStates(mode) /\ s.voq = voq
  BY NodeStateFields DEF TypeInv, PlacedStates
<1>1. CASE RunScheduledNow
  BY <1>0, <1>1, RunDoes, PlacedRun
<1>2. ASSUME NEW f \in FlowIds, TpOffer(f) PROVE t \in PlacedStates(mode)
  <2>1. Flows[f].src \in Ports
    BY FlowsTyped
  <2> QED
    BY <1>0, <1>2, <2>1, TpOfferDoes, PlacedPumped
<1>3. ASSUME NEW f \in FlowIds, LdstSend(f) PROVE t \in PlacedStates(mode)
  BY <1>0, <1>3, LdstSendDoes, PlacedLdst DEF LdstSend
<1>4. ASSUME NEW p \in Ports, TransmitComplete(p) PROVE t \in PlacedStates(mode)
  BY <1>0, <1>4, TransmitCompleteDoes, PlacedComplete
<1>5. ASSUME NEW p \in Ports, AllocateNothing(p) PROVE t \in PlacedStates(mode)
  BY <1>0, <1>5, AllocateNothingDoes, SameQueuesOf, PlacedSame
<1>6. ASSUME NEW p \in Ports, AllocateNextPacket(p) PROVE t \in PlacedStates(mode)
  <2>1. t \in NodeStates(mode)
    BY <1>0, <1>6, AllocateDoes
  <2>2. CASE \E f \in FlowIds : TpServed(p, f)
    BY <1>0, <2>1, <2>2, PlacedTp DEF TpServed
  <2>3. CASE \E vl \in VLs : \E in \in PortsOf(p) : VoqServed(p, vl, in)
    BY <1>0, <2>1, <2>3, PlacedVoq DEF VoqServed
  <2> QED
    BY <1>0, <1>6, <2>2, <2>3, AllocateDoes
<1>7. ASSUME NEW p \in Ports, ReceiveControlFrame(p) PROVE t \in PlacedStates(mode)
  BY <1>0, <1>7, ReceiveControlDoes, PlacedControl
<1>8. ASSUME NEW p \in Ports, SinkDataPacket(p) PROVE t \in PlacedStates(mode)
  BY <1>0, <1>8, SinkDoes, PlacedSink
<1>9. ASSUME NEW p \in Ports, ForwardDataPacket(p) PROVE t \in PlacedStates(mode)
  <2> DEFINE pkt == Arriving(p)
  <2>1. /\ t \in NodeStates(mode) /\ IsData(pkt) /\ pkt \in Packets(mode)
        /\ OutPort(p, pkt.flow) \in Way(pkt.flow) /\ OutPort(p, pkt.flow) \in Ports
        /\ OutPort(p, pkt.flow) # p
        /\ <<OutPort(p, pkt.flow), Flows[pkt.flow].vl, p>> \in VoqKeys
        /\ ForwardShape(mode, s, t, p, pkt) \/ Received(s, t, p)
    BY <1>0, <1>9, ForwardDoes
  <2> HIDE DEF pkt
  <2> QED
    BY <1>0, <2>1, PlacedForward, PlacedReceived
<1> QED
  BY <1>1, <1>2, <1>3, <1>4, <1>5, <1>6, <1>7, <1>8, <1>9 DEF Next, PortStep

LEMMA RoundsStep ==
    ASSUME RoundsTyped, Next
    PROVE  RoundsTyped'
<1>1. CASE UNCHANGED rrIdx
  BY <1>1 DEF RoundsTyped
<1>2. ASSUME NEW p \in Ports, AllocateNextPacket(p) PROVE RoundsTyped'
  <2>0. PICK vl \in VLs : \E i \in DOMAIN IngressSources[p][vl] : Selects(p, vl, i)
    BY <1>2 DEF AllocateNextPacket, Selects, Lost
  <2>1. PICK i \in DOMAIN IngressSources[p][vl] : Selects(p, vl, i)
    BY <2>0
  <2> DEFINE n == Len(IngressSources[p][vl])
             r == RoundRobin(p, vl, i)
  <2>2. rrIdx' = [rrIdx EXCEPT ![p][vl] = r]
    BY <2>1 DEF Selects
  <2>3. n \in Nat \ {0} /\ i \in 1..n
    BY IngressTyped
  <2>4. r \in Nat /\ r < n
    <3>1. r = i % n
      BY DEF RoundRobin
    <3> HIDE DEF n
    <3> QED
      BY <2>3, <3>1
  <2> HIDE DEF n, r
  <2>5. rrIdx' \in [Ports -> [VLs -> Nat]]
    BY <2>2, <2>4 DEF RoundsTyped
  <2>6. \A q \in Ports : \A w \in VLs : rrIdx'[q][w] = IF q = p /\ w = vl THEN r ELSE rrIdx[q][w]
    BY <2>2 DEF RoundsTyped
  <2> QED
    BY <2>4, <2>5, <2>6 DEF RoundsTyped, n
<1> QED
  BY <1>1, <1>2 DEF Next, PortStep, RunScheduledNow, TpOffer, LdstSend, TransmitComplete,
                    AllocateNothing, ReceiveControlFrame, SinkDataPacket, ForwardDataPacket

\* The packet counts: what is taken away was there.
LEMMA CountsStep ==
    ASSUME TypeInv, Next
    PROVE  CountsTyped'
<1>0. /\ left \in [FlowIds -> Nat] /\ offered \in [FlowIds -> Nat]
      /\ received \in [FlowIds -> Nat] /\ dropped \in [FlowIds -> Nat]
      /\ flowControl \in FcTypes /\ NodeState \in PlacedStates(flowControl)
  BY DEF TypeInv, CountsTyped
<1> DEFINE Good == /\ left' \in [FlowIds -> Nat] /\ offered' \in [FlowIds -> Nat]
                   /\ received' \in [FlowIds -> Nat] /\ dropped' \in [FlowIds -> Nat]
<1> SUFFICES Good
  BY DEF CountsTyped
<1>2. ASSUME NEW f \in FlowIds, TpOffer(f) PROVE Good
  BY <1>0, <1>2 DEF TpOffer
<1>3. ASSUME NEW f \in FlowIds, LdstSend(f) PROVE Good
  BY <1>0, <1>3 DEF LdstSend
<1>4. ASSUME NEW p \in Ports, AllocateNextPacket(p) PROVE Good
  <2>1. UNCHANGED <<left, received>>
    BY <1>4 DEF AllocateNextPacket
  <2>2. ASSUME NEW pkt, Lost(p, pkt) PROVE dropped' \in [FlowIds -> Nat]
    BY <1>0, <2>2 DEF Lost
  <2>3. CASE \E f \in FlowIds : TpServed(p, f)
    <3>1. PICK f \in FlowIds : TpServed(p, f)
      BY <2>3
    <3>2. offered[f] # 0
      BY <3>1, QueueFields DEF TpServed, CanSend, QueueIsEmpty
    <3>3. offered' \in [FlowIds -> Nat]
      BY <1>0, <3>1, <3>2 DEF TpServed
    <3> QED
      BY <1>0, <2>1, <2>2, <3>1, <3>3 DEF TpServed
  <2>4. CASE \E vl \in VLs : \E in \in PortsOf(p) : VoqServed(p, vl, in)
    BY <1>0, <2>1, <2>2, <2>4 DEF VoqServed
  <2> QED
    BY <1>0, <1>4, <2>3, <2>4, AllocateDoes
<1>5. ASSUME NEW p \in Ports, SinkDataPacket(p) PROVE Good
  <2>1. Arriving(p).flow \in FlowIds
    BY <1>0, <1>5, SinkDoes
  <2> QED
    BY <1>0, <1>5, <2>1 DEF SinkDataPacket
<1>6. ASSUME NEW p \in Ports, ForwardDataPacket(p) PROVE Good
  <2> DEFINE f == Arriving(p).flow
  <2>1. f \in FlowIds
    BY <1>0, <1>6, ForwardDoes
  <2>2. dropped' = dropped \/ dropped' = [dropped EXCEPT ![f] = @ + 1]
    BY <1>6 DEF ForwardDataPacket
  <2>3. UNCHANGED <<left, offered, received>>
    BY <1>6 DEF ForwardDataPacket
  <2> HIDE DEF f
  <2> QED
    BY <1>0, <2>1, <2>2, <2>3
<1>7. ASSUME RunScheduledNow PROVE Good
  BY <1>0, <1>7 DEF RunScheduledNow
<1>8. ASSUME NEW p \in Ports, TransmitComplete(p) \/ AllocateNothing(p) \/ ReceiveControlFrame(p)
      PROVE  Good
  BY <1>0, <1>8 DEF TransmitComplete, AllocateNothing, ReceiveControlFrame
<1> HIDE DEF Good
<1> QED
  BY <1>2, <1>3, <1>4, <1>5, <1>6, <1>7, <1>8 DEF Next, PortStep

\* The mode of the flow control never changes.
LEMMA FlowControlStays ==
    ASSUME Next, draining \in BOOLEAN
    PROVE  flowControl' = flowControl /\ draining' \in BOOLEAN
<1> DEFINE Good == flowControl' = flowControl /\ draining' \in BOOLEAN
<1> SUFFICES Good
  OBVIOUS
<1>1. ASSUME RunScheduledNow PROVE Good
  BY <1>1 DEF RunScheduledNow
<1>2. ASSUME NEW f \in FlowIds, TpOffer(f) PROVE Good
  BY <1>2 DEF TpOffer, Timed
<1>3. ASSUME NEW f \in FlowIds, LdstSend(f) PROVE Good
  BY <1>3 DEF LdstSend, Timed
<1>4. ASSUME NEW p \in Ports, AllocateNextPacket(p) PROVE Good
  <2>1. ASSUME NEW q, AllocateFromTp(p, q) PROVE Good
    BY <2>1 DEF AllocateFromTp, Timed
  <2>2. ASSUME NEW q, AllocateFromVoq(p, q) PROVE Good
    BY <2>2 DEF AllocateFromVoq, Timed
  <2> HIDE DEF Good
  <2> QED
    BY <1>4, <2>1, <2>2 DEF AllocateNextPacket
<1>5. ASSUME NEW p \in Ports, TransmitComplete(p) \/ AllocateNothing(p) PROVE Good
  BY <1>5 DEF TransmitComplete, AllocateNothing, Timed
<1>6. ASSUME NEW p \in Ports, ReceiveControlFrame(p) \/ SinkDataPacket(p) PROVE Good
  BY <1>6 DEF ReceiveControlFrame, SinkDataPacket, Timed
<1>7. ASSUME NEW p \in Ports, ForwardDataPacket(p) PROVE Good
  BY <1>7 DEF ForwardDataPacket, Timed
<1> HIDE DEF Good
<1> QED
  BY <1>1, <1>2, <1>3, <1>4, <1>5, <1>6, <1>7 DEF Next, PortStep

LEMMA TypeStep ==
    ASSUME TypeInv, [Next]_vars
    PROVE  TypeInv'
<1>1. CASE Next
  <2>1. flowControl' = flowControl /\ draining' \in BOOLEAN
    BY <1>1, FlowControlStays DEF TypeInv
  <2>2. NodeState' \in PlacedStates(flowControl')
    BY <1>1, <2>1, NodesPlaced
  <2>3. RoundsTyped' /\ CountsTyped'
    BY <1>1, RoundsStep, CountsStep DEF TypeInv
  <2> QED
    BY <2>1, <2>2, <2>3 DEF TypeInv
<1>2. CASE UNCHANGED vars
  BY <1>2 DEF vars, TypeInv, NodeState, RoundsTyped, CountsTyped
<1> QED
  BY <1>1, <1>2

LEMMA TypesFollow ==
    ASSUME TypeInv
    PROVE  TypeOK
<1>1. NodeState \in NodeStates(flowControl)
  BY DEF TypeInv, PlacedStates
<1>2. ASSUME NEW p \in Ports
      PROVE  /\ fc[p] \in FcStates /\ port[p].busy \in BOOLEAN /\ port[p].running \in BOOLEAN
             /\ port[p].oneMore \in BOOLEAN /\ inBuf[p] \in [VLs -> Int] /\ outBuf[p] \in [VLs -> Int]
  BY <1>1, NodeFields, PortFields, NodeStateFields DEF Accounts
<1>3. ASSUME NEW p \in Ports
      PROVE  /\ fc[p].txfree \in [VLs -> Nat] /\ fc[p].toReturn \in [VLs -> Nat]
             /\ fc[p].share \in Nat
             /\ \A told \in {fc[p].open, fc[p].snd, fc[p].last} : told \in [VLs -> {0, CreditMax}]
  BY <1>2 DEF FcStates
<1> QED
  BY <1>2, <1>3 DEF TypeOK, TypeInv, RoundsTyped, CountsTyped

\* Through every call between the handlers of a node, and between nodes, the
\* state stays in its types and every packet is on the way of its flow.
THEOREM FabricInvariant == Spec => []TypeInv
<1>1. Init => TypeInv
  BY InitTyped
<1>2. TypeInv /\ [Next]_vars => TypeInv'
  BY TypeStep
<1> QED
  BY <1>1, <1>2, PTL DEF Spec

\* No counter of the flow control is ever negative, and no queue index leaves
\* the queues it points into.
THEOREM FabricTypeCorrect == Spec => []TypeOK
<1>1. TypeInv => TypeOK
  BY TypesFollow
<1> QED
  BY <1>1, FabricInvariant, PTL

-----------------------------------------------------------------------------
(* The two accounts of the queue manager.                                  *)

\* Sizes of packets, as a function.
Sizes(mode) == [pkt \in Packets(mode) |-> Bytes(pkt)]

LEMMA AllBytesSum ==
    ASSUME NEW mode, NEW x \in Seq(Packets(mode))
    PROVE  /\ AllBytes(x) = SumSeq(Sizes(mode), x) /\ AllBytes(x) \in Nat
           /\ Sizes(mode) \in [Packets(mode) -> Nat]
<1>1. Sizes(mode) \in [Packets(mode) -> Nat]
  BY PacketKinds DEF Sizes
<1>2. \A i \in DOMAIN x : x[i] \in Packets(mode)
  BY SeqElement
<1>3. [i \in DOMAIN x |-> Bytes(x[i])] = [i \in DOMAIN x |-> Sizes(mode)[x[i]]]
  BY <1>2 DEF Sizes
<1>4. AllBytes(x) = SumSeq(Sizes(mode), x)
  BY <1>3 DEF AllBytes, SumSeq
<1>5. SumSeq(Sizes(mode), x) \in Nat
  BY <1>1, SumSeqNat
<1> QED
  BY <1>1, <1>4, <1>5

LEMMA AllBytesChange ==
    ASSUME NEW mode, NEW x \in Seq(Packets(mode))
    PROVE  /\ \A pkt \in Packets(mode) : AllBytes(Append(x, pkt)) = AllBytes(x) + Bytes(pkt)
           /\ x # <<>> => AllBytes(Tail(x)) = AllBytes(x) - Bytes(Head(x)) /\ Head(x) \in Packets(mode)
           /\ AllBytes(<<>>) = 0
<1>1. Sizes(mode) \in [Packets(mode) -> Nat] /\ AllBytes(x) = SumSeq(Sizes(mode), x) /\ AllBytes(x) \in Nat
  BY AllBytesSum
<1>2. ASSUME NEW pkt \in Packets(mode) PROVE AllBytes(Append(x, pkt)) = AllBytes(x) + Bytes(pkt)
  <2>1. Append(x, pkt) \in Seq(Packets(mode))
    BY AppendSeq
  <2>2. SumSeq(Sizes(mode), Append(x, pkt)) = SumSeq(Sizes(mode), x) + Sizes(mode)[pkt]
    BY <1>1, SumSeqAppend
  <2> QED
    BY <1>1, <2>1, <2>2, AllBytesSum DEF Sizes
<1>3. ASSUME x # <<>> PROVE AllBytes(Tail(x)) = AllBytes(x) - Bytes(Head(x)) /\ Head(x) \in Packets(mode)
  <2>1. Tail(x) \in Seq(Packets(mode)) /\ Head(x) \in Packets(mode)
    BY <1>3, HeadTailSeq
  <2>2. SumSeq(Sizes(mode), x) = Sizes(mode)[Head(x)] + SumSeq(Sizes(mode), Tail(x))
    BY <1>1, <1>3, SumSeqTail
  <2>3. AllBytes(Tail(x)) = SumSeq(Sizes(mode), Tail(x)) /\ AllBytes(Tail(x)) \in Nat
    BY <2>1, AllBytesSum
  <2>4. Bytes(Head(x)) = Sizes(mode)[Head(x)] /\ Bytes(Head(x)) \in Nat
    BY <2>1, PacketKinds DEF Sizes
  <2> QED
    BY <1>1, <2>1, <2>2, <2>3, <2>4
<1>4. AllBytes(<<>>) = 0
  <2>1. <<>> \in Seq(Packets(mode))
    OBVIOUS
  <2>2. SumSeq(Sizes(mode), <<>>) = 0
    BY <1>1, SumSeqEmpty
  <2> QED
    BY <2>1, <2>2, AllBytesSum
<1> QED
  BY <1>2, <1>3, <1>4

\* The VOQs whose packets are entered in the accounts, and what they hold.
IsCounted(out, vl, in) == out # in \/ vl = 0
Counted(s, out, vl, in) == IF IsCounted(out, vl, in) THEN AllBytes(s.voq[<<out, vl, in>>]) ELSE 0
InHeld(s, p, vl) == SumFunction([out \in PortsOf(p) |-> Counted(s, out, vl, p)])
OutHeld(s, p, vl) == SumFunction([in \in PortsOf(p) |-> Counted(s, p, vl, in)])

\* The accounts agree with the VOQs, but for n bytes too many for the VOQ k.
Agree(s, out, vl, in, n) ==
    \A p \in Ports : \A w \in VLs :
        /\ s.inBuf[p][w] = InHeld(s, p, w) + (IF p = in /\ w = vl THEN n ELSE 0)
        /\ s.outBuf[p][w] = OutHeld(s, p, w) + (IF p = out /\ w = vl THEN n ELSE 0)

LEMMA CountedTyped ==
    ASSUME NEW mode, NEW s \in NodeStates(mode), NEW p \in Ports, NEW vl \in VLs
    PROVE  /\ \A out \in PortsOf(p) : Counted(s, out, vl, p) \in Int
           /\ \A in \in PortsOf(p) : Counted(s, p, vl, in) \in Int
           /\ InHeld(s, p, vl) \in Int /\ OutHeld(s, p, vl) \in Int
<1>1. ASSUME NEW q \in PortsOf(p) PROVE Counted(s, q, vl, p) \in Int /\ Counted(s, p, vl, q) \in Int
  <2>1. s.voq[<<q, vl, p>>] \in Seq(Packets(mode)) /\ s.voq[<<p, vl, q>>] \in Seq(Packets(mode))
    BY KeysTyped, NodeFields
  <2> QED
    BY <2>1, AllBytesSum DEF Counted
<1> DEFINE f == [out \in PortsOf(p) |-> Counted(s, out, vl, p)]
           g == [in \in PortsOf(p) |-> Counted(s, p, vl, in)]
<1>2. (\A x \in PortsOf(p) : f[x] \in Int /\ g[x] \in Int) /\ DOMAIN f = PortsOf(p) /\ DOMAIN g = PortsOf(p)
  BY <1>1
<1>3. InHeld(s, p, vl) = SumFunction(f) /\ OutHeld(s, p, vl) = SumFunction(g)
  BY DEF InHeld, OutHeld
<1> HIDE DEF f, g
<1>4. SumFunction(f) \in Int /\ SumFunction(g) \in Int
  BY <1>2, SumAll, SumInt, PortsTyped
<1> QED
  BY <1>1, <1>3, <1>4

\* One VOQ changes.
LEMMA HeldChanges ==
    ASSUME NEW mode, NEW s \in NodeStates(mode), NEW t \in NodeStates(mode),
           NEW out \in Ports, NEW vl \in VLs, NEW in \in Ports, <<out, vl, in>> \in VoqKeys,
           \A j \in VoqKeys \ {<<out, vl, in>>} : t.voq[j] = s.voq[j],
           NEW d \in Int, Counted(t, out, vl, in) = Counted(s, out, vl, in) + d,
           NEW p \in Ports, NEW w \in VLs
    PROVE  /\ InHeld(t, p, w) = InHeld(s, p, w) + (IF p = in /\ w = vl THEN d ELSE 0)
           /\ OutHeld(t, p, w) = OutHeld(s, p, w) + (IF p = out /\ w = vl THEN d ELSE 0)
<1> DEFINE f == [q \in PortsOf(p) |-> Counted(s, q, w, p)]
           g == [q \in PortsOf(p) |-> Counted(t, q, w, p)]
           h == [q \in PortsOf(p) |-> Counted(s, p, w, q)]
           i == [q \in PortsOf(p) |-> Counted(t, p, w, q)]
<1>1. ASSUME NEW a \in Ports, NEW b \in Ports, NEW v \in VLs, <<a, v, b>> \in VoqKeys,
             <<a, v, b>> # <<out, vl, in>>
      PROVE  Counted(t, a, v, b) = Counted(s, a, v, b)
  BY <1>1 DEF Counted
<1>2. NodeOf[out] = NodeOf[in] /\ IsFiniteSet(PortsOf(p)) /\ PortsOf(p) \subseteq Ports
      /\ \A q \in PortsOf(p) : <<q, w, p>> \in VoqKeys /\ <<p, w, q>> \in VoqKeys
  BY KeysTyped, PortsTyped
<1>3. \A x \in PortsOf(p) : f[x] \in Int /\ g[x] \in Int /\ h[x] \in Int /\ i[x] \in Int
  BY CountedTyped
<1>4. /\ InHeld(s, p, w) = SumFunctionOnSet(f, PortsOf(p)) /\ InHeld(t, p, w) = SumFunctionOnSet(g, PortsOf(p))
      /\ OutHeld(s, p, w) = SumFunctionOnSet(h, PortsOf(p)) /\ OutHeld(t, p, w) = SumFunctionOnSet(i, PortsOf(p))
  BY SumAll DEF InHeld, OutHeld
<1>5. InHeld(s, p, w) \in Int /\ OutHeld(s, p, w) \in Int
  BY CountedTyped
<1>6. ASSUME p = in /\ w = vl PROVE InHeld(t, p, w) = InHeld(s, p, w) + d
  <2>1. out \in PortsOf(p) /\ (\A x \in PortsOf(p) : x # out => g[x] = f[x]) /\ g[out] = f[out] + d
    BY <1>1, <1>2, <1>6 DEF PortsOf
  <2> HIDE DEF f, g
  <2>2. SumFunctionOnSet(g, PortsOf(p)) = SumFunctionOnSet(f, PortsOf(p)) + d
    BY <1>2, <1>3, <2>1, SumChange
  <2> QED
    BY <1>4, <1>6, <2>2
<1>7. ASSUME ~(p = in /\ w = vl) PROVE InHeld(t, p, w) = InHeld(s, p, w)
  <2>1. \A x \in PortsOf(p) : g[x] = f[x]
    BY <1>1, <1>2, <1>7
  <2> HIDE DEF f, g
  <2>2. SumFunctionOnSet(g, PortsOf(p)) = SumFunctionOnSet(f, PortsOf(p))
    BY <1>2, <1>3, <2>1, SumSame
  <2> QED
    BY <1>4, <1>5, <1>7, <2>2
<1>8. ASSUME p = out /\ w = vl PROVE OutHeld(t, p, w) = OutHeld(s, p, w) + d
  <2>1. in \in PortsOf(p) /\ (\A x \in PortsOf(p) : x # in => i[x] = h[x]) /\ i[in] = h[in] + d
    BY <1>1, <1>2, <1>8 DEF PortsOf
  <2> HIDE DEF h, i
  <2>2. SumFunctionOnSet(i, PortsOf(p)) = SumFunctionOnSet(h, PortsOf(p)) + d
    BY <1>2, <1>3, <2>1, SumChange
  <2> QED
    BY <1>4, <1>8, <2>2
<1>9. ASSUME ~(p = out /\ w = vl) PROVE OutHeld(t, p, w) = OutHeld(s, p, w)
  <2>1. \A x \in PortsOf(p) : i[x] = h[x]
    BY <1>1, <1>2, <1>9
  <2> HIDE DEF h, i
  <2>2. SumFunctionOnSet(i, PortsOf(p)) = SumFunctionOnSet(h, PortsOf(p))
    BY <1>2, <1>3, <2>1, SumSame
  <2> QED
    BY <1>4, <1>5, <1>9, <2>2
<1> QED
  BY <1>5, <1>6, <1>7, <1>8, <1>9

LEMMA AccountTyped ==
    ASSUME NEW mode, NEW s \in NodeStates(mode), NEW p \in Ports, NEW w \in VLs
    PROVE  s.inBuf[p][w] \in Int /\ s.outBuf[p][w] \in Int
  BY NodeFields DEF Accounts

LEMMA AgreeSame ==
    ASSUME NEW s, NEW t, t.voq = s.voq, t.inBuf = s.inBuf, t.outBuf = s.outBuf,
           NEW out, NEW vl, NEW in, NEW n, Agree(s, out, vl, in, n)
    PROVE  Agree(t, out, vl, in, n)
<1>1. \A a, b, v : Counted(t, a, v, b) = Counted(s, a, v, b)
  BY DEF Counted
<1>2. \A p, w : InHeld(t, p, w) = InHeld(s, p, w) /\ OutHeld(t, p, w) = OutHeld(s, p, w)
  BY <1>1 DEF InHeld, OutHeld
<1> QED
  BY <1>2 DEF Agree

\* A VOQ and its two accounts change alike.
LEMMA AgreeAlike ==
    ASSUME NEW mode, NEW s \in NodeStates(mode), NEW t \in NodeStates(mode),
           NEW out \in Ports, NEW vl \in VLs, NEW in \in Ports, <<out, vl, in>> \in VoqKeys,
           \A j \in VoqKeys \ {<<out, vl, in>>} : t.voq[j] = s.voq[j],
           NEW d \in Int, Counted(t, out, vl, in) = Counted(s, out, vl, in) + d,
           Grown(s.inBuf, t.inBuf, in, vl, d), Grown(s.outBuf, t.outBuf, out, vl, d),
           NEW o, NEW v, NEW i, NEW n \in Int, Agree(s, o, v, i, n)
    PROVE  Agree(t, o, v, i, n)
<1> SUFFICES ASSUME NEW p \in Ports, NEW w \in VLs
             PROVE  /\ t.inBuf[p][w] = InHeld(t, p, w) + (IF p = i /\ w = v THEN n ELSE 0)
                    /\ t.outBuf[p][w] = OutHeld(t, p, w) + (IF p = o /\ w = v THEN n ELSE 0)
  BY DEF Agree
<1> DEFINE a == InHeld(s, p, w)
           b == OutHeld(s, p, w)
<1>1. /\ InHeld(t, p, w) = a + (IF p = in /\ w = vl THEN d ELSE 0)
      /\ OutHeld(t, p, w) = b + (IF p = out /\ w = vl THEN d ELSE 0)
  BY HeldChanges
<1>2. a \in Int /\ b \in Int /\ s.inBuf[p][w] \in Int /\ s.outBuf[p][w] \in Int
  BY CountedTyped, AccountTyped
<1>3. /\ s.inBuf[p][w] = a + (IF p = i /\ w = v THEN n ELSE 0)
      /\ s.outBuf[p][w] = b + (IF p = o /\ w = v THEN n ELSE 0)
  BY DEF Agree
<1>4. /\ t.inBuf[p][w] = IF p = in /\ w = vl THEN s.inBuf[p][w] + d ELSE s.inBuf[p][w]
      /\ t.outBuf[p][w] = IF p = out /\ w = vl THEN s.outBuf[p][w] + d ELSE s.outBuf[p][w]
  BY DEF Grown
<1> HIDE DEF a, b
<1>5. t.inBuf[p][w] = InHeld(t, p, w) + (IF p = i /\ w = v THEN n ELSE 0)
  BY <1>1, <1>2, <1>3, <1>4
<1>6. t.outBuf[p][w] = OutHeld(t, p, w) + (IF p = o /\ w = v THEN n ELSE 0)
  BY <1>1, <1>2, <1>3, <1>4
<1> QED
  BY <1>5, <1>6

LEMMA AgreePushed ==
    ASSUME NEW mode, NEW s \in NodeStates(mode), NEW t \in NodeStates(mode), NEW pkt \in Packets(mode),
           NEW out \in Ports, NEW vl \in VLs, NEW in \in Ports, <<out, vl, in>> \in VoqKeys,
           IsCounted(out, vl, in), Pushed(s, t, pkt, in, out, vl),
           NEW o, NEW v, NEW i, NEW n \in Int, Agree(s, o, v, i, n)
    PROVE  Agree(t, o, v, i, n)
<1> DEFINE k == <<out, vl, in>>
           d == Bytes(pkt)
<1>1. d \in Int /\ s.voq[k] \in Seq(Packets(mode))
  BY PacketKinds, NodeFields
<1>2. t.voq[k] = Append(s.voq[k], pkt) /\ \A j \in VoqKeys \ {k} : t.voq[j] = s.voq[j]
  BY DEF Pushed
<1>3. AllBytes(t.voq[k]) = AllBytes(s.voq[k]) + d
  <2> HIDE DEF d, k
  <2>1. AllBytes(Append(s.voq[k], pkt)) = AllBytes(s.voq[k]) + Bytes(pkt)
    BY <1>1, AllBytesChange
  <2> QED
    BY <1>2, <2>1 DEF d
<1>4. Counted(t, out, vl, in) = Counted(s, out, vl, in) + d
  BY <1>3 DEF Counted
<1>5. Grown(s.inBuf, t.inBuf, in, vl, d) /\ Grown(s.outBuf, t.outBuf, out, vl, d)
  BY DEF Pushed
<1> HIDE DEF d
<1> QED
  BY <1>1, <1>2, <1>4, <1>5, AgreeAlike

\* A VOQ that is in no account may change.
LEMMA AgreeBeside ==
    ASSUME NEW mode, NEW s \in NodeStates(mode), NEW t \in NodeStates(mode),
           NEW out \in Ports, NEW vl \in VLs, NEW in \in Ports, <<out, vl, in>> \in VoqKeys,
           ~IsCounted(out, vl, in), NEW x, VoqSet(s, t, <<out, vl, in>>, x),
           NEW o, NEW v, NEW i, NEW n \in Int, Agree(s, o, v, i, n)
    PROVE  Agree(t, o, v, i, n)
<1>1. Counted(t, out, vl, in) = Counted(s, out, vl, in) + 0
  BY DEF Counted
<1>2. Grown(s.inBuf, t.inBuf, in, vl, 0) /\ Grown(s.outBuf, t.outBuf, out, vl, 0)
  BY AccountTyped DEF VoqSet, Grown
<1>3. \A j \in VoqKeys \ {<<out, vl, in>>} : t.voq[j] = s.voq[j]
  BY DEF VoqSet
<1> QED
  BY <1>1, <1>2, <1>3, AgreeAlike

\* A packet has left a VOQ, and is still in the accounts.
LEMMA AgreeTail ==
    ASSUME NEW mode, NEW s \in NodeStates(mode), NEW t \in NodeStates(mode),
           NEW out \in Ports, NEW vl \in VLs, NEW in \in Ports, <<out, vl, in>> \in VoqKeys,
           IsCounted(out, vl, in), s.voq[<<out, vl, in>>] # <<>>,
           VoqSet(s, t, <<out, vl, in>>, Tail(s.voq[<<out, vl, in>>])),
           Agree(s, out, vl, in, 0)
    PROVE  Agree(t, out, vl, in, Bytes(Head(s.voq[<<out, vl, in>>])))
<1> DEFINE k == <<out, vl, in>>
           n == Bytes(Head(s.voq[k]))
<1>1. s.voq[k] \in Seq(Packets(mode))
  BY NodeFields
<1>2. AllBytes(Tail(s.voq[k])) = AllBytes(s.voq[k]) - n /\ n \in Int /\ AllBytes(s.voq[k]) \in Int
  <2> HIDE DEF k
  <2>1. Head(s.voq[k]) \in Packets(mode) /\ AllBytes(Tail(s.voq[k])) = AllBytes(s.voq[k]) - Bytes(Head(s.voq[k]))
    BY <1>1, AllBytesChange DEF k
  <2> QED
    BY <1>1, <2>1, PacketKinds, AllBytesSum
<1>3. Counted(t, out, vl, in) = Counted(s, out, vl, in) + (-n)
  BY <1>2 DEF Counted, VoqSet
<1>4. \A j \in VoqKeys \ {k} : t.voq[j] = s.voq[j]
  BY DEF VoqSet
<1>5. t.inBuf = s.inBuf /\ t.outBuf = s.outBuf
  BY DEF VoqSet
<1> HIDE DEF n
<1> SUFFICES ASSUME NEW p \in Ports, NEW w \in VLs
             PROVE  /\ t.inBuf[p][w] = InHeld(t, p, w) + (IF p = in /\ w = vl THEN n ELSE 0)
                    /\ t.outBuf[p][w] = OutHeld(t, p, w) + (IF p = out /\ w = vl THEN n ELSE 0)
  BY DEF Agree, n
<1> DEFINE a == InHeld(s, p, w)
           b == OutHeld(s, p, w)
           m == -n
<1>6. m \in Int
  BY <1>2
<1>7. Counted(t, out, vl, in) = Counted(s, out, vl, in) + m
  BY <1>3
<1> HIDE DEF m
<1>8. /\ InHeld(t, p, w) = a + (IF p = in /\ w = vl THEN m ELSE 0)
      /\ OutHeld(t, p, w) = b + (IF p = out /\ w = vl THEN m ELSE 0)
  BY <1>4, <1>6, <1>7, HeldChanges
<1>9. a \in Int /\ b \in Int
  BY CountedTyped
<1>10. s.inBuf[p][w] = a + (IF p = in /\ w = vl THEN 0 ELSE 0) /\ s.outBuf[p][w] = b + (IF p = out /\ w = vl THEN 0 ELSE 0)
  BY DEF Agree
<1>11. m = -n
  BY DEF m
<1> HIDE DEF a, b
<1> QED
  BY <1>2, <1>5, <1>8, <1>9, <1>10, <1>11

LEMMA AgreeShrunk ==
    ASSUME NEW mode, NEW s \in NodeStates(mode), NEW t \in NodeStates(mode), NEW out, NEW vl, NEW in,
           NEW n \in Int, Shrunk(s, t, in, out, vl, n), Agree(s, out, vl, in, n)
    PROVE  Agree(t, out, vl, in, 0)
<1> SUFFICES ASSUME NEW p \in Ports, NEW w \in VLs
             PROVE  /\ t.inBuf[p][w] = InHeld(t, p, w) + (IF p = in /\ w = vl THEN 0 ELSE 0)
                    /\ t.outBuf[p][w] = OutHeld(t, p, w) + (IF p = out /\ w = vl THEN 0 ELSE 0)
  BY DEF Agree
<1> DEFINE a == InHeld(s, p, w)
           b == OutHeld(s, p, w)
<1>0. t.voq = s.voq
  BY DEF Shrunk
<1>1. InHeld(t, p, w) = a /\ OutHeld(t, p, w) = b
  <2>1. \A x, y, z : Counted(t, x, z, y) = Counted(s, x, z, y)
    BY <1>0 DEF Counted
  <2> QED
    BY <2>1 DEF InHeld, OutHeld
<1>2. a \in Int /\ b \in Int
  BY CountedTyped
<1>3. /\ s.inBuf[p][w] = a + (IF p = in /\ w = vl THEN n ELSE 0)
      /\ s.outBuf[p][w] = b + (IF p = out /\ w = vl THEN n ELSE 0)
  BY DEF Agree
<1>4. /\ t.inBuf[p][w] = IF p = in /\ w = vl THEN s.inBuf[p][w] + (-n) ELSE s.inBuf[p][w]
      /\ t.outBuf[p][w] = IF p = out /\ w = vl THEN s.outBuf[p][w] + (-n) ELSE s.outBuf[p][w]
  BY DEF Shrunk, Grown
<1> HIDE DEF a, b
<1> QED
  BY <1>1, <1>2, <1>3, <1>4

LEMMA AgreeTells ==
    ASSUME NEW mode, NEW s \in NodeStates(mode), NEW t \in NodeStates(mode), NEW r \in Ports,
           NEW frame, frame = NoFrame \/ frame \in Frames(mode), Tells(s, t, r, frame),
           NEW o, NEW v, NEW i, NEW n \in Int, Agree(s, o, v, i, n)
    PROVE  Agree(t, o, v, i, n)
<1>1. CASE frame = NoFrame
  BY <1>1, AgreeSame DEF Tells
<1>2. CASE frame # NoFrame
  <2> DEFINE pkt == Control(frame)
             k == <<r, 0, r>>
  <2>1. k \in VoqKeys /\ 0 \in VLs /\ pkt \in Packets(mode) /\ Bytes(pkt) = CtrlBytes
    BY <1>2, ControlKey, ControlPacket
  <2> HIDE DEF pkt
  <2>2. t.voq[k] = Append(s.voq[k], pkt) /\ \A j \in VoqKeys \ {k} : t.voq[j] = s.voq[j]
    BY <1>2 DEF Tells, pkt
  <2>3. s.voq[k] \in Seq(Packets(mode)) /\ CtrlBytes \in Int
    BY <2>1, NodeFields, NumbersTyped
  <2>4. AllBytes(Append(s.voq[k], pkt)) = AllBytes(s.voq[k]) + CtrlBytes
    <3> HIDE DEF k
    <3>1. AllBytes(Append(s.voq[k], pkt)) = AllBytes(s.voq[k]) + Bytes(pkt)
      BY <2>1, <2>3, AllBytesChange
    <3> QED
      BY <2>1, <3>1
  <2>5. Counted(t, r, 0, r) = Counted(s, r, 0, r) + CtrlBytes
    BY <2>2, <2>4 DEF Counted, IsCounted
  <2>6. Grown(s.inBuf, t.inBuf, r, 0, CtrlBytes) /\ Grown(s.outBuf, t.outBuf, r, 0, CtrlBytes)
    BY <1>2 DEF Tells
  <2> QED
    BY <2>1, <2>2, <2>3, <2>5, <2>6, AgreeAlike
<1> QED
  BY <1>1, <1>2

\* What leaves the VOQs and their accounts alone.
SameViews(s, t) == t.voq = s.voq /\ t.inBuf = s.inBuf /\ t.outBuf = s.outBuf

LEMMA SameViewsOf ==
    ASSUME NEW s, NEW t, NEW p \in Ports,
           \/ \E kind : EventTaken(s, t, p, kind) \/ EventMore(s, t, p, kind)
           \/ RoundEnd(s, t, p) \/ AllocatorTriggered(s, t, p) \/ Notified(s, t, p) \/ Pumped(s, t, p)
           \/ \E y : FcSet(s, t, p, y) \/ PortSet(s, t, p, y)
           \/ \E mode, q, pkt : Enqueued(mode, s, t, p, q, pkt)
           \/ Received(s, t, p)
    PROVE  SameViews(s, t)
<1>1. CASE \E kind : EventTaken(s, t, p, kind) \/ EventMore(s, t, p, kind)
  BY <1>1 DEF EventTaken, EventMore, SameViews
<1>2. CASE RoundEnd(s, t, p)
  BY <1>2 DEF RoundEnd, PortOnly, SameViews
<1>3. CASE AllocatorTriggered(s, t, p)
  BY <1>3 DEF AllocatorTriggered, PortSet, SameViews
<1>4. ASSUME Pumped(s, t, p) PROVE SameViews(s, t)
  BY <1>4 DEF Pumped, PortOnly, SameViews
<1>5. CASE Notified(s, t, p)
  BY <1>4, <1>5 DEF Notified, SameViews
<1>6. CASE \E y : FcSet(s, t, p, y) \/ PortSet(s, t, p, y)
  BY <1>6 DEF FcSet, PortSet, SameViews
<1>7. CASE \E mode, q, pkt : Enqueued(mode, s, t, p, q, pkt)
  BY <1>7 DEF Enqueued, SameViews
<1>8. CASE Received(s, t, p)
  BY <1>8 DEF Received, PortSet, SameViews
<1> QED
  BY <1>1, <1>2, <1>3, <1>4, <1>5, <1>6, <1>7, <1>8

LEMMA AgreeKept ==
    ASSUME NEW s, NEW t, SameViews(s, t), NEW o, NEW v, NEW i, NEW n, Agree(s, o, v, i, n)
    PROVE  Agree(t, o, v, i, n)
  BY AgreeSame DEF SameViews

LEMMA AgreeClosed ==
    ASSUME NEW r \in Ports, NEW o, NEW v, NEW i, NEW n \in Int
    PROVE  PfcClosed("PFC", {x \in NodeStates("PFC") : Agree(x, o, v, i, n)}, r)
<1>1. ASSUME NEW a \in NodeStates("PFC"), NEW b \in NodeStates("PFC"), Agree(a, o, v, i, n),
             PfcTells(a, b, r)
      PROVE  Agree(b, o, v, i, n)
  <2>1. PICK frame : (frame = NoFrame \/ frame \in Frames("PFC")) /\ Tells(a, b, r, frame)
    BY <1>1 DEF PfcTells, Frames
  <2> QED
    BY <1>1, <2>1, AgreeTells
<1>2. ASSUME NEW a \in NodeStates("PFC"), NEW b \in NodeStates("PFC"), Agree(a, o, v, i, n),
             Pumped(a, b, r)
      PROVE  Agree(b, o, v, i, n)
  BY <1>2, SameViewsOf, AgreeKept
<1> QED
  BY <1>1, <1>2 DEF PfcClosed

LEMMA AgreeChecked ==
    ASSUME NEW s \in NodeStates("PFC"), NEW t, NEW r \in Ports, PfcChecked(s, t, r),
           NEW o, NEW v, NEW i, NEW n \in Int, Agree(s, o, v, i, n)
    PROVE  Agree(t, o, v, i, n)
<1> DEFINE I == {x \in NodeStates("PFC") : Agree(x, o, v, i, n)}
<1>1. PfcClosed("PFC", I, r)
  BY AgreeClosed
<1>2. s \in I
  OBVIOUS
<1>3. t \in I
  <2> HIDE DEF I
  <2> QED
    BY <1>1, <1>2 DEF PfcChecked
<1> QED
  BY <1>3

LEMMA AgreeReturned ==
    ASSUME NEW mode \in CreditTypes, NEW s \in NodeStates(mode), NEW t \in NodeStates(mode), NEW r \in Ports,
           NEW vl, NEW bytes, CreditsReturned(mode, s, t, r, vl, bytes),
           NEW o, NEW v, NEW i, NEW n \in Int, Agree(s, o, v, i, n)
    PROVE  Agree(t, o, v, i, n)
<1>1. PICK m \in NodeStates(mode) :
         CreditTells(s, m, r, vl, bytes) /\ ((t = m /\ Still(s, t)) \/ Pumped(m, t, r))
  BY DEF CreditsReturned
<1>2. PICK rel : Released(s.fc[r], rel, vl, bytes) /\ Tells(s, m, r, rel.frame)
  BY <1>1 DEF CreditTells
<1>3. rel.frame = NoFrame \/ rel.frame \in Frames(mode)
  BY <1>2 DEF Released, Frames, CreditTypes
<1>4. Agree(m, o, v, i, n)
  BY <1>1, <1>2, <1>3, AgreeTells
<1> QED
  BY <1>1, <1>4, SameViewsOf, AgreeKept

LEMMA AgreeFreed ==
    ASSUME NEW mode, NEW s \in NodeStates(mode), NEW t \in NodeStates(mode), NEW in \in Ports, NEW out \in Ports,
           NEW pkt, Freed(mode, s, t, pkt, in, out),
           NEW o, NEW v, NEW i, NEW n \in Int, Agree(s, o, v, i, n)
    PROVE  Agree(t, o, v, i, n)
<1>1. CASE t = s
  BY <1>1
<1>2. CASE mode \in CreditTypes /\ CreditsReturned(mode, s, t, in, Flows[pkt.flow].vl, Bytes(pkt))
  BY <1>2, AgreeReturned
<1>3. CASE mode = "PFC" /\ PfcChecked(s, t, in)
  BY <1>3, AgreeChecked
<1> QED
  BY <1>1, <1>2, <1>3 DEF Freed

Balanced(s) ==
    \A p \in Ports : \A w \in VLs : s.inBuf[p][w] = InHeld(s, p, w) /\ s.outBuf[p][w] = OutHeld(s, p, w)

LEMMA BalancedIs ==
    ASSUME NEW mode, NEW s \in NodeStates(mode), NEW o, NEW v, NEW i
    PROVE  Balanced(s) <=> Agree(s, o, v, i, 0)
<1>1. \A p \in Ports : \A w \in VLs : InHeld(s, p, w) \in Int /\ OutHeld(s, p, w) \in Int
  BY CountedTyped
<1> QED
  BY <1>1 DEF Balanced, Agree

LEMMA BalancedKept ==
    ASSUME NEW mode, NEW s \in NodeStates(mode), NEW t \in NodeStates(mode), SameViews(s, t), Balanced(s)
    PROVE  Balanced(t)
  BY BalancedIs, AgreeKept

LEMMA BalancedRun ==
    ASSUME NEW mode, NEW s \in NodeStates(mode), NEW t \in NodeStates(mode), NEW p \in Ports,
           RunShape(mode, s, t, p), Balanced(s)
    PROVE  Balanced(t)
<1>1. PICK m \in NodeStates(mode), kind \in Kinds : EventTaken(s, m, p, kind) /\ Ran(m, t, p, kind)
  BY DEF RunShape
<1>2. SameViews(s, m) /\ SameViews(m, t)
  BY <1>1, SameViewsOf DEF Ran
<1> QED
  BY <1>1, <1>2, BalancedKept

LEMMA BalancedLdst ==
    ASSUME NoWorkOnVlZero, NEW mode, NEW s \in NodeStates(mode), NEW t \in NodeStates(mode), NEW f \in FlowIds,
           LdstShape(mode, s, t, f), Balanced(s)
    PROVE  Balanced(t)
<1> DEFINE p == Flows[f].src
           vl == Flows[f].vl
           v == Append(s.voq[<<p, vl, p>>], Data(f))
<1>1. PICK m \in NodeStates(mode) : VoqSet(s, m, <<p, vl, p>>, v) /\ EventMore(m, t, p, "TriggerTransmit")
  BY DEF LdstShape
<1>2. p \in Ports /\ vl \in VLs /\ <<p, vl, p>> \in VoqKeys /\ ~IsCounted(p, vl, p)
  BY FlowsTyped, KeysTyped DEF NoWorkOnVlZero, IsCounted
<1> HIDE DEF p, vl, v
<1>3. Agree(s, 0, 0, 0, 0)
  BY BalancedIs
<1>4. Agree(m, 0, 0, 0, 0)
  BY <1>1, <1>2, <1>3, AgreeBeside
<1>5. Balanced(m)
  BY <1>4, BalancedIs
<1>6. SameViews(m, t)
  BY <1>1, <1>2, SameViewsOf
<1> QED
  BY <1>5, <1>6, BalancedKept

LEMMA BalancedComplete ==
    ASSUME NEW mode, NEW s \in NodeStates(mode), NEW t \in NodeStates(mode), NEW p \in Ports,
           CompleteShape(mode, s, t, p), Balanced(s)
    PROVE  Balanced(t)
<1>1. PICK m \in NodeStates(mode) : /\ PortSet(s, m, p, [s.port[p] EXCEPT !.busy = FALSE])
                                    /\ EventMore(m, t, p, "TriggerTransmit")
  BY DEF CompleteShape
<1>2. SameViews(s, m) /\ SameViews(m, t)
  BY <1>1, SameViewsOf
<1> QED
  BY <1>1, <1>2, BalancedKept

LEMMA BalancedTp ==
    ASSUME NEW mode, NEW s \in NodeStates(mode), NEW t \in NodeStates(mode), NEW p \in Ports,
           NEW f, ServeTpShape(mode, s, t, p, f), Balanced(s)
    PROVE  Balanced(t)
<1>1. PICK a \in NodeStates(mode) : Enqueued(mode, s, a, p, Tp(f), Data(f)) /\ RoundEnd(a, t, p)
  BY DEF ServeTpShape
<1>2. SameViews(s, a) /\ SameViews(a, t)
  BY <1>1, SameViewsOf
<1> QED
  BY <1>1, <1>2, BalancedKept

LEMMA BalancedVoq ==
    ASSUME NEW mode, NEW s \in PlacedStates(mode), NEW t \in NodeStates(mode), NEW p \in Ports,
           NEW vl \in VLs, NEW in \in PortsOf(p), s.voq[<<p, vl, in>>] # <<>>,
           ServeVoqShape(mode, s, t, p, vl, in), Balanced(s)
    PROVE  Balanced(t)
<1> DEFINE q == Voq(p, vl, in)
           pkt == Head(s.voq[<<p, vl, in>>])
           n == IF IsCounted(p, vl, in) THEN Bytes(pkt) ELSE 0
<1>0. s \in NodeStates(mode)
  BY DEF PlacedStates
<1>1. PICK a, b, c, d \in NodeStates(mode) :
         /\ VoqSet(s, a, <<p, vl, in>>, Tail(s.voq[<<p, vl, in>>])) /\ Enqueued(mode, a, b, p, q, pkt)
         /\ Freed(mode, b, c, pkt, in, p)
         /\ IF IsGeneratedDataPacket(q) THEN d = c ELSE Shrunk(c, d, in, p, vl, Bytes(pkt))
         /\ RoundEnd(d, t, p)
  BY DEF ServeVoqShape
<1>2. in \in Ports /\ <<p, vl, in>> \in VoqKeys
  BY KeysTyped
<1>3. IsGeneratedDataPacket(q) <=> ~IsCounted(p, vl, in)
  BY QueueFields DEF IsGeneratedDataPacket, IsCounted
<1>4. pkt \in Packets(mode) /\ Bytes(pkt) \in Int /\ n \in Int
  BY <1>2, HeadOfVoq, PacketKinds
<1>5. Agree(s, p, vl, in, 0)
  BY <1>0, BalancedIs
<1> HIDE DEF q
<1>6. Agree(a, p, vl, in, n)
  <2>1. CASE IsCounted(p, vl, in)
    BY <1>0, <1>1, <1>2, <1>5, <2>1, AgreeTail
  <2>2. CASE ~IsCounted(p, vl, in)
    BY <1>0, <1>1, <1>2, <1>5, <2>2, AgreeBeside
  <2> QED
    BY <2>1, <2>2
<1> HIDE DEF n, pkt
<1>7. Agree(b, p, vl, in, n)
  BY <1>1, <1>6, SameViewsOf, AgreeKept
<1>8. Agree(c, p, vl, in, n)
  BY <1>1, <1>2, <1>4, <1>7, AgreeFreed
<1>9. Agree(d, p, vl, in, 0)
  <2>1. CASE IsCounted(p, vl, in)
    BY <1>1, <1>3, <1>4, <1>8, <2>1, AgreeShrunk DEF n
  <2>2. CASE ~IsCounted(p, vl, in)
    BY <1>1, <1>3, <1>8, <2>2 DEF n
  <2> QED
    BY <2>1, <2>2
<1>10. Balanced(d)
  BY <1>1, <1>9, BalancedIs
<1> QED
  BY <1>1, <1>10, SameViewsOf, BalancedKept

LEMMA BalancedControl ==
    ASSUME NEW mode, NEW s \in NodeStates(mode), NEW t \in NodeStates(mode), NEW p \in Ports,
           NEW x, ControlShape(mode, s, t, p, x), Balanced(s)
    PROVE  Balanced(t)
<1>1. PICK a, b \in NodeStates(mode) :
        /\ Received(s, a, p) /\ FcSet(a, b, p, HandleReceivedControlPacket(mode, s.fc[p], x))
        /\ EventMore(b, t, p, "TriggerTransmit")
  BY DEF ControlShape
<1>2. SameViews(s, a) /\ SameViews(a, b) /\ SameViews(b, t)
  BY <1>1, SameViewsOf
<1> QED
  BY <1>1, <1>2, BalancedKept

LEMMA BalancedSink ==
    ASSUME NEW mode, NEW s \in NodeStates(mode), NEW t \in NodeStates(mode), NEW p \in Ports,
           NEW pkt, SinkShape(mode, s, t, p, pkt), Balanced(s)
    PROVE  Balanced(t)
<1>1. PICK a \in NodeStates(mode) :
        /\ Received(s, a, p)
        /\ IF mode \in CreditTypes
           THEN CreditsReturned(mode, a, t, p, Flows[pkt.flow].vl, Bytes(pkt)) ELSE t = a
  BY DEF SinkShape
<1>2. Balanced(a)
  BY <1>1, SameViewsOf, BalancedKept
<1>3. CASE mode \in CreditTypes
  <2>1. Agree(a, 0, 0, 0, 0)
    BY <1>2, BalancedIs
  <2>2. Agree(t, 0, 0, 0, 0)
    BY <1>1, <1>3, <2>1, AgreeReturned
  <2> QED
    BY <2>2, BalancedIs
<1>4. CASE mode \notin CreditTypes
  BY <1>1, <1>2, <1>4
<1> QED
  BY <1>3, <1>4

LEMMA BalancedForward ==
    ASSUME NEW mode, NEW s \in NodeStates(mode), NEW t \in NodeStates(mode), NEW p \in Ports,
           NEW pkt \in Packets(mode), OutPort(p, pkt.flow) \in Ports, OutPort(p, pkt.flow) # p,
           <<OutPort(p, pkt.flow), Flows[pkt.flow].vl, p>> \in VoqKeys,
           ForwardShape(mode, s, t, p, pkt), Balanced(s)
    PROVE  Balanced(t)
<1> DEFINE out == OutPort(p, pkt.flow)
           vl == Flows[pkt.flow].vl
<1>0. vl \in VLs /\ out \in Ports /\ IsCounted(out, vl, p) /\ <<out, vl, p>> \in VoqKeys
  BY KeysTyped DEF IsCounted
<1>1. PICK m \in NodeStates(mode) : Received(s, m, p) /\ Forwarded(mode, m, t, pkt, p, out, vl)
  BY DEF ForwardShape
<1>2. PICK a, b \in NodeStates(mode) :
        /\ Pushed(m, a, pkt, p, out, vl)
        /\ IF mode = "PFC" THEN PfcChecked(a, b, p) ELSE b = a
        /\ Pumped(b, t, out)
  BY <1>1 DEF Forwarded
<1> HIDE DEF out, vl
<1>3. Balanced(m)
  BY <1>1, SameViewsOf, BalancedKept
<1>4. Agree(m, 0, 0, 0, 0)
  BY <1>1, <1>3, BalancedIs
<1>5. Agree(a, 0, 0, 0, 0)
  BY <1>0, <1>1, <1>2, <1>4, AgreePushed
<1>6. Agree(b, 0, 0, 0, 0)
  BY <1>2, <1>5, AgreeChecked
<1>7. Balanced(b)
  BY <1>2, <1>6, BalancedIs
<1> QED
  BY <1>0, <1>2, <1>7, SameViewsOf, BalancedKept

\* A sum of zeros.
LEMMA SumZero ==
    ASSUME NEW S, IsFiniteSet(S), NEW f, \A x \in S : f[x] = 0
    PROVE  SumFunctionOnSet(f, S) = 0
<1> DEFINE z == [x \in S |-> 0]
<1>1. \A x \in S : z[x] \in Int /\ f[x] = z[x] /\ f[x] = 0 * z[x]
  OBVIOUS
<1> HIDE DEF z
<1>2. SumFunctionOnSet(f, S) = 0 * SumFunctionOnSet(z, S) /\ SumFunctionOnSet(z, S) \in Int
  BY <1>1, SumTimes, SumInt
<1> QED
  BY <1>2

LEMMA BalancedInit ==
    ASSUME Init
    PROVE  Balanced(NodeState)
<1>0. NodeState \in NodeStates(flowControl) /\ NodeState.voq = voq /\ NodeState.inBuf = inBuf /\ NodeState.outBuf = outBuf
  BY InitTyped, NodeStateFields DEF TypeInv, PlacedStates
<1> SUFFICES ASSUME NEW p \in Ports, NEW w \in VLs
             PROVE  /\ inBuf[p][w] = InHeld(NodeState, p, w)
                    /\ outBuf[p][w] = OutHeld(NodeState, p, w)
  BY <1>0 DEF Balanced
<1> DEFINE f == [q \in PortsOf(p) |-> Counted(NodeState, q, w, p)]
           g == [q \in PortsOf(p) |-> Counted(NodeState, p, w, q)]
<1>1. AllBytes(<<>>) = 0
  <2>1. <<>> \in Seq(Packets("NONE"))
    OBVIOUS
  <2> QED
    BY <2>1, AllBytesChange
<1>2. \A k \in VoqKeys : voq[k] = <<>>
  BY DEF Init
<1>3. \A q \in PortsOf(p) : f[q] = 0 /\ g[q] = 0
  <2> SUFFICES ASSUME NEW q \in PortsOf(p) PROVE f[q] = 0 /\ g[q] = 0
    OBVIOUS
  <2>1. <<q, w, p>> \in VoqKeys /\ <<p, w, q>> \in VoqKeys
    BY KeysTyped
  <2> QED
    BY <1>0, <1>1, <1>2, <2>1 DEF Counted
<1>4. InHeld(NodeState, p, w) = SumFunctionOnSet(f, PortsOf(p)) /\ OutHeld(NodeState, p, w) = SumFunctionOnSet(g, PortsOf(p))
  BY SumAll DEF InHeld, OutHeld
<1>5. IsFiniteSet(PortsOf(p))
  BY PortsTyped
<1> HIDE DEF f, g
<1>6. SumFunctionOnSet(f, PortsOf(p)) = 0 /\ SumFunctionOnSet(g, PortsOf(p)) = 0
  BY <1>3, <1>5, SumZero
<1>7. inBuf[p][w] = 0 /\ outBuf[p][w] = 0
  BY DEF Init
<1> QED
  BY <1>4, <1>6, <1>7

LEMMA BalancedStep ==
    ASSUME NoWorkOnVlZero, TypeInv, Next, Balanced(NodeState)
    PROVE  Balanced(NodeState')
<1> DEFINE mode == flowControl
           s == NodeState
           t == NodeState'
<1>0. mode \in FcTypes /\ s \in PlacedStates(mode) /\ s \in NodeStates(mode) /\ s.voq = voq
  BY NodeStateFields DEF TypeInv, PlacedStates
<1>1. CASE RunScheduledNow
  BY <1>0, <1>1, RunDoes, BalancedRun
<1>2. ASSUME NEW f \in FlowIds, TpOffer(f) PROVE Balanced(t)
  <2>1. Flows[f].src \in Ports
    BY FlowsTyped
  <2> QED
    BY <1>0, <1>2, <2>1, TpOfferDoes, SameViewsOf, BalancedKept
<1>3. ASSUME NEW f \in FlowIds, LdstSend(f) PROVE Balanced(t)
  BY <1>0, <1>3, LdstSendDoes, BalancedLdst
<1>4. ASSUME NEW p \in Ports, TransmitComplete(p) PROVE Balanced(t)
  BY <1>0, <1>4, TransmitCompleteDoes, BalancedComplete
<1>5. ASSUME NEW p \in Ports, AllocateNothing(p) PROVE Balanced(t)
  BY <1>0, <1>5, AllocateNothingDoes, SameViewsOf, BalancedKept
<1>6. ASSUME NEW p \in Ports, AllocateNextPacket(p) PROVE Balanced(t)
  <2>1. t \in NodeStates(mode)
    BY <1>0, <1>6, AllocateDoes
  <2>2. CASE \E f \in FlowIds : TpServed(p, f)
    BY <1>0, <2>1, <2>2, BalancedTp DEF TpServed
  <2>3. CASE \E vl \in VLs : \E in \in PortsOf(p) : VoqServed(p, vl, in)
    BY <1>0, <2>1, <2>3, BalancedVoq DEF VoqServed
  <2> QED
    BY <1>0, <1>6, <2>2, <2>3, AllocateDoes
<1>7. ASSUME NEW p \in Ports, ReceiveControlFrame(p) PROVE Balanced(t)
  BY <1>0, <1>7, ReceiveControlDoes, BalancedControl
<1>8. ASSUME NEW p \in Ports, SinkDataPacket(p) PROVE Balanced(t)
  BY <1>0, <1>8, SinkDoes, BalancedSink
<1>9. ASSUME NEW p \in Ports, ForwardDataPacket(p) PROVE Balanced(t)
  <2> DEFINE pkt == Arriving(p)
  <2>1. /\ t \in NodeStates(mode) /\ IsData(pkt) /\ pkt \in Packets(mode)
        /\ OutPort(p, pkt.flow) \in Ports /\ OutPort(p, pkt.flow) # p
        /\ <<OutPort(p, pkt.flow), Flows[pkt.flow].vl, p>> \in VoqKeys
        /\ ForwardShape(mode, s, t, p, pkt) \/ Received(s, t, p)
    BY <1>0, <1>9, ForwardDoes
  <2> HIDE DEF pkt
  <2> QED
    BY <1>0, <2>1, BalancedForward, SameViewsOf, BalancedKept
<1> QED
  BY <1>1, <1>2, <1>3, <1>4, <1>5, <1>6, <1>7, <1>8, <1>9 DEF Next, PortStep

LEMMA BalancedViews ==
    ASSUME Balanced(NodeState)
    PROVE  ViewsAgree
<1> DEFINE counted(out, vl, in) == IF out # in \/ vl = 0 THEN AllBytes(voq[<<out, vl, in>>]) ELSE 0
<1>1. \A out, vl, in : Counted(NodeState, out, vl, in) = counted(out, vl, in)
  BY NodeStateFields DEF Counted, IsCounted
<1>2. ASSUME NEW p \in Ports, NEW vl \in VLs
      PROVE  /\ inBuf[p][vl] = SumFunction([out \in PortsOf(p) |-> counted(out, vl, p)])
             /\ outBuf[p][vl] = SumFunction([in \in PortsOf(p) |-> counted(p, vl, in)])
  <2>1. inBuf[p][vl] = InHeld(NodeState, p, vl) /\ outBuf[p][vl] = OutHeld(NodeState, p, vl)
    BY NodeStateFields DEF Balanced
  <2> HIDE DEF counted
  <2>2. /\ InHeld(NodeState, p, vl) = SumFunction([out \in PortsOf(p) |-> counted(out, vl, p)])
        /\ OutHeld(NodeState, p, vl) = SumFunction([in \in PortsOf(p) |-> counted(p, vl, in)])
    BY <1>1 DEF InHeld, OutHeld
  <2> QED
    BY <2>1, <2>2
<1> QED
  BY <1>2 DEF ViewsAgree

\* Both accounts of the queue manager are what the VOQs hold, of forwarded
\* packets and control frames.
THEOREM FabricViewsAgree ==
    ASSUME NoWorkOnVlZero
    PROVE  Spec => []ViewsAgree
<1>1. Init => Balanced(NodeState)
  BY BalancedInit
<1>2. TypeInv /\ Balanced(NodeState) /\ [Next]_vars => Balanced(NodeState)'
  <2> SUFFICES ASSUME TypeInv, Balanced(NodeState), [Next]_vars PROVE Balanced(NodeState')
    OBVIOUS
  <2>1. CASE Next
    BY <2>1, BalancedStep
  <2>2. CASE UNCHANGED vars
    <3>1. NodeState' = NodeState
      BY <2>2 DEF vars, NodeState
    <3> QED
      BY <3>1
  <2> QED
    BY <2>1, <2>2
<1>3. Balanced(NodeState) => ViewsAgree
  BY BalancedViews
<1> QED
  BY <1>1, <1>2, <1>3, FabricInvariant, PTL DEF Spec

-----------------------------------------------------------------------------
(* Ports that have something to do are at work, or will be.                *)

\* CanSend, of a state of the nodes and of the packets offered.
Ready(mode, s, off, p, q) ==
    LET empty == IF q.type = "TP" THEN off[q.flow] = 0 ELSE s.voq[<<q.out, q.vl, q.in>>] = <<>>
        next  == IF q.type = "TP" THEN Data(q.flow) ELSE Head(s.voq[<<q.out, q.vl, q.in>>])
        size  == CASE q.type = "TP" -> Flows[q.flow].announced
                   [] q.type = "VOQ" /\ q.in = q.out -> CtrlBytes
                   [] q.type = "VOQ" /\ q.in # q.out -> Bytes(next)
    IN  ~empty /\ ~IsFcLimited(mode, s.fc[p], q, size)

NothingReady(mode, s, off, p) ==
    \A vl \in VLs : \A i \in DOMAIN IngressSources[p][vl] : ~Ready(mode, s, off, p, IngressSources[p][vl][i])

LEMMA ReadyIs ==
    /\ \A p, q : CanSend(p, q) <=> Ready(flowControl, NodeState, offered, p, q)
    /\ \A p \in Ports : Sendable(p) = {} <=> NothingReady(flowControl, NodeState, offered, p)
<1>1. \A p, q : CanSend(p, q) <=> Ready(flowControl, NodeState, offered, p, q)
  BY NodeStateFields DEF CanSend, QueueIsEmpty, GetNextPacketSize, NextPacket, Ready
<1> QED
  BY <1>1 DEF Sendable, NothingReady

\* The port p has an event or a round that looks for work.
Attends(s, p) ==
    \/ s.port[p].busy \/ s.port[p].running
    \/ Awaited(s.events[p], "TriggerTransmit") \/ Awaited(s.events[p], "TriggerAllocator")

Unaffected(s, t, p) ==
    /\ t.port[p].busy = s.port[p].busy /\ t.port[p].running = s.port[p].running
    /\ t.port[p].egress = s.port[p].egress
    /\ \A kind : Awaited(s.events[p], kind) => Awaited(t.events[p], kind)
    /\ SameCredits(s.fc[p], t.fc[p])
    /\ \A vl \in VLs : \A in \in PortsOf(p) : t.voq[<<p, vl, in>>] = s.voq[<<p, vl, in>>]

Fate(s, t, p) == Attends(t, p) \/ Unaffected(s, t, p)

LEMMA AttendsKept ==
    ASSUME NEW s, NEW t, NEW p, Attends(s, p), Unaffected(s, t, p)
    PROVE  Attends(t, p)
  BY DEF Attends, Unaffected

LEMMA UnaffectedTwice ==
    ASSUME NEW s, NEW m, NEW t, NEW p, Unaffected(s, m, p), Unaffected(m, t, p)
    PROVE  Unaffected(s, t, p)
<1>1. SameCredits(s.fc[p], t.fc[p])
  BY DEF Unaffected, SameCredits
<1> QED
  BY <1>1 DEF Unaffected

LEMMA FateTwice ==
    ASSUME NEW s, NEW m, NEW t, NEW p, Fate(s, m, p), Fate(m, t, p)
    PROVE  Fate(s, t, p)
  BY AttendsKept, UnaffectedTwice DEF Fate

\* What is ready does not depend on what is elsewhere.
LEMMA NothingReadyKept ==
    ASSUME NEW mode, NEW s, NEW t, NEW p \in Ports, Unaffected(s, t, p), NEW o, NEW u,
           \A f \in FlowIds : Flows[f].via = "TP" /\ Flows[f].src = p => u[f] = o[f],
           NothingReady(mode, s, o, p)
    PROVE  NothingReady(mode, t, u, p)
<1> SUFFICES ASSUME NEW vl \in VLs, NEW i \in DOMAIN IngressSources[p][vl],
                    Ready(mode, t, u, p, IngressSources[p][vl][i])
             PROVE  FALSE
  BY DEF NothingReady
<1> DEFINE q == IngressSources[p][vl][i]
<1>1. ~Ready(mode, s, o, p, q)
  BY DEF NothingReady
<1>2. Ready(mode, t, u, p, q)
  OBVIOUS
<1>3. \/ \E in \in PortsOf(p) : q = Voq(p, vl, in)
      \/ \E f \in FlowIds : Flows[f].via = "TP" /\ Flows[f].src = p /\ Flows[f].vl = vl /\ q = Tp(f)
  BY IngressTyped
<1> HIDE DEF q
<1>4. \A size : IsFcLimited(mode, s.fc[p], q, size) <=> IsFcLimited(mode, t.fc[p], q, size)
  BY DEF Unaffected, SameCredits, IsFcLimited
<1>5. CASE \E in \in PortsOf(p) : q = Voq(p, vl, in)
  <2>1. PICK in \in PortsOf(p) : q = Voq(p, vl, in)
    BY <1>5
  <2>2. q.type = "VOQ" /\ q.out = p /\ q.vl = vl /\ q.in = in
    BY <2>1, QueueFields
  <2>3. t.voq[<<q.out, q.vl, q.in>>] = s.voq[<<q.out, q.vl, q.in>>]
    BY <2>2 DEF Unaffected
  <2> QED
    BY <1>1, <1>2, <1>4, <2>2, <2>3 DEF Ready
<1>6. CASE \E f \in FlowIds : Flows[f].via = "TP" /\ Flows[f].src = p /\ Flows[f].vl = vl /\ q = Tp(f)
  <2>1. PICK f \in FlowIds : Flows[f].via = "TP" /\ Flows[f].src = p /\ q = Tp(f)
    BY <1>6
  <2>2. q.type = "TP" /\ q.flow = f /\ u[f] = o[f]
    BY <2>1, QueueFields
  <2> QED
    BY <1>1, <1>2, <1>4, <2>2 DEF Ready
<1> QED
  BY <1>3, <1>5, <1>6

\* The inductive invariant.
Attended(mode, s, off, p) ==
    \/ Attends(s, p)
    \/ s.port[p].egress # <<>> /\ Awaited(s.events[p], "NotifyAllocationFinish")
    \/ s.port[p].egress = <<>> /\ NothingReady(mode, s, off, p)

LEMMA AttendedKept ==
    ASSUME NEW mode, NEW s, NEW t, NEW p \in Ports, Fate(s, t, p), NEW o, NEW u,
           \A f \in FlowIds : Flows[f].via = "TP" /\ Flows[f].src = p => u[f] = o[f],
           Attended(mode, s, o, p)
    PROVE  Attended(mode, t, u, p)
<1>1. CASE Attends(t, p)
  BY <1>1 DEF Attended
<1>2. CASE Unaffected(s, t, p)
  <2>1. CASE Attends(s, p)
    BY <1>2, <2>1, AttendsKept DEF Attended
  <2>2. CASE s.port[p].egress # <<>> /\ Awaited(s.events[p], "NotifyAllocationFinish")
    BY <1>2, <2>2 DEF Attended, Unaffected
  <2>3. CASE s.port[p].egress = <<>> /\ NothingReady(mode, s, o, p)
    <3>1. NothingReady(mode, t, u, p)
      BY <1>2, <2>3, NothingReadyKept
    <3> QED
      BY <1>2, <2>3, <3>1 DEF Attended, Unaffected
  <2> QED
    BY <2>1, <2>2, <2>3 DEF Attended
<1> QED
  BY <1>1, <1>2 DEF Fate

LEMMA AwaitedMore ==
    ASSUME NEW T, NEW x \in Seq(T), NEW e \in T
    PROVE  /\ \A kind : Awaited(x, kind) => Awaited(Append(x, e), kind)
           /\ Awaited(Append(x, e), e)
           /\ \A kind : Awaited(Append(x, e), kind) => kind = e \/ Awaited(x, kind)
<1>1. /\ \A i \in DOMAIN x : i \in DOMAIN Append(x, e) /\ Append(x, e)[i] = x[i]
      /\ Len(x) + 1 \in DOMAIN Append(x, e) /\ Append(x, e)[Len(x) + 1] = e
      /\ \A i \in DOMAIN Append(x, e) : (i \in DOMAIN x /\ Append(x, e)[i] = x[i]) \/ Append(x, e)[i] = e
  BY AppendElement
<1> QED
  BY <1>1 DEF Awaited

LEMMA AwaitedLess ==
    ASSUME NEW T, NEW x \in Seq(T), x # <<>>
    PROVE  /\ \A kind : Awaited(x, kind) => kind = Head(x) \/ Awaited(Tail(x), kind)
           /\ \A kind : Awaited(Tail(x), kind) => Awaited(x, kind)
<1>1. \A i \in DOMAIN x : i # 1 => i - 1 \in DOMAIN Tail(x) /\ Tail(x)[i - 1] = x[i]
  OBVIOUS
<1>4. Head(x) = x[1] /\ \A j \in DOMAIN Tail(x) : j + 1 \in DOMAIN x /\ Tail(x)[j] = x[j + 1]
  BY HeadTailSeq
<1>2. \A kind : Awaited(x, kind) => kind = Head(x) \/ Awaited(Tail(x), kind)
  BY <1>1, <1>4 DEF Awaited
<1>3. \A kind : Awaited(Tail(x), kind) => Awaited(x, kind)
  BY <1>4 DEF Awaited
<1> QED
  BY <1>2, <1>3

LEMMA UnaffectedElsewhere ==
    ASSUME NEW s, NEW t, NEW p \in Ports, NEW q \in Ports, q # p,
           \/ \E kind : EventTaken(s, t, p, kind) \/ EventMore(s, t, p, kind)
           \/ RoundEnd(s, t, p) \/ AllocatorTriggered(s, t, p) \/ Notified(s, t, p) \/ Pumped(s, t, p)
           \/ \E y : FcSet(s, t, p, y) \/ PortSet(s, t, p, y)
           \/ \E mode, x, pkt : Enqueued(mode, s, t, p, x, pkt)
    PROVE  Unaffected(s, t, q)
<1>1. CASE \E kind : EventTaken(s, t, p, kind) \/ EventMore(s, t, p, kind)
  BY <1>1 DEF EventTaken, EventMore, Unaffected, SameCredits
<1>2. CASE RoundEnd(s, t, p)
  BY <1>2 DEF RoundEnd, PortOnly, Unaffected, SameCredits
<1>3. CASE AllocatorTriggered(s, t, p)
  BY <1>3 DEF AllocatorTriggered, PortSet, Unaffected, SameCredits
<1>4. ASSUME Pumped(s, t, p) PROVE Unaffected(s, t, q)
  BY <1>4 DEF Pumped, PortOnly, Unaffected, SameCredits
<1>5. CASE Notified(s, t, p)
  BY <1>4, <1>5 DEF Notified, Unaffected, SameCredits
<1>6. CASE \E y : FcSet(s, t, p, y) \/ PortSet(s, t, p, y)
  BY <1>6 DEF FcSet, PortSet, Unaffected, SameCredits
<1>7. CASE \E mode, x, pkt : Enqueued(mode, s, t, p, x, pkt)
  BY <1>7 DEF Enqueued, Unaffected, SameCredits
<1> QED
  BY <1>1, <1>2, <1>3, <1>4, <1>5, <1>6, <1>7

LEMMA UnaffectedByVoq ==
    ASSUME NEW s, NEW t, NEW k \in VoqKeys, NEW v, VoqSet(s, t, k, v), NEW q \in Ports, q # k[1]
    PROVE  Unaffected(s, t, q)
<1>1. \A vl \in VLs : \A in \in PortsOf(q) : <<q, vl, in>> \in VoqKeys /\ <<q, vl, in>>[1] # k[1]
  BY KeysTyped
<1>2. \A vl \in VLs : \A in \in PortsOf(q) : <<q, vl, in>> \in VoqKeys \ {k}
  BY <1>1
<1> QED
  BY <1>2 DEF VoqSet, Unaffected, SameCredits

LEMMA UnaffectedByPush ==
    ASSUME NEW s, NEW t, NEW pkt, NEW in, NEW out, NEW vl, Pushed(s, t, pkt, in, out, vl),
           NEW q \in Ports, q # out
    PROVE  Unaffected(s, t, q)
<1>1. \A w \in VLs : \A i \in PortsOf(q) : <<q, w, i>> \in VoqKeys \ {<<out, vl, in>>}
  BY KeysTyped
<1> QED
  BY <1>1 DEF Pushed, Unaffected, SameCredits

LEMMA UnaffectedAll ==
    ASSUME NEW mode, NEW s \in NodeStates(mode), NEW t, NEW p \in Ports, NEW q \in Ports,
           \/ \E kind \in Kinds : EventMore(s, t, p, kind)
           \/ \E in, out, vl, n : Shrunk(s, t, in, out, vl, n)
           \/ Received(s, t, p)
    PROVE  Unaffected(s, t, q)
<1>1. CASE \E kind \in Kinds : EventMore(s, t, p, kind)
  <2>1. PICK kind \in Kinds : EventMore(s, t, p, kind)
    BY <1>1
  <2>2. s.events[p] \in Seq(Kinds)
    BY PortFields
  <2>3. \A k : Awaited(s.events[p], k) => Awaited(Append(s.events[p], kind), k)
    BY <2>2, AwaitedMore
  <2>4. \A k : Awaited(s.events[q], k) => Awaited(t.events[q], k)
    BY <2>1, <2>3 DEF EventMore
  <2> QED
    BY <2>1, <2>4 DEF EventMore, Unaffected, SameCredits
<1>2. CASE \E in, out, vl, n : Shrunk(s, t, in, out, vl, n)
  BY <1>2 DEF Shrunk, Unaffected, SameCredits
<1>3. CASE Received(s, t, p)
  <2>1. s.port[Peer[p]] \in PortStates(mode)
    BY PortFields, PortsTyped
  <2>2. /\ t.port[q].busy = s.port[q].busy /\ t.port[q].running = s.port[q].running
        /\ t.port[q].egress = s.port[q].egress
    BY <1>3, <2>1 DEF Received, PortSet, PortStates
  <2> QED
    BY <1>3, <2>2 DEF Received, PortSet, Unaffected, SameCredits
<1> QED
  BY <1>1, <1>2, <1>3

LEMMA UnaffectedBeside ==
    ASSUME NEW s, NEW t, NEW r \in Ports, Beside(s, t, r), NEW q \in Ports, q # r
    PROVE  Unaffected(s, t, q)
<1>1. \A w \in VLs : \A i \in PortsOf(q) : <<q, w, i>> \in VoqKeys \ {<<r, 0, r>>}
  BY KeysTyped
<1> QED
  BY <1>1 DEF Beside, Unaffected, SameCredits

LEMMA KickedAttends ==
    ASSUME NEW t, NEW p, Kicked(t, p)
    PROVE  Attends(t, p)
  BY DEF Kicked, Attends

LEMMA BesideFate ==
    ASSUME NEW s, NEW t, NEW r \in Ports, Beside(s, t, r), Kicked(t, r) \/ Still(s, t), NEW q \in Ports
    PROVE  Fate(s, t, q)
<1>1. CASE q # r
  BY <1>1, UnaffectedBeside DEF Fate
<1>2. CASE q = r /\ Kicked(t, r)
  BY <1>2, KickedAttends DEF Fate
<1>3. CASE q = r /\ Still(s, t)
  BY <1>3 DEF Still, Beside, Unaffected, Fate
<1> QED
  BY <1>1, <1>2, <1>3

LEMMA CheckedBeside ==
    ASSUME NEW s \in NodeStates("PFC"), NEW t, NEW r \in Ports, PfcChecked(s, t, r)
    PROVE  t \in NodeStates("PFC") /\ Beside(s, t, r) /\ (Kicked(t, r) \/ Still(s, t))
<1> DEFINE I == {x \in NodeStates("PFC") : Beside(s, x, r)}
<1>1. ASSUME NEW a \in I, NEW b \in NodeStates("PFC"), PfcTells(a, b, r) PROVE b \in I
  <2>1. PICK frame : Tells(a, b, r, frame)
    BY <1>1 DEF PfcTells
  <2>2. Beside(a, b, r)
    BY <2>1, TellsBeside
  <2> QED
    BY <2>2, BesideTwice
<1>2. ASSUME NEW a \in I, NEW b \in NodeStates("PFC"), Pumped(a, b, r) PROVE b \in I
  <2>1. Beside(a, b, r)
    BY <1>2, PumpedBeside
  <2> QED
    BY <2>1, BesideTwice
<1>3. Beside(s, s, r)
  BY DEF Beside, SameCredits
<1>4. PfcClosed("PFC", I, r) /\ s \in I
  BY <1>1, <1>2, <1>3 DEF PfcClosed
<1>5. t \in I
  <2> HIDE DEF I
  <2> QED
    BY <1>4 DEF PfcChecked
<1> QED
  BY <1>5 DEF PfcChecked

LEMMA ReturnedBeside ==
    ASSUME NEW mode, NEW s \in NodeStates(mode), NEW t, NEW r \in Ports, NEW vl, NEW bytes,
           CreditsReturned(mode, s, t, r, vl, bytes)
    PROVE  Beside(s, t, r) /\ (Kicked(t, r) \/ Still(s, t))
<1>1. PICK m \in NodeStates(mode) :
         /\ CreditTells(s, m, r, vl, bytes)
         /\ ((t = m /\ Still(s, t)) \/ (Pumped(m, t, r) /\ Kicked(t, r)))
  BY DEF CreditsReturned
<1>2. Beside(s, m, r)
  BY <1>1, TellsBeside DEF CreditTells
<1>3. t = m \/ Beside(m, t, r)
  BY <1>1, PumpedBeside
<1> QED
  BY <1>1, <1>2, <1>3, BesideTwice

LEMMA FreedFate ==
    ASSUME NEW mode, NEW s \in NodeStates(mode), NEW t, NEW pkt, NEW in \in Ports, NEW out \in Ports,
           Freed(mode, s, t, pkt, in, out), NEW q \in Ports
    PROVE  Fate(s, t, q) /\ (q # in \/ q = out => Unaffected(s, t, q))
<1>1. CASE t = s
  BY <1>1 DEF Unaffected, SameCredits, Fate
<1>2. CASE in # out /\ CreditsReturned(mode, s, t, in, Flows[pkt.flow].vl, Bytes(pkt))
  <2>1. Beside(s, t, in) /\ (Kicked(t, in) \/ Still(s, t))
    BY <1>2, ReturnedBeside
  <2>2. Fate(s, t, q) /\ (q # in => Unaffected(s, t, q))
    BY <2>1, BesideFate, UnaffectedBeside
  <2> QED
    BY <1>2, <2>2
<1>3. CASE in # out /\ mode = "PFC" /\ PfcChecked(s, t, in)
  <2>1. Beside(s, t, in) /\ (Kicked(t, in) \/ Still(s, t))
    BY <1>3, CheckedBeside
  <2>2. Fate(s, t, q) /\ (q # in => Unaffected(s, t, q))
    BY <2>1, BesideFate, UnaffectedBeside
  <2> QED
    BY <1>3, <2>2
<1> QED
  BY <1>1, <1>2, <1>3 DEF Freed

-----------------------------------------------------------------------------
(* The fate of every port in the steps that do not serve its queues.       *)

LEMMA PumpedFate ==
    ASSUME NEW s, NEW t, NEW p \in Ports, Pumped(s, t, p), Kicked(t, p), NEW q \in Ports
    PROVE  Fate(s, t, q)
<1>1. CASE q = p
  BY <1>1, KickedAttends DEF Fate
<1>2. CASE q # p
  BY <1>2, UnaffectedElsewhere DEF Fate
<1> QED
  BY <1>1, <1>2

LEMMA LdstFate ==
    ASSUME NEW mode, NEW s \in NodeStates(mode), NEW t, NEW f \in FlowIds, LdstShape(mode, s, t, f), NEW q \in Ports
    PROVE  Fate(s, t, q)
<1> DEFINE p == Flows[f].src
           k == <<p, Flows[f].vl, p>>
           v == Append(s.voq[k], Data(f))
<1>1. PICK m \in NodeStates(mode) : VoqSet(s, m, k, v) /\ EventMore(m, t, p, "TriggerTransmit")
  BY DEF LdstShape
<1>2. p \in Ports /\ k \in VoqKeys /\ k[1] = p
  BY FlowsTyped, KeysTyped
<1> HIDE DEF k, p, v
<1>3. CASE q = p
  <2>1. Awaited(t.events[p], "TriggerTransmit")
    BY <1>1 DEF EventMore
  <2> QED
    BY <1>3, <2>1 DEF Fate, Attends
<1>4. CASE q # p
  <2>1. Unaffected(s, m, q)
    BY <1>1, <1>2, <1>4, UnaffectedByVoq
  <2>2. Unaffected(m, t, q)
    BY <1>1, <1>2, <1>4, UnaffectedElsewhere
  <2> QED
    BY <2>1, <2>2, UnaffectedTwice DEF Fate
<1> QED
  BY <1>3, <1>4

LEMMA CompleteFate ==
    ASSUME NEW mode, NEW s \in NodeStates(mode), NEW t, NEW p \in Ports, CompleteShape(mode, s, t, p), NEW q \in Ports
    PROVE  Fate(s, t, q)
<1>1. PICK m \in NodeStates(mode) : /\ PortSet(s, m, p, [s.port[p] EXCEPT !.busy = FALSE])
                                    /\ EventMore(m, t, p, "TriggerTransmit")
  BY DEF CompleteShape
<1>2. CASE q = p
  BY <1>1, <1>2 DEF EventMore, Fate, Attends
<1>3. CASE q # p
  <2>1. Unaffected(s, m, q) /\ Unaffected(m, t, q)
    BY <1>1, <1>3, UnaffectedElsewhere
  <2> QED
    BY <2>1, UnaffectedTwice DEF Fate
<1> QED
  BY <1>2, <1>3

LEMMA ControlFate ==
    ASSUME NEW mode, NEW s \in NodeStates(mode), NEW t, NEW p \in Ports, NEW x,
           ControlShape(mode, s, t, p, x), NEW q \in Ports
    PROVE  Fate(s, t, q)
<1>1. PICK a, b \in NodeStates(mode) :
        /\ Received(s, a, p) /\ FcSet(a, b, p, HandleReceivedControlPacket(mode, s.fc[p], x))
        /\ EventMore(b, t, p, "TriggerTransmit")
  BY DEF ControlShape
<1>2. CASE q = p
  BY <1>1, <1>2 DEF EventMore, Fate, Attends
<1>3. CASE q # p
  <2>1. Unaffected(s, a, q)
    BY <1>1, UnaffectedAll
  <2>2. Unaffected(a, b, q) /\ Unaffected(b, t, q)
    BY <1>1, <1>3, UnaffectedElsewhere
  <2> QED
    BY <2>1, <2>2, UnaffectedTwice DEF Fate
<1> QED
  BY <1>2, <1>3

LEMMA SinkFate ==
    ASSUME NEW mode, NEW s \in NodeStates(mode), NEW t, NEW p \in Ports, NEW pkt,
           SinkShape(mode, s, t, p, pkt), NEW q \in Ports
    PROVE  Fate(s, t, q)
<1>1. PICK a \in NodeStates(mode) :
        /\ Received(s, a, p)
        /\ IF mode \in CreditTypes
           THEN CreditsReturned(mode, a, t, p, Flows[pkt.flow].vl, Bytes(pkt)) ELSE t = a
  BY DEF SinkShape
<1>2. Fate(s, a, q)
  BY <1>1, UnaffectedAll DEF Fate
<1>3. CASE mode \in CreditTypes
  <2>1. Fate(a, t, q)
    BY <1>1, <1>3, ReturnedBeside, BesideFate
  <2> QED
    BY <1>2, <2>1, FateTwice
<1> QED
  BY <1>1, <1>2, <1>3

LEMMA ForwardFate ==
    ASSUME NEW mode, NEW s \in NodeStates(mode), NEW t, NEW p \in Ports, NEW pkt,
           OutPort(p, pkt.flow) \in Ports, ForwardShape(mode, s, t, p, pkt), NEW q \in Ports
    PROVE  Fate(s, t, q)
<1> DEFINE out == OutPort(p, pkt.flow)
           vl == Flows[pkt.flow].vl
<1>1. PICK m \in NodeStates(mode) : Received(s, m, p) /\ Forwarded(mode, m, t, pkt, p, out, vl)
  BY DEF ForwardShape
<1>2. PICK a, b \in NodeStates(mode) :
        /\ Pushed(m, a, pkt, p, out, vl)
        /\ IF mode = "PFC" THEN PfcChecked(a, b, p) ELSE b = a
        /\ Pumped(b, t, out) /\ Kicked(t, out)
  BY <1>1 DEF Forwarded
<1>3. CASE q = out
  BY <1>2, <1>3, KickedAttends DEF Fate
<1>4. CASE q # out
  <2>1. Fate(s, m, q)
    BY <1>1, UnaffectedAll DEF Fate
  <2>2. Fate(m, a, q)
    BY <1>2, <1>4, UnaffectedByPush DEF Fate
  <2>3. b = a \/ Fate(a, b, q)
    BY <1>2, CheckedBeside, BesideFate
  <2>4. Fate(b, t, q)
    BY <1>2, PumpedFate
  <2> QED
    BY <2>1, <2>2, <2>3, <2>4, FateTwice
<1> QED
  BY <1>3, <1>4

-----------------------------------------------------------------------------
(* Steps that serve a queue or end a round leave no port behind.           *)

LEMMA NothingReadySame ==
    ASSUME NEW mode, NEW s, NEW t, t.fc = s.fc, t.voq = s.voq, NEW off, NEW p,
           NothingReady(mode, s, off, p)
    PROVE  NothingReady(mode, t, off, p)
  BY ZenonT(60) DEF NothingReady, Ready

\* A port that is given a packet to send holds a packet afterwards.
LEMMA EnqueuedHolds ==
    ASSUME EveryPacketFits, NEW mode, NEW s \in NodeStates(mode), NEW t, NEW p \in Ports, NEW q,
           NEW pkt \in Packets(mode), Enqueued(mode, s, t, p, q, pkt)
    PROVE  t.port[p].egress # <<>>
<1> DEFINE x == s.port[p].egress
<1>1. x \in Seq(Packets(mode))
  BY PortFields
<1>2. Bytes(pkt) <= MaxEgressBytes /\ Bytes(pkt) \in Nat
  BY PacketKinds, NumbersTyped DEF EveryPacketFits, FitInEgress, Bytes
<1>3. x = <<>> => EgressHasRoom(s.port[p], pkt)
  <2>1. AllBytes(<<>>) = 0
    BY <1>1, AllBytesChange
  <2> QED
    BY <1>2, <2>1 DEF EgressHasRoom, EgressBytes
<1>4. Append(x, pkt) # <<>>
  BY <1>1
<1> QED
  BY <1>3, <1>4 DEF Enqueued

LEMMA RoundEndAwaits ==
    ASSUME NEW mode, NEW s \in NodeStates(mode), NEW t, NEW p \in Ports, RoundEnd(s, t, p)
    PROVE  /\ Awaited(t.events[p], "NotifyAllocationFinish")
           /\ \A kind : Awaited(s.events[p], kind) => Awaited(t.events[p], kind)
           /\ s.port[p].oneMore => Awaited(t.events[p], "TriggerAllocator")
<1> DEFINE x == s.events[p]
           y == Append(x, "NotifyAllocationFinish")
           z == Append(y, "TriggerAllocator")
<1>1. x \in Seq(Kinds)
  BY PortFields
<1>2. y \in Seq(Kinds) /\ Awaited(y, "NotifyAllocationFinish") /\ \A kind : Awaited(x, kind) => Awaited(y, kind)
  BY <1>1, AwaitedMore, AppendSeq DEF Kinds
<1>3. Awaited(z, "TriggerAllocator") /\ \A kind : Awaited(y, kind) => Awaited(z, kind)
  <2> HIDE DEF y
  <2> QED
    BY <1>2, AwaitedMore DEF Kinds
<1>4. t.events[p] = IF s.port[p].oneMore THEN z ELSE y
  BY DEF RoundEnd
<1> QED
  BY <1>2, <1>3, <1>4

LEMMA AttendedRun ==
    ASSUME NEW mode, NEW s \in NodeStates(mode), NEW t, NEW p \in Ports, RunShape(mode, s, t, p),
           NEW off, NEW q \in Ports, Attended(mode, s, off, q)
    PROVE  Attended(mode, t, off, q)
<1>1. PICK m \in NodeStates(mode) : \E kind \in Kinds : EventTaken(s, m, p, kind) /\ Ran(m, t, p, kind)
  BY DEF RunShape
<1>2. PICK kind \in Kinds : EventTaken(s, m, p, kind) /\ Ran(m, t, p, kind)
  BY <1>1
<1>3. CASE q # p
  <2>1. Unaffected(s, m, q)
    BY <1>2, <1>3, UnaffectedElsewhere
  <2>2. Unaffected(m, t, q)
    BY <1>2, <1>3, UnaffectedElsewhere DEF Ran
  <2>3. Fate(s, t, q)
    BY <2>1, <2>2, UnaffectedTwice DEF Fate
  <2> QED
    BY <2>3, AttendedKept
<1>4. CASE q = p /\ Attends(t, p)
  BY <1>4 DEF Attended
<1>5. CASE q = p /\ ~Attends(t, p)
  <2>1. kind = "NotifyAllocationFinish"
    BY <1>2, <1>5, KickedAttends DEF Ran, AllocatorTriggered, Attends
  <2>2. Notified(m, t, p)
    BY <1>2, <2>1 DEF Ran
  <2>3. t = m /\ m.port[p].egress = <<>> /\ m.port = s.port /\ m.fc = s.fc /\ m.voq = s.voq
    BY <1>2, <1>5, <2>2 DEF Notified, Busy, Attends, EventTaken
  <2>4. \A k : Awaited(s.events[p], k) => k = kind \/ Awaited(t.events[p], k)
    <3>1. s.events[p] \in Seq(Kinds) /\ s.events[p] # <<>>
      BY <1>2, PortFields DEF EventTaken
    <3> QED
      BY <1>2, <2>3, <3>1, AwaitedLess DEF EventTaken
  <2>5. ~Attends(s, p)
    BY <1>5, <2>1, <2>3, <2>4 DEF Attends
  <2>6. NothingReady(mode, s, off, p)
    BY <1>5, <2>3, <2>5 DEF Attended
  <2>7. NothingReady(mode, t, off, p)
    BY <2>3, <2>6, NothingReadySame
  <2> QED
    BY <1>5, <2>3, <2>7 DEF Attended
<1> QED
  BY <1>3, <1>4, <1>5

LEMMA AttendedTp ==
    ASSUME EveryPacketFits, NEW mode, NEW s \in NodeStates(mode), NEW t, NEW f \in FlowIds,
           NEW p \in Ports, Flows[f].src = p, ServeTpShape(mode, s, t, p, f), NEW o, NEW u,
           \A g \in FlowIds \ {f} : u[g] = o[g],
           NEW q \in Ports, Attended(mode, s, o, q)
    PROVE  Attended(mode, t, u, q)
<1>1. PICK a \in NodeStates(mode) : Enqueued(mode, s, a, p, Tp(f), Data(f)) /\ RoundEnd(a, t, p)
  BY DEF ServeTpShape
<1>2. CASE q = p
  <2>1. a.port[p].egress # <<>>
    BY <1>1, EnqueuedHolds, DataPacket
  <2>2. Awaited(t.events[p], "NotifyAllocationFinish")
    BY <1>1, RoundEndAwaits
  <2> QED
    BY <1>1, <1>2, <2>1, <2>2 DEF Attended, RoundEnd
<1>3. CASE q # p
  <2>1. Unaffected(s, a, q) /\ Unaffected(a, t, q)
    BY <1>1, <1>3, UnaffectedElsewhere
  <2>2. Fate(s, t, q)
    BY <2>1, UnaffectedTwice DEF Fate
  <2> QED
    BY <1>3, <2>2, AttendedKept
<1> QED
  BY <1>2, <1>3

LEMMA AttendedVoq ==
    ASSUME EveryPacketFits, NEW mode, NEW s \in NodeStates(mode), NEW t, NEW p \in Ports, NEW vl \in VLs,
           NEW in \in PortsOf(p), ServeVoqShape(mode, s, t, p, vl, in),
           Head(s.voq[<<p, vl, in>>]) \in Packets(mode), NEW o,
           NEW r \in Ports, Attended(mode, s, o, r)
    PROVE  Attended(mode, t, o, r)
<1> DEFINE q == Voq(p, vl, in)
           k == <<p, vl, in>>
           pkt == Head(s.voq[k])
           v == Tail(s.voq[k])
<1>1. PICK a, b, c, d \in NodeStates(mode) :
            /\ VoqSet(s, a, k, v) /\ Enqueued(mode, a, b, p, q, pkt) /\ Freed(mode, b, c, pkt, in, p)
            /\ IF IsGeneratedDataPacket(q) THEN d = c ELSE Shrunk(c, d, in, p, vl, Bytes(pkt))
            /\ RoundEnd(d, t, p)
  BY DEF ServeVoqShape
<1>2. k \in VoqKeys /\ k[1] = p /\ in \in Ports /\ pkt \in Packets(mode)
  BY KeysTyped
<1> HIDE DEF q, k, pkt, v
<1>3. Fate(b, c, r) /\ (r = p => Unaffected(b, c, r))
  BY <1>1, <1>2, FreedFate
<1>4. Unaffected(c, d, r) /\ d.port = c.port
  <2>1. CASE IsGeneratedDataPacket(q)
    BY <1>1, <2>1 DEF Unaffected, SameCredits
  <2>2. CASE ~IsGeneratedDataPacket(q)
    <3>1. Shrunk(c, d, in, p, vl, Bytes(pkt))
      BY <1>1, <2>2
    <3>2. d.port = c.port
      BY <3>1 DEF Shrunk
    <3> QED
      BY <3>1, <3>2, UnaffectedAll
  <2> QED
    BY <2>1, <2>2
<1>5. CASE r = p
  <2>1. b.port[p].egress # <<>>
    BY <1>1, <1>2, EnqueuedHolds
  <2>2. d.port[p].egress # <<>>
    BY <1>3, <1>4, <1>5, <2>1 DEF Unaffected
  <2>3. Awaited(t.events[p], "NotifyAllocationFinish")
    BY <1>1, RoundEndAwaits
  <2> QED
    BY <1>1, <1>5, <2>2, <2>3 DEF Attended, RoundEnd
<1>6. CASE r # p
  <2>1. Unaffected(s, a, r)
    BY <1>1, <1>2, <1>6, UnaffectedByVoq
  <2>2. Unaffected(a, b, r) /\ Unaffected(d, t, r)
    BY <1>1, <1>6, UnaffectedElsewhere
  <2>3. Unaffected(s, b, r) /\ Unaffected(c, t, r)
    BY <1>4, <2>1, <2>2, UnaffectedTwice
  <2>4. Fate(s, b, r) /\ Fate(c, t, r)
    BY <2>3 DEF Fate
  <2>5. Fate(s, t, r)
    BY <1>3, <2>4, FateTwice
  <2> QED
    BY <2>5, AttendedKept
<1> QED
  BY <1>5, <1>6

LEMMA AttendedNothing ==
    ASSUME NEW mode, NEW s \in NodeStates(mode), NEW t, NEW p \in Ports, RoundEnd(s, t, p), NEW o,
           NothingReady(mode, s, o, p), NEW q \in Ports, Attended(mode, s, o, q)
    PROVE  Attended(mode, t, o, q)
<1>1. CASE q # p
  <2>1. Unaffected(s, t, q)
    BY <1>1, UnaffectedElsewhere
  <2> QED
    BY <2>1, AttendedKept DEF Fate
<1>2. CASE q = p
  <2>1. Awaited(t.events[p], "NotifyAllocationFinish")
    BY RoundEndAwaits
  <2>2. NothingReady(mode, t, o, p)
    BY NothingReadySame DEF RoundEnd, PortOnly
  <2> QED
    BY <1>2, <2>1, <2>2 DEF Attended
<1> QED
  BY <1>1, <1>2

AllAttended == \A p \in Ports : Attended(flowControl, NodeState, offered, p)

LEMMA AttendedInit ==
    ASSUME Init
    PROVE  AllAttended
<1> SUFFICES ASSUME NEW p \in Ports PROVE Attended(flowControl, NodeState, offered, p)
  BY DEF AllAttended
<1>1. NodeState.port[p].egress = <<>>
  BY NodeStateFields DEF Init
<1>2. NothingReady(flowControl, NodeState, offered, p)
  <2> SUFFICES ASSUME NEW vl \in VLs, NEW i \in DOMAIN IngressSources[p][vl],
                      Ready(flowControl, NodeState, offered, p, IngressSources[p][vl][i])
               PROVE  FALSE
    BY DEF NothingReady
  <2> DEFINE q == IngressSources[p][vl][i]
  <2>1. Ready(flowControl, NodeState, offered, p, q)
    OBVIOUS
  <2>2. \/ \E in \in PortsOf(p) : q = Voq(p, vl, in)
        \/ \E f \in FlowIds : Flows[f].via = "TP" /\ Flows[f].src = p /\ Flows[f].vl = vl /\ q = Tp(f)
    BY IngressTyped
  <2> HIDE DEF q
  <2>3. \A k \in VoqKeys : NodeState.voq[k] = <<>>
    BY NodeStateFields DEF Init
  <2>4. ASSUME NEW in \in PortsOf(p), q = Voq(p, vl, in) PROVE FALSE
    <3>1. q.type = "VOQ" /\ q.out = p /\ q.vl = vl /\ q.in = in
      BY <2>4, QueueFields
    <3>2. <<q.out, q.vl, q.in>> \in VoqKeys
      BY <3>1, KeysTyped
    <3> QED
      BY <2>1, <2>3, <3>1, <3>2 DEF Ready
  <2>5. ASSUME NEW f \in FlowIds, q = Tp(f) PROVE FALSE
    <3>1. q.type = "TP" /\ q.flow = f /\ offered[f] = 0
      BY <2>5, QueueFields DEF Init
    <3> QED
      BY <2>1, <3>1 DEF Ready
  <2> QED
    BY <2>2, <2>4, <2>5
<1> QED
  BY <1>1, <1>2 DEF Attended

\* Steps after which every port has met its fate, and offers stay.
LEMMA FateSuffices ==
    ASSUME AllAttended, UNCHANGED <<flowControl, offered>>, \A q \in Ports : Fate(NodeState, NodeState', q)
    PROVE  AllAttended'
<1> DEFINE t == NodeState'
<1>1. ASSUME NEW q \in Ports PROVE Attended(flowControl, t, offered, q)
  <2>1. Attended(flowControl, NodeState, offered, q) /\ Fate(NodeState, t, q)
    BY DEF AllAttended
  <2> HIDE DEF t
  <2> QED
    BY <2>1, AttendedKept
<1> QED
  BY <1>1 DEF AllAttended

LEMMA AttendedStep ==
    ASSUME EveryPacketFits, TypeInv, Next, AllAttended
    PROVE  AllAttended'
<1> DEFINE mode == flowControl
           s == NodeState
           t == NodeState'
<1>0. /\ mode \in FcTypes /\ s \in PlacedStates(mode) /\ s \in NodeStates(mode) /\ s.voq = voq
      /\ flowControl' = flowControl
  BY NodeStateFields, FlowControlStays DEF TypeInv, PlacedStates
<1>a. ASSUME \A q \in Ports : Attended(mode, t, offered', q) PROVE AllAttended'
  BY <1>0, <1>a DEF AllAttended
<1>b. \A q \in Ports : Attended(mode, s, offered, q)
  BY DEF AllAttended
<1>1. ASSUME RunScheduledNow PROVE AllAttended'
  <2>1. PICK p \in Ports : RunShape(mode, s, t, p)
    BY <1>0, <1>1, RunDoes
  <2>2. offered' = offered
    BY <1>1 DEF RunScheduledNow
  <2> HIDE DEF t
  <2> QED
    BY <1>0, <1>a, <1>b, <2>1, <2>2, AttendedRun
<1>2. ASSUME NEW f \in FlowIds, TpOffer(f) PROVE AllAttended'
  <2> DEFINE p == Flows[f].src
  <2>1. p \in Ports /\ Pumped(s, t, p) /\ Kicked(t, p)
    BY <1>0, <1>2, FlowsTyped, TpOfferDoes
  <2>2. offered' = [offered EXCEPT ![f] = @ + left[f]]
    BY <1>2 DEF TpOffer
  <2>3. ASSUME NEW q \in Ports PROVE Attended(mode, t, offered', q)
    <3>1. CASE q = p
      BY <2>1, <3>1, KickedAttends DEF Attended
    <3>2. CASE q # p
      <4>1. Fate(s, t, q)
        BY <2>1, PumpedFate
      <4>2. \A g \in FlowIds : Flows[g].src = q => offered'[g] = offered[g]
        BY <2>2, <3>2
      <4> DEFINE u == offered'
      <4>3. \A g \in FlowIds : Flows[g].via = "TP" /\ Flows[g].src = q => u[g] = offered[g]
        BY <4>2
      <4> HIDE DEF t, u
      <4> QED
        BY <1>b, <4>1, <4>3, AttendedKept DEF u
    <3> QED
      BY <3>1, <3>2
  <2> QED
    BY <1>a, <2>3
<1>3. ASSUME NEW f \in FlowIds, LdstSend(f) PROVE AllAttended'
  <2>1. offered' = offered
    BY <1>3 DEF LdstSend
  <2> QED
    BY <1>0, <1>3, <2>1, LdstSendDoes, LdstFate, FateSuffices
<1>4. ASSUME NEW p \in Ports, TransmitComplete(p) PROVE AllAttended'
  <2>1. offered' = offered
    BY <1>4 DEF TransmitComplete
  <2> QED
    BY <1>0, <1>4, <2>1, TransmitCompleteDoes, CompleteFate, FateSuffices
<1>5. ASSUME NEW p \in Ports, AllocateNothing(p) PROVE AllAttended'
  <2>1. offered' = offered /\ Sendable(p) = {}
    BY <1>5 DEF AllocateNothing
  <2>2. RoundEnd(s, t, p)
    BY <1>0, <1>5, AllocateNothingDoes
  <2>3. NothingReady(mode, s, offered, p)
    BY <2>1, ReadyIs
  <2> HIDE DEF t
  <2> QED
    BY <1>0, <1>a, <1>b, <2>1, <2>2, <2>3, AttendedNothing
<1>6. ASSUME NEW p \in Ports, AllocateNextPacket(p) PROVE AllAttended'
  <2>1. CASE \E f \in FlowIds : TpServed(p, f)
    <3>1. PICK f \in FlowIds : TpServed(p, f)
      BY <2>1
    <3> DEFINE u == offered'
    <3>2. Flows[f].src = p /\ ServeTpShape(mode, s, t, p, f) /\ u = [offered EXCEPT ![f] = @ - 1]
      BY <3>1 DEF TpServed
    <3>3. \A g \in FlowIds \ {f} : u[g] = offered[g]
      BY <3>2
    <3>4. \A q \in Ports : Attended(mode, t, u, q)
      <4> SUFFICES ASSUME NEW q \in Ports PROVE Attended(mode, t, u, q)
        OBVIOUS
      <4> DEFINE o == offered
      <4>1. Attended(mode, s, o, q) /\ s \in NodeStates(mode)
        BY <1>0, <1>b
      <4>2. Flows[f].src = p /\ ServeTpShape(mode, s, t, p, f) /\ \A g \in FlowIds \ {f} : u[g] = o[g]
        BY <3>2, <3>3
      <4> HIDE DEF s, t, u, o, mode
      <4> QED
        BY <4>1, <4>2, AttendedTp
    <3> QED
      BY <1>a, <3>4
  <2>2. CASE \E vl \in VLs : \E in \in PortsOf(p) : VoqServed(p, vl, in)
    <3>1. PICK vl \in VLs : \E in \in PortsOf(p) : VoqServed(p, vl, in)
      BY <2>2
    <3>2. PICK in \in PortsOf(p) : VoqServed(p, vl, in)
      BY <3>1
    <3>3. /\ ServeVoqShape(mode, s, t, p, vl, in) /\ offered' = offered
          /\ s.voq[<<p, vl, in>>] # <<>> /\ <<p, vl, in>> \in VoqKeys
      BY <1>0, <3>2, KeysTyped DEF VoqServed
    <3>4. Head(s.voq[<<p, vl, in>>]) \in Packets(mode)
      BY <1>0, <3>3, HeadOfVoq
    <3> HIDE DEF t
    <3>5. \A q \in Ports : Attended(mode, t, offered, q)
      BY <1>0, <1>b, <3>3, <3>4, AttendedVoq
    <3> QED
      BY <1>a, <3>3, <3>5
  <2> QED
    BY <1>0, <1>6, <2>1, <2>2, AllocateDoes
<1>7. ASSUME NEW p \in Ports, ReceiveControlFrame(p) PROVE AllAttended'
  <2>1. offered' = offered
    BY <1>7 DEF ReceiveControlFrame
  <2> QED
    BY <1>0, <1>7, <2>1, ReceiveControlDoes, ControlFate, FateSuffices
<1>8. ASSUME NEW p \in Ports, SinkDataPacket(p) PROVE AllAttended'
  <2>1. offered' = offered
    BY <1>8 DEF SinkDataPacket
  <2> QED
    BY <1>0, <1>8, <2>1, SinkDoes, SinkFate, FateSuffices
<1>9. ASSUME NEW p \in Ports, ForwardDataPacket(p) PROVE AllAttended'
  <2> DEFINE pkt == Arriving(p)
  <2>1. OutPort(p, pkt.flow) \in Ports /\ (ForwardShape(mode, s, t, p, pkt) \/ Received(s, t, p))
    BY <1>0, <1>9, ForwardDoes
  <2>2. offered' = offered
    BY <1>9 DEF ForwardDataPacket
  <2> HIDE DEF pkt
  <2>3. \A q \in Ports : Fate(s, t, q)
    <3>1. CASE ForwardShape(mode, s, t, p, pkt)
      BY <1>0, <2>1, <3>1, ForwardFate
    <3>2. CASE Received(s, t, p)
      BY <1>0, <3>2, UnaffectedAll DEF Fate
    <3> QED
      BY <2>1, <3>1, <3>2
  <2> QED
    BY <1>0, <2>2, <2>3, FateSuffices
<1> QED
  BY <1>1, <1>2, <1>3, <1>4, <1>5, <1>6, <1>7, <1>8, <1>9 DEF Next, PortStep

LEMMA AttendedWorks ==
    ASSUME TypeInv, AllAttended
    PROVE  NoIdlePort
<1> SUFFICES ASSUME NEW p \in Ports
             PROVE  \/ port[p].busy \/ port[p].running \/ events[p] # <<>>
                    \/ port[p].egress = <<>> /\ Sendable(p) = {}
  BY DEF NoIdlePort
<1>1. \A kind : Awaited(events[p], kind) => events[p] # <<>>
  BY DEF Awaited
<1>2. Attended(flowControl, NodeState, offered, p)
  BY DEF AllAttended
<1> QED
  BY <1>1, <1>2, ReadyIs, NodeStateFields DEF Attended, Attends

\* A port that is at rest, with no event to come, holds no packet in its egress
\* queue and has no queue that the flow control lets it serve: no trigger of a
\* transmission is lost.
THEOREM FabricNoIdlePort ==
    ASSUME EveryPacketFits
    PROVE  Spec => []NoIdlePort
<1>1. Init => AllAttended
  BY AttendedInit
<1>2. TypeInv /\ AllAttended /\ [Next]_vars => AllAttended'
  <2> SUFFICES ASSUME TypeInv, AllAttended, [Next]_vars PROVE AllAttended'
    OBVIOUS
  <2>1. CASE Next
    BY <2>1, AttendedStep
  <2>2. CASE UNCHANGED vars
    <3>1. NodeState' = NodeState /\ UNCHANGED <<flowControl, offered>>
      BY <2>2 DEF vars, NodeState
    <3> QED
      BY <3>1 DEF AllAttended
  <2> QED
    BY <2>1, <2>2
<1>3. TypeInv /\ AllAttended => NoIdlePort
  BY AttendedWorks
<1> QED
  BY <1>1, <1>2, <1>3, FabricInvariant, PTL DEF Spec

-----------------------------------------------------------------------------
(* Egress queues stay short.  A port runs its allocator when its egress    *)
(* queue is empty, and a call made while a round is under way asks for one *)
(* more, so that rounds can pile up, but not far.                          *)

\* An event occurs twice.
Twice(evs, kind) == \E i, j \in DOMAIN evs : i # j /\ evs[i] = kind /\ evs[j] = kind

LEMMA TwiceMore ==
    ASSUME NEW T, NEW x \in Seq(T), NEW e \in T
    PROVE  \A kind : Twice(Append(x, e), kind) => Twice(x, kind) \/ (e = kind /\ Awaited(x, kind))
<1> SUFFICES ASSUME NEW kind, Twice(Append(x, e), kind)
             PROVE  Twice(x, kind) \/ (e = kind /\ Awaited(x, kind))
  OBVIOUS
<1> DEFINE y == Append(x, e)
<1>1. PICK i, j \in DOMAIN y : i # j /\ y[i] = kind /\ y[j] = kind
  BY DEF Twice
<1>2. \A k \in DOMAIN y : (k \in DOMAIN x /\ y[k] = x[k]) \/ (k = Len(x) + 1 /\ y[k] = e)
  OBVIOUS
<1> HIDE DEF y
<1> QED
  BY <1>1, <1>2 DEF Twice, Awaited

LEMMA TwiceLess ==
    ASSUME NEW T, NEW x \in Seq(T), x # <<>>
    PROVE  \A kind : /\ Twice(Tail(x), kind) => Twice(x, kind)
                     /\ Head(x) = kind /\ Awaited(Tail(x), kind) => Twice(x, kind)
<1> DEFINE y == Tail(x)
<1>1. Head(x) = x[1] /\ \A j \in DOMAIN y : j \in Nat /\ j # 0 /\ j + 1 \in DOMAIN x /\ y[j] = x[j + 1]
  BY HeadTailSeq
<1>2. 1 \in DOMAIN x
  OBVIOUS
<1> HIDE DEF y
<1>3. ASSUME NEW kind, Twice(y, kind) PROVE Twice(x, kind)
  <2>1. PICK i, j \in DOMAIN y : i # j /\ y[i] = kind /\ y[j] = kind
    BY <1>3 DEF Twice
  <2>2. i + 1 # j + 1
    BY <1>1, <2>1
  <2> QED
    BY <1>1, <2>1, <2>2 DEF Twice
<1>4. ASSUME NEW kind, Head(x) = kind, Awaited(y, kind) PROVE Twice(x, kind)
  <2>1. PICK i \in DOMAIN y : y[i] = kind
    BY <1>4 DEF Awaited
  <2>2. i + 1 # 1
    BY <1>1
  <2> QED
    BY <1>1, <1>2, <1>4, <2>1, <2>2 DEF Twice
<1> QED
  BY <1>3, <1>4 DEF y

\* Packets in the egress queue, and events that start a round.
Waiting(s, p) == Len(s.port[p].egress)
Starts(s, p) == Awaited(s.events[p], "TriggerAllocator")
StartsTwice(s, p) == Twice(s.events[p], "TriggerAllocator")

\* Short: of the port p, in a state s, and d says whether events are being run.
Short(d, s, p) ==
    /\ Waiting(s, p) <= 3
    /\ s.port[p].running \/ Starts(s, p) => Waiting(s, p) <= 2
    /\ (s.port[p].running /\ (s.port[p].oneMore \/ Starts(s, p))) \/ StartsTwice(s, p) => Waiting(s, p) <= 1
    /\ ~d /\ s.port[p].running /\ Starts(s, p) => Waiting(s, p) <= 0
    /\ s.port[p].oneMore => s.port[p].running

\* What is left of it within a round, once its packet was put in the queue.
OneOver(s, p) ==
    /\ Waiting(s, p) <= 3
    /\ s.port[p].oneMore \/ Starts(s, p) => Waiting(s, p) <= 2
    /\ (s.port[p].oneMore /\ Starts(s, p)) \/ StartsTwice(s, p) => Waiting(s, p) <= 1

\* No round starts or ends at p, and none is asked for with packets waiting.
Calm(s, t, p) ==
    /\ t.port[p].running = s.port[p].running /\ t.port[p].oneMore = s.port[p].oneMore
    /\ \/ /\ Waiting(t, p) <= Waiting(s, p) /\ (Starts(t, p) => Starts(s, p))
          /\ StartsTwice(t, p) => StartsTwice(s, p)
       \/ Waiting(t, p) = 0

LEMMA WaitingTyped ==
    ASSUME NEW mode, NEW s \in NodeStates(mode), NEW p \in Ports
    PROVE  Waiting(s, p) \in Nat /\ s.events[p] \in Seq(Kinds)
  BY PortFields DEF Waiting

LEMMA ShortKept ==
    ASSUME NEW d, NEW mode, NEW s \in NodeStates(mode), NEW t \in NodeStates(mode), NEW p \in Ports,
           Calm(s, t, p)
    PROVE  /\ Short(d, s, p) => Short(d, t, p)
           /\ OneOver(s, p) => OneOver(t, p)
<1>1. Waiting(s, p) \in Nat /\ Waiting(t, p) \in Nat
  BY WaitingTyped
<1>2. CASE /\ Waiting(t, p) <= Waiting(s, p) /\ (Starts(t, p) => Starts(s, p))
           /\ StartsTwice(t, p) => StartsTwice(s, p)
  BY <1>1, <1>2 DEF Calm, Short, OneOver
<1>3. CASE Waiting(t, p) = 0
  BY <1>1, <1>3 DEF Calm, Short, OneOver
<1> QED
  BY <1>2, <1>3 DEF Calm

LEMMA CalmTwice ==
    ASSUME NEW mode, NEW s \in NodeStates(mode), NEW m \in NodeStates(mode), NEW t \in NodeStates(mode),
           NEW p \in Ports, Calm(s, m, p), Calm(m, t, p)
    PROVE  Calm(s, t, p)
<1>1. Waiting(s, p) \in Nat /\ Waiting(m, p) \in Nat /\ Waiting(t, p) \in Nat
  BY WaitingTyped
<1> QED
  BY <1>1 DEF Calm

LEMMA CalmSame ==
    ASSUME NEW mode, NEW s \in NodeStates(mode), NEW t, NEW p \in Ports,
           t.port[p].running = s.port[p].running, t.port[p].oneMore = s.port[p].oneMore,
           t.port[p].egress = s.port[p].egress, t.events[p] = s.events[p]
    PROVE  Calm(s, t, p)
<1>1. Waiting(s, p) \in Nat /\ Waiting(t, p) = Waiting(s, p)
  BY WaitingTyped DEF Waiting
<1> QED
  BY <1>1 DEF Calm, Starts, StartsTwice

LEMMA CalmPumped ==
    ASSUME NEW mode, NEW s \in NodeStates(mode), NEW t, NEW r \in Ports, Pumped(s, t, r), NEW p \in Ports
    PROVE  Calm(s, t, p)
<1>1. CASE p # r
  BY <1>1, CalmSame DEF Pumped, PortOnly
<1>2. CASE p = r /\ t.events[p] = s.events[p]
  BY <1>2 DEF Pumped, Calm, Waiting, Starts, StartsTwice
<1>3. CASE p = r /\ t.port[p].egress = <<>>
  BY <1>3 DEF Pumped, Calm, Waiting
<1> QED
  BY <1>1, <1>2, <1>3 DEF Pumped

LEMMA CalmMore ==
    ASSUME NEW mode, NEW s \in NodeStates(mode), NEW t, NEW r \in Ports,
           EventMore(s, t, r, "TriggerTransmit"), NEW p \in Ports
    PROVE  Calm(s, t, p)
<1>1. CASE p # r
  BY <1>1, CalmSame DEF EventMore
<1>2. CASE p = r
  <2>1. Waiting(t, p) = Waiting(s, p) /\ Waiting(s, p) \in Nat
    BY WaitingTyped DEF EventMore, Waiting
  <2>2. t.events[p] = Append(s.events[p], "TriggerTransmit") /\ s.events[p] \in Seq(Kinds) /\ "TriggerTransmit" \in Kinds
    BY <1>2, WaitingTyped DEF EventMore, Kinds
  <2>3. (Starts(t, p) => Starts(s, p)) /\ (StartsTwice(t, p) => StartsTwice(s, p))
    BY <2>2, AwaitedMore, TwiceMore DEF Starts, StartsTwice
  <2> QED
    BY <2>1, <2>3 DEF Calm, EventMore
<1> QED
  BY <1>1, <1>2

LEMMA CalmTells ==
    ASSUME NEW mode, NEW s \in NodeStates(mode), NEW t, NEW r, NEW frame, Tells(s, t, r, frame), NEW p \in Ports
    PROVE  Calm(s, t, p)
  BY CalmSame DEF Tells

LEMMA CalmChecked ==
    ASSUME NEW s \in NodeStates("PFC"), NEW t, NEW r \in Ports, PfcChecked(s, t, r), NEW p \in Ports
    PROVE  Calm(s, t, p) /\ t \in NodeStates("PFC")
<1> DEFINE I == {x \in NodeStates("PFC") : Calm(s, x, p)}
<1>1. ASSUME NEW a \in I, NEW b \in NodeStates("PFC"), PfcTells(a, b, r) \/ Pumped(a, b, r) PROVE b \in I
  <2>1. Calm(a, b, p)
    BY <1>1, CalmTells, CalmPumped DEF PfcTells
  <2> QED
    BY <2>1, CalmTwice
<1>2. s \in I
  BY CalmSame
<1>3. PfcClosed("PFC", I, r)
  BY <1>1 DEF PfcClosed
<1>4. t \in I
  <2> HIDE DEF I
  <2> QED
    BY <1>2, <1>3 DEF PfcChecked
<1> QED
  BY <1>4

LEMMA CalmReturned ==
    ASSUME NEW mode, NEW s \in NodeStates(mode), NEW t \in NodeStates(mode), NEW r \in Ports, NEW vl, NEW bytes,
           CreditsReturned(mode, s, t, r, vl, bytes), NEW p \in Ports
    PROVE  Calm(s, t, p)
<1>1. PICK m \in NodeStates(mode) : CreditTells(s, m, r, vl, bytes) /\ (t = m \/ Pumped(m, t, r))
  BY DEF CreditsReturned
<1>2. Calm(s, m, p)
  BY <1>1, CalmTells DEF CreditTells
<1>3. t = m \/ Calm(m, t, p)
  BY <1>1, CalmPumped
<1> QED
  BY <1>2, <1>3, CalmTwice

LEMMA CalmFreed ==
    ASSUME NEW mode, NEW s \in NodeStates(mode), NEW t \in NodeStates(mode), NEW pkt, NEW in \in Ports, NEW out \in Ports,
           Freed(mode, s, t, pkt, in, out), NEW p \in Ports
    PROVE  Calm(s, t, p)
<1>1. CASE t = s
  BY <1>1, CalmSame
<1>2. CASE CreditsReturned(mode, s, t, in, Flows[pkt.flow].vl, Bytes(pkt))
  BY <1>2, CalmReturned
<1>3. CASE mode = "PFC" /\ PfcChecked(s, t, in)
  BY <1>3, CalmChecked
<1> QED
  BY <1>1, <1>2, <1>3 DEF Freed

LEMMA CalmReceived ==
    ASSUME NEW mode, NEW s \in NodeStates(mode), NEW t, NEW r \in Ports, Received(s, t, r), NEW p \in Ports
    PROVE  Calm(s, t, p)
<1>1. s.port[Peer[r]] \in PortStates(mode)
  BY PortFields, PortsTyped
<1>2. /\ t.port[p].running = s.port[p].running /\ t.port[p].oneMore = s.port[p].oneMore
      /\ t.port[p].egress = s.port[p].egress /\ t.events[p] = s.events[p]
  BY <1>1 DEF Received, PortSet, PortStates
<1> QED
  BY <1>2, CalmSame

LEMMA CalmForwarded ==
    ASSUME NEW mode, NEW s \in NodeStates(mode), NEW t \in NodeStates(mode), NEW pkt, NEW in \in Ports,
           NEW out \in Ports, NEW vl, Forwarded(mode, s, t, pkt, in, out, vl), NEW p \in Ports
    PROVE  Calm(s, t, p)
<1>1. PICK a, b \in NodeStates(mode) :
        /\ Pushed(s, a, pkt, in, out, vl)
        /\ IF mode = "PFC" THEN PfcChecked(a, b, in) ELSE b = a
        /\ Pumped(b, t, out)
  BY DEF Forwarded
<1>2. Calm(s, a, p)
  BY <1>1, CalmSame DEF Pushed
<1>3. b = a \/ Calm(a, b, p)
  BY <1>1, CalmChecked
<1>4. Calm(b, t, p)
  BY <1>1, CalmPumped
<1> QED
  BY <1>2, <1>3, <1>4, CalmTwice

\* A packet is put into the egress queue of p in a round of p.
LEMMA OneOverServed ==
    ASSUME NEW mode, NEW s \in NodeStates(mode), NEW t \in NodeStates(mode), NEW p \in Ports, NEW q, NEW pkt,
           Enqueued(mode, s, t, p, q, pkt), Short(FALSE, s, p), s.port[p].running
    PROVE  OneOver(t, p)
<1>1. s.port[p].egress \in Seq(Packets(mode)) /\ Waiting(s, p) \in Nat
  BY PortFields, WaitingTyped
<1>2. Waiting(t, p) \in Nat /\ Waiting(t, p) <= Waiting(s, p) + 1
  BY <1>1, WaitingTyped DEF Enqueued, Waiting
<1>3. t.port[p].oneMore = s.port[p].oneMore /\ t.events = s.events
  BY DEF Enqueued
<1>4. StartsTwice(s, p) => Starts(s, p)
  BY DEF StartsTwice, Starts, Twice, Awaited
<1> QED
  BY <1>1, <1>2, <1>3, <1>4 DEF Short, OneOver, Starts, StartsTwice

LEMMA OneOverNothing ==
    ASSUME NEW mode, NEW s \in NodeStates(mode), NEW p \in Ports, Short(FALSE, s, p), s.port[p].running
    PROVE  OneOver(s, p)
<1>1. Waiting(s, p) \in Nat
  BY WaitingTyped
<1>2. StartsTwice(s, p) => Starts(s, p)
  BY DEF StartsTwice, Starts, Twice, Awaited
<1> QED
  BY <1>1, <1>2 DEF Short, OneOver

\* The end of the round.
LEMMA ShortRoundEnd ==
    ASSUME NEW mode, NEW s \in NodeStates(mode), NEW t, NEW p \in Ports, RoundEnd(s, t, p), OneOver(s, p), NEW d
    PROVE  Short(d, t, p)
<1> DEFINE k == "TriggerAllocator"
           x == s.events[p]
           y == Append(x, "NotifyAllocationFinish")
           z == Append(y, k)
<1>1. x \in Seq(Kinds) /\ "NotifyAllocationFinish" \in Kinds /\ k \in Kinds /\ k # "NotifyAllocationFinish"
  BY WaitingTyped DEF Kinds
<1>2. y \in Seq(Kinds) /\ (Awaited(y, k) => Awaited(x, k)) /\ (Twice(y, k) => Twice(x, k))
  BY <1>1, AwaitedMore, TwiceMore, AppendSeq
<1>3. Twice(z, k) => Twice(y, k) \/ Awaited(y, k)
  <2> HIDE DEF y
  <2> QED
    BY <1>1, <1>2, TwiceMore
<1>4. t.events[p] = IF s.port[p].oneMore THEN z ELSE y
  BY DEF RoundEnd
<1>5. (Starts(t, p) => Starts(s, p) \/ s.port[p].oneMore)
      /\ (StartsTwice(t, p) => StartsTwice(s, p) \/ (Starts(s, p) /\ s.port[p].oneMore))
  <2>1. Twice(x, k) => Awaited(x, k)
    BY DEF Twice, Awaited
  <2> HIDE DEF x, y, z
  <2> QED
    BY <1>2, <1>3, <1>4, <2>1 DEF Starts, StartsTwice, x
<1>6. Waiting(t, p) = Waiting(s, p) /\ Waiting(s, p) \in Nat /\ ~t.port[p].running /\ ~t.port[p].oneMore
  BY WaitingTyped DEF RoundEnd, Waiting
<1> QED
  BY <1>5, <1>6 DEF Short, OneOver

LEMMA CalmBeyond ==
    ASSUME NEW mode, NEW s \in NodeStates(mode), NEW t, NEW p \in Ports, NEW q \in Ports, q # p,
           RoundEnd(s, t, p) \/ \E x, pkt : Enqueued(mode, s, t, p, x, pkt)
    PROVE  Calm(s, t, q)
<1>1. CASE RoundEnd(s, t, p)
  BY <1>1, CalmSame DEF RoundEnd, PortOnly
<1>2. CASE \E x, pkt : Enqueued(mode, s, t, p, x, pkt)
  BY <1>2, CalmSame DEF Enqueued
<1> QED
  BY <1>1, <1>2

LEMMA ShortTp ==
    ASSUME NEW mode, NEW s \in NodeStates(mode), NEW t \in NodeStates(mode), NEW p \in Ports, NEW f,
           ServeTpShape(mode, s, t, p, f), s.port[p].running, NEW q \in Ports,
           Short(FALSE, s, p), Short(FALSE, s, q)
    PROVE  Short(FALSE, t, q)
<1>1. PICK a \in NodeStates(mode) : Enqueued(mode, s, a, p, Tp(f), Data(f)) /\ RoundEnd(a, t, p)
  BY DEF ServeTpShape
<1>2. CASE q = p
  BY <1>1, <1>2, OneOverServed, ShortRoundEnd
<1>3. CASE q # p
  <2>1. Calm(s, a, q) /\ Calm(a, t, q)
    BY <1>1, <1>3, CalmBeyond
  <2> QED
    BY <2>1, ShortKept
<1> QED
  BY <1>2, <1>3

LEMMA ShortVoq ==
    ASSUME NEW mode, NEW s \in NodeStates(mode), NEW t \in NodeStates(mode), NEW p \in Ports, NEW vl \in VLs,
           NEW in \in PortsOf(p), ServeVoqShape(mode, s, t, p, vl, in), s.port[p].running, NEW r \in Ports,
           Short(FALSE, s, p), Short(FALSE, s, r)
    PROVE  Short(FALSE, t, r)
<1> DEFINE q == Voq(p, vl, in)
           k == <<p, vl, in>>
           pkt == Head(s.voq[k])
           v == Tail(s.voq[k])
<1>1. PICK a, b, c, d \in NodeStates(mode) :
            /\ VoqSet(s, a, k, v) /\ Enqueued(mode, a, b, p, q, pkt) /\ Freed(mode, b, c, pkt, in, p)
            /\ IF IsGeneratedDataPacket(q) THEN d = c ELSE Shrunk(c, d, in, p, vl, Bytes(pkt))
            /\ RoundEnd(d, t, p)
  BY DEF ServeVoqShape
<1>2. in \in Ports
  BY KeysTyped
<1> HIDE DEF q, k, pkt, v
<1>3. \A x \in Ports : Calm(s, a, x)
  BY <1>1, CalmSame DEF VoqSet
<1>4. \A x \in Ports : Calm(b, c, x)
  BY <1>1, <1>2, CalmFreed
<1>5. d = c \/ \A x \in Ports : Calm(c, d, x)
  BY <1>1, CalmSame DEF Shrunk
<1>6. a.port[p].running
  BY <1>1 DEF VoqSet
<1>7. CASE r = p
  <2>1. Short(FALSE, a, p)
    BY <1>3, ShortKept
  <2>2. OneOver(b, p)
    BY <1>1, <1>6, <2>1, OneOverServed
  <2>3. OneOver(c, p)
    BY <1>4, <2>2, ShortKept
  <2>4. OneOver(d, p)
    BY <1>5, <2>3, ShortKept
  <2> QED
    BY <1>1, <1>7, <2>4, ShortRoundEnd
<1>8. CASE r # p
  <2>1. Calm(a, b, r) /\ Calm(d, t, r)
    BY <1>1, <1>8, CalmBeyond
  <2>2. Calm(s, b, r)
    BY <1>3, <2>1, CalmTwice
  <2>3. Calm(s, c, r)
    BY <1>4, <2>2, CalmTwice
  <2>4. Calm(s, d, r)
    BY <1>5, <2>3, CalmTwice
  <2>5. Calm(s, t, r)
    BY <2>1, <2>4, CalmTwice
  <2> QED
    BY <2>5, ShortKept
<1> QED
  BY <1>7, <1>8

LEMMA ShortNothing ==
    ASSUME NEW mode, NEW s \in NodeStates(mode), NEW t \in NodeStates(mode), NEW p \in Ports,
           RoundEnd(s, t, p), s.port[p].running, NEW q \in Ports, Short(FALSE, s, p), Short(FALSE, s, q)
    PROVE  Short(FALSE, t, q)
<1>1. CASE q = p
  BY <1>1, OneOverNothing, ShortRoundEnd
<1>2. CASE q # p
  <2>1. Calm(s, t, q)
    BY <1>2, CalmBeyond
  <2> QED
    BY <2>1, ShortKept
<1> QED
  BY <1>1, <1>2

\* An event that was run.
LEMMA ShortRun ==
    ASSUME NEW mode, NEW s \in NodeStates(mode), NEW t \in NodeStates(mode), NEW p \in Ports,
           RunShape(mode, s, t, p), NEW q \in Ports, Short(TRUE, s, q)
    PROVE  Short(TRUE, t, q)
<1> DEFINE k == "TriggerAllocator"
<1>1. PICK m \in NodeStates(mode) : \E kind \in Kinds : EventTaken(s, m, p, kind) /\ Ran(m, t, p, kind)
  BY DEF RunShape
<1>2. PICK kind \in Kinds : EventTaken(s, m, p, kind) /\ Ran(m, t, p, kind)
  BY <1>1
<1>3. Waiting(s, q) \in Nat /\ Waiting(m, q) = Waiting(s, q) /\ m.port = s.port
  BY <1>2, WaitingTyped DEF EventTaken, Waiting
<1>4. CASE q # p
  <2>1. Calm(s, m, q)
    BY <1>2, <1>4, CalmSame DEF EventTaken
  <2>2. CASE kind = "TriggerTransmit" \/ kind = "NotifyAllocationFinish"
    <3>1. t = m \/ Pumped(m, t, p)
      BY <1>2, <2>2 DEF Ran, Notified
    <3>2. t = m \/ Calm(m, t, q)
      BY <3>1, CalmPumped
    <3> QED
      BY <2>1, <3>2, CalmTwice, ShortKept
  <2>3. CASE kind = k
    <3>1. t.port[q] = m.port[q] /\ t.events[q] = m.events[q]
      BY <1>2, <1>4, <2>3 DEF Ran, AllocatorTriggered, PortSet
    <3>2. Calm(m, t, q)
      BY <3>1, CalmSame
    <3> QED
      BY <2>1, <3>2, CalmTwice, ShortKept
  <2> QED
    BY <2>2, <2>3 DEF Kinds
<1>5. CASE q = p
  <2>1. s.events[p] \in Seq(Kinds) /\ s.events[p] # <<>> /\ kind = Head(s.events[p]) /\ m.events[p] = Tail(s.events[p])
    BY <1>2, WaitingTyped DEF EventTaken
  <2>2. /\ Starts(m, p) => Starts(s, p)
        /\ StartsTwice(m, p) => StartsTwice(s, p)
        /\ kind = k /\ Starts(m, p) => StartsTwice(s, p)
    BY <2>1, AwaitedLess, TwiceLess DEF Starts, StartsTwice
  <2>3. kind = k => Starts(s, p)
    <3>1. 1 \in DOMAIN s.events[p] /\ Head(s.events[p]) = s.events[p][1]
      BY <2>1
    <3> QED
      BY <2>1, <3>1 DEF Starts, Awaited
  <2>4. CASE kind = "TriggerTransmit" \/ kind = "NotifyAllocationFinish"
    <3>1. t = m \/ Pumped(m, t, p)
      BY <1>2, <2>4 DEF Ran, Notified
    <3>2. t = m \/ Calm(m, t, p)
      BY <3>1, CalmPumped
    <3>3. Calm(s, m, p)
      BY <1>3, <1>5, <2>2 DEF Calm
    <3> QED
      BY <1>5, <3>2, <3>3, CalmTwice, ShortKept
  <2>5. CASE kind = k
    <3>1. /\ t.port[p].running /\ t.port[p].oneMore = (s.port[p].oneMore \/ s.port[p].running)
          /\ Waiting(t, p) = Waiting(s, p) /\ t.events = m.events
      BY <1>2, <1>3, <1>5, <2>5 DEF Ran, AllocatorTriggered, PortSet, Waiting
    <3>2. Starts(t, p) = Starts(m, p) /\ StartsTwice(t, p) = StartsTwice(m, p)
      BY <3>1 DEF Starts, StartsTwice
    <3> QED
      BY <1>3, <1>5, <2>2, <2>3, <2>5, <3>1, <3>2 DEF Short
  <2> QED
    BY <2>4, <2>5 DEF Kinds
<1> QED
  BY <1>4, <1>5

-----------------------------------------------------------------------------
(* Three packets of any kind have room in an egress queue.                 *)

LEMMA ThirdOf ==
    ASSUME RoomForThree, NEW mode, NEW pkt \in Packets(mode)
    PROVE  Bytes(pkt) \in Nat /\ 3 * Bytes(pkt) <= MaxEgressBytes
  BY PacketKinds DEF RoomForThree, FitInEgress, Bytes

LEMMA HasRoom ==
    ASSUME RoomForThree, NEW mode, NEW s \in NodeStates(mode), NEW p \in Ports, Waiting(s, p) <= 2,
           NEW pkt \in Packets(mode)
    PROVE  EgressHasRoom(s.port[p], pkt)
<1> DEFINE x == s.port[p].egress
           y == Tail(x)
           M == MaxEgressBytes
<1>1. x \in Seq(Packets(mode)) /\ Len(x) <= 2 /\ Len(x) \in Nat
  BY PortFields DEF Waiting
<1>2. Bytes(pkt) \in Nat /\ 3 * Bytes(pkt) <= M /\ M \in Nat
  BY ThirdOf, FabricAssumption
<1>3. AllBytes(<<>>) = 0
  BY <1>1, AllBytesChange
<1>4. ASSUME x # <<>>
      PROVE  /\ y \in Seq(Packets(mode)) /\ Len(y) <= 1
             /\ AllBytes(x) = AllBytes(y) + Bytes(Head(x)) /\ Bytes(Head(x)) \in Nat /\ 3 * Bytes(Head(x)) <= M
  <2>1. y \in Seq(Packets(mode)) /\ Head(x) \in Packets(mode)
    BY <1>1, <1>4, HeadTailSeq
  <2>2. Len(y) <= 1
    BY <1>1, <1>4
  <2>3. AllBytes(y) = AllBytes(x) - Bytes(Head(x)) /\ AllBytes(x) \in Nat
    BY <1>1, <1>4, AllBytesChange, AllBytesSum
  <2>4. Bytes(Head(x)) \in Nat /\ 3 * Bytes(Head(x)) <= M
    BY <2>1, ThirdOf
  <2> QED
    BY <2>1, <2>2, <2>3, <2>4
<1>5. ASSUME y \in Seq(Packets(mode)), Len(y) <= 1
      PROVE  AllBytes(y) \in Nat /\ 3 * AllBytes(y) <= M
  <2> HIDE DEF y
  <2>1. CASE y = <<>>
    <3>1. AllBytes(y) = 0
      BY <1>3, <2>1, Zenon
    <3> QED
      BY <1>2, <3>1
  <2>2. CASE y # <<>>
    <3>1. Tail(y) = <<>> /\ Head(y) \in Packets(mode)
      BY <1>5, <2>2, HeadTailSeq
    <3>2. AllBytes(Tail(y)) = AllBytes(y) - Bytes(Head(y)) /\ AllBytes(y) \in Nat
      BY <1>5, <2>2, AllBytesChange, AllBytesSum
    <3>3. Bytes(Head(y)) \in Nat /\ 3 * Bytes(Head(y)) <= M
      BY <3>1, ThirdOf
    <3>4. AllBytes(Tail(y)) = 0
      BY <1>3, <3>1, Zenon
    <3>5. AllBytes(y) = Bytes(Head(y))
      BY <3>2, <3>3, <3>4
    <3> QED
      BY <3>3, <3>5, Zenon
  <2> QED
    BY <2>1, <2>2
<1>6. AllBytes(x) + Bytes(pkt) <= M
  <2>1. CASE x = <<>>
    BY <1>2, <1>3, <2>1
  <2>2. CASE x # <<>>
    <3> HIDE DEF x, y, M
    <3> QED
      BY <1>2, <1>4, <1>5, <2>2
  <2> QED
    BY <2>1, <2>2
<1> QED
  BY <1>6 DEF EgressHasRoom, EgressBytes

AllShort == \A p \in Ports : Short(draining, NodeState, p)

LEMMA ShortInit ==
    ASSUME Init
    PROVE  AllShort
<1> SUFFICES ASSUME NEW p \in Ports PROVE Short(draining, NodeState, p)
  BY DEF AllShort
<1>1. /\ NodeState.port[p].egress = <<>> /\ ~NodeState.port[p].running /\ ~NodeState.port[p].oneMore
      /\ NodeState.events[p] = <<>>
  BY NodeStateFields DEF Init
<1> QED
  BY <1>1 DEF Short, Waiting, Starts, StartsTwice, Awaited, Twice

\* No event of ScheduleNow is being run in the other steps, nor after them.
LEMMA TimedSteps ==
    /\ \A f : TpOffer(f) \/ LdstSend(f) => ~draining /\ draining' = draining
    /\ \A p : PortStep(p) => ~draining /\ draining' = draining
<1>1. \A q, x : Timed(q, x) => ~draining /\ draining' = draining
  BY DEF Timed
<1>2. \A f : TpOffer(f) \/ LdstSend(f) => ~draining /\ draining' = draining
  BY <1>1 DEF TpOffer, LdstSend
<1>3. ASSUME NEW p PROVE TransmitComplete(p) \/ AllocateNothing(p) => ~draining /\ draining' = draining
  BY <1>1 DEF TransmitComplete, AllocateNothing
<1>4. ASSUME NEW p PROVE AllocateNextPacket(p) => ~draining /\ draining' = draining
  <2>1. \A q : AllocateFromTp(p, q) => ~draining /\ draining' = draining
    BY <1>1 DEF AllocateFromTp
  <2>2. \A q : AllocateFromVoq(p, q) => ~draining /\ draining' = draining
    BY <1>1 DEF AllocateFromVoq
  <2> QED
    BY <2>1, <2>2 DEF AllocateNextPacket
<1>5. ASSUME NEW p
      PROVE  ReceiveControlFrame(p) \/ SinkDataPacket(p) \/ ForwardDataPacket(p) => ~draining /\ draining' = draining
  BY <1>1 DEF ReceiveControlFrame, SinkDataPacket, ForwardDataPacket
<1> QED
  BY <1>2, <1>3, <1>4, <1>5 DEF PortStep

LEMMA CalmSuffices ==
    ASSUME NEW mode, NodeState \in NodeStates(mode), NodeState' \in NodeStates(mode), AllShort,
           draining' = draining, \A q \in Ports : Calm(NodeState, NodeState', q)
    PROVE  AllShort'
<1> DEFINE t == NodeState'
<1>1. ASSUME NEW q \in Ports PROVE Short(draining, t, q)
  <2>1. Short(draining, NodeState, q) /\ Calm(NodeState, t, q) /\ t \in NodeStates(mode)
    BY DEF AllShort
  <2> HIDE DEF t
  <2> QED
    BY <2>1, ShortKept
<1> QED
  BY <1>1 DEF AllShort

LEMMA CalmShapes ==
    ASSUME NEW mode, NEW s \in NodeStates(mode), NEW t \in NodeStates(mode), NEW p \in Ports, NEW q \in Ports,
           \/ \E f : LdstShape(mode, s, t, f) /\ Flows[f].src = p
           \/ CompleteShape(mode, s, t, p)
           \/ \E x : ControlShape(mode, s, t, p, x)
           \/ \E pkt : SinkShape(mode, s, t, p, pkt)
           \/ \E pkt : ForwardShape(mode, s, t, p, pkt) /\ OutPort(p, pkt.flow) \in Ports
    PROVE  Calm(s, t, q)
<1>1. ASSUME NEW f, LdstShape(mode, s, t, f), Flows[f].src = p PROVE Calm(s, t, q)
  <2>1. PICK m \in NodeStates(mode) : /\ m.port = s.port /\ m.events = s.events
                                      /\ EventMore(m, t, p, "TriggerTransmit")
    BY <1>1 DEF LdstShape, VoqSet
  <2>2. Calm(s, m, q) /\ Calm(m, t, q)
    BY <2>1, CalmSame, CalmMore
  <2> QED
    BY <2>2, CalmTwice
<1>2. ASSUME CompleteShape(mode, s, t, p) PROVE Calm(s, t, q)
  <2> DEFINE pt == [s.port[p] EXCEPT !.busy = FALSE]
  <2>1. PICK m \in NodeStates(mode) : PortSet(s, m, p, pt) /\ EventMore(m, t, p, "TriggerTransmit")
    BY <1>2 DEF CompleteShape
  <2>2. s.port[p] \in PortStates(mode)
    BY PortFields
  <2>3. pt.running = s.port[p].running /\ pt.oneMore = s.port[p].oneMore /\ pt.egress = s.port[p].egress
    BY <2>2 DEF PortStates
  <2> HIDE DEF pt
  <2>4. Calm(s, m, q) /\ Calm(m, t, q)
    BY <2>1, <2>3, CalmSame, CalmMore DEF PortSet
  <2> QED
    BY <2>4, CalmTwice
<1>3. ASSUME NEW x, ControlShape(mode, s, t, p, x) PROVE Calm(s, t, q)
  <2> DEFINE y == HandleReceivedControlPacket(mode, s.fc[p], x)
  <2>1. PICK a, b \in NodeStates(mode) :
          Received(s, a, p) /\ FcSet(a, b, p, y) /\ EventMore(b, t, p, "TriggerTransmit")
    BY <1>3 DEF ControlShape
  <2> HIDE DEF y
  <2>2. Calm(s, a, q)
    BY <2>1, CalmReceived
  <2>3. Calm(a, b, q)
    BY <2>1, CalmSame DEF FcSet
  <2>4. Calm(b, t, q)
    BY <2>1, CalmMore
  <2> QED
    BY <2>2, <2>3, <2>4, CalmTwice
<1>4. ASSUME NEW pkt, SinkShape(mode, s, t, p, pkt) PROVE Calm(s, t, q)
  <2>1. PICK a \in NodeStates(mode) :
          /\ Received(s, a, p)
          /\ t = a \/ CreditsReturned(mode, a, t, p, Flows[pkt.flow].vl, Bytes(pkt))
    BY <1>4 DEF SinkShape
  <2>2. Calm(s, a, q) /\ (t = a \/ Calm(a, t, q))
    BY <2>1, CalmReceived, CalmReturned
  <2> QED
    BY <2>2, CalmTwice
<1>5. ASSUME NEW pkt, ForwardShape(mode, s, t, p, pkt), OutPort(p, pkt.flow) \in Ports PROVE Calm(s, t, q)
  <2> DEFINE out == OutPort(p, pkt.flow)
             vl == Flows[pkt.flow].vl
  <2>1. PICK a \in NodeStates(mode) : Received(s, a, p) /\ Forwarded(mode, a, t, pkt, p, out, vl)
    BY <1>5 DEF ForwardShape
  <2>2. out \in Ports
    BY <1>5
  <2> HIDE DEF out, vl
  <2>3. Calm(s, a, q) /\ Calm(a, t, q)
    BY <2>1, <2>2, CalmReceived, CalmForwarded
  <2> QED
    BY <2>3, CalmTwice
<1> QED
  BY <1>1, <1>2, <1>3, <1>4, <1>5

LEMMA ShortStep ==
    ASSUME TypeInv, Next, AllShort
    PROVE  AllShort'
<1> DEFINE mode == flowControl
           s == NodeState
           t == NodeState'
<1>0. /\ mode \in FcTypes /\ s \in PlacedStates(mode) /\ s \in NodeStates(mode) /\ s.voq = voq
      /\ draining \in BOOLEAN /\ s.port = port /\ t.events = events'
  BY NodeStateFields DEF TypeInv, PlacedStates
<1>a. \A q \in Ports : Short(draining, s, q)
  BY DEF AllShort
<1>1. ASSUME RunScheduledNow PROVE AllShort'
  <2>1. PICK p \in Ports : RunShape(mode, s, t, p)
    BY <1>0, <1>1, RunDoes
  <2>2. t \in NodeStates(mode) /\ draining' = (\E q \in Ports : t.events[q] # <<>>)
    BY <1>0, <1>1, RunDoes DEF RunScheduledNow
  <2>3. ASSUME NEW q \in Ports PROVE Short(draining', t, q)
    <3> DEFINE d == draining'
    <3>1. Short(TRUE, s, q)
      BY <1>a DEF Short
    <3>2. Short(TRUE, t, q)
      <4> HIDE DEF t
      <4> QED
        BY <1>0, <2>1, <2>2, <3>1, ShortRun
    <3>3. ~d => ~Starts(t, q)
      BY <2>2 DEF Starts, Awaited
    <3> HIDE DEF d, t
    <3>4. Short(d, t, q)
      BY <3>2, <3>3 DEF Short
    <3> QED
      BY <3>4 DEF d
  <2> QED
    BY <2>3 DEF AllShort
<1>2. ASSUME NEW f \in FlowIds, TpOffer(f) PROVE AllShort'
  <2>1. draining' = draining
    BY <1>2, TimedSteps, FlowsTyped
  <2>2. t \in NodeStates(mode) /\ Pumped(s, t, Flows[f].src) /\ Flows[f].src \in Ports
    BY <1>0, <1>2, TpOfferDoes, FlowsTyped
  <2>3. \A q \in Ports : Calm(s, t, q)
    BY <1>0, <2>2, CalmPumped
  <2> QED
    BY <1>0, <2>1, <2>2, <2>3, CalmSuffices
<1>3. ASSUME NEW f \in FlowIds, LdstSend(f) PROVE AllShort'
  <2>1. draining' = draining
    BY <1>3, TimedSteps, FlowsTyped
  <2>2. t \in NodeStates(mode) /\ LdstShape(mode, s, t, f) /\ Flows[f].src \in Ports
    BY <1>0, <1>3, LdstSendDoes, FlowsTyped
  <2>3. \A q \in Ports : Calm(s, t, q)
    BY <1>0, <2>2, CalmShapes
  <2> QED
    BY <1>0, <2>1, <2>2, <2>3, CalmSuffices
<1>4. ASSUME NEW p \in Ports, PortStep(p), \A q \in Ports : Calm(s, t, q), t \in NodeStates(mode) PROVE AllShort'
  <2>1. draining' = draining
    BY <1>4, TimedSteps
  <2> QED
    BY <1>0, <1>4, <2>1, CalmSuffices
<1>5. ASSUME NEW p \in Ports, AllocateNothing(p) \/ AllocateNextPacket(p),
             t \in NodeStates(mode), \A q \in Ports : Short(FALSE, s, p) /\ Short(FALSE, s, q) => Short(FALSE, t, q)
      PROVE  AllShort'
  <2>1. ~draining /\ ~draining'
    BY <1>0, <1>5, TimedSteps DEF PortStep
  <2>2. \A q \in Ports : Short(FALSE, s, q)
    BY <1>a, <2>1 DEF Short
  <2>3. \A q \in Ports : Short(FALSE, t, q)
    BY <1>5, <2>2
  <2> DEFINE d == draining'
  <2>4. ASSUME NEW q \in Ports PROVE Short(d, t, q)
    <3>1. Short(FALSE, t, q) /\ ~d
      BY <2>1, <2>3
    <3> HIDE DEF d, t
    <3> QED
      BY <3>1 DEF Short
  <2> QED
    BY <2>4 DEF AllShort
<1>6. ASSUME NEW p \in Ports, TransmitComplete(p) PROVE AllShort'
  <2>1. t \in NodeStates(mode) /\ CompleteShape(mode, s, t, p)
    BY <1>0, <1>6, TransmitCompleteDoes
  <2>2. \A q \in Ports : Calm(s, t, q)
    BY <1>0, <2>1, CalmShapes
  <2> QED
    BY <1>4, <1>6, <2>1, <2>2 DEF PortStep
<1>7. ASSUME NEW p \in Ports, AllocateNothing(p) PROVE AllShort'
  <2>1. t \in NodeStates(mode) /\ RoundEnd(s, t, p) /\ s.port[p].running
    BY <1>0, <1>7, AllocateNothingDoes DEF AllocateNothing
  <2>2. \A q \in Ports : Short(FALSE, s, p) /\ Short(FALSE, s, q) => Short(FALSE, t, q)
    <3> HIDE DEF t
    <3> QED
      BY <1>0, <2>1, ShortNothing
  <2> QED
    BY <1>5, <1>7, <2>1, <2>2
<1>8. ASSUME NEW p \in Ports, AllocateNextPacket(p) PROVE AllShort'
  <2>1. t \in NodeStates(mode) /\ s.port[p].running
    BY <1>0, <1>8, AllocateDoes
  <2>2. CASE \E f \in FlowIds : TpServed(p, f)
    <3>1. PICK f : ServeTpShape(mode, s, t, p, f)
      BY <2>2 DEF TpServed
    <3>2. \A q \in Ports : Short(FALSE, s, p) /\ Short(FALSE, s, q) => Short(FALSE, t, q)
      <4> HIDE DEF t
      <4> QED
        BY <1>0, <2>1, <3>1, ShortTp
    <3> QED
      BY <1>5, <1>8, <2>1, <3>2
  <2>3. CASE \E vl \in VLs : \E in \in PortsOf(p) : VoqServed(p, vl, in)
    <3>1. PICK vl \in VLs : \E in \in PortsOf(p) : ServeVoqShape(mode, s, t, p, vl, in)
      BY <2>3 DEF VoqServed
    <3>2. PICK in \in PortsOf(p) : ServeVoqShape(mode, s, t, p, vl, in)
      BY <3>1
    <3>3. \A q \in Ports : Short(FALSE, s, p) /\ Short(FALSE, s, q) => Short(FALSE, t, q)
      <4> HIDE DEF t
      <4> QED
        BY <1>0, <2>1, <3>2, ShortVoq
    <3> QED
      BY <1>5, <1>8, <2>1, <3>3
  <2> QED
    BY <1>0, <1>8, <2>2, <2>3, AllocateDoes
<1>9. ASSUME NEW p \in Ports, ReceiveControlFrame(p) PROVE AllShort'
  <2>1. t \in NodeStates(mode) /\ \E x : ControlShape(mode, s, t, p, x)
    BY <1>0, <1>9, ReceiveControlDoes
  <2>2. \A q \in Ports : Calm(s, t, q)
    BY <1>0, <2>1, CalmShapes
  <2> QED
    BY <1>4, <1>9, <2>1, <2>2 DEF PortStep
<1>10. ASSUME NEW p \in Ports, SinkDataPacket(p) PROVE AllShort'
  <2>1. t \in NodeStates(mode) /\ \E pkt : SinkShape(mode, s, t, p, pkt)
    BY <1>0, <1>10, SinkDoes
  <2>2. \A q \in Ports : Calm(s, t, q)
    BY <1>0, <2>1, CalmShapes
  <2> QED
    BY <1>4, <1>10, <2>1, <2>2 DEF PortStep
<1>11. ASSUME NEW p \in Ports, ForwardDataPacket(p) PROVE AllShort'
  <2> DEFINE pkt == Arriving(p)
  <2>1. /\ t \in NodeStates(mode) /\ OutPort(p, pkt.flow) \in Ports
        /\ ForwardShape(mode, s, t, p, pkt) \/ Received(s, t, p)
    BY <1>0, <1>11, ForwardDoes
  <2> HIDE DEF pkt
  <2>2. \A q \in Ports : Calm(s, t, q)
    BY <1>0, <2>1, CalmShapes, CalmReceived
  <2> QED
    BY <1>4, <1>11, <2>1, <2>2 DEF PortStep
<1> QED
  BY <1>1, <1>2, <1>3, <1>6, <1>7, <1>8, <1>9, <1>10, <1>11 DEF Next, PortStep

\* In a round of p the egress queue has room for the packet that is served.
LEMMA RoundHasRoom ==
    ASSUME RoomForThree, TypeInv, AllShort, NEW p \in Ports, AllocateNextPacket(p),
           NEW pkt \in Packets(flowControl)
    PROVE  EgressHasRoom(port[p], pkt)
<1>1. NodeState \in NodeStates(flowControl) /\ NodeState.port = port
  BY NodeStateFields DEF TypeInv, PlacedStates
<1>2. NodeState.port[p].running
  BY <1>1 DEF AllocateNextPacket
<1>3. Waiting(NodeState, p) <= 2
  BY <1>2 DEF AllShort, Short
<1> QED
  BY <1>1, <1>3, HasRoom

\* The length that no egress queue exceeds.
EgressShort == \A p \in Ports : Len(port[p].egress) <= 3

LEMMA AllShortInvariant == Spec => []AllShort
<1>1. Init => AllShort
  BY ShortInit
<1>2. TypeInv /\ AllShort /\ [Next]_vars => AllShort'
  <2> SUFFICES ASSUME TypeInv, AllShort, [Next]_vars PROVE AllShort'
    OBVIOUS
  <2>1. CASE Next
    BY <2>1, ShortStep
  <2>2. CASE UNCHANGED vars
    <3>1. NodeState' = NodeState /\ draining' = draining
      BY <2>2 DEF vars, NodeState
    <3> QED
      BY <3>1 DEF AllShort
  <2> QED
    BY <2>1, <2>2
<1> QED
  BY <1>1, <1>2, FabricInvariant, PTL DEF Spec

\* However the rounds of the allocator and the calls that ask for one more
\* interleave, an egress queue never holds more than three packets.
THEOREM FabricEgressShort == Spec => []EgressShort
<1>1. AllShort => EgressShort
  BY NodeStateFields DEF AllShort, EgressShort, Short, Waiting
<1> QED
  BY <1>1, AllShortInvariant, PTL

-----------------------------------------------------------------------------
(* What the newest of the control frames in a sequence of packets says, d  *)
(* if there is none.                                                       *)

FramesIn(x) == {i \in DOMAIN x : ~IsData(x[i])}
Newest(x, d) == IF FramesIn(x) = {} THEN d ELSE x[Max(FramesIn(x))].credits

\* What it says when the packet h comes after it.
After(h, d) == IF IsData(h) THEN d ELSE h.credits

LEMMA NewestIs ==
    ASSUME NEW mode, NEW x \in Seq(Packets(mode)), NEW d
    PROVE  \/ (\A i \in DOMAIN x : IsData(x[i])) /\ Newest(x, d) = d
           \/ \E j \in DOMAIN x : /\ ~IsData(x[j]) /\ Newest(x, d) = x[j].credits
                                  /\ \A i \in DOMAIN x : i > j => IsData(x[i])
<1> DEFINE F == FramesIn(x)
           m == Max(F)
<1>1. F \subseteq Nat /\ F \subseteq DOMAIN x /\ IsFiniteSet(F) /\ DOMAIN x \subseteq Nat
  <2>1. DOMAIN x = 1 .. Len(x) /\ Len(x) \in Nat
    BY LenProperties
  <2>2. IsFiniteSet(DOMAIN x)
    BY <2>1, FS_Interval
  <2>3. F \subseteq DOMAIN x
    BY DEF FramesIn
  <2> QED
    BY <2>1, <2>2, <2>3, FS_Subset
<1>2. CASE F = {}
  BY <1>2 DEF Newest, FramesIn
<1>3. CASE F # {}
  <2>1. \E n \in F : \A k \in F : k <= n
    <3> HIDE DEF F
    <3> QED
      BY <1>1, <1>3, GreatestOf
  <2>2. \E n \in F : \A k \in F : n >= k
    BY <1>1, <2>1
  <2>3. m \in F /\ \A k \in F : m >= k
    <3> HIDE DEF F
    <3> QED
      BY <2>2 DEF Max
  <2>4. Newest(x, d) = x[m].credits
    BY <1>3 DEF Newest
  <2>5. m \in DOMAIN x /\ ~IsData(x[m])
    BY <2>3 DEF FramesIn
  <2>6. ASSUME NEW i \in DOMAIN x, i > m PROVE IsData(x[i])
    <3>1. ~(i \in F)
      <4> HIDE DEF F, m
      <4> QED
        BY <1>1, <2>3, <2>5, <2>6
    <3> QED
      BY <3>1 DEF FramesIn
  <2> HIDE DEF m
  <2> QED
    BY <2>4, <2>5, <2>6
<1> QED
  BY <1>2, <1>3

LEMMA NewestUnique ==
    ASSUME NEW mode, NEW x \in Seq(Packets(mode)), NEW d
    PROVE  /\ (\A i \in DOMAIN x : IsData(x[i])) => Newest(x, d) = d
           /\ \A j \in DOMAIN x : ~IsData(x[j]) /\ (\A i \in DOMAIN x : i > j => IsData(x[i]))
                => Newest(x, d) = x[j].credits
<1>1. DOMAIN x \subseteq Nat
  BY LenProperties
<1>2. \A j, k \in DOMAIN x : j = k \/ j > k \/ k > j
  BY <1>1
<1> QED
  BY <1>2, NewestIs

LEMMA NewestConcat ==
    ASSUME NEW mode, NEW x \in Seq(Packets(mode)), NEW y \in Seq(Packets(mode)), NEW d
    PROVE  Newest(x \o y, d) = Newest(y, Newest(x, d))
<1> DEFINE z == x \o y
           n == Len(x)
<1>0. n \in Nat /\ DOMAIN x = 1 .. n /\ DOMAIN y \subseteq Nat \ {0}
  BY LenProperties
<1>1. /\ z \in Seq(Packets(mode))
      /\ \A i \in DOMAIN x : i \in DOMAIN z /\ z[i] = x[i]
      /\ \A i \in DOMAIN y : \E j \in DOMAIN z : j = i + n /\ z[j] = y[i]
      /\ \A j \in DOMAIN z : \/ j \in DOMAIN x /\ z[j] = x[j]
                             \/ \E i \in DOMAIN y : j = i + n /\ z[j] = y[i]
  <2>1. z = x \o y
    OBVIOUS
  <2> HIDE DEF z
  <2> QED
    BY <2>1, ConcatParts
<1> HIDE DEF z, n
<1>2. CASE \E j \in DOMAIN y : /\ ~IsData(y[j]) /\ Newest(y, Newest(x, d)) = y[j].credits
                               /\ \A i \in DOMAIN y : i > j => IsData(y[i])
  <2>1. PICK j \in DOMAIN y : /\ ~IsData(y[j]) /\ Newest(y, Newest(x, d)) = y[j].credits
                              /\ \A i \in DOMAIN y : i > j => IsData(y[i])
    BY <1>2
  <2>2. PICK k \in DOMAIN z : k = j + n /\ z[k] = y[j]
    BY <1>1
  <2>3. ASSUME NEW i \in DOMAIN z, i > k PROVE IsData(z[i])
    <3>1. i \notin DOMAIN x
      BY <1>0, <2>2, <2>3
    <3>2. PICK l \in DOMAIN y : i = l + n /\ z[i] = y[l]
      BY <1>1, <3>1
    <3>3. l > j
      BY <1>0, <2>2, <2>3, <3>2
    <3> QED
      BY <2>1, <3>2, <3>3
  <2>4. Newest(z, d) = z[k].credits
    BY <1>1, <2>1, <2>2, <2>3, NewestUnique
  <2> QED
    BY <2>1, <2>2, <2>4 DEF z
<1>3. CASE (\A i \in DOMAIN y : IsData(y[i])) /\ Newest(y, Newest(x, d)) = Newest(x, d)
  <2>1. CASE (\A i \in DOMAIN x : IsData(x[i])) /\ Newest(x, d) = d
    <3>1. \A i \in DOMAIN z : IsData(z[i])
      BY <1>1, <1>3, <2>1
    <3>2. Newest(z, d) = d
      BY <1>1, <3>1, NewestUnique
    <3> QED
      BY <1>3, <2>1, <3>2 DEF z
  <2>2. CASE \E j \in DOMAIN x : /\ ~IsData(x[j]) /\ Newest(x, d) = x[j].credits
                                 /\ \A i \in DOMAIN x : i > j => IsData(x[i])
    <3>1. PICK j \in DOMAIN x : /\ ~IsData(x[j]) /\ Newest(x, d) = x[j].credits
                                /\ \A i \in DOMAIN x : i > j => IsData(x[i])
      BY <2>2
    <3>2. \A i \in DOMAIN z : i > j => IsData(z[i])
      BY <1>1, <1>3, <3>1
    <3>3. j \in DOMAIN z /\ z[j] = x[j]
      BY <1>1
    <3>4. Newest(z, d) = z[j].credits
      BY <1>1, <3>1, <3>2, <3>3, NewestUnique
    <3> QED
      BY <1>3, <3>1, <3>3, <3>4 DEF z
  <2> QED
    BY <2>1, <2>2, NewestIs
<1> QED
  BY <1>2, <1>3, NewestIs

LEMMA NewestOne ==
    ASSUME NEW mode, NEW h \in Packets(mode), NEW d
    PROVE  /\ <<h>> \in Seq(Packets(mode)) /\ Newest(<<h>>, d) = After(h, d)
           /\ Newest(<<>>, d) = d
<1> DEFINE x == <<h>>
<1>1. x \in Seq(Packets(mode)) /\ DOMAIN x = {1} /\ x[1] = h
  OBVIOUS
<1> HIDE DEF x
<1>2. Newest(x, d) = After(h, d)
  <2>1. \A i \in DOMAIN x : i = 1 /\ ~(i > 1)
    BY <1>1
  <2> QED
    BY <1>1, <2>1, NewestUnique DEF After
<1>3. Newest(<<>>, d) = d
  BY DEF Newest, FramesIn
<1> QED
  BY <1>1, <1>2, <1>3 DEF x

LEMMA NewestAppend ==
    ASSUME NEW mode, NEW x \in Seq(Packets(mode)), NEW h \in Packets(mode), NEW d
    PROVE  Newest(Append(x, h), d) = After(h, Newest(x, d))
<1>1. x \o <<h>> = Append(x, h)
  BY ConcatOne
<1>2. <<h>> \in Seq(Packets(mode)) /\ Newest(<<h>>, Newest(x, d)) = After(h, Newest(x, d))
  BY NewestOne
<1> DEFINE y == <<h>>
<1>3. y \in Seq(Packets(mode)) /\ x \o y = Append(x, h) /\ Newest(y, Newest(x, d)) = After(h, Newest(x, d))
  BY <1>1, <1>2
<1> HIDE DEF y
<1>4. y \in Seq(Packets(mode))
  BY <1>3
<1>5. Newest(x \o y, d) = Newest(y, Newest(x, d))
  BY <1>4, NewestConcat
<1> QED
  BY <1>3, <1>5

LEMMA NewestTail ==
    ASSUME NEW mode, NEW x \in Seq(Packets(mode)), x # <<>>, NEW d
    PROVE  Newest(x, d) = Newest(Tail(x), After(Head(x), d)) /\ Head(x) \in Packets(mode)
<1> DEFINE h == Head(x)
           v == Tail(x)
           y == <<h>>
<1>1. h \in Packets(mode) /\ v \in Seq(Packets(mode))
  BY HeadTailSeq
<1>2. x = y \o v
  OBVIOUS
<1>3. y \in Seq(Packets(mode)) /\ Newest(y, d) = After(h, d)
  BY <1>1, NewestOne
<1> HIDE DEF h, v, y
<1>4. Newest(y \o v, d) = Newest(v, Newest(y, d))
  BY <1>1, <1>3, NewestConcat
<1> QED
  BY <1>1, <1>2, <1>3, <1>4 DEF h, v

-----------------------------------------------------------------------------
(* What the port p told its peer last, in a state of the nodes.            *)

LastTold(s, p) == s.fc[p].last = Newest(s.voq[<<p, 0, p>>], Newest(Line(s, p), s.fc[Peer[p]].open))

SameTold(s, t, p) ==
    /\ t.fc[p].last = s.fc[p].last /\ t.fc[Peer[p]].open = s.fc[Peer[p]].open
    /\ t.voq[<<p, 0, p>>] = s.voq[<<p, 0, p>>] /\ Line(t, p) = Line(s, p)

LEMMA ToldKept ==
    ASSUME NEW s, NEW t, NEW p, SameTold(s, t, p), LastTold(s, p)
    PROVE  LastTold(t, p)
  BY DEF SameTold, LastTold

LEMMA QueueOfFrames ==
    ASSUME NEW mode, NEW s \in PlacedStates(mode), NEW p \in Ports
    PROVE  /\ s \in NodeStates(mode) /\ <<p, 0, p>> \in VoqKeys /\ s.voq[<<p, 0, p>>] \in Seq(Packets(mode))
           /\ Line(s, p) \in Seq(Packets(mode)) /\ Peer[p] \in Ports
<1>1. s \in NodeStates(mode) /\ <<p, 0, p>> \in VoqKeys
  BY ControlKey DEF PlacedStates
<1>2. s.voq[<<p, 0, p>>] \in Seq(Packets(mode))
  BY <1>1, NodeFields
<1> QED
  BY <1>1, <1>2, LineTyped, PortsTyped

\* Steps that change nothing of it.
LEMMA ToldPumped ==
    ASSUME NEW s, NEW t, NEW r, Pumped(s, t, r), NEW p \in Ports
    PROVE  SameTold(s, t, p)
  BY DEF Pumped, PortOnly, SameTold, Line

LEMMA ToldStill ==
    ASSUME NEW s, NEW t, NEW r, NEW p \in Ports,
           RoundEnd(s, t, r) \/ (\E kind : EventMore(s, t, r, kind) \/ EventTaken(s, t, r, kind))
           \/ (\E in, out, vl, n : Shrunk(s, t, in, out, vl, n)) \/ AllocatorTriggered(s, t, r)
    PROVE  SameTold(s, t, p)
<1>1. CASE RoundEnd(s, t, r)
  BY <1>1 DEF RoundEnd, PortOnly, SameTold, Line
<1>2. CASE \E kind : EventMore(s, t, r, kind) \/ EventTaken(s, t, r, kind)
  BY <1>2 DEF EventMore, EventTaken, SameTold, Line
<1>3. CASE \E in, out, vl, n : Shrunk(s, t, in, out, vl, n)
  BY <1>3 DEF Shrunk, SameTold, Line
<1>4. CASE AllocatorTriggered(s, t, r)
  BY <1>4 DEF AllocatorTriggered, PortSet, SameTold, Line
<1> QED
  BY <1>1, <1>2, <1>3, <1>4

LEMMA ToldTells ==
    ASSUME NEW s \in PlacedStates("PFC"), NEW t \in NodeStates("PFC"), NEW r \in Ports, PfcTells(s, t, r),
           NEW p \in Ports, LastTold(s, p)
    PROVE  LastTold(t, p)
<1>0. /\ s.voq[<<p, 0, p>>] \in Seq(Packets("PFC")) /\ <<p, 0, p>> \in VoqKeys
      /\ Peer[p] \in Ports /\ Peer[p] # p
  BY QueueOfFrames, PortsTyped
<1>1. PICK frame : /\ Tells(s, t, r, frame)
                   /\ \/ frame = NoFrame /\ t.fc[r].last = s.fc[r].last
                      \/ /\ frame \in [VLs -> {0, CreditMax}] /\ frame # NoFrame
                         /\ t.fc[r].last = frame
  BY DEF PfcTells
<1>2. Line(t, p) = Line(s, p) /\ t.fc[Peer[p]].open = s.fc[Peer[p]].open
  BY <1>0, <1>1 DEF Tells, Line, SameCredits
<1>3. CASE p # r
  <2>1. <<p, 0, p>>[1] # r /\ <<r, 0, r>>[1] = r
    BY <1>3
  <2>2. t.voq[<<p, 0, p>>] = s.voq[<<p, 0, p>>]
    BY <1>0, <1>1, <2>1 DEF Tells
  <2> QED
    BY <1>1, <1>2, <1>3, <2>2 DEF LastTold, Tells
<1>4. CASE p = r /\ frame = NoFrame
  BY <1>1, <1>2, <1>4 DEF LastTold, Tells
<1>5. CASE p = r /\ frame # NoFrame
  <2> DEFINE v == s.voq[<<p, 0, p>>]
             d == Newest(Line(s, p), s.fc[Peer[p]].open)
             h == Control(frame)
  <2>1. h \in Packets("PFC") /\ ~IsData(h) /\ h.credits = frame
    BY <1>1, <1>5, ControlPacket DEF Frames, Control
  <2>2. t.voq[<<p, 0, p>>] = Append(v, h)
    BY <1>1, <1>5 DEF Tells
  <2>3. v \in Seq(Packets("PFC"))
    BY <1>0
  <2>4. Newest(Append(v, h), d) = frame
    <3> HIDE DEF v, d, h
    <3> QED
      BY <2>1, <2>3, NewestAppend DEF After
  <2> QED
    BY <1>1, <1>2, <1>5, <2>2, <2>4 DEF LastTold
<1> QED
  BY <1>3, <1>4, <1>5

LEMMA ToldChecked ==
    ASSUME NEW s \in PlacedStates("PFC"), NEW t, NEW r \in Ports, PfcChecked(s, t, r), NEW p \in Ports, LastTold(s, p)
    PROVE  t \in PlacedStates("PFC") /\ LastTold(t, p)
<1> DEFINE I == {x \in PlacedStates("PFC") : LastTold(x, p)}
<1>1. \A a \in I : \A b \in NodeStates("PFC") : PfcTells(a, b, r) \/ Pumped(a, b, r) => b \in PlacedStates("PFC")
  BY PlacedClosed DEF PfcClosed
<1>2. ASSUME NEW a \in I, NEW b \in NodeStates("PFC"), PfcTells(a, b, r) PROVE b \in I
  BY <1>1, <1>2, ToldTells
<1>3. ASSUME NEW a \in I, NEW b \in NodeStates("PFC"), Pumped(a, b, r) PROVE b \in I
  BY <1>1, <1>3, ToldPumped, ToldKept
<1>4. PfcClosed("PFC", I, r) /\ s \in I
  BY <1>2, <1>3 DEF PfcClosed, PlacedStates
<1>5. t \in I
  <2> HIDE DEF I
  <2> QED
    BY <1>4 DEF PfcChecked
<1> QED
  BY <1>5

LEMMA ToldFreed ==
    ASSUME NEW s \in PlacedStates("PFC"), NEW t \in NodeStates("PFC"), NEW pkt, NEW in \in Ports, NEW out \in Ports,
           Freed("PFC", s, t, pkt, in, out), NEW p \in Ports, LastTold(s, p)
    PROVE  LastTold(t, p)
  BY ToldChecked DEF Freed, CreditTypes

\* The packet h leaves the head of the line of the peer of p.
LEMMA ToldReceived ==
    ASSUME NEW mode, NEW s \in PlacedStates(mode), NEW a \in NodeStates(mode), NEW r \in Ports, Received(s, a, r),
           NEW h, h = Head(s.port[Peer[r]].wire), NEW t,
           t.voq = a.voq, t.port = a.port, \A q \in Ports : t.fc[q].last = a.fc[q].last,
           \A q \in Ports \ {r} : t.fc[q].open = a.fc[q].open, t.fc[r].open = After(h, a.fc[r].open),
           NEW p \in Ports, LastTold(s, p)
    PROVE  LastTold(t, p)
<1>1. /\ Line(s, Peer[r]) # <<>> /\ Head(Line(s, Peer[r])) = h /\ Line(a, Peer[r]) = Tail(Line(s, Peer[r]))
      /\ \A q \in Ports \ {Peer[r]} : a.port[q] = s.port[q]
      /\ a.fc = s.fc /\ a.voq = s.voq
  BY PlacedReceived
<1>2. Peer[r] \in Ports /\ Peer[Peer[r]] = r /\ Peer[p] \in Ports /\ Peer[Peer[p]] = p
  BY PortsTyped
<1>3. t.voq[<<p, 0, p>>] = s.voq[<<p, 0, p>>] /\ t.fc[p].last = s.fc[p].last
  BY <1>1
<1>4. CASE p # Peer[r]
  <2>1. Peer[p] # r
    BY <1>2, <1>4
  <2>2. Line(t, p) = Line(s, p)
    BY <1>1, <1>4 DEF Line
  <2>3. t.fc[Peer[p]].open = s.fc[Peer[p]].open
    BY <1>1, <1>2, <2>1
  <2> QED
    BY <1>3, <2>2, <2>3 DEF LastTold
<1>5. CASE p = Peer[r]
  <2> DEFINE x == Line(s, p)
             d == s.fc[r].open
  <2>1. x \in Seq(Packets(mode)) /\ x # <<>> /\ Head(x) = h /\ Peer[p] = r
    BY <1>1, <1>2, <1>5, LineTyped
  <2>2. Line(t, p) = Tail(x) /\ t.fc[r].open = After(h, d)
    BY <1>1, <1>5 DEF Line
  <2>3. Newest(x, d) = Newest(Tail(x), After(h, d))
    <3> HIDE DEF x, d
    <3> QED
      BY <2>1, NewestTail
  <2> QED
    BY <1>3, <2>1, <2>2, <2>3 DEF LastTold
<1> QED
  BY <1>4, <1>5

\* A data packet is added to the line of r, or the oldest packet of the VOQ of
\* the frames moves there.
LEMMA ToldEnqueued ==
    ASSUME NEW mode, NEW s \in PlacedStates(mode), NEW t, NEW r \in Ports, NEW h \in Packets(mode),
           \A q \in Ports : t.fc[q].last = s.fc[q].last /\ t.fc[q].open = s.fc[q].open,
           Line(t, r) = Append(Line(s, r), h), \A q \in Ports \ {r} : Line(t, q) = Line(s, q),
           \A q \in Ports \ {r} : t.voq[<<q, 0, q>>] = s.voq[<<q, 0, q>>],
           \/ IsData(h) /\ t.voq[<<r, 0, r>>] = s.voq[<<r, 0, r>>]
           \/ /\ s.voq[<<r, 0, r>>] # <<>> /\ h = Head(s.voq[<<r, 0, r>>])
              /\ t.voq[<<r, 0, r>>] = Tail(s.voq[<<r, 0, r>>]),
           NEW p \in Ports, LastTold(s, p)
    PROVE  LastTold(t, p)
<1>0. Peer[p] \in Ports
  BY PortsTyped
<1>1. CASE p # r
  BY <1>0, <1>1 DEF LastTold
<1>2. CASE p = r
  <2> DEFINE x == Line(s, p)
             v == s.voq[<<p, 0, p>>]
             d == s.fc[Peer[p]].open
             e == Newest(x, d)
  <2>1. x \in Seq(Packets(mode)) /\ v \in Seq(Packets(mode))
    BY QueueOfFrames
  <2>2. Line(t, p) = Append(x, h) /\ t.fc[Peer[p]].open = d /\ t.fc[p].last = Newest(v, e)
    BY <1>0, <1>2 DEF LastTold
  <2>3. Newest(Append(x, h), d) = After(h, e)
    <3> HIDE DEF x, v, d
    <3> QED
      BY <2>1, NewestAppend
  <2>4. CASE IsData(h) /\ t.voq[<<r, 0, r>>] = s.voq[<<r, 0, r>>]
    BY <1>2, <2>2, <2>3, <2>4 DEF LastTold, After
  <2>5. CASE s.voq[<<r, 0, r>>] # <<>> /\ h = Head(s.voq[<<r, 0, r>>]) /\ t.voq[<<r, 0, r>>] = Tail(s.voq[<<r, 0, r>>])
    <3>1. v # <<>> /\ h = Head(v) /\ t.voq[<<p, 0, p>>] = Tail(v)
      BY <1>2, <2>5
    <3>2. Newest(v, e) = Newest(Tail(v), After(h, e))
      <4> HIDE DEF v, e
      <4> QED
        BY <2>1, <3>1, NewestTail
    <3> QED
      BY <2>2, <2>3, <3>1, <3>2 DEF LastTold
  <2> QED
    BY <2>4, <2>5
<1> QED
  BY <1>1, <1>2

LEMMA ToldRun ==
    ASSUME NEW mode, NEW s \in NodeStates(mode), NEW t \in NodeStates(mode), NEW r \in Ports,
           RunShape(mode, s, t, r), NEW p \in Ports, LastTold(s, p)
    PROVE  LastTold(t, p)
<1>1. PICK m \in NodeStates(mode), kind \in Kinds : EventTaken(s, m, r, kind) /\ Ran(m, t, r, kind)
  BY DEF RunShape
<1>2. LastTold(m, p)
  BY <1>1, ToldStill, ToldKept
<1>3. CASE Pumped(m, t, r)
  BY <1>2, <1>3, ToldPumped, ToldKept
<1>4. CASE AllocatorTriggered(m, t, r)
  BY <1>2, <1>4, ToldStill, ToldKept
<1>5. CASE t = m
  BY <1>2, <1>5
<1> QED
  BY <1>1, <1>3, <1>4, <1>5 DEF Ran, Notified

LEMMA ToldLdst ==
    ASSUME NEW mode, NEW s \in PlacedStates(mode), NEW t \in NodeStates(mode), NEW f \in FlowIds,
           LdstShape(mode, s, t, f), NEW p \in Ports, LastTold(s, p)
    PROVE  LastTold(t, p)
<1> DEFINE r == Flows[f].src
           k == <<r, Flows[f].vl, r>>
           j == <<p, 0, p>>
           h == Data(f)
           v == s.voq[j]
           d == Newest(Line(s, p), s.fc[Peer[p]].open)
<1>1. PICK m \in NodeStates(mode) : /\ VoqSet(s, m, k, Append(s.voq[k], h))
                                    /\ EventMore(m, t, r, "TriggerTransmit")
  BY DEF LdstShape
<1>2. h \in Packets(mode) /\ IsData(h)
  BY DataPacket
<1>3. j \in VoqKeys /\ v \in Seq(Packets(mode)) /\ Peer[p] \in Ports
  BY QueueOfFrames
<1>4. m.voq[j] = v \/ m.voq[j] = Append(v, h)
  BY <1>1, <1>3, Zenon DEF VoqSet
<1>5. Newest(Append(v, h), d) = Newest(v, d)
  <2> HIDE DEF v, d, h
  <2> QED
    BY <1>2, <1>3, NewestAppend DEF After
<1>6. m.fc = s.fc /\ Line(m, p) = Line(s, p)
  BY <1>1 DEF VoqSet, Line
<1>7. LastTold(m, p)
  BY <1>4, <1>5, <1>6 DEF LastTold
<1> QED
  BY <1>1, <1>7, ToldStill, ToldKept

LEMMA ToldComplete ==
    ASSUME NEW mode, NEW s \in NodeStates(mode), NEW t \in NodeStates(mode), NEW r \in Ports,
           CompleteShape(mode, s, t, r), NEW p \in Ports, LastTold(s, p)
    PROVE  LastTold(t, p)
<1>1. PICK m \in NodeStates(mode) : /\ PortSet(s, m, r, [s.port[r] EXCEPT !.busy = FALSE])
                                    /\ EventMore(m, t, r, "TriggerTransmit")
  BY DEF CompleteShape
<1>2. s.port[r] \in PortStates(mode)
  BY PortFields
<1>3. SameTold(s, m, p)
  BY <1>1, <1>2 DEF PortSet, SameTold, Line, PortStates
<1> QED
  BY <1>1, <1>3, ToldStill, ToldKept

\* The packet that is served, and what is left behind it.
LEMMA ToldTaken ==
    ASSUME NEW mode, NEW s \in PlacedStates(mode), NEW b \in NodeStates(mode), NEW r \in Ports,
           NEW q, q.vl \in VLs, NEW pkt \in OnPort(mode, r), NEW a \in PlacedStates(mode), Enqueued(mode, a, b, r, q, pkt),
           EgressHasRoom(a.port[r], pkt), a.fc = s.fc, a.port = s.port,
           \A o \in Ports \ {r} : a.voq[<<o, 0, o>>] = s.voq[<<o, 0, o>>],
           \/ IsData(pkt) /\ a.voq[<<r, 0, r>>] = s.voq[<<r, 0, r>>]
           \/ /\ s.voq[<<r, 0, r>>] # <<>> /\ pkt = Head(s.voq[<<r, 0, r>>])
              /\ a.voq[<<r, 0, r>>] = Tail(s.voq[<<r, 0, r>>]),
           NEW p \in Ports, LastTold(s, p)
    PROVE  b \in PlacedStates(mode) /\ LastTold(b, p)
<1>1. b \in PlacedStates(mode) /\ Line(b, r) = Append(Line(s, r), pkt)
  <2>1. b \in PlacedStates(mode) /\ Line(b, r) = Append(Line(a, r), pkt)
    BY PlacedEnqueued
  <2>2. Line(a, r) = Line(s, r)
    BY DEF Line
  <2> QED
    BY <2>1, <2>2
<1>2. \A o \in Ports \ {r} : Line(b, o) = Line(s, o)
  BY DEF Enqueued, Line
<1>3. pkt \in Packets(mode) /\ Bytes(pkt) \in Nat
  BY PacketKinds DEF OnPort
<1>4. s.fc[r] \in FcStates
  BY PortFields DEF PlacedStates
<1> DEFINE y == HandleSentPacket(mode, s.fc[r], q, q.vl, Bytes(pkt))
<1>5. y.last = s.fc[r].last /\ y.open = s.fc[r].open
  BY <1>3, <1>4, HandleSentPacketDoes DEF SameNotes
<1>6. b.fc[r] = y /\ b.voq = a.voq /\ \A o \in Ports \ {r} : b.fc[o] = s.fc[o]
  BY DEF Enqueued
<1> HIDE DEF y
<1>7. \A o \in Ports : b.fc[o].last = s.fc[o].last /\ b.fc[o].open = s.fc[o].open
  BY <1>5, <1>6
<1>8. /\ \A o \in Ports \ {r} : b.voq[<<o, 0, o>>] = s.voq[<<o, 0, o>>]
      /\ \/ IsData(pkt) /\ b.voq[<<r, 0, r>>] = s.voq[<<r, 0, r>>]
         \/ /\ s.voq[<<r, 0, r>>] # <<>> /\ pkt = Head(s.voq[<<r, 0, r>>])
            /\ b.voq[<<r, 0, r>>] = Tail(s.voq[<<r, 0, r>>])
  BY <1>6
<1>9. LastTold(b, p)
  BY <1>1, <1>2, <1>3, <1>7, <1>8, ToldEnqueued
<1> QED
  BY <1>1, <1>9

LEMMA ToldTp ==
    ASSUME NEW mode, NEW s \in PlacedStates(mode), NEW t \in NodeStates(mode), NEW r \in Ports, NEW f \in FlowIds,
           Flows[f].src = r, ServeTpShape(mode, s, t, r, f), EgressHasRoom(s.port[r], Data(f)),
           NEW p \in Ports, LastTold(s, p)
    PROVE  LastTold(t, p)
<1>1. PICK a \in NodeStates(mode) : Enqueued(mode, s, a, r, Tp(f), Data(f)) /\ RoundEnd(a, t, r)
  BY DEF ServeTpShape
<1>2. Data(f) \in OnPort(mode, r) /\ IsData(Data(f)) /\ Tp(f).vl \in VLs
  BY DataPacket, WayStarts, QueueFields, FlowsTyped DEF OnPort
<1>3. LastTold(a, p)
  BY <1>1, <1>2, ToldTaken, ZenonT(60)
<1> QED
  BY <1>1, <1>3, ToldStill, ToldKept

LEMMA ToldVoq ==
    ASSUME NEW s \in PlacedStates("PFC"), NEW t \in NodeStates("PFC"), NEW r \in Ports,
           NEW vl \in VLs, NEW in \in PortsOf(r), s.voq[<<r, vl, in>>] # <<>>,
           ServeVoqShape("PFC", s, t, r, vl, in), EgressHasRoom(s.port[r], Head(s.voq[<<r, vl, in>>])),
           NEW p \in Ports, LastTold(s, p)
    PROVE  LastTold(t, p)
<1> DEFINE q == Voq(r, vl, in)
           k == <<r, vl, in>>
           pkt == Head(s.voq[k])
<1>1. PICK a, b, c, d \in NodeStates("PFC") :
         /\ VoqSet(s, a, k, Tail(s.voq[k])) /\ Enqueued("PFC", a, b, r, q, pkt)
         /\ Freed("PFC", b, c, pkt, in, r)
         /\ IF IsGeneratedDataPacket(q) THEN d = c ELSE Shrunk(c, d, in, r, vl, Bytes(pkt))
         /\ RoundEnd(d, t, r)
  BY DEF ServeVoqShape
<1>2. in \in Ports /\ k \in VoqKeys /\ s.voq[k] # <<>> /\ k[1] = r /\ k[2] = vl /\ k[3] = in /\ q.vl \in VLs
  <2>1. in \in Ports /\ k \in VoqKeys
    BY KeysTyped
  <2>2. q.vl = vl
    BY QueueFields
  <2> QED
    BY <2>1, <2>2
<1>3. \A o \in Ports : <<o, 0, o>> \in VoqKeys /\ (<<o, 0, o>> = k <=> o = r /\ vl = 0 /\ in = r)
  BY ControlKey
<1>4. EgressHasRoom(s.port[r], pkt)
  OBVIOUS
<1> HIDE DEF k, q
<1>5. a \in PlacedStates("PFC")
  BY <1>1, <1>2, PlacedShorter
<1>6. pkt \in OnPort("PFC", r) /\ (IsData(pkt) \/ (vl = 0 /\ in = r))
  BY <1>2, HeadOfVoq DEF InVoq, OnPort
<1>7. /\ a.fc = s.fc /\ a.port = s.port /\ a.voq[k] = Tail(s.voq[k])
      /\ \A o \in Ports : <<o, 0, o>> # k => a.voq[<<o, 0, o>>] = s.voq[<<o, 0, o>>]
  BY <1>1, <1>3 DEF VoqSet
<1>8. \/ IsData(pkt) /\ a.voq[<<r, 0, r>>] = s.voq[<<r, 0, r>>]
      \/ /\ s.voq[<<r, 0, r>>] # <<>> /\ pkt = Head(s.voq[<<r, 0, r>>])
         /\ a.voq[<<r, 0, r>>] = Tail(s.voq[<<r, 0, r>>])
  <2>1. CASE vl = 0 /\ in = r
    <3>1. <<r, 0, r>> = k
      BY <1>3, <2>1
    <3> QED
      BY <1>2, <1>7, <3>1
  <2>2. CASE ~(vl = 0 /\ in = r)
    BY <1>3, <1>6, <1>7, <2>2
  <2> QED
    BY <2>1, <2>2
<1>9. \A o \in Ports \ {r} : a.voq[<<o, 0, o>>] = s.voq[<<o, 0, o>>]
  BY <1>3, <1>7
<1> HIDE DEF pkt
<1>10. b \in PlacedStates("PFC") /\ LastTold(b, p)
  <2>1. EgressHasRoom(a.port[r], pkt) /\ q.vl \in VLs /\ b \in NodeStates("PFC") /\ Enqueued("PFC", a, b, r, q, pkt)
    BY <1>1, <1>2, <1>4, <1>7
  <2>2. pkt \in OnPort("PFC", r) /\ a.fc = s.fc /\ a.port = s.port
    BY <1>6, <1>7
  <2> QED
    BY <1>5, <1>8, <1>9, <2>1, <2>2, ToldTaken
<1>11. LastTold(c, p)
  BY <1>1, <1>2, <1>10, ToldFreed
<1>12. d = c \/ Shrunk(c, d, in, r, vl, Bytes(pkt))
  BY <1>1
<1>13. LastTold(d, p)
  BY <1>11, <1>12, ToldStill, ToldKept
<1> QED
  BY <1>1, <1>13, ToldStill, ToldKept

LEMMA ToldControl ==
    ASSUME NEW s \in PlacedStates("PFC"), NEW t \in NodeStates("PFC"), NEW r \in Ports,
           NEW h, h = Head(s.port[Peer[r]].wire), ~IsData(h), h.credits \in Frames("PFC"),
           ControlShape("PFC", s, t, r, h.credits), NEW p \in Ports, LastTold(s, p)
    PROVE  LastTold(t, p)
<1> DEFINE x == h.credits
           y == HandleReceivedControlPacket("PFC", s.fc[r], x)
<1>1. PICK a, b \in NodeStates("PFC") :
        Received(s, a, r) /\ FcSet(a, b, r, y) /\ EventMore(b, t, r, "TriggerTransmit")
  BY DEF ControlShape
<1>2. s.fc[r] \in FcStates
  BY PortFields DEF PlacedStates
<1>3. y.last = s.fc[r].last /\ y.open = x
  BY <1>2, HandleReceivedDoes, SMTT(60) DEF SameNotes
<1>4. a.fc = s.fc
  BY <1>1 DEF Received, PortSet
<1> HIDE DEF y
<1>5. /\ b.voq = a.voq /\ b.port = a.port /\ \A q \in Ports : b.fc[q].last = a.fc[q].last
      /\ \A q \in Ports \ {r} : b.fc[q].open = a.fc[q].open
      /\ b.fc[r].open = After(h, a.fc[r].open)
  BY <1>1, <1>3, <1>4 DEF FcSet, After
<1>6. LastTold(b, p)
  BY <1>1, <1>5, ToldReceived
<1> QED
  BY <1>1, <1>6, ToldStill, ToldKept

LEMMA ToldArrived ==
    ASSUME NEW mode, NEW s \in PlacedStates(mode), NEW a \in NodeStates(mode), NEW r \in Ports, Received(s, a, r),
           NEW h, h = Head(s.port[Peer[r]].wire), IsData(h), NEW p \in Ports, LastTold(s, p)
    PROVE  LastTold(a, p)
<1>1. a.fc[r].open = After(h, a.fc[r].open)
  BY DEF After
<1> QED
  BY <1>1, ToldReceived

LEMMA ToldForward ==
    ASSUME NEW s \in PlacedStates("PFC"), NEW t \in NodeStates("PFC"), NEW r \in Ports,
           NEW pkt \in Packets("PFC"), IsData(pkt), pkt = Head(s.port[Peer[r]].wire),
           OutPort(r, pkt.flow) \in Way(pkt.flow), OutPort(r, pkt.flow) \in Ports, OutPort(r, pkt.flow) # r,
           <<OutPort(r, pkt.flow), Flows[pkt.flow].vl, r>> \in VoqKeys, ForwardShape("PFC", s, t, r, pkt),
           NEW p \in Ports, LastTold(s, p)
    PROVE  LastTold(t, p)
<1> DEFINE out == OutPort(r, pkt.flow)
           vl == Flows[pkt.flow].vl
           k == <<out, vl, r>>
<1>1. PICK m \in NodeStates("PFC") : Received(s, m, r) /\ Forwarded("PFC", m, t, pkt, r, out, vl)
  BY DEF ForwardShape
<1>2. PICK a, b \in NodeStates("PFC") :
        Pushed(m, a, pkt, r, out, vl) /\ PfcChecked(a, b, r) /\ Pumped(b, t, out)
  BY <1>1 DEF Forwarded
<1>3. m \in PlacedStates("PFC") /\ LastTold(m, p)
  <2>1. m \in PlacedStates("PFC")
    BY <1>1, PlacedReceived
  <2>2. LastTold(m, p)
    <3>1. \A h : h = Head(s.port[Peer[r]].wire) /\ IsData(h) => LastTold(m, p)
      BY <1>1, ToldArrived
    <3> QED
      BY <3>1
  <2> QED
    BY <2>1, <2>2
<1>4. k \in VoqKeys /\ k[1] = out /\ k[2] = vl /\ k[3] = r /\ out # r /\ out \in Ports /\ out \in Way(pkt.flow)
  OBVIOUS
<1>5. /\ a.voq[k] = Append(m.voq[k], pkt) /\ \A j \in VoqKeys \ {k} : a.voq[j] = m.voq[j]
      /\ \A q \in Ports : Line(a, q) = Line(m, q)
      /\ a.fc = m.fc
  BY <1>2 DEF Pushed, Line
<1>6. <<p, 0, p>> \in VoqKeys /\ <<p, 0, p>> # k /\ Peer[p] \in Ports
  BY <1>4, ControlKey, PortsTyped
<1> HIDE DEF k, out
<1>7. pkt \in InVoq("PFC", k)
  BY <1>4 DEF InVoq
<1>8. a \in PlacedStates("PFC")
  BY <1>3, <1>4, <1>5, <1>7, PlacedMore
<1>9. SameTold(m, a, p)
  BY <1>5, <1>6 DEF SameTold
<1>10. LastTold(b, p)
  BY <1>2, <1>3, <1>8, <1>9, ToldKept, ToldChecked
<1> QED
  BY <1>2, <1>10, ToldPumped, ToldKept

AllTold == flowControl = "PFC" => \A p \in Ports : LastTold(NodeState, p)

LEMMA ToldInit ==
    ASSUME Init
    PROVE  AllTold
<1> SUFFICES ASSUME NEW p \in Ports PROVE LastTold(NodeState, p)
  BY DEF AllTold
<1>1. Peer[p] \in Ports /\ <<p, 0, p>> \in VoqKeys
  BY PortsTyped, ControlKey
<1>2. /\ NodeState.port[p].wire = <<>> /\ NodeState.port[p].egress = <<>>
      /\ NodeState.voq[<<p, 0, p>>] = <<>>
      /\ NodeState.fc[p].last = NodeState.fc[Peer[p]].open
  BY <1>1, NodeStateFields DEF Init, FlowControlInit
<1>3. <<>> \o <<>> = <<>> /\ \A d : Newest(<<>>, d) = d
  <2>1. \A d : Newest(<<>>, d) = d
    BY DEF Newest, FramesIn
  <2> QED
    BY <2>1
<1>4. Line(NodeState, p) = <<>>
  BY <1>2, <1>3 DEF Line
<1> QED
  BY <1>2, <1>3, <1>4, Zenon DEF LastTold

LEMMA ToldStep ==
    ASSUME RoomForThree, TypeInv, AllShort, Next, flowControl = "PFC", NEW p \in Ports, LastTold(NodeState, p)
    PROVE  LastTold(NodeState', p)
<1> DEFINE s == NodeState
           t == NodeState'
<1>0. s \in PlacedStates("PFC") /\ s \in NodeStates("PFC") /\ s.voq = voq /\ s.port = port /\ "PFC" \in FcTypes
      /\ "PFC" \notin CreditTypes /\ s \in NodeStates(flowControl) /\ s \in PlacedStates(flowControl)
      /\ LastTold(s, p)
  BY NodeStateFields DEF TypeInv, PlacedStates, FcTypes, CreditTypes
<1>1. ASSUME RunScheduledNow PROVE LastTold(t, p)
  <2>1. t \in NodeStates("PFC") /\ \E r \in Ports : RunShape("PFC", s, t, r)
    BY <1>0, <1>1, RunDoes
  <2> HIDE DEF t
  <2> QED
    BY <1>0, <2>1, ToldRun
<1>2. ASSUME NEW f \in FlowIds, TpOffer(f) PROVE LastTold(t, p)
  <2>1. Pumped(s, t, Flows[f].src)
    BY <1>0, <1>2, TpOfferDoes
  <2> HIDE DEF t
  <2> QED
    BY <1>0, <2>1, ToldPumped, ToldKept
<1>3. ASSUME NEW f \in FlowIds, LdstSend(f) PROVE LastTold(t, p)
  <2>1. t \in NodeStates("PFC") /\ LdstShape("PFC", s, t, f)
    BY <1>0, <1>3, LdstSendDoes
  <2> HIDE DEF t
  <2> QED
    BY <1>0, <2>1, ToldLdst
<1>4. ASSUME NEW r \in Ports, TransmitComplete(r) PROVE LastTold(t, p)
  <2>1. t \in NodeStates("PFC") /\ CompleteShape("PFC", s, t, r)
    BY <1>0, <1>4, TransmitCompleteDoes
  <2> HIDE DEF t
  <2> QED
    BY <1>0, <2>1, ToldComplete
<1>5. ASSUME NEW r \in Ports, AllocateNothing(r) PROVE LastTold(t, p)
  <2>1. RoundEnd(s, t, r)
    BY <1>0, <1>5, AllocateNothingDoes
  <2> HIDE DEF t
  <2> QED
    BY <1>0, <2>1, ToldStill, ToldKept
<1>6. ASSUME NEW r \in Ports, AllocateNextPacket(r) PROVE LastTold(t, p)
  <2>1. /\ t \in NodeStates("PFC")
        /\ \/ \E f \in FlowIds : TpServed(r, f)
           \/ \E vl \in VLs : \E in \in PortsOf(r) : VoqServed(r, vl, in)
    BY <1>0, <1>6, AllocateDoes
  <2>2. \A pkt \in Packets("PFC") : EgressHasRoom(s.port[r], pkt)
    BY <1>0, <1>6, RoundHasRoom
  <2>3. ASSUME NEW f \in FlowIds, TpServed(r, f) PROVE LastTold(t, p)
    <3>1. ServeTpShape("PFC", s, t, r, f) /\ Flows[f].src = r
      BY <2>3 DEF TpServed
    <3>2. EgressHasRoom(s.port[r], Data(f))
      BY <2>2, DataPacket
    <3>3. t \in NodeStates("PFC")
      BY <2>1
    <3> HIDE DEF t
    <3> QED
      BY <1>0, <3>1, <3>2, <3>3, ToldTp
  <2>4. ASSUME NEW vl \in VLs, NEW in \in PortsOf(r), VoqServed(r, vl, in) PROVE LastTold(t, p)
    <3>1. ServeVoqShape("PFC", s, t, r, vl, in) /\ s.voq[<<r, vl, in>>] # <<>>
      BY <1>0, <2>4 DEF VoqServed
    <3>2. <<r, vl, in>> \in VoqKeys
      BY KeysTyped
    <3>3. EgressHasRoom(s.port[r], Head(s.voq[<<r, vl, in>>]))
      BY <1>0, <2>2, <3>1, <3>2, HeadOfVoq
    <3>4. t \in NodeStates("PFC")
      BY <2>1
    <3> HIDE DEF t
    <3> QED
      BY <1>0, <3>1, <3>3, <3>4, ToldVoq
  <2> QED
    BY <2>1, <2>3, <2>4
<1>7. ASSUME NEW r \in Ports, ReceiveControlFrame(r) PROVE LastTold(t, p)
  <2> DEFINE h == Arriving(r)
  <2>1. /\ t \in NodeStates("PFC") /\ ~IsData(h) /\ h.credits \in Frames("PFC")
        /\ h = Head(s.port[Peer[r]].wire) /\ ControlShape("PFC", s, t, r, h.credits)
    BY <1>0, <1>7, ReceiveControlDoes
  <2> HIDE DEF t, h
  <2> QED
    BY <1>0, <2>1, ToldControl
<1>8. ASSUME NEW r \in Ports, SinkDataPacket(r) PROVE LastTold(t, p)
  <2> DEFINE h == Arriving(r)
  <2>1. /\ t \in NodeStates("PFC") /\ IsData(h)
        /\ h = Head(s.port[Peer[r]].wire) /\ SinkShape("PFC", s, t, r, h)
    BY <1>0, <1>8, SinkDoes
  <2> HIDE DEF t, h
  <2>2. Received(s, t, r)
    BY <1>0, <2>1 DEF SinkShape
  <2> QED
    BY <1>0, <2>1, <2>2, ToldArrived
<1>9. ASSUME NEW r \in Ports, ForwardDataPacket(r) PROVE LastTold(t, p)
  <2> DEFINE pkt == Arriving(r)
  <2>1. /\ t \in NodeStates("PFC") /\ IsData(pkt) /\ pkt \in Packets("PFC")
        /\ pkt = Head(s.port[Peer[r]].wire)
        /\ OutPort(r, pkt.flow) \in Way(pkt.flow) /\ OutPort(r, pkt.flow) \in Ports /\ OutPort(r, pkt.flow) # r
        /\ <<OutPort(r, pkt.flow), Flows[pkt.flow].vl, r>> \in VoqKeys
        /\ ForwardShape("PFC", s, t, r, pkt) \/ Received(s, t, r)
    BY <1>0, <1>9, ForwardDoes
  <2> HIDE DEF t, pkt
  <2>2. CASE ForwardShape("PFC", s, t, r, pkt)
    BY <1>0, <2>1, <2>2, ToldForward, SMTT(60)
  <2>3. CASE Received(s, t, r)
    BY <1>0, <2>1, <2>3, ToldArrived, SMTT(60)
  <2> QED
    BY <2>1, <2>2, <2>3
<1> QED
  BY <1>1, <1>2, <1>3, <1>4, <1>5, <1>6, <1>7, <1>8, <1>9 DEF Next, PortStep

LEMMA ToldIs ==
    ASSUME TypeInv, AllTold
    PROVE  PauseStateTold
<1> SUFFICES ASSUME flowControl = "PFC", NEW p \in Ports
             PROVE  LET pkts   == port[p].wire \o port[p].egress \o ControlVoq(p)
                        frames == {i \in DOMAIN pkts : ~IsData(pkts[i])}
                    IN  fc[p].last = IF frames = {} THEN fc[Peer[p]].open ELSE pkts[Max(frames)].credits
  BY DEF PauseStateTold
<1> DEFINE x == Line(NodeState, p)
           v == NodeState.voq[<<p, 0, p>>]
           d == NodeState.fc[Peer[p]].open
<1>1. x \in Seq(Packets("PFC")) /\ v \in Seq(Packets("PFC"))
  BY QueueOfFrames DEF TypeInv
<1>2. fc[p].last = Newest(v, Newest(x, d))
  BY NodeStateFields DEF AllTold, LastTold
<1>3. x \o v = port[p].wire \o port[p].egress \o ControlVoq(p) /\ d = fc[Peer[p]].open
  BY NodeStateFields DEF Line, ControlVoq
<1> HIDE DEF x, v, d
<1>4. fc[p].last = Newest(x \o v, d)
  BY <1>1, <1>2, NewestConcat
<1> QED
  BY <1>3, <1>4 DEF Newest, FramesIn

\* The newest pause frame on its way from a port to its peer, or else what the
\* peer has in force, is what the port noted that it told last.
THEOREM FabricPauseStateTold ==
    ASSUME RoomForThree
    PROVE  Spec => []PauseStateTold
<1>1. Init => AllTold
  BY ToldInit
<1>2. TypeInv /\ AllShort /\ AllTold /\ [Next]_vars => AllTold'
  <2> SUFFICES ASSUME TypeInv, AllShort, AllTold, [Next]_vars PROVE AllTold'
    OBVIOUS
  <2>1. CASE Next
    <3>1. flowControl' = flowControl
      BY <2>1, FlowControlStays DEF TypeInv
    <3>2. flowControl = "PFC" => \A p \in Ports : LastTold(NodeState', p)
      BY <2>1, ToldStep DEF AllTold
    <3> QED
      BY <3>1, <3>2 DEF AllTold
  <2>2. CASE UNCHANGED vars
    <3>1. NodeState' = NodeState /\ flowControl' = flowControl
      BY <2>2 DEF vars, NodeState
    <3> QED
      BY <3>1 DEF AllTold
  <2> QED
    BY <2>1, <2>2
<1>3. TypeInv /\ AllTold => PauseStateTold
  BY ToldIs
<1> QED
  BY <1>1, <1>2, <1>3, FabricInvariant, AllShortInvariant, PTL DEF Spec
=============================================================================
