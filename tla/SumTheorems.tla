---------------------------- MODULE SumTheorems ----------------------------
(***************************************************************************)
(* Sums over finite sets: what SumFunction and SumFunctionOnSet of module  *)
(* Functions, with which the models add up stakes, shares and balances,    *)
(* return for every function into the natural numbers.                     *)
(***************************************************************************)
EXTENDS Functions, FiniteSetTheorems, TLAPS

-----------------------------------------------------------------------------
(* Induction, over a set instead of a predicate *)

\* What holds zero and the successor of each number it holds, holds all numbers.
LEMMA NumbersInduction ==
    ASSUME NEW G, 0 \in G, \A n \in Nat : n \in G => n + 1 \in G
    PROVE  \A n \in Nat : n \in G
<1> DEFINE T == {n \in Nat : n \notin G}
<1> SUFFICES ASSUME T # {} PROVE FALSE
  OBVIOUS
<1>1. \E n \in T : \A m \in T : ~ (<<m, n>> \in OpToRel(<, Nat))
  BY NatLessThanWellFounded, WFMin, Zenon
<1>2. PICK n \in T : \A m \in T : ~ (<<m, n>> \in OpToRel(<, Nat))
  BY <1>1, Zenon
<1>3. \A m \in T : ~ (m < n)
  BY <1>2 DEF OpToRel
<1>4. n \in Nat /\ n \notin G /\ n # 0
  OBVIOUS
<1>5. n - 1 \in Nat /\ n - 1 < n /\ (n - 1) + 1 = n
  BY <1>4
<1>6. n - 1 \in G
  BY <1>3, <1>5
<1> QED BY <1>4, <1>5, <1>6

\* What holds the empty set and, with each part of S it holds, that part and one
\* more element, holds S.
LEMMA PartsInduction ==
    ASSUME NEW S, IsFiniteSet(S), NEW G, {} \in G,
           \A T \in SUBSET S : \A x \in S : T \in G /\ x \notin T => T \cup {x} \in G
    PROVE  S \in G
<1> DEFINE N == {n \in Nat : \A T \in SUBSET S : Cardinality(T) = n => T \in G}
<1>1. \A T \in SUBSET S : IsFiniteSet(T) /\ Cardinality(T) \in Nat
  BY FS_Subset, FS_CardinalityType
<1>2. 0 \in N
  BY <1>1, FS_EmptySet
<1>3. \A n \in Nat : n \in N => n + 1 \in N
  <2> SUFFICES ASSUME NEW n \in Nat, n \in N, NEW T \in SUBSET S, Cardinality(T) = n + 1
               PROVE  T \in G
    OBVIOUS
  <2>1. PICK x \in T : TRUE
    BY <1>1, FS_EmptySet
  <2>2. IsFiniteSet(T)
    BY <1>1
  <2>3. Cardinality(T \ {x}) = Cardinality(T) - 1
    BY <2>1, <2>2, FS_RemoveElement
  <2>4. T \ {x} \in G
    <3>1. (n + 1) - 1 = n
      OBVIOUS
    <3> QED BY <2>3, <3>1
  <2>5. (T \ {x}) \cup {x} = T /\ x \in S /\ T \ {x} \in SUBSET S
    BY <2>1
  <2> QED BY <2>4, <2>5
<1> HIDE DEF N
<1>4. \A n \in Nat : n \in N
  BY <1>2, <1>3, NumbersInduction, Zenon
<1> QED BY <1>1, <1>4 DEF N

-----------------------------------------------------------------------------
(* The sum of a set is one of its values and the sum of the others *)

Some(s) == CHOOSE x \in s : TRUE

Iterates(h, f, S) ==
    h = [s \in SUBSET S |-> IF s = {} THEN 0 ELSE f[Some(s)] + h[s \ {Some(s)}]]

LEMMA SomeIn == ASSUME NEW s, s # {} PROVE Some(s) \in s
  BY DEF Some

LEMMA IterateExists ==
    ASSUME NEW f, NEW S, IsFiniteSet(S)
    PROVE  \E h : Iterates(h, f, S)
<1> DEFINE Step(h, s) == IF s = {} THEN 0 ELSE f[Some(s)] + h[s \ {Some(s)}]
           G == {n \in Nat : \E h : /\ h = [s \in SUBSET S |-> h[s]]
                                    /\ \A s \in SUBSET S : Cardinality(s) <= n => h[s] = Step(h, s)}
<1>1. \A s \in SUBSET S :
         /\ IsFiniteSet(s) /\ Cardinality(s) \in Nat /\ (Cardinality(s) = 0 <=> s = {})
         /\ s # {} => /\ Some(s) \in s /\ s \ {Some(s)} \in SUBSET S
                      /\ Cardinality(s \ {Some(s)}) = Cardinality(s) - 1
  BY FS_Subset, FS_CardinalityType, FS_EmptySet, FS_RemoveElement, SomeIn
<1>2. 0 \in G
  <2> DEFINE h == [s \in SUBSET S |-> 0]
  <2>1. h = [s \in SUBSET S |-> h[s]]
    OBVIOUS
  <2>2. \A s \in SUBSET S : Cardinality(s) <= 0 => s = {}
    <3> HIDE DEF h
    <3> SUFFICES ASSUME NEW s \in SUBSET S, Cardinality(s) <= 0 PROVE Cardinality(s) = 0
      BY <1>1
    <3>1. Cardinality(s) \in Nat
      BY <1>1
    <3> QED BY <3>1
  <2>3. \A s \in SUBSET S : Cardinality(s) <= 0 => h[s] = Step(h, s)
    BY <2>2
  <2> QED BY <2>1, <2>3
<1>3. \A n \in Nat : n \in G => n + 1 \in G
  <2> SUFFICES ASSUME NEW n \in Nat, n \in G PROVE n + 1 \in G
    OBVIOUS
  <2>1. PICK h : /\ h = [s \in SUBSET S |-> h[s]]
                 /\ \A s \in SUBSET S : Cardinality(s) <= n => h[s] = Step(h, s)
    OBVIOUS
  <2> DEFINE k == [s \in SUBSET S |-> IF Cardinality(s) <= n THEN h[s] ELSE Step(h, s)]
  <2>2. \A s \in SUBSET S : k[s] = Step(h, s)
    BY <2>1
  <2>3. \A s \in SUBSET S : Cardinality(s) <= n + 1 => Step(k, s) = Step(h, s)
    <3> SUFFICES ASSUME NEW s \in SUBSET S, Cardinality(s) <= n + 1, s # {}
                 PROVE  k[s \ {Some(s)}] = h[s \ {Some(s)}]
      OBVIOUS
    <3>1. Cardinality(s \ {Some(s)}) <= n /\ s \ {Some(s)} \in SUBSET S
      BY <1>1
    <3> QED BY <3>1
  <2>4. k = [s \in SUBSET S |-> k[s]]
    OBVIOUS
  <2> HIDE DEF k
  <2>5. \A s \in SUBSET S : Cardinality(s) <= n + 1 => k[s] = Step(k, s)
    BY <2>2, <2>3
  <2>6. n + 1 \in Nat
    OBVIOUS
  <2> QED BY <2>4, <2>5, <2>6
<1> HIDE DEF G
<1>4. Cardinality(S) \in G
  BY <1>1, <1>2, <1>3, NumbersInduction
<1> USE DEF G
<1>5. PICK h : /\ h = [s \in SUBSET S |-> h[s]]
               /\ \A s \in SUBSET S : Cardinality(s) <= Cardinality(S) => h[s] = Step(h, s)
  BY <1>4
<1>6. \A s \in SUBSET S : h[s] = Step(h, s)
  BY <1>5, <1>1, FS_Subset
<1> QED BY <1>5, <1>6 DEF Iterates

SameOn(f, g, S) == \A x \in S : f[x] = g[x]
AgreeAt(h, k, U) == h[U] = k[U]

\* Two iterations agree on the finite sets that both cover.
LEMMA IteratesAgree ==
    ASSUME NEW f, NEW g, NEW S, NEW T, NEW h, NEW k, NEW U, IsFiniteSet(U),
           Iterates(h, f, S), Iterates(k, g, T), U \subseteq S, U \subseteq T,
           SameOn(f, g, U)
    PROVE  AgreeAt(h, k, U)
<1> DEFINE G == {n \in Nat : \A s \in SUBSET U : Cardinality(s) = n => h[s] = k[s]}
<1>1. \A s \in SUBSET U :
         /\ s \in SUBSET S /\ s \in SUBSET T
         /\ IsFiniteSet(s) /\ Cardinality(s) \in Nat /\ (Cardinality(s) = 0 <=> s = {})
         /\ s # {} => /\ Some(s) \in s /\ s \ {Some(s)} \in SUBSET U
                      /\ Cardinality(s \ {Some(s)}) = Cardinality(s) - 1
  BY FS_Subset, FS_CardinalityType, FS_EmptySet, FS_RemoveElement, SomeIn
<1>2. 0 \in G
  BY <1>1 DEF Iterates
<1>3. \A n \in Nat : n \in G => n + 1 \in G
  <2> SUFFICES ASSUME NEW n \in Nat, n \in G, NEW s \in SUBSET U, Cardinality(s) = n + 1
               PROVE  h[s] = k[s]
    OBVIOUS
  <2>1. (n + 1) - 1 = n /\ n + 1 # 0
    OBVIOUS
  <2>2. s # {} /\ Some(s) \in s /\ s \ {Some(s)} \in SUBSET U /\ Cardinality(s \ {Some(s)}) = n
    BY <1>1, <2>1
  <2>3. h[s \ {Some(s)}] = k[s \ {Some(s)}]
    BY <2>2
  <2>4. h[s] = f[Some(s)] + h[s \ {Some(s)}] /\ k[s] = g[Some(s)] + k[s \ {Some(s)}]
    BY <1>1, <2>2 DEF Iterates
  <2>5. f[Some(s)] = g[Some(s)]
    BY <2>2 DEF SameOn
  <2> QED BY <2>3, <2>4, <2>5
<1> HIDE DEF G
<1>4. Cardinality(U) \in G
  BY <1>1, <1>2, <1>3, NumbersInduction
<1> QED BY <1>4 DEF G, AgreeAt

\* The sum is what the iteration of its definition returns.
LEMMA SumIterates ==
    ASSUME NEW f, NEW S, IsFiniteSet(S)
    PROVE  \E h : Iterates(h, f, S) /\ SumFunctionOnSet(f, S) = h[S]
<1>1. PICK h : Iterates(h, f, S)
  BY IterateExists
<1> QED BY <1>1 DEF Iterates, Some, SumFunctionOnSet, FoldFunctionOnSet, MapThenFoldSet

\* Sums of equal values are equal.
LEMMA SumSame ==
    ASSUME NEW S, IsFiniteSet(S), NEW f, NEW g, \A x \in S : f[x] = g[x]
    PROVE  SumFunctionOnSet(f, S) = SumFunctionOnSet(g, S)
<1>1. PICK h : Iterates(h, f, S) /\ SumFunctionOnSet(f, S) = h[S]
  BY SumIterates
<1>2. PICK k : Iterates(k, g, S) /\ SumFunctionOnSet(g, S) = k[S]
  BY SumIterates
<1>3. SameOn(f, g, S) /\ S \subseteq S
  BY DEF SameOn
<1>4. AgreeAt(h, k, S)
  BY <1>1, <1>2, <1>3, IteratesAgree, Zenon
<1> QED BY <1>1, <1>2, <1>4 DEF AgreeAt

LEMMA SumEmpty == ASSUME NEW f PROVE SumFunctionOnSet(f, {}) = 0
<1>1. PICK h : Iterates(h, f, {}) /\ SumFunctionOnSet(f, {}) = h[{}]
  BY SumIterates, FS_EmptySet
<1> QED BY <1>1 DEF Iterates

LEMMA SumChosen ==
    ASSUME NEW f, NEW S, IsFiniteSet(S), S # {}
    PROVE  SumFunctionOnSet(f, S) = f[Some(S)] + SumFunctionOnSet(f, S \ {Some(S)})
<1> DEFINE R == S \ {Some(S)}
<1>1. IsFiniteSet(R)
  BY FS_RemoveElement
<1>2. PICK h : Iterates(h, f, S) /\ SumFunctionOnSet(f, S) = h[S]
  BY SumIterates
<1>3. PICK k : Iterates(k, f, R) /\ SumFunctionOnSet(f, R) = k[R]
  BY <1>1, SumIterates
<1>4. h[R] = k[R]
  BY <1>1, <1>2, <1>3, IteratesAgree DEF SameOn, AgreeAt
<1>5. h[S] = f[Some(S)] + h[R]
  BY <1>2 DEF Iterates
<1> QED BY <1>2, <1>3, <1>4, <1>5

-----------------------------------------------------------------------------
(* Sums of natural numbers *)

Counts(f, S) == IsFiniteSet(S) /\ \A x \in S : f[x] \in Nat

LEMMA CountsParts ==
    ASSUME NEW f, NEW S, Counts(f, S), NEW T \in SUBSET S
    PROVE  Counts(f, T)
  BY FS_Subset DEF Counts

LEMMA SumType ==
    ASSUME NEW f, NEW S, Counts(f, S)
    PROVE  SumFunctionOnSet(f, S) \in Nat
<1> DEFINE G == {n \in Nat : \A s \in SUBSET S : Cardinality(s) = n => SumFunctionOnSet(f, s) \in Nat}
<1>1. \A s \in SUBSET S : /\ IsFiniteSet(s) /\ Cardinality(s) \in Nat
                          /\ (Cardinality(s) = 0 <=> s = {})
  BY FS_Subset, FS_CardinalityType, FS_EmptySet DEF Counts
<1>2. 0 \in G
  BY <1>1, SumEmpty
<1>3. \A n \in Nat : n \in G => n + 1 \in G
  <2> SUFFICES ASSUME NEW n \in Nat, n \in G, NEW s \in SUBSET S, Cardinality(s) = n + 1
               PROVE  SumFunctionOnSet(f, s) \in Nat
    OBVIOUS
  <2>1. s # {} /\ IsFiniteSet(s)
    BY <1>1
  <2>2. Some(s) \in s /\ Cardinality(s \ {Some(s)}) = Cardinality(s) - 1
    BY <2>1, SomeIn, FS_RemoveElement
  <2>3. (n + 1) - 1 = n
    OBVIOUS
  <2>4. SumFunctionOnSet(f, s \ {Some(s)}) \in Nat
    BY <2>2, <2>3
  <2>5. f[Some(s)] \in Nat
    BY <2>2 DEF Counts
  <2>6. SumFunctionOnSet(f, s) = f[Some(s)] + SumFunctionOnSet(f, s \ {Some(s)})
    BY <2>1, SumChosen
  <2> QED BY <2>4, <2>5, <2>6
<1> HIDE DEF G
<1>4. Cardinality(S) \in G
  BY <1>1, <1>2, <1>3, NumbersInduction
<1> QED BY <1>4 DEF G

\* Any element can be taken out of a sum.
LEMMA SumTake ==
    ASSUME NEW f, NEW S, Counts(f, S), NEW x \in S
    PROVE  SumFunctionOnSet(f, S) = f[x] + SumFunctionOnSet(f, S \ {x})
<1> DEFINE Takes(s) == \A y \in s : SumFunctionOnSet(f, s) = f[y] + SumFunctionOnSet(f, s \ {y})
           G == {n \in Nat : \A s \in SUBSET S : Cardinality(s) = n => Takes(s)}
<1>1. \A s \in SUBSET S : /\ IsFiniteSet(s) /\ Cardinality(s) \in Nat
                          /\ (Cardinality(s) = 0 <=> s = {})
                          /\ SumFunctionOnSet(f, s) \in Nat
  BY FS_Subset, FS_CardinalityType, FS_EmptySet, CountsParts, SumType DEF Counts
<1>2. 0 \in G
  BY <1>1
<1>3. \A n \in Nat : n \in G => n + 1 \in G
  <2> SUFFICES ASSUME NEW n \in Nat, n \in G, NEW s \in SUBSET S, Cardinality(s) = n + 1,
                      NEW y \in s
               PROVE  SumFunctionOnSet(f, s) = f[y] + SumFunctionOnSet(f, s \ {y})
    OBVIOUS
  <2> DEFINE c == Some(s)
  <2>1. s # {} /\ IsFiniteSet(s) /\ (n + 1) - 1 = n
    BY <1>1
  <2>2. c \in s
    BY <2>1, SomeIn
  <2>3. SumFunctionOnSet(f, s) = f[c] + SumFunctionOnSet(f, s \ {c})
    BY <2>1, SumChosen
  <2> HIDE DEF c
  <2>4. CASE y = c
    BY <2>3, <2>4
  <2>5. CASE y # c
    <3>1. Cardinality(s \ {c}) = n /\ Cardinality(s \ {y}) = n
      <4>1. Cardinality(s \ {c}) = Cardinality(s) - 1 /\ Cardinality(s \ {y}) = Cardinality(s) - 1
        BY <2>1, <2>2, FS_RemoveElement
      <4> QED BY <2>1, <4>1
    <3>2. Takes(s \ {c}) /\ Takes(s \ {y})
      BY <3>1
    <3>3. SumFunctionOnSet(f, s \ {c}) = f[y] + SumFunctionOnSet(f, (s \ {c}) \ {y})
      BY <2>5, <3>2
    <3>4. SumFunctionOnSet(f, s \ {y}) = f[c] + SumFunctionOnSet(f, (s \ {y}) \ {c})
      BY <2>2, <2>5, <3>2
    <3>5. (s \ {c}) \ {y} = (s \ {y}) \ {c}
      OBVIOUS
    <3>6. PICK r : r = SumFunctionOnSet(f, (s \ {y}) \ {c})
      OBVIOUS
    <3>7. r \in Nat /\ f[c] \in Nat /\ f[y] \in Nat
      BY <1>1, <2>2, <3>6 DEF Counts
    <3> QED BY <2>3, <3>3, <3>4, <3>5, <3>6, <3>7
  <2> QED BY <2>4, <2>5
<1> HIDE DEF G
<1>4. Cardinality(S) \in G
  BY <1>1, <1>2, <1>3, NumbersInduction
<1> QED BY <1>4 DEF G

\* One value of a sum changes: so does the sum, by as much.
LEMMA SumChanged ==
    ASSUME NEW S, NEW f, NEW g, Counts(f, S), Counts(g, S), NEW a \in S,
           \A x \in S : x # a => f[x] = g[x]
    PROVE  SumFunctionOnSet(g, S) + f[a] = SumFunctionOnSet(f, S) + g[a]
<1>1. SumFunctionOnSet(f, S \ {a}) = SumFunctionOnSet(g, S \ {a})
  BY FS_RemoveElement, SumSame DEF Counts
<1>2. PICK r : r = SumFunctionOnSet(f, S \ {a})
  OBVIOUS
<1>3. SumFunctionOnSet(f, S) = f[a] + r /\ SumFunctionOnSet(g, S) = g[a] + r
  BY <1>1, <1>2, SumTake
<1>4. r \in Nat /\ f[a] \in Nat /\ g[a] \in Nat
  BY <1>2, CountsParts, SumType DEF Counts
<1> QED BY <1>3, <1>4

\* An element is added.
LEMMA SumMore ==
    ASSUME NEW f, NEW S, NEW x, x \notin S, Counts(f, S \cup {x})
    PROVE  SumFunctionOnSet(f, S \cup {x}) = f[x] + SumFunctionOnSet(f, S)
<1>1. (S \cup {x}) \ {x} = S /\ x \in S \cup {x}
  OBVIOUS
<1>2. SumFunctionOnSet(f, S \cup {x}) = f[x] + SumFunctionOnSet(f, (S \cup {x}) \ {x})
  BY SumTake
<1> QED BY <1>1, <1>2

LEMMA SumUnion ==
    ASSUME NEW f, NEW S, NEW T, S \cap T = {}, Counts(f, S), Counts(f, T)
    PROVE  SumFunctionOnSet(f, S \cup T) = SumFunctionOnSet(f, S) + SumFunctionOnSet(f, T)
<1> DEFINE G == {U \in SUBSET T :
                    SumFunctionOnSet(f, S \cup U) = SumFunctionOnSet(f, S) + SumFunctionOnSet(f, U)}
<1>1. SumFunctionOnSet(f, S) \in Nat
  BY SumType
<1>2. {} \in G
  BY <1>1, SumEmpty
<1>3. ASSUME NEW U \in SUBSET T, NEW x \in T, U \in G, x \notin U
      PROVE  U \cup {x} \in G
  <2>1. Counts(f, U) /\ Counts(f, U \cup {x})
    BY <1>3, CountsParts
  <2>2. Counts(f, (S \cup U) \cup {x}) /\ x \notin S \cup U
    <3>1. IsFiniteSet(S \cup U)
      BY <2>1, FS_Union DEF Counts
    <3>2. IsFiniteSet((S \cup U) \cup {x})
      BY <3>1, FS_AddElement
    <3> QED BY <1>3, <3>2 DEF Counts
  <2>3. SumFunctionOnSet(f, (S \cup U) \cup {x}) = f[x] + SumFunctionOnSet(f, S \cup U)
    BY <2>2, SumMore
  <2>4. SumFunctionOnSet(f, U \cup {x}) = f[x] + SumFunctionOnSet(f, U)
    BY <1>3, <2>1, SumMore
  <2>5. (S \cup U) \cup {x} = S \cup (U \cup {x})
    OBVIOUS
  <2>6. PICK r, t : r = SumFunctionOnSet(f, S) /\ t = SumFunctionOnSet(f, U)
    OBVIOUS
  <2>7. r \in Nat /\ t \in Nat /\ f[x] \in Nat
    BY <1>1, <2>1, <2>6, SumType DEF Counts
  <2>8. SumFunctionOnSet(f, S \cup U) = r + t
    BY <1>3, <2>6
  <2>9. f[x] + (r + t) = r + (f[x] + t)
    BY <2>7
  <2>10. SumFunctionOnSet(f, S \cup (U \cup {x})) = r + (f[x] + t)
    BY <2>3, <2>5, <2>8, <2>9
  <2>11. U \cup {x} \in SUBSET T
    OBVIOUS
  <2> QED BY <2>4, <2>6, <2>10, <2>11
<1> HIDE DEF G
<1>4. T \in G
  BY <1>2, <1>3, PartsInduction DEF Counts
<1> QED BY <1>4 DEF G

LEMMA SumAtMost ==
    ASSUME NEW S, NEW f, NEW g, Counts(f, S), Counts(g, S), \A x \in S : f[x] <= g[x]
    PROVE  SumFunctionOnSet(f, S) <= SumFunctionOnSet(g, S)
<1> DEFINE G == {U \in SUBSET S : SumFunctionOnSet(f, U) <= SumFunctionOnSet(g, U)}
<1>1. {} \in G
  BY SumEmpty
<1>2. ASSUME NEW U \in SUBSET S, NEW x \in S, U \in G, x \notin U
      PROVE  U \cup {x} \in G
  <2>1. U \cup {x} \in SUBSET S
    OBVIOUS
  <2>2. /\ Counts(f, U) /\ Counts(f, U \cup {x}) /\ Counts(g, U) /\ Counts(g, U \cup {x})
    BY <2>1, CountsParts
  <2>3. SumFunctionOnSet(f, U \cup {x}) = f[x] + SumFunctionOnSet(f, U)
    BY <1>2, <2>2, SumMore
  <2>4. SumFunctionOnSet(g, U \cup {x}) = g[x] + SumFunctionOnSet(g, U)
    BY <1>2, <2>2, SumMore
  <2>5. PICK r, t : r = SumFunctionOnSet(f, U) /\ t = SumFunctionOnSet(g, U)
    OBVIOUS
  <2>6. r \in Nat /\ t \in Nat /\ f[x] \in Nat /\ g[x] \in Nat /\ r <= t /\ f[x] <= g[x]
    BY <1>2, <2>2, <2>5, SumType DEF Counts
  <2>7. f[x] + r <= g[x] + t
    BY <2>6
  <2> QED BY <2>1, <2>3, <2>4, <2>5, <2>7
<1> HIDE DEF G
<1>3. S \in G
  BY <1>1, <1>2, PartsInduction DEF Counts
<1> QED BY <1>3 DEF G

LEMMA SumZero ==
    ASSUME NEW S, IsFiniteSet(S), NEW f, \A x \in S : f[x] = 0
    PROVE  SumFunctionOnSet(f, S) = 0
<1> DEFINE G == {U \in SUBSET S : SumFunctionOnSet(f, U) = 0}
<1>1. {} \in G
  BY SumEmpty
<1>2. ASSUME NEW U \in SUBSET S, NEW x \in S, U \in G, x \notin U
      PROVE  U \cup {x} \in G
  <2>1. Counts(f, U \cup {x})
    BY FS_Subset DEF Counts
  <2>2. SumFunctionOnSet(f, U \cup {x}) = f[x] + SumFunctionOnSet(f, U)
    BY <1>2, <2>1, SumMore
  <2> QED BY <1>2, <2>2
<1> HIDE DEF G
<1>3. S \in G
  BY <1>1, <1>2, PartsInduction
<1> QED BY <1>3 DEF G

\* What is zero outside a part adds nothing.
LEMMA SumOfPart ==
    ASSUME NEW S, NEW f, Counts(f, S), NEW T \in SUBSET S, \A x \in S \ T : f[x] = 0
    PROVE  SumFunctionOnSet(f, S) = SumFunctionOnSet(f, T)
<1>1. Counts(f, T) /\ Counts(f, S \ T) /\ T \cup (S \ T) = S /\ T \cap (S \ T) = {}
  BY CountsParts
<1>2. SumFunctionOnSet(f, S) = SumFunctionOnSet(f, T) + SumFunctionOnSet(f, S \ T)
  BY <1>1, SumUnion
<1>3. SumFunctionOnSet(f, S \ T) = 0
  BY <1>1, SumZero DEF Counts
<1> QED BY <1>1, <1>2, <1>3, SumType

LEMMA SumTimes ==
    ASSUME NEW S, NEW f, Counts(f, S), NEW c \in Nat, NEW g, \A x \in S : g[x] = c * f[x]
    PROVE  SumFunctionOnSet(g, S) = c * SumFunctionOnSet(f, S)
<1> DEFINE G == {U \in SUBSET S : SumFunctionOnSet(g, U) = c * SumFunctionOnSet(f, U)}
<1>1. {} \in G
  BY SumEmpty
<1>2. ASSUME NEW U \in SUBSET S, NEW x \in S, U \in G, x \notin U
      PROVE  U \cup {x} \in G
  <2>1. U \cup {x} \in SUBSET S
    OBVIOUS
  <2>2. Counts(f, U) /\ Counts(f, U \cup {x})
    BY <2>1, CountsParts
  <2>3. Counts(g, U \cup {x})
    BY <2>1, <2>2 DEF Counts
  <2>4. SumFunctionOnSet(f, U \cup {x}) = f[x] + SumFunctionOnSet(f, U)
    BY <1>2, <2>2, SumMore
  <2>5. SumFunctionOnSet(g, U \cup {x}) = c * f[x] + SumFunctionOnSet(g, U)
    BY <1>2, <2>3, SumMore
  <2>6. PICK r, v : r = SumFunctionOnSet(f, U) /\ v = f[x]
    OBVIOUS
  <2>7. r \in Nat /\ v \in Nat
    BY <2>2, <2>6, SumType DEF Counts
  <2>8. c * v + c * r = c * (v + r)
    BY <2>7
  <2> QED BY <1>2, <2>1, <2>4, <2>5, <2>6, <2>8
<1> HIDE DEF G
<1>3. S \in G
  BY <1>1, <1>2, PartsInduction DEF Counts
<1> QED BY <1>3 DEF G

\* The sums of two functions are the sum of both.
LEMMA SumBoth ==
    ASSUME NEW S, NEW f, NEW g, Counts(f, S), Counts(g, S), NEW h,
           \A x \in S : h[x] = f[x] + g[x]
    PROVE  SumFunctionOnSet(h, S) = SumFunctionOnSet(f, S) + SumFunctionOnSet(g, S)
<1> DEFINE G == {U \in SUBSET S :
                    SumFunctionOnSet(h, U) = SumFunctionOnSet(f, U) + SumFunctionOnSet(g, U)}
<1>1. {} \in G
  BY SumEmpty
<1>2. ASSUME NEW U \in SUBSET S, NEW x \in S, U \in G, x \notin U
      PROVE  U \cup {x} \in G
  <2>1. U \cup {x} \in SUBSET S
    OBVIOUS
  <2>2. /\ Counts(f, U) /\ Counts(f, U \cup {x}) /\ Counts(g, U) /\ Counts(g, U \cup {x})
    BY <2>1, CountsParts
  <2>3. Counts(h, U \cup {x})
    BY <2>1, <2>2 DEF Counts
  <2>4. /\ SumFunctionOnSet(f, U \cup {x}) = f[x] + SumFunctionOnSet(f, U)
        /\ SumFunctionOnSet(g, U \cup {x}) = g[x] + SumFunctionOnSet(g, U)
        /\ SumFunctionOnSet(h, U \cup {x}) = (f[x] + g[x]) + SumFunctionOnSet(h, U)
    <3>1. SumFunctionOnSet(f, U \cup {x}) = f[x] + SumFunctionOnSet(f, U)
      BY <1>2, <2>2, SumMore
    <3>2. SumFunctionOnSet(g, U \cup {x}) = g[x] + SumFunctionOnSet(g, U)
      BY <1>2, <2>2, SumMore
    <3>3. SumFunctionOnSet(h, U \cup {x}) = h[x] + SumFunctionOnSet(h, U)
      BY <1>2, <2>3, SumMore
    <3> QED BY <3>1, <3>2, <3>3
  <2>5. PICK r, t, v, w : /\ r = SumFunctionOnSet(f, U) /\ t = SumFunctionOnSet(g, U)
                          /\ v = f[x] /\ w = g[x]
    OBVIOUS
  <2>6. r \in Nat /\ t \in Nat /\ v \in Nat /\ w \in Nat
    BY <2>2, <2>5, SumType DEF Counts
  <2>7. (v + w) + (r + t) = (v + r) + (w + t)
    BY <2>6
  <2> QED BY <1>2, <2>1, <2>4, <2>5, <2>7
<1> HIDE DEF G
<1>3. S \in G
  BY <1>1, <1>2, PartsInduction DEF Counts
<1> QED BY <1>3 DEF G

\* A sum can be taken over other names of its elements.
LEMMA SumRenamed ==
    ASSUME NEW S, NEW f, Counts(f, S), NEW name, NEW g,
           \A x, y \in S : name[x] = name[y] => x = y,
           \A x \in S : g[name[x]] = f[x]
    PROVE  SumFunctionOnSet(g, {name[x] : x \in S}) = SumFunctionOnSet(f, S)
<1> DEFINE Named(U) == {name[x] : x \in U}
           G == {U \in SUBSET S : /\ IsFiniteSet(Named(U))
                                  /\ SumFunctionOnSet(g, Named(U)) = SumFunctionOnSet(f, U)}
<1>1. {} \in G
  <2>1. Named({}) = {}
    OBVIOUS
  <2> HIDE DEF Named
  <2> QED BY <2>1, SumEmpty, FS_EmptySet
<1>2. ASSUME NEW U \in SUBSET S, NEW x \in S, U \in G, x \notin U
      PROVE  U \cup {x} \in G
  <2>1. Named(U \cup {x}) = Named(U) \cup {name[x]} /\ name[x] \notin Named(U)
    BY <1>2
  <2>2. \A y \in Named(U \cup {x}) : g[y] \in Nat
    BY DEF Counts
  <2>3. IsFiniteSet(Named(U)) /\ SumFunctionOnSet(g, Named(U)) = SumFunctionOnSet(f, U)
    BY <1>2
  <2> HIDE DEF Named
  <2>4. IsFiniteSet(Named(U) \cup {name[x]})
    BY <2>3, FS_AddElement
  <2>5. Counts(g, Named(U) \cup {name[x]})
    BY <2>1, <2>2, <2>4 DEF Counts
  <2>6. SumFunctionOnSet(g, Named(U) \cup {name[x]}) = g[name[x]] + SumFunctionOnSet(g, Named(U))
    BY <2>1, <2>5, SumMore
  <2>7. U \cup {x} \in SUBSET S
    OBVIOUS
  <2>8. SumFunctionOnSet(f, U \cup {x}) = f[x] + SumFunctionOnSet(f, U)
    BY <1>2, <2>7, CountsParts, SumMore
  <2> QED BY <2>1, <2>3, <2>4, <2>6, <2>7, <2>8
<1> HIDE DEF G
<1>3. S \in G
  BY <1>1, <1>2, PartsInduction DEF Counts
<1> QED BY <1>3 DEF G

-----------------------------------------------------------------------------
(* Shares, rounded down *)

\* A table that is 0 outside one column sums up to the column, and outside one row
\* to the row.
LEMMA SumOfColumn ==
    ASSUME NEW A, NEW B, NEW f, Counts(f, A \X B), IsFiniteSet(A), NEW b \in B,
           \A p \in A \X B : p[2] # b => f[p] = 0,
           NEW g, \A a \in A : g[a] = f[<<a, b>>]
    PROVE  SumFunctionOnSet(f, A \X B) = SumFunctionOnSet(g, A)
<1> DEFINE name == [a \in A |-> <<a, b>>]
           T    == {name[a] : a \in A}
<1>1. T \in SUBSET (A \X B) /\ \A p \in (A \X B) \ T : p[2] # b
  OBVIOUS
<1>2. SumFunctionOnSet(f, A \X B) = SumFunctionOnSet(f, T)
  BY <1>1, SumOfPart
<1>3. Counts(g, A)
  BY DEF Counts
<1>4. /\ \A x, y \in A : name[x] = name[y] => x = y
      /\ \A x \in A : f[name[x]] = g[x]
  OBVIOUS
<1> HIDE DEF name
<1>5. SumFunctionOnSet(f, T) = SumFunctionOnSet(g, A)
  BY <1>3, <1>4, SumRenamed
<1> QED BY <1>2, <1>5

LEMMA SumOfRow ==
    ASSUME NEW A, NEW B, NEW f, Counts(f, A \X B), IsFiniteSet(B), NEW a \in A,
           \A p \in A \X B : p[1] # a => f[p] = 0,
           NEW g, \A b \in B : g[b] = f[<<a, b>>]
    PROVE  SumFunctionOnSet(f, A \X B) = SumFunctionOnSet(g, B)
<1> DEFINE name == [b \in B |-> <<a, b>>]
           T    == {name[b] : b \in B}
<1>1. T \in SUBSET (A \X B) /\ \A p \in (A \X B) \ T : p[1] # a
  OBVIOUS
<1>2. SumFunctionOnSet(f, A \X B) = SumFunctionOnSet(f, T)
  BY <1>1, SumOfPart
<1>3. Counts(g, B)
  BY DEF Counts
<1>4. /\ \A x, y \in B : name[x] = name[y] => x = y
      /\ \A x \in B : f[name[x]] = g[x]
  OBVIOUS
<1> HIDE DEF name
<1>5. SumFunctionOnSet(f, T) = SumFunctionOnSet(g, B)
  BY <1>3, <1>4, SumRenamed
<1> QED BY <1>2, <1>5

\* How many elements have a property, as a sum.
LEMMA SumOfOnes ==
    ASSUME NEW S, IsFiniteSet(S), NEW T \in SUBSET S, NEW f,
           \A x \in S : f[x] = IF x \in T THEN 1 ELSE 0
    PROVE  SumFunctionOnSet(f, S) = Cardinality(T)
<1> DEFINE G == {U \in SUBSET S : SumFunctionOnSet(f, U) = Cardinality(T \cap U)}
<1>1. {} \in G
  <2>1. T \cap {} = {}
    OBVIOUS
  <2> QED BY <2>1, SumEmpty, FS_EmptySet
<1>2. ASSUME NEW U \in SUBSET S, NEW x \in S, U \in G, x \notin U
      PROVE  U \cup {x} \in G
  <2>1. IsFiniteSet(U \cup {x}) /\ IsFiniteSet(T \cap U)
    BY FS_Subset
  <2>2. Counts(f, U \cup {x})
    BY <2>1 DEF Counts
  <2>3. SumFunctionOnSet(f, U \cup {x}) = f[x] + SumFunctionOnSet(f, U)
    BY <1>2, <2>2, SumMore
  <2>4. /\ Cardinality(T \cap U) \in Nat /\ SumFunctionOnSet(f, U) = Cardinality(T \cap U)
        /\ U \cup {x} \in SUBSET S
    BY <1>2, <2>1, FS_CardinalityType
  <2>5. CASE x \in T
    <3>1. T \cap (U \cup {x}) = (T \cap U) \cup {x} /\ x \notin T \cap U
      BY <1>2, <2>5
    <3>2. Cardinality((T \cap U) \cup {x}) = Cardinality(T \cap U) + 1
      BY <2>1, <3>1, FS_AddElement
    <3>3. f[x] = 1
      BY <2>5
    <3>4. SumFunctionOnSet(f, U \cup {x}) = Cardinality(T \cap (U \cup {x}))
      <4>1. PICK n \in Nat : n = Cardinality(T \cap U)
        BY <2>4
      <4>2. Cardinality(T \cap (U \cup {x})) = n + 1
        BY <3>1, <3>2, <4>1
      <4>3. SumFunctionOnSet(f, U \cup {x}) = 1 + n
        BY <2>3, <2>4, <3>3, <4>1
      <4>4. 1 + n = n + 1
        OBVIOUS
      <4> QED BY <4>2, <4>3, <4>4
    <3> QED BY <2>4, <3>4
  <2>6. CASE x \notin T
    <3>1. T \cap (U \cup {x}) = T \cap U
      BY <2>6
    <3>2. SumFunctionOnSet(f, U \cup {x}) = Cardinality(T \cap (U \cup {x}))
      BY <2>3, <2>4, <2>6, <3>1
    <3> QED BY <2>4, <3>2
  <2> QED BY <2>5, <2>6
<1> HIDE DEF G
<1>3. S \in G
  BY <1>1, <1>2, PartsInduction
<1>4. T \cap S = T
  OBVIOUS
<1> QED BY <1>3, <1>4 DEF G

LEMMA DivisionRest ==
    ASSUME NEW n \in Nat, NEW d \in Nat \ {0}
    PROVE  n \div d \in Nat /\ n - d * (n \div d) \in 0 .. d - 1
<1>1. n \div d \in Nat
  OBVIOUS
<1>2. d * (n \div d) <= n /\ n < d * (n \div d) + d
  OBVIOUS
<1>3. d * (n \div d) \in Nat
  BY <1>1
<1> QED BY <1>1, <1>2, <1>3

LEMMA ProductType == ASSUME NEW m \in Nat, NEW n \in Nat PROVE m * n \in Nat
  OBVIOUS

LEMMA ProductOrder ==
    ASSUME NEW d \in Nat \ {0}, NEW m \in Nat, NEW n \in Nat
    PROVE  /\ d * m <= d * n => m <= n
           /\ d * m < d * n => m < n
<1>1. ASSUME m > n PROVE d * m > d * n
  <2>1. PICK k \in Nat : m = n + k /\ k >= 1
    <3>1. m - n \in Nat /\ m = n + (m - n) /\ m - n >= 1
      BY <1>1
    <3> QED BY <3>1
  <2>2. d * m = d * n + d * k
    BY <2>1
  <2>3. d * k >= 1
    BY <2>1
  <2>4. d * n \in Nat /\ d * k \in Nat
    BY <2>1
  <2> QED BY <2>2, <2>3, <2>4
<1>2. m = n => d * m = d * n
  OBVIOUS
<1>3. d * m \in Nat /\ d * n \in Nat
  OBVIOUS
<1> QED BY <1>1, <1>2, <1>3

\* What is divided in proportion to the parts of a total, rounding every share
\* down, is never exceeded by the shares, and less is left of it than there are
\* parts.
LEMMA SharesOfTotal ==
    ASSUME NEW S, NEW part, Counts(part, S), NEW amount \in Nat,
           NEW total, total = SumFunctionOnSet(part, S), total # 0,
           NEW share, \A x \in S : share[x] = (amount * part[x]) \div total
    PROVE  /\ Counts(share, S) /\ SumFunctionOnSet(share, S) <= amount
           /\ amount - SumFunctionOnSet(share, S) <= Cardinality({x \in S : part[x] > 0}) - 1
<1> DEFINE owners == {x \in S : part[x] > 0}
           rest   == [x \in S |-> amount * part[x] - total * share[x]]
           most   == [x \in S |-> IF x \in owners THEN 1 ELSE 0]
           rests  == [x \in S |-> (total - 1) * most[x]]
           whole  == [x \in S |-> total * share[x]]
           all    == [x \in S |-> amount * part[x]]
<1>1. total \in Nat \ {0} /\ total - 1 \in Nat /\ IsFiniteSet(S)
  BY SumType DEF Counts
<1>2. \A x \in S : /\ part[x] \in Nat /\ amount * part[x] \in Nat
                   /\ share[x] \in Nat /\ rest[x] \in Nat /\ rest[x] <= total - 1
                   /\ amount * part[x] = total * share[x] + rest[x]
  <2> SUFFICES ASSUME NEW x \in S
               PROVE  /\ part[x] \in Nat /\ amount * part[x] \in Nat
                      /\ share[x] \in Nat /\ rest[x] \in Nat /\ rest[x] <= total - 1
                      /\ amount * part[x] = total * share[x] + rest[x]
    OBVIOUS
  <2>1. part[x] \in Nat
    BY DEF Counts
  <2>2. PICK n : n = amount * part[x]
    OBVIOUS
  <2>3. n \in Nat
    BY <2>1, <2>2, ProductType
  <2>4. n \div total \in Nat /\ n - total * (n \div total) \in 0 .. total - 1
    BY <1>1, <2>3, DivisionRest
  <2>5. share[x] = n \div total /\ rest[x] = n - total * share[x]
    BY <2>2
  <2> HIDE DEF rest
  <2>6. PICK m : m = total * share[x]
    OBVIOUS
  <2>7. m \in Nat
    BY <1>1, <2>4, <2>5, <2>6, ProductType
  <2>8. rest[x] \in 0 .. total - 1 /\ rest[x] = n - m
    BY <2>4, <2>5, <2>6
  <2>9. n = m + rest[x] /\ rest[x] \in Nat /\ rest[x] <= total - 1
    BY <1>1, <2>3, <2>7, <2>8
  <2> QED BY <2>1, <2>2, <2>3, <2>4, <2>5, <2>6, <2>9
<1>3. \A x \in S : x \notin owners => rest[x] = 0
  <2> SUFFICES ASSUME NEW x \in S, x \notin owners PROVE rest[x] = 0
    OBVIOUS
  <2>1. part[x] = 0
    BY <1>2
  <2>2. amount * 0 = 0 /\ 0 \div total = 0 /\ total * 0 = 0
    BY <1>1
  <2> QED BY <2>1, <2>2
<1>4. Counts(share, S) /\ Counts(rest, S) /\ Counts(most, S) /\ Counts(all, S)
  BY <1>1, <1>2 DEF Counts
<1>5. \A x \in S : whole[x] \in Nat /\ rests[x] \in Nat /\ rest[x] <= rests[x]
  <2> SUFFICES ASSUME NEW x \in S
               PROVE  whole[x] \in Nat /\ rests[x] \in Nat /\ rest[x] <= rests[x]
    OBVIOUS
  <2>1. whole[x] \in Nat
    BY <1>1, <1>2, ProductType
  <2>2. CASE x \in owners
    BY <1>1, <1>2, <2>1, <2>2
  <2>3. CASE x \notin owners
    BY <1>1, <1>3, <2>1, <2>3
  <2> QED BY <2>2, <2>3
<1>6. Counts(whole, S) /\ Counts(rests, S)
  BY <1>1, <1>5 DEF Counts
<1>7. \A x \in S : all[x] = whole[x] + rest[x]
  BY <1>2
<1>8. \A x \in S : all[x] = amount * part[x] /\ whole[x] = total * share[x]
                   /\ rests[x] = (total - 1) * most[x]
  OBVIOUS
<1>9. \A x \in S : most[x] = IF x \in owners THEN 1 ELSE 0
  OBVIOUS
<1>10. owners \in SUBSET S /\ IsFiniteSet(owners) /\ Cardinality(owners) \in Nat
  BY <1>1, FS_Subset, FS_CardinalityType
<1> HIDE DEF owners, rest, most, rests, whole, all
<1>11. SumFunctionOnSet(all, S) = SumFunctionOnSet(whole, S) + SumFunctionOnSet(rest, S)
  BY <1>4, <1>6, <1>7, SumBoth
<1>12. SumFunctionOnSet(all, S) = amount * total
  BY <1>8, SumTimes
<1>13. SumFunctionOnSet(whole, S) = total * SumFunctionOnSet(share, S)
  BY <1>1, <1>4, <1>8, SumTimes
<1>14. SumFunctionOnSet(rests, S) = (total - 1) * SumFunctionOnSet(most, S)
  BY <1>1, <1>4, <1>8, SumTimes
<1>15. SumFunctionOnSet(most, S) = Cardinality(owners)
  BY <1>1, <1>9, <1>10, SumOfOnes
<1>16. SumFunctionOnSet(rest, S) <= SumFunctionOnSet(rests, S)
  BY <1>4, <1>5, <1>6, SumAtMost
<1>17. PICK q, r, k : /\ q = SumFunctionOnSet(share, S) /\ r = SumFunctionOnSet(rest, S)
                      /\ k = Cardinality(owners)
  OBVIOUS
<1>18. q \in Nat /\ r \in Nat /\ k \in Nat
  BY <1>4, <1>10, <1>17, SumType
<1>19. amount * total = total * q + r /\ r <= (total - 1) * k
  BY <1>11, <1>12, <1>13, <1>14, <1>15, <1>16, <1>17
<1>20. k # 0
  <2> SUFFICES ASSUME k = 0 PROVE FALSE
    OBVIOUS
  <2>1. owners = {}
    BY <1>10, <1>17, FS_EmptySet
  <2>2. \A x \in S : part[x] = 0
    BY <1>2, <2>1 DEF owners
  <2> QED BY <1>1, <2>2, SumZero
<1>21. q <= amount
  <2>1. total * q <= total * amount
    <3>1. amount * total = total * amount /\ total * q \in Nat
      BY <1>1, <1>18, ProductType
    <3> QED BY <1>18, <1>19, <3>1
  <2> QED BY <1>1, <1>18, <2>1, ProductOrder
<1>22. amount - q < k
  <2>1. amount - q \in Nat
    BY <1>18, <1>21
  <2>2. total * (amount - q) = r
    <3>1. total * (amount - q) = total * amount - total * q
      BY <1>1, <1>18
    <3>2. amount * total = total * amount /\ total * amount \in Nat /\ total * q \in Nat
      BY <1>1, <1>18, ProductType
    <3> QED BY <1>18, <1>19, <3>1, <3>2
  <2>3. (total - 1) * k = total * k - k
    BY <1>1, <1>18
  <2>4. total * k \in Nat
    BY <1>1, <1>18, ProductType
  <2>5. total * (amount - q) < total * k
    BY <1>18, <1>19, <1>20, <2>2, <2>3, <2>4
  <2> QED BY <1>1, <1>18, <2>1, <2>5, ProductOrder
<1>23. amount - q <= k - 1
  BY <1>18, <1>22
<1> QED BY <1>4, <1>17, <1>21, <1>23 DEF owners
=============================================================================
