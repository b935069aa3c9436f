------------------------------ MODULE SumProofs ------------------------------
(***************************************************************************)
(* What SumFunction computes, for every finite index set: the fold chooses *)
(* an order, and these lemmas say that the order does not matter.  They    *)
(* are what the proofs about ledgers and counters rest on.                 *)
(***************************************************************************)
EXTENDS Integers, Functions, FiniteSets, FiniteSetTheorems, WellFoundedInduction, TLAPS

\* Every non-empty set of naturals has a least element.
LEMMA LeastNat ==
  ASSUME NEW S, S # {}, S \subseteq Nat
  PROVE  \E k \in S : \A j \in S : k <= j
<1>1. PICK k \in S : \A j \in S : <<j, k>> \notin OpToRel(<, Nat)
  BY WFMin, NatLessThanWellFounded
<1>2. \A x, y \in Nat : <<x, y>> \in OpToRel(<, Nat) <=> x < y
  BY DEF OpToRel
<1> HIDE DEF OpToRel
<1>3. \A j \in S : ~(j < k)
  BY <1>1, <1>2
<1> QED BY <1>3

\* Induction over a set of naturals.
LEMMA NatSetInduction ==
  ASSUME NEW Q, 0 \in Q, \A n \in Nat : n \in Q => n + 1 \in Q
  PROVE  Nat \subseteq Q
<1> DEFINE Bad == Nat \ Q
<1>1. SUFFICES ASSUME Bad # {} PROVE FALSE
  OBVIOUS
<1>2. PICK k \in Bad : \A j \in Bad : k <= j
  <2>1. Bad \subseteq Nat
    OBVIOUS
  <2> QED BY <1>1, <2>1, LeastNat
<1>3. k # 0 /\ k \in Nat
  BY <1>2
<1>4. k - 1 \in Nat /\ k - 1 \in Q
  BY <1>2, <1>3
<1>5. k \in Q
  BY <1>3, <1>4
<1> QED BY <1>2, <1>5

\* Induction over the subsets of a finite set, by adding one element.
LEMMA SubsetInduction ==
  ASSUME NEW D, IsFiniteSet(D), NEW Q, {} \in Q,
         \A S \in SUBSET D : \A x \in D \ S : S \in Q => S \cup {x} \in Q
  PROVE  SUBSET D \subseteq Q
<1> DEFINE Level == {n \in Nat : \A S \in SUBSET D : Cardinality(S) = n => S \in Q}
<1>1. \A S \in SUBSET D : IsFiniteSet(S) /\ Cardinality(S) \in Nat
  BY FS_Subset, FS_CardinalityType
<1>2. 0 \in Level
  BY <1>1, FS_EmptySet
<1>3. ASSUME NEW n \in Nat, n \in Level PROVE n + 1 \in Level
  <2>1. SUFFICES ASSUME NEW S \in SUBSET D, Cardinality(S) = n + 1 PROVE S \in Q
    OBVIOUS
  <2>2. PICK x \in S : TRUE
    <3>1. S # {}
      BY <2>1, FS_EmptySet
    <3> QED BY <3>1
  <2>3. Cardinality(S \ {x}) = n
    <3>1. IsFiniteSet(S) /\ Cardinality(S) = n + 1 /\ x \in S
      BY <1>1, <2>1, <2>2
    <3>2. Cardinality(S \ {x}) = Cardinality(S) - 1
      BY <3>1, FS_RemoveElement
    <3> QED BY <3>1, <3>2
  <2>4. S \ {x} \in Q
    BY <1>3, <2>3
  <2>5. (S \ {x}) \cup {x} = S /\ x \in D \ (S \ {x}) /\ S \ {x} \in SUBSET D
    OBVIOUS
  <2> QED BY <2>4, <2>5
<1>4. Nat \subseteq Level
  <2> HIDE DEF Level
  <2> QED BY <1>2, <1>3, NatSetInduction
<1> QED BY <1>1, <1>4

-----------------------------------------------------------------------------
(* The fold.                                                                *)

Pick1(s) == CHOOSE x \in s : TRUE

\* g is the table of partial sums the fold of f over the subsets of D uses.
IsTable(g, f, D) ==
  g = [s \in SUBSET D |-> IF s = {} THEN 0 ELSE f[Pick1(s)] + g[s \ {Pick1(s)}]]

\* The fold takes a member of the set.
LEMMA PickIn == \A s : s # {} => Pick1(s) \in s
BY DEF Pick1

\* Such a table exists: it is built one cardinality at a time.
LEMMA TableExists ==
  ASSUME NEW D, IsFiniteSet(D), NEW f
  PROVE  \E g : IsTable(g, f, D)
<1> DEFINE Small(n) == {s \in SUBSET D : Cardinality(s) <= n}
           Body(g, s) == IF s = {} THEN 0 ELSE f[Pick1(s)] + g[s \ {Pick1(s)}]
           Fits(n) == \E g : g = [s \in Small(n) |-> Body(g, s)]
           Good == {n \in Nat : Fits(n)}
<1>1. \A s \in SUBSET D : IsFiniteSet(s) /\ Cardinality(s) \in Nat
  BY FS_Subset, FS_CardinalityType
<1>2. 0 \in Good
  <2>1. \A s \in Small(0) : s = {}
    BY <1>1, FS_EmptySet
  <2>2. [s \in Small(0) |-> 0] = [s \in Small(0) |-> Body([t \in Small(0) |-> 0], s)]
    BY <2>1
  <2> QED BY <2>2
<1>3. ASSUME NEW n \in Nat, n \in Good PROVE n + 1 \in Good
  <2>1. PICK g : g = [s \in Small(n) |-> Body(g, s)]
    BY <1>3
  <2> DEFINE h == [s \in Small(n + 1) |-> Body(g, s)]
  <2>2. ASSUME NEW s \in Small(n + 1) PROVE Body(g, s) = Body(h, s)
    <3>1. CASE s = {}
      BY <3>1
    <3>2. CASE s # {}
      <4> DEFINE t == s \ {Pick1(s)}
      <4>1. t \in Small(n)
        <5>1. Pick1(s) \in s
          BY <3>2, PickIn
        <5>2. Cardinality(t) = Cardinality(s) - 1
          BY <1>1, <5>1, FS_RemoveElement
        <5> QED BY <1>1, <5>2
      <4>2. t \in Small(n + 1)
        BY <1>1, <4>1
      <4>3. g[t] = Body(g, t) /\ h[t] = Body(g, t)
        <5> HIDE DEF Small, Body, t
        <5> QED BY <2>1, <4>1, <4>2
      <4> QED BY <3>2, <4>3
    <3> QED BY <3>1, <3>2
  <2>3. h = [s \in Small(n + 1) |-> Body(h, s)]
    <3>1. \A s \in Small(n + 1) : Body(g, s) = Body(h, s)
      BY <2>2
    <3> DEFINE k == [s \in Small(n + 1) |-> Body(h, s)]
    <3>2. h = k
      <4>1. DOMAIN h = Small(n + 1) /\ DOMAIN k = Small(n + 1)
        OBVIOUS
      <4> HIDE DEF Small, Body
      <4>2. \A s \in Small(n + 1) : h[s] = k[s]
        BY <3>1
      <4> QED BY <3>1
    <3> QED BY <3>2
  <2>4. Fits(n + 1)
    <3> HIDE DEF Small, Body, h
    <3> QED BY <2>3
  <2> HIDE DEF Fits
  <2> QED BY <2>4
<1>4. Cardinality(D) \in Good
  <2>1. Nat \subseteq Good
    <3> HIDE DEF Good
    <3> QED BY <1>2, <1>3, NatSetInduction
  <2> QED BY <1>1, <2>1
<1>5. Small(Cardinality(D)) = SUBSET D
  BY <1>1, FS_Subset
<1> QED BY <1>4, <1>5 DEF IsTable

\* One table serves every sub-table: the entries depend on f alone.
LEMMA TablesAgree ==
  ASSUME NEW D, IsFiniteSet(D), NEW E, E \subseteq D, NEW f, NEW h,
         \A x \in E : h[x] = f[x],
         NEW g, IsTable(g, f, D), NEW k, IsTable(k, h, E)
  PROVE  \A s \in SUBSET E : k[s] = g[s]
<1> DEFINE Q == {s \in SUBSET E : k[s] = g[s]}
           Level == {n \in Nat : \A s \in SUBSET E : Cardinality(s) = n => s \in Q}
<1>1. \A s \in SUBSET D : IsFiniteSet(s) /\ Cardinality(s) \in Nat
  BY FS_Subset, FS_CardinalityType
<1>2. \A s \in SUBSET E : s # {} => /\ k[s] = h[Pick1(s)] + k[s \ {Pick1(s)}]
                                    /\ g[s] = f[Pick1(s)] + g[s \ {Pick1(s)}]
  BY DEF IsTable
<1>3. k[{}] = 0 /\ g[{}] = 0
  BY DEF IsTable
<1>4. 0 \in Level
  BY <1>1, <1>3, FS_EmptySet
<1>5. ASSUME NEW n \in Nat, n \in Level PROVE n + 1 \in Level
  <2>1. SUFFICES ASSUME NEW s \in SUBSET E, Cardinality(s) = n + 1 PROVE s \in Q
    OBVIOUS
  <2>2. IsFiniteSet(s) /\ s # {}
    BY <1>1, <2>1, FS_EmptySet
  <2>3. Pick1(s) \in s
    BY <2>2, PickIn
  <2>4. Cardinality(s \ {Pick1(s)}) = n
    <3>1. Cardinality(s \ {Pick1(s)}) = Cardinality(s) - 1
      BY <2>2, <2>3, FS_RemoveElement
    <3> QED BY <2>1, <3>1
  <2>5. s \ {Pick1(s)} \in Q
    BY <1>5, <2>4
  <2> QED BY <1>2, <2>2, <2>3, <2>5
<1>6. Nat \subseteq Level
  <2> HIDE DEF Level
  <2> QED BY <1>4, <1>5, NatSetInduction
<1> QED BY <1>1, <1>6

\* The entries of the table g of f are the same whichever element is taken first.
AnyOrder(g, f, D) ==
  \A s \in SUBSET D : g[s] \in Int /\ \A x \in s : g[s] = f[x] + g[s \ {x}]

\* A table of integers may take its elements in any order.
LEMMA TableStep ==
  ASSUME NEW D, IsFiniteSet(D), NEW f, \A x \in D : f[x] \in Int, NEW g, IsTable(g, f, D)
  PROVE  AnyOrder(g, f, D)
<1> DEFINE Ok(s) == g[s] \in Int /\ \A x \in s : g[s] = f[x] + g[s \ {x}]
           Level == {n \in Nat : \A s \in SUBSET D : Cardinality(s) <= n => Ok(s)}
<1>1. \A s \in SUBSET D : IsFiniteSet(s) /\ Cardinality(s) \in Nat
  BY FS_Subset, FS_CardinalityType
<1>2. \A s \in SUBSET D : s # {} => g[s] = f[Pick1(s)] + g[s \ {Pick1(s)}]
  BY DEF IsTable
<1>3. g[{}] = 0
  BY DEF IsTable
<1>4. 0 \in Level
  <2>1. \A s \in SUBSET D : Cardinality(s) <= 0 => s = {}
    <3>1. TAKE s \in SUBSET D
    <3>2. HAVE Cardinality(s) <= 0
    <3>3. Cardinality(s) = 0
      BY <1>1, <3>2
    <3> QED BY <1>1, <3>3, FS_EmptySet
  <2>2. Ok({})
    BY <1>3
  <2> HIDE DEF Ok
  <2> QED BY <2>1, <2>2
<1>5. ASSUME NEW n \in Nat, n \in Level PROVE n + 1 \in Level
  <2>1. SUFFICES ASSUME NEW s \in SUBSET D, Cardinality(s) = n + 1 PROVE Ok(s)
    <3> HIDE DEF Ok
    <3>1. \A s \in SUBSET D : Cardinality(s) <= n + 1 => Cardinality(s) <= n \/ Cardinality(s) = n + 1
      BY <1>1
    <3> QED BY <1>5, <3>1
  <2>2. IsFiniteSet(s) /\ s # {}
    BY <1>1, <2>1, FS_EmptySet
  <2> DEFINE p == Pick1(s)
  <2>3. p \in s
    BY <2>2, PickIn
  <2>4. g[s] = f[p] + g[s \ {p}]
    BY <1>2, <2>2
  <2> HIDE DEF p, Ok
  <2>5. \A x \in s : Ok(s \ {x})
    <3>1. TAKE x \in s
    <3>2. Cardinality(s \ {x}) = Cardinality(s) - 1
      BY <2>2, <3>1, FS_RemoveElement
    <3>3. Cardinality(s \ {x}) <= n
      BY <2>1, <3>2
    <3> QED BY <1>5, <3>3
  <2>6. g[s] \in Int
    <3>1. g[s \ {p}] \in Int
      BY <2>3, <2>5 DEF Ok
    <3>2. f[p] \in Int
      BY <2>3
    <3> QED BY <2>4, <3>1, <3>2
  <2>7. ASSUME NEW x \in s PROVE g[s] = f[x] + g[s \ {x}]
    <3>1. CASE x = p
      BY <3>1, <2>4
    <3>2. CASE x # p
      <4> DEFINE rest == (s \ {x}) \ {p}
      <4>1. rest = (s \ {p}) \ {x} /\ p \in s \ {x} /\ x \in s \ {p}
        BY <2>3, <3>2
      <4>2. g[s \ {x}] = f[p] + g[rest]
        BY <2>5, <4>1 DEF Ok
      <4>3. g[s \ {p}] = f[x] + g[rest]
        BY <2>3, <2>5, <4>1 DEF Ok
      <4>4. rest \in SUBSET D /\ rest = (s \ {x}) \ {p}
        OBVIOUS
      <4>5. g[rest] \in Int
        <5>1. Cardinality(s \ {x}) = n
          <6>1. Cardinality(s \ {x}) = Cardinality(s) - 1
            BY <2>2, FS_RemoveElement
          <6> QED BY <2>1, <6>1
        <5>2. IsFiniteSet(s \ {x})
          BY <2>2, FS_RemoveElement
        <5>3. Cardinality(rest) = Cardinality(s \ {x}) - 1
          BY <4>1, <5>2, FS_RemoveElement
        <5>4. Cardinality(rest) <= n
          BY <5>1, <5>3
        <5> HIDE DEF rest
        <5>5. Ok(rest)
          BY <1>5, <4>4, <5>4
        <5> QED BY <5>5 DEF Ok
      <4>6. f[x] \in Int /\ f[p] \in Int
        BY <2>3
      <4> HIDE DEF rest
      <4> QED BY <2>4, <4>2, <4>3, <4>5, <4>6
    <3> QED BY <3>1, <3>2
  <2> QED BY <2>6, <2>7 DEF Ok
<1>6. Nat \subseteq Level
  <2> HIDE DEF Level
  <2> QED BY <1>4, <1>5, NatSetInduction
<1>7. \A s \in SUBSET D : Ok(s)
  <2> HIDE DEF Ok
  <2> QED BY <1>1, <1>6
<1> QED BY <1>7 DEF AnyOrder

-----------------------------------------------------------------------------
(* SumFunction.                                                             *)

\* SumFunction reads the last entry of a table.
LEMMA SumTable ==
  ASSUME NEW f, IsFiniteSet(DOMAIN f)
  PROVE  \E g : IsTable(g, f, DOMAIN f) /\ SumFunction(f) = g[DOMAIN f]
<1> DEFINE D == DOMAIN f
           g == CHOOSE iter : IsTable(iter, f, D)
<1>1. SumFunction(f) = g[D]
  BY DEF SumFunction, SumFunctionOnSet, FoldFunctionOnSet, MapThenFoldSet, IsTable, Pick1
<1>2. IsTable(g, f, D)
  BY TableExists
<1> QED BY <1>1, <1>2

\* An integer function is summed with a table that takes its elements in any order.
LEMMA SumOrder ==
  ASSUME NEW f, NEW D, DOMAIN f = D, IsFiniteSet(D), \A x \in D : f[x] \in Int
  PROVE  \E g : IsTable(g, f, D) /\ AnyOrder(g, f, D) /\ SumFunction(f) = g[D]
BY SumTable, TableStep

\* Nothing sums to zero.
LEMMA SumEmpty ==
  ASSUME NEW f, DOMAIN f = {}
  PROVE  SumFunction(f) = 0
<1>1. IsFiniteSet(DOMAIN f)
  BY FS_EmptySet
<1>2. PICK g : IsTable(g, f, DOMAIN f) /\ SumFunction(f) = g[DOMAIN f]
  BY <1>1, SumTable
<1>3. {} \in SUBSET (DOMAIN f)
  OBVIOUS
<1> QED BY <1>2, <1>3 DEF IsTable

\* A sum of integers is an integer.
LEMMA SumInt ==
  ASSUME NEW f, IsFiniteSet(DOMAIN f), \A x \in DOMAIN f : f[x] \in Int
  PROVE  SumFunction(f) \in Int
<1>1. PICK g : AnyOrder(g, f, DOMAIN f) /\ SumFunction(f) = g[DOMAIN f]
  BY SumOrder
<1> QED BY <1>1 DEF AnyOrder

\* Two functions that agree have the same sum.
LEMMA SumSame ==
  ASSUME NEW D, NEW f, NEW h, DOMAIN f = D, DOMAIN h = D, IsFiniteSet(D),
         \A x \in D : f[x] = h[x]
  PROVE  SumFunction(f) = SumFunction(h)
<1>1. PICK g : IsTable(g, f, D) /\ SumFunction(f) = g[D]
  BY SumTable
<1>2. PICK k : IsTable(k, h, D) /\ SumFunction(h) = k[D]
  BY SumTable
<1>3. \A s \in SUBSET D : k[s] = g[s]
  <2>1. D \subseteq D /\ \A x \in D : h[x] = f[x]
    OBVIOUS
  <2>2. IsTable(g, f, D) /\ IsTable(k, h, D)
    BY <1>1, <1>2
  <2> QED BY <2>1, <2>2, TablesAgree
<1>4. k[D] = g[D]
  <2>1. D \in SUBSET D
    OBVIOUS
  <2> QED BY <1>3, <2>1
<1> QED BY <1>1, <1>2, <1>4

\* One element may be taken out of a sum, whichever it is.
LEMMA SumSplit ==
  ASSUME NEW D, IsFiniteSet(D), NEW f, DOMAIN f = D, \A x \in D : f[x] \in Int,
         NEW x \in D, NEW h, DOMAIN h = D \ {x}, \A y \in D \ {x} : h[y] = f[y]
  PROVE  SumFunction(f) = f[x] + SumFunction(h)
<1>1. PICK g : IsTable(g, f, D) /\ AnyOrder(g, f, D) /\ SumFunction(f) = g[D]
  BY SumOrder
<1>2. IsFiniteSet(D \ {x})
  BY FS_RemoveElement
<1>3. PICK k : IsTable(k, h, D \ {x}) /\ SumFunction(h) = k[D \ {x}]
  BY <1>2, SumTable
<1>4. \A s \in SUBSET (D \ {x}) : k[s] = g[s]
  <2>1. D \ {x} \subseteq D
    OBVIOUS
  <2>2. IsTable(g, f, D) /\ IsTable(k, h, D \ {x})
    BY <1>1, <1>3
  <2> QED BY <2>1, <2>2, TablesAgree
<1>5. g[D] = f[x] + g[D \ {x}]
  <2>1. D \in SUBSET D
    OBVIOUS
  <2> QED BY <1>1, <2>1 DEF AnyOrder
<1> QED BY <1>1, <1>3, <1>4, <1>5

\* A change of one element changes the sum by as much.
LEMMA SumChange ==
  ASSUME NEW D, IsFiniteSet(D), NEW f, NEW h, DOMAIN f = D, DOMAIN h = D,
         NEW x \in D, \A y \in D : f[y] \in Int /\ h[y] \in Int,
         \A y \in D \ {x} : h[y] = f[y]
  PROVE  SumFunction(h) = SumFunction(f) - f[x] + h[x]
<1> DEFINE rest == [y \in D \ {x} |-> f[y]]
<1>1. DOMAIN rest = D \ {x} /\ \A y \in D \ {x} : rest[y] = f[y] /\ rest[y] = h[y]
  OBVIOUS
<1> HIDE DEF rest
<1>2. SumFunction(f) = f[x] + SumFunction(rest)
  BY <1>1, SumSplit
<1>3. SumFunction(h) = h[x] + SumFunction(rest)
  BY <1>1, SumSplit
<1>4. SumFunction(rest) \in Int
  <2>1. IsFiniteSet(DOMAIN rest)
    BY <1>1, FS_RemoveElement
  <2>2. \A y \in DOMAIN rest : rest[y] \in Int
    BY <1>1
  <2> QED BY <2>1, <2>2, SumInt
<1>5. f[x] \in Int /\ h[x] \in Int
  OBVIOUS
<1> QED BY <1>2, <1>3, <1>4, <1>5

\* A sum over a subset grows by the element that joins it.
LEMMA SumGrow ==
  ASSUME NEW f, IsFiniteSet(DOMAIN f), \A y \in DOMAIN f : f[y] \in Int,
         NEW S \in SUBSET (DOMAIN f), NEW x \in DOMAIN f, x \notin S
  PROVE  /\ SumFunction(Restrict(f, S \cup {x})) = f[x] + SumFunction(Restrict(f, S))
         /\ SumFunction(Restrict(f, S)) \in Int
<1> DEFINE B == S \cup {x}
           whole == Restrict(f, B)
           part == Restrict(f, S)
<1>1. IsFiniteSet(B) /\ IsFiniteSet(S)
  <2>1. B \subseteq DOMAIN f
    OBVIOUS
  <2> QED BY <2>1, FS_Subset
<1>2. DOMAIN whole = B /\ \A y \in B : whole[y] \in Int /\ whole[y] = f[y]
  BY DEF Restrict
<1>3. DOMAIN part = S /\ \A y \in S : part[y] \in Int /\ part[y] = f[y]
  BY DEF Restrict
<1>4. S = B \ {x} /\ x \in B
  OBVIOUS
<1> HIDE DEF B, whole, part
<1>5. SumFunction(whole) = whole[x] + SumFunction(part)
  <2>1. DOMAIN part = B \ {x} /\ \A y \in B \ {x} : part[y] = whole[y]
    <3>1. \A y \in S : y \in B
      BY <1>4
    <3> QED BY <1>2, <1>3, <1>4, <3>1
  <2> QED BY <1>1, <1>2, <1>4, <2>1, SumSplit
<1>6. SumFunction(part) \in Int
  BY <1>1, <1>3, SumInt
<1>7. whole[x] = f[x]
  BY <1>2, <1>4
<1> QED BY <1>5, <1>6, <1>7 DEF B, whole, part

\* A function is its restriction to its own domain.
LEMMA RestrictSelf ==
  ASSUME NEW f, f = [x \in DOMAIN f |-> f[x]]
  PROVE  Restrict(f, DOMAIN f) = f
BY DEF Restrict

\* The sum of two functions is the sum of their sums.
LEMMA SumAdd ==
  ASSUME NEW D, IsFiniteSet(D), NEW f \in [D -> Int], NEW h \in [D -> Int]
  PROVE  SumFunction([x \in D |-> f[x] + h[x]]) = SumFunction(f) + SumFunction(h)
<1> DEFINE k == [x \in D |-> f[x] + h[x]]
           Q == {S \in SUBSET D : SumFunction(Restrict(k, S)) =
                    SumFunction(Restrict(f, S)) + SumFunction(Restrict(h, S))}
<1>1. DOMAIN k = D /\ \A x \in D : k[x] = f[x] + h[x] /\ k[x] \in Int
  OBVIOUS
<1>2. DOMAIN f = D /\ DOMAIN h = D /\ \A x \in D : f[x] \in Int /\ h[x] \in Int
  OBVIOUS
<1>3. k = [x \in D |-> k[x]]
  OBVIOUS
<1> HIDE DEF k
<1>4. {} \in Q
  <2>1. \A u : SumFunction(Restrict(u, {})) = 0
    <3>1. TAKE u
    <3>2. DOMAIN Restrict(u, {}) = {}
      BY DEF Restrict
    <3> QED BY <3>2, SumEmpty
  <2> QED BY <2>1
<1>5. ASSUME NEW S \in SUBSET D, NEW x \in D \ S, S \in Q PROVE S \cup {x} \in Q
  <2>1. /\ SumFunction(Restrict(f, S \cup {x})) = f[x] + SumFunction(Restrict(f, S))
        /\ SumFunction(Restrict(f, S)) \in Int
    BY <1>2, SumGrow
  <2>2. /\ SumFunction(Restrict(h, S \cup {x})) = h[x] + SumFunction(Restrict(h, S))
        /\ SumFunction(Restrict(h, S)) \in Int
    BY <1>2, SumGrow
  <2>3. SumFunction(Restrict(k, S \cup {x})) = k[x] + SumFunction(Restrict(k, S))
    BY <1>1, SumGrow
  <2>4. f[x] \in Int /\ h[x] \in Int /\ k[x] = f[x] + h[x]
    BY <1>1, <1>2
  <2>5. SumFunction(Restrict(k, S)) = SumFunction(Restrict(f, S)) + SumFunction(Restrict(h, S))
    BY <1>5
  <2>6. SumFunction(Restrict(k, S \cup {x})) =
           SumFunction(Restrict(f, S \cup {x})) + SumFunction(Restrict(h, S \cup {x}))
    BY <2>1, <2>2, <2>3, <2>4, <2>5
  <2> QED BY <2>6
<1>6. D \in Q
  <2> HIDE DEF Q
  <2>1. SUBSET D \subseteq Q
    BY <1>4, <1>5, SubsetInduction
  <2> QED BY <2>1
<1>7. Restrict(k, D) = k /\ Restrict(f, D) = f /\ Restrict(h, D) = h
  BY <1>3 DEF Restrict
<1> QED BY <1>6, <1>7 DEF k

\* Zeros may be left out of a sum.
LEMMA SumExtend ==
  ASSUME NEW D, IsFiniteSet(D), NEW f \in [D -> Int], NEW E \in SUBSET D,
         \A x \in D \ E : f[x] = 0
  PROVE  SumFunction(f) = SumFunction(Restrict(f, E))
<1> DEFINE Q == {X \in SUBSET (D \ E) :
                   SumFunction(Restrict(f, E \cup X)) = SumFunction(Restrict(f, E))}
<1>1. DOMAIN f = D /\ \A x \in D : f[x] \in Int
  OBVIOUS
<1>2. {} \in Q
  OBVIOUS
<1>3. ASSUME NEW X \in SUBSET (D \ E), NEW x \in (D \ E) \ X, X \in Q
      PROVE  X \cup {x} \in Q
  <2> DEFINE S == E \cup X
  <2>1. S \in SUBSET D /\ x \in D /\ x \notin S
    OBVIOUS
  <2>2. E \cup (X \cup {x}) = S \cup {x}
    OBVIOUS
  <2>3. SumFunction(Restrict(f, S)) = SumFunction(Restrict(f, E))
    BY <1>3
  <2> HIDE DEF S
  <2>4. /\ SumFunction(Restrict(f, S \cup {x})) = f[x] + SumFunction(Restrict(f, S))
        /\ SumFunction(Restrict(f, S)) \in Int
    BY <1>1, <2>1, SumGrow
  <2>5. f[x] = 0
    OBVIOUS
  <2>6. SumFunction(Restrict(f, E \cup (X \cup {x}))) = SumFunction(Restrict(f, E))
    <3>1. SumFunction(Restrict(f, S \cup {x})) = SumFunction(Restrict(f, S))
      BY <2>4, <2>5
    <3> QED BY <2>2, <2>3, <3>1
  <2> QED BY <2>6
<1>4. D \ E \in Q
  <2> HIDE DEF Q
  <2>1. IsFiniteSet(D \ E)
    <3>1. D \ E \subseteq D
      OBVIOUS
    <3> QED BY <3>1, FS_Subset
  <2>2. SUBSET (D \ E) \subseteq Q
    BY <1>2, <1>3, <2>1, SubsetInduction
  <2> QED BY <2>2
<1>5. E \cup (D \ E) = D /\ Restrict(f, D) = f
  BY DEF Restrict
<1> QED BY <1>4, <1>5

\* The integers f over D are those h over E under the names m gives them.
Renames(m, D, E, f, h) ==
  /\ f \in [D -> Int] /\ h \in [E -> Int] /\ m \in Bijection(D, E)
  /\ \A x \in D : f[x] = h[m[x]]

\* A sum does not depend on the names of its indices.
LEMMA SumRename ==
  ASSUME NEW D, IsFiniteSet(D), NEW E, IsFiniteSet(E), NEW f, NEW h, NEW m,
         Renames(m, D, E, f, h)
  PROVE  SumFunction(f) = SumFunction(h)
<1>0. /\ m \in [D -> E] /\ \A x, y \in D : m[x] = m[y] => x = y
      /\ \A z \in E : \E x \in D : m[x] = z
      /\ f \in [D -> Int] /\ h \in [E -> Int] /\ \A x \in D : f[x] = h[m[x]]
  BY DEF Renames, Bijection, Injection, Surjection, IsInjective
<1> DEFINE To(S) == {m[x] : x \in S}
           Q == {S \in SUBSET D : SumFunction(Restrict(f, S)) = SumFunction(Restrict(h, To(S)))}
<1>1. DOMAIN f = D /\ \A x \in D : f[x] \in Int
  BY <1>0
<1>2. DOMAIN h = E /\ \A x \in E : h[x] \in Int
  BY <1>0
<1>3. To(D) = E
  BY <1>0
<1>4. IsFiniteSet(E)
  OBVIOUS
<1>5. {} \in Q
  <2>1. \A u : SumFunction(Restrict(u, {})) = 0
    <3>1. TAKE u
    <3>2. DOMAIN Restrict(u, {}) = {}
      BY DEF Restrict
    <3> QED BY <3>2, SumEmpty
  <2>2. To({}) = {}
    OBVIOUS
  <2> QED BY <2>1, <2>2
<1>6. ASSUME NEW S \in SUBSET D, NEW x \in D \ S, S \in Q PROVE S \cup {x} \in Q
  <2>1. To(S) \in SUBSET E /\ m[x] \in E /\ m[x] \notin To(S)
    BY <1>0
  <2>2. To(S \cup {x}) = To(S) \cup {m[x]}
    OBVIOUS
  <2>3. SumFunction(Restrict(f, S)) = SumFunction(Restrict(h, To(S)))
    BY <1>6
  <2> HIDE DEF To, Q
  <2>4. SumFunction(Restrict(f, S \cup {x})) = f[x] + SumFunction(Restrict(f, S))
    BY <1>1, SumGrow
  <2>5. SumFunction(Restrict(h, To(S) \cup {m[x]})) = h[m[x]] + SumFunction(Restrict(h, To(S)))
    BY <1>2, <1>4, <2>1, SumGrow
  <2>6. SumFunction(Restrict(f, S \cup {x})) = SumFunction(Restrict(h, To(S \cup {x})))
    BY <1>0, <2>2, <2>3, <2>4, <2>5
  <2> QED BY <2>6 DEF Q
<1>7. D \in Q
  <2> HIDE DEF Q
  <2>1. SUBSET D \subseteq Q
    BY <1>5, <1>6, SubsetInduction
  <2> QED BY <2>1
<1>8. Restrict(f, D) = f /\ Restrict(h, E) = h
  BY <1>0 DEF Restrict
<1> QED BY <1>3, <1>7, <1>8

\* A sum over two parts is the sum of the parts.
LEMMA SumParts ==
  ASSUME NEW D, IsFiniteSet(D), NEW f \in [D -> Int], NEW E \in SUBSET D
  PROVE  SumFunction(f) = SumFunction(Restrict(f, E)) + SumFunction(Restrict(f, D \ E))
<1> DEFINE in == [x \in D |-> IF x \in E THEN f[x] ELSE 0]
           out == [x \in D |-> IF x \in E THEN 0 ELSE f[x]]
<1>1. in \in [D -> Int] /\ out \in [D -> Int]
  OBVIOUS
<1>2. f = [x \in D |-> in[x] + out[x]]
  OBVIOUS
<1>3. Restrict(in, E) = Restrict(f, E) /\ Restrict(out, D \ E) = Restrict(f, D \ E)
  BY DEF Restrict
<1>4. \A x \in D \ E : in[x] = 0
  OBVIOUS
<1>5. \A x \in D \ (D \ E) : out[x] = 0
  OBVIOUS
<1> HIDE DEF in, out
<1>6. SumFunction(f) = SumFunction(in) + SumFunction(out)
  BY <1>1, <1>2, SumAdd
<1>7. SumFunction(in) = SumFunction(Restrict(in, E))
  BY <1>1, <1>4, SumExtend
<1>8. SumFunction(out) = SumFunction(Restrict(out, D \ E))
  <2>1. D \ E \in SUBSET D
    OBVIOUS
  <2> QED BY <1>1, <1>5, <2>1, SumExtend
<1> QED BY <1>3, <1>6, <1>7, <1>8

\* The sum over a sequence with another appended to it.
LEMMA SumConcat ==
  ASSUME NEW m \in Nat, NEW n \in Nat, NEW f \in [1..(m + n) -> Int],
         NEW h \in [1..m -> Int], NEW k \in [1..n -> Int],
         \A i \in 1..m : f[i] = h[i], \A i \in 1..n : f[m + i] = k[i]
  PROVE  SumFunction(f) = SumFunction(h) + SumFunction(k)
<1> DEFINE D == 1..(m + n)
           tail == Restrict(f, D \ (1..m))
<1>1. IsFiniteSet(D) /\ IsFiniteSet(1..n)
  BY FS_Interval
<1>2. 1..m \in SUBSET D
  OBVIOUS
<1>3. SumFunction(f) = SumFunction(Restrict(f, 1..m)) + SumFunction(tail)
  BY <1>1, <1>2, SumParts
<1>4. Restrict(f, 1..m) = h
  BY <1>2 DEF Restrict
<1>5. SumFunction(k) = SumFunction(tail)
  <2> DEFINE shift == [i \in 1..n |-> m + i]
             E == D \ (1..m)
  <2>1. tail \in [E -> Int]
    BY DEF Restrict
  <2>2. shift \in [1..n -> E]
    OBVIOUS
  <2>3. \A i, j \in 1..n : shift[i] = shift[j] => i = j
    OBVIOUS
  <2>4. shift \in Bijection(1..n, E)
    <3>1. \A z \in E : \E i \in 1..n : shift[i] = z
      <4>1. TAKE z \in E
      <4>2. z - m \in 1..n /\ shift[z - m] = z
        OBVIOUS
      <4> QED BY <4>2
    <3> HIDE DEF shift, E
    <3> QED BY <2>2, <2>3, <3>1 DEF Bijection, Injection, Surjection, IsInjective
  <2>5. \A i \in 1..n : k[i] = tail[shift[i]]
    BY <2>2 DEF Restrict
  <2> HIDE DEF tail, shift, E
  <2>6. IsFiniteSet(1..n) /\ IsFiniteSet(E)
    <3>1. E \subseteq D
      BY DEF E
    <3> QED BY <1>1, <3>1, FS_Subset
  <2>7. Renames(shift, 1..n, E, k, tail)
    BY <2>1, <2>4, <2>5 DEF Renames
  <2> QED BY <2>6, <2>7, SumRename
<1> QED BY <1>3, <1>4, <1>5

\* The sum over a sequence with one more element.
LEMMA SumAppend ==
  ASSUME NEW n \in Nat, NEW f \in [1..(n + 1) -> Int], NEW h \in [1..n -> Int],
         \A i \in 1..n : f[i] = h[i]
  PROVE  SumFunction(f) = SumFunction(h) + f[n + 1]
<1> DEFINE D == 1..(n + 1)
           x == n + 1
<1>1. IsFiniteSet(D) /\ IsFiniteSet(1..n)
  BY FS_Interval
<1>2. x \in D /\ x \notin 1..n /\ 1..n \in SUBSET D /\ (1..n) \cup {x} = D
  OBVIOUS
<1>3. DOMAIN f = D /\ f = [i \in D |-> f[i]] /\ (\A i \in D : f[i] \in Int)
  OBVIOUS
<1>4. Restrict(f, 1..n) = h
  BY <1>2 DEF Restrict
<1> HIDE DEF D, x
<1>5. /\ SumFunction(Restrict(f, (1..n) \cup {x})) = f[x] + SumFunction(Restrict(f, 1..n))
      /\ SumFunction(Restrict(f, 1..n)) \in Int
  BY <1>1, <1>2, <1>3, SumGrow
<1>6. Restrict(f, D) = f
  BY <1>3, RestrictSelf
<1>7. f[x] \in Int
  BY <1>2, <1>3
<1>8. SumFunction(f) = f[x] + SumFunction(h) /\ SumFunction(h) \in Int
  BY <1>2, <1>4, <1>5, <1>6
<1> QED BY <1>7, <1>8 DEF x

\* Functions that cancel in every element cancel in their sums.
LEMMA SumCancel ==
  ASSUME NEW D, IsFiniteSet(D), NEW f \in [D -> Int], NEW h \in [D -> Int],
         \A x \in D : f[x] + h[x] = 0
  PROVE  SumFunction(f) + SumFunction(h) = 0
<1> DEFINE k == [x \in D |-> f[x] + h[x]]
<1>1. SumFunction(k) = SumFunction(f) + SumFunction(h)
  BY SumAdd
<1>2. k \in [D -> Int] /\ \A x \in D : k[x] = 0
  OBVIOUS
<1> HIDE DEF k
<1>3. SumFunction(k) = SumFunction(Restrict(k, {}))
  <2>1. {} \in SUBSET D /\ \A x \in D \ {} : k[x] = 0
    BY <1>2
  <2> QED BY <1>2, <2>1, SumExtend
<1>4. DOMAIN Restrict(k, {}) = {}
  BY DEF Restrict
<1> QED BY <1>1, <1>3, <1>4, SumEmpty

\* One term less.
LEMMA SumLess ==
  ASSUME NEW E, NEW g, NEW k, NEW x, IsFiniteSet(E), DOMAIN g = E, x \in E, \A y \in E : g[y] \in Int,
         DOMAIN k = E \ {x}, \A y \in E \ {x} : k[y] = g[y]
  PROVE  SumFunction(g) = g[x] + SumFunction(k)
<1>1. PICK F \in {E} : IsFiniteSet(F) /\ x \in F
  OBVIOUS
<1>2. DOMAIN g = F /\ \A y \in F : g[y] \in Int
  BY <1>1
<1>3. DOMAIN k = F \ {x} /\ \A y \in F \ {x} : k[y] = g[y]
  BY <1>1
<1>4. IsFiniteSet(F)
  BY <1>1
<1> QED BY ONLY <1>1, <1>2, <1>3, <1>4, SumSplit
=============================================================================
