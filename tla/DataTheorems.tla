----------------------------- MODULE DataTheorems -----------------------------
(***************************************************************************)
(* What the proofs keep needing about the data of the contracts: numbers   *)
(* and sums, and lists of checkpoints.                                     *)
(*                                                                         *)
(* The least and the greatest number of a set, the principle of induction  *)
(* for sets of numbers, and from it the sums that the community modules    *)
(* compute by a fold: a sum over a finite set exists, does not depend on   *)
(* the order, and grows by what a new member adds.                         *)
(*                                                                         *)
(* Checkpoint lists of every length: the binary search ends at the newest  *)
(* checkpoint that is not after the block asked for, and a write changes   *)
(* no past block's value.  The search is a recursive function; its         *)
(* defining equation has at most one solution, by descent on the length of *)
(* the range that is searched, and the closed form Newest is a solution.   *)
(* Descent is the principle that a set of numbers has a least one          *)
(* (LeastNumber).                                                          *)
(***************************************************************************)
EXTENDS Integers, FiniteSets, FiniteSetsExt, FiniteSetTheorems, Checkpoints, TLAPS

(***************************************************************************)
(* A set of natural numbers that is not empty has a least element.  The    *)
(* initial segments of its members are finite sets; one is minimal.        *)
(***************************************************************************)
LEMMA LeastNumber ==
  ASSUME NEW T \in SUBSET Nat, T # {}
  PROVE  \E n \in T : \A m \in T : n <= m
<1>. DEFINE U == {0 .. n : n \in T}
<1>1. U \subseteq FiniteSubsetsOf(Nat)
  <2>1. \A n \in T : IsFiniteSet(0 .. n) /\ 0 .. n \in SUBSET Nat
    BY FS_Interval
  <2>. QED BY <2>1 DEF FiniteSubsetsOf
<1>2. U # {}
  OBVIOUS
<1>3. PICK s \in U : \A r \in U : ~ (<<r, s>> \in StrictSubsetOrdering(Nat))
  <2>. HIDE DEF U
  <2>. QED BY <1>1, <1>2, FS_StrictSubsetOrderingWellFounded, WFMin
<1>4. PICK n \in T : s = 0 .. n
  OBVIOUS
<1>5. ASSUME NEW m \in T, m < n PROVE FALSE
  <2>1. <<0 .. m, s>> \in StrictSubsetOrdering(Nat)
    <3>1. 0 .. m \in SUBSET Nat /\ s \in SUBSET Nat
      BY <1>4
    <3>2. 0 .. m \subseteq s /\ n \in s /\ n \notin 0 .. m
      BY <1>4, <1>5
    <3>. QED BY <3>1, <3>2 DEF StrictSubsetOrdering
  <2>2. 0 .. m \in U
    OBVIOUS
  <2>. QED BY <1>3, <2>1, <2>2
<1>. QED BY <1>5

(***************************************************************************)
(* Induction for a set: what contains 0 and every successor of a member is *)
(* all of Nat, because the least number outside it has a predecessor.      *)
(***************************************************************************)
LEMMA AllNumbers ==
  ASSUME NEW T \in SUBSET Nat, 0 \in T, \A n \in T : n + 1 \in T
  PROVE  T = Nat
<1>1. ASSUME Nat \ T # {} PROVE FALSE
  <2>1. PICK n \in Nat \ T : \A m \in Nat \ T : n <= m
    BY <1>1, LeastNumber
  <2>2. n # 0 /\ n - 1 \in Nat /\ n - 1 \in T
    BY <2>1
  <2>3. (n - 1) + 1 \in T
    BY <2>2
  <2>. QED BY <2>1, <2>2, <2>3
<1>. QED BY <1>1

(***************************************************************************)
(* A set of integers between two bounds has a largest element.             *)
(***************************************************************************)
LEMMA GreatestNumber ==
  ASSUME NEW low \in Int, NEW high \in Int, NEW T \in SUBSET (low .. high), T # {}
  PROVE  \E n \in T : \A m \in T : m <= n
<1>. DEFINE D == {high - n : n \in T}
<1>1. D \in SUBSET Nat /\ D # {}
  OBVIOUS
<1>2. PICK d \in D : \A e \in D : d <= e
  <2>. HIDE DEF D
  <2>. QED BY <1>1, LeastNumber
<1>3. PICK n \in T : d = high - n
  OBVIOUS
<1>4. ASSUME NEW m \in T PROVE m <= n
  <2>1. high - m \in D
    OBVIOUS
  <2>2. d <= high - m
    BY <1>2, <2>1
  <2>. QED BY <1>3, <2>2
<1>. QED BY <1>4

-------------------------------------------------------------------------------
(* Sums over finite sets.                                                  *)

\* the sum of what w assigns to the members of S
Sum(w, S) == MapThenSumSet(LAMBDA v : w[v], S)

\* the sum over s: that of one member, and of the others by f
Summed(w, f, s) ==
  IF s = {} THEN 0
  ELSE w[CHOOSE v \in s : TRUE] + f[s \ {CHOOSE v \in s : TRUE}]

SummedBy(w, A, f) == f = [s \in SUBSET A |-> Summed(w, f, s)]

(***************************************************************************)
(* A set without its chosen member has one member less.                    *)
(***************************************************************************)
LEMMA OneLess ==
  ASSUME NEW A, IsFiniteSet(A), NEW s \in SUBSET A, NEW v \in s
  PROVE  /\ Cardinality(s) \in Nat \ {0} /\ s \ {v} \in SUBSET A
         /\ Cardinality(s \ {v}) = Cardinality(s) - 1
<1>1. IsFiniteSet(s)
  BY FS_Subset
<1>2. Cardinality(s) \in Nat /\ Cardinality(s) # 0
  BY <1>1, FS_CardinalityType, FS_EmptySet
<1>. QED BY <1>1, <1>2, FS_RemoveElement

(***************************************************************************)
(* The fold is defined: sets are summed by their size.                     *)
(***************************************************************************)
LEMMA SumExists ==
  ASSUME NEW A, IsFiniteSet(A), NEW w, \A v \in A : w[v] \in Nat
  PROVE  \E f \in [SUBSET A -> Nat] : SummedBy(w, A, f)
<1>. DEFINE Solves(g, m) == \A s \in SUBSET A : Cardinality(s) <= m => g[s] = Summed(w, g, s)
            T == {m \in Nat : \E g \in [SUBSET A -> Nat] : Solves(g, m)}
<1>0. ASSUME NEW s \in SUBSET A PROVE Cardinality(s) \in Nat /\ (Cardinality(s) = 0 <=> s = {})
  BY FS_Subset, FS_CardinalityType, FS_EmptySet
<1>1. ASSUME NEW g \in [SUBSET A -> Nat], NEW s \in SUBSET A PROVE Summed(w, g, s) \in Nat
  <2>1. CASE s = {}
    BY <2>1 DEF Summed
  <2>2. CASE s # {}
    <3>. DEFINE x == CHOOSE v \in s : TRUE
    <3>1. x \in s
      BY <2>2
    <3>2. w[x] \in Nat /\ g[s \ {x}] \in Nat
      BY <3>1
    <3>. HIDE DEF x
    <3>3. w[x] + g[s \ {x}] \in Nat
      BY <3>2
    <3>. QED BY <2>2, <3>3 DEF Summed, x
  <2>. QED BY <2>1, <2>2
<1>2. 0 \in T
  <2>. DEFINE g == [s \in SUBSET A |-> 0]
  <2>1. g \in [SUBSET A -> Nat]
    OBVIOUS
  <2>2. ASSUME NEW s \in SUBSET A, Cardinality(s) <= 0 PROVE g[s] = Summed(w, g, s)
    <3>1. s = {}
      BY <1>0, <2>2
    <3>. QED BY <3>1 DEF Summed
  <2>3. Solves(g, 0)
    <3>. HIDE DEF g
    <3>. QED BY <2>2
  <2>. HIDE DEF Solves, g
  <2>. QED BY <2>1, <2>3
<1>3. ASSUME NEW m \in T PROVE m + 1 \in T
  <2>1. m \in Nat /\ \E g \in [SUBSET A -> Nat] : Solves(g, m)
    OBVIOUS
  <2>2. PICK g \in [SUBSET A -> Nat] : Solves(g, m)
    <3>. HIDE DEF Solves
    <3>. QED BY <2>1
  <2>. DEFINE h == [s \in SUBSET A |-> IF Cardinality(s) <= m THEN g[s] ELSE Summed(w, g, s)]
  <2>3. h \in [SUBSET A -> Nat]
    BY <1>1
  <2>4. ASSUME NEW s \in SUBSET A, Cardinality(s) <= m + 1
        PROVE  h[s] = Summed(w, h, s)
    <3>1. h[s] = Summed(w, g, s)
      BY <2>2
    <3>2. CASE s = {}
      <4>. HIDE DEF h
      <4>. QED BY <3>1, <3>2 DEF Summed
    <3>3. CASE s # {}
      <4>. DEFINE x == CHOOSE v \in s : TRUE
      <4>1. x \in s
        BY <3>3
      <4>2. Cardinality(s) \in Nat /\ s \ {x} \in SUBSET A /\ Cardinality(s \ {x}) = Cardinality(s) - 1
        <5>. HIDE DEF x
        <5>. QED BY <4>1, OneLess
      <4>. DEFINE n == Cardinality(s)
                  c == Cardinality(s \ {x})
      <4>3. Cardinality(s \ {x}) <= m
        <5>1. n \in Nat /\ c = n - 1 /\ n <= m + 1
          BY <2>4, <4>2
        <5>. HIDE DEF n, c
        <5>2. c <= m
          BY <2>1, <5>1
        <5>. QED BY <5>2 DEF c
      <4>4. h[s \ {x}] = g[s \ {x}]
        <5>. HIDE DEF x
        <5>. QED BY <4>2, <4>3
      <4>. HIDE DEF h
      <4>. QED BY <3>1, <4>4 DEF Summed
    <3>. QED BY <3>2, <3>3
  <2>5. Solves(h, m + 1)
    <3>. HIDE DEF h
    <3>. QED BY <2>4
  <2>. HIDE DEF Solves, h
  <2>. QED BY <2>1, <2>3, <2>5
<1>4. Cardinality(A) \in T
  <2>1. T \in SUBSET Nat
    OBVIOUS
  <2>2. Cardinality(A) \in Nat
    BY FS_CardinalityType
  <2>. HIDE DEF T
  <2>. QED BY <1>2, <1>3, <2>1, <2>2, AllNumbers
<1>5. PICK g \in [SUBSET A -> Nat] : Solves(g, Cardinality(A))
  <2>. HIDE DEF Solves
  <2>. QED BY <1>4
<1>6. \A s \in SUBSET A : g[s] = Summed(w, g, s)
  BY <1>5, FS_Subset
<1>7. g = [s \in SUBSET A |-> g[s]]
  OBVIOUS
<1>. QED BY <1>6, <1>7 DEF SummedBy

(***************************************************************************)
(* The defining equation has one solution, also on a smaller set.          *)
(***************************************************************************)
LEMMA SumUnique ==
  ASSUME NEW A, IsFiniteSet(A), NEW w, NEW B \in SUBSET A,
         NEW f, SummedBy(w, A, f), NEW g, SummedBy(w, B, g)
  PROVE  \A s \in SUBSET B : f[s] = g[s]
<1>. DEFINE T == {m \in Nat : \A s \in SUBSET B : Cardinality(s) = m => f[s] = g[s]}
<1>0. ASSUME NEW s \in SUBSET B PROVE Cardinality(s) \in Nat /\ (Cardinality(s) = 0 <=> s = {})
  BY FS_Subset, FS_CardinalityType, FS_EmptySet
<1>1. \A s \in SUBSET B : f[s] = Summed(w, f, s) /\ g[s] = Summed(w, g, s)
  <2>. DEFINE F == [s \in SUBSET A |-> Summed(w, f, s)]
              G == [s \in SUBSET B |-> Summed(w, g, s)]
  <2>1. f = F /\ g = G
    BY DEF SummedBy
  <2>2. \A s \in SUBSET B : F[s] = Summed(w, f, s) /\ G[s] = Summed(w, g, s)
    OBVIOUS
  <2>. HIDE DEF F, G
  <2>. QED BY <2>1, <2>2
<1>2. 0 \in T
  <2>1. \A s \in SUBSET B : Cardinality(s) = 0 => f[s] = 0 /\ g[s] = 0
    BY <1>0, <1>1 DEF Summed
  <2>. QED BY <2>1
<1>3. ASSUME NEW m \in T PROVE m + 1 \in T
  <2>1. ASSUME NEW s \in SUBSET B, Cardinality(s) = m + 1 PROVE f[s] = g[s]
    <3>. DEFINE x == CHOOSE v \in s : TRUE
    <3>1. s # {} /\ m \in Nat
      BY <1>0, <2>1
    <3>2. x \in s
      BY <3>1
    <3>3. s \ {x} \in SUBSET B /\ Cardinality(s \ {x}) = m
      <4>1. IsFiniteSet(B)
        BY FS_Subset
      <4>2. s \ {x} \in SUBSET B /\ Cardinality(s \ {x}) = Cardinality(s) - 1
        <5>. HIDE DEF x
        <5>. QED BY <3>2, <4>1, OneLess
      <4>. DEFINE c == Cardinality(s \ {x})
      <4>3. c = (m + 1) - 1
        BY <2>1, <4>2
      <4>. HIDE DEF c
      <4>4. c = m
        BY <3>1, <4>3
      <4>. QED BY <4>2, <4>4 DEF c
    <3>4. f[s \ {x}] = g[s \ {x}]
      <4>. HIDE DEF x
      <4>. QED BY <3>3
    <3>. QED BY <1>1, <3>1, <3>4 DEF Summed
  <2>. QED BY <2>1
<1>4. T = Nat
  <2>1. T \in SUBSET Nat
    OBVIOUS
  <2>. HIDE DEF T
  <2>. QED BY <1>2, <1>3, <2>1, AllNumbers
<1>. QED BY <1>0, <1>4

(***************************************************************************)
(* The fold computes the solution.                                         *)
(***************************************************************************)
LEMMA SumIs ==
  ASSUME NEW A, IsFiniteSet(A), NEW w, NEW f, SummedBy(w, A, f), NEW B \in SUBSET A
  PROVE  Sum(w, B) = f[B]
<1>. DEFINE g == CHOOSE h : SummedBy(w, B, h)
<1>1. Sum(w, B) = g[B]
  BY DEF Sum, MapThenSumSet, MapThenFoldSet, SummedBy, Summed
<1>2. SummedBy(w, B, [s \in SUBSET B |-> f[s]])
  <2>. DEFINE h == [s \in SUBSET B |-> f[s]]
              F == [s \in SUBSET A |-> Summed(w, f, s)]
  <2>1. f = F
    BY DEF SummedBy
  <2>2. \A s \in SUBSET B : F[s] = Summed(w, f, s)
    OBVIOUS
  <2>3. \A s \in SUBSET B : f[s] = Summed(w, f, s)
    <3>. HIDE DEF F
    <3>. QED BY <2>1, <2>2
  <2>4. \A s \in SUBSET B : Summed(w, f, s) = Summed(w, h, s)
    <3>1. \A s \in SUBSET B : \A x : f[s \ {x}] = h[s \ {x}]
      OBVIOUS
    <3>. HIDE DEF h
    <3>. QED BY <3>1 DEF Summed
  <2>5. h = [s \in SUBSET B |-> Summed(w, h, s)]
    <3>1. \A s \in SUBSET B : f[s] = Summed(w, h, s)
      BY <2>3, <2>4
    <3>2. h = [s \in SUBSET B |-> f[s]]
      OBVIOUS
    <3>. HIDE DEF h
    <3>. QED BY <3>1, <3>2
  <2>6. SummedBy(w, B, h)
    <3>. HIDE DEF h
    <3>. QED BY <2>5 DEF SummedBy
  <2>. QED BY <2>6
<1>3. SummedBy(w, B, g)
  <2>. HIDE DEF SummedBy
  <2>. QED BY <1>2
<1>. HIDE DEF g
<1>. QED BY <1>1, <1>3, SumUnique

(***************************************************************************)
(* Whichever member is taken first, the sum is the same.                   *)
(***************************************************************************)
LEMMA AnyFirst ==
  ASSUME NEW A, IsFiniteSet(A), NEW w, \A v \in A : w[v] \in Nat,
         NEW f \in [SUBSET A -> Nat], SummedBy(w, A, f),
         NEW s \in SUBSET A, NEW v \in s
  PROVE  f[s] = w[v] + f[s \ {v}]
<1>. DEFINE Ok(r) == \A u \in r : f[r] = w[u] + f[r \ {u}]
            T == {m \in Nat : \A r \in SUBSET A : Cardinality(r) = m => Ok(r)}
<1>0. ASSUME NEW r \in SUBSET A PROVE Cardinality(r) \in Nat /\ (Cardinality(r) = 0 <=> r = {})
  BY FS_Subset, FS_CardinalityType, FS_EmptySet
<1>1. \A r \in SUBSET A : f[r] = Summed(w, f, r)
  <2>. DEFINE F == [r \in SUBSET A |-> Summed(w, f, r)]
  <2>1. f = F
    BY DEF SummedBy
  <2>2. \A r \in SUBSET A : F[r] = Summed(w, f, r)
    OBVIOUS
  <2>. HIDE DEF F
  <2>. QED BY <2>1, <2>2
<1>2. 0 \in T
  BY <1>0
<1>3. ASSUME NEW m \in T PROVE m + 1 \in T
  <2>1. ASSUME NEW r \in SUBSET A, Cardinality(r) = m + 1, NEW u \in r
        PROVE  f[r] = w[u] + f[r \ {u}]
    <3>1. PICK x \in r : f[r] = w[x] + f[r \ {x}]
      <4>. DEFINE x == CHOOSE y \in r : TRUE
      <4>1. x \in r
        OBVIOUS
      <4>2. f[r] = w[x] + f[r \ {x}]
        BY <1>1 DEF Summed
      <4>. HIDE DEF x
      <4>. QED BY <4>1, <4>2
    <3>2. CASE x = u
      BY <3>1, <3>2
    <3>3. CASE x # u
      <4>1. ASSUME NEW y \in r PROVE r \ {y} \in SUBSET A /\ Cardinality(r \ {y}) = m
        <5>1. r \ {y} \in SUBSET A /\ Cardinality(r \ {y}) = (m + 1) - 1 /\ m \in Nat
          BY <2>1, OneLess
        <5>. DEFINE c == Cardinality(r \ {y})
        <5>2. c = (m + 1) - 1 /\ m \in Nat
          BY <5>1
        <5>. HIDE DEF c
        <5>3. c = m
          BY <5>2
        <5>. QED BY <5>1, <5>3 DEF c
      <4>2. /\ f[r \ {x}] = w[u] + f[(r \ {x}) \ {u}]
            /\ f[r \ {u}] = w[x] + f[(r \ {u}) \ {x}]
        BY <3>3, <4>1
      <4>3. (r \ {x}) \ {u} = (r \ {u}) \ {x}
        OBVIOUS
      <4>. DEFINE rest == f[(r \ {u}) \ {x}]
                  a == w[x]
                  b == w[u]
                  c == f[r \ {x}]
                  d == f[r \ {u}]
      <4>4. rest \in Nat /\ a \in Nat /\ b \in Nat /\ c = b + rest /\ d = a + rest /\ f[r] = a + c
        BY <3>1, <4>2, <4>3
      <4>. HIDE DEF rest, a, b, c, d
      <4>5. f[r] = b + d
        BY <4>4
      <4>. QED BY <4>5 DEF b, d
    <3>. QED BY <3>2, <3>3
  <2>. QED BY <2>1
<1>4. T = Nat
  <2>1. T \in SUBSET Nat
    OBVIOUS
  <2>. HIDE DEF T
  <2>. QED BY <1>2, <1>3, <2>1, AllNumbers
<1>5. Ok(s)
  <2>. HIDE DEF Ok
  <2>. QED BY <1>0, <1>4
<1>. QED BY <1>5

(***************************************************************************)
(* The sum over no member is zero; another member adds what it has.        *)
(***************************************************************************)
LEMMA SumAdds ==
  ASSUME NEW A, IsFiniteSet(A), NEW w, \A v \in A : w[v] \in Nat,
         NEW S \in SUBSET A, NEW v \in A \ S
  PROVE  /\ Sum(w, {}) = 0
         /\ Sum(w, S) \in Nat
         /\ Sum(w, S \cup {v}) = Sum(w, S) + w[v]
<1>1. PICK f \in [SUBSET A -> Nat] : SummedBy(w, A, f)
  BY SumExists
<1>2. /\ Sum(w, S) = f[S] /\ Sum(w, S \cup {v}) = f[S \cup {v}] /\ Sum(w, {}) = f[{}]
      /\ f[S] \in Nat /\ w[v] \in Nat
  BY <1>1, SumIs
<1>3. f[S \cup {v}] = w[v] + f[(S \cup {v}) \ {v}]
  BY <1>1, AnyFirst
<1>4. (S \cup {v}) \ {v} = S
  OBVIOUS
<1>5. f[{}] = 0
  <2>. DEFINE F == [s \in SUBSET A |-> Summed(w, f, s)]
  <2>1. f = F
    BY <1>1 DEF SummedBy
  <2>2. F[{}] = 0
    BY DEF Summed
  <2>. HIDE DEF F
  <2>. QED BY <2>1, <2>2
<1>. DEFINE a == f[S]
            b == w[v]
<1>6. a \in Nat /\ b \in Nat /\ f[S \cup {v}] = b + a
  BY <1>2, <1>3, <1>4
<1>7. f[S \cup {v}] = a + b
  <2>. HIDE DEF a, b
  <2>. QED BY <1>6
<1>. QED BY <1>2, <1>5, <1>7

(***************************************************************************)
(* The sum over nobody is zero, whatever the weights.                      *)
(***************************************************************************)
LEMMA SumOfNone == ASSUME NEW w PROVE Sum(w, {}) = 0
<1>. DEFINE f == [s \in SUBSET {} |-> 0]
<1>1. SummedBy(w, {}, f)
  <2>1. \A s \in SUBSET {} : Summed(w, f, s) = 0
    BY DEF Summed
  <2>2. f = [s \in SUBSET {} |-> Summed(w, f, s)]
    <3>1. f = [s \in SUBSET {} |-> 0]
      OBVIOUS
    <3>. HIDE DEF f
    <3>. QED BY <2>1, <3>1
  <2>. HIDE DEF f
  <2>. QED BY <2>2 DEF SummedBy
<1>2. f[{}] = 0
  OBVIOUS
<1>. HIDE DEF f
<1>. QED BY <1>1, <1>2, SumIs, FS_EmptySet

(***************************************************************************)
(* Members that are assigned nothing add nothing.                          *)
(***************************************************************************)
LEMMA SumOfNothing ==
  ASSUME NEW S, IsFiniteSet(S), NEW w, \A v \in S : w[v] = 0
  PROVE  Sum(w, S) = 0
<1>. DEFINE f == [s \in SUBSET S |-> 0]
<1>1. ASSUME NEW s \in SUBSET S PROVE Summed(w, f, s) = 0
  <2>1. CASE s = {}
    BY <2>1 DEF Summed
  <2>2. CASE s # {}
    <3>. DEFINE x == CHOOSE v \in s : TRUE
    <3>1. x \in S /\ s \ {x} \in SUBSET S
      BY <2>2
    <3>2. w[x] = 0 /\ f[s \ {x}] = 0
      BY <3>1
    <3>. HIDE DEF f
    <3>. QED BY <2>2, <3>2 DEF Summed
  <2>. QED BY <2>1, <2>2
<1>2. SummedBy(w, S, f)
  BY <1>1 DEF SummedBy
<1>3. f[S] = 0
  OBVIOUS
<1>. HIDE DEF f
<1>. QED BY <1>2, <1>3, SumIs

(***************************************************************************)
(* Only what the members are assigned counts.                              *)
(***************************************************************************)
LEMMA SumSame ==
  ASSUME NEW S, IsFiniteSet(S), NEW w, \A v \in S : w[v] \in Nat,
         NEW u, \A v \in S : u[v] = w[v]
  PROVE  Sum(u, S) = Sum(w, S)
<1>1. PICK f \in [SUBSET S -> Nat] : SummedBy(w, S, f)
  BY SumExists
<1>2. ASSUME NEW s \in SUBSET S PROVE Summed(u, f, s) = Summed(w, f, s)
  <2>1. CASE s = {}
    BY <2>1 DEF Summed
  <2>2. CASE s # {}
    <3>. DEFINE x == CHOOSE v \in s : TRUE
    <3>1. x \in s
      BY <2>2
    <3>2. u[x] = w[x]
      BY <3>1
    <3>. QED BY <2>2, <3>2 DEF Summed
  <2>. QED BY <2>1, <2>2
<1>3. SummedBy(u, S, f)
  BY <1>1, <1>2 DEF SummedBy
<1>4. Sum(w, S) = f[S] /\ Sum(u, S) = f[S]
  BY <1>1, <1>3, SumIs
<1>. QED BY <1>4

(***************************************************************************)
(* A sum is a number, and a new member adds what it is assigned.           *)
(***************************************************************************)
LEMMA SumGrows ==
  ASSUME NEW S, IsFiniteSet(S), NEW w, \A v \in S : w[v] \in Nat,
         NEW x, x \notin S, w[x] \in Nat
  PROVE  Sum(w, S) \in Nat /\ Sum(w, S \cup {x}) = Sum(w, S) + w[x]
<1>. DEFINE A == S \cup {x}
<1>1. IsFiniteSet(A)
  BY FS_AddElement
<1>2. (\A v \in A : w[v] \in Nat) /\ S \in SUBSET A /\ x \in A \ S
  OBVIOUS
<1>3. S \cup {x} = A
  OBVIOUS
<1>. HIDE DEF A
<1>. QED BY <1>1, <1>2, <1>3, SumAdds

-------------------------------------------------------------------------------

\* a list of checkpoints with values from a set
CheckpointOf(V) == [fromBlock : Nat, value : V]

CheckpointList(cps, V) == cps \in Seq(CheckpointOf(V))

(***************************************************************************)
(* The blocks of a list of checkpoints are numbers.                        *)
(***************************************************************************)
LEMMA ListedBlocks ==
  ASSUME NEW V, NEW cps, CheckpointList(cps, V)
  PROVE  /\ Len(cps) \in Nat
         /\ cps # <<>> => Len(cps) >= 1
         /\ \A i \in 1 .. Len(cps) : cps[i].fromBlock \in Nat /\ cps[i].value \in V
<1>1. Len(cps) \in Nat /\ \A i \in 1 .. Len(cps) : cps[i] \in CheckpointOf(V)
  BY DEF CheckpointList
<1>2. cps # <<>> => Len(cps) >= 1
  BY DEF CheckpointList
<1>. QED BY <1>1, <1>2 DEF CheckpointOf

\* the newest checkpoint of cps[low .. high] that is not after a block
IsNewest(cps, block, low, high, i) ==
  /\ i \in low .. high
  /\ cps[i].fromBlock <= block
  /\ \A j \in low .. high : cps[j].fromBlock <= block => j <= i

\* the closed form of the search in cps[lower .. upper]: lower, or the newest above it
Newest(cps, block) ==
  [range \in (1 .. Len(cps)) \X (1 .. Len(cps)) |->
     IF \E c \in range[1] + 1 .. range[2] : cps[c].fromBlock <= block
     THEN CHOOSE c \in range[1] + 1 .. range[2] : IsNewest(cps, block, range[1] + 1, range[2], c)
     ELSE range[1]]

\* one unfolding of the search, the ranges below taken from s
Sought(cps, block, s) ==
  [range \in (1 .. Len(cps)) \X (1 .. Len(cps)) |->
     LET lower  == range[1]
         upper  == range[2]
         center == upper - ((upper - lower) \div 2)
     IN  IF upper <= lower THEN lower
         ELSE IF cps[center].fromBlock = block THEN center
         ELSE IF cps[center].fromBlock < block THEN s[<<center, upper>>]
         ELSE s[<<lower, center - 1>>]]

(***************************************************************************)
(* The middle the contracts compute, upper - (upper - lower) / 2, is above *)
(* lower and not above upper: both halves are shorter than the range.      *)
(***************************************************************************)
LEMMA CenterInside ==
  ASSUME NEW lower \in Int, NEW upper \in Int, lower < upper
  PROVE  /\ upper - ((upper - lower) \div 2) \in lower + 1 .. upper
         /\ upper - ((upper - lower) \div 2) \in Int
OBVIOUS

(***************************************************************************)
(* The newest checkpoint of a range exists as soon as one is early enough, *)
(* and there is only one.                                                  *)
(***************************************************************************)
LEMMA NewestExists ==
  ASSUME NEW cps, NEW block, NEW low \in Int, NEW high \in Int,
         \E c \in low .. high : cps[c].fromBlock <= block
  PROVE  \E c \in low .. high : IsNewest(cps, block, low, high, c)
<1>. DEFINE T == {c \in low .. high : cps[c].fromBlock <= block}
<1>1. T \in SUBSET (low .. high) /\ T # {}
  OBVIOUS
<1>2. PICK n \in T : \A m \in T : m <= n
  <2>. HIDE DEF T
  <2>. QED BY <1>1, GreatestNumber
<1>. QED BY <1>2 DEF IsNewest

(***************************************************************************)
(* The closed form, read off: the value at a range is the range's newest   *)
(* checkpoint above its lower end, if it has one.                          *)
(***************************************************************************)
LEMMA NewestIs ==
  ASSUME NEW cps, NEW block, Len(cps) \in Nat,
         NEW lower \in 1 .. Len(cps), NEW upper \in 1 .. Len(cps)
  PROVE  /\ \A i : IsNewest(cps, block, lower + 1, upper, i)
                     => Newest(cps, block)[<<lower, upper>>] = i
         /\ (\A c \in lower + 1 .. upper : ~ (cps[c].fromBlock <= block))
              => Newest(cps, block)[<<lower, upper>>] = lower
<1>. DEFINE N(c) == IsNewest(cps, block, lower + 1, upper, c)
<1>1. ASSUME NEW i, N(i) PROVE Newest(cps, block)[<<lower, upper>>] = i
  <2>1. i \in lower + 1 .. upper /\ cps[i].fromBlock <= block
    BY <1>1 DEF IsNewest
  <2>2. Newest(cps, block)[<<lower, upper>>] = CHOOSE c \in lower + 1 .. upper : N(c)
    BY <2>1 DEF Newest
  <2>3. \A c \in lower + 1 .. upper : N(c) => c = i
    BY <1>1 DEF IsNewest
  <2>. HIDE DEF N
  <2>. QED BY <1>1, <2>1, <2>2, <2>3
<1>2. ASSUME \A c \in lower + 1 .. upper : ~ (cps[c].fromBlock <= block)
      PROVE  Newest(cps, block)[<<lower, upper>>] = lower
  BY <1>2 DEF Newest
<1>. QED BY <1>1, <1>2

(***************************************************************************)
(* On an ascending list the closed form solves the equation of the search. *)
(***************************************************************************)
LEMMA NewestSolves ==
  ASSUME NEW V, NEW cps, CheckpointList(cps, V), NEW block \in Nat,
         \A i, j \in 1 .. Len(cps) : i < j => cps[i].fromBlock < cps[j].fromBlock
  PROVE  Newest(cps, block) = Sought(cps, block, Newest(cps, block))
<1>. DEFINE g == Newest(cps, block)
            R == (1 .. Len(cps)) \X (1 .. Len(cps))
<1>0. Len(cps) \in Nat /\ \A i \in 1 .. Len(cps) : cps[i].fromBlock \in Nat
  BY ListedBlocks
<1>1. ASSUME NEW lower \in 1 .. Len(cps), NEW upper \in 1 .. Len(cps)
      PROVE  g[<<lower, upper>>] = Sought(cps, block, g)[<<lower, upper>>]
  <2>. DEFINE center == upper - ((upper - lower) \div 2)
  <2>1. CASE upper <= lower
    <3>1. Sought(cps, block, g)[<<lower, upper>>] = lower
      BY <2>1 DEF Sought
    <3>2. g[<<lower, upper>>] = lower
      BY <2>1, <1>0, NewestIs
    <3>. QED BY <3>1, <3>2
  <2>2. CASE lower < upper
    <3>1. center \in lower + 1 .. upper /\ center \in 1 .. Len(cps)
      BY <2>2, <1>0, CenterInside
    <3>2. Sought(cps, block, g)[<<lower, upper>>]
            = IF cps[center].fromBlock = block THEN center
              ELSE IF cps[center].fromBlock < block THEN g[<<center, upper>>]
              ELSE g[<<lower, center - 1>>]
      <4>1. ~(upper <= lower)
        BY <2>2
      <4>. HIDE DEF g
      <4>. QED BY <4>1 DEF Sought
    <3>. HIDE DEF center, g
    <3>3. CASE cps[center].fromBlock = block
      <4>1. IsNewest(cps, block, lower + 1, upper, center)
        BY <3>1, <3>3, <1>0 DEF IsNewest
      <4>. QED BY <4>1, <3>2, <3>3, <1>0, NewestIs DEF g
    <3>4. CASE cps[center].fromBlock < block
      <4>1. CASE \E c \in center + 1 .. upper : cps[c].fromBlock <= block
        <5>1. PICK c \in center + 1 .. upper : IsNewest(cps, block, center + 1, upper, c)
          BY <4>1, <3>1, <1>0, NewestExists
        <5>2. IsNewest(cps, block, lower + 1, upper, c)
          BY <5>1, <3>1, <1>0 DEF IsNewest
        <5>3. g[<<center, upper>>] = c /\ g[<<lower, upper>>] = c
          BY <5>1, <5>2, <3>1, <1>0, NewestIs DEF g
        <5>. QED BY <5>3, <3>2, <3>4
      <4>2. CASE \A c \in center + 1 .. upper : ~ (cps[c].fromBlock <= block)
        <5>1. IsNewest(cps, block, lower + 1, upper, center)
          BY <4>2, <3>1, <3>4, <1>0 DEF IsNewest
        <5>2. g[<<center, upper>>] = center /\ g[<<lower, upper>>] = center
          BY <4>2, <5>1, <3>1, <1>0, NewestIs DEF g
        <5>. QED BY <5>2, <3>2, <3>4
      <4>. QED BY <4>1, <4>2
    <3>5. CASE block < cps[center].fromBlock
      <4>0. \A c \in center .. upper : ~ (cps[c].fromBlock <= block)
        BY <3>1, <3>5, <1>0
      <4>a. center - 1 \in 1 .. Len(cps)
        BY <3>1, <1>0
      <4>1. CASE \E c \in lower + 1 .. center - 1 : cps[c].fromBlock <= block
        <5>1. PICK c \in lower + 1 .. center - 1 : IsNewest(cps, block, lower + 1, center - 1, c)
          <6>1. lower + 1 \in Int /\ center - 1 \in Int
            BY <3>1
          <6>. QED BY <4>1, <6>1, NewestExists
        <5>2. IsNewest(cps, block, lower + 1, upper, c)
          BY <5>1, <4>0, <3>1, <1>0 DEF IsNewest
        <5>3. g[<<lower, center - 1>>] = c /\ g[<<lower, upper>>] = c
          BY <5>1, <5>2, <4>a, <1>0, NewestIs DEF g
        <5>. QED BY <5>3, <3>2, <3>5, <3>1, <1>0
      <4>2. CASE \A c \in lower + 1 .. center - 1 : ~ (cps[c].fromBlock <= block)
        <5>1. \A c \in lower + 1 .. upper : ~ (cps[c].fromBlock <= block)
          BY <4>0, <4>2, <3>1, <1>0
        <5>2. g[<<lower, center - 1>>] = lower /\ g[<<lower, upper>>] = lower
          BY <4>2, <5>1, <4>a, <1>0, NewestIs DEF g
        <5>. QED BY <5>2, <3>2, <3>5, <3>1, <1>0
      <4>. QED BY <4>1, <4>2
    <3>. QED BY <3>3, <3>4, <3>5, <3>1, <1>0
  <2>. QED BY <2>1, <2>2
<1>2. /\ g = [range \in R |-> g[range]]
      /\ Sought(cps, block, g) = [range \in R |-> Sought(cps, block, g)[range]]
  BY DEF Newest, Sought
<1>3. ASSUME NEW range \in R PROVE g[range] = Sought(cps, block, g)[range]
  <2>1. PICK lower \in 1 .. Len(cps), upper \in 1 .. Len(cps) : range = <<lower, upper>>
    OBVIOUS
  <2>. HIDE DEF g
  <2>. QED BY <1>1, <2>1
<1>. HIDE DEF g
<1>4. g = Sought(cps, block, g)
  BY <1>2, <1>3
<1>. QED BY <1>4 DEF g

(***************************************************************************)
(* The search obeys its own equation, since some function does.            *)
(***************************************************************************)
LEMMA SearchDefined ==
  ASSUME NEW cps, NEW block, NEW g, g = Sought(cps, block, g)
  PROVE  \E s : /\ SearchIndex(cps, block) = s[<<1, Len(cps)>>]
                /\ s = Sought(cps, block, s)
<1>. DEFINE Is(s) == s = Sought(cps, block, s)
<1>1. Is(g) OBVIOUS
<1>2. SearchIndex(cps, block) = (CHOOSE s : Is(s))[<<1, Len(cps)>>]
  BY DEF SearchIndex, Sought
<1>3. Is(CHOOSE s : Is(s))
  <2>. HIDE DEF Is
  <2>. QED BY <1>1
<1>. QED BY <1>2, <1>3

(***************************************************************************)
(* At most one function obeys it: of the ranges where two of them differ,  *)
(* a shortest one is not trivial, and both halves are shorter.             *)
(***************************************************************************)
LEMMA SearchUnique ==
  ASSUME NEW cps, NEW block, Len(cps) \in Nat,
         NEW s, s = Sought(cps, block, s),
         NEW g, g = Sought(cps, block, g),
         NEW lower \in 1 .. Len(cps), NEW upper \in 1 .. Len(cps), lower <= upper
  PROVE  s[<<lower, upper>>] = g[<<lower, upper>>]
<1>. DEFINE Differ(l, u) == s[<<l, u>>] # g[<<l, u>>]
            T == {n \in Nat : \E l, u \in 1 .. Len(cps) : l <= u /\ n = u - l /\ Differ(l, u)}
<1>0. ASSUME NEW l \in 1 .. Len(cps), NEW u \in 1 .. Len(cps)
      PROVE  LET center == u - ((u - l) \div 2) IN
             /\ u <= l => ~Differ(l, u)
             /\ (l < u /\ ~Differ(center, u) /\ ~Differ(l, center - 1)) => ~Differ(l, u)
  <2>1. ASSUME NEW f, f = Sought(cps, block, f)
        PROVE  f[<<l, u>>] = LET center == u - ((u - l) \div 2)
                             IN IF u <= l THEN l
                                ELSE IF cps[center].fromBlock = block THEN center
                                ELSE IF cps[center].fromBlock < block THEN f[<<center, u>>]
                                ELSE f[<<l, center - 1>>]
    <3>1. Sought(cps, block, f)[<<l, u>>] = LET center == u - ((u - l) \div 2)
                             IN IF u <= l THEN l
                                ELSE IF cps[center].fromBlock = block THEN center
                                ELSE IF cps[center].fromBlock < block THEN f[<<center, u>>]
                                ELSE f[<<l, center - 1>>]
      BY DEF Sought
    <3>. QED BY <2>1, <3>1
  <2>. QED BY <2>1
<1>1. ASSUME T # {} PROVE FALSE
  <2>1. T \in SUBSET Nat
    OBVIOUS
  <2>2. PICK n \in T : \A m \in T : n <= m
    <3>. HIDE DEF T
    <3>. QED BY <1>1, <2>1, LeastNumber
  <2>3. PICK l \in 1 .. Len(cps), u \in 1 .. Len(cps) : l <= u /\ n = u - l /\ Differ(l, u)
    BY <2>2
  <2>. DEFINE center == u - ((u - l) \div 2)
  <2>4. l < u
    <3>1. u <= l => ~Differ(l, u)
      BY <1>0
    <3>. QED BY <2>3, <3>1
  <2>5. center \in l + 1 .. u /\ center \in Int
    BY <2>4, CenterInside
  <2>a. ASSUME NEW l2 \in 1 .. Len(cps), NEW u2 \in 1 .. Len(cps), l2 <= u2, u2 - l2 < n
        PROVE  ~Differ(l2, u2)
    <3>1. u2 - l2 \in Nat /\ n \in Nat
      BY <2>a
    <3>2. ASSUME Differ(l2, u2) PROVE u2 - l2 \in T
      BY <3>1, <3>2, <2>a
    <3>3. u2 - l2 \notin T
      <4>. HIDE DEF T
      <4>. QED BY <2>2, <2>a, <3>1
    <3>. HIDE DEF T, Differ
    <3>. QED BY <3>2, <3>3
  <2>. HIDE DEF center
  <2>6. /\ center \in 1 .. Len(cps) /\ center <= u
        /\ u - center \in Nat /\ u - center < n
    BY <2>3, <2>5
  <2>7. ~Differ(center, u)
    BY <2>a, <2>6
  <2>8. /\ center - 1 \in 1 .. Len(cps) /\ l <= center - 1
        /\ (center - 1) - l \in Nat /\ (center - 1) - l < n
    BY <2>3, <2>5
  <2>9. ~Differ(l, center - 1)
    BY <2>a, <2>8
  <2>. HIDE DEF Differ
  <2>. QED BY <1>0, <2>3, <2>4, <2>7, <2>9 DEF center
<1>2. upper - lower \in Nat
  OBVIOUS
<1>. QED BY <1>1, <1>2

(***************************************************************************)
(* The binary search is correct on every ascending list whose first        *)
(* checkpoint is not after the block: it ends at the newest checkpoint     *)
(* that is not after the block.                                            *)
(***************************************************************************)
THEOREM SearchFindsNewest ==
  ASSUME NEW V, NEW cps, CheckpointList(cps, V), NEW block \in Nat, NEW now,
         Ascending(cps, now), cps # <<>>, cps[1].fromBlock <= block
  PROVE  IsNewest(cps, block, 1, Len(cps), SearchIndex(cps, block))
<1>0. Len(cps) \in Nat /\ Len(cps) >= 1 /\ \A i \in 1 .. Len(cps) : cps[i].fromBlock \in Nat
  BY ListedBlocks
<1>. DEFINE g == Newest(cps, block)
<1>1. g = Sought(cps, block, g)
  BY NewestSolves DEF Ascending
<1>2. PICK s : SearchIndex(cps, block) = s[<<1, Len(cps)>>] /\ s = Sought(cps, block, s)
  <2>. HIDE DEF g
  <2>. QED BY <1>1, SearchDefined
<1>3. SearchIndex(cps, block) = g[<<1, Len(cps)>>]
  <2>. HIDE DEF g
  <2>. QED BY <1>0, <1>1, <1>2, SearchUnique
<1>4. CASE \E c \in 1 + 1 .. Len(cps) : cps[c].fromBlock <= block
  <2>1. PICK c \in 1 + 1 .. Len(cps) : IsNewest(cps, block, 1 + 1, Len(cps), c)
    <3>1. 1 + 1 \in Int /\ Len(cps) \in Int
      BY <1>0
    <3>. QED BY <1>4, <3>1, NewestExists
  <2>2. g[<<1, Len(cps)>>] = c
    BY <1>0, <2>1, NewestIs
  <2>3. IsNewest(cps, block, 1, Len(cps), c)
    BY <1>0, <2>1 DEF IsNewest
  <2>. QED BY <1>3, <2>2, <2>3
<1>5. CASE \A c \in 1 + 1 .. Len(cps) : ~ (cps[c].fromBlock <= block)
  <2>1. g[<<1, Len(cps)>>] = 1
    BY <1>0, <1>5, NewestIs
  <2>2. IsNewest(cps, block, 1, Len(cps), 1)
    BY <1>0, <1>5 DEF IsNewest
  <2>. QED BY <1>3, <2>1, <2>2
<1>. QED BY <1>4, <1>5

-------------------------------------------------------------------------------
(* Reading a list back.                                                    *)

(***************************************************************************)
(* What getPriorVotes returns for a block: the value of the newest         *)
(* checkpoint that is not after it, the default when there is none.        *)
(***************************************************************************)
THEOREM ValueAtNewest ==
  ASSUME NEW V, NEW cps, CheckpointList(cps, V), NEW block \in Nat, NEW now,
         Ascending(cps, now), NEW default
  PROVE  /\ \A i : IsNewest(cps, block, 1, Len(cps), i)
                     => ValueAt(cps, default, block) = cps[i].value
         /\ (\A i \in 1 .. Len(cps) : ~ (cps[i].fromBlock <= block))
              => ValueAt(cps, default, block) = default
<1>0. /\ Len(cps) \in Nat /\ (cps # <<>> => Len(cps) >= 1)
      /\ \A i \in 1 .. Len(cps) : cps[i].fromBlock \in Nat
  BY ListedBlocks
<1>1. ASSUME NEW i, IsNewest(cps, block, 1, Len(cps), i)
      PROVE  ValueAt(cps, default, block) = cps[i].value
  <2>1. i \in 1 .. Len(cps) /\ cps # <<>> /\ cps[i].fromBlock <= block
    BY <1>0, <1>1 DEF IsNewest
  <2>2. CASE cps[Len(cps)].fromBlock <= block
    <3>1. i = Len(cps)
      BY <1>0, <1>1, <2>1, <2>2 DEF IsNewest
    <3>. QED BY <2>1, <2>2, <3>1 DEF ValueAt
  <2>3. CASE ~ (cps[Len(cps)].fromBlock <= block)
    <3>1. cps[1].fromBlock <= cps[i].fromBlock
      BY <1>0, <2>1 DEF Ascending
    <3>2. cps[1].fromBlock <= block /\ ~ (cps[1].fromBlock > block)
      BY <1>0, <2>1, <3>1
    <3>3. IsNewest(cps, block, 1, Len(cps), SearchIndex(cps, block))
      BY <2>1, <3>2, SearchFindsNewest
    <3>4. SearchIndex(cps, block) = i
      BY <1>1, <3>3 DEF IsNewest
    <3>. QED BY <2>1, <2>3, <3>2, <3>4 DEF ValueAt
  <2>. QED BY <2>2, <2>3
<1>2. ASSUME \A i \in 1 .. Len(cps) : ~ (cps[i].fromBlock <= block)
      PROVE  ValueAt(cps, default, block) = default
  <2>1. CASE cps = <<>>
    BY <2>1 DEF ValueAt
  <2>2. CASE cps # <<>>
    BY <2>2, <1>0, <1>2 DEF ValueAt
  <2>. QED BY <2>1, <2>2
<1>. QED BY <1>1, <1>2

(***************************************************************************)
(* Either a block has a newest checkpoint or all of them are later.        *)
(***************************************************************************)
LEMMA NewestOrNone ==
  ASSUME NEW cps, NEW block, Len(cps) \in Nat
  PROVE  \/ \E i \in 1 .. Len(cps) : IsNewest(cps, block, 1, Len(cps), i)
         \/ \A i \in 1 .. Len(cps) : ~ (cps[i].fromBlock <= block)
<1>1. 1 \in Int /\ Len(cps) \in Int
  OBVIOUS
<1>. QED BY <1>1, NewestExists

(***************************************************************************)
(* Once the blocks of all checkpoints have ended, the current value is the *)
(* answer.                                                                 *)
(***************************************************************************)
LEMMA ValueAtEnd ==
  ASSUME NEW V, NEW cps, CheckpointList(cps, V), NEW block \in Nat,
         Ascending(cps, block), NEW default
  PROVE  ValueAt(cps, default, block) = Latest(cps, default)
<1>1. CASE cps = <<>>
  BY <1>1 DEF ValueAt, Latest
<1>2. CASE cps # <<>>
  <2>1. Len(cps) \in 1 .. Len(cps)
    BY <1>2, ListedBlocks
  <2>2. cps[Len(cps)].fromBlock <= block
    BY <2>1 DEF Ascending
  <2>. QED BY <1>2, <2>2 DEF ValueAt, Latest
<1>. QED BY <1>1, <1>2

-------------------------------------------------------------------------------
(* Writing to a list.                                                      *)

(***************************************************************************)
(* A write changes at most the last element and adds at most one, of the   *)
(* current block; an element that is replaced was of the current block.    *)
(***************************************************************************)
LEMMA WrittenShape ==
  ASSUME NEW V, NEW cps, CheckpointList(cps, V), NEW now \in Nat, NEW v \in V
  PROVE  /\ CheckpointList(Written(cps, now, v), V)
         /\ \E kept \in Nat :
              /\ kept <= Len(cps) /\ Len(cps) <= kept + 1
              /\ Len(Written(cps, now, v)) = kept + 1
              /\ \A i \in 1 .. kept : Written(cps, now, v)[i] = cps[i]
              /\ Written(cps, now, v)[kept + 1] = [fromBlock |-> now, value |-> v]
              /\ kept < Len(cps) => cps[kept + 1].fromBlock = now
              /\ kept = Len(cps) /\ kept > 0 => cps[kept].fromBlock # now
<1>. DEFINE cp == [fromBlock |-> now, value |-> v]
<1>1. cps \in Seq(CheckpointOf(V)) /\ Len(cps) \in Nat /\ cp \in CheckpointOf(V)
      /\ (cps # <<>> => Len(cps) \in 1 .. Len(cps))
  BY DEF CheckpointList, CheckpointOf
<1>2. CASE cps # <<>> /\ cps[Len(cps)].fromBlock = now
  <2>. DEFINE new == [cps EXCEPT ![Len(cps)] = cp]
  <2>1. Written(cps, now, v) = new
    BY <1>2 DEF Written
  <2>. HIDE DEF cp
  <2>2. /\ new \in Seq(CheckpointOf(V))
        /\ Len(new) = Len(cps)
        /\ \A i \in 1 .. Len(cps) : i # Len(cps) => new[i] = cps[i]
        /\ new[Len(cps)] = cp
    BY <1>1, <1>2
  <2>3. PICK kept \in Nat : kept + 1 = Len(cps)
    <3>1. Len(cps) - 1 \in Nat /\ (Len(cps) - 1) + 1 = Len(cps)
      BY <1>1, <1>2
    <3>. QED BY <3>1
  <2>. HIDE DEF new
  <2>4. /\ kept <= Len(cps) /\ Len(cps) <= kept + 1 /\ kept # Len(cps)
        /\ Len(new) = kept + 1
        /\ new[kept + 1] = cp
        /\ cps[kept + 1].fromBlock = now
    BY <1>1, <1>2, <2>2, <2>3
  <2>5. \A i \in 1 .. kept : new[i] = cps[i]
    BY <1>1, <2>2, <2>3
  <2>. QED BY <2>1, <2>2, <2>4, <2>5 DEF CheckpointList, cp
<1>3. CASE ~ (cps # <<>> /\ cps[Len(cps)].fromBlock = now)
  <2>1. Written(cps, now, v) = Append(cps, cp)
    BY <1>3 DEF Written
  <2>. HIDE DEF cp
  <2>2. /\ Append(cps, cp) \in Seq(CheckpointOf(V))
        /\ Len(Append(cps, cp)) = Len(cps) + 1
        /\ \A i \in 1 .. Len(cps) : Append(cps, cp)[i] = cps[i]
        /\ Append(cps, cp)[Len(cps) + 1] = cp
    BY <1>1
  <2>3. Len(cps) > 0 => cps # <<>>
    OBVIOUS
  <2>. QED BY <1>1, <1>3, <2>1, <2>2, <2>3 DEF CheckpointList, cp
<1>. QED BY <1>2, <1>3

(***************************************************************************)
(* The written value is the current one and the list stays ascending.      *)
(***************************************************************************)
LEMMA WrittenIsLatest ==
  ASSUME NEW V, NEW cps, CheckpointList(cps, V), NEW now \in Nat, NEW v \in V, NEW default
  PROVE  /\ CheckpointList(Written(cps, now, v), V)
         /\ Latest(Written(cps, now, v), default) = v
         /\ Latest(cps, default) \in V \cup {default}
         /\ Ascending(cps, now) => Ascending(Written(cps, now, v), now)
<1>. DEFINE new == Written(cps, now, v)
<1>1. CheckpointList(new, V)
  BY WrittenShape
<1>2. PICK kept \in Nat :
        /\ kept <= Len(cps) /\ Len(cps) <= kept + 1
        /\ Len(new) = kept + 1
        /\ \A i \in 1 .. kept : new[i] = cps[i]
        /\ new[kept + 1] = [fromBlock |-> now, value |-> v]
        /\ kept < Len(cps) => cps[kept + 1].fromBlock = now
        /\ kept = Len(cps) /\ kept > 0 => cps[kept].fromBlock # now
  BY WrittenShape
<1>3. /\ Len(cps) \in Nat /\ (cps # <<>> => Len(cps) >= 1)
      /\ \A i \in 1 .. Len(cps) : cps[i].fromBlock \in Nat /\ cps[i].value \in V
  BY ListedBlocks
<1>. HIDE DEF new
<1>4. new # <<>> /\ new[Len(new)].value = v
  BY <1>2
<1>5. ASSUME Ascending(cps, now) PROVE Ascending(new, now)
  <2>1. ASSUME NEW i \in 1 .. kept PROVE cps[i].fromBlock < now
    <3>1. i \in 1 .. Len(cps) /\ cps[i].fromBlock <= now
      BY <1>2, <1>3, <1>5 DEF Ascending
    <3>2. CASE kept < Len(cps)
      <4>1. kept + 1 \in 1 .. Len(cps) /\ i < kept + 1
        BY <1>3, <3>2
      <4>. QED BY <1>2, <1>5, <3>1, <3>2, <4>1 DEF Ascending
    <3>3. CASE kept = Len(cps)
      <4>1. kept \in 1 .. Len(cps) /\ cps[kept].fromBlock # now /\ cps[kept].fromBlock <= now
        BY <1>2, <1>5, <3>3 DEF Ascending
      <4>2. i = kept \/ cps[i].fromBlock < cps[kept].fromBlock
        BY <1>5, <3>1, <4>1 DEF Ascending
      <4>. QED BY <1>3, <3>1, <4>1, <4>2
    <3>. QED BY <1>2, <1>3, <3>2, <3>3
  <2>2. \A i \in 1 .. kept : /\ i \in 1 .. Len(cps)
                             /\ new[i].fromBlock = cps[i].fromBlock
                             /\ new[i].fromBlock < now
    BY <1>2, <1>3, <2>1
  <2>3. new[kept + 1].fromBlock = now
    BY <1>2
  <2>4. ASSUME NEW i \in 1 .. Len(new), NEW j \in 1 .. Len(new), i < j
        PROVE  new[i].fromBlock < new[j].fromBlock
    <3>1. i \in 1 .. kept
      BY <1>2, <2>4
    <3>2. CASE j = kept + 1
      BY <2>2, <2>3, <3>1, <3>2
    <3>3. CASE j \in 1 .. kept
      BY <1>5, <2>2, <2>4, <3>1, <3>3 DEF Ascending
    <3>. QED BY <1>2, <3>2, <3>3
  <2>5. ASSUME NEW i \in 1 .. Len(new) PROVE new[i].fromBlock <= now
    <3>1. i \in 1 .. kept \/ i = kept + 1
      BY <1>2
    <3>. QED BY <1>3, <2>2, <2>3, <3>1
  <2>. QED BY <2>4, <2>5 DEF Ascending
<1>6. Latest(cps, default) \in V \cup {default}
  BY <1>3 DEF Latest
<1>. QED BY <1>1, <1>4, <1>5, <1>6 DEF Latest, new

(***************************************************************************)
(* A past block's value is final: a write in the current block changes the *)
(* answer for no earlier block.                                            *)
(***************************************************************************)
THEOREM WrittenKeepsPast ==
  ASSUME NEW V, NEW cps, CheckpointList(cps, V), NEW now \in Nat, NEW v \in V,
         Ascending(cps, now), NEW past \in Nat, past < now, NEW default
  PROVE  ValueAt(Written(cps, now, v), default, past) = ValueAt(cps, default, past)
<1>. DEFINE new == Written(cps, now, v)
<1>1. CheckpointList(new, V) /\ Ascending(new, now)
  BY WrittenIsLatest
<1>a. PICK kept \in Nat :
        /\ kept <= Len(cps) /\ Len(cps) <= kept + 1
        /\ Len(new) = kept + 1
        /\ \A i \in 1 .. kept : new[i] = cps[i]
        /\ new[kept + 1] = [fromBlock |-> now, value |-> v]
        /\ kept < Len(cps) => cps[kept + 1].fromBlock = now
  BY WrittenShape
<1>. HIDE DEF new
<1>2. Len(cps) \in Nat /\ Len(new) \in Nat
  BY <1>1, ListedBlocks
<1>3. CASE \E i \in 1 .. Len(cps) : IsNewest(cps, past, 1, Len(cps), i)
  <2>1. PICK i \in 1 .. Len(cps) : IsNewest(cps, past, 1, Len(cps), i)
    BY <1>3
  <2>2. i \in 1 .. kept
    BY <1>a, <1>2, <2>1 DEF IsNewest
  <2>3. IsNewest(new, past, 1, Len(new), i)
    <3>1. i \in 1 .. Len(new) /\ new[i].fromBlock <= past
      BY <1>a, <2>1, <2>2 DEF IsNewest
    <3>2. ASSUME NEW j \in 1 .. Len(new), new[j].fromBlock <= past PROVE j <= i
      <4>1. j # kept + 1
        BY <1>a, <3>2
      <4>. QED BY <1>a, <1>2, <2>1, <3>2, <4>1 DEF IsNewest
    <3>. QED BY <3>1, <3>2 DEF IsNewest
  <2>4. ValueAt(cps, default, past) = cps[i].value
    BY <2>1, ValueAtNewest
  <2>5. ValueAt(new, default, past) = new[i].value
    BY <1>1, <2>3, ValueAtNewest
  <2>. QED BY <1>a, <2>2, <2>4, <2>5 DEF new
<1>4. CASE \A i \in 1 .. Len(cps) : ~ (cps[i].fromBlock <= past)
  <2>1. \A i \in 1 .. Len(new) : ~ (new[i].fromBlock <= past)
    <3>1. ASSUME NEW i \in 1 .. Len(new) PROVE ~ (new[i].fromBlock <= past)
      <4>1. i = kept + 1 \/ (i \in 1 .. kept /\ i \in 1 .. Len(cps))
        BY <1>a, <1>2
      <4>. QED BY <1>a, <1>4, <4>1
    <3>. QED BY <3>1
  <2>2. ValueAt(cps, default, past) = default
    BY <1>4, ValueAtNewest
  <2>3. ValueAt(new, default, past) = default
    BY <1>1, <2>1, ValueAtNewest
  <2>. QED BY <2>2, <2>3 DEF new
<1>. QED BY <1>2, <1>3, <1>4, NewestOrNone
===============================================================================
