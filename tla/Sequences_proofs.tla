-------------------------- MODULE Sequences_proofs --------------------------
(***************************************************************************)
(* Lemmas about numbers, recursion, sums and sequences that the proofs of  *)
(* several modules rest on: the library has no facts about FoldLeft,       *)
(* SumFunction and FlattenSeq, and its induction theorems take operators.  *)
(***************************************************************************)
EXTENDS Integers, SequencesExt, FiniteSetTheorems, SequenceTheorems,
        WellFoundedInduction, TLAPS

-----------------------------------------------------------------------------
(* Induction over numbers *)

\* Sets of numbers have a least one.
LEMMA LeastNumber ==
  ASSUME NEW S \in SUBSET Nat, S # {}
  PROVE  \E n \in S : \A m \in S : n <= m
  <1> DEFINE R == OpToRel(<, Nat)
  <1>1. PICK n \in S : \A m \in S : <<m, n>> \notin R
    BY WFMin, NatLessThanWellFounded
  <1>2. \A m, k \in Nat : m < k => <<m, k>> \in R
    BY DEF OpToRel
  <1> HIDE DEF R
  <1>3. ASSUME NEW m \in S PROVE n <= m
    <2>1. ~(m < n)
      BY <1>1, <1>2
    <2>2. QED
      BY <2>1
  <1>4. QED
    BY <1>3

\* A set with 0 and every successor of its members has all numbers.
LEMMA SetInduction ==
  ASSUME NEW S, 0 \in S, \A n \in Nat : n \in S => n + 1 \in S
  PROVE  Nat \subseteq S
  <1> DEFINE T == Nat \ S
  <1>1. SUFFICES ASSUME T # {} PROVE FALSE
    OBVIOUS
  <1>2. PICK n \in T : \A m \in T : n <= m
    BY <1>1, LeastNumber
  <1>3. n # 0 /\ n - 1 \in Nat /\ n - 1 \notin T
    BY <1>2
  <1>4. QED
    BY <1>2, <1>3

\* The same up to a bound.
LEMMA BoundedInduction ==
  ASSUME NEW n \in Nat, NEW S, 0 \in S, \A k \in 1 .. n : k - 1 \in S => k \in S
  PROVE  0 .. n \subseteq S
  <1> DEFINE R == {k \in Nat : k <= n => k \in S}
  <1>1. 0 \in R
    OBVIOUS
  <1>2. ASSUME NEW k \in Nat, k \in R PROVE k + 1 \in R
    <2>1. SUFFICES ASSUME k + 1 <= n PROVE k + 1 \in S
      OBVIOUS
    <2>2. k \in S /\ k + 1 \in 1 .. n /\ (k + 1) - 1 = k
      BY <1>2, <2>1
    <2>3. QED
      BY <2>2
  <1> HIDE DEF R
  <1>3. Nat \subseteq R
    BY <1>1, <1>2, SetInduction
  <1>4. QED
    BY <1>3 DEF R

-----------------------------------------------------------------------------
(* Recursion and folds.  A step is a function of the value so far and of   *)
(* the index; the operators that are folded are instances of it.           *)

Steps(A, n) == [1 .. n -> [A -> A]]

\* The values g from a base on.
Runs(g, A, base, step, n) ==
  g \in [0 .. n -> A] /\ g[0] = base /\ \A k \in 1 .. n : g[k] = step[k][g[k - 1]]

\* Values can be computed one after the other.
LEMMA Recursion ==
  ASSUME NEW n \in Nat, NEW A, NEW base \in A, NEW step \in Steps(A, n)
  PROVE  \E g : Runs(g, A, base, step, n)
  <1> DEFINE Run(g, m) == g \in [0 .. m -> A] /\ g[0] = base
                            /\ \A k \in 1 .. m : g[k] = step[k][g[k - 1]]
             S == {m \in 0 .. n : \E g : Run(g, m)}
  <1>1. 0 \in S
    <2>1. Run([k \in 0 .. 0 |-> base], 0)
      OBVIOUS
    <2> HIDE DEF Run
    <2>2. QED
      BY <2>1
  <1>2. ASSUME NEW m \in 1 .. n, m - 1 \in S PROVE m \in S
    <2>1. PICK g : Run(g, m - 1)
      BY <1>2
    <2> DEFINE h == [k \in 0 .. m |-> IF k = m THEN step[m][g[m - 1]] ELSE g[k]]
    <2>2. g[m - 1] \in A
      BY <2>1
    <2>3. step[m][g[m - 1]] \in A
      BY <2>2 DEF Steps
    <2>4. h \in [0 .. m -> A] /\ h[0] = base
      BY <2>1, <2>3
    <2>5. ASSUME NEW k \in 1 .. m PROVE h[k] = step[k][h[k - 1]]
      <3>1. CASE k = m
        <4>1. h[k - 1] = g[m - 1]
          BY <3>1
        <4>2. QED
          BY <3>1, <4>1
      <3>2. CASE k # m
        <4>1. k \in 1 .. m - 1 /\ h[k] = g[k] /\ h[k - 1] = g[k - 1]
          BY <3>2
        <4>2. QED
          BY <2>1, <4>1
      <3>3. QED
        BY <3>1, <3>2
    <2>6. Run(h, m)
      BY <2>4, <2>5
    <2> HIDE DEF Run, h
    <2>7. QED
      BY <2>6
  <1> HIDE DEF S
  <1>3. 0 .. n \subseteq S
    BY <1>1, <1>2, BoundedInduction
  <1>4. \E g : Run(g, n)
    BY <1>3 DEF S
  <1>5. QED
    BY <1>4 DEF Runs

\* The largest of some numbers.
LEMMA MaxIs ==
  ASSUME NEW S, NEW m \in S, S \subseteq Int, \A k \in S : k <= m
  PROVE  Max(S) = m
  <1>1. \A y \in S : m >= y
    OBVIOUS
  <1>2. Max(S) \in S /\ \A y \in S : Max(S) >= y
    BY <1>1 DEF Max
  <1>3. Max(S) \in Int /\ Max(S) <= m /\ Max(S) >= m
    BY <1>2
  <1>4. QED
    BY <1>3

\* The smallest of some numbers.
LEMMA MinIs ==
  ASSUME NEW S, NEW m \in S, S \subseteq Int, \A k \in S : m <= k
  PROVE  Min(S) = m
  <1>2. Min(S) \in S /\ \A y \in S : Min(S) <= y
    BY DEF Min
  <1>3. Min(S) \in Int /\ Min(S) <= m /\ m <= Min(S)
    BY <1>2
  <1>4. QED
    BY <1>3

\* FoldLeft computes the values of all sets of indices.
Iterates(f, A, base, step, n) ==
  /\ f \in [SUBSET (1 .. n) -> A]
  /\ \A s \in SUBSET (1 .. n) :
        f[s] = IF s = {} THEN base ELSE step[Max(s)][f[s \ {Max(s)}]]

\* There are such values.
LEMMA IteratesExist ==
  ASSUME NEW n \in Nat, NEW A, NEW base \in A, NEW step \in Steps(A, n)
  PROVE  \E f : Iterates(f, A, base, step, n)
  <1> DEFINE Below(f, m) ==
                /\ f \in [SUBSET (1 .. m) -> A]
                /\ \A s \in SUBSET (1 .. m) :
                      f[s] = IF s = {} THEN base ELSE step[Max(s)][f[s \ {Max(s)}]]
             S == {m \in 0 .. n : \E f : Below(f, m)}
  <1>1. 0 \in S
    <2> DEFINE f == [s \in SUBSET (1 .. 0) |-> base]
    <2>1. \A s \in SUBSET (1 .. 0) : s = {}
      OBVIOUS
    <2>2. Below(f, 0)
      BY <2>1
    <2> HIDE DEF Below, f
    <2>3. QED
      BY <2>2
  <1>2. ASSUME NEW m \in 1 .. n, m - 1 \in S PROVE m \in S
    <2>1. PICK g : Below(g, m - 1)
      BY <1>2
    <2> DEFINE f == [s \in SUBSET (1 .. m) |->
                        IF m \in s THEN step[m][g[s \ {m}]] ELSE g[s]]
    <2>2. ASSUME NEW s \in SUBSET (1 .. m), m \in s
          PROVE  /\ Max(s) = m /\ s \ {m} \in SUBSET (1 .. m - 1)
                 /\ f[s \ {m}] = g[s \ {m}] /\ g[s \ {m}] \in A
                 /\ f[s] = step[m][g[s \ {m}]] /\ f[s] \in A
      <3>1. s \subseteq Int /\ \A k \in s : k <= m
        OBVIOUS
      <3>2. Max(s) = m
        BY <2>2, <3>1, MaxIs
      <3>3. s \ {m} \in SUBSET (1 .. m - 1) /\ s \ {m} \in SUBSET (1 .. m)
        OBVIOUS
      <3>4. g[s \ {m}] \in A
        BY <2>1, <3>3
      <3>5. f[s \ {m}] = g[s \ {m}]
        BY <3>3
      <3>6. f[s] = step[m][g[s \ {m}]]
        BY <2>2
      <3>7. f[s] \in A
        BY <3>4, <3>6 DEF Steps
      <3>8. QED
        BY <3>2, <3>3, <3>4, <3>5, <3>6, <3>7
    <2>3. ASSUME NEW s \in SUBSET (1 .. m), m \notin s
          PROVE  /\ f[s] = g[s] /\ f[s] \in A
                 /\ f[s] = IF s = {} THEN base ELSE step[Max(s)][f[s \ {Max(s)}]]
      <3>1. s \in SUBSET (1 .. m - 1)
        BY <2>3
      <3>2. f[s] = g[s] /\ f[s] \in A
        BY <2>1, <2>3, <3>1
      <3>3. s \ {Max(s)} \in SUBSET (1 .. m) /\ m \notin s \ {Max(s)}
        BY <2>3
      <3>4. f[s \ {Max(s)}] = g[s \ {Max(s)}]
        BY <3>3
      <3>5. QED
        BY <2>1, <3>1, <3>2, <3>4
    <2>4. \A s \in SUBSET (1 .. m) : f[s] \in A
      BY <2>2, <2>3
    <2>5. f \in [SUBSET (1 .. m) -> A]
      BY <2>4
    <2>6. ASSUME NEW s \in SUBSET (1 .. m)
          PROVE  f[s] = IF s = {} THEN base ELSE step[Max(s)][f[s \ {Max(s)}]]
      <3> HIDE DEF f
      <3>1. CASE m \in s
        BY <2>2, <3>1
      <3>2. CASE m \notin s
        BY <2>3, <3>2
      <3>3. QED
        BY <3>1, <3>2
    <2> HIDE DEF f
    <2>7. Below(f, m)
      BY <2>5, <2>6
    <2> HIDE DEF Below
    <2>8. QED
      BY <2>7
  <1> HIDE DEF S
  <1>3. 0 .. n \subseteq S
    BY <1>1, <1>2, BoundedInduction
  <1> HIDE DEF Below
  <1>4. PICK f : Below(f, n)
    BY <1>3 DEF S
  <1>5. Iterates(f, A, base, step, n)
    BY <1>4 DEF Iterates, Below
  <1>6. QED
    BY <1>5

\* Along the first indices they are those of the recursion.
LEMMA IteratesRun ==
  ASSUME NEW n \in Nat, NEW A, NEW base \in A, NEW step \in Steps(A, n), NEW f,
         f[{}] = base,
         \A k \in 1 .. n : f[1 .. k - 1] \in A => f[1 .. k] = step[k][f[1 .. k - 1]]
  PROVE  \E g \in [0 .. n -> A] :
            /\ g[0] = base /\ \A k \in 1 .. n : g[k] = step[k][g[k - 1]]
            /\ g[n] = f[1 .. n]
  <1>1. PICK g \in [0 .. n -> A] :
                g[0] = base /\ \A k \in 1 .. n : g[k] = step[k][g[k - 1]]
    BY Recursion DEF Runs
  <1> DEFINE S == {k \in 0 .. n : f[1 .. k] = g[k]}
  <1>2. 0 \in S
    <2>1. 1 .. 0 = {}
      OBVIOUS
    <2>2. QED
      BY <1>1, <2>1
  <1>3. \A k \in 1 .. n : k - 1 \in S => k \in S
    BY <1>1
  <1> HIDE DEF S
  <1>4. 0 .. n \subseteq S
    BY <1>2, <1>3, BoundedInduction
  <1>5. QED
    BY <1>1, <1>4 DEF S

\* The first indices without the last.
LEMMA Initial ==
  ASSUME NEW k \in Nat, k >= 1
  PROVE  1 .. k # {} /\ Max(1 .. k) = k /\ (1 .. k) \ {k} = 1 .. k - 1
  <1>1. k \in 1 .. k /\ 1 .. k \subseteq Int /\ \A i \in 1 .. k : i <= k
    OBVIOUS
  <1>2. Max(1 .. k) = k
    BY <1>1, MaxIs
  <1>3. QED
    BY <1>1, <1>2

-----------------------------------------------------------------------------
(* Sums over the indices of a function, in whatever order they are taken *)

AnyOf(s) == CHOOSE x \in s : TRUE

\* FoldFunctionOnSet computes the sums over all sets of indices.
Sums(f, fun, S) ==
  f = [s \in SUBSET S |-> IF s = {} THEN 0 ELSE fun[AnyOf(s)] + f[s \ {AnyOf(s)}]]

\* One element of a finite set less.
LEMMA Smaller ==
  ASSUME NEW S, IsFiniteSet(S), NEW s \in SUBSET S, NEW x \in s
  PROVE  /\ s \ {x} \in SUBSET S /\ IsFiniteSet(s)
         /\ Cardinality(s) \in Nat /\ Cardinality(s) >= 1
         /\ Cardinality(s \ {x}) = Cardinality(s) - 1
  <1>1. IsFiniteSet(s)
    BY FS_Subset
  <1>2. Cardinality(s) \in Nat /\ Cardinality(s) # 0
    BY <1>1, FS_CardinalityType, FS_EmptySet
  <1>3. Cardinality(s \ {x}) = Cardinality(s) - 1
    BY <1>1, FS_RemoveElement
  <1>4. QED
    BY <1>1, <1>2, <1>3

\* A set without elements.
LEMMA NothingLeft ==
  ASSUME NEW S, IsFiniteSet(S), NEW s \in SUBSET S, Cardinality(s) <= 0
  PROVE  s = {}
  <1>1. SUFFICES ASSUME NEW x \in s PROVE FALSE
    OBVIOUS
  <1>2. Cardinality(s) \in Nat /\ Cardinality(s) >= 1
    BY Smaller
  <1>3. QED
    BY <1>2

\* There are such sums.
LEMMA SumsExist ==
  ASSUME NEW S, IsFiniteSet(S), NEW fun, \A x \in S : fun[x] \in Int
  PROVE  \E f \in [SUBSET S -> Int] : Sums(f, fun, S)
  <1> DEFINE Right(f, s) == f[s] = IF s = {} THEN 0
                                   ELSE fun[AnyOf(s)] + f[s \ {AnyOf(s)}]
             Upto(f, m) == /\ f \in [SUBSET S -> Int]
                           /\ \A s \in SUBSET S : Cardinality(s) <= m => Right(f, s)
             M == {m \in Nat : \E f : Upto(f, m)}
  <1>1. 0 \in M
    <2> DEFINE f == [s \in SUBSET S |-> 0]
    <2>1. ASSUME NEW s \in SUBSET S, Cardinality(s) <= 0 PROVE Right(f, s)
      <3>1. s = {}
        BY <2>1, NothingLeft
      <3>2. QED
        BY <3>1
    <2>2. f \in [SUBSET S -> Int]
      OBVIOUS
    <2> HIDE DEF f
    <2>3. Upto(f, 0)
      BY <2>1, <2>2
    <2> HIDE DEF Upto
    <2>4. QED
      BY <2>3
  <1>2. ASSUME NEW m \in Nat, m \in M PROVE m + 1 \in M
    <2>1. PICK f : Upto(f, m)
      BY <1>2
    <2> DEFINE c(s) == s \ {AnyOf(s)}
               h == [s \in SUBSET S |-> IF Cardinality(s) <= m \/ s = {} THEN f[s]
                                        ELSE fun[AnyOf(s)] + f[c(s)]]
    <2>2. ASSUME NEW s \in SUBSET S, s # {}
          PROVE  /\ AnyOf(s) \in S /\ c(s) \in SUBSET S
                 /\ Cardinality(s) \in Nat /\ Cardinality(c(s)) = Cardinality(s) - 1
      <3>1. AnyOf(s) \in s
        BY <2>2 DEF AnyOf
      <3>2. QED
        BY <3>1, Smaller
    <2> HIDE DEF c
    <2>3. h \in [SUBSET S -> Int]
      <3>1. ASSUME NEW s \in SUBSET S PROVE h[s] \in Int
        <4>1. f[s] \in Int /\ (s # {} => fun[AnyOf(s)] \in Int /\ f[c(s)] \in Int)
          BY <2>1, <2>2
        <4>2. QED
          BY <4>1
      <3>2. QED
        BY <3>1
    <2>4. ASSUME NEW s \in SUBSET S, Cardinality(s) <= m + 1
          PROVE  h[s] = IF s = {} THEN 0 ELSE fun[AnyOf(s)] + h[c(s)]
      <3>1. CASE s = {}
        <4>1. Cardinality(s) = 0
          BY <3>1, FS_EmptySet
        <4>2. Right(f, s)
          BY <2>1, <4>1
        <4>3. QED
          BY <3>1, <4>2
      <3>2. CASE s # {}
        <4>1. h[c(s)] = f[c(s)]
          BY <2>2, <2>4, <3>2
        <4>2. CASE Cardinality(s) <= m
          <5>1. Right(f, s)
            BY <2>1, <4>2
          <5>2. QED
            BY <3>2, <4>1, <4>2, <5>1 DEF c
        <4>3. CASE ~(Cardinality(s) <= m)
          BY <3>2, <4>1, <4>3
        <4>4. QED
          BY <4>2, <4>3
      <3>3. QED
        BY <3>1, <3>2
    <2>5. Upto(h, m + 1)
      BY <2>3, <2>4 DEF c
    <2> HIDE DEF Upto, h
    <2>6. QED
      BY <2>5
  <1> HIDE DEF M
  <1>3. Cardinality(S) \in M
    BY <1>1, <1>2, SetInduction, FS_CardinalityType
  <1> HIDE DEF Upto
  <1>4. PICK f : Upto(f, Cardinality(S))
    BY <1>3 DEF M
  <1>5. \A s \in SUBSET S : Cardinality(s) <= Cardinality(S)
    BY FS_Subset
  <1>6. f \in [SUBSET S -> Int] /\ \A s \in SUBSET S : Right(f, s)
    BY <1>4, <1>5 DEF Upto
  <1>7. Sums(f, fun, S)
    BY <1>6 DEF Sums
  <1>8. QED
    BY <1>6, <1>7

\* Any index may be the last.
LEMMA SumsAnyOrder ==
  ASSUME NEW S, IsFiniteSet(S), NEW fun, \A x \in S : fun[x] \in Int,
         NEW f, Sums(f, fun, S)
  PROVE  /\ f[{}] = 0 /\ \A s \in SUBSET S : f[s] \in Int
         /\ \A s \in SUBSET S : \A x \in s : f[s] = fun[x] + f[s \ {x}]
  <1> DEFINE Good(s) == f[s] \in Int /\ \A x \in s : f[s] = fun[x] + f[s \ {x}]
             M == {m \in Nat : \A s \in SUBSET S : Cardinality(s) <= m => Good(s)}
  <1>0. f[{}] = 0
    BY DEF Sums
  <1>1. 0 \in M
    <2>1. ASSUME NEW s \in SUBSET S, Cardinality(s) <= 0 PROVE s = {}
      BY <2>1, NothingLeft
    <2>2. Good({})
      BY <1>0
    <2>3. QED
      BY <2>1, <2>2
  <1>2. ASSUME NEW m \in Nat, m \in M PROVE m + 1 \in M
    <2>1. ASSUME NEW s \in SUBSET S, Cardinality(s) <= m + 1, s # {} PROVE Good(s)
      <3>1. PICK c \in s : c = AnyOf(s)
        BY <2>1 DEF AnyOf
      <3>2. \A x \in s : s \ {x} \in SUBSET S /\ Cardinality(s \ {x}) <= m
        BY <2>1, Smaller
      <3>3. \A x \in s : f[s \ {x}] \in Int
        BY <1>2, <3>2
      <3>4. f[s] = fun[c] + f[s \ {c}]
        BY <2>1, <3>1 DEF Sums
      <3>5. f[s] \in Int
        BY <3>1, <3>3, <3>4
      <3>6. ASSUME NEW x \in s, x # c PROVE f[s] = fun[x] + f[s \ {x}]
        <4>1. x \in s \ {c} /\ c \in s \ {x}
          BY <3>1, <3>6
        <4>2. f[s \ {c}] = fun[x] + f[(s \ {c}) \ {x}]
          BY <1>2, <3>1, <3>2, <4>1
        <4>3. f[s \ {x}] = fun[c] + f[(s \ {x}) \ {c}]
          BY <1>2, <3>2, <4>1
        <4>4. (s \ {x}) \ {c} = (s \ {c}) \ {x}
          OBVIOUS
        <4>5. (s \ {c}) \ {x} \in SUBSET S /\ Cardinality((s \ {c}) \ {x}) <= m
          <5> DEFINE t == s \ {c}
          <5>a. t \in SUBSET S /\ x \in t
            BY <4>1
          <5> HIDE DEF t
          <5>b. Cardinality(t \ {x}) = Cardinality(t) - 1 /\ Cardinality(t) \in Nat
            BY <5>a, Smaller
          <5>1. /\ Cardinality((s \ {c}) \ {x}) = Cardinality(s \ {c}) - 1
                /\ Cardinality(s \ {c}) \in Nat
            BY <5>b DEF t
          <5>2. Cardinality(s \ {c}) <= m
            BY <3>1, <3>2
          <5>3. QED
            BY <3>1, <3>2, <5>1, <5>2
        <4>6. f[(s \ {c}) \ {x}] \in Int
          BY <1>2, <4>5
        <4>7. fun[c] \in Int /\ fun[x] \in Int
          BY <3>1
        <4> DEFINE rest == f[(s \ {c}) \ {x}]
        <4>8. f[s] = fun[c] + (fun[x] + rest) /\ f[s \ {x}] = fun[c] + rest
          BY <3>4, <4>2, <4>3, <4>4
        <4> HIDE DEF rest
        <4>9. rest \in Int
          BY <4>6 DEF rest
        <4>10. fun[c] + (fun[x] + rest) = fun[x] + (fun[c] + rest)
          BY <4>7, <4>9
        <4>11. QED
          BY <4>8, <4>10
      <3>7. QED
        BY <3>4, <3>5, <3>6
    <2>2. ASSUME NEW s \in SUBSET S, Cardinality(s) <= m + 1 PROVE Good(s)
      <3>1. CASE s = {}
        BY <1>0, <3>1
      <3>2. CASE s # {}
        BY <2>1, <2>2, <3>2
      <3>3. QED
        BY <3>1, <3>2
    <2>3. QED
      BY <2>2
  <1> HIDE DEF M
  <1>3. Cardinality(S) \in M
    BY <1>1, <1>2, SetInduction, FS_CardinalityType
  <1>4. \A s \in SUBSET S : Cardinality(s) <= Cardinality(S)
    BY FS_Subset
  <1>5. \A s \in SUBSET S : Good(s)
    BY <1>3, <1>4 DEF M
  <1>6. QED
    BY <1>0, <1>5

\* A sum is one of them, and so are the sums over fewer indices.
LEMMA SumIs ==
  ASSUME NEW S, IsFiniteSet(S), NEW fun, \A x \in S : fun[x] \in Int
  PROVE  \E f : Sums(f, fun, S) /\ SumFunctionOnSet(fun, S) = f[S]
  <1> DEFINE f == CHOOSE g : Sums(g, fun, S)
  <1>1. Sums(f, fun, S)
    BY SumsExist
  <1>2. SumFunctionOnSet(fun, S) = f[S]
    BY DEF SumFunctionOnSet, FoldFunctionOnSet, MapThenFoldSet, Sums, AnyOf
  <1>3. QED
    BY <1>1, <1>2

\* Sums over the same indices of functions that agree on them are equal.
LEMMA SumsUnique ==
  ASSUME NEW S, IsFiniteSet(S), NEW T, IsFiniteSet(T),
         NEW fun, \A x \in S : fun[x] \in Int,
         NEW gun, \A x \in T : gun[x] \in Int,
         NEW U \in SUBSET (S \cap T), \A x \in U : fun[x] = gun[x],
         NEW f, Sums(f, fun, S), NEW g, Sums(g, gun, T)
  PROVE  f[U] = g[U]
  <1> DEFINE M == {m \in Nat : \A s \in SUBSET U : Cardinality(s) <= m => f[s] = g[s]}
  <1>0. /\ f[{}] = 0 /\ \A s \in SUBSET S : \A x \in s : f[s] = fun[x] + f[s \ {x}]
        /\ g[{}] = 0 /\ \A s \in SUBSET T : \A x \in s : g[s] = gun[x] + g[s \ {x}]
    BY SumsAnyOrder
  <1>a. IsFiniteSet(U)
    BY FS_Subset
  <1>1. 0 \in M
    <2>1. ASSUME NEW s \in SUBSET U, Cardinality(s) <= 0 PROVE s = {}
      BY <2>1, <1>a, NothingLeft
    <2>2. QED
      BY <1>0, <2>1
  <1>2. ASSUME NEW m \in Nat, m \in M PROVE m + 1 \in M
    <2>1. ASSUME NEW s \in SUBSET U, Cardinality(s) <= m + 1, s # {} PROVE f[s] = g[s]
      <3>1. PICK x \in s : TRUE
        BY <2>1
      <3>2. s \ {x} \in SUBSET U /\ Cardinality(s \ {x}) <= m
        BY <1>a, <2>1, <3>1, Smaller
      <3>3. f[s \ {x}] = g[s \ {x}]
        BY <1>2, <3>2
      <3>4. s \in SUBSET S /\ s \in SUBSET T /\ fun[x] = gun[x]
        BY <3>1
      <3>5. QED
        BY <1>0, <3>1, <3>3, <3>4
    <2>2. ASSUME NEW s \in SUBSET U, Cardinality(s) <= m + 1 PROVE f[s] = g[s]
      BY <1>0, <2>1, <2>2
    <2>3. QED
      BY <2>2
  <1> HIDE DEF M
  <1>3. Cardinality(U) \in M
    BY <1>a, <1>1, <1>2, SetInduction, FS_CardinalityType
  <1>4. QED
    BY <1>3, <1>a, FS_CardinalityType DEF M

\* The sum over no index.
LEMMA SumEmpty == ASSUME NEW fun PROVE SumFunctionOnSet(fun, {}) = 0
  <1>1. IsFiniteSet({})
    BY FS_EmptySet
  <1>2. PICK f : Sums(f, fun, {}) /\ SumFunctionOnSet(fun, {}) = f[{}]
    BY <1>1, SumIs
  <1>3. QED
    BY <1>2 DEF Sums

\* The sum over one more index.
LEMMA SumAdd ==
  ASSUME NEW S, IsFiniteSet(S), NEW x, x \notin S, NEW fun,
         \A y \in S \cup {x} : fun[y] \in Int
  PROVE  SumFunctionOnSet(fun, S \cup {x})
            = fun[x] + SumFunctionOnSet(fun, S)
  <1> DEFINE T == S \cup {x}
  <1>1. IsFiniteSet(T)
    BY FS_AddElement
  <1>2. PICK f : Sums(f, fun, T) /\ SumFunctionOnSet(fun, T) = f[T]
    BY <1>1, SumIs
  <1>3. PICK g : Sums(g, fun, S) /\ SumFunctionOnSet(fun, S) = g[S]
    BY SumIs
  <1>4. f[T] = fun[x] + f[T \ {x}]
    <2>1. T \in SUBSET T /\ x \in T /\ \A y \in T : fun[y] \in Int
      OBVIOUS
    <2> HIDE DEF T
    <2>2. QED
      BY <1>1, <1>2, <2>1, SumsAnyOrder
  <1>5. T \ {x} = S
    OBVIOUS
  <1>6. f[S] = g[S]
    <2>1. S \in SUBSET (T \cap S) /\ \A y \in T : fun[y] \in Int
      OBVIOUS
    <2> HIDE DEF T
    <2>2. QED
      BY <1>1, <1>2, <1>3, <2>1, SumsUnique
  <1>7. QED
    BY <1>2, <1>3, <1>4, <1>5, <1>6

\* Sums are numbers.
LEMMA SumType ==
  ASSUME NEW S, IsFiniteSet(S), NEW fun, \A x \in S : fun[x] \in Int
  PROVE  SumFunctionOnSet(fun, S) \in Int
  <1>1. PICK f : Sums(f, fun, S) /\ SumFunctionOnSet(fun, S) = f[S]
    BY SumIs
  <1>2. QED
    BY <1>1, SumsAnyOrder

\* Sums depend on the values only.
LEMMA SumSame ==
  ASSUME NEW S, IsFiniteSet(S), NEW fun, NEW gun,
         \A x \in S : fun[x] \in Int /\ fun[x] = gun[x]
  PROVE  SumFunctionOnSet(fun, S) = SumFunctionOnSet(gun, S)
  <1>1. PICK f : Sums(f, fun, S) /\ SumFunctionOnSet(fun, S) = f[S]
    BY SumIs
  <1>2. PICK g : Sums(g, gun, S) /\ SumFunctionOnSet(gun, S) = g[S]
    BY SumIs
  <1>3. S \in SUBSET (S \cap S) /\ \A x \in S : gun[x] \in Int
    OBVIOUS
  <1>4. f[S] = g[S]
    BY <1>1, <1>2, <1>3, SumsUnique
  <1>5. QED
    BY <1>1, <1>2, <1>4

\* The sum of the first values.
Total(fun, n) == SumFunctionOnSet(fun, 1 .. n)

\* Totals, value by value.
LEMMA TotalSteps ==
  ASSUME NEW n \in Nat, NEW fun, \A k \in 1 .. n : fun[k] \in Int
  PROVE  /\ Total(fun, 0) = 0
         /\ \A k \in 0 .. n : Total(fun, k) \in Int
         /\ \A k \in 1 .. n : Total(fun, k) = Total(fun, k - 1) + fun[k]
  <1>1. 1 .. 0 = {}
    OBVIOUS
  <1>2. Total(fun, 0) = 0
    BY <1>1, SumEmpty DEF Total
  <1>3. ASSUME NEW k \in 0 .. n PROVE Total(fun, k) \in Int
    <2>1. IsFiniteSet(1 .. k)
      BY FS_Interval
    <2>2. QED
      BY <2>1, SumType DEF Total
  <1>4. ASSUME NEW k \in 1 .. n PROVE Total(fun, k) = Total(fun, k - 1) + fun[k]
    <2>1. IsFiniteSet(1 .. k - 1)
      BY FS_Interval
    <2>2. 1 .. k = (1 .. k - 1) \cup {k} /\ k \notin 1 .. k - 1
      OBVIOUS
    <2>3. \A y \in 1 .. k : fun[y] \in Int
      OBVIOUS
    <2>4. Total(fun, k) = fun[k] + Total(fun, k - 1)
      BY <2>1, <2>2, <2>3, SumAdd DEF Total
    <2>5. QED
      BY <1>3, <2>4
  <1>5. QED
    BY <1>2, <1>3, <1>4

\* What grows by the values.
GrowsBy(g, fun, n) ==
  /\ n \in Nat /\ g[0] = 0
  /\ \A k \in 1 .. n : fun[k] \in Int /\ g[k] = g[k - 1] + fun[k]

\* It is their total.
LEMMA TotalIs ==
  ASSUME NEW n, NEW fun, NEW g, GrowsBy(g, fun, n)
  PROVE  \A k \in 0 .. n : Total(fun, k) = g[k]
  <1> DEFINE S == {k \in 0 .. n : Total(fun, k) = g[k]}
  <1>0. /\ n \in Nat /\ g[0] = 0
        /\ \A k \in 1 .. n : fun[k] \in Int /\ g[k] = g[k - 1] + fun[k]
    BY DEF GrowsBy
  <1>1. 0 \in S
    BY <1>0, TotalSteps
  <1>2. \A k \in 1 .. n : k - 1 \in S => k \in S
    BY <1>0, TotalSteps
  <1> HIDE DEF S
  <1>3. 0 .. n \subseteq S
    BY <1>0, <1>1, <1>2, BoundedInduction
  <1>4. QED
    BY <1>3 DEF S

\* Totals of natural numbers grow.
LEMMA TotalGrows ==
  ASSUME NEW n \in Nat, NEW fun, \A k \in 1 .. n : fun[k] \in Nat
  PROVE  /\ \A k \in 0 .. n : Total(fun, k) \in Nat
         /\ \A j, k \in 0 .. n : j <= k => Total(fun, j) <= Total(fun, k)
  <1>0. /\ Total(fun, 0) = 0
        /\ \A k \in 1 .. n : Total(fun, k) = Total(fun, k - 1) + fun[k]
    BY TotalSteps
  <1> DEFINE S == {k \in 0 .. n : /\ Total(fun, k) \in Nat
                                  /\ \A j \in 0 .. k : Total(fun, j) <= Total(fun, k)}
  <1>1. 0 \in S
    BY <1>0
  <1>2. ASSUME NEW k \in 1 .. n, k - 1 \in S PROVE k \in S
    <2>1. Total(fun, k) \in Nat /\ Total(fun, k - 1) \in Nat
            /\ Total(fun, k - 1) <= Total(fun, k)
      BY <1>0, <1>2
    <2>2. ASSUME NEW j \in 0 .. k PROVE Total(fun, j) <= Total(fun, k)
      <3>1. CASE j = k
        BY <2>1, <3>1
      <3>2. CASE j # k
        <4>1. j \in 0 .. k - 1 /\ j \in 0 .. n
          BY <3>2
        <4>2. Total(fun, j) <= Total(fun, k - 1) /\ Total(fun, j) \in Int
          BY <1>2, <4>1, TotalSteps
        <4>3. QED
          BY <2>1, <4>2
      <3>3. QED
        BY <3>1, <3>2
    <2>3. QED
      BY <2>1, <2>2
  <1> HIDE DEF S
  <1>3. 0 .. n \subseteq S
    BY <1>1, <1>2, BoundedInduction
  <1>4. QED
    BY <1>3 DEF S

\* Every number up to the whole lies in one block.
LEMMA TotalBlocks ==
  ASSUME NEW n \in Nat, NEW fun, \A k \in 1 .. n : fun[k] \in Nat,
         NEW p \in 1 .. Total(fun, n)
  PROVE  \E k \in 1 .. n : \E i \in 1 .. fun[k] : p = Total(fun, k - 1) + i
  <1>0. /\ Total(fun, 0) = 0
        /\ \A k \in 0 .. n : Total(fun, k) \in Nat
        /\ \A k \in 1 .. n : Total(fun, k) = Total(fun, k - 1) + fun[k]
    BY TotalSteps, TotalGrows
  <1> DEFINE S == {k \in 0 .. n : p <= Total(fun, k)}
  <1>1. n \in S /\ S \in SUBSET Nat
    BY <1>0
  <1>2. PICK k \in S : \A m \in S : k <= m
    BY <1>1, LeastNumber
  <1>3. k # 0
    BY <1>0, <1>2
  <1>4. k \in 1 .. n /\ k - 1 \in 0 .. n /\ k - 1 \notin S
    BY <1>2, <1>3
  <1>5. p <= Total(fun, k) /\ ~(p <= Total(fun, k - 1))
    BY <1>2, <1>4
  <1>6. p - Total(fun, k - 1) \in 1 .. fun[k]
    BY <1>0, <1>4, <1>5
  <1>7. p = Total(fun, k - 1) + (p - Total(fun, k - 1))
    BY <1>0, <1>4
  <1>8. QED
    BY <1>4, <1>6, <1>7

-----------------------------------------------------------------------------
(* Sequences one behind the other *)

\* A row of n sequences.
Row(seqs, n, T) ==
  /\ n \in Nat /\ DOMAIN seqs = 1 .. n /\ Len(seqs) = n /\ (n = 0 => seqs = << >>)
  /\ \A k \in 1 .. n : seqs[k] \in Seq(T) /\ Len(seqs[k]) \in Nat

\* Sequences of sequences are rows.
LEMMA RowIs ==
  ASSUME NEW T, NEW seqs \in Seq(Seq(T)) PROVE Row(seqs, Len(seqs), T)
  <1>1. /\ Len(seqs) \in Nat /\ DOMAIN seqs = 1 .. Len(seqs)
        /\ (Len(seqs) = 0 => seqs = << >>)
    BY LenProperties, EmptySeq
  <1>2. \A k \in 1 .. Len(seqs) : seqs[k] \in Seq(T)
    BY ElementOfSeq
  <1>3. \A k \in 1 .. Len(seqs) : Len(seqs[k]) \in Nat
    BY <1>2, LenProperties
  <1>4. QED
    BY <1>1, <1>2, <1>3 DEF Row

\* Of two sequences one behind the other.
LEMMA ConcatAt ==
  ASSUME NEW T, NEW u \in Seq(T), NEW v \in Seq(T)
  PROVE  /\ u \o v \in Seq(T) /\ Len(u \o v) = Len(u) + Len(v)
         /\ \A i \in 1 .. Len(u) : (u \o v)[i] = u[i]
         /\ \A i \in 1 .. Len(v) : (u \o v)[Len(u) + i] = v[i]
  OBVIOUS

Lengths(seqs) == [k \in DOMAIN seqs |-> Len(seqs[k])]
\* What is in front of sequence k.
Before(seqs, k) == Total(Lengths(seqs), k - 1)

\* The places of the sequences.
LEMMA Places ==
  ASSUME NEW T, NEW n, NEW seqs, Row(seqs, n, T)
  PROVE  /\ Before(seqs, 1) = 0
         /\ \A k \in 1 .. n + 1 : Before(seqs, k) \in Nat
         /\ \A k \in 1 .. n : Before(seqs, k + 1) = Before(seqs, k) + Len(seqs[k])
         /\ \A j, k \in 1 .. n + 1 : j <= k => Before(seqs, j) <= Before(seqs, k)
  <1>b. PICK fun : fun = Lengths(seqs)
    OBVIOUS
  <1>1. n \in Nat /\ \A k \in 1 .. n : fun[k] \in Nat /\ fun[k] = Len(seqs[k])
    BY <1>b DEF Lengths, Row
  <1>2. /\ Total(fun, 0) = 0
        /\ \A k \in 0 .. n : Total(fun, k) \in Nat
        /\ \A k \in 1 .. n : Total(fun, k) = Total(fun, k - 1) + fun[k]
        /\ \A j, k \in 0 .. n : j <= k => Total(fun, j) <= Total(fun, k)
    <2>1. n \in Nat /\ (\A k \in 1 .. n : fun[k] \in Nat) /\ \A k \in 1 .. n : fun[k] \in Int
      BY <1>1
    <2>2. /\ Total(fun, 0) = 0
          /\ \A k \in 1 .. n : Total(fun, k) = Total(fun, k - 1) + fun[k]
      BY <2>1, TotalSteps
    <2>3. /\ \A k \in 0 .. n : Total(fun, k) \in Nat
          /\ \A j, k \in 0 .. n : j <= k => Total(fun, j) <= Total(fun, k)
      BY <2>1, TotalGrows
    <2>4. QED
      BY <2>2, <2>3
  <1>3. \A k : Before(seqs, k) = Total(fun, k - 1)
    BY <1>b DEF Before
  <1>4. Before(seqs, 1) = 0
    BY <1>2, <1>3
  <1>5. \A k \in 1 .. n + 1 : k - 1 \in 0 .. n
    BY <1>1
  <1>6. \A k \in 1 .. n : Before(seqs, k + 1) = Before(seqs, k) + Len(seqs[k])
    <2> TAKE k \in 1 .. n
    <2>1. (k + 1) - 1 = k
      BY <1>1
    <2>2. QED
      BY <1>1, <1>2, <1>3, <2>1
  <1>7. \A k \in 1 .. n + 1 : Before(seqs, k) \in Nat
    BY <1>2, <1>3, <1>5
  <1>8. \A j, k \in 1 .. n + 1 : j <= k => Before(seqs, j) <= Before(seqs, k)
    <2> TAKE j, k \in 1 .. n + 1
    <2> HAVE j <= k
    <2>1. j - 1 \in 0 .. n /\ k - 1 \in 0 .. n /\ j - 1 <= k - 1
      BY <1>1
    <2>2. QED
      BY <1>2, <1>3, <2>1
  <1>9. QED
    BY <1>4, <1>6, <1>7, <1>8

\* Every place belongs to one of the sequences.
LEMMA PlaceOf ==
  ASSUME NEW T, NEW n, NEW seqs, Row(seqs, n, T), NEW p \in 1 .. Before(seqs, n + 1)
  PROVE  \E k \in 1 .. n : \E i \in 1 .. Len(seqs[k]) : p = Before(seqs, k) + i
  <1>b. PICK fun : fun = Lengths(seqs)
    OBVIOUS
  <1>1. n \in Nat /\ \A k \in 1 .. n : fun[k] \in Nat /\ fun[k] = Len(seqs[k])
    BY <1>b DEF Lengths, Row
  <1>2. (n + 1) - 1 = n
    BY <1>1
  <1>3. p \in 1 .. Total(fun, n)
    BY <1>b, <1>2 DEF Before
  <1>4. \E k \in 1 .. n : \E i \in 1 .. fun[k] : p = Total(fun, k - 1) + i
    BY <1>1, <1>3, TotalBlocks
  <1>5. QED
    BY <1>b, <1>1, <1>4 DEF Before

\* FlattenSeq appends them one after the other.
Appends(g, seqs, n, T) ==
  /\ g \in [0 .. n -> Seq(T)]
  /\ g[0] = << >> /\ \A k \in 1 .. n : g[k] = g[k - 1] \o seqs[k]
  /\ FlattenSeq(seqs) = g[n]

\* FlattenSeq is the last of the appended sequences.
LEMMA FlattenRun ==
  ASSUME NEW T, NEW n, NEW seqs, Row(seqs, n, T)
  PROVE  \E g : Appends(g, seqs, n, T)
  <1> DEFINE step == [k \in 1 .. n |-> [v \in Seq(T) |-> v \o seqs[k]]]
             Q(h) == h = [i \in 1 .. Len(seqs) |->
                            IF i = 1 THEN seqs[i] ELSE h[i - 1] \o seqs[i]]
  <1>0. n \in Nat /\ Len(seqs) = n /\ \A k \in 1 .. n : seqs[k] \in Seq(T)
    BY DEF Row
  <1>1. step \in Steps(Seq(T), n)
    <2>1. \A k \in 1 .. n : \A v \in Seq(T) : v \o seqs[k] \in Seq(T)
      BY <1>0, ConcatAt
    <2>2. QED
      BY <2>1 DEF Steps
  <1>2. \A k \in 1 .. n : \A v \in Seq(T) : step[k][v] = v \o seqs[k]
    OBVIOUS
  <1> HIDE DEF step
  <1>b. PICK empty \in Seq(T) : empty = << >>
    BY EmptySeq
  <1>3. PICK g \in [0 .. n -> Seq(T)] :
                g[0] = empty /\ \A k \in 1 .. n : g[k] = step[k][g[k - 1]]
    <2>1. n \in Nat
      BY <1>0
    <2>2. \E g : Runs(g, Seq(T), empty, step, n)
      BY <1>b, <1>1, <2>1, Recursion, Zenon
    <2>3. QED
      BY <2>2, Zenon DEF Runs
  <1>4. \A k \in 1 .. n : g[k - 1] \in Seq(T) /\ g[k] = g[k - 1] \o seqs[k]
    <2> TAKE k \in 1 .. n
    <2>1. k - 1 \in 0 .. n
      BY <1>0
    <2>2. g[k - 1] \in Seq(T)
      BY <1>3, <2>1
    <2>3. QED
      BY <1>2, <1>3, <2>2
  <1>5. FlattenSeq(seqs) = g[n]
    <2>1. CASE n = 0
      <3>1. FlattenSeq(seqs) = << >>
        BY <1>0, <2>1 DEF FlattenSeq, Row
      <3>2. QED
        BY <1>b, <1>3, <2>1, <3>1
    <2>2. CASE n # 0
      <3>1. g[1] = seqs[1]
        <4>1. 1 \in 1 .. n /\ 1 - 1 = 0
          BY <1>0, <2>2
        <4>2. g[1] = << >> \o seqs[1]
          BY <1>b, <1>3, <1>4, <4>1
        <4>3. seqs[1] \in Seq(T)
          BY <1>0, <4>1
        <4>4. QED
          BY <4>2, <4>3, ConcatEmptySeq
      <3>2. \A i \in 1 .. n : i # 1 => i - 1 \in 1 .. n
        BY <1>0
      <3>3. Q([i \in 1 .. n |-> g[i]])
        BY <1>0, <1>4, <3>1, <3>2
      <3>4. PICK f : f = CHOOSE h : Q(h)
        OBVIOUS
      <3>5. Q(f)
        BY <3>3, <3>4
      <3>6. FlattenSeq(seqs) = f[n]
        BY <1>0, <2>2, <3>4 DEF FlattenSeq
      <3>7. f[1] = seqs[1] /\ \A i \in 1 .. n : i # 1 => f[i] = f[i - 1] \o seqs[i]
        <4>1. 1 \in 1 .. n
          BY <1>0, <2>2
        <4>2. QED
          BY <1>0, <3>5, <4>1
      <3> DEFINE S == {k \in 0 .. n : k # 0 => f[k] = g[k]}
      <3>8. 0 \in S
        BY <1>0
      <3>9. ASSUME NEW k \in 1 .. n, k - 1 \in S PROVE k \in S
        <4>1. CASE k = 1
          BY <1>0, <3>1, <3>7, <4>1
        <4>2. CASE k # 1
          <5>1. g[k] = g[k - 1] \o seqs[k] /\ f[k] = f[k - 1] \o seqs[k]
            BY <1>4, <3>7, <4>2
          <5>2. f[k - 1] = g[k - 1]
            BY <1>0, <3>9, <4>2
          <5>3. k \in 0 .. n
            BY <1>0
          <5>4. QED
            BY <5>1, <5>2, <5>3
        <4>3. QED
          BY <4>1, <4>2
      <3>10. n \in S
        <4> HIDE DEF S
        <4>1. n \in 0 .. n
          BY <1>0
        <4>2. QED
          BY <1>0, <3>8, <3>9, <4>1, BoundedInduction
      <3>11. QED
        BY <2>2, <3>6, <3>10
    <2>3. QED
      BY <2>1, <2>2
  <1>6. Appends(g, seqs, n, T)
    BY <1>b, <1>3, <1>4, <1>5 DEF Appends
  <1>7. QED
    BY <1>6

\* That puts them in their places.
LEMMA FlattenIs ==
  ASSUME NEW T, NEW n, NEW seqs, Row(seqs, n, T)
  PROVE  /\ FlattenSeq(seqs) \in Seq(T)
         /\ Len(FlattenSeq(seqs)) = Before(seqs, n + 1)
         /\ \A k \in 1 .. n : \A i \in 1 .. Len(seqs[k]) :
               FlattenSeq(seqs)[Before(seqs, k) + i] = seqs[k][i]
  <1>a. n \in Nat /\ \A k \in 1 .. n : seqs[k] \in Seq(T) /\ Len(seqs[k]) \in Nat
    BY DEF Row
  <1>1. PICK g \in [0 .. n -> Seq(T)] :
            /\ g[0] = << >> /\ \A k \in 1 .. n : g[k] = g[k - 1] \o seqs[k]
            /\ FlattenSeq(seqs) = g[n]
    <2>1. PICK g : Appends(g, seqs, n, T)
      BY FlattenRun
    <2>2. QED
      BY <2>1 DEF Appends
  <1>b. PICK b : \A k \in 1 .. n + 1 : b[k] = Before(seqs, k)
    <2>1. \A k \in 1 .. n + 1 :
             [j \in 1 .. n + 1 |-> Before(seqs, j)][k] = Before(seqs, k)
      OBVIOUS
    <2>2. QED
      BY <2>1
  <1>2. /\ b[1] = 0 /\ \A k \in 1 .. n + 1 : b[k] \in Nat
        /\ \A k \in 1 .. n : b[k + 1] = b[k] + Len(seqs[k])
        /\ \A j, k \in 1 .. n + 1 : j <= k => b[j] <= b[k]
    <2>1. /\ 1 \in 1 .. n + 1
          /\ \A k \in 1 .. n : k \in 1 .. n + 1 /\ k + 1 \in 1 .. n + 1
      BY <1>a
    <2>2. QED
      BY <1>b, <2>1, Places
  <1> DEFINE R == {k \in 0 .. n :
                     /\ Len(g[k]) = b[k + 1]
                     /\ \A j \in 1 .. k : \A i \in 1 .. Len(seqs[j]) :
                           g[k][b[j] + i] = seqs[j][i]}
  <1>3. 0 \in R
    BY <1>a, <1>1, <1>2, EmptySeq
  <1>4. ASSUME NEW k \in 1 .. n, k - 1 \in R PROVE k \in R
    <2>0. k - 1 \in 0 .. n /\ k \in 0 .. n /\ (k - 1) + 1 = k /\ k \in 1 .. n + 1
      BY <1>a
    <2>1. PICK u \in Seq(T) : u = g[k - 1]
      BY <1>1, <2>0
    <2>2. PICK v \in Seq(T) : v = seqs[k]
      BY <1>a
    <2>3. g[k] = u \o v
      BY <1>1, <2>1, <2>2
    <2>4. Len(u) = b[k] /\ b[k] \in Nat /\ b[k + 1] = b[k] + Len(v) /\ Len(v) \in Nat
      BY <1>a, <1>2, <1>4, <2>0, <2>1, <2>2
    <2>5. Len(g[k]) = b[k + 1]
      BY <2>3, <2>4, ConcatAt
    <2>6. ASSUME NEW j \in 1 .. k, NEW i \in 1 .. Len(seqs[j])
          PROVE  g[k][b[j] + i] = seqs[j][i]
      <3>1. CASE j = k
        <4>1. i \in 1 .. Len(v)
          BY <2>2, <3>1
        <4>2. (u \o v)[Len(u) + i] = v[i]
          BY <4>1, ConcatAt
        <4>3. QED
          BY <2>2, <2>3, <2>4, <3>1, <4>2
      <3>2. CASE j # k
        <4>1. j \in 1 .. k - 1 /\ j \in 1 .. n /\ j + 1 \in 1 .. n + 1
                /\ k \in 1 .. n + 1 /\ j + 1 <= k /\ j \in 1 .. n + 1
          BY <1>a, <3>2
        <4>2. b[j] \in Nat /\ b[j + 1] = b[j] + Len(seqs[j]) /\ b[j + 1] <= b[k]
          BY <1>2, <4>1
        <4>3. Len(seqs[j]) \in Nat
          BY <1>a, <4>1
        <4>4. b[j] + i \in 1 .. Len(u)
          <5>1. \A x, y, l \in Nat : \A m \in 1 .. y : x + y <= l => x + m \in 1 .. l
            OBVIOUS
          <5>2. Len(u) \in Nat /\ b[j] + Len(seqs[j]) <= Len(u)
            BY <2>4, <4>2, Zenon
          <5>3. QED
            BY <4>2, <4>3, <5>1, <5>2, Zenon
        <4>5. (u \o v)[b[j] + i] = u[b[j] + i]
          BY <4>4, ConcatAt, Zenon
        <4>6. u[b[j] + i] = seqs[j][i]
          BY <1>4, <2>1, <4>1
        <4>7. QED
          BY <2>3, <4>5, <4>6
      <3>3. QED
        BY <3>1, <3>2
    <2>7. QED
      BY <2>0, <2>5, <2>6
  <1>5. n \in R
    <2> HIDE DEF R
    <2>1. n \in 0 .. n
      BY <1>a
    <2>2. QED
      BY <1>a, <1>3, <1>4, <2>1, BoundedInduction
  <1>6. Len(g[n]) = Before(seqs, n + 1)
    <2>1. n + 1 \in 1 .. n + 1
      BY <1>a
    <2>2. QED
      BY <1>b, <1>5, <2>1
  <1>7. \A j \in 1 .. n : \A i \in 1 .. Len(seqs[j]) :
           g[n][Before(seqs, j) + i] = seqs[j][i]
    <2>1. \A j \in 1 .. n : j \in 1 .. n + 1 /\ b[j] = Before(seqs, j)
      BY <1>a, <1>b
    <2>2. QED
      BY <1>5, <2>1
  <1>8. g[n] \in Seq(T)
    BY <1>a, <1>1
  <1>9. QED
    BY <1>a, <1>1, <1>6, <1>7, <1>8

\* And nothing else: what has the sequences at these places is their row.
LEMMA IsFlattened ==
  ASSUME NEW T, NEW n, NEW seqs, Row(seqs, n, T), NEW U, NEW t \in Seq(U),
         Len(t) = Before(seqs, n + 1),
         \A k \in 1 .. n : \A i \in 1 .. Len(seqs[k]) :
            t[Before(seqs, k) + i] = seqs[k][i]
  PROVE  FlattenSeq(seqs) = t
  <1>1. ASSUME NEW p \in 1 .. Len(t) PROVE FlattenSeq(seqs)[p] = t[p]
    <2>1. p \in 1 .. Before(seqs, n + 1)
      OBVIOUS
    <2>2. PICK k \in 1 .. n : \E i \in 1 .. Len(seqs[k]) : p = Before(seqs, k) + i
      BY <2>1, PlaceOf
    <2>3. PICK i \in 1 .. Len(seqs[k]) : p = Before(seqs, k) + i
      BY <2>2
    <2>4. QED
      BY <2>3, FlattenIs
  <1>2. FlattenSeq(seqs) \in Seq(T) /\ Len(FlattenSeq(seqs)) = Len(t)
    BY FlattenIs
  <1>3. FlattenSeq(seqs) \in Seq(T \cup U) /\ t \in Seq(T \cup U)
    BY <1>2, SeqMonotonic
  <1>4. QED
    BY <1>1, <1>2, <1>3, SeqEqual

-----------------------------------------------------------------------------
(* Sequences one behind the other, and parts of them *)

\* Rows one behind the other.
Joins(c, a, n, b, m, T) ==
  /\ Row(a, n, T) /\ Row(b, m, T) /\ Row(c, n + m, T)
  /\ \A k \in 1 .. n : c[k] = a[k]
  /\ \A k \in 1 .. m : c[n + k] = b[k]

\* So are what they flatten to.
LEMMA FlattenJoin ==
  ASSUME NEW T, NEW n, NEW a, NEW m, NEW b, NEW c, Joins(c, a, n, b, m, T)
  PROVE  FlattenSeq(c) = FlattenSeq(a) \o FlattenSeq(b)
  <1>a. /\ Row(a, n, T) /\ Row(b, m, T) /\ Row(c, n + m, T)
        /\ \A k \in 1 .. n : c[k] = a[k]
        /\ \A k \in 1 .. m : c[n + k] = b[k]
    BY DEF Joins
  <1>0. /\ n \in Nat /\ m \in Nat
        /\ \A k \in 1 .. n : a[k] \in Seq(T)
        /\ \A k \in 1 .. m : b[k] \in Seq(T)
    BY <1>a DEF Row
  <1>1. PICK ga : Appends(ga, a, n, T)
    BY <1>a, FlattenRun
  <1>2. PICK gb : Appends(gb, b, m, T)
    BY <1>a, FlattenRun
  <1>3. PICK gc : Appends(gc, c, n + m, T)
    BY <1>a, FlattenRun
  <1> DEFINE A == {k \in 0 .. n : gc[k] = ga[k]}
             B == {k \in 0 .. m : gc[n + k] = ga[n] \o gb[k]}
  <1>4. n \in A
    <2>1. 0 \in A
      BY <1>0, <1>1, <1>3 DEF Appends
    <2>2. ASSUME NEW k \in 1 .. n, k - 1 \in A PROVE k \in A
      <3>1. k \in 1 .. n + m /\ k \in 0 .. n
        BY <1>0
      <3>2. gc[k] = gc[k - 1] \o c[k] /\ ga[k] = ga[k - 1] \o a[k]
        BY <1>a, <1>1, <1>3, <3>1 DEF Appends
      <3>3. QED
        BY <1>a, <2>2, <3>1, <3>2
    <2> HIDE DEF A
    <2>3. 0 .. n \subseteq A
      BY <1>0, <2>1, <2>2, BoundedInduction
    <2>4. QED
      BY <1>0, <2>3
  <1>5. m \in B
    <2>a. /\ ga[n] \in Seq(T) /\ \A k \in 0 .. m : gb[k] \in Seq(T)
      BY <1>0, <1>1, <1>2 DEF Appends
    <2>1. 0 \in B
      <3>1. gb[0] = << >> /\ gc[n] = ga[n] /\ n + 0 = n
        BY <1>0, <1>2, <1>4 DEF Appends
      <3>2. ga[n] \o << >> = ga[n]
        BY <2>a, ConcatEmptySeq, Zenon
      <3>3. gc[n + 0] = ga[n] \o gb[0]
        BY <3>1, <3>2, Zenon
      <3>4. 0 \in 0 .. m
        BY <1>0
      <3>5. QED
        BY <3>3, <3>4
    <2>2. ASSUME NEW k \in 1 .. m, k - 1 \in B PROVE k \in B
      <3>1. /\ n + k \in 1 .. n + m /\ k \in 0 .. m /\ k - 1 \in 0 .. m
            /\ (n + k) - 1 = n + (k - 1)
        BY <1>0
      <3>2. gc[n + k] = gc[n + (k - 1)] \o b[k] /\ gb[k] = gb[k - 1] \o b[k]
        BY <1>a, <1>2, <1>3, <3>1 DEF Appends
      <3>3. gc[n + (k - 1)] = ga[n] \o gb[k - 1]
        BY <2>2
      <3>4. (ga[n] \o gb[k - 1]) \o b[k] = ga[n] \o (gb[k - 1] \o b[k])
        <4>1. ga[n] \in Seq(T) /\ gb[k - 1] \in Seq(T) /\ b[k] \in Seq(T)
          BY <1>0, <2>a, <3>1
        <4>2. PICK u \in Seq(T) : u = ga[n]
          BY <4>1
        <4>3. PICK v \in Seq(T) : v = gb[k - 1]
          BY <4>1
        <4>4. PICK w \in Seq(T) : w = b[k]
          BY <4>1
        <4>5. (u \o v) \o w = u \o (v \o w)
          BY ConcatAssociative
        <4>6. QED
          BY <4>2, <4>3, <4>4, <4>5, Zenon
      <3>5. gc[n + k] = ga[n] \o gb[k]
        BY <3>2, <3>3, <3>4
      <3>6. QED
        BY <3>1, <3>5
    <2> HIDE DEF B
    <2>3. 0 .. m \subseteq B
      BY <1>0, <2>1, <2>2, BoundedInduction
    <2>4. QED
      BY <1>0, <2>3
  <1>6. gc[n + m] = ga[n] \o gb[m]
    BY <1>5
  <1>7. QED
    BY <1>1, <1>2, <1>3, <1>6 DEF Appends

\* A sequence with others at their places.
Located(t, seqs, n) ==
  \A k \in 1 .. n : \A i \in 1 .. Len(seqs[k]) : t[Before(seqs, k) + i] = seqs[k][i]

\* What they flatten to has them there.
LEMMA FlattenLocated ==
  ASSUME NEW T, NEW n, NEW seqs, Row(seqs, n, T)
  PROVE  /\ FlattenSeq(seqs) \in Seq(T) /\ Len(FlattenSeq(seqs)) = Before(seqs, n + 1)
         /\ Located(FlattenSeq(seqs), seqs, n)
  BY FlattenIs DEF Located

\* And is the only sequence of its length that has.
LEMMA LocatedIs ==
  ASSUME NEW T, NEW n, NEW seqs, Row(seqs, n, T), NEW U, NEW t \in Seq(U),
         Len(t) = Before(seqs, n + 1), Located(t, seqs, n)
  PROVE  FlattenSeq(seqs) = t
  BY IsFlattened DEF Located

\* One sequence alone.
LEMMA FlattenOne ==
  ASSUME NEW T, NEW a, Row(a, 1, T)
  PROVE  FlattenSeq(a) = a[1]
  <1>1. PICK g : Appends(g, a, 1, T)
    BY FlattenRun
  <1>2. /\ g[0] = << >> /\ g[1] = g[0] \o a[1] /\ FlattenSeq(a) = g[1] /\ a[1] \in Seq(T)
    BY <1>1 DEF Appends, Row
  <1>3. << >> \o a[1] = a[1]
    BY <1>2, ConcatEmptySeq
  <1>4. QED
    BY <1>2, <1>3

\* None at all.
LEMMA FlattenNone ==
  ASSUME NEW T, NEW a, Row(a, 0, T)
  PROVE  FlattenSeq(a) = << >>
  <1>1. PICK g : Appends(g, a, 0, T)
    BY FlattenRun
  <1>2. QED
    BY <1>1 DEF Appends

\* Three tuples of one.
LEMMA TuplesJoin ==
  ASSUME NEW a, NEW b, NEW c
  PROVE  (<<a>> \o <<b>>) \o <<c>> = <<a, b, c>>
  <1> DEFINE T == {a, b, c}
  <1>1. PICK u : u = <<a>> \o <<b>>
    OBVIOUS
  <1>2. PICK v : v = <<c>>
    OBVIOUS
  <1>3. PICK h : h = <<a, b, c>>
    OBVIOUS
  <1>4. u \in Seq(T) /\ Len(u) = 2 /\ u[1] = a /\ u[2] = b
    BY <1>1
  <1>5. v \in Seq(T) /\ Len(v) = 1 /\ v[1] = c
    BY <1>2
  <1>6. h \in Seq(T) /\ Len(h) = 3 /\ h[1] = a /\ h[2] = b /\ h[3] = c
    BY <1>3
  <1> HIDE DEF T
  <1>7. /\ u \o v \in Seq(T) /\ Len(u \o v) = Len(u) + Len(v)
        /\ \A i \in 1 .. Len(u) : (u \o v)[i] = u[i]
        /\ \A i \in 1 .. Len(v) : (u \o v)[Len(u) + i] = v[i]
    <2>1. u \in Seq(T) /\ v \in Seq(T)
      BY <1>4, <1>5
    <2>2. QED
      BY <2>1, ConcatAt
  <1>8. PICK w \in Seq(T) : w = u \o v
    BY <1>7
  <1>9. Len(w) = 3 /\ w[1] = a /\ w[2] = b /\ w[3] = c
    BY <1>4, <1>5, <1>7, <1>8
  <1>10. \A i \in 1 .. Len(w) : w[i] = h[i]
    BY <1>6, <1>9
  <1>11. w = h
    BY <1>6, <1>9, <1>10, SeqEqual
  <1>12. QED
    BY <1>1, <1>2, <1>3, <1>8, <1>11, Zenon

\* A part of a sequence is as long as it says and has the elements from there.
LEMMA PartIs ==
  ASSUME NEW T, NEW w, NEW a \in Nat, NEW n \in Nat, \A i \in 1 .. n : w[a + i] \in T
  PROVE  /\ SubSeq(w, a + 1, a + n) \in Seq(T) /\ Len(SubSeq(w, a + 1, a + n)) = n
         /\ \A i \in 1 .. n : SubSeq(w, a + 1, a + n)[i] = w[a + i]
  <1>1. PICK m \in Int : m = a + 1
    OBVIOUS
  <1>2. PICK l \in Int : l = a + n
    OBVIOUS
  <1>3. \A i \in m .. l : w[i] \in T
    <2> TAKE i \in m .. l
    <2>1. PICK j \in 1 .. n : i = a + j
      <3>1. i - a \in 1 .. n /\ i = a + (i - a)
        BY <1>1, <1>2
      <3>2. QED
        BY <3>1
    <2>2. QED
      BY <2>1
  <1>4. PICK x : x = SubSeq(w, m, l)
    OBVIOUS
  <1>5. /\ x \in Seq(T) /\ Len(x) = IF m <= l THEN l - m + 1 ELSE 0
        /\ \A i \in 1 .. l - m + 1 : x[i] = w[m + i - 1]
    BY <1>3, <1>4, SubSeqProperties
  <1>6. l - m + 1 = n /\ (m <= l <=> n >= 1) /\ \A i \in 1 .. n : m + i - 1 = a + i
    BY <1>1, <1>2
  <1>7. Len(x) = n /\ \A i \in 1 .. n : x[i] = w[a + i]
    <2>1. Len(x) = n
      <3>1. Len(x) = IF m <= l THEN l - m + 1 ELSE 0
        BY <1>5
      <3>2. QED
        BY <1>6, <3>1
    <2>2. \A i \in 1 .. l - m + 1 : x[i] = w[m + i - 1]
      BY <1>5
    <2>3. 1 .. l - m + 1 = 1 .. n
      BY <1>6
    <2>4. QED
      BY <1>6, <2>1, <2>2, <2>3
  <1>8. QED
    BY <1>1, <1>2, <1>4, <1>5, <1>7

\* A part is what has its elements.
LEMMA PartSame ==
  ASSUME NEW T, NEW x, NEW a \in Nat, NEW p \in Seq(T), NEW n \in Nat, n = Len(p),
         \A i \in 1 .. n : x[a + i] = p[i]
  PROVE  SubSeq(x, a + 1, a + n) = p
  <1>1. \A i \in 1 .. n : p[i] \in T
    BY ElementOfSeq
  <1>2. \A i \in 1 .. n : x[a + i] \in T
    BY <1>1
  <1>3. PICK u : u = SubSeq(x, a + 1, a + n)
    OBVIOUS
  <1>4. u \in Seq(T) /\ Len(u) = n /\ \A i \in 1 .. n : u[i] = x[a + i]
    BY <1>2, <1>3, PartIs
  <1>5. u = p
    BY <1>4, SeqEqual
  <1>6. QED
    BY <1>3, <1>5

\* What is read behind the first a of a sequence.
Shown(x, a, p) == \A i \in 1 .. Len(p) : x[a + i] = p[i]

\* The part of a sequence that shows another is the other.
LEMMA PartShown ==
  ASSUME NEW T, NEW x, NEW a \in Nat, NEW p \in Seq(T), Shown(x, a, p)
  PROVE  SubSeq(x, a + 1, a + Len(p)) = p
  <1>1. PICK n \in Nat : n = Len(p)
    OBVIOUS
  <1>2. \A i \in 1 .. n : x[a + i] = p[i]
    BY <1>1 DEF Shown
  <1>3. SubSeq(x, a + 1, a + n) = p
    BY <1>1, <1>2, PartSame
  <1>4. QED
    BY <1>1, <1>3

\* The parts of two sequences one behind the other.
LEMMA JoinParts ==
  ASSUME NEW T, NEW u \in Seq(T), NEW v \in Seq(T), NEW w, w = u \o v
  PROVE  /\ SubSeq(w, 1, Len(u)) = u /\ SubSeq(w, Len(u) + 1, Len(w)) = v
         /\ \A k \in 0 .. Len(u) : SubSeq(w, 1, k) = SubSeq(u, 1, k)
  <1>1. /\ w \in Seq(T) /\ Len(w) = Len(u) + Len(v)
        /\ \A i \in 1 .. Len(u) : w[i] = u[i]
        /\ \A i \in 1 .. Len(v) : w[Len(u) + i] = v[i]
    BY ConcatAt
  <1>2. /\ Len(u) \in Nat /\ Len(v) \in Nat
        /\ \A i \in 1 .. Len(u) : u[i] \in T
        /\ \A i \in 1 .. Len(v) : v[i] \in T
    BY LenProperties, ElementOfSeq
  <1>3. ASSUME NEW k \in 0 .. Len(u) PROVE SubSeq(w, 1, k) = SubSeq(u, 1, k)
    <2>1. k \in Nat /\ 0 + 1 = 1 /\ 0 + k = k /\ 0 \in Nat
      BY <1>2
    <2>2. \A i \in 1 .. k : w[0 + i] \in T /\ u[0 + i] \in T /\ w[0 + i] = u[0 + i]
      BY <1>1, <1>2
    <2>3. PICK x : x = SubSeq(w, 0 + 1, 0 + k)
      OBVIOUS
    <2>4. PICK y : y = SubSeq(u, 0 + 1, 0 + k)
      OBVIOUS
    <2>5. x \in Seq(T) /\ Len(x) = k /\ \A i \in 1 .. k : x[i] = w[0 + i]
      BY <2>1, <2>2, <2>3, PartIs
    <2>6. y \in Seq(T) /\ Len(y) = k /\ \A i \in 1 .. k : y[i] = u[0 + i]
      BY <2>1, <2>2, <2>4, PartIs
    <2>7. x = y
      BY <2>2, <2>5, <2>6, SeqEqual
    <2>8. QED
      BY <2>1, <2>3, <2>4, <2>7
  <1>4. SubSeq(w, 1, Len(u)) = u
    BY <1>2, <1>3, SubSeqFull
  <1>5. SubSeq(w, Len(u) + 1, Len(w)) = v
    <2>1. PICK x : x = SubSeq(w, Len(u) + 1, Len(u) + Len(v))
      OBVIOUS
    <2>2. x \in Seq(T) /\ Len(x) = Len(v) /\ \A i \in 1 .. Len(v) : x[i] = w[Len(u) + i]
      BY <1>1, <1>2, <2>1, PartIs
    <2>3. x = v
      BY <1>1, <2>2, SeqEqual
    <2>4. QED
      BY <1>1, <2>1, <2>3
  <1>6. QED
    BY <1>3, <1>4, <1>5

\* One sequence behind another.
Catenates(x, a, b) == x = a \o b

\* What it is then.
LEMMA CatenatesAt ==
  ASSUME NEW T, NEW u \in Seq(T), NEW v \in Seq(T), NEW w, Catenates(w, u, v)
  PROVE  /\ w \in Seq(T) /\ Len(w) = Len(u) + Len(v)
         /\ \A i \in 1 .. Len(u) : w[i] = u[i]
         /\ \A i \in 1 .. Len(v) : w[Len(u) + i] = v[i]
  <1>1. w = u \o v
    BY DEF Catenates
  <1>2. QED
    BY <1>1, ConcatAt

\* Joining is associative.
LEMMA JoinThree ==
  ASSUME NEW T, NEW h \in Seq(T), NEW a \in Seq(T), NEW b \in Seq(T),
         NEW x, Catenates(x, h, a), NEW y, Catenates(y, a, b),
         NEW z, Catenates(z, x, b)
  PROVE  Catenates(z, h, y)
  <1>1. /\ x \in Seq(T) /\ Len(x) = Len(h) + Len(a)
        /\ \A i \in 1 .. Len(h) : x[i] = h[i]
        /\ \A i \in 1 .. Len(a) : x[Len(h) + i] = a[i]
    BY CatenatesAt
  <1>2. /\ y \in Seq(T) /\ Len(y) = Len(a) + Len(b)
        /\ \A i \in 1 .. Len(a) : y[i] = a[i]
        /\ \A i \in 1 .. Len(b) : y[Len(a) + i] = b[i]
    BY CatenatesAt
  <1>3. /\ z \in Seq(T) /\ Len(z) = Len(x) + Len(b)
        /\ \A i \in 1 .. Len(x) : z[i] = x[i]
        /\ \A i \in 1 .. Len(b) : z[Len(x) + i] = b[i]
    <2>1. x \in Seq(T)
      BY <1>1
    <2>2. QED
      BY <2>1, CatenatesAt
  <1>4. PICK w : Catenates(w, h, y)
    BY DEF Catenates
  <1>5. /\ w \in Seq(T) /\ Len(w) = Len(h) + Len(y)
        /\ \A i \in 1 .. Len(h) : w[i] = h[i]
        /\ \A i \in 1 .. Len(y) : w[Len(h) + i] = y[i]
    <2>1. y \in Seq(T)
      BY <1>2
    <2>2. QED
      BY <1>4, <2>1, CatenatesAt
  <1>6. PICK l \in Nat : l = Len(h)
    BY LenProperties
  <1>7. PICK m \in Nat : m = Len(a)
    BY LenProperties
  <1>8. PICK n \in Nat : n = Len(b)
    BY LenProperties
  <1>9. Len(x) = l + m /\ Len(y) = m + n /\ Len(z) = (l + m) + n /\ Len(w) = l + (m + n)
    BY <1>1, <1>2, <1>3, <1>5, <1>6, <1>7, <1>8
  <1>10. ASSUME NEW i \in 1 .. (l + m) + n  PROVE z[i] = w[i]
    <2>1. CASE i <= l
      <3>1. i \in 1 .. l /\ i \in 1 .. l + m
        BY <2>1
      <3>2. z[i] = x[i] /\ x[i] = h[i] /\ w[i] = h[i]
        BY <1>1, <1>3, <1>5, <1>6, <1>9, <3>1
      <3>3. QED
        BY <3>2
    <2>2. CASE l < i /\ i <= l + m
      <3>1. PICK k \in 1 .. m : i = l + k
        <4>1. i - l \in 1 .. m /\ i = l + (i - l)
          BY <2>2
        <4>2. QED
          BY <4>1
      <3>2. i \in 1 .. l + m /\ k \in 1 .. m + n
        BY <2>2
      <3>3. z[i] = x[i] /\ x[l + k] = a[k] /\ y[k] = a[k] /\ w[l + k] = y[k]
        BY <1>1, <1>2, <1>3, <1>5, <1>6, <1>7, <1>9, <3>2
      <3>4. QED
        BY <3>1, <3>3
    <2>3. CASE l + m < i
      <3>1. PICK k \in 1 .. n : i = (l + m) + k
        <4>1. i - (l + m) \in 1 .. n /\ i = (l + m) + (i - (l + m))
          BY <2>3
        <4>2. QED
          BY <4>1
      <3>2. m + k \in 1 .. m + n /\ l + (m + k) = i
        BY <3>1
      <3>3. z[(l + m) + k] = b[k] /\ y[m + k] = b[k] /\ w[l + (m + k)] = y[m + k]
        BY <1>2, <1>3, <1>5, <1>6, <1>7, <1>8, <1>9, <3>2
      <3>4. QED
        BY <3>1, <3>2, <3>3
    <2>4. QED
      BY <2>1, <2>2, <2>3
  <1>11. z = w
    <2>1. z \in Seq(T) /\ w \in Seq(T) /\ Len(z) = (l + m) + n
      BY <1>3, <1>5, <1>9
    <2>2. (l + m) + n = l + (m + n)
      OBVIOUS
    <2>3. Len(z) = Len(w)
      BY <1>9, <2>2
    <2>4. \A i \in 1 .. Len(z) : z[i] = w[i]
      BY <1>10, <2>1, Zenon
    <2>5. QED
      BY <2>1, <2>3, <2>4, SeqEqual
  <1>12. QED
    BY <1>4, <1>11

\* Four sequences.
Strings4(h, a, b, f, T) == h \in Seq(T) /\ a \in Seq(T) /\ b \in Seq(T) /\ f \in Seq(T)

\* And of four.
LEMMA JoinFour ==
  ASSUME NEW T, NEW h, NEW a, NEW b, NEW f, Strings4(h, a, b, f, T)
  PROVE  h \o a \o b \o f = h \o (a \o (b \o f))
  <1>1. h \in Seq(T) /\ a \in Seq(T) /\ b \in Seq(T) /\ f \in Seq(T)
    BY DEF Strings4
  <1>2. PICK u : Catenates(u, h, a)
    BY DEF Catenates
  <1>3. PICK v : Catenates(v, b, f)
    BY DEF Catenates
  <1>4. PICK x : Catenates(x, u, b)
    BY DEF Catenates
  <1>5. PICK y : Catenates(y, a, v)
    BY DEF Catenates
  <1>6. PICK z : Catenates(z, x, f)
    BY DEF Catenates
  <1>7. u \in Seq(T) /\ v \in Seq(T)
    BY <1>1, <1>2, <1>3, CatenatesAt
  <1>8. Catenates(z, u, v)
    BY <1>1, <1>3, <1>4, <1>6, <1>7, JoinThree
  <1>9. Catenates(z, h, y)
    BY <1>1, <1>2, <1>5, <1>7, <1>8, JoinThree
  <1>10. QED
    BY <1>2, <1>3, <1>4, <1>5, <1>6, <1>9, Zenon DEF Catenates
=============================================================================
