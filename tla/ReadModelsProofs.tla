-------------------------- MODULE ReadModelsProofs --------------------------
(***************************************************************************)
(* Proofs about the reads of the dashboard (ReadModels), for any rows,     *)
(* roles, window, page size and thresholds.                                *)
(***************************************************************************)
EXTENDS ReadModels, FiniteSetTheorems, WellFoundedInduction, TLAPS

-----------------------------------------------------------------------------
(* Induction and sums.                                                     *)

LEMMA LeastNumber ==
    ASSUME NEW S \in SUBSET Nat, S # {}
    PROVE  \E x \in S : \A y \in S : x <= y
<1> DEFINE R == OpToRel(<, Nat)
<1>1. IsWellFoundedOn(R, Nat)
  BY NatLessThanWellFounded
<1>2. \A x, y \in Nat : y < x => <<y, x>> \in R
  BY DEF OpToRel
<1> HIDE DEF R
<1>3. PICK x \in S : \A y \in S : ~(<<y, x>> \in R)
  BY <1>1, WFMin
<1>4. \A y \in S : ~(y < x) /\ y \in Nat /\ x \in Nat
  BY <1>2, <1>3
<1>5. \A y \in S : x <= y
  BY <1>4
<1> QED BY <1>5

\* A set of numbers that holds 0 and the next of each of its members is Nat.
LEMMA NatSetInduction ==
    ASSUME NEW P, 0 \in P, \A n \in Nat : n \in P => n + 1 \in P
    PROVE  \A n \in Nat : n \in P
<1>1. SUFFICES ASSUME Nat \ P # {} PROVE FALSE
  OBVIOUS
<1>2. PICK x \in Nat \ P : \A y \in Nat \ P : x <= y
  BY <1>1, LeastNumber
<1>3. x - 1 \in Nat /\ ~(x <= x - 1) /\ (x - 1) + 1 = x
  BY <1>2
<1> QED BY <1>2, <1>3

\* One step of a sum over the set s, f being the sums of smaller sets.
Choice(s) == CHOOSE x \in s : TRUE
SumStep(c, s, f) == IF s = {} THEN 0 ELSE c[Choice(s)] + f[s \ {Choice(s)}]
Sums(c, S) == CHOOSE f : f = [s \in SUBSET S |-> SumStep(c, s, f)]

LEMMA ChoiceIs == ASSUME NEW s, s # {} PROVE Choice(s) \in s
  BY DEF Choice

LEMMA CountUnfolds == ASSUME NEW c, NEW S PROVE CountOf(c, S) = Sums(c, S)[S]
  BY DEF CountOf, MapThenSumSet, MapThenFoldSet, SumStep, Choice, Sums

\* A set is its choice and a smaller set.
LEMMA Smaller ==
    ASSUME NEW s, IsFiniteSet(s), NEW x \in s
    PROVE  IsFiniteSet(s \ {x}) /\ Cardinality(s \ {x}) + 1 = Cardinality(s)
           /\ Cardinality(s) \in Nat /\ Cardinality(s \ {x}) \in Nat
<1>1. IsFiniteSet(s \ {x}) /\ Cardinality(s \ {x}) = Cardinality(s) - 1
  BY FS_RemoveElement
<1>2. Cardinality(s) \in Nat /\ Cardinality(s \ {x}) \in Nat
  BY <1>1, FS_CardinalityType
<1> QED BY <1>1, <1>2

\* The sums of the subsets of a finite set exist.
LEMMA SumsExist ==
    ASSUME NEW c, NEW S, IsFiniteSet(S), \A x \in S : c[x] \in Nat
    PROVE  \E f \in [SUBSET S -> Nat] : f = [s \in SUBSET S |-> SumStep(c, s, f)]
<1> DEFINE Good(f, n) == \A s \in SUBSET S : Cardinality(s) <= n => f[s] = SumStep(c, s, f)
           P == {n \in Nat : \E f \in [SUBSET S -> Nat] : Good(f, n)}
<1>1. ASSUME NEW s \in SUBSET S PROVE IsFiniteSet(s) /\ Cardinality(s) \in Nat /\ Cardinality(s) <= Cardinality(S)
  BY FS_Subset, FS_CardinalityType
<1>2. 0 \in P
  <2> DEFINE f == [s \in SUBSET S |-> 0]
  <2>1. f \in [SUBSET S -> Nat]
    OBVIOUS
  <2>2. ASSUME NEW s \in SUBSET S, Cardinality(s) <= 0 PROVE f[s] = SumStep(c, s, f)
    <3>1. s = {}
      BY <1>1, <2>2, FS_EmptySet
    <3> QED BY <3>1 DEF SumStep
  <2> QED BY <2>1, <2>2
<1>3. ASSUME NEW n \in Nat, n \in P PROVE n + 1 \in P
  <2>1. PICK f \in [SUBSET S -> Nat] : Good(f, n)
    BY <1>3
  <2> DEFINE g == [s \in SUBSET S |-> SumStep(c, s, f)]
  <2>2. ASSUME NEW s \in SUBSET S PROVE g[s] = SumStep(c, s, f) /\ g[s] \in Nat
    <3>1. CASE s = {}
      BY <3>1 DEF SumStep
    <3>2. CASE s # {}
      <4>1. Choice(s) \in S /\ s \ {Choice(s)} \in SUBSET S
        BY <3>2, ChoiceIs
      <4> QED BY <3>2, <4>1 DEF SumStep
    <3> QED BY <3>1, <3>2
  <2>3. ASSUME NEW s \in SUBSET S, Cardinality(s) <= n + 1 PROVE g[s] = SumStep(c, s, g)
    <3>1. CASE s = {}
      BY <2>2, <3>1 DEF SumStep
    <3>2. CASE s # {}
      <4> DEFINE t == s \ {Choice(s)}
      <4>1. t \in SUBSET S /\ Cardinality(t) <= n
        BY <1>1, <2>3, <3>2, ChoiceIs, Smaller
      <4>2. f[t] = g[t]
        BY <2>1, <2>2, <4>1
      <4> QED BY <2>2, <3>2, <4>2 DEF SumStep
    <3> QED BY <3>1, <3>2
  <2>4. g \in [SUBSET S -> Nat]
    BY <2>2
  <2> HIDE DEF g
  <2>5. Good(g, n + 1)
    BY <2>3
  <2>6. n + 1 \in Nat
    OBVIOUS
  <2> QED BY <2>4, <2>5, <2>6
<1> HIDE DEF P
<1>4. Cardinality(S) \in P
  BY <1>1, <1>2, <1>3, NatSetInduction
<1>5. PICK f \in [SUBSET S -> Nat] : Good(f, Cardinality(S))
  BY <1>4 DEF P
<1>6. f = [s \in SUBSET S |-> SumStep(c, s, f)]
  BY <1>1, <1>5
<1> QED BY <1>6

LEMMA SumsAre ==
    ASSUME NEW c, NEW S, IsFiniteSet(S), \A x \in S : c[x] \in Nat
    PROVE  Sums(c, S) = [s \in SUBSET S |-> SumStep(c, s, Sums(c, S))]
<1>1. PICK f \in [SUBSET S -> Nat] : f = [s \in SUBSET S |-> SumStep(c, s, f)]
  BY SumsExist, Zenon
<1> QED BY <1>1, Zenon DEF Sums

\* The sum of a set does not depend on the set it is part of.
LEMMA SumsAgree ==
    ASSUME NEW c, NEW S, IsFiniteSet(S), \A x \in S : c[x] \in Nat, NEW T \in SUBSET S
    PROVE  \A s \in SUBSET T : Sums(c, T)[s] = Sums(c, S)[s]
<1> DEFINE f == Sums(c, S)
           g == Sums(c, T)
           P == {n \in Nat : \A s \in SUBSET T : Cardinality(s) = n => f[s] = g[s]}
<1>1. IsFiniteSet(T)
  BY FS_Subset
<1>2. f = [s \in SUBSET S |-> SumStep(c, s, f)] /\ g = [s \in SUBSET T |-> SumStep(c, s, g)]
  BY <1>1, SumsAre
<1> HIDE DEF f, g
<1>3. ASSUME NEW s \in SUBSET T PROVE /\ IsFiniteSet(s) /\ Cardinality(s) \in Nat
                                      /\ f[s] = SumStep(c, s, f) /\ g[s] = SumStep(c, s, g)
  BY <1>1, <1>2, FS_Subset, FS_CardinalityType
<1>4. 0 \in P
  <2>1. ASSUME NEW s \in SUBSET T, Cardinality(s) = 0 PROVE f[s] = g[s]
    <3>1. s = {}
      BY <1>3, <2>1, FS_EmptySet
    <3> QED BY <1>3, <3>1 DEF SumStep
  <2> QED BY <2>1
<1>5. ASSUME NEW n \in Nat, n \in P PROVE n + 1 \in P
  <2>1. ASSUME NEW s \in SUBSET T, Cardinality(s) = n + 1 PROVE f[s] = g[s]
    <3> DEFINE t == s \ {Choice(s)}
    <3>1. s # {}
      BY <2>1, FS_EmptySet
    <3>2. Choice(s) \in s
      BY <3>1, ChoiceIs
    <3>3. t \in SUBSET T /\ Cardinality(t) + 1 = n + 1 /\ Cardinality(t) \in Nat
      BY <1>3, <2>1, <3>2, Smaller
    <3>4. Cardinality(t) = n
      BY <3>3
    <3>5. f[t] = g[t]
      BY <1>5, <3>3, <3>4
    <3> QED BY <1>3, <3>1, <3>5 DEF SumStep
  <2> QED BY <2>1
<1> HIDE DEF P
<1>6. \A n \in Nat : n \in P
  BY <1>4, <1>5, NatSetInduction
<1>7. ASSUME NEW s \in SUBSET T PROVE f[s] = g[s]
  BY <1>3, <1>6 DEF P
<1> QED BY <1>7 DEF f, g

LEMMA CountEmpty == ASSUME NEW c PROVE CountOf(c, {}) = 0
<1>1. IsFiniteSet({})
  BY FS_EmptySet
<1>2. Sums(c, {}) = [s \in SUBSET {} |-> SumStep(c, s, Sums(c, {}))]
  BY <1>1, SumsAre
<1> QED BY <1>2, CountUnfolds DEF SumStep

\* The sum of a set is what the choice adds to the sum of the others.
LEMMA CountChoice ==
    ASSUME NEW c, NEW S, IsFiniteSet(S), \A x \in S : c[x] \in Nat, S # {}
    PROVE  /\ Choice(S) \in S
           /\ CountOf(c, S) = c[Choice(S)] + CountOf(c, S \ {Choice(S)})
<1> DEFINE T == S \ {Choice(S)}
<1>1. Choice(S) \in S
  BY ChoiceIs
<1>2. Sums(c, S)[S] = c[Choice(S)] + Sums(c, S)[T]
  <2>1. Sums(c, S) = [s \in SUBSET S |-> SumStep(c, s, Sums(c, S))]
    BY SumsAre
  <2>2. Sums(c, S)[S] = SumStep(c, S, Sums(c, S))
    BY <2>1
  <2> QED BY <2>2 DEF SumStep
<1>3. Sums(c, S)[T] = Sums(c, T)[T]
  BY SumsAgree
<1> QED BY <1>1, <1>2, <1>3, CountUnfolds

\* What holds of the empty set, and of one more than any set it holds of.
LEMMA SubsetInduction ==
    ASSUME NEW S, IsFiniteSet(S), NEW P, {} \in P,
           \A s \in SUBSET S : \A x \in S \ s : s \in P => s \union {x} \in P
    PROVE  S \in P
<1> DEFINE N == {n \in Nat : \A s \in SUBSET S : Cardinality(s) = n => s \in P}
<1>1. ASSUME NEW s \in SUBSET S PROVE IsFiniteSet(s) /\ Cardinality(s) \in Nat
  BY FS_Subset, FS_CardinalityType
<1>2. 0 \in N
  BY <1>1, FS_EmptySet
<1>3. ASSUME NEW n \in Nat, n \in N PROVE n + 1 \in N
  <2>1. ASSUME NEW s \in SUBSET S, Cardinality(s) = n + 1 PROVE s \in P
    <3>1. s # {}
      <4>1. Cardinality({}) = 0 /\ n + 1 # 0
        BY FS_EmptySet
      <4> QED BY <2>1, <4>1
    <3>2. PICK x \in s : TRUE
      BY <3>1
    <3> DEFINE t == s \ {x}
    <3>3. t \in SUBSET S /\ x \in S \ t /\ t \union {x} = s
      BY <3>2
    <3>4. Cardinality(t) + 1 = n + 1 /\ Cardinality(t) \in Nat
      BY <1>1, <2>1, <3>2, Smaller
    <3>5. t \in P
      BY <1>3, <3>3, <3>4
    <3> QED BY <3>3, <3>5
  <2> QED BY <2>1
<1> HIDE DEF N
<1>4. Cardinality(S) \in N
  BY <1>1, <1>2, <1>3, NatSetInduction
<1> QED BY <1>4 DEF N

\* c counts the elements of the finite set S.
Counts(c, S) == IsFiniteSet(S) /\ \A x \in S : c[x] \in Nat

LEMMA CountsSub == ASSUME NEW c, NEW S, Counts(c, S), NEW T \in SUBSET S PROVE Counts(c, T)
  BY FS_Subset DEF Counts

LEMMA CountNat == ASSUME NEW c, NEW S, Counts(c, S) PROVE CountOf(c, S) \in Nat
<1> DEFINE N == {n \in Nat : \A s \in SUBSET S : Cardinality(s) = n => CountOf(c, s) \in Nat}
<1>1. ASSUME NEW s \in SUBSET S
      PROVE  IsFiniteSet(s) /\ Cardinality(s) \in Nat /\ \A x \in s : c[x] \in Nat
  BY FS_Subset, FS_CardinalityType DEF Counts
<1>2. 0 \in N
  <2>1. ASSUME NEW s \in SUBSET S, Cardinality(s) = 0 PROVE CountOf(c, s) \in Nat
    <3>1. s = {}
      BY <1>1, <2>1, FS_EmptySet
    <3> QED BY <3>1, CountEmpty
  <2> QED BY <2>1
<1>3. ASSUME NEW n \in Nat, n \in N PROVE n + 1 \in N
  <2>1. ASSUME NEW s \in SUBSET S, Cardinality(s) = n + 1 PROVE CountOf(c, s) \in Nat
    <3> DEFINE t == s \ {Choice(s)}
    <3>1. s # {}
      BY <2>1, FS_EmptySet
    <3>2. Choice(s) \in s /\ CountOf(c, s) = c[Choice(s)] + CountOf(c, t)
      BY <1>1, <3>1, CountChoice
    <3>3. t \in SUBSET S /\ Cardinality(t) + 1 = n + 1 /\ Cardinality(t) \in Nat
      BY <1>1, <2>1, <3>2, Smaller
    <3>4. Cardinality(t) = n
      BY <3>3
    <3>5. CountOf(c, t) \in Nat /\ c[Choice(s)] \in Nat
      BY <1>1, <1>3, <3>2, <3>3, <3>4
    <3> HIDE DEF t
    <3> QED BY <3>2, <3>5
  <2> QED BY <2>1
<1> HIDE DEF N
<1>4. Cardinality(S) \in N
  BY <1>1, <1>2, <1>3, NatSetInduction
<1> QED BY <1>4 DEF N

\* Any element may be counted first.
LEMMA CountTake ==
    ASSUME NEW c, NEW S, Counts(c, S), NEW x \in S
    PROVE  CountOf(c, S) = c[x] + CountOf(c, S \ {x})
<1> DEFINE N == {n \in Nat : \A s \in SUBSET S : Cardinality(s) = n =>
                                 \A e \in s : CountOf(c, s) = c[e] + CountOf(c, s \ {e})}
<1>1. ASSUME NEW s \in SUBSET S
      PROVE  IsFiniteSet(s) /\ Cardinality(s) \in Nat /\ (\A e \in s : c[e] \in Nat) /\ CountOf(c, s) \in Nat
  BY FS_Subset, FS_CardinalityType, CountNat DEF Counts
<1>2. 0 \in N
  <2>1. ASSUME NEW s \in SUBSET S, Cardinality(s) = 0 PROVE s = {}
    BY <1>1, <2>1, FS_EmptySet
  <2> QED BY <2>1
<1>3. ASSUME NEW n \in Nat, n \in N PROVE n + 1 \in N
  <2>1. ASSUME NEW s \in SUBSET S, Cardinality(s) = n + 1, NEW e \in s
        PROVE  CountOf(c, s) = c[e] + CountOf(c, s \ {e})
    <3> DEFINE y == Choice(s)
               rest == (s \ {e}) \ {y}
    <3>1. y \in s /\ CountOf(c, s) = c[y] + CountOf(c, s \ {y})
      BY <1>1, CountChoice
    <3>2. CASE e = y
      BY <3>1, <3>2
    <3>3. CASE e # y
      <4>1. ASSUME NEW z \in s
            PROVE  s \ {z} \in SUBSET S /\ Cardinality(s \ {z}) = n
        <5>1. Cardinality(s \ {z}) + 1 = n + 1 /\ Cardinality(s \ {z}) \in Nat
          BY <1>1, <2>1, Smaller
        <5> QED BY <5>1
      <4>2. CountOf(c, s \ {y}) = c[e] + CountOf(c, (s \ {y}) \ {e})
        BY <1>3, <3>1, <3>3, <4>1
      <4>3. CountOf(c, s \ {e}) = c[y] + CountOf(c, rest)
        BY <1>3, <3>1, <3>3, <4>1
      <4>4. (s \ {y}) \ {e} = rest
        OBVIOUS
      <4>5. rest \in SUBSET S /\ c[e] \in Nat /\ c[y] \in Nat /\ CountOf(c, rest) \in Nat
        BY <1>1, <3>1
      <4> HIDE DEF rest, y
      <4> QED BY <3>1, <4>2, <4>3, <4>4, <4>5
    <3> QED BY <3>2, <3>3
  <2> QED BY <2>1
<1> HIDE DEF N
<1>4. Cardinality(S) \in N
  BY <1>1, <1>2, <1>3, NatSetInduction
<1> QED BY <1>4 DEF N

LEMMA CountAdd ==
    ASSUME NEW c, NEW S, NEW x, Counts(c, S \union {x}), x \notin S
    PROVE  /\ CountOf(c, S \union {x}) = c[x] + CountOf(c, S)
           /\ CountOf(c, S) \in Nat /\ c[x] \in Nat
<1>1. CountOf(c, S \union {x}) = c[x] + CountOf(c, (S \union {x}) \ {x})
  BY CountTake
<1>2. (S \union {x}) \ {x} = S
  OBVIOUS
<1>3. Counts(c, S) /\ c[x] \in Nat
  BY CountsSub DEF Counts
<1> QED BY <1>1, <1>2, <1>3, CountNat

\* More in each, more in all.
LEMMA CountLe ==
    ASSUME NEW c, NEW d, NEW S, Counts(c, S), Counts(d, S), \A x \in S : c[x] <= d[x]
    PROVE  CountOf(c, S) <= CountOf(d, S)
<1> DEFINE P == {s \in SUBSET S : CountOf(c, s) <= CountOf(d, s)}
<1>1. {} \in P
  BY CountEmpty
<1>2. ASSUME NEW s \in SUBSET S, NEW x \in S \ s, s \in P PROVE s \union {x} \in P
  <2>1. Counts(c, s \union {x}) /\ Counts(d, s \union {x}) /\ c[x] <= d[x]
    BY CountsSub
  <2>2. /\ CountOf(c, s \union {x}) = c[x] + CountOf(c, s) /\ CountOf(c, s) \in Nat /\ c[x] \in Nat
        /\ CountOf(d, s \union {x}) = d[x] + CountOf(d, s) /\ CountOf(d, s) \in Nat /\ d[x] \in Nat
    BY <2>1, CountAdd
  <2> QED BY <1>2, <2>1, <2>2
<1> HIDE DEF P
<1>3. S \in P
  BY <1>1, <1>2, SubsetInduction DEF Counts
<1> QED BY <1>3 DEF P

LEMMA CountSame ==
    ASSUME NEW c, NEW d, NEW S, Counts(c, S), \A x \in S : c[x] = d[x]
    PROVE  Counts(d, S) /\ CountOf(c, S) = CountOf(d, S)
<1>1. Counts(d, S)
  BY DEF Counts
<1>2. (\A x \in S : c[x] <= d[x]) /\ (\A x \in S : d[x] <= c[x])
  BY DEF Counts
<1>3. CountOf(c, S) <= CountOf(d, S) /\ CountOf(d, S) <= CountOf(c, S)
  BY <1>1, <1>2, CountLe
<1>4. CountOf(c, S) \in Nat /\ CountOf(d, S) \in Nat
  BY <1>1, CountNat
<1> QED BY <1>1, <1>3, <1>4

\* Two sets apart are counted one after the other.
LEMMA CountUnion ==
    ASSUME NEW c, NEW S, NEW T, Counts(c, S \union T), S \intersect T = {}
    PROVE  CountOf(c, S \union T) = CountOf(c, S) + CountOf(c, T)
<1> DEFINE P == {t \in SUBSET T : CountOf(c, S \union t) = CountOf(c, S) + CountOf(c, t)}
<1>1. CountOf(c, S) \in Nat /\ Counts(c, T)
  BY CountsSub, CountNat
<1>2. {} \in P
  BY <1>1, CountEmpty
<1>3. ASSUME NEW t \in SUBSET T, NEW x \in T \ t, t \in P PROVE t \union {x} \in P
  <2>1. Counts(c, t \union {x}) /\ Counts(c, (S \union t) \union {x}) /\ x \notin S \union t
    BY CountsSub
  <2>2. /\ CountOf(c, t \union {x}) = c[x] + CountOf(c, t) /\ CountOf(c, t) \in Nat /\ c[x] \in Nat
        /\ CountOf(c, (S \union t) \union {x}) = c[x] + CountOf(c, S \union t)
    BY <2>1, CountAdd
  <2>3. (S \union t) \union {x} = S \union (t \union {x})
    OBVIOUS
  <2>4. CountOf(c, S \union t) = CountOf(c, S) + CountOf(c, t) /\ t \union {x} \in SUBSET T
    BY <1>3
  <2> DEFINE u == S \union (t \union {x})
  <2>5. CountOf(c, u) = c[x] + CountOf(c, S \union t)
    BY <2>2, <2>3
  <2> HIDE DEF u
  <2>6. CountOf(c, u) = CountOf(c, S) + CountOf(c, t \union {x})
    BY <1>1, <2>2, <2>4, <2>5
  <2> QED BY <2>4, <2>6 DEF u
<1> HIDE DEF P
<1>4. T \in P
  BY <1>1, <1>2, <1>3, SubsetInduction DEF Counts
<1> QED BY <1>4 DEF P

LEMMA CountSub ==
    ASSUME NEW c, NEW S, Counts(c, S), NEW T \in SUBSET S
    PROVE  CountOf(c, T) <= CountOf(c, S) /\ CountOf(c, T) \in Nat /\ CountOf(c, S) \in Nat
<1>1. T \union (S \ T) = S /\ T \intersect (S \ T) = {}
  OBVIOUS
<1>2. CountOf(c, S) = CountOf(c, T) + CountOf(c, S \ T)
  BY <1>1, CountUnion
<1>3. CountOf(c, S) \in Nat /\ CountOf(c, T) \in Nat /\ CountOf(c, S \ T) \in Nat
  BY CountsSub, CountNat
<1> QED BY <1>2, <1>3

LEMMA CountZero == ASSUME NEW c, NEW S, IsFiniteSet(S), \A x \in S : c[x] = 0 PROVE CountOf(c, S) = 0
<1> DEFINE P == {s \in SUBSET S : CountOf(c, s) = 0}
<1>1. {} \in P
  BY CountEmpty
<1>2. ASSUME NEW s \in SUBSET S, NEW x \in S \ s, s \in P PROVE s \union {x} \in P
  <2>1. Counts(c, s \union {x})
    BY FS_Subset DEF Counts
  <2>2. CountOf(c, s \union {x}) = c[x] + CountOf(c, s)
    BY <2>1, CountAdd
  <2>3. c[x] = 0 /\ CountOf(c, s) = 0 /\ s \union {x} \in SUBSET S
    BY <1>2
  <2> QED BY <2>2, <2>3
<1> HIDE DEF P
<1>3. S \in P
  BY <1>1, <1>2, SubsetInduction
<1> QED BY <1>3 DEF P

\* The sum of S is the sum of its parts: the elements of each key of G.
LEMMA CountByKey ==
    ASSUME NEW c, NEW S, Counts(c, S), NEW G, IsFiniteSet(G), NEW h, \A i \in S : h[i] \in G
    PROVE  CountOf(c, S) = CountOf([g \in G |-> CountOf(c, {i \in S : h[i] = g})], G)
<1> DEFINE parts(s) == [g \in G |-> CountOf(c, {i \in s : h[i] = g})]
           P == {s \in SUBSET S : CountOf(c, s) = CountOf(parts(s), G)}
<1>1. {} \in P
  <2>1. \A g \in G : {i \in {} : h[i] = g} = {}
    OBVIOUS
  <2>2. \A g \in G : parts({})[g] = 0
    BY <2>1, CountEmpty
  <2>3. CountOf(parts({}), G) = 0
    BY <2>2, CountZero
  <2> QED BY <2>3, CountEmpty
<1>2. ASSUME NEW s \in SUBSET S, NEW x \in S \ s, s \in P PROVE s \union {x} \in P
  <2> DEFINE t == s \union {x}
             k == h[x]
             before == parts(s)
             after == parts(t)
  <2>1. Counts(c, s) /\ Counts(c, t) /\ k \in G
    BY CountsSub
  <2>2. ASSUME NEW g \in G \ {k} PROVE after[g] = before[g]
    <3>1. {i \in t : h[i] = g} = {i \in s : h[i] = g}
      OBVIOUS
    <3> QED BY <3>1
  <2>3. after[k] = c[x] + before[k] /\ c[x] \in Nat
    <3> DEFINE u == {i \in s : h[i] = k}
    <3>1. {i \in t : h[i] = k} = u \union {x} /\ x \notin u /\ u \union {x} \in SUBSET S
      OBVIOUS
    <3>2. Counts(c, u \union {x})
      BY <3>1, CountsSub
    <3>3. CountOf(c, u \union {x}) = c[x] + CountOf(c, u) /\ c[x] \in Nat
      BY <3>1, <3>2, CountAdd
    <3> QED BY <2>1, <3>1, <3>3
  <2>4. ASSUME NEW r \in SUBSET S, NEW g \in G PROVE parts(r)[g] \in Nat
    <3>1. {i \in r : h[i] = g} \in SUBSET S
      OBVIOUS
    <3> QED BY <3>1, CountsSub, CountNat
  <2>5. Counts(before, G) /\ Counts(after, G)
    BY <2>4 DEF Counts
  <2> HIDE DEF before, after, t
  <2>6. /\ CountOf(before, G) = before[k] + CountOf(before, G \ {k})
        /\ CountOf(after, G) = after[k] + CountOf(after, G \ {k})
    BY <2>1, <2>5, CountTake
  <2>7. Counts(before, G \ {k}) /\ Counts(after, G \ {k})
    BY <2>5, CountsSub
  <2>8. CountOf(before, G \ {k}) = CountOf(after, G \ {k}) /\ CountOf(before, G \ {k}) \in Nat
    BY <2>2, <2>7, CountSame, CountNat
  <2>9. before[k] \in Nat
    BY <2>1, <2>5 DEF Counts
  <2>10. CountOf(c, t) = c[x] + CountOf(c, s)
    BY <2>1, CountAdd DEF t
  <2>11. CountOf(c, s) = CountOf(before, G)
    BY <1>2 DEF before
  <2>12. CountOf(c, t) = CountOf(after, G)
    BY <2>3, <2>6, <2>8, <2>9, <2>10, <2>11
  <2> QED BY <2>12 DEF after, t
<1> HIDE DEF P
<1>3. S \in P
  BY <1>1, <1>2, SubsetInduction DEF Counts
<1> QED BY <1>3 DEF P

LEMMA FiniteImage ==
    ASSUME NEW S, IsFiniteSet(S), NEW f, DOMAIN f = S, NEW T,
           \A x \in S : f[x] \in T, \A y \in T : \E x \in S : f[x] = y
    PROVE  IsFiniteSet(T)
<1> DEFINE g == [x \in S |-> f[x]]
<1>1. g \in [S -> T] /\ \A y \in T : \E x \in S : g[x] = y
  OBVIOUS
<1> HIDE DEF g
<1>2. g \in Surjection(S, T)
  BY <1>1 DEF Surjection
<1> QED BY <1>2, FS_Surjection

-----------------------------------------------------------------------------
(* The table.                                                              *)

Row == {Event(t, sample) : t \in Int, sample \in Samples}

Table ==
    /\ rows \in Seq(Row)
    /\ copies \in Seq({1, 2}) /\ Len(copies) = Len(rows)
    /\ clock \in Int

LEMMA RowFacts ==
    ASSUME NEW r \in Row
    PROVE  r.at \in Int /\ r.roles \subseteq Roles /\ r.outcome # None
<1>1. PICK t \in Int, sample \in Samples : r = Event(t, sample)
  BY DEF Row
<1>2. sample.roles \subseteq Roles /\ sample.outcome # None
  BY SamplesAssumption
<1> QED BY <1>1, <1>2 DEF Event

LEMMA IdFacts ==
    ASSUME Table
    PROVE  /\ Ids = 1..Len(rows) /\ Len(rows) \in Nat /\ IsFiniteSet(Ids)
           /\ \A i \in Ids : /\ rows[i] \in Row /\ rows[i].at \in Int /\ rows[i].roles \subseteq Roles
                             /\ rows[i].outcome # None /\ copies[i] \in {1, 2}
<1>1. Ids = 1..Len(rows) /\ Len(rows) \in Nat
  BY DEF Table, Ids
<1>2. IsFiniteSet(Ids)
  BY <1>1, FS_Interval
<1>3. ASSUME NEW i \in Ids PROVE rows[i] \in Row /\ copies[i] \in {1, 2}
  BY <1>1 DEF Table
<1>4. \A i \in Ids : rows[i].at \in Int /\ rows[i].roles \subseteq Roles /\ rows[i].outcome # None
  BY <1>3, RowFacts
<1> QED BY <1>1, <1>2, <1>3, <1>4

\* The copies of any events can be counted.
LEMMA CopiesCount ==
    ASSUME Table, NEW S \in SUBSET Ids
    PROVE  Counts(copies, S) /\ IsFiniteSet(S) /\ RowCount(S) \in Nat
<1>1. Counts(copies, Ids)
  BY IdFacts DEF Counts
<1>2. Counts(copies, S)
  BY <1>1, CountsSub
<1> QED BY <1>2, CountNat DEF Counts, RowCount

\* What a write other than a merge does to the table.
Grows ==
    /\ Table /\ Table'
    /\ Ids \subseteq Ids'
    /\ \A i \in Ids : rows'[i] = rows[i] /\ copies[i] <= copies'[i]

LEMMA InsertGrows ==
    ASSUME Table, NEW at \in Int, NEW sample \in Samples, Insert(at, sample)
    PROVE  Grows /\ read' = read /\ clock' = clock
<1> DEFINE r == Event(at, sample)
<1>1. r \in Row
  BY DEF Row
<1>2. rows' = Append(rows, r) /\ copies' = Append(copies, 1) /\ clock' = clock /\ read' = read
  BY DEF Insert
<1> HIDE DEF r
<1>3. Table'
  BY <1>1, <1>2 DEF Table
<1>4. Ids \subseteq Ids' /\ \A i \in Ids : rows'[i] = rows[i] /\ copies'[i] = copies[i]
  BY <1>1, <1>2 DEF Table, Ids
<1>5. \A i \in Ids : copies[i] <= copies'[i]
  BY <1>4, IdFacts
<1> QED BY <1>2, <1>3, <1>4, <1>5 DEF Grows

LEMMA RetryGrows ==
    ASSUME Table, NEW i \in Ids, Retry(i)
    PROVE  Grows /\ read' = read /\ clock' = clock
<1>1. copies' = [copies EXCEPT ![i] = 2] /\ rows' = rows /\ clock' = clock /\ read' = read
  BY DEF Retry
<1>2. Table' /\ Ids' = Ids
  BY <1>1 DEF Table, Ids
<1>3. \A j \in Ids : copies[j] <= copies'[j]
  BY <1>1, IdFacts DEF Table
<1> QED BY <1>1, <1>2, <1>3 DEF Grows

LEMMA MergeKeeps ==
    ASSUME Table, NEW i \in Ids, Merge(i)
    PROVE  Table' /\ rows' = rows /\ clock' = clock
<1>1. copies' = [copies EXCEPT ![i] = 1] /\ rows' = rows /\ clock' = clock
  BY DEF Merge
<1>2. Table' /\ Ids' = Ids
  BY <1>1 DEF Table, Ids
<1> QED BY <1>1, <1>2

LEMMA SliceIn == ASSUME NEW scope, NEW role PROVE Slice(scope, role) \in SUBSET Ids
  BY DEF Slice

\* The copies of any events can be counted, before a step and after it.
LEMMA TableCounts == Table => \A S \in SUBSET Ids : Counts(copies, S)
  BY CopiesCount

LEMMA TableCountsNext == (Table => \A S \in SUBSET Ids : Counts(copies, S))'
  BY TableCounts, PTL

\* As the table grows, more events have more rows.
LEMMA CountGrows ==
    ASSUME Grows, NEW S \in SUBSET Ids, NEW T \in SUBSET Ids', S \subseteq T
    PROVE  CountOf(copies, S) <= CountOf(copies', T) /\ CountOf(copies, S) \in Nat /\ CountOf(copies', T) \in Nat
<1>1. Counts(copies, S) /\ Counts(copies', T)
  BY TableCounts, TableCountsNext DEF Grows
<1>2. \A i \in S : copies[i] <= copies'[i]
  BY DEF Grows
<1>3. Counts(copies', S)
  BY <1>1, CountsSub
<1>4. CountOf(copies, S) <= CountOf(copies', S)
  BY <1>1, <1>2, <1>3, CountLe
<1>5. CountOf(copies', S) <= CountOf(copies', T)
  BY <1>1, CountSub
<1>6. CountOf(copies, S) \in Nat /\ CountOf(copies', S) \in Nat /\ CountOf(copies', T) \in Nat
  BY <1>1, <1>3, CountNat
<1> QED BY <1>4, <1>5, <1>6

\* The rows of a slice of table r with copies c.
SliceOf(r, scope, role) ==
    {i \in DOMAIN r : /\ r[i].at >= scope.since /\ (scope.until = None \/ r[i].at <= scope.until)
                      /\ role = None \/ IF role = "" THEN r[i].roles = {} ELSE role \in r[i].roles}
AskedOf(r, c, scope, role) == CountOf(c, SliceOf(r, scope, role))

LEMMA SliceIs == ASSUME NEW scope, NEW role PROVE Slice(scope, role) = SliceOf(rows, scope, role)
  BY DEF Slice, SliceOf, InScope, HasRole, Ids

LEMMA AskedGrows ==
    ASSUME Grows, NEW scope, NEW role
    PROVE  /\ AskedOf(rows, copies, scope, role) <= AskedOf(rows', copies', scope, role)
           /\ AskedOf(rows, copies, scope, role) \in Nat /\ AskedOf(rows', copies', scope, role) \in Nat
<1> DEFINE S == SliceOf(rows, scope, role)
           T == SliceOf(rows', scope, role)
<1>1. S \in SUBSET Ids /\ T \in SUBSET Ids' /\ S \subseteq T
  BY DEF SliceOf, Grows, Ids
<1> HIDE DEF S, T
<1>2. CountOf(copies, S) <= CountOf(copies', T) /\ CountOf(copies, S) \in Nat /\ CountOf(copies', T) \in Nat
  BY <1>1, CountGrows
<1> QED BY <1>2 DEF AskedOf, S, T

-----------------------------------------------------------------------------
(* The summary.                                                            *)

Dims == {"agent", "tool", "user"}

\* Groups that share out the events of S have its rows in total.
LEMMA TotalIs ==
    ASSUME Table, NEW S \in SUBSET Ids, NEW G, IsFiniteSet(G), NEW h, \A i \in S : h[i] \in G,
           \A g \in G : g.n = RowCount({i \in S : h[i] = g})
    PROVE  Total(G) = RowCount(S)
<1> DEFINE c == [g \in G |-> CountOf(copies, {i \in S : h[i] = g})]
           d == [g \in G |-> g.n]
<1>1. Counts(copies, S)
  BY CopiesCount
<1>2. CountOf(copies, S) = CountOf(c, G)
  BY <1>1, CountByKey
<1>3. ASSUME NEW g \in G PROVE c[g] \in Nat /\ c[g] = d[g]
  <2>1. {i \in S : h[i] = g} \in SUBSET Ids
    OBVIOUS
  <2>2. RowCount({i \in S : h[i] = g}) \in Nat
    BY <2>1, CopiesCount
  <2> QED BY <2>2 DEF RowCount
<1>4. Counts(c, G)
  BY <1>3 DEF Counts
<1> HIDE DEF c, d
<1>5. CountOf(c, G) = CountOf(d, G)
  BY <1>3, <1>4, CountSame
<1> QED BY <1>2, <1>5 DEF Total, RowCount, d

LEMMA GroupFacts ==
    ASSUME Table, NEW S \in SUBSET Ids, NEW dim
    PROVE  Total(Group(S, dim)) = RowCount(S) /\ \A g \in Group(S, dim) : g.dim = dim
<1> DEFINE key(i) == rows[i][dim]
           out(i) == rows[i].outcome
           G == Group(S, dim)
           rec(k, o) == [dim |-> dim, key |-> k, outcome |-> o,
                         n |-> RowCount({i \in S : key(i) = k /\ out(i) = o})]
           K == {key(i) : i \in S}
           O == {out(i) : i \in S}
           h == [i \in S |-> rec(key(i), out(i))]
           f == [p \in K \X O |-> rec(p[1], p[2])]
<1>1. G = {rec(k, o) : k \in K, o \in O}
  BY DEF Group
<1>2. IsFiniteSet(S)
  BY CopiesCount
<1>3. IsFiniteSet(K) /\ IsFiniteSet(O)
  <2> DEFINE a == [i \in S |-> key(i)]
             b == [i \in S |-> out(i)]
  <2>1. DOMAIN a = S /\ (\A x \in S : a[x] \in K) /\ \A y \in K : \E x \in S : a[x] = y
    OBVIOUS
  <2>2. DOMAIN b = S /\ (\A x \in S : b[x] \in O) /\ \A y \in O : \E x \in S : b[x] = y
    OBVIOUS
  <2> HIDE DEF a, b, K, O
  <2> QED BY <1>2, <2>1, <2>2, FiniteImage
<1>4. \A i \in S : key(i) \in K /\ out(i) \in O
  OBVIOUS
<1> HIDE DEF G, K, O
<1> DEFINE num(k, o) == RowCount({i \in S : key(i) = k /\ out(i) = o})
<1>5. \A k, o : /\ rec(k, o).key = k /\ rec(k, o).outcome = o /\ rec(k, o).dim = dim
                 /\ rec(k, o).n = num(k, o)
  <2> HIDE DEF num
  <2>1. \A k, o : rec(k, o) = [dim |-> dim, key |-> k, outcome |-> o, n |-> num(k, o)]
    BY DEF num
  <2> HIDE DEF rec
  <2> QED BY <2>1
<1> HIDE DEF rec
<1>6. \A k \in K, o \in O : /\ rec(k, o) \in G /\ rec(k, o).key = k /\ rec(k, o).outcome = o /\ rec(k, o).dim = dim
                            /\ rec(k, o).n = RowCount({i \in S : key(i) = k /\ out(i) = o})
  BY <1>1, <1>5
<1>7. \A g \in G : \E k \in K, o \in O : g = rec(k, o)
  BY <1>1
<1>8. IsFiniteSet(G)
  <2>1. IsFiniteSet(K \X O)
    BY <1>3, FS_Product
  <2>2. DOMAIN f = K \X O /\ \A p \in K \X O : f[p] \in G
    BY <1>6
  <2>3. ASSUME NEW y \in G PROVE \E p \in K \X O : f[p] = y
    <3>1. PICK k \in K, o \in O : y = rec(k, o)
      BY <1>7
    <3>2. <<k, o>> \in K \X O /\ f[<<k, o>>] = rec(k, o)
      OBVIOUS
    <3> QED BY <3>1, <3>2
  <2> HIDE DEF f
  <2> QED BY <2>1, <2>2, <2>3, FiniteImage
<1>9. \A i \in S : h[i] \in G /\ h[i].key = key(i) /\ h[i].outcome = out(i) /\ h[i] = rec(key(i), out(i))
  BY <1>6, <1>4
<1> HIDE DEF h
<1>10. ASSUME NEW g \in G PROVE g.n = RowCount({i \in S : h[i] = g}) /\ g.dim = dim
  <2>1. PICK k \in K, o \in O : g = rec(k, o)
    BY <1>7
  <2>2. g.key = k /\ g.outcome = o /\ g.dim = dim /\ g.n = RowCount({i \in S : key(i) = k /\ out(i) = o})
    BY <1>6, <2>1
  <2>3. ASSUME NEW i \in S PROVE h[i] = g <=> key(i) = k /\ out(i) = o
    <3>1. h[i] = g => key(i) = k /\ out(i) = o
      BY <1>9, <2>2
    <3>2. key(i) = k /\ out(i) = o => h[i] = g
      BY <1>9, <2>1
    <3> QED BY <3>1, <3>2
  <2>4. {i \in S : h[i] = g} = {i \in S : key(i) = k /\ out(i) = o}
    BY <2>3
  <2> QED BY <2>2, <2>4
<1>11. Total(G) = RowCount(S)
  <2>1. (\A i \in S : h[i] \in G) /\ \A g \in G : g.n = RowCount({i \in S : h[i] = g})
    BY <1>9, <1>10
  <2> QED BY <1>8, <2>1, TotalIs
<1> QED BY <1>10, <1>11 DEF G

\* The totals by outcome.
Outcomes(S) ==
    {[dim |-> None, key |-> None, outcome |-> o, n |-> RowCount({i \in S : rows[i].outcome = o})]
        : o \in {rows[i].outcome : i \in S}}

LEMMA OutcomeFacts ==
    ASSUME Table, NEW S \in SUBSET Ids
    PROVE  Total(Outcomes(S)) = RowCount(S) /\ \A g \in Outcomes(S) : g.dim = None /\ g.outcome # None
<1> DEFINE out(i) == rows[i].outcome
           G == Outcomes(S)
           rec(o) == [dim |-> None, key |-> None, outcome |-> o, n |-> RowCount({i \in S : out(i) = o})]
           O == {out(i) : i \in S}
           h == [i \in S |-> rec(out(i))]
<1>1. G = {rec(o) : o \in O}
  BY DEF Outcomes
<1>2. IsFiniteSet(S)
  BY CopiesCount
<1>3. \A o \in O : /\ rec(o) \in G /\ rec(o).outcome = o /\ rec(o).dim = None
                   /\ rec(o).n = RowCount({i \in S : out(i) = o})
  BY <1>1
<1>4. \A g \in G : \E i \in S : g = rec(out(i))
  BY <1>1
<1>5. \A i \in S : out(i) \in O /\ out(i) # None
  BY IdFacts
<1> HIDE DEF G, rec, O
<1>6. DOMAIN h = S /\ \A i \in S : h[i] = rec(out(i)) /\ h[i] \in G /\ h[i].outcome = out(i)
  BY <1>3, <1>5
<1> HIDE DEF h
<1>7. IsFiniteSet(G)
  <2>1. \A y \in G : \E i \in S : h[i] = y
    BY <1>4, <1>6
  <2> QED BY <1>2, <1>6, <2>1, FiniteImage
<1>8. ASSUME NEW g \in G PROVE g.n = RowCount({i \in S : h[i] = g}) /\ g.dim = None /\ g.outcome # None
  <2>1. PICK j \in S : g = rec(out(j))
    BY <1>4
  <2>2. /\ g.outcome = out(j) /\ g.dim = None /\ out(j) # None
        /\ g.n = RowCount({i \in S : out(i) = out(j)})
    BY <1>3, <1>5, <2>1
  <2>3. ASSUME NEW i \in S PROVE h[i] = g <=> out(i) = out(j)
    <3>1. h[i] = g => out(i) = out(j)
      BY <1>6, <2>2
    <3>2. out(i) = out(j) => h[i] = g
      BY <1>6, <2>1
    <3> QED BY <3>1, <3>2
  <2>4. {i \in S : h[i] = g} = {i \in S : out(i) = out(j)}
    BY <2>3
  <2> QED BY <2>2, <2>4
<1>9. Total(G) = RowCount(S)
  <2>1. (\A i \in S : h[i] \in G) /\ \A g \in G : g.n = RowCount({i \in S : h[i] = g})
    BY <1>6, <1>8
  <2> QED BY <1>7, <2>1, TotalIs
<1> QED BY <1>8, <1>9 DEF G

\* The row of the grand total.
Whole(S) == [dim |-> None, key |-> None, outcome |-> None, n |-> RowCount(S)]

LEMMA WholeFacts ==
    ASSUME Table, NEW S \in SUBSET Ids
    PROVE  Total({Whole(S)}) = RowCount(S)
<1>1. RowCount(S) \in Nat /\ Whole(S).n = RowCount(S)
  BY CopiesCount DEF Whole
<1> DEFINE r == Whole(S)
           c == [g \in {r} |-> g.n]
<1>2. c[r] = RowCount(S)
  BY <1>1
<1> HIDE DEF c, r
<1>3. Counts(c, {r})
  BY <1>1, <1>2, FS_Singleton DEF Counts
<1>4. CountOf(c, {r}) = c[r] + CountOf(c, {r} \ {r})
  BY <1>3, CountTake
<1>5. CountOf(c, {r} \ {r}) = 0
  <2>1. {r} \ {r} = {}
    OBVIOUS
  <2> QED BY <2>1, CountEmpty
<1> QED BY <1>1, <1>2, <1>4, <1>5 DEF Total, c, r

\* The first scan adds up in every way.
LEMMA GroupedAddsUp ==
    ASSUME Table, NEW S \in SUBSET Ids, NEW G, G = Grouped(S)
    PROVE  /\ Total({g \in {x \in G : x.dim = None} : g.outcome = None}) = RowCount(S)
           /\ Total({g \in {x \in G : x.dim = None} : g.outcome # None}) = RowCount(S)
           /\ \A dim \in Dims : Total({x \in G : x.dim = dim}) = RowCount(S)
<1>1. G = {Whole(S)} \union Outcomes(S) \union Group(S, "agent") \union Group(S, "tool") \union Group(S, "user")
  BY DEF Grouped, Whole, Outcomes
<1>2. \A d \in Dims : \A g \in Group(S, d) : g.dim = d /\ g.dim # None
  BY GroupFacts, NoneAssumption DEF Dims
<1>3. \A g \in Outcomes(S) : g.dim = None /\ g.outcome # None
  BY OutcomeFacts
<1>4. Whole(S).dim = None /\ Whole(S).outcome = None
  BY DEF Whole
<1>5. {g \in {x \in G : x.dim = None} : g.outcome = None} = {Whole(S)}
  BY <1>1, <1>2, <1>3, <1>4 DEF Dims
<1>6. {g \in {x \in G : x.dim = None} : g.outcome # None} = Outcomes(S)
  BY <1>1, <1>2, <1>3, <1>4 DEF Dims
<1>7. ASSUME NEW dim \in Dims PROVE {x \in G : x.dim = dim} = Group(S, dim)
  BY <1>1, <1>2, <1>3, <1>4, NoneAssumption DEF Dims
<1> QED BY <1>5, <1>6, <1>7, WholeFacts, OutcomeFacts, GroupFacts

\* Roles of a filter, as the caller may give them.
RoleFilters == Roles \union {"", None}

\* The buckets of the second scan count every row of its slice at least once.
LEMMA ByRoleCovers ==
    ASSUME Table, NEW scope, NEW role \in RoleFilters
    PROVE  LET S == Slice(scope, role)
               b == ByRole(S, role)
           IN  /\ CountOf(b, DOMAIN b) >= RowCount(S) /\ CountOf(b, DOMAIN b) \in Nat
               /\ role \in Roles => DOMAIN b = {role}
<1> DEFINE S == Slice(scope, role)
           D == IF role \in Roles THEN {role} ELSE Roles \union {""}
           b == ByRole(S, role)
           part(k) == {i \in S : k \in Buckets(i)}
           h == [i \in S |-> CHOOSE k \in Buckets(i) : k \in D]
           c == [k \in D |-> CountOf(copies, {i \in S : h[i] = k})]
<1>1. S \in SUBSET Ids /\ Counts(copies, S)
  <2>1. S \in SUBSET Ids
    BY SliceIn
  <2> HIDE DEF S
  <2> QED BY <2>1, CopiesCount
<1>2. b = [k \in D |-> RowCount(part(k))]
  BY DEF ByRole
<1>3. IsFiniteSet(D)
  BY NoneAssumption, FS_Singleton, FS_AddElement
<1>4. ASSUME NEW i \in S PROVE \E k \in Buckets(i) : k \in D
  <2>1. i \in Ids /\ HasRole(i, role) /\ rows[i].roles \subseteq Roles
    BY <1>1, IdFacts DEF Slice
  <2>2. CASE role \in Roles
    BY <2>1, <2>2, NoneAssumption DEF HasRole, Buckets
  <2>3. CASE role \notin Roles
    BY <2>1, <2>3 DEF Buckets
  <2> QED BY <2>2, <2>3
<1>5. \A i \in S : h[i] \in D /\ h[i] \in Buckets(i)
  BY <1>4
<1> HIDE DEF h
<1>6. CountOf(copies, S) = CountOf(c, D)
  <2> HIDE DEF S, D, b
  <2>1. \A i \in S : h[i] \in D
    BY <1>5
  <2> QED BY <1>1, <1>3, <2>1, CountByKey
<1>7. ASSUME NEW k \in D PROVE c[k] \in Nat /\ b[k] \in Nat /\ c[k] <= b[k]
  <2> DEFINE few == {i \in S : h[i] = k}
  <2>1. few \subseteq part(k) /\ part(k) \in SUBSET S
    BY <1>5
  <2>2. Counts(copies, part(k))
    BY <1>1, <2>1, CountsSub
  <2>3. CountOf(copies, few) <= CountOf(copies, part(k)) /\ CountOf(copies, few) \in Nat /\ CountOf(copies, part(k)) \in Nat
    BY <2>1, <2>2, CountSub
  <2>4. c[k] = CountOf(copies, few) /\ b[k] = CountOf(copies, part(k))
    BY <1>2 DEF RowCount
  <2> HIDE DEF few, c
  <2> QED BY <2>3, <2>4
<1>8. Counts(c, D) /\ Counts(b, D)
  BY <1>3, <1>7 DEF Counts
<1>9. DOMAIN b = D
  BY <1>2
<1> HIDE DEF c, b, D
<1>10. CountOf(c, D) <= CountOf(b, D) /\ CountOf(c, D) \in Nat /\ CountOf(b, D) \in Nat
  BY <1>7, <1>8, CountLe, CountNat
<1>11. CountOf(b, DOMAIN b) >= RowCount(S) /\ CountOf(b, DOMAIN b) \in Nat
  BY <1>6, <1>9, <1>10 DEF RowCount
<1>12. role \in Roles => D = {role}
  BY DEF D
<1> QED BY <1>9, <1>11, <1>12 DEF b

-----------------------------------------------------------------------------
(* Sequences put end to end.                                               *)

LEMMA AppendIs ==
    ASSUME NEW S, NEW s \in Seq(S), NEW x \in S
    PROVE  /\ Append(s, x) \in Seq(S) /\ Len(Append(s, x)) = Len(s) + 1 /\ Len(s) \in Nat
           /\ DOMAIN s = 1..Len(s) /\ DOMAIN Append(s, x) = 1..Len(s) + 1
           /\ Append(s, x)[Len(s) + 1] = x
           /\ \A k \in 1..Len(s) : Append(s, x)[k] = s[k]
  OBVIOUS

LEMMA AppendIsMore == ASSUME NEW S, NEW s \in Seq(S), NEW x \in S PROVE Append(s, x) # << >>
<1>1. Len(Append(s, x)) = Len(s) + 1 /\ Len(s) \in Nat /\ Len(<< >>) = 0
  BY AppendIs
<1>2. Len(Append(s, x)) # Len(<< >>)
  BY <1>1
<1> QED BY <1>2

LEMMA ConcatIs ==
    ASSUME NEW S, NEW s \in Seq(S), NEW t \in Seq(S)
    PROVE  /\ s \o t \in Seq(S) /\ Len(s \o t) = Len(s) + Len(t) /\ Len(s) \in Nat /\ Len(t) \in Nat
           /\ DOMAIN s = 1..Len(s) /\ DOMAIN t = 1..Len(t) /\ DOMAIN (s \o t) = 1..Len(s) + Len(t)
           /\ \A k \in 1..Len(s) : (s \o t)[k] = s[k]
           /\ \A k \in 1..Len(t) : (s \o t)[Len(s) + k] = t[k]
  OBVIOUS

\* FlattenSeq, one sequence after the other.
FlatStep(q, i, f) == IF i = 1 THEN q[i] ELSE f[i - 1] \o q[i]
Flats(q) == CHOOSE f : f = [i \in 1..Len(q) |-> FlatStep(q, i, f)]

LEMMA FlattenUnfolds ==
    ASSUME NEW q
    PROVE  FlattenSeq(q) = IF Len(q) = 0 THEN q ELSE Flats(q)[Len(q)]
  BY DEF FlattenSeq, Flats, FlatStep

LEMMA FlatStepType ==
    ASSUME NEW S, NEW q \in Seq(Seq(S)), NEW i \in 1..Len(q), NEW f,
           i # 1 => f[i - 1] \in Seq(S)
    PROVE  FlatStep(q, i, f) \in Seq(S)
<1>1. q[i] \in Seq(S)
  OBVIOUS
<1>2. CASE i = 1
  BY <1>1, <1>2 DEF FlatStep
<1>3. CASE i # 1
  BY <1>1, <1>3, ConcatIs DEF FlatStep
<1> QED BY <1>2, <1>3

LEMMA FlatsExist ==
    ASSUME NEW S, NEW q \in Seq(Seq(S))
    PROVE  \E f \in [1..Len(q) -> Seq(S)] : f = [i \in 1..Len(q) |-> FlatStep(q, i, f)]
<1> DEFINE D == 1..Len(q)
           Good(f, n) == \A i \in D : i <= n => f[i] = FlatStep(q, i, f)
           P == {n \in Nat : \E f \in [D -> Seq(S)] : Good(f, n)}
<1>1. Len(q) \in Nat
  OBVIOUS
<1>2. 0 \in P
  <2> DEFINE f == [i \in D |-> << >>]
  <2>1. f \in [D -> Seq(S)]
    OBVIOUS
  <2>2. Good(f, 0)
    OBVIOUS
  <2> HIDE DEF f
  <2> QED BY <2>1, <2>2
<1>3. ASSUME NEW n \in Nat, n \in P PROVE n + 1 \in P
  <2>1. PICK f \in [D -> Seq(S)] : Good(f, n)
    BY <1>3
  <2> DEFINE g == [i \in D |-> FlatStep(q, i, f)]
  <2>2. ASSUME NEW i \in D PROVE g[i] = FlatStep(q, i, f) /\ g[i] \in Seq(S)
    <3>1. i # 1 => i - 1 \in D
      BY <1>1
    <3>2. i # 1 => f[i - 1] \in Seq(S)
      BY <2>1, <3>1
    <3> QED BY <3>2, FlatStepType
  <2>3. ASSUME NEW i \in D, i <= n + 1 PROVE g[i] = FlatStep(q, i, g)
    <3>1. CASE i = 1
      BY <2>2, <3>1 DEF FlatStep
    <3>2. CASE i # 1
      <4>1. i - 1 \in D /\ i - 1 <= n
        BY <1>1, <2>3, <3>2
      <4>2. g[i - 1] = f[i - 1]
        BY <2>1, <2>2, <4>1
      <4> HIDE DEF g
      <4> QED BY <2>2, <3>2, <4>2 DEF FlatStep
    <3> QED BY <3>1, <3>2
  <2>4. g \in [D -> Seq(S)]
    BY <2>2
  <2> HIDE DEF g
  <2>5. Good(g, n + 1)
    BY <2>3
  <2>6. n + 1 \in Nat
    OBVIOUS
  <2> QED BY <2>4, <2>5, <2>6
<1> HIDE DEF P
<1>4. Len(q) \in P
  BY <1>1, <1>2, <1>3, NatSetInduction
<1>5. PICK f \in [D -> Seq(S)] : Good(f, Len(q))
  BY <1>4 DEF P
<1>6. \A i \in D : f[i] = FlatStep(q, i, f)
  BY <1>1, <1>5
<1>7. f = [i \in D |-> FlatStep(q, i, f)]
  BY <1>5, <1>6
<1> QED BY <1>5, <1>7

LEMMA FlatsAre ==
    ASSUME NEW S, NEW q \in Seq(Seq(S))
    PROVE  /\ \A i \in 1..Len(q) : Flats(q)[i] = FlatStep(q, i, Flats(q))
           /\ \A i \in 1..Len(q) : Flats(q)[i] \in Seq(S)
<1>1. PICK e \in [1..Len(q) -> Seq(S)] : e = [i \in 1..Len(q) |-> FlatStep(q, i, e)]
  BY FlatsExist, Zenon
<1>2. Flats(q) = [i \in 1..Len(q) |-> FlatStep(q, i, Flats(q))]
  BY <1>1, Zenon DEF Flats
<1> DEFINE f == Flats(q)
<1>3. \A i \in 1..Len(q) : f[i] = FlatStep(q, i, f)
  BY <1>2
<1> HIDE DEF f
<1> DEFINE P == {n \in Nat : \A i \in 1..Len(q) : i = n => f[i] \in Seq(S)}
<1>4. 0 \in P
  OBVIOUS
<1>5. ASSUME NEW n \in Nat, n \in P PROVE n + 1 \in P
  <2>1. ASSUME NEW i \in 1..Len(q), i = n + 1 PROVE f[i] \in Seq(S)
    <3>1. i # 1 => f[i - 1] \in Seq(S)
      <4>1. SUFFICES ASSUME i # 1 PROVE f[i - 1] \in Seq(S)
        OBVIOUS
      <4>2. i - 1 \in 1..Len(q) /\ i - 1 = n
        BY <2>1, <4>1
      <4> QED BY <1>5, <4>2
    <3>2. FlatStep(q, i, f) \in Seq(S)
      BY <3>1, FlatStepType
    <3> QED BY <1>3, <3>2
  <2> QED BY <2>1
<1> HIDE DEF P
<1>6. ASSUME NEW i \in 1..Len(q) PROVE f[i] \in Seq(S)
  <2>1. \A n \in Nat : n \in P
    BY <1>4, <1>5, NatSetInduction
  <2>2. i \in Nat
    OBVIOUS
  <2> QED BY <2>1, <2>2 DEF P
<1> QED BY <1>3, <1>6 DEF f

LEMMA FlattenEmpty == FlattenSeq(<< >>) = << >>
  BY FlattenUnfolds

LEMMA FlattenAppend ==
    ASSUME NEW S, NEW q \in Seq(Seq(S)), NEW b \in Seq(S)
    PROVE  /\ FlattenSeq(q) \in Seq(S)
           /\ FlattenSeq(Append(q, b)) = FlattenSeq(q) \o b
<1> DEFINE r == Append(q, b)
           f == Flats(q)
           g == Flats(r)
           P == {n \in Nat : \A i \in 1..Len(q) : i = n => g[i] = f[i]}
<1>1. /\ r \in Seq(Seq(S)) /\ Len(r) = Len(q) + 1 /\ Len(q) \in Nat
      /\ r[Len(q) + 1] = b /\ \A k \in 1..Len(q) : r[k] = q[k]
  BY AppendIs
<1>2. /\ \A i \in 1..Len(q) : f[i] = FlatStep(q, i, f) /\ f[i] \in Seq(S)
      /\ \A i \in 1..Len(q) + 1 : g[i] = FlatStep(r, i, g)
  BY <1>1, FlatsAre
<1> HIDE DEF f, g, r
<1>3. 0 \in P
  OBVIOUS
<1>4. ASSUME NEW n \in Nat, n \in P PROVE n + 1 \in P
  <2>1. ASSUME NEW i \in 1..Len(q), i = n + 1 PROVE g[i] = f[i]
    <3>1. i \in 1..Len(q) + 1 /\ r[i] = q[i]
      BY <1>1
    <3>2. CASE i = 1
      BY <1>2, <3>1, <3>2 DEF FlatStep
    <3>3. CASE i # 1
      <4>1. i - 1 \in 1..Len(q) /\ i - 1 = n
        BY <1>1, <2>1, <3>3
      <4>2. g[i - 1] = f[i - 1]
        BY <1>4, <4>1
      <4> QED BY <1>2, <3>1, <3>3, <4>2 DEF FlatStep
    <3> QED BY <3>2, <3>3
  <2> QED BY <2>1
<1> HIDE DEF P
<1>5. ASSUME NEW i \in 1..Len(q) PROVE g[i] = f[i]
  <2>1. \A n \in Nat : n \in P
    BY <1>3, <1>4, NatSetInduction
  <2>2. i \in Nat
    OBVIOUS
  <2> QED BY <2>1, <2>2 DEF P
<1>6. FlattenSeq(r) = g[Len(q) + 1]
  BY <1>1, FlattenUnfolds DEF g
<1>7. CASE Len(q) = 0
  <2>1. q = << >> /\ FlattenSeq(q) = << >>
    BY <1>7, FlattenUnfolds
  <2>2. g[1] = b
    BY <1>1, <1>2, <1>7 DEF FlatStep
  <2>3. FlattenSeq(r) = b
    BY <1>6, <1>7, <2>2
  <2>4. << >> \o b = b /\ << >> \in Seq(S)
    OBVIOUS
  <2> QED BY <2>1, <2>3, <2>4 DEF r
<1>8. CASE Len(q) # 0
  <2>1. FlattenSeq(q) = f[Len(q)] /\ Len(q) \in 1..Len(q) /\ Len(q) + 1 \in 1..Len(q) + 1
    BY <1>1, <1>8, FlattenUnfolds DEF f
  <2>2. g[Len(q) + 1] = g[Len(q)] \o b
    <3>1. (Len(q) + 1) - 1 = Len(q) /\ Len(q) + 1 # 1
      BY <1>1, <1>8
    <3>2. g[Len(q) + 1] = FlatStep(r, Len(q) + 1, g)
      BY <1>2, <2>1
    <3> QED BY <1>1, <3>1, <3>2 DEF FlatStep
  <2> QED BY <1>2, <1>5, <1>6, <2>1, <2>2 DEF r
<1> QED BY <1>7, <1>8

-----------------------------------------------------------------------------
(* How often the members of a set occur in a sequence.                     *)

HowMany(T, w) == Cardinality({k \in DOMAIN w : w[k] \in T})

LEMMA PositionsFinite ==
    ASSUME NEW S, NEW w \in Seq(S), NEW T
    PROVE  /\ IsFiniteSet({k \in DOMAIN w : w[k] \in T})
           /\ HowMany(T, w) \in Nat
<1>1. DOMAIN w = 1..Len(w) /\ Len(w) \in Nat
  OBVIOUS
<1>2. IsFiniteSet(DOMAIN w)
  BY <1>1, FS_Interval
<1>3. IsFiniteSet({k \in DOMAIN w : w[k] \in T})
  BY <1>2, FS_Subset
<1> QED BY <1>3, FS_CardinalityType DEF HowMany

LEMMA HowManyEmpty == ASSUME NEW T PROVE HowMany(T, << >>) = 0
<1>1. {k \in DOMAIN << >> : << >>[k] \in T} = {}
  OBVIOUS
<1> QED BY <1>1, FS_EmptySet DEF HowMany

LEMMA HowManyAppend ==
    ASSUME NEW S, NEW w \in Seq(S), NEW x \in S, NEW T
    PROVE  HowMany(T, Append(w, x)) = HowMany(T, w) + IF x \in T THEN 1 ELSE 0
<1> DEFINE n == Len(w)
           v == Append(w, x)
           A == {k \in DOMAIN w : w[k] \in T}
           B == {k \in DOMAIN v : v[k] \in T}
<1>1. /\ n \in Nat /\ DOMAIN w = 1..n /\ DOMAIN v = 1..n + 1 /\ v[n + 1] = x
      /\ \A k \in 1..n : v[k] = w[k]
  BY AppendIs
<1>2. IsFiniteSet(A) /\ Cardinality(A) \in Nat
  BY PositionsFinite DEF HowMany
<1>3. B = IF x \in T THEN A \union {n + 1} ELSE A
  <2> HIDE DEF v
  <2>1. ASSUME NEW k PROVE k \in DOMAIN v <=> k \in DOMAIN w \/ k = n + 1
    BY <1>1
  <2>2. n + 1 \notin DOMAIN w
    BY <1>1
  <2> QED BY <1>1, <2>1, <2>2
<1>4. n + 1 \notin A
  BY <1>1
<1>5. Cardinality(A \union {n + 1}) = Cardinality(A) + 1
  BY <1>2, <1>4, FS_AddElement
<1> HIDE DEF A, B
<1>6. Cardinality(B) = Cardinality(A) + IF x \in T THEN 1 ELSE 0
  BY <1>2, <1>3, <1>5
<1> QED BY <1>6 DEF HowMany, A, B

LEMMA HowManyConcat ==
    ASSUME NEW S, NEW a \in Seq(S), NEW b \in Seq(S), NEW T
    PROVE  HowMany(T, a \o b) = HowMany(T, a) + HowMany(T, b)
<1> DEFINE n == Len(a)
           w == a \o b
           A == {k \in DOMAIN a : a[k] \in T}
           B == {k \in DOMAIN b : b[k] \in T}
           W == {k \in DOMAIN w : w[k] \in T}
           C == W \ A
           f == [k \in B |-> n + k]
<1>1. /\ n \in Nat /\ Len(b) \in Nat /\ DOMAIN a = 1..n /\ DOMAIN b = 1..Len(b) /\ DOMAIN w = 1..n + Len(b)
      /\ (\A k \in 1..n : w[k] = a[k]) /\ \A k \in 1..Len(b) : w[n + k] = b[k]
      /\ w \in Seq(S)
  BY ConcatIs
<1> HIDE DEF w, n
<1>2. IsFiniteSet(A) /\ IsFiniteSet(B) /\ IsFiniteSet(W)
  BY <1>1, PositionsFinite
<1>3. A \subseteq W
  <2>1. ASSUME NEW k \in A PROVE k \in W
    BY <1>1
  <2> QED BY <2>1
<1>4. \A k \in B : n + k \in C
  <2>1. ASSUME NEW k \in B PROVE n + k \in C
    <3>1. k \in 1..Len(b) /\ b[k] \in T
      BY <1>1
    <3>2. n + k \in 1..n + Len(b) /\ n + k \notin 1..n /\ w[n + k] = b[k]
      BY <1>1, <3>1
    <3> QED BY <1>1, <3>1, <3>2
  <2> QED BY <2>1
<1>5. \A m \in C : \E k \in B : f[k] = m
  <2>1. ASSUME NEW m \in C PROVE \E k \in B : f[k] = m
    <3>1. m \in 1..n + Len(b) /\ m \notin 1..n /\ w[m] \in T
      BY <1>1
    <3>2. m - n \in 1..Len(b) /\ n + (m - n) = m
      BY <1>1, <3>1
    <3>3. b[m - n] = w[m]
      BY <1>1, <3>2
    <3>4. m - n \in B
      BY <1>1, <3>1, <3>2, <3>3
    <3> QED BY <3>2, <3>4
  <2> QED BY <2>1
<1>6. \A k, m \in B : f[k] = f[m] => k = m
  BY <1>1
<1>7. f \in [B -> C]
  BY <1>4
<1> HIDE DEF A, B, W, C, f
<1>8. f \in Bijection(B, C)
  BY <1>5, <1>6, <1>7 DEF Bijection, Injection, Surjection, IsInjective
<1>9. Cardinality(C) = Cardinality(B) /\ IsFiniteSet(C)
  BY <1>2, <1>8, FS_Bijection DEF ExistsBijection
<1>10. Cardinality(C) = Cardinality(W) - Cardinality(W \intersect A)
  BY <1>2, FS_Difference DEF C
<1>11. W \intersect A = A
  BY <1>3
<1>12. Cardinality(A) \in Nat /\ Cardinality(B) \in Nat /\ Cardinality(W) \in Nat
  BY <1>2, FS_CardinalityType
<1>13. Cardinality(C) = Cardinality(W) - Cardinality(A)
  BY <1>10, <1>11
<1>14. Cardinality(W) = Cardinality(A) + Cardinality(B)
  BY <1>9, <1>12, <1>13
<1> QED BY <1>14 DEF HowMany, A, B, W, w

LEMMA SameSequence ==
    ASSUME NEW S, NEW s \in Seq(S), NEW t \in Seq(S), Len(t) = Len(s), \A q \in 1..Len(s) : t[q] = s[q]
    PROVE  s = t
  OBVIOUS

LEMMA SubSeqIs ==
    ASSUME NEW S, NEW s \in Seq(S), NEW k \in 0..Len(s), NEW g \in 1..k + 1
    PROVE  /\ SubSeq(s, g, k) \in Seq(S) /\ Len(SubSeq(s, g, k)) = k - g + 1
           /\ \A q \in 1..k - g + 1 : SubSeq(s, g, k)[q] = s[g + q - 1]
  OBVIOUS

\* A sequence cut in two.
LEMMA CutIs ==
    ASSUME NEW S, NEW s \in Seq(S), NEW m \in 0..Len(s)
    PROVE  /\ SubSeq(s, 1, m) \in Seq(S) /\ SubSeq(s, m + 1, Len(s)) \in Seq(S)
           /\ s = SubSeq(s, 1, m) \o SubSeq(s, m + 1, Len(s))
<1> DEFINE N == Len(s)
           p == SubSeq(s, 1, m)
           r == SubSeq(s, m + 1, N)
<1>1. /\ p \in Seq(S) /\ r \in Seq(S) /\ Len(r) = N - m /\ Len(p) = m /\ N \in Nat /\ m \in Nat
      /\ (\A q \in 1..m : p[q] = s[q]) /\ \A q \in 1..N - m : r[q] = s[m + q]
  OBVIOUS
<1> HIDE DEF p, r
<1>2. /\ p \o r \in Seq(S) /\ Len(p \o r) = N
      /\ (\A q \in 1..m : (p \o r)[q] = p[q]) /\ \A q \in 1..N - m : (p \o r)[m + q] = r[q]
  <2>1. /\ p \o r \in Seq(S) /\ Len(p \o r) = Len(p) + Len(r)
        /\ \A q \in 1..Len(p) : (p \o r)[q] = p[q]
        /\ \A q \in 1..Len(r) : (p \o r)[Len(p) + q] = r[q]
    BY <1>1, ConcatIs
  <2>2. m + (N - m) = N
    BY <1>1
  <2> QED BY <1>1, <2>1, <2>2
<1>3. ASSUME NEW q \in 1..N PROVE (p \o r)[q] = s[q]
  <2>1. CASE q \in 1..m
    BY <1>1, <1>2, <2>1
  <2>2. CASE q \notin 1..m
    <3>1. q - m \in 1..N - m /\ m + (q - m) = q
      BY <1>1, <2>2
    <3>2. (p \o r)[m + (q - m)] = r[q - m] /\ r[q - m] = s[m + (q - m)]
      BY <1>1, <1>2, <3>1
    <3> QED BY <3>1, <3>2
  <2> QED BY <2>1, <2>2
<1>4. s = p \o r
  <2>1. Len(p \o r) = Len(s)
    BY <1>2
  <2> HIDE DEF N
  <2> QED BY <1>2, <1>3, <2>1, SameSequence DEF N
<1> QED BY <1>1, <1>4 DEF p, r

\* Occurrences in what comes before a part of a sequence, in it, and after it.
LEMMA PartsAddUp ==
    ASSUME NEW S, NEW s \in Seq(S), NEW g \in 1..Len(s) + 1, NEW k \in 0..Len(s), g <= k + 1, NEW T
    PROVE  /\ SubSeq(s, 1, g - 1) \in Seq(S) /\ SubSeq(s, g, k) \in Seq(S) /\ SubSeq(s, k + 1, Len(s)) \in Seq(S)
           /\ HowMany(T, SubSeq(s, 1, g - 1)) \in Nat /\ HowMany(T, SubSeq(s, g, k)) \in Nat
           /\ HowMany(T, SubSeq(s, k + 1, Len(s))) \in Nat
           /\ HowMany(T, s) = HowMany(T, SubSeq(s, 1, g - 1)) + HowMany(T, SubSeq(s, g, k))
                                  + HowMany(T, SubSeq(s, k + 1, Len(s)))
<1> DEFINE N == Len(s)
           x == SubSeq(s, 1, k)
           a == SubSeq(s, 1, g - 1)
           b == SubSeq(s, g, k)
           c == SubSeq(s, k + 1, N)
<1>1. N \in Nat /\ k \in Nat /\ k <= N /\ g \in Nat /\ g >= 1 /\ g - 1 \in 0..k
  OBVIOUS
<1>2. x \in Seq(S) /\ c \in Seq(S) /\ s = x \o c
  BY CutIs
<1>3. Len(x) = k /\ SubSeq(x, 1, g - 1) = a /\ SubSeq(x, (g - 1) + 1, k) = b
  <2>1. Len(x) = k /\ \A q \in 1..k : x[q] = s[q]
    BY <1>1
  <2>2. SubSeq(x, 1, g - 1) = a
    BY <1>1, <2>1
  <2>3. SubSeq(x, (g - 1) + 1, k) = b
    <3>1. (g - 1) + 1 = g
      BY <1>1
    <3>2. SubSeq(x, g, k) = SubSeq(s, g, k)
      BY <1>1, <2>1
    <3> QED BY <3>1, <3>2
  <2> QED BY <2>1, <2>2, <2>3
<1> HIDE DEF x, a, b, c
<1>4. a \in Seq(S) /\ b \in Seq(S) /\ x = a \o b
  BY <1>1, <1>2, <1>3, CutIs
<1>5. HowMany(T, s) = HowMany(T, x) + HowMany(T, c) /\ HowMany(T, x) = HowMany(T, a) + HowMany(T, b)
  BY <1>2, <1>4, HowManyConcat
<1>6. HowMany(T, a) \in Nat /\ HowMany(T, b) \in Nat /\ HowMany(T, c) \in Nat
  BY <1>2, <1>4, PositionsFinite
<1> QED BY <1>2, <1>4, <1>5, <1>6 DEF a, b, c

LEMMA PartIsLess ==
    ASSUME NEW S, NEW s \in Seq(S), NEW g \in 1..Len(s) + 1, NEW k \in 0..Len(s), g <= k + 1, NEW T
    PROVE  HowMany(T, SubSeq(s, g, k)) <= HowMany(T, s)
<1> DEFINE a == HowMany(T, SubSeq(s, 1, g - 1))
           b == HowMany(T, SubSeq(s, g, k))
           c == HowMany(T, SubSeq(s, k + 1, Len(s)))
<1>1. a \in Nat /\ b \in Nat /\ c \in Nat /\ HowMany(T, s) = a + b + c
  BY PartsAddUp
<1> HIDE DEF a, b, c
<1>2. b <= HowMany(T, s)
  BY <1>1
<1> QED BY <1>2 DEF b

LEMMA TimesIs == ASSUME NEW i, NEW w PROVE Times(i, w) = HowMany({i}, w)
<1>1. {k \in DOMAIN w : w[k] = i} = {k \in DOMAIN w : w[k] \in {i}}
  OBVIOUS
<1> QED BY <1>1 DEF Times, HowMany

\* Counted one by one, the elements of a set are its cardinality.
LEMMA CountOnes ==
    ASSUME NEW c, NEW S, IsFiniteSet(S), \A x \in S : c[x] = 1
    PROVE  CountOf(c, S) = Cardinality(S) /\ Counts(c, S)
<1> DEFINE P == {s \in SUBSET S : CountOf(c, s) = Cardinality(s)}
<1>1. Counts(c, S)
  BY DEF Counts
<1>2. {} \in P
  BY CountEmpty, FS_EmptySet
<1>3. ASSUME NEW s \in SUBSET S, NEW x \in S \ s, s \in P PROVE s \union {x} \in P
  <2>1. IsFiniteSet(s) /\ s \union {x} \in SUBSET S /\ x \notin s /\ c[x] = 1
    BY FS_Subset
  <2>2. Counts(c, s \union {x})
    BY <1>1, <2>1, CountsSub
  <2>3. CountOf(c, s \union {x}) = c[x] + CountOf(c, s)
    BY <2>1, <2>2, CountAdd
  <2>4. Cardinality(s \union {x}) = Cardinality(s) + 1 /\ Cardinality(s) \in Nat
    BY <2>1, FS_AddElement, FS_CardinalityType
  <2>5. CountOf(c, s) = Cardinality(s)
    BY <1>3
  <2>6. CountOf(c, s \union {x}) = Cardinality(s \union {x})
    BY <2>1, <2>3, <2>4, <2>5
  <2> QED BY <2>1, <2>6
<1> HIDE DEF P
<1>4. S \in P
  BY <1>2, <1>3, SubsetInduction
<1> QED BY <1>1, <1>4 DEF P

\* Occurrences of a set are those of its members.
LEMMA HowManyIs ==
    ASSUME NEW S, NEW w \in Seq(S), NEW T, IsFiniteSet(T), NEW c, \A i \in T : c[i] = Times(i, w)
    PROVE  CountOf(c, T) = HowMany(T, w)
<1> DEFINE X == {k \in DOMAIN w : w[k] \in T}
           one == [k \in X |-> 1]
           d == [g \in T |-> CountOf(one, {k \in X : w[k] = g})]
<1>1. IsFiniteSet(X)
  BY PositionsFinite
<1>2. CountOf(one, X) = Cardinality(X) /\ Counts(one, X)
  BY <1>1, CountOnes
<1>3. \A k \in X : w[k] \in T
  OBVIOUS
<1>4. ASSUME NEW g \in T PROVE d[g] = c[g] /\ d[g] \in Nat
  <2> DEFINE Y == {k \in X : w[k] = g}
  <2>1. Y = {k \in DOMAIN w : w[k] = g} /\ Y \in SUBSET X
    OBVIOUS
  <2>2. IsFiniteSet(Y) /\ \A k \in Y : one[k] = 1
    BY <1>1, <2>1, FS_Subset
  <2>3. CountOf(one, Y) = Cardinality(Y)
    BY <2>2, CountOnes
  <2>4. Cardinality(Y) = Times(g, w) /\ Cardinality(Y) \in Nat
    BY <2>1, <2>2, FS_CardinalityType DEF Times
  <2> QED BY <2>3, <2>4
<1> HIDE DEF one, X
<1>5. CountOf(one, X) = CountOf(d, T)
  BY <1>2, <1>3, CountByKey
<1> HIDE DEF d
<1>6. Counts(d, T) /\ \A g \in T : d[g] = c[g]
  BY <1>4 DEF Counts
<1>7. CountOf(d, T) = CountOf(c, T)
  BY <1>6, CountSame
<1> QED BY <1>2, <1>5, <1>7 DEF HowMany, X

-----------------------------------------------------------------------------
(* The rows of the table, a row for each copy.                             *)

Blocks(s) == [k \in DOMAIN s |-> [c \in 1..copies[s[k]] |-> s[k]]]

LEMMA WithCopiesIs == ASSUME NEW s PROVE WithCopies(s) = FlattenSeq(Blocks(s))
  BY DEF WithCopies, Blocks

LEMMA BlockFacts ==
    ASSUME Table, NEW e \in Ids, NEW b, b = [c \in 1..copies[e] |-> e]
    PROVE  /\ b \in Seq(Ids) /\ Len(b) = copies[e] /\ copies[e] \in {1, 2} /\ DOMAIN b = 1..copies[e]
           /\ \A c \in 1..copies[e] : b[c] = e
<1>1. copies[e] \in {1, 2}
  BY IdFacts
<1>2. b \in [1..copies[e] -> Ids] /\ copies[e] \in Nat
  BY <1>1
<1>3. b \in Seq(Ids) /\ Len(b) = copies[e] /\ DOMAIN b = 1..copies[e] /\ \A c \in 1..copies[e] : b[c] = e
  BY <1>2
<1> QED BY <1>1, <1>3

LEMMA BlocksAppend ==
    ASSUME Table, NEW s \in Seq(Ids), NEW e \in Ids
    PROVE  LET b == [c \in 1..copies[e] |-> e] IN
           /\ Blocks(s) \in Seq(Seq(Ids))
           /\ Blocks(Append(s, e)) = Append(Blocks(s), b)
<1> DEFINE b == [c \in 1..copies[e] |-> e]
           v == Append(s, e)
<1>1. \A i \in Ids : [c \in 1..copies[i] |-> i] \in Seq(Ids)
  BY BlockFacts
<1>2. /\ Len(s) \in Nat /\ DOMAIN s = 1..Len(s) /\ DOMAIN v = 1..Len(s) + 1 /\ v[Len(s) + 1] = e
      /\ (\A k \in 1..Len(s) : v[k] = s[k]) /\ \A k \in 1..Len(s) : s[k] \in Ids
  BY AppendIs
<1> DEFINE B == Blocks(s)
           V == Blocks(v)
<1>3. B \in [1..Len(s) -> Seq(Ids)] /\ \A k \in 1..Len(s) : B[k] = [c \in 1..copies[s[k]] |-> s[k]]
  BY <1>1, <1>2 DEF Blocks
<1>4. B \in Seq(Seq(Ids)) /\ Len(B) = Len(s)
  <2> HIDE DEF B
  <2> QED BY <1>2, <1>3
<1>5. DOMAIN V = 1..Len(s) + 1 /\ \A k \in 1..Len(s) + 1 : V[k] = [c \in 1..copies[v[k]] |-> v[k]]
  <2> HIDE DEF v
  <2> QED BY <1>2 DEF Blocks
<1>6. b \in Seq(Ids)
  BY <1>1
<1>7. V = Append(B, b)
  <2> DEFINE A == Append(B, b)
  <2>1. /\ DOMAIN A = 1..Len(s) + 1 /\ A[Len(s) + 1] = b /\ \A k \in 1..Len(s) : A[k] = B[k]
        /\ A = [k \in 1..Len(s) + 1 |-> A[k]]
    BY <1>4, <1>6, AppendIs
  <2>2. V = [k \in 1..Len(s) + 1 |-> V[k]]
    BY <1>5 DEF Blocks
  <2>3. ASSUME NEW k \in 1..Len(s) + 1 PROVE V[k] = A[k]
    <3> HIDE DEF A, B, V, v
    <3>1. V[k] = [c \in 1..copies[v[k]] |-> v[k]]
      BY <1>5
    <3>2. CASE k \in 1..Len(s)
      <4>1. v[k] = s[k] /\ A[k] = B[k] /\ B[k] = [c \in 1..copies[s[k]] |-> s[k]]
        BY <1>2, <1>3, <2>1, <3>2
      <4> QED BY <3>1, <4>1
    <3>3. CASE k = Len(s) + 1
      <4>1. v[k] = e /\ A[k] = b
        BY <1>2, <2>1, <3>3
      <4> QED BY <3>1, <4>1
    <3>4. k \in 1..Len(s) \/ k = Len(s) + 1
      BY <1>2
    <3> QED BY <3>2, <3>3, <3>4
  <2> HIDE DEF A, V
  <2> QED BY <2>1, <2>2, <2>3 DEF A
<1> QED BY <1>4, <1>7

\* One event more: its copies come last.
LEMMA WithCopiesAppend ==
    ASSUME Table, NEW s \in Seq(Ids), NEW e \in Ids, NEW b, b = [c \in 1..copies[e] |-> e]
    PROVE  /\ WithCopies(s) \in Seq(Ids)
           /\ WithCopies(Append(s, e)) = WithCopies(s) \o b
<1>1. Blocks(s) \in Seq(Seq(Ids)) /\ Blocks(Append(s, e)) = Append(Blocks(s), b)
  BY BlocksAppend
<1>2. b \in Seq(Ids)
  BY BlockFacts
<1>3. FlattenSeq(Blocks(s)) \in Seq(Ids) /\ FlattenSeq(Append(Blocks(s), b)) = FlattenSeq(Blocks(s)) \o b
  BY <1>1, <1>2, FlattenAppend
<1> QED BY <1>1, <1>3, WithCopiesIs

LEMMA WithCopiesEmpty == WithCopies(<< >>) = << >>
<1>1. Blocks(<< >>) = << >>
  BY DEF Blocks
<1> QED BY <1>1, WithCopiesIs, FlattenEmpty

Distinct(s) == \A j, k \in DOMAIN s : s[j] = s[k] => j = k
Firsts(s, m) == {s[q] : q \in 1..m - 1}

\* Where the copies of events in some order are, and how many.
LaidOut(s) ==
    LET w == WithCopies(s) IN
    /\ w \in Seq(Ids) /\ Len(w) = RowCount(ToSet(s))
    /\ \A k \in 1..Len(w) : w[k] \in ToSet(s)
    /\ \A m \in 1..Len(s) : LET n == RowCount(Firsts(s, m)) + 1 IN n \in 1..Len(w) /\ w[n] = s[m]

LEMMA LaidOutAppend ==
    ASSUME Table, NEW f \in Seq(Ids), NEW e \in Ids, e \notin ToSet(f), LaidOut(f)
    PROVE  LaidOut(Append(f, e))
<1> DEFINE s == Append(f, e)
           b == [c \in 1..copies[e] |-> e]
           v == WithCopies(f)
           w == WithCopies(s)
           N == Len(f)
<1>1. /\ s \in Seq(Ids) /\ Len(s) = N + 1 /\ N \in Nat /\ DOMAIN f = 1..N /\ DOMAIN s = 1..N + 1
      /\ s[N + 1] = e /\ \A k \in 1..N : s[k] = f[k] /\ f[k] \in Ids
  BY AppendIs
<1>2. /\ b \in Seq(Ids) /\ Len(b) = copies[e] /\ copies[e] \in {1, 2} /\ \A c \in 1..copies[e] : b[c] = e
  BY BlockFacts
<1>3. v \in Seq(Ids) /\ w = v \o b
  BY WithCopiesAppend
<1>4. /\ Len(v) = RowCount(ToSet(f)) /\ \A k \in 1..Len(v) : v[k] \in ToSet(f)
      /\ \A m \in 1..N : RowCount(Firsts(f, m)) + 1 \in 1..Len(v) /\ v[RowCount(Firsts(f, m)) + 1] = f[m]
  BY DEF LaidOut
<1> HIDE DEF s, b, v, w, N
<1>5. /\ w \in Seq(Ids) /\ Len(w) = Len(v) + copies[e] /\ Len(v) \in Nat
      /\ (\A k \in 1..Len(v) : w[k] = v[k]) /\ \A k \in 1..copies[e] : w[Len(v) + k] = e
  BY <1>2, <1>3, ConcatIs
<1>6. ToSet(s) = ToSet(f) \union {e} /\ ToSet(f) \in SUBSET Ids
  <2>1. ASSUME NEW x \in ToSet(s) PROVE x \in ToSet(f) \union {e}
    <3>1. PICK k \in 1..N + 1 : x = s[k]
      BY <1>1 DEF ToSet
    <3>2. CASE k \in 1..N
      BY <1>1, <3>1, <3>2 DEF ToSet
    <3>3. CASE k = N + 1
      BY <1>1, <3>1, <3>3
    <3>4. k \in 1..N \/ k = N + 1
      BY <1>1
    <3> QED BY <3>2, <3>3, <3>4
  <2>2. ASSUME NEW x \in ToSet(f) PROVE x \in ToSet(s) /\ x \in Ids
    <3>1. PICK k \in 1..N : x = f[k]
      BY <1>1 DEF ToSet
    <3>2. k \in 1..N + 1 /\ s[k] = x
      BY <1>1, <3>1
    <3> QED BY <1>1, <3>1, <3>2 DEF ToSet
  <2>3. e \in ToSet(s)
    <3>1. N + 1 \in 1..N + 1
      BY <1>1
    <3> QED BY <1>1, <3>1 DEF ToSet
  <2> QED BY <2>1, <2>2, <2>3
<1>7. Len(w) = RowCount(ToSet(s))
  <2>1. Counts(copies, ToSet(f) \union {e})
    BY <1>6, CopiesCount
  <2>2. CountOf(copies, ToSet(f) \union {e}) = copies[e] + CountOf(copies, ToSet(f))
    BY <2>1, CountAdd
  <2> QED BY <1>2, <1>4, <1>5, <1>6, <2>2 DEF RowCount
<1>8. ASSUME NEW k \in 1..Len(w) PROVE w[k] \in ToSet(s) /\ (k \in 1..Len(v) \/ w[k] = e)
  <2>1. CASE k \in 1..Len(v)
    BY <1>4, <1>5, <1>6, <2>1
  <2>2. CASE k \notin 1..Len(v)
    <3>1. k - Len(v) \in 1..copies[e] /\ Len(v) + (k - Len(v)) = k
      BY <1>2, <1>5, <2>2
    <3>2. w[k] = e
      BY <1>5, <3>1
    <3> QED BY <1>6, <3>2
  <2> QED BY <2>1, <2>2
<1>9. ASSUME NEW m \in 1..Len(s)
      PROVE  RowCount(Firsts(s, m)) + 1 \in 1..Len(w) /\ w[RowCount(Firsts(s, m)) + 1] = s[m]
  <2>1. CASE m \in 1..N
    <3>1. Firsts(s, m) = Firsts(f, m)
      <4>1. \A q \in 1..m - 1 : q \in 1..N
        BY <1>1, <2>1
      <4>2. \A q \in 1..m - 1 : s[q] = f[q]
        BY <1>1, <4>1
      <4> QED BY <4>2 DEF Firsts
    <3> DEFINE n == RowCount(Firsts(f, m)) + 1
    <3>2. n \in 1..Len(v) /\ v[n] = f[m] /\ s[m] = f[m]
      BY <1>1, <1>4, <2>1
    <3> HIDE DEF n
    <3>3. n \in 1..Len(w) /\ w[n] = s[m]
      BY <1>2, <1>5, <3>2
    <3> QED BY <3>1, <3>3 DEF n
  <2>2. CASE m = N + 1
    <3>1. Firsts(s, m) = ToSet(f)
      <4>1. m - 1 = N
        BY <1>1, <2>2
      <4>2. \A q \in 1..N : s[q] = f[q]
        BY <1>1
      <4> QED BY <1>1, <4>1, <4>2 DEF Firsts, ToSet
    <3>2. Len(v) + 1 \in 1..Len(w) /\ 1 \in 1..copies[e]
      BY <1>2, <1>5
    <3> QED BY <1>1, <1>4, <1>5, <2>2, <3>1, <3>2
  <2>3. m \in 1..N \/ m = N + 1
    BY <1>1
  <2> QED BY <2>1, <2>2, <2>3
<1> QED BY <1>5, <1>7, <1>8, <1>9 DEF LaidOut, s, w

LEMMA LaidOutIs ==
    ASSUME Table, NEW s \in Seq(Ids), Distinct(s)
    PROVE  LaidOut(s)
<1> DEFINE P == {n \in Nat : \A f \in Seq(Ids) : Len(f) = n /\ Distinct(f) => LaidOut(f)}
<1>1. 0 \in P
  <2>1. ASSUME NEW f \in Seq(Ids), Len(f) = 0 PROVE LaidOut(f)
    <3>1. f = << >>
      BY <2>1
    <3>2. WithCopies(f) = << >> /\ ToSet(f) = {}
      BY <3>1, WithCopiesEmpty DEF ToSet
    <3>3. RowCount({}) = 0
      BY CountEmpty DEF RowCount
    <3>4. << >> \in Seq(Ids) /\ Len(<< >>) = 0 /\ 1..0 = {}
      OBVIOUS
    <3> QED BY <3>1, <3>2, <3>3, <3>4 DEF LaidOut
  <2> QED BY <2>1
<1>2. ASSUME NEW n \in Nat, n \in P PROVE n + 1 \in P
  <2>1. ASSUME NEW r \in Seq(Ids), Len(r) = n + 1, Distinct(r) PROVE LaidOut(r)
    <3> DEFINE f == SubSeq(r, 1, n)
               e == r[n + 1]
    <3>1. /\ f \in Seq(Ids) /\ Len(f) = n /\ e \in Ids /\ r = Append(f, e)
          /\ DOMAIN r = 1..n + 1 /\ DOMAIN f = 1..n /\ \A k \in 1..n : f[k] = r[k]
      BY <2>1
    <3>2. Distinct(f) /\ e \notin ToSet(f)
      <4> HIDE DEF f
      <4>1. \A k \in 1..n : k \in 1..n + 1 /\ k # n + 1 /\ n + 1 \in 1..n + 1
        OBVIOUS
      <4> QED BY <2>1, <3>1, <4>1 DEF Distinct, ToSet
    <3>3. LaidOut(f)
      BY <1>2, <3>1, <3>2
    <3> HIDE DEF f, e
    <3>4. LaidOut(Append(f, e))
      BY <3>1, <3>2, <3>3, LaidOutAppend
    <3> QED BY <3>1, <3>4
  <2> QED BY <2>1
<1> HIDE DEF P
<1>3. \A n \in Nat : n \in P
  BY <1>1, <1>2, NatSetInduction
<1>4. Len(s) \in Nat
  OBVIOUS
<1> QED BY <1>3, <1>4 DEF P

\* A permutation of a set has all of its members, once.
LEMMA PermutationFacts ==
    ASSUME NEW S, IsFiniteSet(S), NEW s \in SetToSeqs(S)
    PROVE  s \in Seq(S) /\ Distinct(s) /\ ToSet(s) = S
<1> DEFINE n == Cardinality(S)
<1>1. n \in Nat /\ IsFiniteSet(1..n) /\ Cardinality(1..n) = n
  BY FS_CardinalityType, FS_Interval
<1>2. s \in [1..n -> S] /\ \A i, j \in 1..n : i # j => s[i] # s[j]
  BY DEF SetToSeqs
<1>3. s \in Seq(S) /\ DOMAIN s = 1..n
  BY <1>1, <1>2
<1>4. Distinct(s)
  BY <1>2, <1>3 DEF Distinct
<1>5. s \in Injection(1..n, S)
  BY <1>2 DEF Injection, IsInjective
<1>6. s \in Surjection(1..n, S)
  BY <1>1, <1>5, FS_Injection
<1>7. ToSet(s) = S
  BY <1>2, <1>3, <1>6 DEF Surjection, ToSet
<1> QED BY <1>3, <1>4, <1>7

-----------------------------------------------------------------------------
(* The feed.                                                               *)

\* The rows that come before those of event i in any order of the feed.
Ahead(i) == RowCount({j \in Ids : Before(j, i)})

AheadOf(r, c, i) == CountOf(c, {j \in DOMAIN r : r[j].at > r[i].at \/ (r[j].at = r[i].at /\ j > i)})

LEMMA AheadIs == ASSUME NEW i PROVE Ahead(i) = AheadOf(rows, copies, i)
  BY DEF Ahead, AheadOf, RowCount, Before, Ids

\* What comes before an event grows with the table.
LEMMA AheadGrows ==
    ASSUME Grows, NEW i \in Ids
    PROVE  /\ AheadOf(rows, copies, i) <= AheadOf(rows', copies', i)
           /\ AheadOf(rows, copies, i) \in Nat /\ AheadOf(rows', copies', i) \in Nat
<1> DEFINE S == {j \in DOMAIN rows : rows[j].at > rows[i].at \/ (rows[j].at = rows[i].at /\ j > i)}
           T == {j \in DOMAIN rows' : rows'[j].at > rows'[i].at \/ (rows'[j].at = rows'[i].at /\ j > i)}
<1>1. S \in SUBSET Ids /\ T \in SUBSET Ids' /\ S \subseteq T
  BY DEF Grows, Ids
<1> HIDE DEF S, T
<1>2. CountOf(copies, S) <= CountOf(copies', T) /\ CountOf(copies, S) \in Nat /\ CountOf(copies', T) \in Nat
  BY <1>1, CountGrows
<1> QED BY <1>2 DEF AheadOf, S, T

LEMMA BeforeIsTotal ==
    ASSUME Table, NEW a \in Ids, NEW b \in Ids
    PROVE  (Before(a, b) \/ Before(b, a) \/ a = b) /\ ~(Before(a, b) /\ Before(b, a))
<1>1. a \in Int /\ b \in Int /\ rows[a].at \in Int /\ rows[b].at \in Int
  BY IdFacts
<1> QED BY <1>1 DEF Before

\* In each order of the window an event comes after those that are ahead of it.
LEMMA OrderFacts ==
    ASSUME Table, NEW s \in Orders(Slice(Rolling, None)), NEW w, w = WithCopies(s)
    PROVE  /\ w \in Seq(Ids) /\ ToSet(s) = Slice(Rolling, None)
           /\ \A i \in Slice(Rolling, None) : Ahead(i) \in Nat /\ Ahead(i) + 1 \in 1..Len(w) /\ w[Ahead(i) + 1] = i
<1> DEFINE S == Slice(Rolling, None)
<1>1. S \in SUBSET Ids /\ IsFiniteSet(S)
  <2>1. S \in SUBSET Ids
    BY SliceIn
  <2> HIDE DEF S
  <2> QED BY <2>1, CopiesCount
<1>2. s \in SetToSeqs(S) /\ \A j, k \in DOMAIN s : j < k => ~Before(s[k], s[j])
  BY DEF Orders
<1>3. s \in Seq(S) /\ Distinct(s) /\ ToSet(s) = S
  BY <1>1, <1>2, PermutationFacts
<1>4. \A i \in S : \A j \in Ids : Before(j, i) => j \in S
  <2>1. ASSUME NEW i \in S, NEW j \in Ids, Before(j, i) PROVE j \in S
    <3>1. rows[i].at \in Int /\ rows[j].at \in Int /\ clock - Window \in Int
      BY <1>1, IdFacts, ReadAssumption DEF Table
    <3>2. rows[i].at >= clock - Window
      BY DEF Slice, InScope, Rolling
    <3>3. rows[j].at >= rows[i].at
      BY <2>1, <3>1 DEF Before
    <3>4. rows[j].at >= clock - Window
      BY <3>1, <3>2, <3>3
    <3> QED BY <3>4 DEF Slice, InScope, Rolling, HasRole
  <2> QED BY <2>1
<1> HIDE DEF S
<1>5. s \in Seq(Ids) /\ DOMAIN s = 1..Len(s) /\ Len(s) \in Nat
  BY <1>1, <1>3
<1>6. LaidOut(s)
  BY <1>3, <1>5, LaidOutIs
<1>7. ASSUME NEW i \in S PROVE Ahead(i) \in Nat /\ Ahead(i) + 1 \in 1..Len(w) /\ w[Ahead(i) + 1] = i
  <2>1. PICK m \in 1..Len(s) : s[m] = i
    BY <1>3, <1>5 DEF ToSet
  <2>2. ASSUME NEW x \in Firsts(s, m) PROVE x \in Ids /\ Before(x, i)
    <3>1. PICK q \in 1..m - 1 : x = s[q]
      BY DEF Firsts
    <3>2. q \in 1..Len(s) /\ q < m
      BY <1>5, <2>1, <3>1
    <3>3. ~Before(i, x) /\ x \in Ids /\ i \in Ids /\ x # i
      BY <1>2, <1>3, <1>5, <2>1, <3>1, <3>2 DEF Distinct
    <3> QED BY <3>3, BeforeIsTotal
  <2>3. ASSUME NEW x \in Ids, Before(x, i) PROVE x \in Firsts(s, m)
    <3>1. PICK q \in 1..Len(s) : s[q] = x
      BY <1>3, <1>4, <1>5, <2>3 DEF ToSet
    <3>2. ~(m < q)
      BY <1>2, <1>5, <2>1, <2>3, <3>1
    <3>3. i \in Ids /\ m # q
      BY <1>1, <2>1, <2>3, <3>1, BeforeIsTotal
    <3>4. q \in 1..m - 1
      BY <1>5, <2>1, <3>1, <3>2, <3>3
    <3> QED BY <3>1, <3>4 DEF Firsts
  <2>4. {j \in Ids : Before(j, i)} = Firsts(s, m)
    BY <2>2, <2>3
  <2>5. {j \in Ids : Before(j, i)} \in SUBSET Ids
    OBVIOUS
  <2> QED BY <1>6, <2>1, <2>4, <2>5, CopiesCount DEF LaidOut, Ahead
<1>8. w \in Seq(Ids)
  BY <1>6 DEF LaidOut
<1> QED BY <1>3, <1>7, <1>8 DEF S

LEMMA PageFacts ==
    ASSUME NEW S, NEW w \in Seq(S), NEW offset \in Nat, NEW p, p = Page(w, offset)
    PROVE  /\ p \in Seq(S)
           /\ \A n \in 1..Len(w) : offset < n /\ n <= offset + PageSize => w[n] \in ToSet(p) /\ p # << >>
           /\ offset + PageSize < Len(w) => Len(p) = PageSize /\ p # << >>
<1> DEFINE last == Least(offset + PageSize, Len(w))
<1>1. PageSize \in Nat /\ PageSize # 0 /\ Len(w) \in Nat
  BY ReadAssumption
<1>2. /\ last \in Nat /\ last <= Len(w) /\ last <= offset + PageSize
      /\ last = offset + PageSize \/ last = Len(w)
  BY <1>1 DEF Least
<1>3. p = SubSeq(w, offset + 1, last)
  BY DEF Page
<1>4. offset + PageSize < Len(w) => last = offset + PageSize
  BY <1>1 DEF Least
<1> HIDE DEF last
<1>5. p \in Seq(S)
  BY <1>1, <1>2, <1>3
<1>6. ASSUME NEW n \in 1..Len(w), offset < n, n <= offset + PageSize
      PROVE  w[n] \in ToSet(p) /\ p # << >>
  <2> DEFINE k == n - offset
  <2>1. k \in 1..last - offset /\ offset + k = n /\ offset + 1 \in 1..Len(w) + 1
    BY <1>1, <1>2, <1>6
  <2>2. DOMAIN p = 1..last - offset /\ p[k] = w[offset + k]
    <3> HIDE DEF k
    <3>1. Len(p) = last - offset
      BY <1>1, <1>2, <1>3, <2>1
    <3>2. \A x \in 1..last - offset : p[x] = w[offset + x]
      BY <1>1, <1>2, <1>3, <2>1
    <3> QED BY <1>5, <2>1, <3>1, <3>2
  <2> HIDE DEF k
  <2>3. k \in DOMAIN p /\ p[k] = w[n]
    BY <2>1, <2>2
  <2>4. DOMAIN << >> = {}
    OBVIOUS
  <2>5. p # << >>
    BY <2>3, <2>4
  <2> QED BY <2>3, <2>5 DEF ToSet
<1>7. ASSUME offset + PageSize < Len(w) PROVE Len(p) = PageSize /\ p # << >>
  <2>1. last = offset + PageSize
    BY <1>4, <1>7
  <2>2. Len(p) = PageSize
    BY <1>1, <1>3, <1>7, <2>1
  <2> QED BY <1>1, <2>2
<1> QED BY <1>5, <1>6, <1>7

-----------------------------------------------------------------------------
(* The search for bursts.                                                  *)

LEMMA LeastIs ==
    ASSUME NEW K \in SUBSET Nat, K # {}
    PROVE  Min(K) \in K /\ \A y \in K : Min(K) <= y
<1>1. \E x \in K : \A y \in K : x <= y
  BY LeastNumber
<1> QED BY <1>1, Zenon DEF Min

Sorted(s) == \A j, k \in 1..Len(s) : j <= k => rows[s[j]].at <= rows[s[k]].at

\* popleft: what is left is the end of x, from the first event of the last hour.
LEMMA LastHourIs ==
    ASSUME Table, NEW x \in Seq(Ids), x # << >>
    PROVE  \E m \in 1..Len(x) :
              /\ LastHour(x) = SubSeq(x, m, Len(x))
              /\ rows[x[Len(x)]].at - rows[x[m]].at <= Hour
              /\ \A k \in 1..m - 1 : ~(rows[x[Len(x)]].at - rows[x[k]].at <= Hour)
<1> DEFINE N == Len(x)
           K == {k \in DOMAIN x : rows[x[N]].at - rows[x[k]].at <= Hour}
           m == Min(K)
<1>1. N \in Nat /\ N \in 1..N /\ DOMAIN x = 1..N /\ \A k \in 1..N : x[k] \in Ids /\ rows[x[k]].at \in Int
  <2>1. N \in Nat /\ N \in 1..N /\ DOMAIN x = 1..N /\ \A k \in 1..N : x[k] \in Ids
    OBVIOUS
  <2> QED BY <2>1, IdFacts
<1>2. m \in 1..N /\ m \in K /\ \A k \in K : m <= k
  <2>1. N \in K
    <3>1. rows[x[N]].at - rows[x[N]].at <= Hour
      BY <1>1, ReadAssumption
    <3> QED BY <1>1, <3>1
  <2>2. K \in SUBSET Nat
    BY <1>1
  <2> HIDE DEF K
  <2>3. m \in K /\ \A k \in K : m <= k
    BY <2>1, <2>2, LeastIs
  <2> QED BY <1>1, <2>3 DEF K
<1>3. LastHour(x) = SubSeq(x, m, N)
  BY DEF LastHour
<1>4. rows[x[N]].at - rows[x[m]].at <= Hour
  BY <1>1, <1>2
<1>5. ASSUME NEW k \in 1..m - 1 PROVE ~(rows[x[N]].at - rows[x[k]].at <= Hour)
  <2>1. k \in 1..N /\ ~(m <= k)
    <3> HIDE DEF K, m
    <3> QED BY <1>1, <1>2
  <2>2. k \notin K
    BY <1>2, <2>1
  <2> QED BY <1>1, <2>1, <2>2
<1> QED BY <1>2, <1>3, <1>4, <1>5

\* What is left of the window v when event e comes: the end of it, e included.
LEMMA LastHourFacts ==
    ASSUME Table, NEW U \in SUBSET Ids, NEW v \in Seq(U), NEW e \in U, NEW w, w = LastHour(Append(v, e))
    PROVE  /\ w \in Seq(U) /\ (Len(w) = 1 => w = <<e>>)
           /\ \A T : HowMany(T, w) <= HowMany(T, Append(v, e))
<1> DEFINE x == Append(v, e)
           N == Len(x)
<1>1. x \in Seq(U) /\ x \in Seq(Ids) /\ N \in Nat /\ x[N] = e /\ x # << >>
  <2>1. Append(v, e) \in Seq(U) /\ Len(Append(v, e)) = Len(v) + 1 /\ Len(v) \in Nat /\ Append(v, e)[Len(v) + 1] = e
    BY AppendIs
  <2>2. Append(v, e) # << >>
    BY AppendIsMore
  <2> QED BY <2>1, <2>2
<1> HIDE DEF x
<1>2. PICK m \in 1..N : w = SubSeq(x, m, N)
  BY <1>1, LastHourIs DEF x
<1>3. m \in 1..N + 1 /\ N \in 0..N /\ m <= N + 1 /\ N - m + 1 \in Nat
  BY <1>1
<1>4. w \in Seq(U) /\ Len(w) = N - m + 1 /\ \A q \in 1..N - m + 1 : w[q] = x[m + q - 1]
  BY <1>1, <1>2, <1>3, SubSeqIs
<1>5. \A T : HowMany(T, w) <= HowMany(T, x)
  BY <1>1, <1>2, <1>3, PartIsLess
<1>6. ASSUME Len(w) = 1 PROVE w = <<e>>
  <2>1. m = N
    <3>1. N - m + 1 = 1
      BY <1>4, <1>6
    <3> QED BY <1>1, <3>1
  <2>2. w[1] = e
    BY <1>1, <1>4, <1>6, <2>1
  <2>3. w = [k \in 1..Len(w) |-> w[k]]
    BY <1>4
  <2> QED BY <1>6, <2>2, <2>3
<1> QED BY <1>4, <1>5, <1>6 DEF x

Start == [window |-> << >>, best |-> << >>, found |-> << >>]
ScanStep(s, k, f) == IF k = 0 THEN Start ELSE Slide(f[k - 1], s[k])
Scan(s) == CHOOSE f : f = [k \in 0..Len(s) |-> ScanStep(s, k, f)]

LEMMA BurstsUnfolds ==
    ASSUME NEW s
    PROVE  Bursts(s) = LET end == Scan(s)[Len(s)] IN
                       IF end.best = << >> THEN end.found ELSE Append(end.found, end.best)
  BY DEF Bursts, Scan, ScanStep, Start

LEMMA ScanIs ==
    ASSUME NEW s, Len(s) \in Nat
    PROVE  \A k \in 0..Len(s) : Scan(s)[k] = ScanStep(s, k, Scan(s))
<1> DEFINE D == 0..Len(s)
           Good(f, n) == \A k \in D : k <= n => f[k] = ScanStep(s, k, f)
           P == {n \in Nat : \E f : DOMAIN f = D /\ f = [k \in D |-> f[k]] /\ Good(f, n)}
<1>1. 0 \in P
  <2> DEFINE f == [k \in D |-> Start]
  <2>1. Good(f, 0)
    BY DEF ScanStep
  <2>2. DOMAIN f = D /\ f = [k \in D |-> f[k]]
    OBVIOUS
  <2> HIDE DEF f
  <2> QED BY <2>1, <2>2
<1>2. ASSUME NEW n \in Nat, n \in P PROVE n + 1 \in P
  <2>1. PICK f : Good(f, n)
    BY <1>2
  <2> DEFINE g == [k \in D |-> ScanStep(s, k, f)]
  <2>2. DOMAIN g = D /\ g = [k \in D |-> g[k]] /\ \A k \in D : g[k] = ScanStep(s, k, f)
    OBVIOUS
  <2> HIDE DEF g
  <2>3. ASSUME NEW k \in D, k <= n + 1 PROVE g[k] = ScanStep(s, k, g)
    <3>1. CASE k = 0
      BY <2>2, <3>1 DEF ScanStep
    <3>2. CASE k # 0
      <4>1. k - 1 \in D /\ k - 1 <= n
        BY <2>3, <3>2
      <4>2. f[k - 1] = ScanStep(s, k - 1, f)
        BY <2>1, <4>1
      <4>3. g[k - 1] = f[k - 1]
        BY <2>2, <4>1, <4>2
      <4> QED BY <2>2, <3>2, <4>3 DEF ScanStep
    <3> QED BY <3>1, <3>2
  <2>4. Good(g, n + 1)
    BY <2>3
  <2>5. n + 1 \in Nat
    OBVIOUS
  <2> QED BY <2>2, <2>4, <2>5
<1> HIDE DEF P
<1>3. \A n \in Nat : n \in P
  BY <1>1, <1>2, NatSetInduction
<1>4. Len(s) \in P
  BY <1>3
<1>5. PICK f : DOMAIN f = D /\ f = [k \in D |-> f[k]] /\ Good(f, Len(s))
  BY <1>4 DEF P
<1>6. \A k \in D : f[k] = ScanStep(s, k, f)
  BY <1>5
<1>7. f = [k \in D |-> ScanStep(s, k, f)]
  <2>1. [k \in D |-> f[k]] = [k \in D |-> ScanStep(s, k, f)]
    BY <1>6
  <2> QED BY <1>5, <2>1
<1>8. Scan(s) = [k \in D |-> ScanStep(s, k, Scan(s))]
  BY <1>7, Zenon DEF Scan
<1> DEFINE h == Scan(s)
<1>9. h = [k \in D |-> ScanStep(s, k, h)]
  BY <1>8
<1> HIDE DEF h
<1>10. \A k \in D : h[k] = ScanStep(s, k, h)
  BY <1>9
<1> QED BY <1>10 DEF h

\* What the scan holds counts no event more often than it came.
Part(s, k) == SubSeq(s, 1, k)
Once(U, s, k, acc) ==
    /\ acc = [window |-> acc.window, best |-> acc.best, found |-> acc.found]
    /\ acc.window \in Seq(U) /\ acc.best \in Seq(U) /\ acc.found \in Seq(Seq(U))
    /\ \A i : /\ Times(i, FlattenSeq(acc.found)) + Times(i, acc.best) <= Times(i, Part(s, k))
              /\ Times(i, FlattenSeq(acc.found)) + Times(i, acc.window) <= Times(i, Part(s, k))

LEMMA PartFacts ==
    ASSUME NEW U, NEW s \in Seq(U), NEW k \in 1..Len(s)
    PROVE  /\ Part(s, k - 1) \in Seq(U) /\ s[k] \in U /\ Part(s, k) = Append(Part(s, k - 1), s[k])
           /\ \A T : /\ HowMany(T, Part(s, k)) = HowMany(T, Part(s, k - 1)) + IF s[k] \in T THEN 1 ELSE 0
                     /\ HowMany(T, Part(s, k - 1)) \in Nat
<1>1. Part(s, k - 1) \in Seq(U) /\ s[k] \in U /\ Part(s, k) = Append(Part(s, k - 1), s[k])
  BY DEF Part
<1> DEFINE p == Part(s, k - 1)
           e == s[k]
<1> HIDE DEF p, e
<1>2. ASSUME p \in Seq(U), e \in U, NEW T
      PROVE  HowMany(T, Append(p, e)) = HowMany(T, p) + (IF e \in T THEN 1 ELSE 0) /\ HowMany(T, p) \in Nat
  BY <1>2, HowManyAppend, PositionsFinite
<1> QED BY <1>1, <1>2 DEF p, e

LEMMA SlideOnce ==
    ASSUME Table, NEW U \in SUBSET Ids, NEW s \in Seq(U), NEW k \in 1..Len(s), NEW acc, Once(U, s, k - 1, acc)
    PROVE  Once(U, s, k, Slide(acc, s[k]))
<1> DEFINE e == s[k]
           v == acc.window
           w == LastHour(Append(v, e))
           F == FlattenSeq(acc.found)
           p == Part(s, k - 1)
           r == Part(s, k)
           one(i) == IF i = e THEN 1 ELSE 0
<1>1. /\ p \in Seq(U) /\ e \in U
      /\ \A i : Times(i, r) = Times(i, p) + one(i) /\ Times(i, p) \in Nat
  <2>1. p \in Seq(U) /\ e \in U
    BY PartFacts
  <2>2. ASSUME NEW i PROVE Times(i, r) = Times(i, p) + one(i) /\ Times(i, p) \in Nat
    <3>1. HowMany({i}, r) = HowMany({i}, p) + (IF e \in {i} THEN 1 ELSE 0) /\ HowMany({i}, p) \in Nat
      BY PartFacts
    <3>2. e \in {i} <=> i = e
      OBVIOUS
    <3> HIDE DEF p, r, e
    <3> QED BY <3>1, <3>2, TimesIs
  <2> QED BY <2>1, <2>2
<1>2. /\ acc = [window |-> v, best |-> acc.best, found |-> acc.found]
      /\ v \in Seq(U) /\ acc.best \in Seq(U) /\ acc.found \in Seq(Seq(U))
      /\ \A i : Times(i, F) + Times(i, acc.best) <= Times(i, p) /\ Times(i, F) + Times(i, v) <= Times(i, p)
  BY DEF Once
<1>3. F \in Seq(U) /\ FlattenSeq(Append(acc.found, acc.best)) = F \o acc.best
  BY <1>2, FlattenAppend
<1>4. w \in Seq(U) /\ (Len(w) = 1 => w = <<e>>) /\ \A i : Times(i, w) <= Times(i, v) + one(i)
  <2>0. v \in Seq(U) /\ e \in U
    BY <1>1, <1>2
  <2>1. w \in Seq(U) /\ (Len(w) = 1 => w = <<e>>) /\ \A T : HowMany(T, w) <= HowMany(T, Append(v, e))
    <3> HIDE DEF e, v
    <3> QED BY <2>0, LastHourFacts
  <2> HIDE DEF w, e, v
  <2>2. \A T : HowMany(T, Append(v, e)) = HowMany(T, v) + IF e \in T THEN 1 ELSE 0
    BY <2>0, HowManyAppend
  <2>3. ASSUME NEW i PROVE Times(i, w) <= Times(i, v) + one(i)
    <3>1. HowMany({i}, w) <= HowMany({i}, v) + (IF e \in {i} THEN 1 ELSE 0)
      BY <2>1, <2>2
    <3>2. e \in {i} <=> i = e
      OBVIOUS
    <3> QED BY <3>1, <3>2, TimesIs
  <2> QED BY <2>1, <2>3
<1>5. \A i : /\ Times(i, F) \in Nat /\ Times(i, acc.best) \in Nat /\ Times(i, v) \in Nat /\ Times(i, w) \in Nat
             /\ Times(i, F \o acc.best) = Times(i, F) + Times(i, acc.best)
  BY <1>2, <1>3, <1>4, HowManyConcat, PositionsFinite, TimesIs
<1>6. << >> \in Seq(U) /\ \A i : Times(i, << >>) = 0
  <2>1. << >> \in Seq(U)
    OBVIOUS
  <2>2. \A i : Times(i, << >>) = 0
    BY HowManyEmpty, TimesIs
  <2> QED BY <2>1, <2>2
<1>7. \A i : Times(i, <<e>>) = one(i)
  <2>0. e \in U
    BY <1>1
  <2> HIDE DEF e
  <2>1. \A T : HowMany(T, Append(<< >>, e)) = HowMany(T, << >>) + IF e \in T THEN 1 ELSE 0
    BY <2>0, <1>6, HowManyAppend
  <2>2. Append(<< >>, e) = <<e>>
    OBVIOUS
  <2>3. ASSUME NEW i PROVE Times(i, <<e>>) = one(i)
    <3>1. HowMany({i}, <<e>>) = IF e \in {i} THEN 1 ELSE 0
      BY <2>1, <2>2, HowManyEmpty
    <3> QED BY <3>1, TimesIs
  <2> QED BY <2>3
<1> DEFINE d == Slide(acc, e)
<1> HIDE DEF e, v, w, F, p, r
<1>8. CASE Level(w) # None
  <2>1. /\ d = [window |-> w, best |-> d.best, found |-> acc.found]
        /\ d.best = w \/ d.best = acc.best
    BY <1>2, <1>8 DEF Slide, w, v, e
  <2> HIDE DEF d
  <2>2. d.window = w /\ d.found = acc.found /\ d.best \in Seq(U)
    BY <1>2, <1>4, <2>1
  <2>3. ASSUME NEW i
        PROVE  Times(i, F) + Times(i, w) <= Times(i, r) /\ Times(i, F) + Times(i, acc.best) <= Times(i, r)
    <3>1. Times(i, F) + Times(i, acc.best) <= Times(i, p) /\ Times(i, F) + Times(i, v) <= Times(i, p)
      BY <1>2
    <3>2. Times(i, r) = Times(i, p) + one(i) /\ Times(i, p) \in Nat /\ Times(i, w) <= Times(i, v) + one(i)
      BY <1>1, <1>4
    <3>3. /\ Times(i, F) \in Nat /\ Times(i, acc.best) \in Nat /\ Times(i, v) \in Nat /\ Times(i, w) \in Nat
          /\ one(i) \in Nat
      BY <1>5
    <3> HIDE DEF one
    <3> QED BY <3>1, <3>2, <3>3
  <2>4. Once(U, s, k, d)
    BY <1>2, <1>4, <2>1, <2>2, <2>3 DEF Once, F, r
  <2> QED BY <2>4 DEF d, e
<1>9. CASE Level(w) = None /\ acc.best # << >>
  <2>1. d = [window |-> WindowAfter(w), best |-> << >>, found |-> Append(acc.found, acc.best)]
    BY <1>2, <1>9 DEF Slide, w, v, e
  <2> HIDE DEF d
  <2>2. d.window = WindowAfter(w) /\ d.best = << >> /\ d.found = Append(acc.found, acc.best)
    BY <2>1
  <2>3. d.window \in Seq(U) /\ \A i : Times(i, d.window) <= one(i) /\ Times(i, d.window) \in Nat
    <3>1. CASE Len(w) = 1
      <4>1. d.window = <<e>> /\ d.window \in Seq(U)
        BY <1>4, <2>2, <3>1 DEF WindowAfter
      <4>2. \A i : Times(i, d.window) = one(i) /\ one(i) \in Nat
        BY <1>7, <4>1
      <4> HIDE DEF one
      <4>3. \A i : Times(i, d.window) <= one(i) /\ Times(i, d.window) \in Nat
        BY <4>2
      <4> QED BY <4>1, <4>3
    <3>2. CASE Len(w) # 1
      <4>1. d.window = << >>
        BY <2>2, <3>2 DEF WindowAfter
      <4> QED BY <1>6, <4>1
    <3> QED BY <3>1, <3>2
  <2>4. d.found \in Seq(Seq(U)) /\ FlattenSeq(d.found) = F \o acc.best
    BY <1>2, <1>3, <2>2, AppendIs
  <2>5. ASSUME NEW i
        PROVE  /\ Times(i, FlattenSeq(d.found)) + Times(i, d.best) <= Times(i, r)
               /\ Times(i, FlattenSeq(d.found)) + Times(i, d.window) <= Times(i, r)
    <3>1. Times(i, FlattenSeq(d.found)) = Times(i, F) + Times(i, acc.best) /\ Times(i, d.best) = 0
      BY <1>5, <1>6, <2>2, <2>4
    <3>2. Times(i, F) + Times(i, acc.best) <= Times(i, p) /\ Times(i, r) = Times(i, p) + one(i) /\ Times(i, p) \in Nat
      BY <1>1, <1>2
    <3>3. Times(i, d.window) <= one(i) /\ Times(i, d.window) \in Nat /\ one(i) \in Nat
      BY <2>3
    <3> HIDE DEF one
    <3> QED BY <1>5, <3>1, <3>2, <3>3
  <2>6. Once(U, s, k, d)
    BY <1>6, <2>1, <2>2, <2>3, <2>4, <2>5 DEF Once, r
  <2> QED BY <2>6 DEF d, e
<1>10. CASE Level(w) = None /\ acc.best = << >>
  <2>1. d = [window |-> w, best |-> acc.best, found |-> acc.found]
    BY <1>2, <1>10 DEF Slide, w, v, e
  <2> HIDE DEF d
  <2>2. d.window = w /\ d.found = acc.found /\ d.best = acc.best
    BY <2>1
  <2>3. ASSUME NEW i
        PROVE  Times(i, F) + Times(i, w) <= Times(i, r) /\ Times(i, F) + Times(i, acc.best) <= Times(i, r)
    <3>1. Times(i, F) + Times(i, acc.best) <= Times(i, p) /\ Times(i, F) + Times(i, v) <= Times(i, p)
      BY <1>2
    <3>2. Times(i, r) = Times(i, p) + one(i) /\ Times(i, p) \in Nat /\ Times(i, w) <= Times(i, v) + one(i)
      BY <1>1, <1>4
    <3>3. /\ Times(i, F) \in Nat /\ Times(i, acc.best) \in Nat /\ Times(i, v) \in Nat /\ Times(i, w) \in Nat
          /\ one(i) \in Nat
      BY <1>5
    <3> HIDE DEF one
    <3> QED BY <3>1, <3>2, <3>3
  <2>4. Once(U, s, k, d)
    BY <1>2, <1>4, <2>1, <2>2, <2>3 DEF Once, F, r
  <2> QED BY <2>4 DEF d, e
<1> QED BY <1>8, <1>9, <1>10 DEF e

LEMMA PartEnds ==
    ASSUME NEW U, NEW s \in Seq(U)
    PROVE  Part(s, 0) = << >> /\ Part(s, Len(s)) = s /\ Len(s) \in Nat
<1>1. Len(s) \in Nat
  OBVIOUS
<1>2. Part(s, Len(s)) = s
  BY DEF Part
<1>3. Part(s, 0) = << >>
  BY DEF Part
<1> QED BY <1>1, <1>2, <1>3

LEMMA ScanOnce ==
    ASSUME Table, NEW U \in SUBSET Ids, NEW s \in Seq(U)
    PROVE  \A k \in 0..Len(s) : Once(U, s, k, Scan(s)[k])
<1> DEFINE a == Scan(s)
           P == {k \in Nat : k <= Len(s) => Once(U, s, k, a[k])}
<1>1. Len(s) \in Nat /\ \A k \in 0..Len(s) : a[k] = IF k = 0 THEN Start ELSE Slide(a[k - 1], s[k])
  BY ScanIs DEF ScanStep
<1> HIDE DEF a
<1>2. 0 \in P
  <2>1. \A i : Times(i, << >>) = 0
    BY HowManyEmpty, TimesIs
  <2>2. << >> \in Seq(U) /\ << >> \in Seq(Seq(U)) /\ Start.window = << >> /\ Start.best = << >> /\ Start.found = << >>
    BY DEF Start
  <2>3. Part(s, 0) = << >> /\ FlattenSeq(Start.found) = << >>
    BY <2>2, PartEnds, FlattenEmpty
  <2>4. Once(U, s, 0, Start)
    <3>1. Start = [window |-> Start.window, best |-> Start.best, found |-> Start.found]
      BY DEF Start
    <3> QED BY <2>1, <2>2, <2>3, <3>1 DEF Once
  <2>5. a[0] = Start
    BY <1>1
  <2> QED BY <2>4, <2>5
<1>3. ASSUME NEW n \in Nat, n \in P PROVE n + 1 \in P
  <2>1. SUFFICES ASSUME n + 1 <= Len(s) PROVE Once(U, s, n + 1, a[n + 1])
    OBVIOUS
  <2>2. n + 1 \in 1..Len(s) /\ (n + 1) - 1 = n /\ n <= Len(s) /\ n + 1 # 0
    BY <1>1, <2>1
  <2>3. a[n + 1] = Slide(a[n], s[n + 1])
    BY <1>1, <2>2
  <2>4. Once(U, s, (n + 1) - 1, a[n])
    BY <1>3, <2>2
  <2> QED BY <2>2, <2>3, <2>4, SlideOnce
<1> HIDE DEF P
<1>4. \A n \in Nat : n \in P
  BY <1>2, <1>3, NatSetInduction
<1>5. \A n \in Nat : n <= Len(s) => Once(U, s, n, a[n])
  BY <1>4 DEF P
<1>6. \A k \in 0..Len(s) : k \in Nat /\ k <= Len(s)
  BY <1>1
<1> QED BY <1>5, <1>6 DEF a

\* No event is part of the bursts more often than it came.
LEMMA BurstsOnce ==
    ASSUME Table, NEW U \in SUBSET Ids, NEW s \in Seq(U)
    PROVE  Bursts(s) \in Seq(Seq(U)) /\ \A i : Times(i, FlattenSeq(Bursts(s))) <= Times(i, s)
<1> DEFINE end == Scan(s)[Len(s)]
           F == FlattenSeq(end.found)
<1>1. Once(U, s, Len(s), end) /\ Part(s, Len(s)) = s
  BY ScanOnce, PartEnds
<1>2. Bursts(s) = IF end.best = << >> THEN end.found ELSE Append(end.found, end.best)
  BY BurstsUnfolds
<1> HIDE DEF end
<1>3. /\ end.best \in Seq(U) /\ end.found \in Seq(Seq(U))
      /\ \A i : Times(i, F) + Times(i, end.best) <= Times(i, s)
  BY <1>1 DEF Once
<1>4. F \in Seq(U) /\ FlattenSeq(Append(end.found, end.best)) = F \o end.best
  BY <1>3, FlattenAppend
<1>5. \A i : /\ Times(i, F) \in Nat /\ Times(i, end.best) \in Nat /\ Times(i, s) \in Nat
             /\ Times(i, F \o end.best) = Times(i, F) + Times(i, end.best)
  BY <1>3, <1>4, HowManyConcat, PositionsFinite, TimesIs
<1>6. ASSUME NEW i PROVE Times(i, FlattenSeq(Bursts(s))) <= Times(i, s)
  <2>1. Times(i, FlattenSeq(Bursts(s))) \in {Times(i, F), Times(i, F) + Times(i, end.best)}
    BY <1>2, <1>4, <1>5
  <2>2. /\ Times(i, F) \in Nat /\ Times(i, end.best) \in Nat /\ Times(i, s) \in Nat
        /\ Times(i, F) + Times(i, end.best) <= Times(i, s)
    BY <1>3, <1>5
  <2> QED BY <2>1, <2>2
<1>7. Bursts(s) \in Seq(Seq(U))
  BY <1>2, <1>3, AppendIs
<1> QED BY <1>6, <1>7

\* Event q ended a window above the threshold.
HotAt(s, q) ==
    \E g \in 1..q :
        /\ Level(SubSeq(s, g, q)) # None
        /\ \A p \in g..q : rows[s[q]].at - rows[s[p]].at <= Hour

\* Burst f ends with event b, and the scan stayed above the threshold up to event j.
Trail(s, f, b, j) == b <= j /\ f # << >> /\ f[Len(f)] = s[b] /\ \A q \in b + 1..j : HotAt(s, q)

\* Event p is out of the window after event k: it is too old, or was discarded with a
\* burst whose trail is not over for more than an hour.
Gone(s, found, p, k) ==
    \/ ~(rows[s[k]].at - rows[s[p]].at <= Hour)
    \/ \E f \in DOMAIN found, b \in 1..k, j \in 1..k :
           Trail(s, found[f], b, j) /\ rows[s[p]].at - Hour <= rows[s[j]].at

\* The scan after k events: its window is the end of them, and its best burst has a trail.
Held(s, k, acc) ==
    /\ \E g \in 1..k + 1 : acc.window = SubSeq(s, g, k) /\ \A p \in 1..g - 1 : Gone(s, acc.found, p, k)
    /\ acc.best # << >> => \E b \in 1..k : Trail(s, acc.best, b, k)

\* The window when event k has come begins with event h.
View(s, k, acc, h) ==
    /\ LastHour(Append(acc.window, s[k])) = SubSeq(s, h, k)
    /\ \A p \in h..k : rows[s[k]].at - rows[s[p]].at <= Hour
    /\ \A p \in 1..h - 1 : Gone(s, acc.found, p, k)

LEMMA TimesOf ==
    ASSUME Table, NEW s \in Seq(Ids)
    PROVE  Len(s) \in Nat /\ Hour \in Nat /\ \A k \in 1..Len(s) : s[k] \in Ids /\ rows[s[k]].at \in Int
<1>1. Len(s) \in Nat /\ \A k \in 1..Len(s) : s[k] \in Ids
  OBVIOUS
<1> QED BY <1>1, IdFacts, ReadAssumption

\* What is gone stays gone.
LEMMA StaysGone ==
    ASSUME Table, NEW s \in Seq(Ids), Sorted(s), NEW k \in 1..Len(s), NEW p \in 1..k - 1, NEW found,
           Gone(s, found, p, k - 1)
    PROVE  Gone(s, found, p, k)
<1>1. k - 1 \in 1..Len(s) /\ p \in 1..Len(s) /\ k \in 1..Len(s) /\ k - 1 <= k
  BY TimesOf
<1>2. CASE ~(rows[s[k - 1]].at - rows[s[p]].at <= Hour)
  <2>1. rows[s[k - 1]].at <= rows[s[k]].at
    BY <1>1 DEF Sorted
  <2>2. rows[s[k - 1]].at \in Int /\ rows[s[k]].at \in Int /\ rows[s[p]].at \in Int /\ Hour \in Nat
    BY <1>1, TimesOf
  <2>3. ~(rows[s[k]].at - rows[s[p]].at <= Hour)
    BY <1>2, <2>1, <2>2
  <2> QED BY <2>3 DEF Gone
<1>3. CASE \E f \in DOMAIN found, b \in 1..k - 1, j \in 1..k - 1 :
               Trail(s, found[f], b, j) /\ rows[s[p]].at - Hour <= rows[s[j]].at
  <2>1. PICK f \in DOMAIN found, b \in 1..k - 1, j \in 1..k - 1 :
               Trail(s, found[f], b, j) /\ rows[s[p]].at - Hour <= rows[s[j]].at
    BY <1>3
  <2>2. b \in 1..k /\ j \in 1..k
    BY <1>1
  <2> QED BY <2>1, <2>2 DEF Gone
<1> QED BY <1>2, <1>3 DEF Gone

LEMMA SlideViews ==
    ASSUME Table, NEW s \in Seq(Ids), Sorted(s), NEW k \in 1..Len(s), NEW acc, Held(s, k - 1, acc)
    PROVE  \E h \in 1..k : View(s, k, acc, h)
<1>1. PICK g \in 1..(k - 1) + 1 : acc.window = SubSeq(s, g, k - 1) /\ \A p \in 1..g - 1 : Gone(s, acc.found, p, k - 1)
  BY DEF Held
<1>2. k \in Nat /\ g \in 1..k /\ k <= Len(s) /\ Len(s) \in Nat
  OBVIOUS
<1> DEFINE x == SubSeq(s, g, k)
<1>3. /\ x \in Seq(Ids) /\ Len(x) = k - g + 1 /\ \A q \in 1..k - g + 1 : x[q] = s[g + q - 1]
  BY <1>2
<1>4. Append(acc.window, s[k]) = x
  <2> DEFINE y == SubSeq(s, g, k - 1)
  <2>1. y \in Seq(Ids) /\ Len(y) = k - g /\ \A q \in 1..k - g : y[q] = s[g + q - 1]
    BY <1>2
  <2>2. s[k] \in Ids
    BY <1>2
  <2> HIDE DEF y, x
  <2>3. /\ Append(y, s[k]) \in Seq(Ids) /\ Len(Append(y, s[k])) = k - g + 1
        /\ Append(y, s[k])[k - g + 1] = s[k]
        /\ \A q \in 1..k - g : Append(y, s[k])[q] = y[q]
    BY <2>1, <2>2, AppendIs
  <2>4. ASSUME NEW q \in 1..k - g + 1 PROVE Append(y, s[k])[q] = x[q]
    <3>1. CASE q = k - g + 1
      <4>1. g + q - 1 = k
        BY <1>2, <3>1
      <4> QED BY <1>3, <2>3, <3>1, <4>1
    <3>2. CASE q # k - g + 1
      <4>1. q \in 1..k - g
        BY <1>2, <3>2
      <4> QED BY <1>3, <2>1, <2>3, <4>1
    <3> QED BY <3>1, <3>2
  <2>5. Append(y, s[k]) = x
    BY <1>3, <2>3, <2>4, SameSequence
  <2> QED BY <1>1, <2>5 DEF y
<1> HIDE DEF x
<1>5. x # << >> /\ Len(x) >= 1 /\ x[Len(x)] = s[k]
  <2>1. k - g + 1 \in 1..k - g + 1 /\ g + (k - g + 1) - 1 = k
    BY <1>2
  <2> QED BY <1>3, <2>1
<1>6. PICK m \in 1..Len(x) :
         /\ LastHour(x) = SubSeq(x, m, Len(x))
         /\ rows[s[k]].at - rows[x[m]].at <= Hour
         /\ \A q \in 1..m - 1 : ~(rows[s[k]].at - rows[x[q]].at <= Hour)
  BY <1>3, <1>5, LastHourIs
<1> DEFINE h == g + m - 1
<1>7. h \in g..k /\ h \in 1..k
  BY <1>2, <1>3
<1>8. SubSeq(x, m, Len(x)) = SubSeq(s, h, k)
  <2> DEFINE n == k - h + 1
             a == SubSeq(x, m, Len(x))
             b == SubSeq(s, h, k)
  <2>1. n \in Nat /\ Len(x) - m + 1 = n
    BY <1>2, <1>3, <1>7
  <2>2. a \in Seq(Ids) /\ Len(a) = n /\ \A q \in 1..n : a[q] = x[m + q - 1]
    BY <1>3, <1>5, <2>1
  <2>3. b \in Seq(Ids) /\ Len(b) = n /\ \A q \in 1..n : b[q] = s[h + q - 1]
    <3>1. k \in 0..Len(s) /\ h \in 1..k + 1
      BY <1>2, <1>7
    <3> HIDE DEF h
    <3> QED BY <3>1, SubSeqIs
  <2>4. ASSUME NEW q \in 1..n PROVE x[m + q - 1] = s[h + q - 1]
    <3>1. m + q - 1 \in 1..k - g + 1 /\ g + (m + q - 1) - 1 = h + q - 1
      BY <1>2, <1>3, <1>7
    <3> QED BY <1>3, <3>1
  <2> HIDE DEF a, b, n
  <2>5. a = b
    BY <2>2, <2>3, <2>4, SameSequence
  <2> QED BY <2>5 DEF a, b
<1>9. x[m] = s[h]
  BY <1>3
<1>10. ASSUME NEW p \in h..k PROVE rows[s[k]].at - rows[s[p]].at <= Hour
  <2>1. h \in 1..Len(s) /\ p \in 1..Len(s) /\ h <= p
    BY <1>2, <1>7
  <2>2. rows[s[h]].at <= rows[s[p]].at
    BY <2>1 DEF Sorted
  <2>3. rows[s[h]].at \in Int /\ rows[s[p]].at \in Int /\ rows[s[k]].at \in Int /\ Hour \in Nat
    BY <2>1, TimesOf
  <2> QED BY <1>6, <1>9, <2>2, <2>3
<1>11. ASSUME NEW p \in 1..h - 1 PROVE Gone(s, acc.found, p, k)
  <2>1. CASE p \in 1..g - 1
    <3>1. p \in 1..k - 1
      BY <1>2, <2>1
    <3> QED BY <1>1, <2>1, <3>1, StaysGone
  <2>2. CASE p \notin 1..g - 1
    <3>1. p - g + 1 \in 1..m - 1 /\ p - g + 1 \in 1..k - g + 1 /\ g + (p - g + 1) - 1 = p
      BY <1>2, <1>3, <2>2
    <3>2. x[p - g + 1] = s[p]
      BY <1>3, <3>1
    <3>3. ~(rows[s[k]].at - rows[s[p]].at <= Hour)
      BY <1>6, <3>1, <3>2
    <3> QED BY <3>3 DEF Gone
  <2> QED BY <2>1, <2>2
<1> QED BY <1>4, <1>6, <1>7, <1>8, <1>10, <1>11 DEF View

\* Each event leaves the scan as described.
LEMMA SlideHolds ==
    ASSUME Table, NEW s \in Seq(Ids), Sorted(s), NEW k \in 1..Len(s), NEW acc, Once(Ids, s, k - 1, acc),
           Held(s, k - 1, acc)
    PROVE  Held(s, k, Slide(acc, s[k]))
<1> DEFINE w == LastHour(Append(acc.window, s[k]))
           d == Slide(acc, s[k])
<1>1. PICK h \in 1..k : View(s, k, acc, h)
  BY SlideViews
<1>2. /\ w = SubSeq(s, h, k) /\ \A p \in h..k : rows[s[k]].at - rows[s[p]].at <= Hour
      /\ \A p \in 1..h - 1 : Gone(s, acc.found, p, k)
  BY <1>1 DEF View
<1>3. k \in Nat /\ k \in 1..k /\ h \in 1..k + 1 /\ k <= Len(s) /\ Len(s) \in Nat /\ k \in 0..Len(s)
  OBVIOUS
<1>4. Len(w) = k - h + 1 /\ w # << >> /\ w[Len(w)] = s[k]
  <2>1. Len(w) = k - h + 1 /\ \A q \in 1..k - h + 1 : w[q] = s[h + q - 1]
    BY <1>2, <1>3, SubSeqIs
  <2>2. k - h + 1 \in 1..k - h + 1 /\ h + (k - h + 1) - 1 = k /\ k - h + 1 # 0
    BY <1>3
  <2> QED BY <2>1, <2>2
<1>5. /\ acc = [window |-> acc.window, best |-> acc.best, found |-> acc.found]
      /\ acc.best \in Seq(Ids) /\ acc.found \in Seq(Seq(Ids))
  BY DEF Once
<1>6. acc.best # << >> => \E b \in 1..k - 1 : Trail(s, acc.best, b, k - 1)
  BY DEF Held
<1> HIDE DEF w
<1>7. CASE Level(w) # None
  <2>1. d = [window |-> w, best |-> d.best, found |-> acc.found] /\ (d.best = w \/ (d.best = acc.best /\ acc.best # << >>))
    BY <1>5, <1>7 DEF Slide, w
  <2> HIDE DEF d
  <2>2. d.window = w /\ d.found = acc.found
    BY <2>1
  <2>3. HotAt(s, k)
    BY <1>2, <1>7 DEF HotAt
  <2>4. \E b \in 1..k : Trail(s, d.best, b, k)
    <3>1. CASE d.best = w
      <4>1. k + 1..k = {} /\ k <= k
        BY <1>3
      <4>2. Trail(s, w, k, k)
        BY <1>4, <4>1 DEF Trail
      <4> QED BY <1>3, <3>1, <4>2
    <3>2. CASE d.best = acc.best /\ acc.best # << >>
      <4>1. PICK b \in 1..k - 1 : Trail(s, acc.best, b, k - 1)
        BY <1>6, <3>2
      <4>2. b \in 1..k /\ b <= k /\ \A q \in b + 1..k : q = k \/ q \in b + 1..k - 1
        BY <1>3
      <4>3. Trail(s, acc.best, b, k)
        BY <2>3, <4>1, <4>2 DEF Trail
      <4> QED BY <3>2, <4>2, <4>3
    <3> QED BY <2>1, <3>1, <3>2
  <2>5. Held(s, k, d)
    BY <1>2, <1>3, <2>2, <2>4 DEF Held
  <2> QED BY <2>5 DEF d
<1>8. CASE Level(w) = None /\ acc.best = << >>
  <2>1. d = [window |-> w, best |-> acc.best, found |-> acc.found]
    BY <1>5, <1>8 DEF Slide, w
  <2> HIDE DEF d
  <2>2. d.window = w /\ d.found = acc.found /\ d.best = << >>
    BY <1>8, <2>1
  <2>3. Held(s, k, d)
    BY <1>2, <1>3, <2>2 DEF Held
  <2> QED BY <2>3 DEF d
<1>9. CASE Level(w) = None /\ acc.best # << >>
  <2>1. d = [window |-> WindowAfter(w), best |-> << >>, found |-> Append(acc.found, acc.best)]
    BY <1>5, <1>9 DEF Slide, w
  <2> HIDE DEF d
  <2>2. d.window = WindowAfter(w) /\ d.best = << >> /\ d.found = Append(acc.found, acc.best)
    BY <2>1
  <2> DEFINE n == Len(acc.found) + 1
  <2>3. /\ \A f \in DOMAIN acc.found : f \in DOMAIN d.found /\ d.found[f] = acc.found[f]
        /\ n \in DOMAIN d.found /\ d.found[n] = acc.best
    <3>1. /\ DOMAIN acc.found = 1..Len(acc.found) /\ DOMAIN Append(acc.found, acc.best) = 1..n /\ Len(acc.found) \in Nat
          /\ Append(acc.found, acc.best)[n] = acc.best
          /\ \A f \in 1..Len(acc.found) : Append(acc.found, acc.best)[f] = acc.found[f]
      BY <1>5, AppendIs
    <3> QED BY <2>2, <3>1
  <2>4. \A p \in 1..h - 1 : Gone(s, d.found, p, k)
    <3>1. ASSUME NEW p \in 1..h - 1 PROVE Gone(s, d.found, p, k)
      <4>1. Gone(s, acc.found, p, k)
        BY <1>2
      <4> HIDE DEF n
      <4> QED BY <2>3, <4>1 DEF Gone
    <3> QED BY <3>1
  <2>5. CASE Len(w) = 1
    <3>1. h = k /\ d.window = SubSeq(s, h, k)
      <4>1. k - h + 1 = 1
        BY <1>4, <2>5
      <4>2. d.window = w
        BY <2>2, <2>5 DEF WindowAfter
      <4>3. h = k
        BY <1>3, <4>1
      <4> QED BY <1>2, <4>2, <4>3
    <3> QED BY <1>3, <2>2, <2>4, <3>1 DEF Held, d
  <2>6. CASE Len(w) # 1
    <3>1. d.window = << >> /\ k + 1 \in 1..k + 1 /\ (k + 1) - 1 = k
      BY <1>3, <2>2, <2>6 DEF WindowAfter
    <3>2. SubSeq(s, k + 1, k) = << >>
      <4>1. Len(SubSeq(s, k + 1, k)) = k - (k + 1) + 1 /\ SubSeq(s, k + 1, k) \in Seq(Ids)
        BY <1>3, <3>1, SubSeqIs
      <4>2. Len(SubSeq(s, k + 1, k)) = 0
        BY <1>3, <4>1
      <4> QED BY <4>1, <4>2
    <3>3. PICK b \in 1..k - 1 : Trail(s, acc.best, b, k - 1)
      BY <1>6, <1>9
    <3>4. k - 1 \in 1..k /\ b \in 1..k /\ k - 1 \in h..k /\ k - 1 \in 1..Len(s)
      BY <1>3, <1>4, <2>6
    <3>5. ASSUME NEW p \in h..k PROVE Gone(s, d.found, p, k)
      <4>1. p \in 1..Len(s) /\ p <= k
        BY <1>3
      <4>2. rows[s[p]].at <= rows[s[k]].at /\ rows[s[k]].at - rows[s[k - 1]].at <= Hour
        BY <1>2, <3>4, <4>1 DEF Sorted
      <4>3. rows[s[p]].at \in Int /\ rows[s[k]].at \in Int /\ rows[s[k - 1]].at \in Int /\ Hour \in Nat
        BY <3>4, <4>1, TimesOf
      <4>4. rows[s[p]].at - Hour <= rows[s[k - 1]].at
        BY <4>2, <4>3
      <4>5. Trail(s, d.found[n], b, k - 1)
        BY <2>3, <3>3
      <4> HIDE DEF n
      <4> QED BY <2>3, <3>4, <4>4, <4>5 DEF Gone
    <3>6. \A p \in 1..k : Gone(s, d.found, p, k)
      <4>1. \A p \in 1..k : p \in 1..h - 1 \/ p \in h..k
        BY <1>3
      <4> QED BY <2>4, <3>5, <4>1
    <3>7. Held(s, k, d)
      BY <2>2, <3>1, <3>2, <3>6 DEF Held
    <3> QED BY <3>7 DEF d
  <2> QED BY <2>5, <2>6
<1> QED BY <1>7, <1>8, <1>9

LEMMA ScanHolds ==
    ASSUME Table, NEW s \in Seq(Ids), Sorted(s)
    PROVE  \A k \in 0..Len(s) : Held(s, k, Scan(s)[k])
<1> DEFINE a == Scan(s)
           P == {k \in Nat : k <= Len(s) => Held(s, k, a[k])}
<1>1. Len(s) \in Nat /\ \A k \in 0..Len(s) : a[k] = IF k = 0 THEN Start ELSE Slide(a[k - 1], s[k])
  BY ScanIs DEF ScanStep
<1>2. \A k \in 0..Len(s) : Once(Ids, s, k, a[k])
  BY ScanOnce
<1> HIDE DEF a
<1>3. 0 \in P
  <2>1. a[0].window = << >> /\ a[0].best = << >>
    BY <1>1 DEF Start
  <2>2. SubSeq(s, 1, 0) = << >> /\ 1 \in 1..0 + 1 /\ 1..1 - 1 = {}
    OBVIOUS
  <2>3. Held(s, 0, a[0])
    BY <2>1, <2>2 DEF Held
  <2> QED BY <2>3
<1>4. ASSUME NEW n \in Nat, n \in P PROVE n + 1 \in P
  <2>1. SUFFICES ASSUME n + 1 <= Len(s) PROVE Held(s, n + 1, a[n + 1])
    OBVIOUS
  <2>2. n + 1 \in 1..Len(s) /\ (n + 1) - 1 = n /\ n <= Len(s) /\ n + 1 # 0 /\ n \in 0..Len(s)
    BY <1>1, <2>1
  <2>3. a[n + 1] = Slide(a[n], s[n + 1])
    BY <1>1, <2>2
  <2>4. Held(s, (n + 1) - 1, a[n]) /\ Once(Ids, s, (n + 1) - 1, a[n])
    BY <1>2, <1>4, <2>2
  <2> QED BY <2>2, <2>3, <2>4, SlideHolds
<1> HIDE DEF P
<1>5. \A n \in Nat : n \in P
  BY <1>3, <1>4, NatSetInduction
<1>6. \A n \in Nat : n <= Len(s) => Held(s, n, a[n])
  BY <1>5 DEF P
<1>7. \A k \in 0..Len(s) : k \in Nat /\ k <= Len(s)
  BY <1>1
<1> QED BY <1>6, <1>7 DEF a

\* What was found is still there.
Keeps(F, G) == \A f \in DOMAIN F : f \in DOMAIN G /\ G[f] = F[f]

LEMMA AppendKeeps == ASSUME NEW S, NEW F \in Seq(S), NEW x \in S PROVE Keeps(F, Append(F, x))
<1>1. /\ DOMAIN F = 1..Len(F) /\ DOMAIN Append(F, x) = 1..Len(F) + 1 /\ Len(F) \in Nat
      /\ \A f \in 1..Len(F) : Append(F, x)[f] = F[f]
  BY AppendIs
<1>2. \A f \in 1..Len(F) : f \in 1..Len(F) + 1
  BY <1>1
<1> QED BY <1>1, <1>2 DEF Keeps

LEMMA SlideKeeps ==
    ASSUME NEW acc, acc = [window |-> acc.window, best |-> acc.best, found |-> acc.found],
           acc.best \in Seq(Ids), acc.found \in Seq(Seq(Ids)), NEW e
    PROVE  Keeps(acc.found, Slide(acc, e).found)
<1> DEFINE w == LastHour(Append(acc.window, e))
<1>1. Slide(acc, e).found = acc.found \/ Slide(acc, e).found = Append(acc.found, acc.best)
  BY DEF Slide
<1>2. Keeps(acc.found, Append(acc.found, acc.best))
  BY AppendKeeps
<1>3. Keeps(acc.found, acc.found)
  BY DEF Keeps
<1> QED BY <1>1, <1>2, <1>3

\* f ends in one streak above the threshold with event m.
Linked(s, f, m) ==
    /\ f # << >>
    /\ \E b \in 1..Len(s) :
           /\ f[Len(f)] = s[b]
           /\ \A q \in 1..Len(s) : (b < q /\ q <= m) \/ (m < q /\ q <= b) => HotAt(s, q)

\* From event m on, a burst that is linked to it is found, or still the best.
Reached(s, m, k, acc) ==
    \/ \E f \in DOMAIN acc.found : Linked(s, acc.found[f], m)
    \/ acc.best # << >> /\ Linked(s, acc.best, m) /\ \A q \in m + 1..k : HotAt(s, q)

LEMMA TrailLinks ==
    ASSUME NEW s \in Seq(Ids), NEW m \in 1..Len(s), NEW f, NEW b \in 1..m, Trail(s, f, b, m)
    PROVE  Linked(s, f, m)
<1>1. b \in 1..Len(s) /\ b <= m
  OBVIOUS
<1>2. ASSUME NEW q \in 1..Len(s), (b < q /\ q <= m) \/ (m < q /\ q <= b) PROVE HotAt(s, q)
  <2>1. q \in b + 1..m
    BY <1>1, <1>2
  <2> QED BY <2>1 DEF Trail
<1> QED BY <1>1, <1>2 DEF Linked, Trail

LEMMA SlideReaches ==
    ASSUME Table, NEW s \in Seq(Ids), Sorted(s), NEW k \in 1..Len(s), NEW m \in 1..k - 1, NEW acc,
           Once(Ids, s, k - 1, acc), Held(s, k - 1, acc), Reached(s, m, k - 1, acc)
    PROVE  Reached(s, m, k, Slide(acc, s[k]))
<1> DEFINE w == LastHour(Append(acc.window, s[k]))
           d == Slide(acc, s[k])
<1>1. PICK h \in 1..k : View(s, k, acc, h)
  BY SlideViews
<1>2. w = SubSeq(s, h, k) /\ \A p \in h..k : rows[s[k]].at - rows[s[p]].at <= Hour
  BY <1>1 DEF View
<1>3. k \in Nat /\ k \in 1..k /\ h \in 1..k + 1 /\ k <= Len(s) /\ Len(s) \in Nat /\ k \in 0..Len(s) /\ m \in Nat /\ m < k
  OBVIOUS
<1>4. w # << >> /\ w[Len(w)] = s[k]
  <2>1. Len(w) = k - h + 1 /\ \A q \in 1..k - h + 1 : w[q] = s[h + q - 1]
    BY <1>2, <1>3, SubSeqIs
  <2>2. k - h + 1 \in 1..k - h + 1 /\ h + (k - h + 1) - 1 = k /\ k - h + 1 # 0
    BY <1>3
  <2> QED BY <2>1, <2>2
<1>5. /\ acc = [window |-> acc.window, best |-> acc.best, found |-> acc.found]
      /\ acc.best \in Seq(Ids) /\ acc.found \in Seq(Seq(Ids))
  BY DEF Once
<1> HIDE DEF w
<1>6. CASE \E f \in DOMAIN acc.found : Linked(s, acc.found[f], m)
  <2>1. Keeps(acc.found, d.found)
    BY <1>5, SlideKeeps
  <2> HIDE DEF d
  <2> QED BY <1>6, <2>1 DEF Reached, Keeps, d
<1>7. CASE acc.best # << >> /\ Linked(s, acc.best, m) /\ \A q \in m + 1..k - 1 : HotAt(s, q)
  <2>1. CASE Level(w) # None
    <3>1. d = [window |-> w, best |-> d.best, found |-> acc.found] /\ (d.best = w \/ d.best = acc.best)
      BY <1>5, <2>1 DEF Slide, w
    <3>2. HotAt(s, k)
      BY <1>2, <2>1 DEF HotAt
    <3>3. \A q \in m + 1..k : q = k \/ q \in m + 1..k - 1
      BY <1>3
    <3>4. \A q \in m + 1..k : HotAt(s, q)
      BY <1>7, <3>2, <3>3
    <3>5. Linked(s, w, m)
      <4>1. ASSUME NEW q \in 1..Len(s), (k < q /\ q <= m) \/ (m < q /\ q <= k) PROVE HotAt(s, q)
        <5>1. q \in m + 1..k
          BY <1>3, <4>1
        <5> QED BY <3>4, <5>1
      <4>2. k \in 1..Len(s)
        OBVIOUS
      <4> QED BY <1>4, <4>1, <4>2 DEF Linked
    <3> HIDE DEF d
    <3>6. d.best # << >> /\ Linked(s, d.best, m)
      BY <1>4, <1>7, <3>1, <3>5
    <3> QED BY <3>4, <3>6 DEF Reached, d
  <2>2. CASE Level(w) = None
    <3>1. d = [window |-> WindowAfter(w), best |-> << >>, found |-> Append(acc.found, acc.best)]
      BY <1>5, <1>7, <2>2 DEF Slide, w
    <3> HIDE DEF d
    <3> DEFINE n == Len(acc.found) + 1
    <3>2. n \in DOMAIN d.found /\ d.found[n] = acc.best
      <4>1. /\ DOMAIN Append(acc.found, acc.best) = 1..n /\ Len(acc.found) \in Nat
            /\ Append(acc.found, acc.best)[n] = acc.best
        BY <1>5, AppendIs
      <4> QED BY <3>1, <4>1
    <3> HIDE DEF n
    <3> QED BY <1>7, <3>2 DEF Reached, d
  <2> QED BY <2>1, <2>2
<1> QED BY <1>6, <1>7 DEF Reached

\* What the scan has found, and what it has reached, is in the answer.
LEMMA ScanKept ==
    ASSUME Table, NEW s \in Seq(Ids), Sorted(s), NEW m \in 1..Len(s)
    PROVE  /\ Keeps(Scan(s)[m - 1].found, Bursts(s))
           /\ Reached(s, m, m, Scan(s)[m]) => \E f \in DOMAIN Bursts(s) : Linked(s, Bursts(s)[f], m)
<1> DEFINE a == Scan(s)
           N == Len(s)
           end == a[N]
           F == a[m - 1].found
           P == {n \in Nat : m + n <= N =>
                    /\ Keeps(F, a[m + n].found)
                    /\ Reached(s, m, m, a[m]) => Reached(s, m, m + n, a[m + n])}
<1>1. N \in Nat /\ \A k \in 0..N : a[k] = IF k = 0 THEN Start ELSE Slide(a[k - 1], s[k])
  BY ScanIs DEF ScanStep
<1>2. \A k \in 0..N : Once(Ids, s, k, a[k]) /\ Held(s, k, a[k])
  BY ScanOnce, ScanHolds
<1>3. Bursts(s) = IF end.best = << >> THEN end.found ELSE Append(end.found, end.best)
  BY BurstsUnfolds
<1> HIDE DEF a
<1>4. m \in Nat /\ m >= 1 /\ m <= N /\ m - 1 \in 0..N
  BY <1>1
<1>5. ASSUME NEW k \in 1..N
      PROVE  /\ k - 1 \in 0..N /\ a[k] = Slide(a[k - 1], s[k]) /\ Keeps(a[k - 1].found, a[k].found)
             /\ Once(Ids, s, k - 1, a[k - 1]) /\ Held(s, k - 1, a[k - 1])
  <2>1. k - 1 \in 0..N /\ k \in 0..N /\ k # 0
    BY <1>1
  <2>2. a[k] = Slide(a[k - 1], s[k]) /\ Once(Ids, s, k - 1, a[k - 1]) /\ Held(s, k - 1, a[k - 1])
    BY <1>1, <1>2, <2>1
  <2>3. /\ a[k - 1] = [window |-> a[k - 1].window, best |-> a[k - 1].best, found |-> a[k - 1].found]
        /\ a[k - 1].best \in Seq(Ids) /\ a[k - 1].found \in Seq(Seq(Ids))
    BY <2>2 DEF Once
  <2>4. Keeps(a[k - 1].found, Slide(a[k - 1], s[k]).found)
    BY <2>3, SlideKeeps
  <2> QED BY <2>1, <2>2, <2>4
<1>6. 0 \in P
  <2>1. m + 0 = m /\ m \in 1..N
    BY <1>4
  <2>2. Keeps(F, a[m].found)
    BY <1>5, <2>1
  <2> QED BY <2>1, <2>2
<1>7. ASSUME NEW n \in Nat, n \in P PROVE n + 1 \in P
  <2> DEFINE k == m + (n + 1)
  <2>1. SUFFICES ASSUME k <= N
                 PROVE  /\ Keeps(F, a[k].found)
                        /\ Reached(s, m, m, a[m]) => Reached(s, m, k, a[k])
    OBVIOUS
  <2>2. k \in 1..N /\ k - 1 = m + n /\ m + n <= N /\ m \in 1..k - 1
    BY <1>1, <1>4, <2>1
  <2>3. Keeps(F, a[k - 1].found) /\ (Reached(s, m, m, a[m]) => Reached(s, m, k - 1, a[k - 1]))
    BY <1>7, <2>2
  <2> HIDE DEF k
  <2>4. /\ a[k] = Slide(a[k - 1], s[k]) /\ Keeps(a[k - 1].found, a[k].found)
        /\ Once(Ids, s, k - 1, a[k - 1]) /\ Held(s, k - 1, a[k - 1])
    BY <1>5, <2>2
  <2>5. Keeps(F, a[k].found)
    BY <2>3, <2>4 DEF Keeps
  <2>6. Reached(s, m, k - 1, a[k - 1]) => Reached(s, m, k, a[k])
    BY <2>2, <2>4, SlideReaches
  <2> QED BY <2>3, <2>5, <2>6
<1> HIDE DEF P
<1>8. \A n \in Nat : n \in P
  BY <1>6, <1>7, NatSetInduction
<1>9. N - m \in P /\ m + (N - m) = N
  BY <1>1, <1>4, <1>8
<1>10. Keeps(F, end.found) /\ (Reached(s, m, m, a[m]) => Reached(s, m, N, end))
  BY <1>9 DEF P
<1>11. Once(Ids, s, N, end)
  BY <1>1, <1>2
<1> HIDE DEF end
<1>12. end.found \in Seq(Seq(Ids)) /\ end.best \in Seq(Ids)
  BY <1>11 DEF Once
<1> DEFINE n == Len(end.found) + 1
<1>13. Keeps(end.found, Append(end.found, end.best)) /\ Append(end.found, end.best)[n] = end.best
       /\ n \in DOMAIN Append(end.found, end.best)
  <2>1. Keeps(end.found, Append(end.found, end.best))
    BY <1>12, AppendKeeps
  <2>2. /\ DOMAIN Append(end.found, end.best) = 1..n /\ Len(end.found) \in Nat
        /\ Append(end.found, end.best)[n] = end.best
    BY <1>12, AppendIs
  <2> QED BY <2>1, <2>2
<1> HIDE DEF n
<1>14. Keeps(end.found, Bursts(s))
  BY <1>3, <1>13 DEF Keeps
<1>15. Keeps(F, Bursts(s))
  BY <1>10, <1>14 DEF Keeps
<1>16. ASSUME Reached(s, m, N, end) PROVE \E f \in DOMAIN Bursts(s) : Linked(s, Bursts(s)[f], m)
  <2>1. CASE \E f \in DOMAIN end.found : Linked(s, end.found[f], m)
    BY <1>14, <2>1 DEF Keeps
  <2>2. CASE end.best # << >> /\ Linked(s, end.best, m)
    BY <1>3, <1>13, <2>2
  <2> QED BY <1>16, <2>1, <2>2 DEF Reached
<1> QED BY <1>10, <1>15, <1>16 DEF a

-----------------------------------------------------------------------------
(* Hours, of the calls of a user in table r, counted by c.                 *)

BetweenAt(r, a, b, T) == {i \in T : a <= r[i].at /\ r[i].at <= b}
HourAt(r, calls, x) == BetweenAt(r, r[x].at - Hour, r[x].at, calls)
RefusedAt(r, T) == {i \in T : r[i].outcome = "deny"}
BusyAt(r, c, calls, last) ==
    LET hour == HourAt(r, calls, last) IN
    CountOf(c, hour) >= MinRequests /\ 100 * CountOf(c, RefusedAt(r, hour)) >= Medium * CountOf(c, hour)
HotCall(r, c, calls, x) ==
    LET hour == HourAt(r, calls, x) IN
    /\ CountOf(c, {i \in hour : r[i].at < r[x].at}) + 1 >= MinRequests
    /\ 100 * CountOf(c, RefusedAt(r, hour)) >= Medium * MinRequests
StreakAt(r, c, calls, a, b) ==
    \A x \in BetweenAt(r, a, b, calls) : r[x].at = a \/ HotCall(r, c, calls, x)
NearAt(r, c, calls, f, last) ==
    LET e == r[f[Len(f)]].at IN
    \E x \in BetweenAt(r, r[last].at - 2 * Hour, r[last].at, calls) :
        StreakAt(r, c, calls, e, r[x].at) /\ StreakAt(r, c, calls, r[x].at, e)
FoundAt(r, c, calls, b) ==
    \A last \in calls : BusyAt(r, c, calls, last) => \E f \in DOMAIN b : NearAt(r, c, calls, b[f], last)

\* The events U of a user come in the order of time, each as often as c says.
Line(U, s, c) ==
    /\ U \in SUBSET Ids /\ s \in Seq(U) /\ Sorted(s)
    /\ \A i \in U : c[i] = Times(i, s) /\ c[i] # 0

LEMMA LineTimes ==
    ASSUME Table, NEW U, NEW s, NEW c, Line(U, s, c)
    PROVE  /\ U \in SUBSET Ids /\ s \in Seq(U) /\ s \in Seq(Ids) /\ Sorted(s) /\ Len(s) \in Nat /\ Hour \in Nat
           /\ \A k \in 1..Len(s) : s[k] \in U /\ rows[s[k]].at \in Int
           /\ \A i \in U : rows[i].at \in Int
           /\ \A T \in SUBSET U : CountOf(c, T) = HowMany(T, s) /\ HowMany(T, s) \in Nat
<1>1. U \in SUBSET Ids /\ s \in Seq(U) /\ Sorted(s) /\ \A i \in U : c[i] = Times(i, s)
  BY DEF Line
<1>2. s \in Seq(Ids) /\ Len(s) \in Nat /\ \A k \in 1..Len(s) : s[k] \in U
  BY <1>1
<1>3. Hour \in Nat /\ \A i \in U : rows[i].at \in Int
  BY <1>1, IdFacts, ReadAssumption
<1>4. ASSUME NEW T \in SUBSET U PROVE CountOf(c, T) = HowMany(T, s) /\ HowMany(T, s) \in Nat
  <2>1. T \in SUBSET Ids /\ \A i \in T : c[i] = Times(i, s)
    BY <1>1
  <2>2. IsFiniteSet(T)
    BY <2>1, CopiesCount
  <2> QED BY <1>1, <2>1, <2>2, HowManyIs, PositionsFinite
<1> QED BY <1>1, <1>2, <1>3, <1>4

\* The first and the last place of the moment of event x.
LEMMA FirstPlace ==
    ASSUME Table, NEW U, NEW s, NEW c, Line(U, s, c), NEW x \in U
    PROVE  \E q \in 1..Len(s) : rows[s[q]].at = rows[x].at /\ \A j \in 1..q - 1 : rows[s[j]].at < rows[x].at
<1> DEFINE t == rows[x].at
           K == {k \in 1..Len(s) : rows[s[k]].at = t}
<1>1. /\ s \in Seq(U) /\ Sorted(s) /\ Len(s) \in Nat /\ t \in Int
      /\ \A k \in 1..Len(s) : s[k] \in U /\ rows[s[k]].at \in Int
  BY LineTimes
<1>2. PICK m \in 1..Len(s) : s[m] = x
  <2>1. SUFFICES ASSUME \A m \in 1..Len(s) : s[m] # x PROVE FALSE
    OBVIOUS
  <2>2. {k \in DOMAIN s : s[k] = x} = {}
    BY <1>1, <2>1
  <2> QED BY <2>2, FS_EmptySet DEF Times, Line
<1>3. PICK q \in K : \A y \in K : q <= y
  <2>1. m \in K
    BY <1>2
  <2>2. K \in SUBSET Nat
    OBVIOUS
  <2> HIDE DEF K
  <2> QED BY <2>1, <2>2, LeastNumber
<1>4. q \in 1..Len(s) /\ rows[s[q]].at = t
  BY <1>3
<1>5. ASSUME NEW j \in 1..q - 1 PROVE rows[s[j]].at < t
  <2>1. j \in 1..Len(s) /\ j <= q /\ ~(q <= j)
    BY <1>1, <1>4
  <2>2. rows[s[j]].at <= t /\ rows[s[j]].at \in Int
    BY <1>1, <1>4, <2>1 DEF Sorted
  <2>3. rows[s[j]].at # t
    BY <1>3, <2>1
  <2> HIDE DEF t
  <2> QED BY <1>1, <2>2, <2>3
<1> QED BY <1>4, <1>5

LEMMA LastPlace ==
    ASSUME Table, NEW U, NEW s, NEW c, Line(U, s, c), NEW x \in U
    PROVE  \E m \in 1..Len(s) : rows[s[m]].at = rows[x].at /\ \A j \in m + 1..Len(s) : rows[x].at < rows[s[j]].at
<1> DEFINE t == rows[x].at
           N == Len(s)
           K == {k \in 1..N : \A j \in k + 1..N : t < rows[s[j]].at}
<1>1. /\ Sorted(s) /\ N \in Nat /\ t \in Int
      /\ \A k \in 1..N : s[k] \in U /\ rows[s[k]].at \in Int
  BY LineTimes
<1>2. PICK q \in 1..N : rows[s[q]].at = t
  BY FirstPlace
<1>3. PICK k \in K : \A y \in K : k <= y
  <2>1. N \in K
    BY <1>1, <1>2
  <2>2. K \in SUBSET Nat
    OBVIOUS
  <2> HIDE DEF K
  <2> QED BY <2>1, <2>2, LeastNumber
<1>4. k \in 1..N /\ q <= k /\ \A j \in k + 1..N : t < rows[s[j]].at
  <2>1. k \in 1..N /\ \A j \in k + 1..N : t < rows[s[j]].at
    BY <1>3
  <2>2. ~(t < rows[s[q]].at)
    BY <1>1, <1>2
  <2>3. q \notin k + 1..N
    BY <2>1, <2>2
  <2> QED BY <1>1, <2>1, <2>3
<1>5. rows[s[k]].at = t
  <2>1. t <= rows[s[k]].at
    BY <1>1, <1>2, <1>4 DEF Sorted
  <2>2. rows[s[k]].at <= t
    <3>1. CASE q = k
      BY <1>1, <1>2, <3>1
    <3>2. CASE q # k
      <4>1. k - 1 \in 1..N /\ ~(k <= k - 1)
        BY <1>1, <1>4, <3>2
      <4>2. k - 1 \notin K
        BY <1>3, <4>1
      <4>3. PICK j \in (k - 1) + 1..N : ~(t < rows[s[j]].at)
        BY <4>1, <4>2
      <4>4. j \notin k + 1..N
        BY <1>4, <4>3
      <4>5. j = k
        BY <1>1, <1>4, <4>3, <4>4
      <4>6. rows[s[k]].at \in Int
        BY <1>1, <1>4
      <4> HIDE DEF t
      <4> QED BY <1>1, <4>3, <4>5, <4>6
    <3> QED BY <3>1, <3>2
  <2>3. rows[s[k]].at \in Int
    BY <1>1, <1>4
  <2> HIDE DEF t
  <2> QED BY <1>1, <2>1, <2>2, <2>3
<1> QED BY <1>4, <1>5

LEMMA TimesMore ==
    ASSUME NEW a \in Nat, NEW x \in Nat, NEW y \in Nat, x <= y
    PROVE  a * x <= a * y /\ a * x \in Nat /\ a * y \in Nat
  OBVIOUS

\* All that is counted lies in one set.
LEMMA AllOf ==
    ASSUME NEW S, NEW w \in Seq(S), NEW T, \A q \in 1..Len(w) : w[q] \in T
    PROVE  HowMany(T, w) = Len(w) /\ Denials(w) = HowMany(RefusedAt(rows, T), w) /\ Denials(w) \in Nat
<1>1. DOMAIN w = 1..Len(w) /\ Len(w) \in Nat
  OBVIOUS
<1>2. HowMany(T, w) = Len(w)
  <2>1. {q \in DOMAIN w : w[q] \in T} = 1..Len(w)
    BY <1>1
  <2>2. Cardinality(1..Len(w)) = Len(w)
    <3>1. 1 \in Int /\ Len(w) \in Int
      BY <1>1
    <3>2. Cardinality(1..Len(w)) = IF 1 <= Len(w) THEN Len(w) - 1 + 1 ELSE 0
      BY <3>1, FS_Interval
    <3> QED BY <1>1, <3>2
  <2> QED BY <2>1, <2>2 DEF HowMany
<1>3. {q \in DOMAIN w : w[q] \in RefusedAt(rows, T)} = {q \in DOMAIN w : rows[w[q]].outcome = "deny"}
  BY <1>1 DEF RefusedAt
<1>4. HowMany(RefusedAt(rows, T), w) \in Nat
  BY PositionsFinite
<1> QED BY <1>2, <1>3, <1>4 DEF HowMany, Denials

\* A window above the threshold makes the call it ends with hot.
LEMMA HotCallIs ==
    ASSUME Table, NEW U, NEW s, NEW c, Line(U, s, c), NEW x \in U, NEW q \in 1..Len(s),
           rows[s[q]].at = rows[x].at, \A j \in 1..q - 1 : rows[s[j]].at < rows[x].at, HotAt(s, q)
    PROVE  HotCall(rows, c, U, x)
<1> DEFINE hour == HourAt(rows, U, x)
           early == {i \in hour : rows[i].at < rows[x].at}
           denied == RefusedAt(rows, hour)
<1>1. /\ s \in Seq(U) /\ Sorted(s) /\ Len(s) \in Nat /\ Hour \in Nat /\ rows[x].at \in Int
      /\ (\A k \in 1..Len(s) : s[k] \in U /\ rows[s[k]].at \in Int)
      /\ \A T \in SUBSET U : CountOf(c, T) = HowMany(T, s) /\ HowMany(T, s) \in Nat
  BY LineTimes
<1>2. PICK g \in 1..q : Level(SubSeq(s, g, q)) # None /\ \A p \in g..q : rows[s[q]].at - rows[s[p]].at <= Hour
  BY DEF HotAt
<1> DEFINE w == SubSeq(s, g, q)
           v == SubSeq(s, g, q - 1)
<1>3. q \in Nat /\ g \in Nat /\ g >= 1 /\ g <= q /\ q <= Len(s) /\ q \in 0..Len(s) /\ g \in 1..q + 1
      /\ q - 1 \in 0..Len(s) /\ g \in 1..(q - 1) + 1 /\ g \in 1..Len(s) + 1
  BY <1>1
<1>4. /\ w \in Seq(U) /\ Len(w) = q - g + 1 /\ (\A k \in 1..q - g + 1 : w[k] = s[g + k - 1])
      /\ v \in Seq(U) /\ Len(v) = q - g /\ \A k \in 1..q - g : v[k] = s[g + k - 1]
  <2>1. (q - 1) - g + 1 = q - g
    BY <1>3
  <2>2. /\ v \in Seq(U) /\ Len(v) = (q - 1) - g + 1 /\ \A k \in 1..(q - 1) - g + 1 : v[k] = s[g + k - 1]
    BY <1>1, <1>3, SubSeqIs
  <2> QED BY <1>1, <1>3, <2>1, <2>2, SubSeqIs
<1>5. HowMany(denied, w) <= HowMany(denied, s) /\ HowMany(early, v) <= HowMany(early, s)
  BY <1>1, <1>3, PartIsLess
<1>6. ASSUME NEW p \in g..q PROVE s[p] \in hour
  <2>1. p \in 1..Len(s) /\ p <= q
    BY <1>3
  <2>2. rows[s[p]].at <= rows[s[q]].at /\ rows[s[q]].at - rows[s[p]].at <= Hour
    <3>1. rows[s[p]].at <= rows[s[q]].at
      BY <1>1, <2>1 DEF Sorted
    <3> QED BY <1>2, <3>1
  <2>3. s[p] \in U /\ rows[s[p]].at \in Int
    BY <1>1, <2>1
  <2>4. rows[x].at - Hour <= rows[s[p]].at /\ rows[s[p]].at <= rows[x].at
    BY <1>1, <2>2, <2>3
  <2> QED BY <2>3, <2>4 DEF HourAt, BetweenAt
<1>7. \A k \in 1..Len(w) : w[k] \in hour
  <2>1. ASSUME NEW k \in 1..q - g + 1 PROVE w[k] \in hour
    <3>1. g + k - 1 \in g..q
      BY <1>3
    <3> HIDE DEF w, hour
    <3> QED BY <1>4, <1>6, <3>1
  <2> HIDE DEF w, hour
  <2> QED BY <1>4, <2>1
<1>8. \A k \in 1..Len(v) : v[k] \in early
  <2>1. ASSUME NEW k \in 1..q - g PROVE v[k] \in early
    <3>1. g + k - 1 \in g..q /\ g + k - 1 \in 1..q - 1
      BY <1>3
    <3> HIDE DEF v, hour
    <3>2. s[g + k - 1] \in early
      BY <1>6, <3>1
    <3> QED BY <1>4, <3>2
  <2> HIDE DEF v, early
  <2> QED BY <1>4, <2>1
<1>9. hour \in SUBSET U /\ early \in SUBSET U /\ denied \in SUBSET U
  BY DEF HourAt, BetweenAt, RefusedAt
<1> HIDE DEF w, v, hour, early
<1>10. HowMany(early, v) = Len(v)
  BY <1>4, <1>8, AllOf
<1>11. Denials(w) = HowMany(denied, w) /\ Denials(w) \in Nat
  BY <1>4, <1>7, AllOf
<1> HIDE DEF denied
<1>12. CountOf(c, early) = HowMany(early, s) /\ CountOf(c, denied) = HowMany(denied, s)
       /\ HowMany(early, s) \in Nat /\ HowMany(denied, s) \in Nat
  BY <1>1, <1>9
<1>13. ~(Len(w) < MinRequests) /\ ~(100 * Denials(w) < Medium * Len(w))
  BY <1>2, NoneAssumption DEF Level, w
<1>14. MinRequests \in Nat /\ Medium \in Nat /\ Len(w) \in Nat
  BY <1>4, ReadAssumption
<1>15. CountOf(c, early) + 1 >= MinRequests
  BY <1>3, <1>4, <1>5, <1>10, <1>12, <1>13, <1>14
<1>16. 100 * CountOf(c, denied) >= Medium * MinRequests
  <2>1. Medium * MinRequests <= Medium * Len(w) /\ Medium * MinRequests \in Nat /\ Medium * Len(w) \in Nat
    BY <1>13, <1>14, TimesMore
  <2> DEFINE a == Medium * MinRequests
             b == Medium * Len(w)
  <2>2. ~(100 * Denials(w) < b) /\ a <= b /\ a \in Nat /\ b \in Nat
    BY <1>13, <2>1
  <2> HIDE DEF a, b
  <2>3. 100 * CountOf(c, denied) >= a
    BY <1>5, <1>11, <1>12, <2>2
  <2> QED BY <2>3 DEF a
<1> QED BY <1>15, <1>16 DEF HotCall, hour, early, denied

\* Places above the threshold make a streak of the calls between them.
LEMMA StreakIs ==
    ASSUME Table, NEW U, NEW s, NEW c, Line(U, s, c), NEW i \in 1..Len(s), NEW j \in 1..Len(s),
           \A q \in 1..Len(s) : i < q /\ q <= j => HotAt(s, q)
    PROVE  StreakAt(rows, c, U, rows[s[i]].at, rows[s[j]].at)
<1>1. SUFFICES ASSUME NEW x \in U, rows[s[i]].at <= rows[x].at, rows[x].at <= rows[s[j]].at, rows[x].at # rows[s[i]].at
               PROVE  HotCall(rows, c, U, x)
  BY DEF StreakAt, BetweenAt
<1>2. PICK q \in 1..Len(s) : rows[s[q]].at = rows[x].at /\ \A p \in 1..q - 1 : rows[s[p]].at < rows[x].at
  BY FirstPlace
<1>3. /\ Len(s) \in Nat /\ rows[s[i]].at \in Int /\ rows[s[j]].at \in Int /\ rows[s[q]].at \in Int
      /\ \A k, n \in 1..Len(s) : k <= n => rows[s[k]].at <= rows[s[n]].at
  BY LineTimes DEF Sorted
<1>4. i < q
  <2>1. SUFFICES ASSUME q <= i PROVE FALSE
    BY <1>3
  <2>2. rows[s[q]].at <= rows[s[i]].at
    BY <1>3, <2>1
  <2> QED BY <1>1, <1>2, <1>3, <2>2
<1>5. q <= j
  <2>1. SUFFICES ASSUME j \in 1..q - 1 PROVE FALSE
    BY <1>3
  <2>2. rows[s[j]].at < rows[x].at
    BY <1>2, <2>1
  <2> QED BY <1>1, <1>2, <1>3, <2>2
<1>6. HotAt(s, q)
  BY <1>4, <1>5
<1> QED BY <1>2, <1>6, HotCallIs

\* The end of one window is one streak with event j.
LEMMA NearIs ==
    ASSUME Table, NEW U, NEW s, NEW c, Line(U, s, c), NEW b \in 1..Len(s), NEW j \in 1..Len(s),
           \A q \in 1..Len(s) : (b < q /\ q <= j) \/ (j < q /\ q <= b) => HotAt(s, q),
           NEW f, f[Len(f)] = s[b],
           NEW last \in U, rows[last].at - 2 * Hour <= rows[s[j]].at, rows[s[j]].at <= rows[last].at
    PROVE  NearAt(rows, c, U, f, last)
<1>1. s[j] \in U
  BY LineTimes
<1>2. StreakAt(rows, c, U, rows[s[b]].at, rows[s[j]].at) /\ StreakAt(rows, c, U, rows[s[j]].at, rows[s[b]].at)
  BY StreakIs
<1> QED BY <1>1, <1>2 DEF NearAt, BetweenAt

\* A window that has all of a busy hour, and nothing else, is above the threshold.
LEMMA BusyIsHot ==
    ASSUME Table, NEW U, NEW s, NEW c, Line(U, s, c), NEW last \in U, BusyAt(rows, c, U, last),
           NEW m \in 1..Len(s), rows[s[m]].at = rows[last].at, \A j \in m + 1..Len(s) : rows[last].at < rows[s[j]].at,
           NEW h \in 1..m, \A p \in h..m : rows[s[m]].at - rows[s[p]].at <= Hour,
           \A p \in 1..h - 1 : ~(rows[s[m]].at - rows[s[p]].at <= Hour)
    PROVE  Level(SubSeq(s, h, m)) # None
<1> DEFINE hour == HourAt(rows, U, last)
           denied == RefusedAt(rows, hour)
           N == Len(s)
           w == SubSeq(s, h, m)
           p == SubSeq(s, 1, h - 1)
           r == SubSeq(s, m + 1, N)
<1>1. /\ s \in Seq(U) /\ Sorted(s) /\ N \in Nat /\ Hour \in Nat /\ rows[last].at \in Int
      /\ (\A k \in 1..N : s[k] \in U /\ rows[s[k]].at \in Int)
      /\ \A T \in SUBSET U : CountOf(c, T) = HowMany(T, s) /\ HowMany(T, s) \in Nat
  BY LineTimes
<1>2. m \in Nat /\ m <= N /\ h \in Nat /\ h >= 1 /\ h <= m /\ h \in 1..N + 1 /\ m \in 0..N /\ h <= m + 1
      /\ h \in 1..m + 1 /\ h - 1 \in 0..N /\ 1 \in 1..(h - 1) + 1 /\ N \in 0..N /\ m + 1 \in 1..N + 1
  BY <1>1
<1>3. /\ w \in Seq(U) /\ Len(w) = m - h + 1 /\ (\A k \in 1..m - h + 1 : w[k] = s[h + k - 1])
      /\ p \in Seq(U) /\ Len(p) = h - 1 /\ (\A k \in 1..h - 1 : p[k] = s[k])
      /\ r \in Seq(U) /\ Len(r) = N - m /\ \A k \in 1..N - m : r[k] = s[m + k]
  <2>1. w \in Seq(U) /\ Len(w) = m - h + 1 /\ (\A k \in 1..m - h + 1 : w[k] = s[h + k - 1])
    BY <1>1, <1>2, SubSeqIs
  <2>2. p \in Seq(U) /\ Len(p) = h - 1 /\ (\A k \in 1..h - 1 : p[k] = s[k])
    BY <1>1, <1>2
  <2>3. r \in Seq(U) /\ Len(r) = N - m /\ \A k \in 1..N - m : r[k] = s[m + k]
    BY <1>1, <1>2
  <2> QED BY <2>1, <2>2, <2>3
<1>4. \A T : /\ HowMany(T, s) = HowMany(T, p) + HowMany(T, w) + HowMany(T, r)
             /\ HowMany(T, p) \in Nat /\ HowMany(T, w) \in Nat /\ HowMany(T, r) \in Nat
  <2>1. ASSUME NEW T
        PROVE  /\ HowMany(T, s) = HowMany(T, p) + HowMany(T, w) + HowMany(T, r)
               /\ HowMany(T, p) \in Nat /\ HowMany(T, w) \in Nat /\ HowMany(T, r) \in Nat
    <3>1. s \in Seq(U) /\ h \in 1..Len(s) + 1 /\ m \in 0..Len(s) /\ h <= m + 1
      BY <1>1, <1>2
    <3> QED BY ONLY <3>1, PartsAddUp
  <2> QED BY <2>1
<1> HIDE DEF w, p, r
<1>5. \A k \in 1..Len(w) : w[k] \in hour
  <2>1. ASSUME NEW k \in 1..m - h + 1 PROVE w[k] \in hour
    <3>1. h + k - 1 \in h..m /\ h + k - 1 \in 1..N /\ h + k - 1 <= m
      BY <1>2
    <3> DEFINE i == s[h + k - 1]
    <3>2. i \in U /\ rows[i].at \in Int /\ rows[i].at <= rows[s[m]].at /\ rows[s[m]].at - rows[i].at <= Hour
      BY <1>1, <3>1 DEF Sorted
    <3> HIDE DEF i
    <3>3. rows[last].at - Hour <= rows[i].at /\ rows[i].at <= rows[last].at
      BY <1>1, <3>2
    <3>4. i \in hour
      BY <3>2, <3>3 DEF HourAt, BetweenAt
    <3> QED BY <1>3, <3>4 DEF i
  <2> HIDE DEF hour
  <2> QED BY <1>3, <2>1
<1>6. (\A k \in 1..Len(p) : p[k] \notin hour) /\ \A k \in 1..Len(r) : r[k] \notin hour
  <2>1. ASSUME NEW k \in 1..h - 1 PROVE p[k] \notin hour
    <3>1. k \in 1..N /\ p[k] = s[k]
      BY <1>2, <1>3
    <3>2. rows[s[k]].at \in Int /\ ~(rows[s[m]].at - rows[s[k]].at <= Hour)
      BY <1>1, <3>1
    <3>3. ~(rows[last].at - Hour <= rows[s[k]].at)
      BY <1>1, <3>2
    <3> QED BY <3>1, <3>3 DEF HourAt, BetweenAt
  <2>2. ASSUME NEW k \in 1..N - m PROVE r[k] \notin hour
    <3>1. m + k \in m + 1..N /\ m + k \in 1..N /\ r[k] = s[m + k]
      BY <1>2, <1>3
    <3>2. rows[s[m + k]].at \in Int /\ rows[last].at < rows[s[m + k]].at
      BY <1>1, <3>1
    <3>3. ~(rows[s[m + k]].at <= rows[last].at)
      BY <1>1, <3>2
    <3> QED BY <3>1, <3>3 DEF HourAt, BetweenAt
  <2> HIDE DEF hour
  <2> QED BY <1>3, <2>1, <2>2
<1>7. hour \in SUBSET U /\ denied \in SUBSET U /\ denied \subseteq hour
  BY DEF HourAt, BetweenAt, RefusedAt
<1>8. BusyAt(rows, c, U, last)
  OBVIOUS
<1>9. CountOf(c, hour) >= MinRequests /\ 100 * CountOf(c, denied) >= Medium * CountOf(c, hour)
  BY <1>8 DEF BusyAt
<1> HIDE DEF hour
<1>10. HowMany(hour, w) = Len(w) /\ Denials(w) = HowMany(denied, w) /\ Denials(w) \in Nat
  BY <1>3, <1>5, AllOf
<1> HIDE DEF denied
<1>11. ASSUME NEW T, T \subseteq hour PROVE HowMany(T, p) = 0 /\ HowMany(T, r) = 0
  <2>1. {k \in DOMAIN p : p[k] \in T} = {} /\ {k \in DOMAIN r : r[k] \in T} = {}
    BY <1>3, <1>6, <1>11
  <2> QED BY <2>1, FS_EmptySet DEF HowMany
<1>12. ASSUME NEW T \in SUBSET U, T \subseteq hour PROVE CountOf(c, T) = HowMany(T, w)
  <2>1. CountOf(c, T) = HowMany(T, s) /\ HowMany(T, p) = 0 /\ HowMany(T, r) = 0
    BY <1>1, <1>11, <1>12
  <2>2. HowMany(T, s) = HowMany(T, p) + HowMany(T, w) + HowMany(T, r) /\ HowMany(T, w) \in Nat
    BY <1>4
  <2> QED BY <2>1, <2>2
<1>13. CountOf(c, hour) = Len(w) /\ CountOf(c, denied) = Denials(w) /\ Len(w) \in Nat
  BY <1>3, <1>7, <1>10, <1>12
<1>14. MinRequests \in Nat /\ Medium \in Nat /\ Medium * Len(w) \in Nat
  BY <1>13, ReadAssumption
<1> DEFINE a == 100 * Denials(w)
           b == Medium * Len(w)
<1>15. Len(w) >= MinRequests /\ a >= b /\ a \in Nat /\ b \in Nat
  BY <1>9, <1>10, <1>13, <1>14
<1> HIDE DEF a, b
<1>16. ~(Len(w) < MinRequests) /\ ~(a < b)
  BY <1>13, <1>14, <1>15
<1>17. None # "high" /\ None # "medium"
  BY NoneAssumption
<1> QED BY <1>16, <1>17 DEF Level, a, b, w

\* A busy hour is near a burst that is found.
LEMMA BusyIsNear ==
    ASSUME Table, NEW U, NEW s, NEW c, Line(U, s, c), NEW last \in U, BusyAt(rows, c, U, last)
    PROVE  \E f \in DOMAIN Bursts(s) : NearAt(rows, c, U, Bursts(s)[f], last)
<1> DEFINE t == rows[last].at
           acc(k) == Scan(s)[k]
<1>1. /\ s \in Seq(Ids) /\ Sorted(s) /\ Len(s) \in Nat /\ Hour \in Nat /\ t \in Int
      /\ \A k \in 1..Len(s) : s[k] \in U /\ rows[s[k]].at \in Int
  BY LineTimes
<1>2. PICK m \in 1..Len(s) : rows[s[m]].at = t /\ \A j \in m + 1..Len(s) : t < rows[s[j]].at
  BY LastPlace
<1>3. m - 1 \in 0..Len(s) /\ m \in 0..Len(s) /\ m # 0 /\ m \in Nat
  BY <1>1
<1>4. Held(s, m - 1, acc(m - 1)) /\ Held(s, m, acc(m)) /\ Once(Ids, s, m - 1, acc(m - 1))
  BY <1>1, <1>3, ScanHolds, ScanOnce
<1>5. acc(m) = Slide(acc(m - 1), s[m])
  BY <1>1, <1>3, ScanIs DEF ScanStep
<1>6. /\ Keeps(acc(m - 1).found, Bursts(s))
      /\ Reached(s, m, m, acc(m)) => \E f \in DOMAIN Bursts(s) : Linked(s, Bursts(s)[f], m)
  BY <1>1, ScanKept
<1> HIDE DEF acc
<1>7. PICK h \in 1..m : View(s, m, acc(m - 1), h)
  BY <1>1, <1>4, SlideViews
<1> DEFINE w == SubSeq(s, h, m)
<1>8. /\ LastHour(Append(acc(m - 1).window, s[m])) = w
      /\ \A p \in h..m : rows[s[m]].at - rows[s[p]].at <= Hour
      /\ \A p \in 1..h - 1 : Gone(s, acc(m - 1).found, p, m)
  BY <1>7 DEF View
<1>9. CASE \A p \in 1..h - 1 : ~(rows[s[m]].at - rows[s[p]].at <= Hour)
  <2>1. Level(w) # None
    BY <1>2, <1>8, <1>9, BusyIsHot
  <2>2. w # << >>
    <3>1. Len(w) = m - h + 1 /\ m - h + 1 # 0
      <4>1. m \in 0..Len(s) /\ h \in 1..m + 1
        BY <1>1, <1>3
      <4> QED BY <1>1, <1>3, <4>1, SubSeqIs
    <3> QED BY <3>1
  <2> HIDE DEF w
  <2>3. acc(m).best # << >>
    <3>1. acc(m - 1) = [window |-> acc(m - 1).window, best |-> acc(m - 1).best, found |-> acc(m - 1).found]
      BY <1>4 DEF Once
    <3>2. acc(m).best = w \/ (acc(m).best = acc(m - 1).best /\ acc(m - 1).best # << >>)
      BY <1>5, <1>8, <2>1, <3>1 DEF Slide
    <3> QED BY <2>2, <3>2
  <2>4. PICK b \in 1..m : Trail(s, acc(m).best, b, m)
    BY <1>4, <2>3 DEF Held
  <2>5. Linked(s, acc(m).best, m)
    BY <1>1, <2>4, TrailLinks
  <2>6. m + 1..m = {}
    BY <1>3
  <2>7. Reached(s, m, m, acc(m))
    BY <2>3, <2>5, <2>6 DEF Reached
  <2>8. PICK f \in DOMAIN Bursts(s) : Linked(s, Bursts(s)[f], m)
    BY <1>6, <2>7
  <2> DEFINE g == Bursts(s)[f]
  <2>9. PICK e \in 1..Len(s) :
           g[Len(g)] = s[e] /\ \A q \in 1..Len(s) : (e < q /\ q <= m) \/ (m < q /\ q <= e) => HotAt(s, q)
    BY <2>8 DEF Linked
  <2>10. t - 2 * Hour <= rows[s[m]].at /\ rows[s[m]].at <= t
    BY <1>1, <1>2
  <2> HIDE DEF g
  <2>11. NearAt(rows, c, U, g, last)
    BY <2>9, <2>10, NearIs
  <2> QED BY <2>11 DEF g
<1>10. CASE \E p \in 1..h - 1 : rows[s[m]].at - rows[s[p]].at <= Hour
  <2>1. PICK p \in 1..h - 1 : rows[s[m]].at - rows[s[p]].at <= Hour
    BY <1>10
  <2> DEFINE F == acc(m - 1).found
  <2>2. PICK f \in DOMAIN F, b \in 1..m, j \in 1..m :
           Trail(s, F[f], b, j) /\ rows[s[p]].at - Hour <= rows[s[j]].at
    BY <1>8, <2>1 DEF Gone
  <2>3. p \in 1..Len(s) /\ j \in 1..Len(s) /\ b \in 1..Len(s) /\ j <= m
    BY <1>1, <1>3
  <2>4. f \in DOMAIN Bursts(s) /\ Bursts(s)[f] = F[f]
    BY <1>6, <2>2 DEF Keeps
  <2> HIDE DEF F
  <2>5. b <= j /\ F[f][Len(F[f])] = s[b] /\ \A q \in b + 1..j : HotAt(s, q)
    BY <2>2 DEF Trail
  <2>6. t - 2 * Hour <= rows[s[j]].at /\ rows[s[j]].at <= t
    <3>1. rows[s[j]].at <= rows[s[m]].at
      BY <1>1, <2>3 DEF Sorted
    <3>2. rows[s[j]].at \in Int /\ rows[s[p]].at \in Int
      BY <1>1, <2>3
    <3> HIDE DEF t
    <3> QED BY <1>1, <1>2, <2>1, <2>2, <3>1, <3>2
  <2>7. \A q \in 1..Len(s) : (b < q /\ q <= j) \/ (j < q /\ q <= b) => HotAt(s, q)
    <3>1. ASSUME NEW q \in 1..Len(s), (b < q /\ q <= j) \/ (j < q /\ q <= b) PROVE q \in b + 1..j
      BY <1>1, <2>3, <2>5, <3>1
    <3> QED BY <2>5, <3>1
  <2>8. NearAt(rows, c, U, F[f], last)
    BY <2>3, <2>5, <2>6, <2>7, NearIs
  <2> QED BY <2>4, <2>8
<1> QED BY <1>9, <1>10

\* What the search says of one user: the events U of S, in the order of line.
LEMMA LineFacts ==
    ASSUME Table, NEW S \in SUBSET Ids, NEW U \in SUBSET S, NEW line \in Timelines(U),
           NEW b, b = Bursts(line), NEW c, \A i \in S : c[i] = copies[i]
    PROVE  FoundAt(rows, c, U, b) /\ \A i \in S : Times(i, FlattenSeq(b)) <= c[i]
<1>1. U \in SUBSET Ids
  OBVIOUS
<1>2. /\ line \in [1..RowCount(U) -> U] /\ \A i \in U : Times(i, line) = copies[i]
      /\ \A j, k \in DOMAIN line : j < k => rows[line[j]].at <= rows[line[k]].at
  BY DEF Timelines
<1>3. RowCount(U) \in Nat
  BY <1>1, CopiesCount
<1>4. line \in Seq(U) /\ Len(line) \in Nat /\ DOMAIN line = 1..Len(line) /\ \A k \in 1..Len(line) : line[k] \in U
  <2>1. line \in Seq(U)
    BY <1>2, <1>3
  <2> QED BY <2>1
<1>5. Sorted(line)
  <2>1. SUFFICES ASSUME NEW j \in 1..Len(line), NEW k \in 1..Len(line), j <= k PROVE rows[line[j]].at <= rows[line[k]].at
    BY DEF Sorted
  <2>2. CASE j = k
    <3>1. rows[line[j]].at \in Int
      BY <1>1, <1>4, IdFacts
    <3> QED BY <2>2, <3>1
  <2>3. CASE j # k
    BY <1>2, <1>4, <2>1, <2>3
  <2> QED BY <2>2, <2>3
<1>6. Line(U, line, c)
  <2>1. \A i \in U : copies[i] # 0 /\ c[i] = copies[i]
    BY <1>1, IdFacts
  <2> QED BY <1>1, <1>2, <1>4, <1>5, <2>1 DEF Line
<1>7. b \in Seq(Seq(U)) /\ \A i : Times(i, FlattenSeq(b)) <= Times(i, line)
  BY <1>1, <1>4, BurstsOnce
<1>8. ASSUME NEW i \in S PROVE Times(i, FlattenSeq(b)) <= c[i]
  <2>1. copies[i] \in {1, 2} /\ c[i] = copies[i]
    BY IdFacts
  <2>2. Times(i, FlattenSeq(b)) <= Times(i, line)
    BY <1>7
  <2>3. CASE i \in U
    BY <1>2, <2>1, <2>2, <2>3
  <2>4. CASE i \notin U
    <3>1. {k \in DOMAIN line : line[k] = i} = {}
      BY <1>4, <2>4
    <3>2. Times(i, line) = 0
      BY <3>1, FS_EmptySet DEF Times
    <3>3. FlattenSeq(b) \in Seq(U)
      BY <1>7, FlattenAppend, AppendIs
    <3>4. Times(i, FlattenSeq(b)) \in Nat
      BY <3>3, PositionsFinite, TimesIs
    <3> QED BY <2>1, <2>2, <3>2, <3>4
  <2> QED BY <2>3, <2>4
<1>9. FoundAt(rows, c, U, b)
  BY <1>6, BusyIsNear DEF FoundAt
<1> QED BY <1>8, <1>9

\* The answer q to a search of table r.
AnswerAt(r, q) ==
    q.kind = "anomalies" /\ q.found # None =>
        \A u \in q.users :
            /\ FoundAt(r, q.seen, {i \in DOMAIN q.seen : r[i].user = u}, q.found[u])
            /\ \A i \in DOMAIN q.seen : Times(i, FlattenSeq(q.found[u])) <= q.seen[i]

LEMMA AnswerIs == BurstsFound <=> AnswerAt(rows, read)
<1>1. \A u : Calls(u) = {i \in DOMAIN read.seen : rows[i].user = u}
  BY DEF Calls
<1>2. \A a, b, T : Between(a, b, T) = BetweenAt(rows, a, b, T)
  BY DEF Between, BetweenAt
<1>3. \A T : Refused(T) = RefusedAt(rows, T)
  BY DEF Refused, RefusedAt
<1>4. \A T, x : Busy(T, x) <=> BusyAt(rows, read.seen, T, x)
  BY <1>2, <1>3 DEF Busy, BusyAt, HourAt
<1>5. \A T, x : Hot(T, x) <=> HotCall(rows, read.seen, T, x)
  BY <1>2, <1>3 DEF Hot, HotCall, HourAt
<1>6. \A T, a, b : Streak(T, a, b) <=> StreakAt(rows, read.seen, T, a, b)
  BY <1>2, <1>5 DEF Streak, StreakAt
<1>7. ASSUME NEW T, NEW B
      PROVE  FoundAt(rows, read.seen, T, B) <=>
                 \A last \in {c \in T : Busy(T, c)} :
                     \E k \in DOMAIN B, c \in Between(rows[last].at - 2 * Hour, rows[last].at, T) :
                         LET e == End(B[k]) IN
                         Streak(T, e, rows[c].at) /\ Streak(T, rows[c].at, e)
  BY <1>2, <1>4, <1>6 DEF FoundAt, NearAt, End
<1> QED BY <1>1, <1>7 DEF BurstsFound, AnswerAt

-----------------------------------------------------------------------------
(* The invariant.                                                          *)

\* All the ways to add up the groups of the first scan give n.
AddsUp(G, n) ==
    /\ Total({g \in {x \in G : x.dim = None} : g.outcome = None}) = n
    /\ Total({g \in {x \in G : x.dim = None} : g.outcome # None}) = n
    /\ \A dim \in Dims : Total({x \in G : x.dim = dim}) = n

\* Until the second scan the slice has at least the rows of the first.
SummaryRead ==
    /\ read = [kind |-> "summary", range |-> read.range, scope |-> read.scope, role |-> read.role,
               merged |-> read.merged, groups |-> read.groups, byRole |-> read.byRole]
    /\ read.role \in RoleFilters
    /\ \E n \in Nat :
           /\ AddsUp(read.groups, n)
           /\ ~read.merged /\ read.byRole = None => n <= AskedOf(rows, copies, read.scope, read.role)
           /\ ~read.merged /\ read.byRole # None =>
                  /\ CountOf(read.byRole, DOMAIN read.byRole) >= n
                  /\ read.role \in Roles => DOMAIN read.byRole = {read.role}

\* An event that was there from the start and is not loaded is not before the offset.
FeedRead ==
    /\ read = [kind |-> "feed", scope |-> read.scope, merged |-> read.merged, first |-> read.first,
               ids |-> read.ids, more |-> read.more]
    /\ read.ids \in Seq(Ids) /\ read.first \subseteq Ids
    /\ ~read.merged =>
           /\ read.more => \A i \in read.first :
                  rows[i].at >= clock - Window => i \in ToSet(read.ids) \/ Len(read.ids) <= AheadOf(rows, copies, i)
           /\ ~read.more => {i \in read.first : InScope(i, read.scope)} \subseteq ToSet(read.ids)

AnomalyRead ==
    /\ read = [kind |-> "anomalies", scope |-> read.scope, merged |-> read.merged, users |-> read.users,
               seen |-> read.seen, found |-> read.found]
    /\ AnswerAt(rows, read)

ReadInv == Table /\ (read = Idle \/ SummaryRead \/ FeedRead \/ AnomalyRead)

LEMMA Kinds ==
    /\ read = Idle => read.kind = "none"
    /\ SummaryRead => read.kind = "summary"
    /\ FeedRead => read.kind = "feed"
    /\ AnomalyRead => read.kind = "anomalies"
<1>1. read = Idle => read.kind = "none"
  BY DEF Idle
<1>2. SummaryRead => read.kind = "summary"
  BY DEF SummaryRead
<1>3. FeedRead => read.kind = "feed"
  BY DEF FeedRead
<1>4. AnomalyRead => read.kind = "anomalies"
  BY DEF AnomalyRead
<1> QED BY <1>1, <1>2, <1>3, <1>4

\* The invariant has the properties.
LEMMA ReadInvImplies == ReadInv => SummaryAddsUp /\ NoneSkipped /\ BurstsFound
<1> SUFFICES ASSUME ReadInv PROVE SummaryAddsUp /\ NoneSkipped /\ BurstsFound
  OBVIOUS
<1>1. SummaryAddsUp
  <2>1. SUFFICES ASSUME read.kind = "summary" PROVE SummaryAddsUp
    BY DEF SummaryAddsUp
  <2>2. SummaryRead
    BY <2>1, Kinds DEF ReadInv
  <2>3. PICK n \in Nat :
           /\ AddsUp(read.groups, n)
           /\ ~read.merged /\ read.byRole # None =>
                  /\ CountOf(read.byRole, DOMAIN read.byRole) >= n
                  /\ read.role \in Roles => DOMAIN read.byRole = {read.role}
    BY <2>2 DEF SummaryRead
  <2>4. Grand = n /\ Total({g \in Dim(None) : g.outcome # None}) = n
        /\ \A dim \in Dims : Total(Dim(dim)) = n
    BY <2>3 DEF AddsUp, Grand, Dim
  <2> QED BY <2>3, <2>4 DEF SummaryAddsUp, Dims
<1>2. NoneSkipped
  <2>1. SUFFICES ASSUME read.kind = "feed" PROVE NoneSkipped
    BY DEF NoneSkipped
  <2>2. FeedRead
    BY <2>1, Kinds DEF ReadInv
  <2> QED BY <2>2 DEF FeedRead, NoneSkipped
<1>3. BurstsFound
  <2>1. CASE read.kind = "anomalies"
    BY <2>1, Kinds, AnswerIs DEF ReadInv, AnomalyRead
  <2>2. CASE read.kind # "anomalies"
    BY <2>2 DEF BurstsFound
  <2> QED BY <2>1, <2>2
<1> QED BY <1>1, <1>2, <1>3

LEMMA InitInv == Init => ReadInv
  BY ReadAssumption DEF Init, ReadInv, Table

\* Nothing but the table changes, and that grows: what is under way stays sound.
LEMMA GrowthKeeps ==
    ASSUME ReadInv, ~Answered, Grows, read' = read, clock' \in Int, clock <= clock'
    PROVE  ReadInv'
<1>1. Table /\ Table'
  BY DEF Grows
<1>2. CASE read = Idle
  BY <1>1, <1>2 DEF ReadInv, Idle
<1>3. CASE SummaryRead
  <2>1. read.byRole = None
    BY <1>3, Kinds DEF Answered
  <2>2. PICK n \in Nat : /\ AddsUp(read.groups, n)
                         /\ ~read.merged => n <= AskedOf(rows, copies, read.scope, read.role)
    BY <1>3, <2>1 DEF SummaryRead
  <2>3. ~read.merged => n <= AskedOf(rows', copies', read.scope, read.role)
    <3> DEFINE a == AskedOf(rows, copies, read.scope, read.role)
               b == AskedOf(rows', copies', read.scope, read.role)
    <3>1. a <= b /\ a \in Nat /\ b \in Nat
      BY AskedGrows
    <3> HIDE DEF a, b
    <3>2. ~read.merged => n <= a
      BY <2>2 DEF a
    <3>3. ~read.merged => n <= b
      BY <3>1, <3>2
    <3> QED BY <3>3 DEF b
  <2>4. SummaryRead'
    BY <1>3, <2>1, <2>2, <2>3 DEF SummaryRead
  <2> QED BY <1>1, <2>4 DEF ReadInv
<1>4. CASE FeedRead
  <2>1. read.more
    BY <1>4, Kinds DEF Answered
  <2>2. read.ids \in Seq(Ids') /\ read.first \subseteq Ids'
    BY <1>4 DEF FeedRead, Grows
  <2>3. ASSUME ~read.merged, NEW i \in read.first, rows'[i].at >= clock' - Window
        PROVE  i \in ToSet(read.ids) \/ Len(read.ids) <= AheadOf(rows', copies', i)
    <3>1. i \in Ids /\ rows'[i] = rows[i]
      BY <1>4 DEF FeedRead, Grows
    <3>2. rows[i].at \in Int /\ clock \in Int /\ Window \in Nat
      BY <1>1, <3>1, IdFacts, ReadAssumption DEF Table
    <3>3. rows[i].at >= clock - Window
      BY <2>3, <3>1, <3>2
    <3>4. i \in ToSet(read.ids) \/ Len(read.ids) <= AheadOf(rows, copies, i)
      BY <1>4, <2>1, <2>3, <3>3 DEF FeedRead
    <3>5. /\ AheadOf(rows, copies, i) <= AheadOf(rows', copies', i)
          /\ AheadOf(rows, copies, i) \in Nat /\ AheadOf(rows', copies', i) \in Nat
      BY <3>1, AheadGrows
    <3>6. Len(read.ids) \in Nat
      BY <2>2
    <3> QED BY <3>4, <3>5, <3>6
  <2>4. FeedRead'
    BY <1>4, <2>1, <2>2, <2>3 DEF FeedRead
  <2> QED BY <1>1, <2>4 DEF ReadInv
<1>5. CASE AnomalyRead
  <2>1. read.found = None
    BY <1>5, Kinds DEF Answered
  <2>2. AnswerAt(rows', read')
    BY <2>1 DEF AnswerAt
  <2>3. AnomalyRead'
    BY <1>5, <2>2 DEF AnomalyRead, AnswerAt
  <2> QED BY <1>1, <2>3 DEF ReadInv
<1> QED BY <1>2, <1>3, <1>4, <1>5 DEF ReadInv

LEMMA WritesKeep == ASSUME ReadInv, ~Answered, Writes PROVE ReadInv'
<1>1. Table /\ clock \in Int
  BY DEF ReadInv, Table
<1>2. ASSUME NEW at \in 0..MaxClock + Skew + 1, NEW sample \in Samples, Insert(at, sample) PROVE ReadInv'
  <2>1. at \in Int
    BY <1>2
  <2>2. Grows /\ read' = read /\ clock' = clock
    BY <1>1, <1>2, <2>1, InsertGrows
  <2> QED BY <1>1, <2>2, GrowthKeeps
<1>3. ASSUME NEW i \in Ids, Retry(i) PROVE ReadInv'
  <2>1. Grows /\ read' = read /\ clock' = clock
    BY <1>1, <1>3, RetryGrows
  <2> QED BY <1>1, <2>1, GrowthKeeps
<1>4. ASSUME NEW i \in Ids, Merge(i) PROVE ReadInv'
  <2>1. Table' /\ rows' = rows /\ clock' = clock
    BY <1>1, <1>4, MergeKeeps
  <2>2. read' = IF read = Idle THEN Idle ELSE [read EXCEPT !.merged = TRUE]
    BY <1>4 DEF Merge
  <2>3. CASE read = Idle
    BY <2>1, <2>2, <2>3 DEF ReadInv, Idle
  <2>4. CASE SummaryRead
    <3>1. read' = [kind |-> "summary", range |-> read.range, scope |-> read.scope, role |-> read.role,
                   merged |-> TRUE, groups |-> read.groups, byRole |-> read.byRole]
      BY <2>2, <2>4, Kinds DEF SummaryRead, Idle
    <3>2. SummaryRead'
      BY <2>4, <3>1 DEF SummaryRead
    <3> QED BY <2>1, <3>2 DEF ReadInv
  <2>5. CASE FeedRead
    <3>1. read' = [kind |-> "feed", scope |-> read.scope, merged |-> TRUE, first |-> read.first,
                   ids |-> read.ids, more |-> read.more]
      BY <2>2, <2>5, Kinds DEF FeedRead, Idle
    <3>2. FeedRead'
      BY <2>1, <2>5, <3>1 DEF FeedRead, Ids
    <3> QED BY <2>1, <3>2 DEF ReadInv
  <2>6. CASE AnomalyRead
    <3>1. read' = [kind |-> "anomalies", scope |-> read.scope, merged |-> TRUE, users |-> read.users,
                   seen |-> read.seen, found |-> read.found]
      BY <2>2, <2>6, Kinds DEF AnomalyRead, Idle
    <3>2. read'.found = None
      BY <2>6, <3>1, Kinds DEF Answered
    <3>3. AnswerAt(rows', read')
      BY <3>2 DEF AnswerAt
    <3>4. AnomalyRead'
      BY <3>1, <3>3 DEF AnomalyRead, AnswerAt
    <3> QED BY <2>1, <3>4 DEF ReadInv
  <2> QED BY <2>3, <2>4, <2>5, <2>6 DEF ReadInv
<1>5. ASSUME Tick PROVE ReadInv'
  <2>1. clock' = clock + 1 /\ rows' = rows /\ copies' = copies /\ read' = read
    BY <1>5 DEF Tick
  <2>2. Table' /\ Ids' = Ids
    BY <1>1, <2>1 DEF Table, Ids
  <2>3. \A i \in Ids : copies[i] <= copies'[i]
    BY <1>1, <2>1, IdFacts
  <2>4. Grows
    BY <1>1, <2>1, <2>2, <2>3 DEF Grows
  <2> QED BY <1>1, <2>1, <2>4, GrowthKeeps
<1> QED BY <1>2, <1>3, <1>4, <1>5 DEF Writes

LEMMA TableKeeps == ASSUME Table, UNCHANGED <<rows, copies, clock>> PROVE Table' /\ Ids' = Ids
  BY DEF Table, Ids

LEMMA AskSummaryKeeps ==
    ASSUME ReadInv, NEW role \in RoleFilters, NEW range, AskSummary(role, range)
    PROVE  ReadInv'
<1> DEFINE scope == Scoped(range)
           S == Slice(scope, role)
<1>1. Table /\ UNCHANGED <<rows, copies, clock>>
  BY DEF ReadInv, AskSummary
<1>2. read' = [kind |-> "summary", range |-> range, scope |-> scope, role |-> role, merged |-> FALSE,
               groups |-> Grouped(S), byRole |-> None]
  BY DEF AskSummary
<1>3. S \in SUBSET Ids /\ S = SliceOf(rows, scope, role)
  BY SliceIn, SliceIs
<1> HIDE DEF scope, S
<1>4. AddsUp(Grouped(S), RowCount(S)) /\ RowCount(S) \in Nat
  BY <1>1, <1>3, GroupedAddsUp, CopiesCount DEF AddsUp
<1>5. RowCount(S) = AskedOf(rows, copies, scope, role)
  BY <1>3 DEF AskedOf, RowCount
<1>6. AddsUp(read'.groups, RowCount(S)) /\ RowCount(S) <= AskedOf(rows', copies', read'.scope, read'.role)
  BY <1>1, <1>2, <1>4, <1>5
<1>7. SummaryRead'
  BY <1>2, <1>4, <1>6 DEF SummaryRead
<1> QED BY <1>1, <1>7, TableKeeps DEF ReadInv

LEMMA RoleScanKeeps == ASSUME ReadInv, RoleScan PROVE ReadInv'
<1> DEFINE scope == read.scope
           role == read.role
           S == Slice(scope, role)
           b == ByRole(S, role)
<1>1. Table /\ UNCHANGED <<rows, copies, clock>>
  BY DEF ReadInv, RoleScan
<1>2. SummaryRead /\ read.byRole = None
  BY Kinds DEF ReadInv, RoleScan
<1>3. read' = [read EXCEPT !.byRole = b]
  BY DEF RoleScan, RoleScope
<1>4. role \in RoleFilters
  BY <1>2 DEF SummaryRead
<1>5. S \in SUBSET Ids /\ S = SliceOf(rows, scope, role)
  BY SliceIn, SliceIs
<1>6. CountOf(b, DOMAIN b) >= RowCount(S) /\ CountOf(b, DOMAIN b) \in Nat /\ (role \in Roles => DOMAIN b = {role})
  BY <1>1, <1>4, ByRoleCovers
<1> HIDE DEF scope, role, S, b
<1>7. PICK n \in Nat : AddsUp(read.groups, n) /\ (~read.merged => n <= AskedOf(rows, copies, scope, role))
  BY <1>2 DEF SummaryRead, scope, role
<1>8. RowCount(S) = AskedOf(rows, copies, scope, role) /\ RowCount(S) \in Nat
  BY <1>1, <1>5, CopiesCount DEF AskedOf, RowCount
<1>9. /\ read' = [kind |-> "summary", range |-> read'.range, scope |-> scope, role |-> role,
                  merged |-> read.merged, groups |-> read.groups, byRole |-> b]
  BY <1>2, <1>3 DEF SummaryRead, scope, role
<1>10. ~read.merged => CountOf(b, DOMAIN b) >= n
  <2>1. ~read.merged => n <= RowCount(S)
    BY <1>7, <1>8
  <2> QED BY <1>6, <1>8, <2>1
<1>11. SummaryRead'
  BY <1>1, <1>4, <1>6, <1>7, <1>9, <1>10 DEF SummaryRead
<1> QED BY <1>1, <1>11, TableKeeps DEF ReadInv

\* An event the offset has not passed is on the page, or the page is full and not the last.
LEMMA PageStep ==
    ASSUME Table, NEW s \in Orders(Slice(Rolling, None)), NEW offset \in Nat,
           NEW i \in Slice(Rolling, None), offset <= AheadOf(rows, copies, i)
    PROVE  \/ i \in ToSet(Page(WithCopies(s), offset))
           \/ /\ offset + PageSize < Len(WithCopies(s)) /\ offset + PageSize <= AheadOf(rows, copies, i)
              /\ Len(Page(WithCopies(s), offset)) = PageSize /\ Page(WithCopies(s), offset) # << >>
<1> DEFINE w == WithCopies(s)
           p == Page(w, offset)
           n == Ahead(i)
<1>1. w \in Seq(Ids) /\ n \in Nat /\ n + 1 \in 1..Len(w) /\ w[n + 1] = i
  BY OrderFacts
<1>2. n = AheadOf(rows, copies, i) /\ PageSize \in Nat
  BY AheadIs, ReadAssumption
<1> HIDE DEF n, w
<1>3. /\ \A m \in 1..Len(w) : offset < m /\ m <= offset + PageSize => w[m] \in ToSet(p)
      /\ offset + PageSize < Len(w) => Len(p) = PageSize /\ p # << >>
  BY <1>1, PageFacts
<1> HIDE DEF p
<1>4. CASE n + 1 <= offset + PageSize
  BY <1>1, <1>2, <1>3, <1>4 DEF p, w
<1>5. CASE ~(n + 1 <= offset + PageSize)
  <2>1. offset + PageSize <= n /\ n < Len(w) /\ Len(w) \in Nat
    BY <1>1, <1>2, <1>5
  <2>2. offset + PageSize < Len(w)
    BY <1>1, <1>2, <2>1
  <2> QED BY <1>2, <1>3, <2>1, <2>2 DEF p, w
<1> QED BY <1>4, <1>5

LEMMA RollingSlice ==
    ASSUME NEW i
    PROVE  /\ i \in Slice(Rolling, None) <=> i \in Ids /\ rows[i].at >= clock - Window
           /\ InScope(i, Rolling) <=> rows[i].at >= clock - Window
  BY DEF Slice, InScope, HasRole, Rolling

LEMMA OpenFeedKeeps == ASSUME ReadInv, OpenFeed PROVE ReadInv'
<1>1. Table /\ UNCHANGED <<rows, copies, clock>>
  BY DEF ReadInv, OpenFeed
<1>2. PICK s \in Orders(Slice(Rolling, None)) :
         read' = [kind |-> "feed", scope |-> Rolling, merged |-> FALSE, first |-> ToSet(s),
                  ids |-> Page(WithCopies(s), 0), more |-> PageSize < Len(WithCopies(s))]
  BY DEF OpenFeed
<1> DEFINE w == WithCopies(s)
           p == Page(w, 0)
<1>3. w \in Seq(Ids) /\ ToSet(s) = Slice(Rolling, None)
  BY <1>1, OrderFacts
<1>4. p \in Seq(Ids) /\ PageSize \in Nat
  <2> HIDE DEF w
  <2> QED BY <1>3, PageFacts, ReadAssumption
<1>5. ASSUME NEW i \in ToSet(s)
      PROVE  \/ i \in ToSet(p)
             \/ PageSize < Len(w) /\ Len(p) <= AheadOf(rows, copies, i)
  <2>1. i \in Ids /\ 0 \in Nat
    BY <1>3, SliceIn
  <2>2. 0 <= AheadOf(rows, copies, i)
    <3>1. Ahead(i) \in Nat
      BY <1>1, <1>3, OrderFacts
    <3> QED BY <3>1, AheadIs
  <2>3. i \in ToSet(p) \/ (0 + PageSize < Len(w) /\ 0 + PageSize <= AheadOf(rows, copies, i) /\ Len(p) = PageSize)
    BY <1>1, <1>3, <2>1, <2>2, PageStep
  <2> HIDE DEF w, p
  <2> QED BY <1>4, <2>3
<1> HIDE DEF w, p
<1>6. read' = [kind |-> "feed", scope |-> Rolling, merged |-> FALSE, first |-> ToSet(s), ids |-> p, more |-> PageSize < Len(w)]
  BY <1>2 DEF w, p
<1>7. ToSet(s) \subseteq Ids
  BY <1>3, SliceIn
<1>8. FeedRead'
  BY <1>1, <1>4, <1>5, <1>6, <1>7 DEF FeedRead, Ids
<1> QED BY <1>1, <1>8, TableKeeps DEF ReadInv

FeedIs(a, b, c, d, e) ==
    [kind |-> "feed", scope |-> a, merged |-> b, first |-> c, ids |-> d, more |-> e]
PutPage(r, x, y, z) == [r EXCEPT !.scope = x, !.ids = y, !.more = z]

\* One field after the other.
LEMMA FeedPaged ==
    ASSUME NEW r, NEW a, NEW b, NEW c, NEW d, NEW e, NEW x, NEW y, NEW z, r = FeedIs(a, b, c, d, e)
    PROVE  PutPage(r, x, y, z) = FeedIs(x, b, c, y, z)
<1> DEFINE p == [r EXCEPT !.scope = x]
           q == [p EXCEPT !.ids = y]
<1>1. p = [kind |-> "feed", scope |-> x, merged |-> b, first |-> c, ids |-> d, more |-> e]
  BY DEF FeedIs
<1>2. [r EXCEPT !.scope = x, !.ids = y, !.more = z] = [q EXCEPT !.more = z]
  OBVIOUS
<1> HIDE DEF p
<1>3. q = [kind |-> "feed", scope |-> x, merged |-> b, first |-> c, ids |-> y, more |-> e]
  BY ONLY <1>1
<1> HIDE DEF q
<1>4. [q EXCEPT !.more = z] = [kind |-> "feed", scope |-> x, merged |-> b, first |-> c, ids |-> y, more |-> z]
  BY ONLY <1>3
<1> QED BY <1>2, <1>4 DEF FeedIs, PutPage

LEMMA MorePagesKeeps == ASSUME ReadInv, MorePages PROVE ReadInv'
<1> DEFINE offset == Len(read.ids)
<1>1. Table /\ UNCHANGED <<rows, copies, clock>>
  BY DEF ReadInv, MorePages
<1>2. FeedRead /\ read.more
  BY Kinds DEF ReadInv, MorePages
<1>3. PICK s \in Orders(Slice(Rolling, None)) :
         read' = [read EXCEPT !.scope = Rolling, !.ids = read.ids \o Page(WithCopies(s), offset),
                              !.more = Page(WithCopies(s), offset) # << >> /\ offset + PageSize < Len(WithCopies(s))]
  BY DEF MorePages, Fetched
<1> DEFINE w == WithCopies(s)
           p == Page(w, offset)
<1>4. read.ids \in Seq(Ids) /\ read.first \subseteq Ids /\ offset \in Nat
  BY <1>2 DEF FeedRead
<1>5. w \in Seq(Ids)
  BY <1>1, OrderFacts
<1>6. p \in Seq(Ids) /\ PageSize \in Nat
  <2> HIDE DEF w, offset
  <2> QED BY <1>4, <1>5, PageFacts, ReadAssumption
<1> DEFINE ids == read.ids \o p
           more == p # << >> /\ offset + PageSize < Len(w)
<1>7. read' = [kind |-> "feed", scope |-> Rolling, merged |-> read.merged, first |-> read.first, ids |-> ids, more |-> more]
  <2> HIDE DEF w, p, offset
  <2>1. read' = PutPage(read, Rolling, ids, more)
    BY <1>3 DEF w, p, offset, PutPage
  <2>2. read = FeedIs(read.scope, read.merged, read.first, read.ids, read.more)
    BY <1>2 DEF FeedRead, FeedIs
  <2> HIDE DEF ids, more
  <2>3. PutPage(read, Rolling, ids, more) = FeedIs(Rolling, read.merged, read.first, ids, more)
    BY <2>2, FeedPaged
  <2> QED BY <2>1, <2>3, Zenon DEF FeedIs
<1>8. /\ ids \in Seq(Ids) /\ Len(ids) = offset + Len(p) /\ Len(p) \in Nat
      /\ \A i : i \in ToSet(ids) <=> i \in ToSet(read.ids) \/ i \in ToSet(p)
  <2> HIDE DEF w, p
  <2>1. /\ ids \in Seq(Ids) /\ Len(ids) = offset + Len(p) /\ Len(p) \in Nat
        /\ DOMAIN read.ids = 1..offset /\ DOMAIN p = 1..Len(p) /\ DOMAIN ids = 1..offset + Len(p)
        /\ \A k \in 1..offset : ids[k] = read.ids[k]
        /\ \A k \in 1..Len(p) : ids[offset + k] = p[k]
    BY <1>4, <1>6, ConcatIs
  <2> HIDE DEF ids, offset
  <2>2. ASSUME NEW i \in ToSet(ids) PROVE i \in ToSet(read.ids) \/ i \in ToSet(p)
    <3>1. PICK k \in 1..offset + Len(p) : i = ids[k]
      BY <2>1 DEF ToSet
    <3>2. CASE k \in 1..offset
      BY <2>1, <3>1, <3>2 DEF ToSet
    <3>3. CASE k \notin 1..offset
      <4>1. k - offset \in 1..Len(p) /\ offset + (k - offset) = k
        BY <1>4, <2>1, <3>1, <3>3
      <4>2. i = p[k - offset]
        BY <2>1, <3>1, <4>1
      <4> QED BY <2>1, <4>1, <4>2 DEF ToSet
    <3> QED BY <3>2, <3>3
  <2>3. ASSUME NEW i \in ToSet(read.ids) PROVE i \in ToSet(ids)
    <3>1. PICK k \in 1..offset : i = read.ids[k]
      BY <2>1 DEF ToSet
    <3>2. k \in 1..offset + Len(p)
      BY <1>4, <2>1
    <3> QED BY <2>1, <3>1, <3>2 DEF ToSet
  <2>4. ASSUME NEW i \in ToSet(p) PROVE i \in ToSet(ids)
    <3>1. PICK k \in 1..Len(p) : i = p[k]
      BY <2>1 DEF ToSet
    <3>2. offset + k \in 1..offset + Len(p)
      BY <1>4, <2>1
    <3> QED BY <2>1, <3>1, <3>2 DEF ToSet
  <2> QED BY <2>1, <2>2, <2>3, <2>4
<1>9. ASSUME ~read.merged, NEW i \in read.first, rows[i].at >= clock - Window
      PROVE  \/ i \in ToSet(ids)
             \/ more /\ Len(ids) <= AheadOf(rows, copies, i)
  <2>1. i \in Slice(Rolling, None)
    BY <1>4, <1>9, RollingSlice
  <2>2. i \in ToSet(read.ids) \/ offset <= AheadOf(rows, copies, i)
    BY <1>2, <1>9 DEF FeedRead
  <2>3. CASE i \in ToSet(read.ids)
    BY <1>8, <2>3
  <2>4. CASE offset <= AheadOf(rows, copies, i)
    <3>1. \/ i \in ToSet(p)
          \/ offset + PageSize < Len(w) /\ offset + PageSize <= AheadOf(rows, copies, i) /\ Len(p) = PageSize /\ p # << >>
      BY <1>1, <1>4, <2>1, <2>4, PageStep
    <3>2. CASE i \in ToSet(p)
      BY <1>8, <3>2
    <3>3. CASE offset + PageSize < Len(w) /\ offset + PageSize <= AheadOf(rows, copies, i) /\ Len(p) = PageSize /\ p # << >>
      <4>1. more
        BY <3>3
      <4>2. Len(ids) = offset + PageSize
        BY <1>8, <3>3
      <4> QED BY <3>3, <4>1, <4>2
    <3> QED BY <3>1, <3>2, <3>3
  <2> QED BY <2>2, <2>3, <2>4
<1> HIDE DEF ids, more
<1>10. FeedRead'
  BY <1>1, <1>4, <1>7, <1>8, <1>9 DEF FeedRead, Ids, InScope, Rolling
<1> QED BY <1>1, <1>10, TableKeeps DEF ReadInv

AnomaliesAre(a, b, c, d, e) ==
    [kind |-> "anomalies", scope |-> a, merged |-> b, users |-> c, seen |-> d, found |-> e]

PutFound(r, x, y) == [r EXCEPT !.seen = x, !.found = y]

LEMMA AnomaliesFound ==
    ASSUME NEW r, NEW a, NEW b, NEW c, NEW d, NEW e, NEW x, NEW y, r = AnomaliesAre(a, b, c, d, e)
    PROVE  PutFound(r, x, y) = AnomaliesAre(a, b, c, x, y)
<1> DEFINE q == [r EXCEPT !.seen = x]
<1>1. q = [kind |-> "anomalies", scope |-> a, merged |-> b, users |-> c, seen |-> x, found |-> e]
  BY DEF AnomaliesAre
<1>2. [r EXCEPT !.seen = x, !.found = y] = [q EXCEPT !.found = y]
  OBVIOUS
<1> HIDE DEF q
<1>3. [q EXCEPT !.found = y] = [kind |-> "anomalies", scope |-> a, merged |-> b, users |-> c, seen |-> x, found |-> y]
  BY ONLY <1>1
<1> QED BY <1>2, <1>3 DEF AnomaliesAre, PutFound

LEMMA AnomalyScanKeeps == ASSUME ReadInv, AnomalyScan PROVE ReadInv'
<1> DEFINE S == {i \in Slice(read.scope, None) : rows[i].user \in read.users}
           U(u) == {i \in S : rows[i].user = u}
<1>1. Table /\ UNCHANGED <<rows, copies, clock>>
  BY DEF ReadInv, AnomalyScan
<1>2. AnomalyRead
  BY Kinds DEF ReadInv, AnomalyScan
<1>3. PICK lines : /\ \A u \in read.users : lines[u] \in Timelines(U(u))
                   /\ read' = [read EXCEPT !.seen = [i \in S |-> copies[i]],
                                           !.found = [u \in read.users |-> Bursts(lines[u])]]
  BY DEF AnomalyScan
<1> DEFINE seen == [i \in S |-> copies[i]]
           found == [u \in read.users |-> Bursts(lines[u])]
<1>4. read' = [kind |-> "anomalies", scope |-> read.scope, merged |-> read.merged, users |-> read.users,
               seen |-> seen, found |-> found]
  <2> HIDE DEF seen, found
  <2>1. read' = PutFound(read, seen, found)
    BY <1>3 DEF seen, found, PutFound
  <2>2. read = AnomaliesAre(read.scope, read.merged, read.users, read.seen, read.found)
    BY <1>2 DEF AnomalyRead, AnomaliesAre
  <2>3. PutFound(read, seen, found) = AnomaliesAre(read.scope, read.merged, read.users, seen, found)
    BY <2>2, AnomaliesFound
  <2> QED BY <2>1, <2>3, Zenon DEF AnomaliesAre
<1>5. S \in SUBSET Ids
  BY SliceIn
<1> HIDE DEF S
<1>6. DOMAIN seen = S /\ \A i \in S : seen[i] = copies[i]
  OBVIOUS
<1> HIDE DEF seen
<1>7. ASSUME NEW u \in read.users
      PROVE  FoundAt(rows, seen, U(u), found[u]) /\ \A i \in S : Times(i, FlattenSeq(found[u])) <= seen[i]
  <2> DEFINE V == U(u)
             b == found[u]
  <2>1. V \in SUBSET S /\ lines[u] \in Timelines(V) /\ b = Bursts(lines[u])
    BY <1>3
  <2> HIDE DEF V, b
  <2> QED BY <1>1, <1>5, <1>6, <2>1, LineFacts DEF V, b
<1> HIDE DEF found
<1>8. read'.users = read.users /\ read'.seen = seen /\ read'.found = found /\ rows' = rows
  BY <1>1, <1>4
<1>9. AnswerAt(rows', read')
  BY <1>6, <1>7, <1>8 DEF AnswerAt
<1>10. AnomalyRead'
  BY <1>4, <1>8, <1>9 DEF AnomalyRead, AnswerAt
<1> QED BY <1>1, <1>10, TableKeeps DEF ReadInv

LEMMA AskAnomaliesKeeps == ASSUME ReadInv, NEW range, AskAnomalies(range) PROVE ReadInv'
<1>1. Table /\ UNCHANGED <<rows, copies, clock>>
  BY DEF ReadInv, AskAnomalies
<1>2. read' = [kind |-> "anomalies", scope |-> read'.scope, merged |-> FALSE, users |-> read'.users,
               seen |-> None, found |-> None]
  BY DEF AskAnomalies
<1>3. AnswerAt(rows', read')
  BY <1>2 DEF AnswerAt
<1>4. AnomalyRead'
  BY <1>2, <1>3 DEF AnomalyRead
<1> QED BY <1>1, <1>4, TableKeeps DEF ReadInv

LEMMA StepInv == ReadInv /\ [Next]_vars => ReadInv'
<1> SUFFICES ASSUME ReadInv, [Next]_vars PROVE ReadInv'
  OBVIOUS
<1>1. CASE UNCHANGED vars
  <2>1. rows' = rows /\ copies' = copies /\ clock' = clock /\ read' = read
    BY <1>1 DEF vars
  <2>2. Table'
    BY <2>1, TableKeeps DEF ReadInv
  <2>3. read = Idle => read' = Idle
    BY <2>1
  <2>4. SummaryRead => SummaryRead'
    BY <2>1 DEF SummaryRead
  <2>5. FeedRead => FeedRead'
    BY <2>1 DEF FeedRead, Ids, InScope
  <2>6. AnomalyRead => AnomalyRead'
    BY <2>1 DEF AnomalyRead
  <2> QED BY <2>2, <2>3, <2>4, <2>5, <2>6 DEF ReadInv, Idle
<1>2. CASE Show
  <2>1. read' = Idle /\ UNCHANGED <<rows, copies, clock>>
    BY <1>2 DEF Show
  <2> QED BY <2>1, TableKeeps DEF ReadInv, Idle
<1>3. CASE ~Answered /\ Writes
  BY <1>3, WritesKeep
<1>4. CASE Asks
  BY <1>4, AskSummaryKeeps, AskAnomaliesKeeps, OpenFeedKeeps DEF Asks, RoleFilters
<1>5. CASE RoleScan
  BY <1>5, RoleScanKeeps
<1>6. CASE MorePages
  BY <1>6, MorePagesKeeps
<1>7. CASE AnomalyScan
  BY <1>7, AnomalyScanKeeps
<1> QED BY <1>1, <1>2, <1>3, <1>4, <1>5, <1>6, <1>7 DEF Next

\* What is under way, and the table it reads, are as described above in every state.
THEOREM ReadsSound == Spec => []ReadInv
<1> QED BY InitInv, StepInv, PTL DEF Spec

\* A summary adds up, however many rows arrive between its two scans.
THEOREM SummariesAddUp == Spec => []SummaryAddsUp
<1> QED BY ReadsSound, ReadInvImplies, PTL

\* A feed that offers no more pages has skipped nothing of what it started with.
THEOREM FeedSkipsNone == Spec => []NoneSkipped
<1> QED BY ReadsSound, ReadInvImplies, PTL

\* Each busy hour of a user is in the streak of a burst that is reported, or close
\* behind it, and no row is part of two bursts.
THEOREM BurstsAreFound == Spec => []BurstsFound
<1> QED BY ReadsSound, ReadInvImplies, PTL
=============================================================================
