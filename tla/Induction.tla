----------------------------- MODULE Induction -----------------------------
(***************************************************************************)
(* What the recursive definitions of the model compute, for inputs of any  *)
(* size.  Induction is stated with sets instead of predicates - a set that *)
(* contains 0 and the successor of each of its members contains every      *)
(* natural number - because the provers instantiate a set.                 *)
(***************************************************************************)
EXTENDS Integers, SequencesExt, FiniteSetTheorems, SequenceTheorems, WellFoundedInduction, TLAPS

-----------------------------------------------------------------------------
(* Induction over numbers and over finite sets *)

\* The order of the natural numbers as a relation.

Below == OpToRel(<, Nat)

\* Below contains every pair in order.
LEMMA BelowIsLess == \A k, m \in Nat : k < m => <<k, m>> \in Below
  BY DEF Below, OpToRel

\* There is no infinite descent.
LEMMA BelowWellFounded == IsWellFoundedOn(Below, Nat)
  BY NatLessThanWellFounded DEF Below

\* A nonempty set of natural numbers has a least member.
LEMMA LeastNumber ==
  ASSUME NEW T \in SUBSET Nat, T # {}
  PROVE  \E m \in T : \A k \in T : m <= k
<1>1. PICK m \in T : \A k \in T : ~ (<<k, m>> \in Below)
  BY BelowWellFounded, WFMin
<1>2. \A k \in T : ~ (k < m)
  BY <1>1, BelowIsLess
<1> QED BY <1>2

\* Induction over the natural numbers.
LEMMA NatSetInduction ==
  ASSUME NEW S, 0 \in S, \A n \in Nat : n \in S => n + 1 \in S
  PROVE  Nat \subseteq S
<1> DEFINE T == Nat \ S
<1>1. SUFFICES ASSUME T # {} PROVE FALSE
  OBVIOUS
<1>2. PICK m \in T : \A k \in T : m <= k
  BY <1>1, LeastNumber
<1>3. m # 0
  OBVIOUS
<1>4. m - 1 \in Nat /\ m - 1 \notin T
  BY <1>2, <1>3
<1> QED BY <1>4

\* Induction over the subsets of a finite set.
LEMMA FiniteSetInduction ==
  ASSUME NEW T, IsFiniteSet(T), NEW F, {} \in F,
         \A s \in SUBSET T : \A x \in T \ s : s \in F => s \cup {x} \in F
  PROVE  T \in F
<1> DEFINE L == {n \in Nat : \A s \in SUBSET T : Cardinality(s) = n => s \in F}
<1>1. \A s \in SUBSET T : IsFiniteSet(s) /\ Cardinality(s) \in Nat
  BY FS_Subset, FS_CardinalityType
<1>2. 0 \in L
  BY <1>1, FS_EmptySet
<1>3. ASSUME NEW n \in Nat, n \in L PROVE n + 1 \in L
  <2>1. SUFFICES ASSUME NEW s \in SUBSET T, Cardinality(s) = n + 1 PROVE s \in F
    OBVIOUS
  <2>2. n + 1 # 0 /\ (n + 1) - 1 = n /\ IsFiniteSet(s)
    BY <1>1
  <2>3. s # {}
    BY <2>1, <2>2, FS_EmptySet
  <2>4. PICK x \in s : TRUE
    BY <2>3
  <2>5. Cardinality(s \ {x}) = Cardinality(s) - 1
    BY <2>2, FS_RemoveElement
  <2>6. s \ {x} \in F
    BY <1>3, <2>1, <2>2, <2>5
  <2>7. (s \ {x}) \cup {x} = s /\ s \ {x} \in SUBSET T /\ x \in T \ (s \ {x})
    OBVIOUS
  <2> QED BY <2>6, <2>7
<1>4. Nat \subseteq L
  <2> HIDE DEF L
  <2> QED BY <1>2, <1>3, NatSetInduction
<1> QED BY <1>1, <1>4

-----------------------------------------------------------------------------
(* FlattenSeq *)

\* g[i] is the concatenation of the first i members of ss, for i up to n.
Accumulates(g, ss, n) ==
  /\ g = [i \in 1..n |-> g[i]]
  /\ g[1] = ss[1]
  /\ \A i \in 2..n : g[i] = g[i - 1] \o ss[i]

\* There is at most one such function.
LEMMA AccumulatesUnique ==
  ASSUME NEW ss, Len(ss) \in Nat \ {0}, NEW g, NEW h, Accumulates(g, ss, Len(ss)), Accumulates(h, ss, Len(ss))
  PROVE  g = h
<1> DEFINE S == {n \in Nat : n \in 1..Len(ss) => g[n] = h[n]}
<1>1. 0 \in S
  OBVIOUS
<1>2. ASSUME NEW n \in Nat, n \in S PROVE n + 1 \in S
  <2>1. CASE n = 0
    BY <2>1 DEF Accumulates
  <2>2. CASE n # 0 /\ n + 1 \in 1..Len(ss)
    <3>1. g[n] = h[n] /\ n + 1 \in 2..Len(ss) /\ (n + 1) - 1 = n
      BY <1>2, <2>2
    <3>2. g[n + 1] = g[n] \o ss[n + 1] /\ h[n + 1] = h[n] \o ss[n + 1]
      BY <3>1 DEF Accumulates
    <3>3. g[n + 1] = h[n + 1]
      BY <3>1, <3>2
    <3> QED BY <3>3
  <2> QED BY <2>1, <2>2
<1>3. \A n \in 1..Len(ss) : g[n] = h[n]
  <2>1. Nat \subseteq S
    <3> HIDE DEF S
    <3> QED BY <1>1, <1>2, NatSetInduction
  <2> QED BY <2>1
<1> QED BY <1>3 DEF Accumulates

\* FlattenSeq is its last value.
LEMMA FlattenAccumulates ==
  ASSUME NEW ss, Len(ss) \in Nat \ {0}, NEW g, Accumulates(g, ss, Len(ss))
  PROVE  FlattenSeq(ss) = g[Len(ss)]
<1> DEFINE Step(h) == [i \in 1..Len(ss) |-> IF i = 1 THEN ss[i] ELSE h[i - 1] \o ss[i]]
           flatten == CHOOSE h : h = Step(h)
<1>1. ASSUME NEW h PROVE h = Step(h) <=> Accumulates(h, ss, Len(ss))
  <2>1. ASSUME h = Step(h) PROVE Accumulates(h, ss, Len(ss))
    <3>1. \A i \in 1..Len(ss) : h[i] = IF i = 1 THEN ss[i] ELSE h[i - 1] \o ss[i]
      BY <2>1
    <3>2. DOMAIN h = 1..Len(ss) /\ h = [i \in DOMAIN h |-> h[i]]
      BY <2>1
    <3>3. 1 \in 1..Len(ss) /\ \A i \in 2..Len(ss) : i \in 1..Len(ss) /\ i # 1
      OBVIOUS
    <3> QED BY <3>1, <3>2, <3>3 DEF Accumulates
  <2>2. ASSUME Accumulates(h, ss, Len(ss)) PROVE h = Step(h)
    <3>1. ASSUME NEW i \in 1..Len(ss)
          PROVE  h[i] = IF i = 1 THEN ss[i] ELSE h[i - 1] \o ss[i]
      <4>1. i = 1 \/ i \in 2..Len(ss)
        OBVIOUS
      <4>2. i \in 2..Len(ss) => i # 1
        OBVIOUS
      <4> QED BY <2>2, <4>1, <4>2 DEF Accumulates
    <3>2. h = [i \in 1..Len(ss) |-> h[i]]
      BY <2>2 DEF Accumulates
    <3> QED BY <3>1, <3>2
  <2> QED BY <2>1, <2>2
<1>2. flatten = Step(flatten)
  BY <1>1
<1>3. flatten = g
  BY <1>1, <1>2, AccumulatesUnique
<1>4. FlattenSeq(ss) = flatten[Len(ss)]
  BY DEF FlattenSeq
<1> QED BY <1>3, <1>4

\* The function for one member more.
LEMMA AccumulatesNext ==
  ASSUME NEW S, NEW ss \in Seq(Seq(S)), NEW n \in 1..(Len(ss) - 1),
         NEW g \in [1..n -> Seq(S)], Accumulates(g, ss, n),
         NEW h, h = [i \in 1..(n + 1) |-> IF i = n + 1 THEN g[n] \o ss[n + 1] ELSE g[i]]
  PROVE  h \in [1..(n + 1) -> Seq(S)] /\ Accumulates(h, ss, n + 1)
<1>1. n \in 1..n /\ n \in Nat /\ n + 1 \in 1..Len(ss)
  OBVIOUS
<1>2. g[n] \in Seq(S) /\ ss[n + 1] \in Seq(S)
  BY <1>1, ElementOfSeq
<1>3. g[n] \o ss[n + 1] \in Seq(S)
  BY <1>2
<1>4. \A i \in 1..(n + 1) : i # n + 1 => i \in 1..n
  BY <1>1
<1>5. h \in [1..(n + 1) -> Seq(S)]
  BY <1>3, <1>4
<1>6. h[1] = ss[1] /\ h = [i \in 1..(n + 1) |-> h[i]]
  BY <1>1 DEF Accumulates
<1>7. ASSUME NEW i \in 2..(n + 1) PROVE h[i] = h[i - 1] \o ss[i]
  <2>1. i - 1 \in 1..n /\ i - 1 # n + 1 /\ i \in 1..(n + 1) /\ i - 1 \in 1..(n + 1)
    BY <1>1
  <2>2. h[i - 1] = g[i - 1]
    BY <2>1
  <2>3. CASE i = n + 1
    <3>1. i - 1 = n
      BY <2>3, <1>1
    <3> QED BY <2>2, <2>3, <3>1, <2>1
  <2>4. CASE i # n + 1
    <3>1. i \in 2..n /\ h[i] = g[i]
      BY <2>4, <1>1
    <3> QED BY <2>2, <3>1 DEF Accumulates
  <2> QED BY <2>3, <2>4
<1>8. Accumulates(h, ss, n + 1)
  BY <1>6, <1>7 DEF Accumulates
<1> QED BY <1>5, <1>8

\* There is such a function.
LEMMA AccumulatesExists ==
  ASSUME NEW S, NEW ss \in Seq(Seq(S)), NEW m \in 1..Len(ss)
  PROVE  \E g \in [1..m -> Seq(S)] : Accumulates(g, ss, m)
<1> DEFINE L == {n \in Nat : n \in 1..Len(ss) => \E g \in [1..n -> Seq(S)] : Accumulates(g, ss, n)}
<1>1. 0 \in L
  OBVIOUS
<1>2. ASSUME NEW n \in Nat, n \in L PROVE n + 1 \in L
  <2>1. SUFFICES ASSUME n + 1 \in 1..Len(ss)
                 PROVE  \E g \in [1..(n + 1) -> Seq(S)] : Accumulates(g, ss, n + 1)
    OBVIOUS
  <2>2. CASE n = 0
    <3> DEFINE g == [i \in 1..1 |-> ss[1]]
    <3>1. ss[1] \in Seq(S)
      BY <2>1, ElementOfSeq
    <3>2. g \in [1..1 -> Seq(S)] /\ g[1] = ss[1] /\ g = [i \in 1..1 |-> g[i]]
      BY <3>1
    <3>3. 2..1 = {}
      OBVIOUS
    <3> HIDE DEF g
    <3>4. Accumulates(g, ss, 1)
      BY <3>2, <3>3 DEF Accumulates
    <3> QED BY <2>2, <3>2, <3>4
  <2>3. CASE n # 0
    <3>1. n \in 1..(Len(ss) - 1) /\ n \in 1..Len(ss)
      BY <2>1, <2>3
    <3>2. PICK g \in [1..n -> Seq(S)] : Accumulates(g, ss, n)
      BY <1>2, <3>1
    <3> DEFINE h == [i \in 1..(n + 1) |-> IF i = n + 1 THEN g[n] \o ss[n + 1] ELSE g[i]]
    <3>3. h \in [1..(n + 1) -> Seq(S)] /\ Accumulates(h, ss, n + 1)
      BY <3>1, <3>2, AccumulatesNext
    <3> QED BY <3>3
  <2> QED BY <2>2, <2>3
<1>3. Nat \subseteq L
  <2> HIDE DEF L
  <2> QED BY <1>1, <1>2, NatSetInduction
<1> QED BY <1>3

\* No sequences concatenate to the empty one.
LEMMA FlattenEmpty == FlattenSeq(<< >>) = << >>
  BY DEF FlattenSeq

\* Concatenating sequences over S gives one over S.
LEMMA FlattenType ==
  ASSUME NEW S, NEW ss \in Seq(Seq(S))
  PROVE  FlattenSeq(ss) \in Seq(S)
<1>1. CASE ss = << >>
  <2>1. FlattenSeq(ss) = << >>
    BY <1>1, FlattenEmpty
  <2> QED BY <2>1
<1>2. CASE ss # << >>
  <2>1. Len(ss) \in Nat \ {0} /\ Len(ss) \in 1..Len(ss)
    BY <1>2
  <2>2. PICK g \in [1..Len(ss) -> Seq(S)] : Accumulates(g, ss, Len(ss))
    BY <2>1, AccumulatesExists
  <2>3. FlattenSeq(ss) = g[Len(ss)]
    BY <2>1, <2>2, FlattenAccumulates
  <2> QED BY <2>1, <2>2, <2>3
<1> QED BY <1>1, <1>2

\* One sequence more is concatenated at the end.
LEMMA FlattenAppend ==
  ASSUME NEW S, NEW ss \in Seq(Seq(S)), NEW s \in Seq(S)
  PROVE  FlattenSeq(Append(ss, s)) = FlattenSeq(ss) \o s
<1> DEFINE tt == Append(ss, s)
           n == Len(ss)
<1>1. /\ tt \in Seq(Seq(S)) /\ Len(tt) = n + 1 /\ tt[n + 1] = s
      /\ n \in Nat /\ \A i \in 1..n : tt[i] = ss[i]
  OBVIOUS
<1>2. CASE n = 0
  <2>1. ss = << >>
    BY <1>2
  <2>2. Accumulates(tt, tt, 1)
    <3>1. tt = [i \in 1..1 |-> tt[i]] /\ 2..1 = {}
      BY <1>1, <1>2
    <3> QED BY <3>1 DEF Accumulates
  <2>3. FlattenSeq(tt) = tt[1]
    <3>1. Len(tt) = 1 /\ Len(tt) \in Nat \ {0}
      BY <1>1, <1>2
    <3> HIDE DEF tt
    <3> QED BY <2>2, <3>1, FlattenAccumulates
  <2>4. FlattenSeq(ss) \o s = s
    BY <2>1, FlattenEmpty
  <2> QED BY <1>1, <1>2, <2>3, <2>4
<1>3. CASE n # 0
  <2>1. n \in Nat \ {0} /\ n \in 1..n /\ n \in 1..(Len(tt) - 1) /\ n + 1 \in 1..(n + 1) /\ n + 1 \in Nat \ {0}
    BY <1>1, <1>3
  <2>2. PICK g \in [1..n -> Seq(S)] : Accumulates(g, ss, n)
    BY <2>1, AccumulatesExists
  <2>3. Accumulates(g, tt, n)
    <3>1. \A i \in 2..n : i \in 1..n
      BY <1>1
    <3>2. tt[1] = ss[1]
      BY <1>1, <2>1
    <3> HIDE DEF tt, n
    <3> QED BY <1>1, <2>2, <3>1, <3>2 DEF Accumulates
  <2> DEFINE h == [i \in 1..(n + 1) |-> IF i = n + 1 THEN g[n] \o tt[n + 1] ELSE g[i]]
  <2>4. Accumulates(h, tt, n + 1)
    <3>1. h = [i \in 1..(n + 1) |-> IF i = n + 1 THEN g[n] \o tt[n + 1] ELSE g[i]]
      OBVIOUS
    <3> HIDE DEF tt, n, h
    <3> QED BY <1>1, <2>1, <2>3, <3>1, AccumulatesNext
  <2>5. FlattenSeq(tt) = h[n + 1]
    <3> HIDE DEF h, tt, n
    <3> QED BY <1>1, <2>1, <2>4, FlattenAccumulates
  <2>6. h[n + 1] = g[n] \o s
    BY <1>1, <2>1
  <2>7. FlattenSeq(ss) = g[n]
    BY <2>1, <2>2, FlattenAccumulates
  <2> QED BY <2>5, <2>6, <2>7
<1> QED BY <1>2, <1>3

-----------------------------------------------------------------------------
(* Sequences that grow at their end *)

\* A sequence with one element more at its end.
LEMMA ConcatOne ==
  ASSUME NEW S, NEW b \in Seq(S), NEW x \in S
  PROVE  b \o <<x>> = Append(b, x)
OBVIOUS

\* And two.
LEMMA ConcatTwo ==
  ASSUME NEW S, NEW b \in Seq(S), NEW x \in S, NEW y \in S
  PROVE  b \o <<x, y>> = Append(Append(b, x), y)
OBVIOUS

\* What Append leaves and adds.
LEMMA AppendFacts ==
  ASSUME NEW S, NEW b \in Seq(S), NEW x \in S, NEW c, c = Append(b, x), NEW n, n = Len(b)
  PROVE  /\ n \in Nat /\ Len(c) = n + 1 /\ c[n + 1] = x /\ c \in Seq(S)
         /\ \A k \in 1..n : c[k] = b[k]
BY AppendProperties, LenProperties

-----------------------------------------------------------------------------
(* Sums over finite sets *)

\* The sum of the values of f over S, as MapThenSumSet computes it.
Sum(f, S) == MapThenSumSet(LAMBDA x : f[x], S)

\* g[s] is that sum for each subset s of T.
SumStep(g, f, s) ==
  IF s = {} THEN 0 ELSE f[CHOOSE x \in s : TRUE] + g[s \ {CHOOSE x \in s : TRUE}]
SumsUp(g, f, T) == g = [s \in SUBSET T |-> SumStep(g, f, s)]

\* The member a sum starts from.
LEMMA Chosen ==
  ASSUME NEW s, s # {}
  PROVE  (CHOOSE x \in s : TRUE) \in s
OBVIOUS

\* A subset without its first member has one member less.
LEMMA SmallerSubset ==
  ASSUME NEW T, IsFiniteSet(T), NEW s \in SUBSET T, NEW x \in s
  PROVE  /\ IsFiniteSet(s) /\ Cardinality(s) \in Nat /\ Cardinality(s) # 0
         /\ s \ {x} \in SUBSET T /\ Cardinality(s \ {x}) = Cardinality(s) - 1
<1>1. IsFiniteSet(s) /\ Cardinality(s) \in Nat
  BY FS_Subset, FS_CardinalityType
<1>2. Cardinality(s) # 0
  BY <1>1, FS_EmptySet
<1>3. Cardinality(s \ {x}) = Cardinality(s) - 1
  BY <1>1, FS_RemoveElement
<1> QED BY <1>1, <1>2, <1>3

\* There is at most one such function.
LEMMA SumsUnique ==
  ASSUME NEW T, IsFiniteSet(T), NEW f, NEW g, NEW h, SumsUp(g, f, T), SumsUp(h, f, T)
  PROVE  g = h
<1> DEFINE L == {n \in Nat : \A s \in SUBSET T : Cardinality(s) = n => g[s] = h[s]}
<1>1. \A s \in SUBSET T : g[s] = SumStep(g, f, s) /\ h[s] = SumStep(h, f, s)
  BY DEF SumsUp
<1>2. \A s \in SUBSET T : IsFiniteSet(s) /\ Cardinality(s) \in Nat
  BY FS_Subset, FS_CardinalityType
<1>3. 0 \in L
  <2>1. SUFFICES ASSUME NEW s \in SUBSET T, Cardinality(s) = 0 PROVE g[s] = h[s]
    OBVIOUS
  <2>2. s = {}
    BY <1>2, <2>1, FS_EmptySet
  <2> QED BY <1>1, <2>2 DEF SumStep
<1>4. ASSUME NEW n \in Nat, n \in L PROVE n + 1 \in L
  <2>1. SUFFICES ASSUME NEW s \in SUBSET T, Cardinality(s) = n + 1 PROVE g[s] = h[s]
    OBVIOUS
  <2>2. n + 1 # 0 /\ (n + 1) - 1 = n
    OBVIOUS
  <2>3. s # {}
    BY <2>1, <2>2, FS_EmptySet
  <2> DEFINE x == CHOOSE x \in s : TRUE
  <2>4. x \in s
    BY <2>3, Chosen
  <2>5. g[s] = f[x] + g[s \ {x}] /\ h[s] = f[x] + h[s \ {x}]
    BY <1>1, <2>3 DEF SumStep
  <2> HIDE DEF x
  <2>6. s \ {x} \in SUBSET T /\ Cardinality(s \ {x}) = n
    BY <2>1, <2>2, <2>4, SmallerSubset
  <2>7. g[s \ {x}] = h[s \ {x}]
    BY <1>4, <2>6
  <2> QED BY <2>5, <2>7
<1> HIDE DEF L
<1>5. Nat \subseteq L
  BY <1>3, <1>4, NatSetInduction
<1>6. \A s \in SUBSET T : g[s] = h[s]
  BY <1>2, <1>5 DEF L
<1>7. g = [s \in SUBSET T |-> g[s]] /\ h = [s \in SUBSET T |-> h[s]]
  BY DEF SumsUp
<1> QED BY <1>6, <1>7

\* There is such a function.
LEMMA SumsExist ==
  ASSUME NEW T, IsFiniteSet(T), NEW f \in [T -> Int]
  PROVE  \E g \in [SUBSET T -> Int] : SumsUp(g, f, T)
<1> DEFINE Upto(g, n) == \A s \in SUBSET T : Cardinality(s) <= n => g[s] = SumStep(g, f, s)
           L == {n \in Nat : \E g \in [SUBSET T -> Int] : Upto(g, n)}
<1>1. \A s \in SUBSET T : IsFiniteSet(s) /\ Cardinality(s) \in Nat
  BY FS_Subset, FS_CardinalityType
<1>2. 0 \in L
  <2> DEFINE g == [s \in SUBSET T |-> 0]
  <2>1. g \in [SUBSET T -> Int]
    OBVIOUS
  <2>2. ASSUME NEW s \in SUBSET T, Cardinality(s) <= 0 PROVE g[s] = SumStep(g, f, s)
    <3>1. s = {}
      BY <1>1, <2>2, FS_EmptySet
    <3> QED BY <3>1 DEF SumStep
  <2> HIDE DEF g
  <2> QED BY <2>1, <2>2
<1>3. ASSUME NEW n \in Nat, n \in L PROVE n + 1 \in L
  <2>1. PICK g \in [SUBSET T -> Int] : Upto(g, n)
    BY <1>3
  <2> DEFINE h == [s \in SUBSET T |-> IF Cardinality(s) = n + 1 THEN SumStep(g, f, s) ELSE g[s]]
  <2>2. ASSUME NEW s \in SUBSET T, s # {}
        PROVE  /\ (CHOOSE x \in s : TRUE) \in s
               /\ s \ {CHOOSE x \in s : TRUE} \in SUBSET T
               /\ Cardinality(s \ {CHOOSE x \in s : TRUE}) = Cardinality(s) - 1
               /\ Cardinality(s) \in Nat
    <3> DEFINE x == CHOOSE x \in s : TRUE
    <3>1. x \in s
      BY <2>2, Chosen
    <3> HIDE DEF x
    <3>2. s \ {x} \in SUBSET T /\ Cardinality(s \ {x}) = Cardinality(s) - 1 /\ Cardinality(s) \in Nat
      BY <3>1, SmallerSubset
    <3> QED BY <3>1, <3>2 DEF x
  <2>3. ASSUME NEW s \in SUBSET T PROVE SumStep(g, f, s) \in Int
    BY <2>2 DEF SumStep
  <2>4. h \in [SUBSET T -> Int]
    BY <2>3
  <2>5. ASSUME NEW s \in SUBSET T, Cardinality(s) <= n + 1 PROVE h[s] = SumStep(h, f, s)
    <3>1. h[s] = SumStep(g, f, s)
      BY <1>1, <2>1, <2>5
    <3>2. CASE s = {}
      BY <3>1, <3>2 DEF SumStep
    <3>3. CASE s # {}
      <4> DEFINE r == s \ {CHOOSE x \in s : TRUE}
      <4>1. r \in SUBSET T /\ Cardinality(r) = Cardinality(s) - 1 /\ Cardinality(s) \in Nat
        BY <2>2, <3>3
      <4>2. Cardinality(r) # n + 1
        BY <2>5, <4>1
      <4>3. h[r] = g[r]
        BY <4>1, <4>2
      <4> QED BY <3>1, <3>3, <4>3 DEF SumStep
    <3> QED BY <3>2, <3>3
  <2> HIDE DEF h
  <2>6. Upto(h, n + 1)
    BY <2>5
  <2> QED BY <2>4, <2>6
<1> HIDE DEF L
<1>4. Nat \subseteq L
  BY <1>2, <1>3, NatSetInduction
<1>5. Cardinality(T) \in L
  BY <1>4, FS_CardinalityType
<1>6. PICK g \in [SUBSET T -> Int] : Upto(g, Cardinality(T))
  BY <1>5 DEF L
<1>7. \A s \in SUBSET T : Cardinality(s) <= Cardinality(T)
  BY FS_Subset
<1>8. \A s \in SUBSET T : g[s] = SumStep(g, f, s)
  BY <1>6, <1>7
<1>9. g = [s \in SUBSET T |-> SumStep(g, f, s)]
  <2>1. g = [s \in SUBSET T |-> g[s]]
    OBVIOUS
  <2> QED BY <1>8, <2>1
<1> QED BY <1>9 DEF SumsUp

\* The sums over the subsets of T are sums over the subsets of S.
LEMMA SumsRestrict ==
  ASSUME NEW T, NEW S \in SUBSET T, NEW f, NEW g, SumsUp(g, f, T),
         NEW h, h = [s \in SUBSET S |-> g[s]]
  PROVE  SumsUp(h, f, S)
<1>1. ASSUME NEW s \in SUBSET S PROVE h[s] = SumStep(h, f, s)
  <2>1. s \in SUBSET T /\ s \ {CHOOSE x \in s : TRUE} \in SUBSET S
    OBVIOUS
  <2>2. h[s] = g[s] /\ h[s \ {CHOOSE x \in s : TRUE}] = g[s \ {CHOOSE x \in s : TRUE}]
    BY <2>1
  <2>3. g[s] = SumStep(g, f, s)
    BY <2>1 DEF SumsUp
  <2> QED BY <2>2, <2>3 DEF SumStep
<1>2. h = [s \in SUBSET S |-> h[s]]
  OBVIOUS
<1>3. h = [s \in SUBSET S |-> SumStep(h, f, s)]
  BY <1>1, <1>2
<1> QED BY <1>3 DEF SumsUp

\* MapThenSumSet is their value.
LEMMA SumIs ==
  ASSUME NEW T, IsFiniteSet(T), NEW S \in SUBSET T, NEW f, NEW g, SumsUp(g, f, T)
  PROVE  Sum(f, S) = g[S]
<1> DEFINE Step(h) == [s \in SUBSET S |-> IF s = {} THEN 0
                                          ELSE f[CHOOSE x \in s : TRUE] + h[s \ {CHOOSE x \in s : TRUE}]]
           sums == CHOOSE h : h = Step(h)
           part == [s \in SUBSET S |-> g[s]]
<1>1. ASSUME NEW h PROVE h = Step(h) <=> SumsUp(h, f, S)
  BY DEF SumsUp, SumStep
<1>2. SumsUp(part, f, S)
  BY SumsRestrict
<1>3. sums = Step(sums)
  BY <1>1, <1>2
<1>4. SumsUp(sums, f, S)
  BY <1>1, <1>3
<1>5. IsFiniteSet(S)
  BY FS_Subset
<1>6. Sum(f, S) = sums[S]
  BY DEF Sum, MapThenSumSet, MapThenFoldSet
<1>7. part[S] = g[S]
  OBVIOUS
<1> HIDE DEF sums, part
<1>8. sums = part
  BY <1>2, <1>4, <1>5, SumsUnique
<1> QED BY <1>6, <1>7, <1>8

\* Whichever member is added first, the sum is the same.
AnyFirst(g, f, T) == \A r \in SUBSET T : \A y \in r : g[r] = f[y] + g[r \ {y}]

LEMMA SumsAdd ==
  ASSUME NEW T, IsFiniteSet(T), NEW f \in [T -> Int], NEW g \in [SUBSET T -> Int], SumsUp(g, f, T)
  PROVE  AnyFirst(g, f, T)
<1> DEFINE L == {n \in Nat : \A r \in SUBSET T : \A y \in r :
                    Cardinality(r) = n => g[r] = f[y] + g[r \ {y}]}
<1>1. \A r \in SUBSET T : \A y \in r :
         /\ Cardinality(r) \in Nat /\ Cardinality(r) # 0
         /\ r \ {y} \in SUBSET T /\ Cardinality(r \ {y}) = Cardinality(r) - 1
  BY SmallerSubset
<1>2. 0 \in L
  BY <1>1
<1>3. ASSUME NEW n \in Nat, n \in L PROVE n + 1 \in L
  <2>1. SUFFICES ASSUME NEW r \in SUBSET T, NEW y \in r, Cardinality(r) = n + 1
                 PROVE  g[r] = f[y] + g[r \ {y}]
    OBVIOUS
  <2> DEFINE z == CHOOSE z \in r : TRUE
  <2>2. z \in r
    BY Chosen
  <2>3. g[r] = f[z] + g[r \ {z}]
    BY <2>2 DEF SumsUp, SumStep
  <2> HIDE DEF z
  <2>4. CASE y = z
    BY <2>3, <2>4
  <2>5. CASE y # z
    <3>1. y \in r \ {z} /\ z \in r \ {y} /\ (r \ {z}) \ {y} = (r \ {y}) \ {z}
      BY <2>2, <2>5
    <3>2. /\ r \ {z} \in SUBSET T /\ Cardinality(r \ {z}) = n
          /\ r \ {y} \in SUBSET T /\ Cardinality(r \ {y}) = n
      <4>1. (n + 1) - 1 = n
        OBVIOUS
      <4> QED BY <1>1, <2>1, <2>2, <4>1
    <3>3. g[r \ {z}] = f[y] + g[(r \ {z}) \ {y}] /\ g[r \ {y}] = f[z] + g[(r \ {y}) \ {z}]
      BY <1>3, <3>1, <3>2
    <3>4. f[y] \in Int /\ f[z] \in Int /\ g[(r \ {z}) \ {y}] \in Int
      BY <2>2
    <3> DEFINE a == g[(r \ {z}) \ {y}]
               b == g[r \ {y}]
               c == g[r \ {z}]
    <3>5. g[(r \ {y}) \ {z}] = a
      BY <3>1
    <3>6. c = f[y] + a /\ b = f[z] + a /\ g[r] = f[z] + c /\ a \in Int
      BY <2>3, <3>3, <3>4, <3>5
    <3> HIDE DEF a, b, c
    <3>7. g[r] = f[y] + b
      BY <3>4, <3>6
    <3> QED BY <3>7 DEF b
  <2> QED BY <2>4, <2>5
<1> HIDE DEF L
<1>4. Nat \subseteq L
  BY <1>2, <1>3, NatSetInduction
<1> QED BY <1>1, <1>4 DEF L, AnyFirst

\* The empty sum.
LEMMA SumEmpty == ASSUME NEW f PROVE Sum(f, {}) = 0
<1> DEFINE g == [s \in SUBSET {} |-> 0]
<1>1. SumsUp(g, f, {})
  <2>1. \A s \in SUBSET {} : SumStep(g, f, s) = 0
    BY DEF SumStep
  <2> QED BY <2>1 DEF SumsUp
<1>2. g[{}] = 0 /\ IsFiniteSet({}) /\ {} \in SUBSET {}
  BY FS_EmptySet
<1> HIDE DEF g
<1> QED BY <1>1, <1>2, SumIs

\* A member more adds its value.
LEMMA SumAdd ==
  ASSUME NEW T, IsFiniteSet(T), NEW f \in [T -> Int], NEW s \in SUBSET T, NEW x \in T \ s
  PROVE  Sum(f, s \cup {x}) = f[x] + Sum(f, s)
<1>1. PICK g \in [SUBSET T -> Int] : SumsUp(g, f, T)
  BY SumsExist
<1>2. s \cup {x} \in SUBSET T /\ x \in s \cup {x} /\ (s \cup {x}) \ {x} = s
  OBVIOUS
<1>3. Sum(f, s) = g[s] /\ Sum(f, s \cup {x}) = g[s \cup {x}]
  BY <1>1, <1>2, SumIs
<1> DEFINE t == s \cup {x}
<1>4. t \in SUBSET T /\ x \in t /\ t \ {x} = s /\ Sum(f, t) = g[t]
  BY <1>2, <1>3
<1> HIDE DEF t
<1>5. AnyFirst(g, f, T)
  BY <1>1, SumsAdd
<1>6. g[t] = f[x] + g[s]
  BY <1>4, <1>5 DEF AnyFirst
<1> QED BY <1>3, <1>4, <1>6 DEF t

\* A member less takes its value away.
LEMMA SumRemove ==
  ASSUME NEW T, IsFiniteSet(T), NEW f \in [T -> Int], NEW s \in SUBSET T, NEW x \in s
  PROVE  Sum(f, s) = f[x] + Sum(f, s \ {x})
<1>1. s \ {x} \in SUBSET T /\ x \in T \ (s \ {x}) /\ (s \ {x}) \cup {x} = s
  OBVIOUS
<1>2. Sum(f, (s \ {x}) \cup {x}) = f[x] + Sum(f, s \ {x})
  BY <1>1, SumAdd
<1> QED BY <1>1, <1>2

\* Sums of natural numbers are natural numbers.
LEMMA SumNatural ==
  ASSUME NEW T, IsFiniteSet(T), NEW f \in [T -> Nat], NEW S \in SUBSET T
  PROVE  Sum(f, S) \in Nat
<1> DEFINE F == {s \in SUBSET S : Sum(f, s) \in Nat}
<1>1. {} \in F
  BY SumEmpty
<1>2. ASSUME NEW s \in SUBSET S, NEW x \in S \ s, s \in F PROVE s \cup {x} \in F
  <2>1. Sum(f, s \cup {x}) = f[x] + Sum(f, s) /\ f[x] \in Nat
    <3>1. f \in [T -> Int] /\ s \in SUBSET T /\ x \in T \ s
      OBVIOUS
    <3> QED BY <3>1, SumAdd
  <2> QED BY <1>2, <2>1
<1>3. IsFiniteSet(S)
  BY FS_Subset
<1> HIDE DEF F
<1>4. S \in F
  BY <1>1, <1>2, <1>3, FiniteSetInduction
<1> QED BY <1>4 DEF F

\* A member's value, and two members' together, are at most the sum.
LEMMA SumAtLeast ==
  ASSUME NEW T, IsFiniteSet(T), NEW f \in [T -> Nat], NEW S \in SUBSET T, NEW x \in S
  PROVE  /\ f[x] <= Sum(f, S)
         /\ \A y \in S \ {x} : f[x] + f[y] <= Sum(f, S)
<1>1. f \in [T -> Int] /\ S \ {x} \in SUBSET T /\ f[x] \in Nat
  OBVIOUS
<1>2. Sum(f, S) = f[x] + Sum(f, S \ {x}) /\ Sum(f, S \ {x}) \in Nat
  BY <1>1, SumRemove, SumNatural
<1>3. ASSUME NEW y \in S \ {x} PROVE f[x] + f[y] <= Sum(f, S)
  <2>1. Sum(f, S \ {x}) = f[y] + Sum(f, (S \ {x}) \ {y}) /\ Sum(f, (S \ {x}) \ {y}) \in Nat
    BY <1>1, SumRemove, SumNatural
  <2>2. f[y] \in Nat
    OBVIOUS
  <2> QED BY <1>1, <1>2, <2>1, <2>2
<1> QED BY <1>1, <1>2, <1>3

\* Functions that agree on a set have the same sum over it.
LEMMA SumAgree ==
  ASSUME NEW T, IsFiniteSet(T), NEW f \in [T -> Int], NEW U, IsFiniteSet(U), NEW h \in [U -> Int],
         NEW S \in SUBSET T, S \in SUBSET U, \A x \in S : f[x] = h[x]
  PROVE  Sum(f, S) = Sum(h, S)
<1> DEFINE F == {s \in SUBSET S : Sum(f, s) = Sum(h, s)}
<1>1. {} \in F
  BY SumEmpty
<1>2. ASSUME NEW s \in SUBSET S, NEW x \in S \ s, s \in F PROVE s \cup {x} \in F
  <2>1. s \in SUBSET T /\ x \in T \ s /\ s \in SUBSET U /\ x \in U \ s
    OBVIOUS
  <2>2. Sum(f, s \cup {x}) = f[x] + Sum(f, s) /\ Sum(h, s \cup {x}) = h[x] + Sum(h, s)
    BY <2>1, SumAdd
  <2> QED BY <1>2, <2>2
<1>3. IsFiniteSet(S)
  BY FS_Subset
<1> HIDE DEF F
<1>4. S \in F
  BY <1>1, <1>2, <1>3, FiniteSetInduction
<1> QED BY <1>4 DEF F

\* What a function gains in sum with the member e of T = S \cup {e}.
Gains(S, e, T) ==
  \A f \in [T -> Int], g \in [S -> Int] :
    (\A x \in S : f[x] = g[x]) => Sum(f, T) = f[e] + Sum(g, S)

\* The members that T and S share add the same.
LEMMA SumGrows ==
  ASSUME NEW S, IsFiniteSet(S), NEW e, e \notin S, NEW T, S \subseteq T, e \in T, T \ {e} \subseteq S
  PROVE  Gains(S, e, T)
<1> SUFFICES ASSUME NEW f \in [T -> Int], NEW g \in [S -> Int], \A x \in S : f[x] = g[x]
             PROVE  Sum(f, T) = f[e] + Sum(g, S)
  BY DEF Gains
<1>1. T = S \cup {e}
  OBVIOUS
<1>2. IsFiniteSet(T)
  <2>1. IsFiniteSet(S \cup {e})
    BY FS_AddElement
  <2> QED BY <1>1, <2>1
<1>3. S \in SUBSET T /\ S \in SUBSET S /\ e \in T \ S
  OBVIOUS
<1>4. Sum(f, S) = Sum(g, S)
  BY <1>2, <1>3, SumAgree
<1>5. Sum(f, S \cup {e}) = f[e] + Sum(f, S)
  BY <1>2, <1>3, SumAdd
<1> QED BY <1>1, <1>4, <1>5

=============================================================================
