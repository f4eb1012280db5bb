---------------------------- MODULE Results_proofs -----------------------------
(***************************************************************************)
(* Proofs about what a run leaves behind.                                  *)
(*                                                                         *)
(* RunStore, for any run ids, any lanes and any number of invocations:     *)
(* run-metadata.json is a ledger of the invocations that completed, and    *)
(* one that was cut short stays so.                                        *)
(*                                                                         *)
(* Comparison, for any requests, any definitions, any number of repeats    *)
(* and any means: lanes that were measured are in the ranking, compare and *)
(* report agree, and the leaders of a report deserve it.                   *)
(***************************************************************************)
EXTENDS RunStore, Comparison, SequenceTheorems, FiniteSetTheorems, WellFoundedInduction, TLAPS

(***************************************************************************)
(* Lemmas about the operators on sequences.  The induction theorems of the *)
(* library take a predicate as a parameter; here each induction is over a  *)
(* set of counterexamples instead, which has a least member if it has any. *)
(***************************************************************************)

\* A set of numbers that is not empty has a least one: what every induction below
\* rests on (the least counterexample).
LEMMA LeastNumber ==
  ASSUME NEW T, T \subseteq Nat, T # {}
  PROVE  \E n \in T : \A m \in T : n <= m
<1>1. PICK n \in T : \A m \in T : ~ (<<m, n>> \in OpToRel(<, Nat))
  BY NatLessThanWellFounded, WFMin
<1>2. \A m \in T : ~ (m < n)
  BY <1>1 DEF OpToRel
<1> QED BY <1>2

\* F is the function that Filter declares, on the first k elements of s.
Filters(F, s, S, k) ==
  F = [n \in 0 .. k |-> IF n = 0 THEN <<>>
                        ELSE IF s[n] \in S THEN Append(F[n - 1], s[n]) ELSE F[n - 1]]

\* There is such a function.
LEMMA FiltersExists ==
  ASSUME NEW s, NEW S, NEW m \in Nat
  PROVE  \E F : Filters(F, s, S, m)
<1> DEFINE Bad == {k \in Nat : ~ \E F : Filters(F, s, S, k)}
<1>1. SUFFICES ASSUME Bad # {} PROVE FALSE
  OBVIOUS
<1>2. PICK k \in Bad : \A j \in Bad : k <= j
  BY <1>1, LeastNumber
<1>3. CASE k = 0
  <2> DEFINE F == [n \in 0 .. 0 |-> <<>>]
  <2>1. Filters(F, s, S, 0)
    BY DEF Filters
  <2> QED BY <2>1, <1>3, <1>2
<1>4. CASE k # 0
  <2>1. k - 1 \in Nat /\ k - 1 \notin Bad
    BY <1>2, <1>4
  <2>2. PICK F : Filters(F, s, S, k - 1)
    BY <2>1
  <2> DEFINE G == [n \in 0 .. k |-> IF n = k THEN IF s[k] \in S THEN Append(F[k - 1], s[k]) ELSE F[k - 1] ELSE F[n]]
  <2>3. \A n \in 0 .. k - 1 : F[n] = IF n = 0 THEN <<>>
                        ELSE IF s[n] \in S THEN Append(F[n - 1], s[n]) ELSE F[n - 1]
    BY <2>2 DEF Filters
  <2>4. \A n \in 0 .. k : G[n] = IF n = 0 THEN <<>>
                        ELSE IF s[n] \in S THEN Append(G[n - 1], s[n]) ELSE G[n - 1]
    <3>1. G[k] = IF s[k] \in S THEN Append(G[k - 1], s[k]) ELSE G[k - 1]
      BY <2>1, <1>4
    <3>2. \A n \in 0 .. k - 1 : G[n] = IF n = 0 THEN <<>>
                        ELSE IF s[n] \in S THEN Append(G[n - 1], s[n]) ELSE G[n - 1]
      BY <2>3, <2>1
    <3> HIDE DEF G
    <3> QED BY <3>1, <3>2, <1>4, <2>1
  <2>5. Filters(G, s, S, k)
    <3>1. G = [n \in 0 .. k |-> G[n]]
      OBVIOUS
    <3> HIDE DEF G
    <3> QED BY <3>1, <2>4 DEF Filters
  <2> QED BY <2>5, <1>2
<1> QED BY <1>3, <1>4

\* Its value at one place.
LEMMA FiltersAt ==
  ASSUME NEW s, NEW S, NEW k, NEW F, Filters(F, s, S, k), NEW n \in 0 .. k
  PROVE  F[n] = IF n = 0 THEN <<>> ELSE IF s[n] \in S THEN Append(F[n - 1], s[n]) ELSE F[n - 1]
BY DEF Filters

\* It depends on the elements before this place only.
LEMMA FiltersAgree ==
  ASSUME NEW s, NEW t, NEW S, NEW k \in Nat, NEW m \in Nat, k <= m,
         NEW F, NEW G, Filters(F, s, S, k), Filters(G, t, S, m),
         \A i \in 1 .. k : s[i] = t[i]
  PROVE  \A n \in 0 .. k : F[n] = G[n]
<1> DEFINE Bad == {n \in 0 .. k : F[n] # G[n]}
<1>1. SUFFICES ASSUME Bad # {} PROVE FALSE
  OBVIOUS
<1>2. PICK n \in Bad : \A j \in Bad : n <= j
  <2>1. Bad \subseteq Nat
    OBVIOUS
  <2> QED BY <1>1, <2>1, LeastNumber
<1>3. F[n] = IF n = 0 THEN <<>> ELSE IF s[n] \in S THEN Append(F[n - 1], s[n]) ELSE F[n - 1]
  BY <1>2 DEF Filters
<1>4. G[n] = IF n = 0 THEN <<>> ELSE IF t[n] \in S THEN Append(G[n - 1], t[n]) ELSE G[n - 1]
  <2>1. n \in 0 .. m
    BY <1>2
  <2> HIDE DEF Bad
  <2> QED BY <2>1, FiltersAt
<1>5. n # 0 => F[n - 1] = G[n - 1] /\ s[n] = t[n]
  BY <1>2
<1> QED BY <1>2, <1>3, <1>4, <1>5

\* Its values are sequences of the elements of s.
LEMMA FiltersType ==
  ASSUME NEW A, NEW s \in Seq(A), NEW S, NEW F, Filters(F, s, S, Len(s))
  PROVE  \A n \in 0 .. Len(s) : F[n] \in Seq(A)
<1> DEFINE Bad == {n \in 0 .. Len(s) : F[n] \notin Seq(A)}
<1>1. SUFFICES ASSUME Bad # {} PROVE FALSE
  OBVIOUS
<1>2. PICK n \in Bad : \A j \in Bad : n <= j
  <2>1. Bad \subseteq Nat
    OBVIOUS
  <2> QED BY <1>1, <2>1, LeastNumber
<1>3. F[n] = IF n = 0 THEN <<>> ELSE IF s[n] \in S THEN Append(F[n - 1], s[n]) ELSE F[n - 1]
  BY <1>2 DEF Filters
<1>4. Len(s) \in Nat
  BY LenProperties
<1>5. n # 0 => F[n - 1] \in Seq(A) /\ s[n] \in A
  BY <1>2, <1>4, ElementOfSeq
<1>6. F[n] \in Seq(A)
  <2> HIDE DEF Bad
  <2>1. CASE n = 0
    BY <2>1, <1>3, EmptySeq
  <2>2. CASE n # 0 /\ s[n] \in S
    BY <2>2, <1>3, <1>5, AppendProperties
  <2>3. CASE n # 0 /\ s[n] \notin S
    BY <2>3, <1>3, <1>5
  <2> QED BY <2>1, <2>2, <2>3
<1> QED BY <1>2, <1>6

\* Filter is its last value.
LEMMA FilterValue ==
  ASSUME NEW A, NEW s \in Seq(A), NEW S
  PROVE  \E F : Filters(F, s, S, Len(s)) /\ Filter(s, S) = F[Len(s)]
<1> DEFINE F == CHOOSE F : Filters(F, s, S, Len(s))
<1>1. Len(s) \in Nat
  BY LenProperties
<1>2. \E G : Filters(G, s, S, Len(s))
  BY <1>1, FiltersExists
<1>3. Filters(F, s, S, Len(s))
  BY <1>2
<1>4. Filter(s, S) = F[Len(s)]
  BY DEF Filter, Filters
<1> HIDE DEF F
<1> QED BY <1>3, <1>4

\* What is left of a sequence has the type of its elements.
LEMMA FilterType ==
  ASSUME NEW A, NEW s \in Seq(A), NEW S
  PROVE  Filter(s, S) \in Seq(A)
BY FilterValue, FiltersType, LenProperties

\* Nothing is left of nothing.
LEMMA FilterEmpty == \A S : Filter(<<>>, S) = <<>>
<1> TAKE S
<1>1. PICK F : Filters(F, <<>>, S, Len(<<>>)) /\ Filter(<<>>, S) = F[Len(<<>>)]
  <2>1. <<>> \in Seq({})
    OBVIOUS
  <2> QED BY <2>1, FilterValue
<1> QED BY <1>1 DEF Filters

\* Filtering while a sequence grows, as failed_commands does.
LEMMA FilterAppend ==
  ASSUME NEW A, NEW s \in Seq(A), NEW e \in A, NEW S
  PROVE  Filter(Append(s, e), S) = IF e \in S THEN Append(Filter(s, S), e) ELSE Filter(s, S)
<1> DEFINE t == Append(s, e)
<1>1. t \in Seq(A) /\ Len(t) = Len(s) + 1 /\ Len(s) \in Nat /\ t[Len(t)] = e
      /\ \A i \in 1 .. Len(s) : t[i] = s[i]
  BY AppendProperties, LenProperties
<1> HIDE DEF t
<1>2. PICK F : Filters(F, s, S, Len(s)) /\ Filter(s, S) = F[Len(s)]
  BY FilterValue
<1>3. PICK G : Filters(G, t, S, Len(t)) /\ Filter(t, S) = G[Len(t)]
  BY <1>1, FilterValue
<1>4. F[Len(s)] = G[Len(s)]
  <2>1. Len(s) <= Len(t) /\ Len(t) \in Nat /\ Len(s) \in 0 .. Len(s)
    BY <1>1
  <2>2. \A i \in 1 .. Len(s) : s[i] = t[i]
    BY <1>1
  <2>3. \A n \in 0 .. Len(s) : F[n] = G[n]
    <3>1. \A k, m \in Nat :
            k <= m /\ Filters(F, s, S, k) /\ Filters(G, t, S, m) /\ (\A i \in 1 .. k : s[i] = t[i])
            => \A n \in 0 .. k : F[n] = G[n]
      BY FiltersAgree
    <3> QED BY <2>1, <2>2, <1>1, <1>2, <1>3, <3>1
  <2> QED BY <2>1, <2>3
<1>5. G[Len(t)] = IF t[Len(t)] \in S THEN Append(G[Len(s)], t[Len(t)]) ELSE G[Len(s)]
  <2>1. Len(t) \in 0 .. Len(t) /\ Len(t) # 0 /\ Len(t) - 1 = Len(s)
    BY <1>1
  <2>2. G[Len(t)] = IF Len(t) = 0 THEN <<>> ELSE IF t[Len(t)] \in S THEN Append(G[Len(t) - 1], t[Len(t)]) ELSE G[Len(t) - 1]
    BY <2>1, <1>3, FiltersAt
  <2> QED BY <2>1, <2>2
<1>6. Filter(t, S) = IF e \in S THEN Append(Filter(s, S), e) ELSE Filter(s, S)
  BY <1>1, <1>2, <1>3, <1>4, <1>5
<1> QED BY <1>6 DEF t

\* A sequence of one element is kept or not.
LEMMA FilterOne ==
  ASSUME NEW A, NEW e \in A, NEW S
  PROVE  Filter(<<e>>, S) = IF e \in S THEN <<e>> ELSE <<>>
<1>1. PICK n \in Seq(A) : n = <<>>
  BY EmptySeq
<1>2. Append(n, e) = <<e>>
  BY <1>1
<1>3. Filter(Append(n, e), S) = IF e \in S THEN Append(Filter(n, S), e) ELSE Filter(n, S)
  BY FilterAppend
<1>4. Filter(n, S) = n
  BY <1>1, FilterEmpty
<1> QED BY <1>1, <1>2, <1>3, <1>4

\* Append moves into a concatenation.
ConcatOfAppend(a, b, e) == Append(a \o b, e) = a \o Append(b, e)

\* It does so for any sequences.
LEMMA AppendToConcat ==
  ASSUME NEW A, NEW a \in Seq(A), NEW b \in Seq(A), NEW e \in A
  PROVE  ConcatOfAppend(a, b, e)
BY DEF ConcatOfAppend

\* Filtering two sequences that are merged is merging what is left of each.
LEMMA FilterConcat ==
  ASSUME NEW A, NEW s \in Seq(A), NEW t \in Seq(A), NEW S
  PROVE  Filter(s \o t, S) = Filter(s, S) \o Filter(t, S)
<1> DEFINE Bad == {k \in Nat : \E u \in Seq(A) : Len(u) = k /\ Filter(s \o u, S) # Filter(s, S) \o Filter(u, S)}
<1>1. SUFFICES ASSUME Bad # {} PROVE FALSE
  BY LenProperties
<1>2. PICK k \in Bad : \A j \in Bad : k <= j
  BY <1>1, LeastNumber
<1>3. PICK u \in Seq(A) : Len(u) = k /\ Filter(s \o u, S) # Filter(s, S) \o Filter(u, S)
  BY <1>2
<1>4. CASE u = <<>>
  BY <1>3, <1>4, FilterEmpty, FilterType, ConcatEmptySeq
<1>5. CASE u # <<>>
  <2>1. PICK v \in Seq(A), e \in A : u = Append(v, e) /\ Len(u) = Len(v) + 1 /\ Len(v) \in Nat
    BY <1>5, SequenceEmptyOrAppend, AppendProperties, LenProperties
  <2>2. Filter(s \o v, S) = Filter(s, S) \o Filter(v, S)
    BY <2>1, <1>2, <1>3
  <2>3. s \o u = Append(s \o v, e) /\ s \o v \in Seq(A)
    BY SMTT(30), <2>1
  <2>4. Filter(s, S) \in Seq(A) /\ Filter(v, S) \in Seq(A)
    BY <2>1, FilterType
  <2>5. Filter(s \o u, S) = IF e \in S THEN Append(Filter(s, S) \o Filter(v, S), e) ELSE Filter(s, S) \o Filter(v, S)
    <3>1. \A w \in Seq(A) : Filter(Append(w, e), S) = IF e \in S THEN Append(Filter(w, S), e) ELSE Filter(w, S)
      BY SMTT(30), <2>1, FilterAppend
    <3> QED BY <2>2, <2>3, <3>1
  <2>6. Filter(u, S) = IF e \in S THEN Append(Filter(v, S), e) ELSE Filter(v, S)
    BY <2>1, FilterAppend
  <2>7. Append(Filter(s, S) \o Filter(v, S), e) = Filter(s, S) \o Append(Filter(v, S), e)
    <3>1. ConcatOfAppend(Filter(s, S), Filter(v, S), e)
      BY <2>4, AppendToConcat
    <3> QED BY <3>1 DEF ConcatOfAppend
  <2> QED BY <1>3, <2>5, <2>6, <2>7
<1> QED BY <1>4, <1>5

\* What is kept can be found, and where at most one element is kept there is at most
\* one to keep.
Keeps(s, S) ==
  /\ \A i \in 1 .. Len(s) : s[i] \in S =>
       \E j \in 1 .. Len(Filter(s, S)) : Filter(s, S)[j] = s[i]
  /\ Len(Filter(s, S)) <= 1 =>
       \A i, j \in 1 .. Len(s) : s[i] \in S /\ s[j] \in S => i = j

\* It can be found in any sequence.
LEMMA FilterKeeps ==
  ASSUME NEW A, NEW s \in Seq(A), NEW S
  PROVE  Keeps(s, S)
<1> DEFINE Bad == {k \in Nat : \E u \in Seq(A) : Len(u) = k /\ ~ Keeps(u, S)}
<1>1. SUFFICES ASSUME Bad # {} PROVE FALSE
  BY LenProperties
<1>2. PICK k \in Bad : \A j \in Bad : k <= j
  BY <1>1, LeastNumber
<1>3. PICK u \in Seq(A) : Len(u) = k /\ ~ Keeps(u, S)
  BY <1>2
<1>4. CASE u = <<>>
  BY <1>3, <1>4 DEF Keeps
<1>5. CASE u # <<>>
  <2>1. PICK v \in Seq(A), e \in A : u = Append(v, e)
    BY <1>5, SequenceEmptyOrAppend
  <2>2. /\ Len(v) \in Nat /\ Len(u) = Len(v) + 1 /\ u[Len(u)] = e
        /\ \A i \in 1 .. Len(v) : u[i] = v[i]
    BY <2>1, AppendProperties, LenProperties
  <2>3. Keeps(v, S)
    BY <1>2, <1>3, <2>2
  <2>4. PICK f \in Seq(A), g \in Seq(A) : f = Filter(v, S) /\ g = Filter(u, S)
    BY FilterType
  <2>5. g = IF e \in S THEN Append(f, e) ELSE f
    BY SMTT(30), <2>1, <2>4, FilterAppend
  <2>6. Len(f) \in Nat
    BY LenProperties
  <2>7. /\ \A i \in 1 .. Len(v) : v[i] \in S => \E j \in 1 .. Len(f) : f[j] = v[i]
        /\ Len(f) <= 1 => \A i, j \in 1 .. Len(v) : v[i] \in S /\ v[j] \in S => i = j
    BY <2>3, <2>4 DEF Keeps
  <2>8. CASE e \in S
    <3>1. /\ Len(g) = Len(f) + 1 /\ g[Len(g)] = e
          /\ \A j \in 1 .. Len(f) : g[j] = f[j]
      BY <2>5, <2>8, AppendProperties
    <3>2. \A i \in 1 .. Len(u) : u[i] \in S => \E j \in 1 .. Len(g) : g[j] = u[i]
      <4> SUFFICES ASSUME NEW i \in 1 .. Len(u), u[i] \in S
                   PROVE  \E j \in 1 .. Len(g) : g[j] = u[i]
        OBVIOUS
      <4>1. CASE i = Len(u)
        BY <4>1, <2>2, <2>6, <3>1
      <4>2. CASE i # Len(u)
        <5>1. i \in 1 .. Len(v) /\ v[i] \in S
          BY <4>2, <2>2
        <5>2. PICK j \in 1 .. Len(f) : f[j] = v[i]
          BY <5>1, <2>7
        <5>3. j \in 1 .. Len(g) /\ g[j] = u[i]
          BY <5>1, <5>2, <2>2, <2>6, <3>1
        <5> QED BY <5>3
      <4> QED BY <4>1, <4>2
    <3>3. Len(g) <= 1 => \A i, j \in 1 .. Len(u) : u[i] \in S /\ u[j] \in S => i = j
      <4> SUFFICES ASSUME Len(g) <= 1 PROVE \A i \in 1 .. Len(u) : u[i] \in S => i = Len(u)
        BY <2>2
      <4>1. Len(f) = 0
        BY <3>1, <2>6
      <4>2. \A i \in 1 .. Len(v) : v[i] \notin S
        BY <4>1, <2>7
      <4>3. \A i \in 1 .. Len(u) : i # Len(u) => i \in 1 .. Len(v) /\ u[i] = v[i]
        BY <2>2
      <4> QED BY <4>2, <4>3
    <3>4. Keeps(u, S)
      BY <2>4, <3>2, <3>3 DEF Keeps
    <3> QED BY <1>3, <3>4
  <2>9. CASE e \notin S
    <3>1. g = f
      BY <2>5, <2>9
    <3>2. \A i \in 1 .. Len(u) : u[i] \in S => i \in 1 .. Len(v) /\ v[i] = u[i]
      BY <2>2, <2>9
    <3>3. \A i \in 1 .. Len(u) : u[i] \in S => \E j \in 1 .. Len(g) : g[j] = u[i]
      BY <2>7, <3>1, <3>2
    <3>4. Len(g) <= 1 => \A i, j \in 1 .. Len(u) : u[i] \in S /\ u[j] \in S => i = j
      BY <2>7, <3>1, <3>2
    <3>5. Keeps(u, S)
      BY <2>4, <3>3, <3>4 DEF Keeps
    <3> QED BY <1>3, <3>5
  <2> QED BY <2>8, <2>9
<1> QED BY <1>4, <1>5

\* The same, for the steps in which the provers do not find the instance of it.
FilterOfConcat(s, t, S) == Filter(s \o t, S) = Filter(s, S) \o Filter(t, S)

LEMMA FilterConcatenation ==
  ASSUME NEW A, NEW s \in Seq(A), NEW t \in Seq(A), NEW S
  PROVE  FilterOfConcat(s, t, S)
BY FilterConcat DEF FilterOfConcat

\* F is the function that FlattenSeq declares, on the first k sequences of q.
Flattens(F, q, k) == F = [i \in 1 .. k |-> IF i = 1 THEN q[i] ELSE F[i - 1] \o q[i]]

\* There is such a function.
LEMMA FlattensExists ==
  ASSUME NEW q, NEW m \in Nat
  PROVE  \E F : Flattens(F, q, m)
<1> DEFINE Bad == {k \in Nat : ~ \E F : Flattens(F, q, k)}
<1>1. SUFFICES ASSUME Bad # {} PROVE FALSE
  OBVIOUS
<1>2. PICK k \in Bad : \A j \in Bad : k <= j
  BY <1>1, LeastNumber
<1>3. CASE k = 0
  <2> DEFINE F == [i \in 1 .. 0 |-> <<>>]
  <2>1. Flattens(F, q, 0)
    BY DEF Flattens
  <2> QED BY <2>1, <1>3, <1>2
<1>4. CASE k # 0
  <2>1. k - 1 \in Nat /\ k - 1 \notin Bad
    BY <1>2, <1>4
  <2>2. PICK F : Flattens(F, q, k - 1)
    BY <2>1
  <2> DEFINE G == [i \in 1 .. k |-> IF i = k THEN IF i = 1 THEN q[i] ELSE F[i - 1] \o q[i] ELSE F[i]]
  <2>3. \A i \in 1 .. k - 1 : F[i] = IF i = 1 THEN q[i] ELSE F[i - 1] \o q[i]
    BY <2>2 DEF Flattens
  <2>4. \A i \in 1 .. k : G[i] = IF i = 1 THEN q[i] ELSE G[i - 1] \o q[i]
    <3>1. G[k] = IF k = 1 THEN q[k] ELSE G[k - 1] \o q[k]
      BY <2>1, <1>4
    <3>2. \A i \in 1 .. k - 1 : G[i] = IF i = 1 THEN q[i] ELSE G[i - 1] \o q[i]
      BY <2>3, <2>1
    <3> HIDE DEF G
    <3> QED BY <3>1, <3>2, <1>4, <2>1
  <2>5. Flattens(G, q, k)
    <3>1. G = [i \in 1 .. k |-> G[i]]
      OBVIOUS
    <3> HIDE DEF G
    <3> QED BY <3>1, <2>4 DEF Flattens
  <2> QED BY <2>5, <1>2
<1> QED BY <1>3, <1>4

\* Sequences of rows, one after the other, are a sequence of rows.
LEMMA FlattenType ==
  ASSUME NEW A, NEW q \in Seq(Seq(A))
  PROVE  FlattenSeq(q) \in Seq(A)
<1>1. CASE Len(q) = 0
  BY <1>1, EmptySeq DEF FlattenSeq
<1>2. CASE Len(q) # 0
  <2>1. Len(q) \in Nat
    BY LenProperties
  <2>2. PICK F : Flattens(F, q, Len(q)) /\ FlattenSeq(q) = F[Len(q)]
    BY <1>2, <2>1, FlattensExists DEF FlattenSeq, Flattens
  <2> DEFINE Bad == {i \in 1 .. Len(q) : F[i] \notin Seq(A)}
  <2>3. SUFFICES ASSUME Bad # {} PROVE FALSE
    BY <1>2, <2>1, <2>2
  <2>4. PICK i \in Bad : \A j \in Bad : i <= j
    <3>1. Bad \subseteq Nat
      OBVIOUS
    <3> QED BY <2>3, <3>1, LeastNumber
  <2>5. F[i] = IF i = 1 THEN q[i] ELSE F[i - 1] \o q[i]
    BY <2>2, <2>4 DEF Flattens
  <2>6. q[i] \in Seq(A)
    BY <2>1, <2>4, ElementOfSeq
  <2>7. i # 1 => F[i - 1] \in Seq(A)
    BY <2>1, <2>4
  <2> QED BY ZenonT(40), <2>4, <2>5, <2>6, <2>7, ConcatProperties
<1> QED BY <1>1, <1>2
\* If only one of some sequences has anything to keep, it is what is kept of all.
LEMMA FilterFlatten ==
  ASSUME NEW A, NEW q \in Seq(Seq(A)), NEW S, NEW i0,
         \A i \in 1 .. Len(q) : i # i0 => Filter(q[i], S) = <<>>
  PROVE  Filter(FlattenSeq(q), S) = IF i0 \in 1 .. Len(q) THEN Filter(q[i0], S) ELSE <<>>
<1>1. CASE Len(q) = 0
  <2>1. FlattenSeq(q) = q /\ q = <<>>
    BY <1>1, LenProperties DEF FlattenSeq
  <2> QED BY <2>1, <1>1, FilterEmpty
<1>2. CASE Len(q) # 0
  <2>1. Len(q) \in Nat
    BY LenProperties
  <2>2. PICK F : Flattens(F, q, Len(q)) /\ FlattenSeq(q) = F[Len(q)]
    BY <1>2, <2>1, FlattensExists DEF FlattenSeq, Flattens
  <2> DEFINE Kept(k) == IF i0 \in 1 .. k THEN Filter(q[i0], S) ELSE <<>>
             Bad == {k \in 1 .. Len(q) : ~ (F[k] \in Seq(A) /\ Filter(F[k], S) = Kept(k))}
  <2>3. SUFFICES ASSUME Bad # {} PROVE FALSE
    BY <1>2, <2>1, <2>2
  <2>4. PICK k \in Bad : \A j \in Bad : k <= j
    <3>1. Bad \subseteq Nat
      OBVIOUS
    <3> QED BY <2>3, <3>1, LeastNumber
  <2>5. F[k] = IF k = 1 THEN q[k] ELSE F[k - 1] \o q[k]
    BY <2>2, <2>4 DEF Flattens
  <2>6. q[k] \in Seq(A) /\ Filter(q[k], S) \in Seq(A)
    BY <2>1, <2>4, ElementOfSeq, FilterType
  <2>7. k # i0 => Filter(q[k], S) = <<>>
    BY <2>4
  <2>8. CASE k = 1
    <3>1. Kept(1) = Filter(q[1], S)
      BY <2>7, <2>8
    <3> QED BY <3>1, <2>4, <2>5, <2>6, <2>8
  <2>9. CASE k # 1
    <3>1. k - 1 \in 1 .. Len(q) /\ k - 1 \notin Bad
      BY <2>1, <2>4, <2>9
    <3>2. F[k - 1] \in Seq(A) /\ Filter(F[k - 1], S) = Kept(k - 1)
      BY <3>1
    <3>3. PICK f \in Seq(A), p \in Seq(A) : f = F[k - 1] /\ p = q[k]
      BY <3>2, <2>6
    <3>4. F[k] = f \o p /\ F[k] \in Seq(A)
      BY ZenonT(40), <2>5, <2>9, <3>3, ConcatProperties
    <3>5. Filter(f \o p, S) = Filter(f, S) \o Filter(p, S)
      <4>1. FilterOfConcat(f, p, S)
        BY FilterConcatenation
      <4> QED BY <4>1 DEF FilterOfConcat
    <3>6. PICK a \in Seq(A), b \in Seq(A) : a = Filter(f, S) /\ b = Filter(p, S)
      BY FilterType
    <3>7. a \o b = Kept(k)
      <4>1. CASE k = i0
        <5>1. a = <<>> /\ Kept(k) = b
          BY <4>1, <2>1, <2>4, <3>2, <3>3, <3>6
        <5> QED BY <5>1
      <4>2. CASE k # i0
        <5>1. b = <<>> /\ Kept(k) = a
          BY <4>2, <2>1, <2>4, <2>7, <2>9, <3>2, <3>3, <3>6
        <5> QED BY <5>1
      <4> QED BY <4>1, <4>2
    <3> HIDE DEF Kept
    <3> QED BY <2>4, <3>4, <3>5, <3>6, <3>7
  <2> QED BY <2>8, <2>9
<1> QED BY <1>1, <1>2

\* What is kept are elements of the sequence that are in the set; where there is at most
\* one to keep at most one is kept.
KeepsOnly(s, S) ==
  /\ \A j \in 1 .. Len(Filter(s, S)) :
       Filter(s, S)[j] \in S /\ \E i \in 1 .. Len(s) : s[i] = Filter(s, S)[j]
  /\ (\A i, j \in 1 .. Len(s) : s[i] \in S /\ s[j] \in S => i = j) => Len(Filter(s, S)) <= 1

LEMMA FilterKeepsOnly ==
  ASSUME NEW A, NEW s \in Seq(A), NEW S
  PROVE  KeepsOnly(s, S)
<1> DEFINE Bad == {k \in Nat : \E u \in Seq(A) : Len(u) = k /\ ~ KeepsOnly(u, S)}
<1>1. SUFFICES ASSUME Bad # {} PROVE FALSE
  BY LenProperties
<1>2. PICK k \in Bad : \A j \in Bad : k <= j
  BY <1>1, LeastNumber
<1>3. PICK u \in Seq(A) : Len(u) = k /\ ~ KeepsOnly(u, S)
  BY <1>2
<1>4. CASE u = <<>>
  <2>1. Filter(u, S) = <<>>
    BY <1>4, FilterEmpty
  <2> QED BY <2>1, <1>3 DEF KeepsOnly
<1>5. CASE u # <<>>
  <2>1. PICK v \in Seq(A), e \in A : u = Append(v, e)
    BY <1>5, SequenceEmptyOrAppend
  <2>2. /\ Len(v) \in Nat /\ Len(u) = Len(v) + 1 /\ u[Len(u)] = e
        /\ \A i \in 1 .. Len(v) : u[i] = v[i]
    BY <2>1, AppendProperties, LenProperties
  <2>3. KeepsOnly(v, S)
    BY <1>2, <1>3, <2>2
  <2>4. PICK f \in Seq(A), g \in Seq(A) : f = Filter(v, S) /\ g = Filter(u, S)
    BY FilterType
  <2>5. g = IF e \in S THEN Append(f, e) ELSE f
    BY SMTT(30), <2>1, <2>4, FilterAppend
  <2>6. Len(f) \in Nat
    BY LenProperties
  <2>7. /\ \A j \in 1 .. Len(f) : f[j] \in S /\ \E i \in 1 .. Len(v) : v[i] = f[j]
        /\ (\A i, j \in 1 .. Len(v) : v[i] \in S /\ v[j] \in S => i = j) => Len(f) <= 1
    BY <2>3, <2>4 DEF KeepsOnly
  <2>8. \A j \in 1 .. Len(f) : \E i \in 1 .. Len(u) : u[i] = f[j]
    BY <2>2, <2>7
  <2>9. CASE e \in S
    <3>1. /\ Len(g) = Len(f) + 1 /\ g[Len(g)] = e
          /\ \A j \in 1 .. Len(f) : g[j] = f[j]
      BY <2>5, <2>9, AppendProperties
    <3>2. \A j \in 1 .. Len(g) : g[j] \in S /\ \E i \in 1 .. Len(u) : u[i] = g[j]
      <4> SUFFICES ASSUME NEW j \in 1 .. Len(g)
                   PROVE  g[j] \in S /\ \E i \in 1 .. Len(u) : u[i] = g[j]
        OBVIOUS
      <4>1. CASE j = Len(g)
        <5>1. g[j] = e /\ Len(u) \in 1 .. Len(u)
          BY <4>1, <2>2, <3>1
        <5> QED BY <5>1, <2>2, <2>9
      <4>2. CASE j # Len(g)
        <5>1. j \in 1 .. Len(f) /\ g[j] = f[j]
          BY <4>2, <2>6, <3>1
        <5> QED BY <5>1, <2>7, <2>8
      <4> QED BY <4>1, <4>2
    <3>3. (\A i, j \in 1 .. Len(u) : u[i] \in S /\ u[j] \in S => i = j) => Len(g) <= 1
      <4> SUFFICES ASSUME \A i, j \in 1 .. Len(u) : u[i] \in S /\ u[j] \in S => i = j
                   PROVE  Len(f) = 0
        BY <3>1
      <4>1. \A i \in 1 .. Len(v) : v[i] \notin S
        BY <2>2, <2>9
      <4>2. \A j \in 1 .. Len(f) : FALSE
        BY <2>7, <4>1
      <4> QED BY <4>2, <2>6
    <3>4. KeepsOnly(u, S)
      BY <2>4, <3>2, <3>3 DEF KeepsOnly
    <3> QED BY <1>3, <3>4
  <2>10. CASE e \notin S
    <3>1. g = f
      BY <2>5, <2>10
    <3>2. (\A i, j \in 1 .. Len(u) : u[i] \in S /\ u[j] \in S => i = j) => Len(g) <= 1
      <4> SUFFICES ASSUME \A i, j \in 1 .. Len(u) : u[i] \in S /\ u[j] \in S => i = j
                   PROVE  Len(f) <= 1
        BY <3>1
      <4>1. \A i, j \in 1 .. Len(v) : v[i] \in S /\ v[j] \in S => i = j
        BY <2>2
      <4> QED BY <4>1, <2>7
    <3>3. KeepsOnly(u, S)
      BY <2>4, <2>7, <2>8, <3>1, <3>2 DEF KeepsOnly
    <3> QED BY <1>3, <3>3
  <2> QED BY <2>9, <2>10
<1> QED BY <1>4, <1>5

\* The elements that are kept are those that are in the set.
LEMMA FilterElements ==
  ASSUME NEW A, NEW s \in Seq(A), NEW S
  PROVE  ToSet(Filter(s, S)) = ToSet(s) \cap S
<1>1. PICK f \in Seq(A) : f = Filter(s, S)
  BY FilterType
<1>2. DOMAIN s = 1 .. Len(s) /\ DOMAIN f = 1 .. Len(f)
  BY LenProperties
<1>3. \A j \in 1 .. Len(f) : f[j] \in S /\ \E i \in 1 .. Len(s) : s[i] = f[j]
  BY <1>1, FilterKeepsOnly DEF KeepsOnly
<1>4. \A i \in 1 .. Len(s) : s[i] \in S => \E j \in 1 .. Len(f) : f[j] = s[i]
  BY <1>1, FilterKeeps DEF Keeps
<1>5. \A x : x \in ToSet(f) <=> x \in ToSet(s) \cap S
  <2> TAKE x
  <2>1. x \in ToSet(f) <=> \E j \in 1 .. Len(f) : f[j] = x
    BY <1>2 DEF ToSet
  <2>2. x \in ToSet(s) <=> \E i \in 1 .. Len(s) : s[i] = x
    BY <1>2 DEF ToSet
  <2> QED BY <2>1, <2>2, <1>3, <1>4
<1> QED BY <1>1, <1>5

\* Nothing is kept where there is nothing to keep.
LEMMA FilterNone ==
  ASSUME NEW A, NEW s \in Seq(A), NEW S, \A i \in 1 .. Len(s) : s[i] \notin S
  PROVE  Filter(s, S) = <<>>
<1>1. PICK f \in Seq(A) : f = Filter(s, S)
  BY FilterType
<1>2. \A j \in 1 .. Len(f) : FALSE
  BY <1>1, FilterKeepsOnly DEF KeepsOnly
<1>3. Len(f) = 0
  BY <1>2, LenProperties
<1>4. f = <<>>
  BY <1>3, EmptySeq
<1> QED BY <1>1, <1>4

\* As many are kept of two sequences that have what to keep at the same places.
SameLength(s, S, t, T) == Len(Filter(s, S)) = Len(Filter(t, T))

LEMMA FilterSameLength ==
  ASSUME NEW A, NEW s \in Seq(A), NEW S, NEW B, NEW t \in Seq(B), NEW T,
         Len(s) = Len(t), \A i \in 1 .. Len(s) : s[i] \in S <=> t[i] \in T
  PROVE  SameLength(s, S, t, T)
<1> DEFINE Bad == {k \in Nat : \E u \in Seq(A), w \in Seq(B) :
                     /\ Len(u) = k /\ Len(w) = k
                     /\ \A i \in 1 .. k : u[i] \in S <=> w[i] \in T
                     /\ ~ SameLength(u, S, w, T)}
<1>1. SUFFICES ASSUME Bad # {} PROVE FALSE
  BY LenProperties
<1>2. PICK k \in Bad : \A j \in Bad : k <= j
  BY <1>1, LeastNumber
<1>3. PICK u \in Seq(A), w \in Seq(B) :
         /\ Len(u) = k /\ Len(w) = k
         /\ \A i \in 1 .. k : u[i] \in S <=> w[i] \in T
         /\ ~ SameLength(u, S, w, T)
  BY <1>2
<1>4. CASE u = <<>>
  <2>1. w = <<>>
    BY <1>3, <1>4, EmptySeq
  <2>2. Filter(u, S) = <<>> /\ Filter(w, T) = <<>>
    BY <1>4, <2>1, FilterEmpty
  <2> QED BY <2>2, <1>3 DEF SameLength
<1>5. CASE u # <<>>
  <2>1. PICK v \in Seq(A), e \in A : u = Append(v, e)
    BY <1>5, SequenceEmptyOrAppend
  <2>2. w # <<>>
    BY <1>3, <1>5, EmptySeq
  <2>3. PICK x \in Seq(B), d \in B : w = Append(x, d)
    BY <2>2, SequenceEmptyOrAppend
  <2>4. /\ Len(v) \in Nat /\ Len(u) = Len(v) + 1 /\ u[Len(u)] = e
        /\ \A i \in 1 .. Len(v) : u[i] = v[i]
    BY <2>1, AppendProperties, LenProperties
  <2>5. /\ Len(x) \in Nat /\ Len(w) = Len(x) + 1 /\ w[Len(w)] = d
        /\ \A i \in 1 .. Len(x) : w[i] = x[i]
    BY <2>3, AppendProperties, LenProperties
  <2>6. Len(v) = k - 1 /\ Len(x) = k - 1 /\ k \in Nat
    BY <1>3, <2>4, <2>5
  <2>7. \A i \in 1 .. k - 1 : v[i] \in S <=> x[i] \in T
    BY <1>3, <2>4, <2>5, <2>6
  <2>8. e \in S <=> d \in T
    BY <1>3, <2>4, <2>5, <2>6
  <2>9. SameLength(v, S, x, T)
    <3>1. k - 1 \notin Bad /\ k - 1 \in Nat
      BY <1>2, <2>4, <2>6
    <3> QED BY <3>1, <2>6, <2>7
  <2>10. PICK f \in Seq(A), g \in Seq(A) : f = Filter(v, S) /\ g = Filter(u, S)
    BY FilterType
  <2>11. PICK h \in Seq(B), m \in Seq(B) : h = Filter(x, T) /\ m = Filter(w, T)
    BY FilterType
  <2>12. g = IF e \in S THEN Append(f, e) ELSE f
    <3>1. Filter(Append(v, e), S) = IF e \in S THEN Append(Filter(v, S), e) ELSE Filter(v, S)
      BY ZenonT(120), FilterAppend
    <3> QED BY <3>1, <2>1, <2>10
  <2>13. m = IF d \in T THEN Append(h, d) ELSE h
    <3>1. Filter(Append(x, d), T) = IF d \in T THEN Append(Filter(x, T), d) ELSE Filter(x, T)
      BY FilterAppend
    <3> QED BY <3>1, <2>3, <2>11
  <2>14. Len(f) = Len(h)
    BY <2>9, <2>10, <2>11 DEF SameLength
  <2>15. Len(Append(f, e)) = Len(f) + 1 /\ Len(Append(h, d)) = Len(h) + 1
    BY AppendProperties
  <2>16. Len(g) = Len(m)
    BY <2>8, <2>12, <2>13, <2>14, <2>15
  <2>17. SameLength(u, S, w, T)
    BY <2>10, <2>11, <2>16 DEF SameLength
  <2> QED BY <1>3, <2>17
<1> QED BY <1>4, <1>5

\* Filtering what was kept is filtering once.
FilterTwice(s, S, T) == Filter(Filter(s, S), T) = Filter(s, S \cap T)

LEMMA FilterOfFilter ==
  ASSUME NEW A, NEW s \in Seq(A), NEW S, NEW T
  PROVE  FilterTwice(s, S, T)
<1> DEFINE Bad == {k \in Nat : \E u \in Seq(A) : Len(u) = k /\ ~ FilterTwice(u, S, T)}
<1>1. SUFFICES ASSUME Bad # {} PROVE FALSE
  BY LenProperties
<1>2. PICK k \in Bad : \A j \in Bad : k <= j
  BY <1>1, LeastNumber
<1>3. PICK u \in Seq(A) : Len(u) = k /\ ~ FilterTwice(u, S, T)
  BY <1>2
<1>4. CASE u = <<>>
  BY <1>3, <1>4, FilterEmpty DEF FilterTwice
<1>5. CASE u # <<>>
  <2>1. PICK v \in Seq(A), e \in A : u = Append(v, e)
    BY <1>5, SequenceEmptyOrAppend
  <2>2. Len(v) \in Nat /\ Len(u) = Len(v) + 1
    BY <2>1, AppendProperties, LenProperties
  <2>3. FilterTwice(v, S, T)
    BY <1>2, <1>3, <2>2
  <2>4. PICK f \in Seq(A) : f = Filter(v, S)
    BY FilterType
  <2>5. Filter(u, S) = IF e \in S THEN Append(f, e) ELSE f
    BY SMTT(30), <2>1, <2>4, FilterAppend
  <2>6. Filter(u, S \cap T) = IF e \in S \cap T THEN Append(Filter(v, S \cap T), e) ELSE Filter(v, S \cap T)
    BY <2>1, FilterAppend
  <2>7. Filter(Append(f, e), T) = IF e \in T THEN Append(Filter(f, T), e) ELSE Filter(f, T)
    BY FilterAppend
  <2>8. Filter(f, T) = Filter(v, S \cap T)
    BY <2>3, <2>4 DEF FilterTwice
  <2>9. Filter(Filter(u, S), T) = Filter(u, S \cap T)
    <3>1. CASE e \in S
      <4>1. Filter(u, S) = Append(f, e)
        BY <3>1, <2>5
      <4>2. Filter(u, S \cap T) = IF e \in T THEN Append(Filter(f, T), e) ELSE Filter(f, T)
        BY <3>1, <2>6, <2>8
      <4> QED BY <4>1, <4>2, <2>7
    <3>2. CASE e \notin S
      BY <3>2, <2>5, <2>6, <2>8
    <3> QED BY <3>1, <3>2
  <2> QED BY <1>3, <2>9 DEF FilterTwice
<1> QED BY <1>4, <1>5

\* Only the elements of the sequence matter.
SameFilter(s, S, T) == Filter(s, S) = Filter(s, T)

LEMMA FilterSame ==
  ASSUME NEW A, NEW s \in Seq(A), NEW S, NEW T, \A i \in 1 .. Len(s) : s[i] \in S <=> s[i] \in T
  PROVE  SameFilter(s, S, T)
<1> DEFINE Bad == {k \in Nat : \E u \in Seq(A) :
                     /\ Len(u) = k
                     /\ \A i \in 1 .. k : u[i] \in S <=> u[i] \in T
                     /\ ~ SameFilter(u, S, T)}
<1>1. SUFFICES ASSUME Bad # {} PROVE FALSE
  BY LenProperties
<1>2. PICK k \in Bad : \A j \in Bad : k <= j
  BY <1>1, LeastNumber
<1>3. PICK u \in Seq(A) :
         /\ Len(u) = k
         /\ \A i \in 1 .. k : u[i] \in S <=> u[i] \in T
         /\ ~ SameFilter(u, S, T)
  BY <1>2
<1>4. CASE u = <<>>
  BY <1>3, <1>4, FilterEmpty DEF SameFilter
<1>5. CASE u # <<>>
  <2>1. PICK v \in Seq(A), e \in A : u = Append(v, e)
    BY <1>5, SequenceEmptyOrAppend
  <2>2. /\ Len(v) \in Nat /\ Len(u) = Len(v) + 1 /\ u[Len(u)] = e
        /\ \A i \in 1 .. Len(v) : u[i] = v[i]
    BY <2>1, AppendProperties, LenProperties
  <2>3. Len(v) = k - 1 /\ k \in Nat
    BY <1>3, <2>2
  <2>4. \A i \in 1 .. k - 1 : v[i] \in S <=> v[i] \in T
    BY <1>3, <2>2, <2>3
  <2>5. e \in S <=> e \in T
    BY <1>3, <2>2, <2>3
  <2>6. SameFilter(v, S, T)
    <3>1. k - 1 \notin Bad /\ k - 1 \in Nat
      BY <1>2, <2>2, <2>3
    <3> QED BY <3>1, <2>3, <2>4
  <2>7. Filter(u, S) = IF e \in S THEN Append(Filter(v, S), e) ELSE Filter(v, S)
    BY <2>1, FilterAppend
  <2>8. Filter(u, T) = IF e \in T THEN Append(Filter(v, T), e) ELSE Filter(v, T)
    BY <2>1, FilterAppend
  <2>9. Filter(u, S) = Filter(u, T)
    BY <2>5, <2>6, <2>7, <2>8 DEF SameFilter
  <2> QED BY <1>3, <2>9 DEF SameFilter
<1> QED BY <1>4, <1>5

\* FlattenSeq is the last value of such a function, and its value at one place.
LEMMA FlattenValue ==
  ASSUME NEW q, Len(q) \in Nat, Len(q) # 0
  PROVE  \E F : Flattens(F, q, Len(q)) /\ FlattenSeq(q) = F[Len(q)]
BY FlattensExists DEF FlattenSeq, Flattens

LEMMA FlattensAt ==
  ASSUME NEW q, NEW k, NEW F, Flattens(F, q, k), NEW i \in 1 .. k
  PROVE  F[i] = IF i = 1 THEN q[i] ELSE F[i - 1] \o q[i]
BY DEF Flattens

\* Flattening while the list of sequences grows.
FlattenOfAppend(q, e) == FlattenSeq(Append(q, e)) = FlattenSeq(q) \o e

LEMMA FlattenAppend ==
  ASSUME NEW A, NEW q \in Seq(Seq(A)), NEW e \in Seq(A)
  PROVE  FlattenOfAppend(q, e)
<1> DEFINE t == Append(q, e)
<1>1. /\ Len(q) \in Nat /\ Len(t) = Len(q) + 1 /\ t[Len(t)] = e
      /\ \A i \in 1 .. Len(q) : t[i] = q[i]
  BY AppendProperties, LenProperties
<1> HIDE DEF t
<1>2. PICK G : Flattens(G, t, Len(t)) /\ FlattenSeq(t) = G[Len(t)]
  <2>1. Len(t) \in Nat /\ Len(t) # 0
    BY <1>1
  <2> QED BY <2>1, FlattenValue
<1>3. \A i \in 1 .. Len(t) : G[i] = IF i = 1 THEN t[i] ELSE G[i - 1] \o t[i]
  BY <1>2, FlattensAt
<1>4. CASE Len(q) = 0
  <2>1. FlattenSeq(q) = <<>>
    BY <1>4, EmptySeq DEF FlattenSeq
  <2>2. <<>> \o e = e
    BY ConcatEmptySeq
  <2>3. FlattenSeq(t) = e
    <3>1. Len(t) = 1 /\ Len(t) \in 1 .. Len(t)
      BY <1>1, <1>4
    <3> QED BY <3>1, <1>1, <1>2, <1>3
  <2> QED BY <2>1, <2>2, <2>3 DEF FlattenOfAppend, t
<1>5. CASE Len(q) # 0
  <2>1. PICK F : Flattens(F, q, Len(q)) /\ FlattenSeq(q) = F[Len(q)]
    BY <1>1, <1>5, FlattenValue
  <2> DEFINE Bad == {i \in 1 .. Len(q) : F[i] # G[i]}
  <2>2. Bad = {}
    <3>1. SUFFICES ASSUME Bad # {} PROVE FALSE
      OBVIOUS
    <3>2. PICK i \in Bad : \A j \in Bad : i <= j
      <4>1. Bad \subseteq Nat
        OBVIOUS
      <4> QED BY <3>1, <4>1, LeastNumber
    <3>3. F[i] = IF i = 1 THEN q[i] ELSE F[i - 1] \o q[i]
      BY <2>1, <3>2, FlattensAt
    <3>4. G[i] = IF i = 1 THEN t[i] ELSE G[i - 1] \o t[i]
      <4>1. i \in 1 .. Len(t)
        BY <1>1, <3>2
      <4> QED BY <1>3, <4>1
    <3>5. t[i] = q[i]
      BY <1>1, <3>2
    <3>6. i # 1 => F[i - 1] = G[i - 1]
      BY <1>1, <3>2
    <3>7. F[i] = G[i]
      BY <3>3, <3>4, <3>5, <3>6
    <3> QED BY <3>2, <3>7
  <2>3. F[Len(q)] = G[Len(q)]
    <3>1. Len(q) \in 1 .. Len(q)
      BY <1>1, <1>5
    <3> QED BY <3>1, <2>2
  <2>4. FlattenSeq(t) = FlattenSeq(q) \o e
    <3>1. Len(t) # 1 /\ Len(t) - 1 = Len(q) /\ Len(t) \in 1 .. Len(t)
      BY <1>1, <1>5
    <3> QED BY <3>1, <1>1, <1>2, <1>3, <2>1, <2>3
  <2> QED BY <2>4 DEF FlattenOfAppend, t
<1> QED BY <1>4, <1>5

\* The elements of a concatenation are those of its parts.
ElementsOfConcat(s, t) == ToSet(s \o t) = ToSet(s) \cup ToSet(t)

LEMMA ConcatElements ==
  ASSUME NEW A, NEW s \in Seq(A), NEW t \in Seq(A)
  PROVE  ElementsOfConcat(s, t)
<1>1. ToSet(s) = Range(s) /\ ToSet(t) = Range(t) /\ ToSet(s \o t) = Range(s \o t)
  BY DEF ToSet, Range
<1> QED BY <1>1, RangeConcatenation DEF ElementsOfConcat

\* What is in a flattened sequence is in one of its parts.
FlattenedElements(q) ==
  \A x : x \in ToSet(FlattenSeq(q)) <=> \E i \in 1 .. Len(q) : x \in ToSet(q[i])

LEMMA FlattenElements ==
  ASSUME NEW A, NEW q \in Seq(Seq(A))
  PROVE  FlattenedElements(q)
<1> DEFINE Bad == {k \in Nat : \E u \in Seq(Seq(A)) : Len(u) = k /\ ~ FlattenedElements(u)}
<1>1. SUFFICES ASSUME Bad # {} PROVE FALSE
  BY LenProperties
<1>2. PICK k \in Bad : \A j \in Bad : k <= j
  BY <1>1, LeastNumber
<1>3. PICK u \in Seq(Seq(A)) : Len(u) = k /\ ~ FlattenedElements(u)
  BY <1>2
<1>4. CASE u = <<>>
  <2>1. Len(u) = 0 /\ FlattenSeq(u) = <<>>
    BY <1>4 DEF FlattenSeq
  <2>2. ToSet(FlattenSeq(u)) = {}
    BY <2>1 DEF ToSet
  <2> QED BY <2>1, <2>2, <1>3 DEF FlattenedElements
<1>5. CASE u # <<>>
  <2>1. PICK v \in Seq(Seq(A)), e \in Seq(A) : u = Append(v, e)
    BY <1>5, SequenceEmptyOrAppend
  <2>2. /\ Len(v) \in Nat /\ Len(u) = Len(v) + 1 /\ u[Len(u)] = e
        /\ \A i \in 1 .. Len(v) : u[i] = v[i]
    BY <2>1, AppendProperties, LenProperties
  <2>3. FlattenedElements(v)
    <3>1. k = Len(v) + 1
      BY <1>3, <2>2
    <3>2. Len(v) \notin Bad
      <4> HIDE DEF Bad
      <4> QED BY <1>2, <2>2, <3>1
    <3>3. Len(v) \in Nat /\ v \in Seq(Seq(A))
      BY <2>1, <2>2
    <3> QED BY <3>2, <3>3
  <2>4. FlattenSeq(u) = FlattenSeq(v) \o e /\ FlattenSeq(v) \in Seq(A)
    BY <2>1, FlattenAppend, FlattenType DEF FlattenOfAppend
  <2>5. ToSet(FlattenSeq(u)) = ToSet(FlattenSeq(v)) \cup ToSet(e)
    BY <2>4, ConcatElements DEF ElementsOfConcat
  <2>6. ASSUME NEW x PROVE x \in ToSet(FlattenSeq(u)) <=> \E i \in 1 .. Len(u) : x \in ToSet(u[i])
    <3>1. x \in ToSet(FlattenSeq(v)) <=> \E i \in 1 .. Len(v) : x \in ToSet(v[i])
      BY <2>3 DEF FlattenedElements
    <3>2. (\E i \in 1 .. Len(u) : x \in ToSet(u[i])) <=> (\E i \in 1 .. Len(v) : x \in ToSet(v[i])) \/ x \in ToSet(e)
      <4>1. 1 .. Len(u) = 1 .. Len(v) \cup {Len(u)}
        BY <2>2
      <4> QED BY <2>2, <4>1
    <3> QED BY <2>5, <3>1, <3>2
  <2>7. FlattenedElements(u)
    BY <2>6 DEF FlattenedElements
  <2> QED BY <1>3, <2>7
<1> QED BY <1>4, <1>5

\* n copies of one element.
Copies(e, n) == [r \in 1 .. n |-> e]

LEMMA CopiesType ==
  ASSUME NEW A, NEW e \in A, NEW n \in Nat
  PROVE  Copies(e, n) \in Seq(A) /\ Len(Copies(e, n)) = n
BY DEF Copies

\* All copies are kept, or none is.
LEMMA CopiesKept ==
  ASSUME NEW A, NEW e \in A, NEW x, NEW m \in Nat
  PROVE  Len(Filter(Copies(e, m), {x})) = IF e = x THEN m ELSE 0
<1>1. CASE e # x
  <2>1. Copies(e, m) \in Seq(A) /\ \A i \in 1 .. Len(Copies(e, m)) : Copies(e, m)[i] \notin {x}
    BY <1>1 DEF Copies
  <2>2. Filter(Copies(e, m), {x}) = <<>>
    BY <2>1, FilterNone
  <2> QED BY <2>2, <1>1
<1>2. CASE e = x
  <2> DEFINE Bad == {k \in Nat : Len(Filter(Copies(e, k), {x})) # k}
  <2>1. SUFFICES ASSUME Bad # {} PROVE FALSE
    BY <1>2
  <2>2. PICK k \in Bad : \A j \in Bad : k <= j
    BY <2>1, LeastNumber
  <2>3. CASE k = 0
    <3>1. Copies(e, 0) = <<>>
      BY CopiesType, EmptySeq
    <3>2. Filter(Copies(e, 0), {x}) = <<>>
      BY <3>1, FilterEmpty
    <3> QED BY <3>2, <2>2, <2>3
  <2>4. CASE k # 0
    <3>1. k - 1 \in Nat /\ Len(Filter(Copies(e, k - 1), {x})) = k - 1
      <4>1. k - 1 \in Nat
        BY <2>2, <2>4
      <4>2. k - 1 \notin Bad
        <5>1. k \in Nat
          BY <2>2
        <5> HIDE DEF Bad
        <5> QED BY <2>2, <4>1, <5>1
      <4> QED BY <4>1, <4>2
    <3>2. PICK c \in Seq(A) : c = Copies(e, k - 1)
      BY <3>1, CopiesType
    <3>3. Copies(e, k) = Append(c, e)
      BY <3>1, <3>2, <2>2 DEF Copies
    <3>4. PICK f \in Seq(A) : f = Filter(c, {x})
      BY FilterType
    <3>5. Filter(Append(c, e), {x}) = Append(f, e)
      <4>1. Filter(Append(c, e), {x}) = IF e \in {x} THEN Append(Filter(c, {x}), e) ELSE Filter(c, {x})
        BY FilterAppend
      <4> QED BY <4>1, <3>4, <1>2
    <3>6. Len(Append(f, e)) = Len(f) + 1
      BY AppendProperties
    <3>7. Len(Filter(Copies(e, k), {x})) = k
      BY <3>1, <3>2, <3>3, <3>4, <3>5, <3>6
    <3> QED BY <2>2, <3>7
  <2> QED BY <2>3, <2>4
<1> QED BY <1>1, <1>2

\* The cells of an api lane, each as many times as repeats were asked for.
Repeated(cells, n) == FlattenSeq([i \in DOMAIN cells |-> [r \in 1 .. n |-> cells[i]]])

LEMMA RepeatedType ==
  ASSUME NEW A, NEW cells \in Seq(A), NEW n \in Nat
  PROVE  Repeated(cells, n) \in Seq(A)
<1>1. \A i \in DOMAIN cells : cells[i] \in A /\ [r \in 1 .. n |-> cells[i]] \in Seq(A)
  BY LenProperties, ElementOfSeq
<1>2. [i \in DOMAIN cells |-> [r \in 1 .. n |-> cells[i]]] \in Seq(Seq(A))
  BY <1>1, LenProperties
<1> QED BY <1>2, FlattenType DEF Repeated

RepeatedKept(cells, n, x) == Len(Filter(Repeated(cells, n), {x})) = n * Len(Filter(cells, {x}))

LEMMA RepeatedCount ==
  ASSUME NEW A, NEW cells \in Seq(A), NEW n \in Nat, NEW x
  PROVE  RepeatedKept(cells, n, x)
<1> DEFINE Bad == {k \in Nat : \E u \in Seq(A) : Len(u) = k /\ ~ RepeatedKept(u, n, x)}
<1>1. SUFFICES ASSUME Bad # {} PROVE FALSE
  BY LenProperties
<1>2. PICK k \in Bad : \A j \in Bad : k <= j
  BY <1>1, LeastNumber
<1>3. PICK u \in Seq(A) : Len(u) = k /\ ~ RepeatedKept(u, n, x)
  BY <1>2
<1>4. CASE u = <<>>
  <2>1. PICK q : q = [i \in DOMAIN u |-> [r \in 1 .. n |-> u[i]]]
    OBVIOUS
  <2>2. q = <<>> /\ Len(q) = 0
    BY <1>4, <2>1
  <2>3. Repeated(u, n) = <<>>
    BY <2>1, <2>2 DEF Repeated, FlattenSeq
  <2>4. Filter(u, {x}) = <<>> /\ Filter(Repeated(u, n), {x}) = <<>>
    BY <1>4, <2>3, FilterEmpty
  <2> QED BY <2>4, <1>3 DEF RepeatedKept
<1>5. CASE u # <<>>
  <2>1. PICK v \in Seq(A), e \in A : u = Append(v, e)
    BY <1>5, SequenceEmptyOrAppend
  <2>2. /\ Len(v) \in Nat /\ Len(u) = Len(v) + 1 /\ u[Len(u)] = e
        /\ \A i \in 1 .. Len(v) : u[i] = v[i]
    BY <2>1, AppendProperties, LenProperties
  <2>3. RepeatedKept(v, n, x)
    BY <1>2, <1>3, <2>2
  <2>4. PICK q : q = [i \in DOMAIN v |-> [r \in 1 .. n |-> v[i]]]
    OBVIOUS
  <2>5. DOMAIN v = 1 .. Len(v) /\ DOMAIN u = 1 .. Len(u)
    BY LenProperties
  <2>6. PICK c \in Seq(A) : c = Copies(e, n)
    BY CopiesType
  <2>7. q \in Seq(Seq(A)) /\ Len(q) = Len(v)
    <3>1. \A i \in 1 .. Len(v) : [r \in 1 .. n |-> v[i]] \in Seq(A)
      BY ElementOfSeq
    <3> QED BY <2>2, <2>4, <2>5, <3>1
  <2>8. [i \in DOMAIN u |-> [r \in 1 .. n |-> u[i]]] = Append(q, c)
    <3> DEFINE w == [i \in DOMAIN u |-> [r \in 1 .. n |-> u[i]]]
    <3>1. \A i \in 1 .. Len(v) : w[i] = q[i]
      BY <2>2, <2>4, <2>5
    <3>2. w[Len(u)] = c
      BY <2>2, <2>5, <2>6 DEF Copies
    <3>3. DOMAIN w = 1 .. Len(q) + 1
      BY <2>2, <2>5, <2>7
    <3>4. w = [i \in DOMAIN w |-> w[i]]
      OBVIOUS
    <3> HIDE DEF w
    <3>5. \A i \in 1 .. Len(q) + 1 : w[i] = Append(q, c)[i]
      BY <2>2, <2>7, <3>1, <3>2, AppendProperties
    <3>6. PICK z \in Seq(Seq(A)) : z = Append(q, c) /\ Len(z) = Len(q) + 1
      BY <2>7, AppendProperties
    <3>7. z = [i \in 1 .. Len(q) + 1 |-> z[i]]
      BY <3>6, LenProperties
    <3>8. w = Append(q, c)
      BY <3>3, <3>4, <3>5, <3>6, <3>7
    <3> QED BY <3>8 DEF w
  <2>9. PICK s \in Seq(A) : s = Repeated(v, n)
    BY RepeatedType
  <2>10. Repeated(u, n) = s \o c
    <3>1. FlattenSeq(Append(q, c)) = FlattenSeq(q) \o c
      BY <2>7, FlattenAppend DEF FlattenOfAppend
    <3> QED BY <3>1, <2>4, <2>8, <2>9 DEF Repeated
  <2>11. Filter(s \o c, {x}) = Filter(s, {x}) \o Filter(c, {x})
    <3>1. FilterOfConcat(s, c, {x})
      BY FilterConcatenation
    <3> QED BY <3>1 DEF FilterOfConcat
  <2>12. PICK f \in Seq(A), g \in Seq(A), h \in Seq(A) :
           f = Filter(s, {x}) /\ g = Filter(c, {x}) /\ h = Filter(v, {x})
    BY FilterType
  <2>13. Len(f \o g) = Len(f) + Len(g)
    BY ConcatProperties
  <2>14. Len(g) = IF e = x THEN n ELSE 0
    BY <2>6, <2>12, CopiesKept
  <2>15. Len(f) = n * Len(h)
    BY <2>3, <2>9, <2>12 DEF RepeatedKept
  <2>16. Filter(u, {x}) = IF e = x THEN Append(h, e) ELSE h
    <3>1. Filter(Append(v, e), {x}) = IF e \in {x} THEN Append(Filter(v, {x}), e) ELSE Filter(v, {x})
      BY FilterAppend
    <3> QED BY <3>1, <2>1, <2>12
  <2>17. Len(Append(h, e)) = Len(h) + 1 /\ Len(h) \in Nat
    BY AppendProperties, LenProperties
  <2>18. Len(Filter(u, {x})) = IF e = x THEN Len(h) + 1 ELSE Len(h)
    BY <2>16, <2>17
  <2>19. Len(Filter(Repeated(u, n), {x})) = n * Len(h) + (IF e = x THEN n ELSE 0)
    BY <2>10, <2>11, <2>12, <2>13, <2>14, <2>15
  <2>20. n * (Len(h) + 1) = n * Len(h) + n
    BY <2>17
  <2>21. CASE e = x
    BY <2>21, <2>18, <2>19, <2>20, <1>3 DEF RepeatedKept
  <2>22. CASE e # x
    <3>1. n * Len(h) + 0 = n * Len(h)
      BY <2>17
    <3> QED BY <3>1, <2>22, <2>18, <2>19, <1>3 DEF RepeatedKept
  <2> QED BY <2>21, <2>22
<1> QED BY <1>4, <1>5

--------------------------------------------------------------------------------
(***************************************************************************)
(* The inductive invariant                                                 *)
(***************************************************************************)

\* The invocation that runs has not completed under any run id, none completed that has
\* not been started, and the failures in memory are those of the commands in memory.
RunnerInStep ==
  /\ failed = Filter(commands, Failures)
  /\ pc \in {"lanes", "save"} => invocation > 0 /\ \A r \in RunIds : invocation \notin completed[r]
  /\ \A r \in RunIds : completed[r] \subseteq 1 .. invocation

\* A file that has rows was written by an invocation.
FilesInStep ==
  \A r \in RunIds, l \in LaneNames : file[r][l].state = "rows" => file[r][l].by \in Invocations

\* MetadataLedger, with the start and the labels as the least and the greatest of the
\* invocations that completed.
MetadataInStep ==
  \A r \in RunIds :
    /\ metadata[r].state = "absent" =>
         completed[r] = {} /\ ledger[r] = <<>> /\ metadata[r].commands = <<>> /\ metadata[r].failures = <<>>
    /\ metadata[r].state = "intact" =>
         /\ metadata[r].commands = ledger[r]
         /\ metadata[r].failures = Filter(ledger[r], Failures)
         /\ metadata[r].startedBy \in completed[r] /\ metadata[r].labelledBy \in completed[r]
         /\ \A i \in completed[r] : metadata[r].startedBy <= i /\ i <= metadata[r].labelledBy

IInv ==
  /\ TypeOK
  /\ RunnerInStep
  /\ FilesInStep
  /\ MetadataInStep

--------------------------------------------------------------------------------
(* Facts about the operators of the model *)

LEMMA LanesType == Lanes \in Seq(LaneNames)
<1>1. Lanes \in Seq(STRING)
  BY StoreAssumption
<1>2. \A i \in 1 .. Len(Lanes) : Lanes[i] \in LaneNames
  BY <1>1, LenProperties DEF LaneNames, ToSet
<1> QED BY <1>1, <1>2, LenProperties, SeqDef

\* What a run of a lane may leave is a file with an exit code, and its rows are those
\* of an invocation.
LEMMA OutcomeTypes ==
  ASSUME TypeOK, FilesInStep, invocation > 0, NEW l \in LaneNames, NEW o \in LaneOutcomes(l)
  PROVE  o[1] \in Files /\ o[2] \in {0, 1} /\ (o[1].state = "rows" => o[1].by \in Invocations)
<1>1. invocation \in Invocations /\ id \in RunIds /\ file[id][l] \in Files /\ invocation \in 0 .. MaxInvocations
  BY StoreAssumption DEF TypeOK, Invocations
<1>2. \A s \in {"rows", "error", "empty", "torn"} :
        Written(invocation, s) \in Files /\ Written(invocation, s).by = invocation
  BY <1>1 DEF Written, Files
<1>3. file[id][l].state = "rows" => file[id][l].by \in Invocations
  BY <1>1 DEF FilesInStep
<1>4. CASE kind[l] = "api"
  <2>1. o \in {<<Written(invocation, "rows"), 0>>, <<Written(invocation, "error"), 1>>}
    BY <1>4 DEF LaneOutcomes
  <2> QED BY <2>1, <1>1, <1>2
<1>5. CASE kind[l] = "go"
  <2>1. o \in {<<Written(invocation, "rows"), 0>>, <<Written(invocation, "rows"), 1>>,
               <<Written(invocation, "empty"), 1>>}
    BY <1>5 DEF LaneOutcomes
  <2> QED BY <2>1, <1>1, <1>2
<1>6. CASE kind[l] # "api" /\ kind[l] # "go"
  <2>1. o \in {file[id][l], Written(invocation, "rows"), Written(invocation, "torn")} \X {0, 1}
    BY <1>6 DEF LaneOutcomes
  <2> QED BY <2>1, <1>1, <1>2, <1>3
<1> QED BY <1>4, <1>5, <1>6

\* A step that gives one lane a file.
LEMMA FileWritten ==
  ASSUME TypeOK, FilesInStep, NEW l \in LaneNames, NEW f \in Files,
         f.state = "rows" => f.by \in Invocations,
         file' = [file EXCEPT ![id][l] = f]
  PROVE  file' \in [RunIds -> [LaneNames -> Files]] /\ FilesInStep'
<1>1. file' \in [RunIds -> [LaneNames -> Files]]
  BY DEF TypeOK
<1>2. \A r \in RunIds, k \in LaneNames :
        file'[r][k] = IF r = id /\ k = l THEN f ELSE file[r][k]
  BY DEF TypeOK
<1> QED BY <1>1, <1>2 DEF FilesInStep, Invocations

\* The rows of the listed lanes, one after the other.
LEMMA RowsType ==
  ASSUME TypeOK, FilesInStep, NEW r \in RunIds
  PROVE  FlattenSeq([i \in DOMAIN metadata[r].commands |-> RowsOf(r, metadata[r].commands[i])]) \in Seq(Rows)
<1>1. PICK c \in Seq(Commands) : c = metadata[r].commands
  BY DEF TypeOK, Metadata
<1> DEFINE q == [i \in DOMAIN c |-> RowsOf(r, c[i])]
<1>2. DOMAIN c = 1 .. Len(c) /\ Len(c) \in Nat
  BY LenProperties
<1>3. \A i \in 1 .. Len(c) : RowsOf(r, c[i]) \in Seq(Rows)
  <2> TAKE i \in 1 .. Len(c)
  <2>1. c[i] \in Commands
    BY ElementOfSeq
  <2>2. PICK l \in LaneNames : l = c[i].lane
    BY <2>1 DEF Commands
  <2>3. CASE file[r][l].state = "rows"
    <3>1. [lane |-> l, by |-> file[r][l].by] \in Rows
      BY <2>3 DEF FilesInStep, Rows
    <3>2. <<[lane |-> l, by |-> file[r][l].by]>> \in Seq(Rows)
      BY <3>1
    <3> QED BY <2>2, <2>3, <3>2 DEF RowsOf
  <2>4. CASE file[r][l].state # "rows"
    BY <2>2, <2>4, EmptySeq DEF RowsOf
  <2> QED BY <2>3, <2>4
<1>4. q \in [1 .. Len(c) -> Seq(Rows)]
  BY <1>2, <1>3
<1>5. q \in Seq(Seq(Rows))
  BY <1>2, <1>4, SeqDef
<1>6. FlattenSeq(q) \in Seq(Rows)
  BY <1>5, FlattenType
<1> QED BY <1>1, <1>6

\* The merge, with the commands and failures as sequences.
LEMMA MergeType ==
  ASSUME IInv, pc = "save"
  PROVE  /\ Merged \in Metadata /\ Merged.state = "intact"
         /\ Merged.commands = metadata[id].commands \o commands
         /\ Merged.failures = metadata[id].failures \o failed
         /\ Merged.startedBy = (IF metadata[id].state = "intact" THEN metadata[id].startedBy ELSE invocation)
         /\ Merged.labelledBy = invocation
<1>1. metadata[id] \in Metadata /\ invocation \in 0 .. MaxInvocations
      /\ commands \in Seq(Commands) /\ failed \in Seq(Commands)
  BY DEF IInv, TypeOK
<1>2. PICK a \in Seq(Commands), b \in Seq(Commands) : a = metadata[id].commands /\ b = metadata[id].failures
  BY <1>1 DEF Metadata
<1>3. a \o commands \in Seq(Commands) /\ b \o failed \in Seq(Commands)
  BY <1>1, ConcatProperties
<1>4. PICK c \in Seq(Commands), f \in Seq(Commands) : c = a \o commands /\ f = b \o failed
  BY <1>3
<1>5. PICK s \in 0 .. MaxInvocations :
        s = IF metadata[id].state = "intact" THEN metadata[id].startedBy ELSE invocation
  BY <1>1 DEF Metadata
<1>6. Merged = [state |-> "intact", commands |-> c, failures |-> f, startedBy |-> s, labelledBy |-> invocation]
  BY <1>2, <1>4, <1>5 DEF Merged, Intact
<1>7. Merged \in Metadata
  BY <1>1, <1>6 DEF Metadata
<1> QED BY <1>2, <1>4, <1>5, <1>6, <1>7

--------------------------------------------------------------------------------
(* The invariant is inductive *)

LEMMA InitIInv == Init => IInv
<1> SUFFICES ASSUME Init PROVE IInv
  OBVIOUS
<1>1. <<>> \in Seq(Commands) /\ <<>> \in Seq(LaneNames) /\ <<>> \in Seq(Rows)
  BY EmptySeq
<1>2. TypeOK
  <2>1. Absent \in Metadata /\ NoFile \in Files
    BY <1>1, StoreAssumption DEF Absent, Metadata, NoFile, Files
  <2> QED BY <1>1, <2>1, StoreAssumption DEF Init, TypeOK
<1>3. RunnerInStep
  BY FilterEmpty DEF Init, RunnerInStep
<1>4. FilesInStep
  BY DEF Init, FilesInStep, NoFile
<1>5. MetadataInStep
  BY DEF Init, MetadataInStep, Absent
<1> QED BY <1>2, <1>3, <1>4, <1>5 DEF IInv

LEMMA StartStep == IInv /\ StartInvocation => IInv'
<1> SUFFICES ASSUME IInv, StartInvocation PROVE IInv'
  OBVIOUS
<1>1. TypeOK'
  <2>1. PICK selected \in SUBSET LaneNames : todo' = Filter(Lanes, selected)
    BY DEF StartInvocation
  <2>2. todo' \in Seq(LaneNames)
    BY <2>1, LanesType, FilterType
  <2>3. commands' \in Seq(Commands) /\ failed' \in Seq(Commands)
    BY EmptySeq DEF StartInvocation
  <2>4. invocation' \in 0 .. MaxInvocations
    BY StoreAssumption DEF StartInvocation, IInv, TypeOK
  <2> QED BY <2>2, <2>3, <2>4 DEF IInv, TypeOK, StartInvocation, output, history
<1>2. RunnerInStep'
  <2>1. failed' = Filter(commands', Failures)
    BY FilterEmpty DEF StartInvocation
  <2>2. invocation \in Nat /\ invocation' = invocation + 1 /\ completed' = completed
    BY StoreAssumption DEF StartInvocation, IInv, TypeOK, history
  <2>3. \A r \in RunIds : completed[r] \subseteq 1 .. invocation
    BY DEF IInv, RunnerInStep
  <2> QED BY <2>1, <2>2, <2>3 DEF RunnerInStep
<1>3. FilesInStep' /\ MetadataInStep'
  BY DEF IInv, FilesInStep, MetadataInStep, StartInvocation, history
<1> QED BY <1>1, <1>2, <1>3 DEF IInv

LEMMA RunLaneStep == IInv /\ RunLane => IInv'
<1> SUFFICES ASSUME IInv, RunLane PROVE IInv'
  OBVIOUS
<1> DEFINE l == Head(todo)
<1>1. l \in LaneNames /\ Tail(todo) \in Seq(LaneNames)
  BY HeadTailProperties DEF RunLane, IInv, TypeOK
<1> HIDE DEF l
<1>2. invocation > 0
  BY DEF RunLane, IInv, RunnerInStep
<1>3. PICK outcome \in LaneOutcomes(l) :
        LET command == [lane |-> l, exitCode |-> outcome[2]] IN
        /\ file' = [file EXCEPT ![id][l] = outcome[1]]
        /\ commands' = Append(commands, command)
        /\ failed' = IF outcome[2] # 0 THEN Append(failed, command) ELSE failed
  BY DEF RunLane, l
<1>4. outcome[1] \in Files /\ outcome[2] \in {0, 1} /\ (outcome[1].state = "rows" => outcome[1].by \in Invocations)
  BY <1>1, <1>2, OutcomeTypes DEF IInv
<1>5. PICK command \in Commands : command = [lane |-> l, exitCode |-> outcome[2]]
  BY <1>1, <1>4 DEF Commands
<1>6. commands \in Seq(Commands) /\ failed \in Seq(Commands)
  BY DEF IInv, TypeOK
<1>7. commands' \in Seq(Commands) /\ failed' \in Seq(Commands)
  BY <1>3, <1>5, <1>6, AppendProperties
<1>8. file' \in [RunIds -> [LaneNames -> Files]] /\ FilesInStep'
  BY <1>1, <1>3, <1>4, FileWritten DEF IInv
<1>9. times' \in [RunIds -> [LaneNames -> Nat]]
  BY SMTT(30), <1>1 DEF RunLane, IInv, TypeOK, l
<1>10. TypeOK'
  BY <1>1, <1>7, <1>8, <1>9 DEF IInv, TypeOK, RunLane, output
<1>11. failed' = Filter(commands', Failures)
  <2>1. Filter(Append(commands, command), Failures)
          = IF command \in Failures THEN Append(Filter(commands, Failures), command) ELSE Filter(commands, Failures)
    BY <1>6, FilterAppend
  <2>2. command \in Failures <=> outcome[2] # 0
    BY <1>1, <1>4, <1>5 DEF Failures
  <2>3. failed = Filter(commands, Failures)
    BY DEF IInv, RunnerInStep
  <2> QED BY <1>3, <1>5, <2>1, <2>2, <2>3
<1>12. RunnerInStep'
  BY <1>11 DEF IInv, RunnerInStep, RunLane
<1>13. MetadataInStep'
  BY DEF IInv, MetadataInStep, RunLane
<1> QED BY <1>8, <1>10, <1>12, <1>13 DEF IInv

LEMMA SaveStep == IInv /\ SaveMetadata => IInv'
<1> SUFFICES ASSUME IInv, SaveMetadata PROVE IInv'
  OBVIOUS
<1>1. PICK r0 \in RunIds, now \in Nat : r0 = id /\ now = invocation
  BY StoreAssumption DEF IInv, TypeOK
<1>2. PICK m \in Metadata : m = Merged
  BY MergeType DEF SaveMetadata
<1>3. PICK cs \in Seq(Commands), led \in Seq(Commands) : cs = commands /\ led = ledger[r0]
  BY <1>1 DEF IInv, TypeOK
<1>4. led \o cs \in Seq(Commands)
  BY ConcatProperties
<1>5. /\ metadata' = [metadata EXCEPT ![r0] = m]
      /\ ledger' = [ledger EXCEPT ![r0] = led \o cs]
      /\ completed' = [completed EXCEPT ![r0] = @ \cup {now}]
      /\ metadata[r0].state # "torn" /\ pc = "save" /\ pc' = "idle"
      /\ UNCHANGED <<kind, invocation, id, todo, commands, failed, file, output, times>>
  BY <1>1, <1>2, <1>3 DEF SaveMetadata
<1>6. now \in Invocations /\ \A r \in RunIds : now \notin completed[r] /\ completed[r] \subseteq 1 .. now
  BY <1>1, <1>5, StoreAssumption DEF IInv, TypeOK, RunnerInStep, Invocations
<1>7. /\ metadata' \in [RunIds -> Metadata] /\ ledger' \in [RunIds -> Seq(Commands)]
      /\ completed' \in [RunIds -> SUBSET Invocations]
  BY <1>4, <1>5, <1>6 DEF IInv, TypeOK
<1>8. \A r \in RunIds :
        /\ metadata'[r] = IF r = r0 THEN m ELSE metadata[r]
        /\ ledger'[r] = IF r = r0 THEN led \o cs ELSE ledger[r]
        /\ completed'[r] = IF r = r0 THEN completed[r0] \cup {now} ELSE completed[r]
  BY <1>5 DEF IInv, TypeOK
<1>9. TypeOK'
  BY <1>5, <1>7 DEF IInv, TypeOK, output
<1>10. RunnerInStep'
  BY <1>1, <1>5, <1>6, <1>8 DEF IInv, RunnerInStep
<1>11. FilesInStep'
  BY <1>5 DEF IInv, FilesInStep
<1>12. /\ m.state = "intact" /\ m.commands = metadata[r0].commands \o cs
       /\ m.failures = metadata[r0].failures \o failed /\ m.labelledBy = now
       /\ m.startedBy = IF metadata[r0].state = "intact" THEN metadata[r0].startedBy ELSE now
  BY <1>1, <1>2, <1>3, <1>5, MergeType
<1>13. metadata[r0].commands = led /\ metadata[r0].failures = Filter(led, Failures)
  BY <1>1, <1>3, <1>5, FilterEmpty DEF IInv, TypeOK, Metadata, MetadataInStep
<1>14. m.failures = Filter(led \o cs, Failures)
  <2>1. Filter(led \o cs, Failures) = Filter(led, Failures) \o Filter(cs, Failures)
    BY FilterConcat
  <2>2. failed = Filter(cs, Failures)
    BY <1>3 DEF IInv, RunnerInStep
  <2> QED BY <2>1, <2>2, <1>12, <1>13
<1>15. m.startedBy \in completed'[r0] /\ \A i \in completed'[r0] : m.startedBy <= i /\ i <= m.labelledBy
  <2>1. CASE metadata[r0].state = "intact"
    BY <2>1, <1>6, <1>8, <1>12 DEF IInv, MetadataInStep
  <2>2. CASE metadata[r0].state = "absent"
    BY <2>2, <1>6, <1>8, <1>12 DEF IInv, MetadataInStep
  <2> QED BY <2>1, <2>2, <1>5 DEF IInv, TypeOK, Metadata
<1>16. MetadataInStep'
  <2> SUFFICES ASSUME NEW r \in RunIds
               PROVE  MetadataInStep!(r)'
    BY DEF MetadataInStep
  <2>1. CASE r = r0
    BY <2>1, <1>8, <1>12, <1>13, <1>14, <1>15
  <2>2. CASE r # r0
    BY <2>2, <1>8 DEF IInv, MetadataInStep
  <2> QED BY <2>1, <2>2
<1> QED BY <1>9, <1>10, <1>11, <1>16 DEF IInv

LEMMA AbortStep == IInv /\ Abort => IInv'
<1> SUFFICES ASSUME IInv, Abort PROVE IInv'
  OBVIOUS
<1>1. CASE UNCHANGED <<file, times>>
  BY <1>1 DEF Abort, IInv, TypeOK, RunnerInStep, FilesInStep, MetadataInStep, output
<1>2. CASE ~ UNCHANGED <<file, times>>
  <2> DEFINE l == Head(todo)
  <2>1. todo # <<>> /\ times' = [times EXCEPT ![id][l] = @ + 1]
    BY <1>2 DEF Abort
  <2>2. PICK f \in {o[1] : o \in LaneOutcomes(l)} \cup {file[id][l], Written(invocation, "torn")} :
          file' = [file EXCEPT ![id][l] = f]
    BY <1>2 DEF Abort
  <2>3. l \in LaneNames
    BY <2>1, HeadTailProperties DEF IInv, TypeOK
  <2> HIDE DEF l
  <2>4. invocation > 0
    BY DEF Abort, IInv, RunnerInStep
  <2>5. f \in Files /\ (f.state = "rows" => f.by \in Invocations)
    <3>1. CASE f \in {o[1] : o \in LaneOutcomes(l)}
      BY <3>1, <2>3, <2>4, OutcomeTypes DEF IInv
    <3>2. CASE f = file[id][l]
      BY <3>2, <2>3 DEF IInv, TypeOK, FilesInStep
    <3>3. CASE f = Written(invocation, "torn")
      BY <3>3 DEF IInv, TypeOK, Written, Files
    <3> QED BY <2>2, <3>1, <3>2, <3>3
  <2>6. file' \in [RunIds -> [LaneNames -> Files]] /\ FilesInStep'
    BY <2>2, <2>3, <2>5, FileWritten DEF IInv
  <2>7. times' \in [RunIds -> [LaneNames -> Nat]]
    BY <2>1, <2>3 DEF IInv, TypeOK
  <2>8. TypeOK'
    BY <2>6, <2>7 DEF IInv, TypeOK, Abort, output
  <2>9. RunnerInStep' /\ MetadataInStep'
    BY DEF IInv, RunnerInStep, MetadataInStep, Abort
  <2> QED BY <2>6, <2>8, <2>9 DEF IInv
<1> QED BY <1>1, <1>2

LEMMA CrashStep == IInv /\ CrashInWrite => IInv'
<1> SUFFICES ASSUME IInv, CrashInWrite PROVE IInv'
  OBVIOUS
<1>1. Torn \in Metadata /\ Torn.state = "torn"
  <2>1. Torn = [state |-> "torn", commands |-> <<>>, failures |-> <<>>, startedBy |-> 0, labelledBy |-> 0]
    BY DEF Torn, Absent
  <2> QED BY <2>1, EmptySeq, StoreAssumption DEF Metadata
<1>2. \A r \in RunIds : metadata'[r] = IF r = id THEN Torn ELSE metadata[r]
  BY DEF CrashInWrite, IInv, TypeOK
<1>3. TypeOK'
  <2>1. metadata' \in [RunIds -> Metadata]
    BY <1>1 DEF CrashInWrite, IInv, TypeOK
  <2> QED BY <2>1 DEF CrashInWrite, IInv, TypeOK, output, history
<1>4. RunnerInStep' /\ FilesInStep'
  BY DEF CrashInWrite, IInv, RunnerInStep, FilesInStep, history
<1>5. MetadataInStep'
  BY <1>1, <1>2 DEF CrashInWrite, IInv, MetadataInStep, history
<1> QED BY <1>3, <1>4, <1>5 DEF IInv

LEMMA NormalizeStep == ASSUME NEW r \in RunIds PROVE IInv /\ Normalize(r) => IInv'
<1> SUFFICES ASSUME IInv, Normalize(r) PROVE IInv'
  OBVIOUS
<1>1. PICK listed \in Seq(Rows) :
        listed = FlattenSeq([i \in DOMAIN metadata[r].commands |-> RowsOf(r, metadata[r].commands[i])])
  BY RowsType DEF IInv
<1>2. normalized' = [normalized EXCEPT ![r] = listed]
  BY <1>1 DEF Normalize
<1>3. normalized' \in [RunIds -> Seq(Rows)]
  BY <1>2 DEF IInv, TypeOK
<1>4. TypeOK'
  BY <1>3 DEF Normalize, IInv, TypeOK, history
<1>5. RunnerInStep' /\ FilesInStep' /\ MetadataInStep'
  BY DEF Normalize, IInv, RunnerInStep, FilesInStep, MetadataInStep, history
<1> QED BY <1>4, <1>5 DEF IInv

\* The other steps change no result of a lane.
LEMMA OtherSteps ==
  IInv /\ (AllLanesRun \/ WriteLatest \/ NormalizeInterrupted \/ (\E r \in RunIds : TearNormalized(r))
             \/ UNCHANGED vars) => IInv'
<1> SUFFICES ASSUME IInv,
                    AllLanesRun \/ WriteLatest \/ NormalizeInterrupted
                      \/ (\E r \in RunIds : TearNormalized(r)) \/ UNCHANGED vars
             PROVE  IInv'
  OBVIOUS
<1>1. CASE AllLanesRun
  BY <1>1 DEF AllLanesRun, IInv, TypeOK, RunnerInStep, FilesInStep, MetadataInStep, output, history
<1>2. CASE WriteLatest
  BY <1>2 DEF WriteLatest, IInv, TypeOK, RunnerInStep, FilesInStep, MetadataInStep, history
<1>3. CASE NormalizeInterrupted
  BY <1>3 DEF NormalizeInterrupted, IInv, TypeOK, RunnerInStep, FilesInStep, MetadataInStep, output, history
<1>4. CASE UNCHANGED vars
  BY <1>4 DEF vars, runner, IInv, TypeOK, RunnerInStep, FilesInStep, MetadataInStep, output, history
<1>5. ASSUME NEW r \in RunIds, TearNormalized(r) PROVE IInv'
  <2>1. normalized' \in [RunIds -> Seq(Rows)]
    BY <1>5 DEF TearNormalized, IInv, TypeOK
  <2> QED
    BY <1>5, <2>1 DEF TearNormalized, runner, IInv, TypeOK, RunnerInStep, FilesInStep, MetadataInStep, history
<1> QED BY <1>1, <1>2, <1>3, <1>4, <1>5

LEMMA NextIInv == IInv /\ [Next]_vars => IInv'
BY StartStep, RunLaneStep, SaveStep, AbortStep, CrashStep, NormalizeStep, OtherSteps DEF Next

\* In every reachable state the runner, the files and the metadata are in step.
THEOREM Invariance == Spec => []IInv
BY InitIInv, NextIInv, PTL DEF Spec

--------------------------------------------------------------------------------
(* What follows from it *)

\* TypeOK: every variable keeps its type, the rows that normalize_run collects included.
THEOREM TypeCorrect == Spec => []TypeOK
<1>1. IInv => TypeOK
  BY DEF IInv
<1> QED BY <1>1, Invariance, PTL

\* The least and the greatest number of a set are what Min and Max say.
LEMMA LeastAndGreatest ==
  ASSUME NEW S \in SUBSET Nat, NEW a \in S, NEW b \in S, \A i \in S : a <= i /\ i <= b
  PROVE  a = Min(S) /\ b = Max(S)
<1>1. Min(S) \in S /\ \A i \in S : Min(S) <= i
  BY DEF Min
<1>2. Max(S) \in S /\ \A i \in S : Max(S) >= i
  BY DEF Max
<1>3. PICK x \in S, y \in S : x = Min(S) /\ y = Max(S)
  BY <1>1, <1>2
<1>4. x = a
  BY <1>1, <1>3
<1>5. y = b
  BY <1>2, <1>3
<1> QED BY <1>3, <1>4, <1>5

\* MetadataLedger: run-metadata.json lists exactly the lanes of the invocations that
\* completed under its run id, and the failures among them, with the start of the first
\* and the labels of the last, whatever was interrupted or crashed (run_benchmarks).
THEOREM MetadataIsALedger == Spec => []MetadataLedger
<1>1. IInv => MetadataLedger
  <2> SUFFICES ASSUME IInv, NEW r \in RunIds PROVE MetadataLedger!(r)
    BY DEF MetadataLedger
  <2>1. completed[r] \in SUBSET Nat
    BY DEF IInv, TypeOK, Invocations
  <2>2. metadata[r].state = "intact" =>
          metadata[r].startedBy = Min(completed[r]) /\ metadata[r].labelledBy = Max(completed[r])
    BY SMTT(30), <2>1, LeastAndGreatest DEF IInv, MetadataInStep
  <2> QED BY <2>2 DEF IInv, MetadataInStep
<1> QED BY <1>1, Invariance, PTL

\* TornForGood: metadata cut short by a crash is never written again, and no later
\* invocation of its run id completes (load_json in run_benchmarks).
THEOREM TornStaysTorn == Spec => TornForGood
<1> DEFINE Kept == \A r \in RunIds : metadata[r].state = "torn" =>
                     metadata'[r] = metadata[r] /\ ledger'[r] = ledger[r]
<1>1. IInv /\ [Next]_vars => [Kept]_vars
  <2> SUFFICES ASSUME IInv, Next, NEW r \in RunIds, metadata[r].state = "torn"
               PROVE  metadata'[r] = metadata[r] /\ ledger'[r] = ledger[r]
    OBVIOUS
  <2>1. CASE SaveMetadata
    BY <2>1 DEF SaveMetadata, IInv, TypeOK
  <2>2. CASE CrashInWrite
    BY <2>2 DEF CrashInWrite, IInv, TypeOK, history
  <2>3. CASE ~ SaveMetadata /\ ~ CrashInWrite
    BY <2>3 DEF Next, StartInvocation, RunLane, AllLanesRun, Abort, Normalize, WriteLatest,
                TearNormalized, NormalizeInterrupted, history
  <2> QED BY <2>1, <2>2, <2>3
<1> QED BY <1>1, Invariance, PTL DEF Spec, TornForGood

--------------------------------------------------------------------------------
(***************************************************************************)
(* FreshLanesExact, and the invariant it needs besides IInv                *)
(***************************************************************************)

OfLane(l) == [lane : {l}, exitCode : {0, 1}]
Starts(s, l) == Len(Filter(s, OfLane(l)))
Running(r) == id = r /\ pc \in {"lanes", "save"}

\* The file of a lane agrees with its listings in s: its rows are of the invocations in S,
\* and an api lane has rows exactly where it exited with 0.
Explains(r, l, s, S) ==
  \A i \in 1 .. Len(s) : s[i].lane = l =>
    /\ file[r][l].state = "rows" => file[r][l].by \in S
    /\ kind[l] = "api" => (file[r][l].state = "rows" <=> s[i].exitCode = 0)

\* A lane that was not started has no rows; it is not listed more often than it was
\* started; and the file of one that was started once agrees with its listings.
FreshInStep ==
  \A r \in RunIds, l \in LaneNames :
    /\ times[r][l] = 0 => file[r][l].state # "rows"
    /\ Starts(ledger[r], l) + (IF Running(r) THEN Starts(commands, l) ELSE 0) <= times[r][l]
    /\ times[r][l] <= 1 => /\ Explains(r, l, ledger[r], completed[r])
                           /\ Running(r) => Explains(r, l, commands, {invocation})

RowsOfLane(l) == [lane : {l}, by : Invocations]

LEMMA OfLaneType ==
  ASSUME NEW l
  PROVE  /\ \A c \in Commands : c \in OfLane(l) <=> c.lane = l
         /\ \A row \in Rows : row \in RowsOfLane(l) <=> row.lane = l
BY DEF Commands, OfLane, Rows, RowsOfLane

LEMMA StartsType ==
  ASSUME NEW s \in Seq(Commands), NEW l
  PROVE  Starts(s, l) \in Nat
BY FilterType, LenProperties DEF Starts

\* A lane that is not listed in a sequence is nowhere in it.
LEMMA NoStart ==
  ASSUME NEW s \in Seq(Commands), NEW l \in LaneNames, Starts(s, l) = 0
  PROVE  \A i \in 1 .. Len(s) : s[i].lane # l
<1> SUFFICES ASSUME NEW i \in 1 .. Len(s), s[i].lane = l PROVE FALSE
  OBVIOUS
<1>1. s[i] \in OfLane(l)
  <2>1. s[i] \in Commands
    BY ElementOfSeq
  <2> QED BY <2>1, OfLaneType
<1>2. Keeps(s, OfLane(l))
  BY FilterKeeps
<1> QED BY <1>1, <1>2 DEF Keeps, Starts

LEMMA StartsAppend ==
  ASSUME NEW s \in Seq(Commands), NEW c \in Commands, NEW l \in LaneNames
  PROVE  Starts(Append(s, c), l) = Starts(s, l) + (IF c.lane = l THEN 1 ELSE 0)
<1>1. PICK f \in Seq(Commands) : f = Filter(s, OfLane(l))
  BY FilterType
<1>2. Filter(Append(s, c), OfLane(l)) = IF c \in OfLane(l) THEN Append(f, c) ELSE f
  BY <1>1, FilterAppend
<1>3. c \in OfLane(l) <=> c.lane = l
  BY DEF OfLane, Commands
<1>4. Len(Append(f, c)) = Len(f) + 1 /\ Len(f) \in Nat
  BY AppendProperties, LenProperties
<1> QED BY <1>1, <1>2, <1>3, <1>4 DEF Starts

LEMMA StartsConcat ==
  ASSUME NEW s \in Seq(Commands), NEW t \in Seq(Commands), NEW l \in LaneNames
  PROVE  Starts(s \o t, l) = Starts(s, l) + Starts(t, l)
<1>1. PICK f \in Seq(Commands), g \in Seq(Commands) : f = Filter(s, OfLane(l)) /\ g = Filter(t, OfLane(l))
  BY FilterType
<1>2. FilterOfConcat(s, t, OfLane(l))
  BY FilterConcatenation
<1>3. Filter(s \o t, OfLane(l)) = f \o g
  BY <1>1, <1>2 DEF FilterOfConcat
<1>4. Len(f \o g) = Len(f) + Len(g)
  BY ConcatProperties
<1> QED BY <1>1, <1>3, <1>4 DEF Starts

\* The first run of a lane leaves rows of its own or none.
LEMMA FirstOutcome ==
  ASSUME NEW l \in LaneNames, file[id][l].state # "rows", NEW o \in LaneOutcomes(l)
  PROVE  /\ o[1].state = "rows" => o[1].by = invocation
         /\ kind[l] = "api" => (o[1].state = "rows" <=> o[2] = 0)
<1>1. \A s \in {"rows", "error", "empty", "torn"} :
        Written(invocation, s).by = invocation /\ Written(invocation, s).state = s
  BY DEF Written
<1>2. CASE kind[l] = "api"
  <2>1. o \in {<<Written(invocation, "rows"), 0>>, <<Written(invocation, "error"), 1>>}
    BY <1>2 DEF LaneOutcomes
  <2> QED BY <2>1, <1>1
<1>3. CASE kind[l] = "go"
  <2>1. o \in {<<Written(invocation, "rows"), 0>>, <<Written(invocation, "rows"), 1>>,
               <<Written(invocation, "empty"), 1>>}
    BY <1>3 DEF LaneOutcomes
  <2> QED BY <2>1, <1>1, <1>3
<1>4. CASE kind[l] # "api" /\ kind[l] # "go"
  <2>1. o \in {file[id][l], Written(invocation, "rows"), Written(invocation, "torn")} \X {0, 1}
    BY <1>4 DEF LaneOutcomes
  <2> QED BY <2>1, <1>1, <1>4
<1> QED BY <1>2, <1>3, <1>4

LEMMA InitFresh == Init => FreshInStep
<1> SUFFICES ASSUME Init PROVE FreshInStep
  OBVIOUS
<1>1. \A l \in LaneNames : Starts(<<>>, l) = 0
  BY FilterEmpty DEF Starts
<1> QED BY <1>1 DEF Init, FreshInStep, Running, Explains, NoFile

\* A step that starts no lane and saves nothing.
LEMMA NothingStarted ==
  ASSUME FreshInStep, UNCHANGED <<kind, invocation, commands, file, history>>,
         \A r \in RunIds : Running(r)' => Running(r), IInv
  PROVE  FreshInStep'
<1> SUFFICES ASSUME NEW r \in RunIds, NEW l \in LaneNames
             PROVE  FreshInStep!(r, l)'
  BY DEF FreshInStep
<1>1. Starts(commands, l) \in Nat /\ Starts(ledger[r], l) \in Nat /\ times[r][l] \in Nat
  BY StartsType DEF IInv, TypeOK
<1>2. Running(r)' => Running(r)
  OBVIOUS
<1>3. UNCHANGED <<kind, invocation, commands, file, ledger, completed, times>>
  BY DEF history
<1> QED BY <1>1, <1>2, <1>3 DEF FreshInStep, Explains

LEMMA StartFresh == IInv /\ FreshInStep /\ StartInvocation => FreshInStep'
<1> SUFFICES ASSUME IInv, FreshInStep, StartInvocation, NEW r \in RunIds, NEW l \in LaneNames
             PROVE  FreshInStep!(r, l)'
  BY DEF FreshInStep
<1>1. commands' = <<>> /\ UNCHANGED <<kind, file, ledger, completed, times>> /\ ~ Running(r)
  BY DEF StartInvocation, Running, history
<1>2. Starts(commands', l) = 0
  BY <1>1, FilterEmpty DEF Starts
<1>3. Starts(ledger[r], l) <= times[r][l] /\ Starts(ledger[r], l) \in Nat /\ times[r][l] \in Nat
  BY <1>1, StartsType DEF FreshInStep, IInv, TypeOK
<1>4. Explains(r, l, commands, {invocation})'
  BY <1>1 DEF Explains
<1>5. times[r][l] <= 1 => Explains(r, l, ledger[r], completed[r])'
  BY <1>1 DEF FreshInStep, Explains
<1> QED BY <1>1, <1>2, <1>3, <1>4, <1>5 DEF FreshInStep

LEMMA RunLaneFresh == IInv /\ FreshInStep /\ RunLane => FreshInStep'
<1> SUFFICES ASSUME IInv, FreshInStep, RunLane, NEW r \in RunIds, NEW l \in LaneNames
             PROVE  FreshInStep!(r, l)'
  BY DEF FreshInStep
<1> DEFINE l0 == Head(todo)
<1>1. l0 \in LaneNames
  BY HeadTailProperties DEF RunLane, IInv, TypeOK
<1>2. PICK o \in LaneOutcomes(l0) :
        LET command == [lane |-> l0, exitCode |-> o[2]] IN
        file' = [file EXCEPT ![id][l0] = o[1]] /\ commands' = Append(commands, command)
  BY DEF RunLane
<1>3. times' = [times EXCEPT ![id][l0] = @ + 1] /\ pc = "lanes" /\ pc' = "lanes"
      /\ UNCHANGED <<kind, invocation, id, ledger, completed>>
  BY DEF RunLane
<1> HIDE DEF l0
<1>4. o[2] \in {0, 1}
  BY <1>1, <1>3, OutcomeTypes DEF IInv, RunnerInStep
<1>5. PICK c \in Commands : c = [lane |-> l0, exitCode |-> o[2]]
  BY <1>1, <1>4 DEF Commands
<1>6. PICK cs \in Seq(Commands), led \in Seq(Commands) : cs = commands /\ led = ledger[r]
  BY DEF IInv, TypeOK
<1>7. /\ commands' = Append(cs, c) /\ Len(commands') = Len(cs) + 1 /\ Len(cs) \in Nat
      /\ commands'[Len(cs) + 1] = c /\ \A i \in 1 .. Len(cs) : commands'[i] = cs[i]
  BY <1>2, <1>5, <1>6, AppendProperties, LenProperties
<1>8. /\ Starts(commands', l) = Starts(cs, l) + (IF l0 = l THEN 1 ELSE 0)
      /\ Starts(cs, l) \in Nat /\ Starts(led, l) \in Nat
  BY <1>5, <1>7, StartsAppend, StartsType
<1>9. /\ file'[r][l] = (IF r = id /\ l = l0 THEN o[1] ELSE file[r][l])
      /\ times'[r][l] = (IF r = id /\ l = l0 THEN times[r][l] + 1 ELSE times[r][l])
      /\ times[r][l] \in Nat /\ id \in RunIds
  BY <1>2, <1>3 DEF IInv, TypeOK
<1>10. Running(r) <=> r = id
  BY <1>3 DEF Running
<1>11. Running(r)' <=> r = id
  BY <1>3 DEF Running
<1>12. Starts(led, l) + (IF r = id THEN Starts(cs, l) ELSE 0) <= times[r][l]
  BY <1>6, <1>10 DEF FreshInStep
<1>13. CASE r = id /\ l = l0
  <2>1. Starts(led, l) + Starts(commands', l) <= times'[r][l]
    BY <1>8, <1>9, <1>12, <1>13
  <2>2. ASSUME times'[r][l] <= 1
        PROVE  Explains(r, l, ledger[r], completed[r])' /\ Explains(r, l, commands, {invocation})'
    <3>1. times[r][l] = 0 /\ Starts(led, l) = 0 /\ Starts(cs, l) = 0
      BY <2>2, <1>8, <1>9, <1>12, <1>13
    <3>2. (\A i \in 1 .. Len(led) : led[i].lane # l) /\ (\A i \in 1 .. Len(cs) : cs[i].lane # l)
      BY <3>1, NoStart
    <3>3. file[id][l0].state # "rows"
      BY <3>1, <1>13 DEF FreshInStep
    <3>4. /\ o[1].state = "rows" => o[1].by = invocation
          /\ kind[l0] = "api" => (o[1].state = "rows" <=> o[2] = 0)
      BY <3>3, <1>1, FirstOutcome
    <3>5. \A i \in 1 .. Len(commands') : commands'[i].lane = l => i = Len(cs) + 1 /\ commands'[i] = c
      BY <3>2, <1>7
    <3>6. Explains(r, l, commands, {invocation})'
      BY <3>4, <3>5, <1>3, <1>5, <1>9, <1>13 DEF Explains
    <3>7. Explains(r, l, ledger[r], completed[r])'
      BY <3>2, <1>3, <1>6 DEF Explains
    <3> QED BY <3>6, <3>7
  <2>3. times'[r][l] # 0
    BY <1>9, <1>13
  <2> QED BY <2>1, <2>2, <2>3, <1>3, <1>6, <1>11, <1>13
<1>14. CASE ~ (r = id /\ l = l0)
  <2>1. file'[r][l] = file[r][l] /\ times'[r][l] = times[r][l]
    BY <1>9, <1>14
  <2>2. Starts(led, l) + (IF r = id THEN Starts(commands', l) ELSE 0) <= times'[r][l]
    BY <2>1, <1>8, <1>12, <1>14
  <2>3. times[r][l] = 0 => file'[r][l].state # "rows"
    BY <2>1 DEF FreshInStep
  <2>4. ASSUME times[r][l] <= 1
        PROVE  Explains(r, l, ledger[r], completed[r])' /\ (r = id => Explains(r, l, commands, {invocation})')
    <3>1. Explains(r, l, led, completed[r]) /\ (r = id => Explains(r, l, cs, {invocation}))
      BY <2>4, <1>6, <1>10 DEF FreshInStep
    <3>2. Explains(r, l, ledger[r], completed[r])'
      BY <3>1, <2>1, <1>3, <1>6 DEF Explains
    <3>3. ASSUME r = id PROVE Explains(r, l, commands, {invocation})'
      <4>1. \A i \in 1 .. Len(commands') : commands'[i].lane = l => i \in 1 .. Len(cs) /\ commands'[i] = cs[i]
        BY <3>3, <1>5, <1>7, <1>14
      <4> QED BY <4>1, <3>1, <3>3, <2>1, <1>3 DEF Explains
    <3> QED BY <3>2, <3>3
  <2> QED BY <2>1, <2>2, <2>3, <2>4, <1>3, <1>6, <1>11
<1> QED BY <1>13, <1>14

LEMMA SaveFresh == IInv /\ FreshInStep /\ SaveMetadata => FreshInStep'
<1> SUFFICES ASSUME IInv, FreshInStep, SaveMetadata, NEW r \in RunIds, NEW l \in LaneNames
             PROVE  FreshInStep!(r, l)'
  BY DEF FreshInStep
<1>1. PICK cs \in Seq(Commands), led \in Seq(Commands) : cs = commands /\ led = ledger[r]
  BY DEF IInv, TypeOK
<1>2. /\ pc = "save" /\ pc' = "idle"
      /\ ledger'[r] = (IF r = id THEN led \o cs ELSE led)
      /\ completed'[r] = (IF r = id THEN completed[r] \cup {invocation} ELSE completed[r])
      /\ UNCHANGED <<kind, file, times>>
  BY <1>1 DEF SaveMetadata, IInv, TypeOK
<1>3. /\ Running(r) <=> r = id
      /\ ~ Running(r)'
  BY <1>2 DEF Running
<1>4. Starts(led \o cs, l) = Starts(led, l) + Starts(cs, l)
      /\ Starts(led, l) \in Nat /\ Starts(cs, l) \in Nat /\ times[r][l] \in Nat
  BY StartsConcat, StartsType DEF IInv, TypeOK
<1>5. Starts(led, l) + (IF r = id THEN Starts(cs, l) ELSE 0) <= times[r][l]
  BY <1>1, <1>3 DEF FreshInStep
<1>6. Starts(ledger'[r], l) <= times'[r][l] /\ Starts(ledger'[r], l) \in Nat
  BY <1>2, <1>4, <1>5
<1>7. ASSUME times[r][l] <= 1 PROVE Explains(r, l, ledger[r], completed[r])'
  <2>1. Explains(r, l, led, completed[r]) /\ (r = id => Explains(r, l, cs, {invocation}))
    BY <1>1, <1>3, <1>7 DEF FreshInStep
  <2>2. CASE r # id
    BY <2>1, <2>2, <1>2 DEF Explains
  <2>3. CASE r = id
    <3>1. PICK lc \in Seq(Commands) : lc = led \o cs
      BY ConcatProperties
    <3>2. \A i \in 1 .. Len(lc) :
            (\E j \in 1 .. Len(led) : lc[i] = led[j]) \/ (\E j \in 1 .. Len(cs) : lc[i] = cs[j])
      <4> TAKE i \in 1 .. Len(lc)
      <4>1. Len(lc) = Len(led) + Len(cs) /\ Len(led) \in Nat /\ Len(cs) \in Nat
            /\ lc[i] = IF i <= Len(led) THEN led[i] ELSE cs[i - Len(led)]
        BY <3>1, ConcatProperties, LenProperties
      <4>2. CASE i <= Len(led)
        BY <4>1, <4>2
      <4>3. CASE i > Len(led)
        <5>1. i - Len(led) \in 1 .. Len(cs) /\ lc[i] = cs[i - Len(led)]
          BY <4>1, <4>3
        <5> QED BY <5>1
      <4> QED BY <4>1, <4>2, <4>3
    <3>3. ledger'[r] = lc /\ completed'[r] = completed[r] \cup {invocation}
      BY <3>1, <2>3, <1>2
    <3>4. SUFFICES ASSUME NEW i \in 1 .. Len(lc), lc[i].lane = l
                   PROVE  /\ file[r][l].state = "rows" => file[r][l].by \in completed[r] \cup {invocation}
                          /\ kind[l] = "api" => (file[r][l].state = "rows" <=> lc[i].exitCode = 0)
      BY <3>3, <1>2 DEF Explains
    <3>5. CASE \E j \in 1 .. Len(led) : lc[i] = led[j]
      BY <3>4, <3>5, <2>1 DEF Explains
    <3>6. CASE \E j \in 1 .. Len(cs) : lc[i] = cs[j]
      BY <3>4, <3>6, <2>1, <2>3 DEF Explains
    <3> QED BY <3>2, <3>5, <3>6
  <2> QED BY <2>2, <2>3
<1>8. times[r][l] = 0 => file[r][l].state # "rows"
  BY DEF FreshInStep
<1> QED BY <1>2, <1>3, <1>6, <1>7, <1>8

LEMMA AbortFresh == IInv /\ FreshInStep /\ Abort => FreshInStep'
<1> SUFFICES ASSUME IInv, FreshInStep, Abort PROVE FreshInStep'
  OBVIOUS
<1>1. CASE UNCHANGED <<file, times>>
  <2>1. \A r \in RunIds : ~ Running(r)'
    BY DEF Abort, Running
  <2> QED BY <1>1, <2>1, NothingStarted DEF Abort, history
<1>2. CASE ~ UNCHANGED <<file, times>>
  <2> SUFFICES ASSUME NEW r \in RunIds, NEW l \in LaneNames
               PROVE  FreshInStep!(r, l)'
    BY DEF FreshInStep
  <2> DEFINE l0 == Head(todo)
  <2>1. todo # <<>> /\ times' = [times EXCEPT ![id][l0] = @ + 1]
    BY <1>2 DEF Abort
  <2>2. PICK f : file' = [file EXCEPT ![id][l0] = f]
    BY <1>2 DEF Abort
  <2>3. l0 \in LaneNames
    BY <2>1, HeadTailProperties DEF IInv, TypeOK
  <2> HIDE DEF l0
  <2>4. /\ (~ (r = id /\ l = l0) => file'[r][l] = file[r][l])
        /\ times'[r][l] = (IF r = id /\ l = l0 THEN times[r][l] + 1 ELSE times[r][l])
        /\ times[r][l] \in Nat
    BY <2>1, <2>2, <2>3 DEF IInv, TypeOK
  <2>5. UNCHANGED <<kind, ledger, completed>> /\ ~ Running(r)'
    BY DEF Abort, Running
  <2>6. PICK led \in Seq(Commands) : led = ledger[r]
    BY DEF IInv, TypeOK
  <2>7. Starts(led, l) <= times[r][l] /\ Starts(led, l) \in Nat
    <3>1. Starts(commands, l) \in Nat /\ Starts(led, l) \in Nat
      BY StartsType DEF IInv, TypeOK
    <3>2. Starts(led, l) + (IF Running(r) THEN Starts(commands, l) ELSE 0) <= times[r][l]
      BY <2>6 DEF FreshInStep
    <3> QED BY <3>1, <3>2, <2>4
  <2>8. Starts(ledger'[r], l) <= times'[r][l]
    BY <2>4, <2>5, <2>6, <2>7
  <2>9. ASSUME times'[r][l] <= 1 PROVE Explains(r, l, ledger[r], completed[r])'
    <3>1. CASE r = id /\ l = l0
      <4>1. Starts(led, l) = 0
        BY <2>4, <2>7, <2>9, <3>1
      <4>2. \A i \in 1 .. Len(led) : led[i].lane # l
        BY <4>1, NoStart
      <4> QED BY <4>2, <2>5, <2>6 DEF Explains
    <3>2. CASE ~ (r = id /\ l = l0)
      <4>1. Explains(r, l, ledger[r], completed[r])
        BY <2>4, <2>9, <3>2 DEF FreshInStep
      <4> QED BY <4>1, <2>4, <2>5, <3>2 DEF Explains
    <3> QED BY <3>1, <3>2
  <2>10. times'[r][l] = 0 => file'[r][l].state # "rows"
    BY <2>4 DEF FreshInStep
  <2>11. Starts(ledger'[r], l) \in Nat
    BY <2>5, <2>6, <2>7
  <2> QED BY <2>4, <2>5, <2>8, <2>9, <2>10, <2>11
<1> QED BY <1>1, <1>2

LEMMA NextFresh == IInv /\ FreshInStep /\ [Next]_vars => FreshInStep'
<1> SUFFICES ASSUME IInv, FreshInStep, [Next]_vars PROVE FreshInStep'
  OBVIOUS
<1>1. CASE AllLanesRun
  BY <1>1, NothingStarted DEF AllLanesRun, Running, history
<1>2. CASE CrashInWrite
  BY <1>2, NothingStarted DEF CrashInWrite, Running, history
<1>3. CASE \E r \in RunIds : Normalize(r)
  BY <1>3, NothingStarted DEF Normalize, Running, history
<1>4. CASE WriteLatest
  BY <1>4, NothingStarted DEF WriteLatest, Running, history
<1>5. CASE NormalizeInterrupted
  BY <1>5, NothingStarted DEF NormalizeInterrupted, Running, history
<1>6. CASE UNCHANGED vars
  BY <1>6, NothingStarted DEF vars, runner, Running, history
<1>7. CASE \E r \in RunIds : TearNormalized(r)
  BY <1>7, NothingStarted DEF TearNormalized, runner, Running, history
<1> QED BY <1>1, <1>2, <1>3, <1>4, <1>5, <1>6, <1>7, StartFresh, RunLaneFresh, SaveFresh, AbortFresh DEF Next

\* What a normalized file has of a lane that was started at most once: the rows of its
\* one listing.
LEMMA NormalizedExact ==
  ASSUME IInv, FreshInStep, NEW r \in RunIds, Normalize(r), NEW l \in LaneNames, times[r][l] <= 1
  PROVE  /\ Len(RowsFor(r, l)') <= 1
         /\ \A i \in DOMAIN normalized'[r] :
              normalized'[r][i].lane = l =>
                /\ normalized'[r][i].by \in completed[r]
                /\ Listed(r, l, 0) \/ Listed(r, l, 1)
         /\ kind[l] = "api" => Len(RowsFor(r, l)') = IF Listed(r, l, 0) THEN 1 ELSE 0
<1> DEFINE S == RowsOfLane(l)
<1>1. PICK cs \in Seq(Commands) : cs = ledger[r]
  BY DEF IInv, TypeOK
<1>2. metadata[r].commands = cs
  BY <1>1 DEF Normalize, Normalizable, IInv, MetadataInStep
<1>3. DOMAIN cs = 1 .. Len(cs) /\ Len(cs) \in Nat
  BY LenProperties
<1>4. PICK q : q = [i \in 1 .. Len(cs) |-> RowsOf(r, cs[i])]
  OBVIOUS
<1>5. \A i \in 1 .. Len(cs) :
        /\ cs[i].lane \in LaneNames /\ cs[i].exitCode \in {0, 1}
        /\ cs[i] = [lane |-> cs[i].lane, exitCode |-> cs[i].exitCode]
  <2> TAKE i \in 1 .. Len(cs)
  <2>1. cs[i] \in Commands
    BY ElementOfSeq
  <2> QED BY <2>1 DEF Commands
<1>6. \A i \in 1 .. Len(cs) :
        /\ file[r][cs[i].lane].state = "rows" =>
             /\ [lane |-> cs[i].lane, by |-> file[r][cs[i].lane].by] \in Rows
             /\ q[i] = <<[lane |-> cs[i].lane, by |-> file[r][cs[i].lane].by]>>
        /\ file[r][cs[i].lane].state # "rows" => q[i] = <<>>
  BY <1>4, <1>5 DEF RowsOf, Rows, IInv, FilesInStep
<1>7. \A i \in 1 .. Len(cs) : q[i] \in Seq(Rows)
  <2> TAKE i \in 1 .. Len(cs)
  <2>1. CASE file[r][cs[i].lane].state = "rows"
    <3>1. PICK row \in Rows : q[i] = <<row>>
      BY <2>1, <1>6
    <3> QED BY <3>1
  <2>2. CASE file[r][cs[i].lane].state # "rows"
    BY <2>2, <1>6, EmptySeq
  <2> QED BY <2>1, <2>2
<1>8. q \in Seq(Seq(Rows)) /\ Len(q) = Len(cs)
  <2>1. q \in [1 .. Len(cs) -> Seq(Rows)]
    BY <1>4, <1>7
  <2> QED BY <2>1, <1>3, <1>4, SeqDef, LenProperties
<1>9. PICK n \in Seq(Rows) : n = FlattenSeq(q)
  BY <1>8, FlattenType
<1>10. normalized'[r] = n
  BY <1>2, <1>3, <1>4, <1>9 DEF Normalize, IInv, TypeOK
<1>11. Starts(cs, l) <= 1
  <2>1. Starts(cs, l) \in Nat /\ Starts(commands, l) \in Nat /\ times[r][l] \in Nat
    BY StartsType DEF IInv, TypeOK
  <2>2. Starts(cs, l) + (IF Running(r) THEN Starts(commands, l) ELSE 0) <= times[r][l]
    BY <1>1 DEF FreshInStep
  <2> QED BY <2>1, <2>2
<1>12. \A i, j \in 1 .. Len(cs) : cs[i].lane = l /\ cs[j].lane = l => i = j
  <2>1. Keeps(cs, OfLane(l))
    BY FilterKeeps
  <2>2. \A i \in 1 .. Len(cs) : cs[i].lane = l => cs[i] \in OfLane(l)
    <3> TAKE i \in 1 .. Len(cs)
    <3>1. cs[i] \in Commands
      BY ElementOfSeq
    <3> QED BY <3>1, OfLaneType
  <2> QED BY <2>1, <2>2, <1>11 DEF Keeps, Starts
<1>13. Explains(r, l, cs, completed[r])
  BY <1>1 DEF FreshInStep
<1>14. Keeps(n, S)
  BY FilterKeeps
<1>15. RowsFor(r, l)' = Filter(n, S)
  BY <1>10 DEF RowsFor, RowsOfLane
<1>16. \A i \in 1 .. Len(cs) : cs[i].lane # l => Filter(q[i], S) = <<>>
  <2> SUFFICES ASSUME NEW i \in 1 .. Len(cs), cs[i].lane # l PROVE Filter(q[i], S) = <<>>
    OBVIOUS
  <2>1. CASE q[i] = <<>>
    BY <2>1, FilterEmpty
  <2>2. CASE q[i] # <<>>
    <3>1. PICK row \in Rows : q[i] = <<row>> /\ row.lane = cs[i].lane
      BY <2>2, <1>6
    <3>2. row \notin S
      BY <3>1, OfLaneType
    <3> HIDE DEF S
    <3> QED BY <3>1, <3>2, FilterOne
  <2> QED BY <2>1, <2>2
<1>17. CASE \E i \in 1 .. Len(cs) : cs[i].lane = l
  <2>1. PICK i0 \in 1 .. Len(cs) : cs[i0].lane = l
    BY <1>17
  <2>2. Filter(n, S) = Filter(q[i0], S)
    <3>1. \A i \in 1 .. Len(q) : i # i0 => Filter(q[i], S) = <<>>
      BY <2>1, <1>8, <1>12, <1>16
    <3>2. i0 \in 1 .. Len(q)
      BY <1>8
    <3> HIDE DEF S
    <3> QED BY <3>1, <3>2, <1>8, <1>9, FilterFlatten
  <2>3. CASE file[r][l].state = "rows"
    <3>1. PICK row \in Rows : q[i0] = <<row>> /\ row = [lane |-> l, by |-> file[r][l].by]
      BY <2>1, <2>3, <1>6
    <3>2. row \in S
      BY <3>1, OfLaneType
    <3>3. Filter(n, S) = <<row>>
      <4> HIDE DEF S
      <4> QED BY <3>1, <3>2, <2>2, FilterOne
    <3>4. \A i \in 1 .. Len(n) : n[i].lane = l => n[i] = row
      <4> SUFFICES ASSUME NEW i \in 1 .. Len(n), n[i].lane = l PROVE n[i] = row
        OBVIOUS
      <4>1. n[i] \in S
        <5>1. n[i] \in Rows
          BY ElementOfSeq
        <5> QED BY <5>1, OfLaneType
      <4>2. PICK j \in 1 .. Len(Filter(n, S)) : Filter(n, S)[j] = n[i]
        BY <4>1, <1>14 DEF Keeps
      <4> QED BY <4>2, <3>3
    <3>5. file[r][l].by \in completed[r] /\ (kind[l] = "api" => cs[i0].exitCode = 0)
      BY <2>1, <2>3, <1>13 DEF Explains
    <3>6. Listed(r, l, 0) \/ Listed(r, l, 1)
      BY <2>1, <1>1, <1>3, <1>5 DEF Listed
    <3>7. kind[l] = "api" => Listed(r, l, 0)
      BY <3>5, <2>1, <1>1, <1>3, <1>5 DEF Listed
    <3>8. Len(RowsFor(r, l)') = 1
      BY <3>3, <1>15
    <3>9. DOMAIN n = 1 .. Len(n)
      BY LenProperties
    <3> QED BY <3>1, <3>4, <3>5, <3>6, <3>7, <3>8, <3>9, <1>10
  <2>4. CASE file[r][l].state # "rows"
    <3>1. Filter(n, S) = <<>>
      BY <2>1, <2>2, <2>4, <1>6, FilterEmpty
    <3>2. \A i \in 1 .. Len(n) : n[i].lane # l
      <4> SUFFICES ASSUME NEW i \in 1 .. Len(n), n[i].lane = l PROVE FALSE
        OBVIOUS
      <4>1. n[i] \in S
        <5>1. n[i] \in Rows
          BY ElementOfSeq
        <5> QED BY <5>1, OfLaneType
      <4>2. PICK j \in 1 .. Len(Filter(n, S)) : Filter(n, S)[j] = n[i]
        BY <4>1, <1>14 DEF Keeps
      <4> QED BY <4>2, <3>1
    <3>3. kind[l] = "api" => ~ Listed(r, l, 0)
      <4> SUFFICES ASSUME kind[l] = "api", Listed(r, l, 0) PROVE FALSE
        OBVIOUS
      <4>1. PICK i \in 1 .. Len(cs) : cs[i] = [lane |-> l, exitCode |-> 0]
        BY <1>1, <1>3 DEF Listed
      <4> QED BY <4>1, <2>4, <1>13 DEF Explains
    <3>4. Len(RowsFor(r, l)') = 0
      BY <3>1, <1>15
    <3>5. DOMAIN n = 1 .. Len(n)
      BY LenProperties
    <3> QED BY <3>2, <3>3, <3>4, <3>5, <1>10
  <2> QED BY <2>3, <2>4
<1>18. CASE \A i \in 1 .. Len(cs) : cs[i].lane # l
  <2>1. Filter(n, S) = <<>>
    <3>1. \A i \in 1 .. Len(q) : i # 0 => Filter(q[i], S) = <<>>
      BY <1>8, <1>16, <1>18
    <3>2. 0 \notin 1 .. Len(q)
      BY <1>3, <1>8
    <3> HIDE DEF S
    <3> QED BY <3>1, <3>2, <1>8, <1>9, FilterFlatten
  <2>2. \A i \in 1 .. Len(n) : n[i].lane # l
    <3> SUFFICES ASSUME NEW i \in 1 .. Len(n), n[i].lane = l PROVE FALSE
      OBVIOUS
    <3>1. n[i] \in S
      <4>1. n[i] \in Rows
        BY ElementOfSeq
      <4> QED BY <4>1, OfLaneType
    <3>2. PICK j \in 1 .. Len(Filter(n, S)) : Filter(n, S)[j] = n[i]
      BY <3>1, <1>14 DEF Keeps
    <3> QED BY <3>2, <2>1
  <2>3. ~ Listed(r, l, 0)
    BY <1>1, <1>3, <1>18 DEF Listed
  <2>4. Len(RowsFor(r, l)') = 0
    BY <2>1, <1>15
  <2>5. DOMAIN n = 1 .. Len(n)
    BY LenProperties
  <2> QED BY <2>2, <2>3, <2>4, <2>5, <1>10
<1> QED BY <1>17, <1>18

\* FreshLanesExact: normalize_run gives a lane that was started at most once under its run
\* id its own rows, once, and only if it is listed; an api lane exactly if it exited with 0.
THEOREM FreshLanesAreExact == Spec => FreshLanesExact
<1> DEFINE Exact == \A r \in RunIds, l \in LaneNames :
              pc = "idle" /\ pc' = "latest" /\ id' = r /\ times[r][l] <= 1 =>
                /\ Len(RowsFor(r, l)') <= 1
                /\ \A i \in DOMAIN normalized'[r] :
                     normalized'[r][i].lane = l =>
                       /\ normalized'[r][i].by \in completed[r]
                       /\ Listed(r, l, 0) \/ Listed(r, l, 1)
                /\ kind[l] = "api" => Len(RowsFor(r, l)') = IF Listed(r, l, 0) THEN 1 ELSE 0
<1>1. IInv /\ FreshInStep /\ [Next]_vars => [Exact]_vars
  <2> SUFFICES ASSUME IInv, FreshInStep, Next, NEW r \in RunIds, NEW l \in LaneNames,
                      pc = "idle", pc' = "latest", id' = r, times[r][l] <= 1
               PROVE  Exact!(r, l)!2
    OBVIOUS
  <2>1. Normalize(r)
    BY DEF Next, StartInvocation, RunLane, AllLanesRun, SaveMetadata, Abort, CrashInWrite, Normalize,
           WriteLatest, TearNormalized, NormalizeInterrupted, runner
  <2> QED BY <2>1, NormalizedExact
<1>2. IInv /\ [Next]_vars => IInv'
  BY NextIInv
<1> QED BY <1>1, <1>2, InitIInv, InitFresh, NextFresh, PTL DEF Spec, FreshLanesExact

--------------------------------------------------------------------------------
(***************************************************************************)
(* Fractions: the order of the means.                                      *)
(***************************************************************************)

Fractions == Nat \X (Nat \ {0})

\* Multiplication by a natural number keeps the order, by a positive one both ways.
LEMMA TimesKeepsOrder ==
  ASSUME NEW a \in Nat, NEW b \in Nat, NEW c \in Nat, a <= b
  PROVE  a * c <= b * c
<1>1. PICK d \in Nat : b = a + d
  <2>1. b - a \in Nat /\ b = a + (b - a)
    OBVIOUS
  <2> QED BY <2>1
<1>2. b * c = a * c + d * c /\ d * c >= 0 /\ a * c \in Nat /\ d * c \in Nat
  BY <1>1
<1> QED BY <1>2

LEMMA TimesStrict ==
  ASSUME NEW a \in Nat, NEW b \in Nat, NEW c \in Nat, c # 0
  PROVE  a * c <= b * c <=> a <= b
<1>1. a <= b => a * c <= b * c
  BY TimesKeepsOrder
<1>2. ASSUME b < a PROVE b * c < a * c
  <2>1. PICK d \in Nat : a = b + 1 + d
    <3>1. a - b - 1 \in Nat /\ a = b + 1 + (a - b - 1)
      BY <1>2
    <3> QED BY <3>1
  <2>2. a * c = b * c + c + d * c /\ d * c \in Nat /\ b * c \in Nat
    BY <2>1
  <2> QED BY <2>2
<1>3. a * c \in Nat /\ b * c \in Nat
  OBVIOUS
<1> QED BY <1>1, <1>2, <1>3

LEMMA ProductPositive ==
  ASSUME NEW a \in Nat, NEW b \in Nat
  PROVE  a * b \in Nat /\ (a * b = 0 <=> a = 0 \/ b = 0)
<1>1. a * b \in Nat
  OBVIOUS
<1>2. a # 0 /\ b # 0 => a * b # 0
  <2> SUFFICES ASSUME a # 0, b # 0 PROVE a * b # 0
    OBVIOUS
  <2>1. 1 * b <= a * b
    BY TimesKeepsOrder
  <2> QED BY <2>1
<1>3. a = 0 \/ b = 0 => a * b = 0
  OBVIOUS
<1> QED BY <1>1, <1>2, <1>3

\* The order is that of the products across.
LEMMA LessIsOrder ==
  ASSUME NEW x \in Fractions, NEW y \in Fractions
  PROVE  /\ x = <<x[1], x[2]>> /\ x[1] \in Nat /\ x[2] \in Nat /\ x[2] # 0
         /\ ~ Less(y, x) <=> x[1] * y[2] <= y[1] * x[2]
         /\ Less(x, y) => ~ Less(y, x)
<1>1. x = <<x[1], x[2]>> /\ x[1] \in Nat /\ x[2] \in Nat /\ x[2] # 0
  BY DEF Fractions
<1>2. y[1] \in Nat /\ y[2] \in Nat
  BY DEF Fractions
<1>3. x[1] * y[2] \in Nat /\ y[1] * x[2] \in Nat
  BY <1>1, <1>2
<1> QED BY <1>1, <1>3 DEF Less

LEMMA LessTransitive ==
  ASSUME NEW x \in Fractions, NEW y \in Fractions, NEW z \in Fractions, ~ Less(y, x), ~ Less(z, y)
  PROVE  ~ Less(z, x)
<1>1. PICK a \in Nat, b \in Nat : x = <<a, b>> /\ b # 0
  BY DEF Fractions
<1>2. PICK c \in Nat, d \in Nat : y = <<c, d>> /\ d # 0
  BY DEF Fractions
<1>3. PICK e \in Nat, f \in Nat : z = <<e, f>> /\ f # 0
  BY DEF Fractions
<1>4. a * d <= c * b /\ c * f <= e * d
  BY <1>1, <1>2, <1>3, LessIsOrder
<1>5. a * d \in Nat /\ c * b \in Nat /\ c * f \in Nat /\ e * d \in Nat /\ a * f \in Nat /\ e * b \in Nat
  OBVIOUS
<1>6. (a * d) * f <= (c * b) * f
  BY <1>4, <1>5, TimesKeepsOrder
<1>7. (c * f) * b <= (e * d) * b
  BY <1>4, <1>5, TimesKeepsOrder
<1>8. (a * f) * d <= (e * b) * d
  <2>1. (a * d) * f = (a * f) * d /\ (c * b) * f = (c * f) * b /\ (e * d) * b = (e * b) * d
    OBVIOUS
  <2>2. (a * f) * d \in Nat /\ (e * b) * d \in Nat /\ (c * f) * b \in Nat
    BY <1>5
  <2> QED BY <2>1, <2>2, <1>6, <1>7
<1>9. a * f <= e * b
  BY <1>2, <1>5, <1>8, TimesStrict
<1> QED BY <1>1, <1>3, <1>9, LessIsOrder

\* So is the order of a unit: no two means are better than each other, and what is not
\* better than what is not better is not better.
LEMMA BetterIsOrder ==
  ASSUME NEW u, NEW x \in Fractions, NEW y \in Fractions, NEW z \in Fractions
  PROVE  /\ ~ Better(u, x, x)
         /\ Better(u, x, y) => ~ Better(u, y, x)
         /\ ~ Better(u, x, y) /\ ~ Better(u, y, z) => ~ Better(u, x, z)
<1>1. ~ Less(x, x) /\ (Less(x, y) => ~ Less(y, x)) /\ (Less(y, x) => ~ Less(x, y))
  BY LessIsOrder
<1>2. ~ Less(y, x) /\ ~ Less(z, y) => ~ Less(z, x)
  BY LessTransitive
<1>3. ~ Less(x, y) /\ ~ Less(y, z) => ~ Less(x, z)
  BY LessTransitive
<1> QED BY <1>1, <1>2, <1>3 DEF Better

\* Among finitely many means one is not worse than any.
LEMMA BestOfMany ==
  ASSUME NEW u, NEW m \in Nat, NEW f, \A i \in 1 .. m : f[i] \in Fractions, m # 0
  PROVE  \E i \in 1 .. m : \A j \in 1 .. m : ~ Better(u, f[j], f[i])
<1> DEFINE Bad == {k \in 1 .. m : ~ \E i \in 1 .. k : \A j \in 1 .. k : ~ Better(u, f[j], f[i])}
<1>1. SUFFICES ASSUME Bad # {} PROVE FALSE
  OBVIOUS
<1>2. PICK k \in Bad : \A j \in Bad : k <= j
  <2>1. Bad \subseteq Nat
    OBVIOUS
  <2> QED BY <1>1, <2>1, LeastNumber
<1>3. f[k] \in Fractions /\ k \in 1 .. m
  BY <1>2
<1>4. ~ Better(u, f[k], f[k])
  BY <1>3, BetterIsOrder
<1>5. CASE k = 1
  <2>1. \A j \in 1 .. k : j = k
    BY <1>5
  <2> QED BY <2>1, <1>2, <1>4, <1>5
<1>6. CASE k # 1
  <2>1. k - 1 \in 1 .. m /\ k - 1 \notin Bad
    <3>1. k - 1 \in 1 .. m
      BY <1>3, <1>6
    <3>2. k - 1 \notin Bad
      <4> HIDE DEF Bad
      <4> QED BY <1>2, <1>3
    <3> QED BY <3>1, <3>2
  <2>2. PICK i \in 1 .. k - 1 : \A j \in 1 .. k - 1 : ~ Better(u, f[j], f[i])
    BY <2>1
  <2>3. f[i] \in Fractions /\ i \in 1 .. k /\ k \in 1 .. k
    BY <1>3, <2>1, <2>2
  <2>4. \A j \in 1 .. k : j = k \/ j \in 1 .. k - 1
    BY <1>3
  <2>5. CASE Better(u, f[k], f[i])
    <3>1. ~ Better(u, f[i], f[k])
      BY <1>3, <2>3, <2>5, BetterIsOrder
    <3>2. \A j \in 1 .. k - 1 : ~ Better(u, f[j], f[k])
      <4> TAKE j \in 1 .. k - 1
      <4>1. f[j] \in Fractions /\ ~ Better(u, f[j], f[i])
        BY <1>3, <2>1, <2>2
      <4> QED BY <4>1, <1>3, <2>3, <3>1, BetterIsOrder
    <3>3. \A j \in 1 .. k : ~ Better(u, f[j], f[k])
      BY <1>4, <2>4, <3>2
    <3> QED BY <1>2, <2>3, <3>3
  <2>6. CASE ~ Better(u, f[k], f[i])
    <3>1. \A j \in 1 .. k : ~ Better(u, f[j], f[i])
      BY <2>2, <2>4, <2>6
    <3> QED BY <1>2, <2>3, <3>1
  <2> QED BY <2>5, <2>6
<1> QED BY <1>5, <1>6

--------------------------------------------------------------------------------
(***************************************************************************)
(* Groups, their means and their winners.                                  *)
(***************************************************************************)

\* The names of platforms: those of the specs, and those that the code has built in.
PlatformNames ==
  STRING \cup {"dotnet", "java", "go", "dotnet-tuned", "dotnet-tfb", "java-spring"}

Units == {"requests/s", "ns/op", "ns", "unknown"}

ResultRows ==
  [benchmark : STRING, category : STRING, platform : PlatformNames, size : Int, unit : Units, mean : Nat]

\* F is the function that Total declares, on the first k repeats.
Totals(F, s, k) == F = [n \in 0 .. k |-> IF n = 0 THEN 0 ELSE F[n - 1] + s[n].mean]

LEMMA TotalsExists ==
  ASSUME NEW s, NEW m \in Nat
  PROVE  \E F : Totals(F, s, m)
<1> DEFINE Bad == {k \in Nat : ~ \E F : Totals(F, s, k)}
<1>1. SUFFICES ASSUME Bad # {} PROVE FALSE
  OBVIOUS
<1>2. PICK k \in Bad : \A j \in Bad : k <= j
  BY <1>1, LeastNumber
<1>3. CASE k = 0
  <2> DEFINE F == [n \in 0 .. 0 |-> 0]
  <2>1. Totals(F, s, 0)
    BY DEF Totals
  <2> QED BY <2>1, <1>3, <1>2
<1>4. CASE k # 0
  <2>1. k - 1 \in Nat /\ k - 1 \notin Bad
    BY <1>2, <1>4
  <2>2. PICK F : Totals(F, s, k - 1)
    BY <2>1
  <2> DEFINE G == [n \in 0 .. k |-> IF n = k THEN F[k - 1] + s[k].mean ELSE F[n]]
  <2>3. \A n \in 0 .. k - 1 : F[n] = IF n = 0 THEN 0 ELSE F[n - 1] + s[n].mean
    BY <2>2 DEF Totals
  <2>4. \A n \in 0 .. k : G[n] = IF n = 0 THEN 0 ELSE G[n - 1] + s[n].mean
    <3>1. G[k] = G[k - 1] + s[k].mean
      BY <2>1, <1>4
    <3>2. \A n \in 0 .. k - 1 : G[n] = IF n = 0 THEN 0 ELSE G[n - 1] + s[n].mean
      BY <2>3, <2>1
    <3> HIDE DEF G
    <3> QED BY <3>1, <3>2, <1>4, <2>1
  <2>5. Totals(G, s, k)
    <3>1. G = [n \in 0 .. k |-> G[n]]
      OBVIOUS
    <3> HIDE DEF G
    <3> QED BY <3>1, <2>4 DEF Totals
  <2> QED BY <2>5, <1>2
<1> QED BY <1>3, <1>4

\* The total of some repeats is a number, and positive if there is a repeat and all of
\* them are.
LEMMA TotalType ==
  ASSUME NEW s \in Seq(ResultRows)
  PROVE  /\ Total(s) \in Nat
         /\ Len(s) # 0 /\ (\A i \in 1 .. Len(s) : s[i].mean # 0) => Total(s) # 0
<1>1. Len(s) \in Nat /\ \A i \in 1 .. Len(s) : s[i].mean \in Nat
  <2>1. \A i \in 1 .. Len(s) : s[i] \in ResultRows
    BY ElementOfSeq
  <2> QED BY <2>1, LenProperties DEF ResultRows
<1>2. PICK F : Totals(F, s, Len(s)) /\ Total(s) = F[Len(s)]
  BY <1>1, TotalsExists DEF Total, Totals
<1>3. \A n \in 0 .. Len(s) : F[n] = IF n = 0 THEN 0 ELSE F[n - 1] + s[n].mean
  BY <1>2 DEF Totals
<1> DEFINE Good(n) == F[n] \in Nat /\ ((\A i \in 1 .. Len(s) : s[i].mean # 0) => n = 0 \/ F[n] # 0)
           Bad == {n \in 0 .. Len(s) : ~ Good(n)}
<1>4. SUFFICES ASSUME Bad # {} PROVE FALSE
  BY <1>1, <1>2
<1>5. PICK n \in Bad : \A j \in Bad : n <= j
  <2>1. Bad \subseteq Nat
    OBVIOUS
  <2> QED BY <1>4, <2>1, LeastNumber
<1>6. CASE n = 0
  BY <1>3, <1>5, <1>6
<1>7. CASE n # 0
  <2>1. n - 1 \in 0 .. Len(s) /\ n \in 1 .. Len(s) /\ Good(n - 1)
    BY <1>5, <1>7
  <2>2. F[n] = F[n - 1] + s[n].mean /\ s[n].mean \in Nat
    BY <1>1, <1>3, <1>7, <2>1
  <2>3. Good(n)
    BY <2>1, <2>2
  <2> QED BY <1>5, <2>3
<1> QED BY <1>6, <1>7

\* The rows of a group.
LEMMA GroupRows ==
  ASSUME rows \in Seq(ResultRows), NEW key
  PROVE  /\ RowsIn(key) \in Seq(ResultRows)
         /\ ToSet(RowsIn(key)) = {row \in ToSet(rows) : IsComparable(row) /\ Key(row) = key}
         /\ \A p : p \in PlatformsIn(key) <=> \E i \in 1 .. Len(RowsIn(key)) : RowsIn(key)[i].platform = p
<1>1. PICK g \in Seq(ResultRows) : g = RowsIn(key)
  BY FilterType DEF RowsIn
<1>2. ToSet(g) = {row \in ToSet(rows) : IsComparable(row) /\ Key(row) = key}
  <2>1. ToSet(g) = ToSet(rows) \cap {row \in ToSet(rows) : IsComparable(row) /\ Key(row) = key}
    BY <1>1, FilterElements DEF RowsIn
  <2> QED BY <2>1
<1>3. DOMAIN g = 1 .. Len(g)
  BY LenProperties
<1>4. ASSUME NEW p PROVE p \in PlatformsIn(key) <=> \E i \in 1 .. Len(g) : g[i].platform = p
  BY <1>1, <1>3 DEF PlatformsIn, ToSet
<1> QED BY <1>1, <1>2, <1>4

\* Every group has a row.
LEMMA GroupNotEmpty ==
  ASSUME rows \in Seq(ResultRows), NEW key \in Keys
  PROVE  Len(RowsIn(key)) \in Nat \ {0}
<1>1. PICK row \in ToSet(rows) : IsComparable(row) /\ Key(row) = key
  BY DEF Keys, ToSet
<1>2. row \in ToSet(RowsIn(key)) /\ RowsIn(key) \in Seq(ResultRows)
  BY <1>1, GroupRows
<1>3. PICK g \in Seq(ResultRows) : g = RowsIn(key)
  BY <1>2
<1>4. DOMAIN g = 1 .. Len(g) /\ Len(g) \in Nat
  BY LenProperties
<1>5. PICK i \in 1 .. Len(g) : g[i] = row
  BY <1>2, <1>3, <1>4 DEF ToSet
<1> QED BY <1>3, <1>4, <1>5

\* The repeats of a platform, which has one if it is in the group.
LEMMA RepeatRows ==
  ASSUME rows \in Seq(ResultRows), NEW key, NEW p
  PROVE  /\ RepeatsOf(key, p) \in Seq(ResultRows)
         /\ ToSet(RepeatsOf(key, p)) = {row \in ToSet(RowsIn(key)) : row.platform = p}
         /\ p \in PlatformsIn(key) <=> Len(RepeatsOf(key, p)) # 0
<1>1. PICK g \in Seq(ResultRows) : g = RowsIn(key)
  BY GroupRows
<1>2. PICK r \in Seq(ResultRows) : r = RepeatsOf(key, p)
  BY <1>1, FilterType DEF RepeatsOf
<1>3. ToSet(r) = {row \in ToSet(RowsIn(key)) : row.platform = p}
  <2>1. ToSet(r) = ToSet(g) \cap {row \in ToSet(rows) : row.platform = p}
    BY <1>1, <1>2, FilterElements DEF RepeatsOf
  <2>2. ToSet(g) \subseteq ToSet(rows)
    BY <1>1, GroupRows
  <2> QED BY <2>1, <2>2, <1>1
<1>4. Len(r) \in Nat /\ DOMAIN r = 1 .. Len(r)
  BY LenProperties
<1>5. Len(r) # 0 <=> ToSet(r) # {}
  BY <1>4 DEF ToSet
<1>6. p \in PlatformsIn(key) <=> ToSet(r) # {}
  BY <1>3 DEF PlatformsIn
<1> QED BY <1>2, <1>3, <1>5, <1>6

\* The mean of a platform in a group is a fraction.
LEMMA MeanType ==
  ASSUME rows \in Seq(ResultRows), NEW key, NEW p \in PlatformsIn(key)
  PROVE  Mean(key, p) \in Fractions
<1>1. RepeatsOf(key, p) \in Seq(ResultRows) /\ Len(RepeatsOf(key, p)) # 0
  BY RepeatRows
<1>2. Total(RepeatsOf(key, p)) \in Nat /\ Len(RepeatsOf(key, p)) \in Nat
  BY <1>1, TotalType, LenProperties
<1> QED BY <1>1, <1>2 DEF Mean, Fractions

\* The best mean of a group is that of a platform, and no platform is better.
LEMMA BestIsBest ==
  ASSUME rows \in Seq(ResultRows), NEW key \in Keys
  PROVE  /\ \E q \in PlatformsIn(key) : Best(key) = Mean(key, q)
         /\ \A p \in PlatformsIn(key) : ~ Better(UnitOf(key), Mean(key, p), Best(key))
<1>1. PICK g \in Seq(ResultRows) : g = RowsIn(key) /\ Len(g) \in Nat /\ Len(g) # 0
  BY GroupRows, GroupNotEmpty
<1>2. \A p : p \in PlatformsIn(key) <=> \E i \in 1 .. Len(g) : g[i].platform = p
  BY <1>1, GroupRows
<1> DEFINE f == [i \in 1 .. Len(g) |-> Mean(key, g[i].platform)]
<1>3. \A i \in 1 .. Len(g) : f[i] \in Fractions
  <2> TAKE i \in 1 .. Len(g)
  <2>1. g[i].platform \in PlatformsIn(key)
    BY <1>2
  <2> QED BY <2>1, MeanType
<1>4. PICK i \in 1 .. Len(g) : \A j \in 1 .. Len(g) : ~ Better(UnitOf(key), f[j], f[i])
  <2> HIDE DEF f
  <2> QED BY <1>1, <1>3, BestOfMany
<1> DEFINE means == {Mean(key, p) : p \in PlatformsIn(key)}
<1>5. f[i] \in means
  BY <1>2
<1>6. \A n \in means : ~ Better(UnitOf(key), n, f[i])
  <2> TAKE n \in means
  <2>1. PICK p \in PlatformsIn(key) : n = Mean(key, p)
    OBVIOUS
  <2>2. PICK j \in 1 .. Len(g) : g[j].platform = p
    BY <1>2
  <2>3. n = f[j]
    BY <2>1, <2>2
  <2> QED BY <2>3, <1>4
<1>7. Best(key) = CHOOSE m \in means : \A n \in means : ~ Better(UnitOf(key), n, m)
  BY DEF Best
<1>8. Best(key) \in means /\ \A n \in means : ~ Better(UnitOf(key), n, Best(key))
  <2> HIDE DEF means, f
  <2> QED BY <1>5, <1>6, <1>7
<1> QED BY <1>8

\* A platform of a group has a first row.
LEMMA FirstRowExists ==
  ASSUME rows \in Seq(ResultRows), NEW key, NEW p \in PlatformsIn(key)
  PROVE  FirstRow(key, p) \in 1 .. Len(RowsIn(key))
<1>1. PICK g \in Seq(ResultRows) : g = RowsIn(key)
  BY GroupRows
<1>2. DOMAIN g = 1 .. Len(g) /\ Len(g) \in Nat
  BY LenProperties
<1> DEFINE mine == {i \in 1 .. Len(g) : g[i].platform = p}
<1>3. mine # {} /\ mine \subseteq Nat
  BY <1>1, GroupRows
<1>4. PICK i \in mine : \A j \in mine : i <= j
  BY <1>3, LeastNumber
<1>5. \E i1 \in DOMAIN RowsIn(key) :
        /\ RowsIn(key)[i1].platform = p
        /\ \A j \in DOMAIN RowsIn(key) : RowsIn(key)[j].platform = p => i1 <= j
  BY <1>1, <1>2, <1>4
<1>6. FirstRow(key, p) \in DOMAIN RowsIn(key)
  BY <1>5 DEF FirstRow
<1> QED BY <1>1, <1>2, <1>6

\* The winner of a group is one of its platforms and has the best mean.
LEMMA WinnerWins ==
  ASSUME rows \in Seq(ResultRows), NEW key \in Keys
  PROVE  Winner(key) \in PlatformsIn(key) /\ Equal(Mean(key, Winner(key)), Best(key))
<1> DEFINE winners == {p \in PlatformsIn(key) : Equal(Mean(key, p), Best(key))}
<1>1. winners # {}
  <2>1. PICK q \in PlatformsIn(key) : Best(key) = Mean(key, q)
    BY BestIsBest
  <2>2. Equal(Mean(key, q), Best(key))
    BY <2>1 DEF Equal
  <2> QED BY <2>1, <2>2
<1>2. PICK n \in Nat : n = Len(RowsIn(key))
  BY GroupNotEmpty
<1>3. \A p \in winners : FirstRow(key, p) \in 1 .. n
  BY <1>2, FirstRowExists
<1> DEFINE after == {n - FirstRow(key, p) : p \in winners}
<1>4. after # {} /\ after \subseteq Nat
  <2> HIDE DEF winners
  <2> QED BY <1>1, <1>3
<1>5. PICK m \in after : \A k \in after : m <= k
  BY <1>4, LeastNumber
<1>6. PICK p \in winners : m = n - FirstRow(key, p)
  BY <1>5
<1>7. \A q \in winners : FirstRow(key, q) <= FirstRow(key, p)
  <2> HIDE DEF winners
  <2> TAKE q \in winners
  <2>1. m <= n - FirstRow(key, q)
    BY <1>5
  <2>2. FirstRow(key, q) \in 1 .. n /\ FirstRow(key, p) \in 1 .. n
    BY <1>3
  <2> QED BY <2>1, <2>2, <1>6
<1>8. Winner(key) = CHOOSE w \in winners : \A q \in winners : FirstRow(key, q) <= FirstRow(key, w)
  BY DEF Winner
<1>9. Winner(key) \in winners
  <2> HIDE DEF winners
  <2> QED BY <1>7, <1>8
<1> QED BY <1>9

\* What compare and report make of a mean and the best mean other than 0.
ScoreAgrees(u, m, b, n) ==
  LET line == Line(m, b, n)
      score == RelativeScore(u, m, b)
  IN /\ line.best <=> Equal(m, b)
     /\ line.best <=> Equal(line.ratio, <<1, 1>>)
     /\ line.best <=> Equal(score, <<1, 1>>)
     /\ ~ Less(<<1, 1>>, score)
     /\ IF IsHigherBetter(u) THEN Equal(score, line.ratio) ELSE Equal(Divide(<<1, 1>>, line.ratio), score)
     /\ score \in Fractions
     /\ IsHigherBetter(u) => (score[1] # 0 <=> m[1] # 0)
     /\ ~ IsHigherBetter(u) => score[1] # 0

\* They agree whatever the unit.
LEMMA RatioAndScore ==
  ASSUME NEW u, NEW m \in Fractions, NEW b \in Fractions, NEW n,
         ~ Better(u, m, b), ~ Equal(b, Zero)
  PROVE  ScoreAgrees(u, m, b, n)
<1>1. PICK m1 \in Nat, m2 \in Nat, b1 \in Nat, b2 \in Nat :
        m = <<m1, m2>> /\ b = <<b1, b2>> /\ m2 # 0 /\ b2 # 0
  BY DEF Fractions
<1>2. b1 # 0
  BY <1>1 DEF Equal, Zero
<1>3. PICK x \in Nat, y \in Nat : x = m1 * b2 /\ y = b1 * m2
  BY ProductPositive
<1>4. y # 0 /\ (x = 0 <=> m1 = 0)
  BY <1>1, <1>2, <1>3, ProductPositive
<1>5. Equal(m, b) <=> x = y
  BY <1>1, <1>3 DEF Equal
<1>6. Equal(m, Zero) <=> m1 = 0
  BY <1>1 DEF Equal, Zero
<1>7. Divide(m, b) = <<x, y>> /\ Divide(b, m) = <<y, x>>
  <2>1. m2 * b1 = y /\ b2 * m1 = x
    BY <1>3
  <2> QED BY <1>1, <1>3, <2>1 DEF Divide
<1>8. Line(m, b, n).best = Equal(m, b) /\ Line(m, b, n).ratio = <<x, y>>
  BY <1>7 DEF Line
<1>9. Equal(<<x, y>>, <<1, 1>>) <=> x = y
  BY DEF Equal
<1>10. CASE IsHigherBetter(u)
  <2>1. x <= y
    BY <1>1, <1>3, <1>10 DEF Better, Less
  <2>2. RelativeScore(u, m, b) = IF m1 = 0 THEN <<0, 1>> ELSE <<x, y>>
    BY <1>6, <1>7, <1>10 DEF RelativeScore, Zero
  <2>3. CASE m1 = 0
    <3>1. RelativeScore(u, m, b) = <<0, 1>> /\ x = 0
      BY <2>2, <2>3, <1>4
    <3>2. ~ Equal(<<0, 1>>, <<1, 1>>) /\ ~ Less(<<1, 1>>, <<0, 1>>) /\ Equal(<<0, 1>>, <<x, y>>)
      BY <3>1 DEF Equal, Less
    <3>3. <<0, 1>> \in Fractions
      BY DEF Fractions
    <3> QED BY <1>1, <1>4, <1>5, <1>8, <1>9, <1>10, <2>3, <3>1, <3>2, <3>3 DEF ScoreAgrees
  <2>4. CASE m1 # 0
    <3>1. RelativeScore(u, m, b) = <<x, y>> /\ x # 0
      BY <2>2, <2>4, <1>4
    <3>2. ~ Less(<<1, 1>>, <<x, y>>) /\ Equal(<<x, y>>, <<x, y>>)
      BY <2>1 DEF Equal, Less
    <3>3. <<x, y>> \in Fractions
      BY <1>4 DEF Fractions
    <3> QED BY <1>1, <1>4, <1>5, <1>8, <1>9, <1>10, <2>4, <3>1, <3>2, <3>3 DEF ScoreAgrees
  <2> QED BY <2>3, <2>4
<1>11. CASE ~ IsHigherBetter(u)
  <2>1. y <= x /\ x # 0
    BY <1>1, <1>3, <1>4, <1>11 DEF Better, Less
  <2>2. RelativeScore(u, m, b) = <<y, x>>
    BY <1>4, <1>6, <1>7, <1>11, <2>1 DEF RelativeScore
  <2>3. Equal(<<y, x>>, <<1, 1>>) <=> x = y
    BY DEF Equal
  <2>4. ~ Less(<<1, 1>>, <<y, x>>)
    BY <2>1 DEF Less
  <2>5. Divide(<<1, 1>>, <<x, y>>) = <<y, x>> /\ Equal(<<y, x>>, <<y, x>>)
    BY DEF Divide, Equal
  <2>6. <<y, x>> \in Fractions
    BY <2>1 DEF Fractions
  <2> QED BY <1>4, <1>5, <1>8, <1>9, <1>11, <2>2, <2>3, <2>4, <2>5, <2>6 DEF ScoreAgrees
<1> QED BY <1>10, <1>11

\* Where the best mean is 0 nobody has another ratio or score.
LEMMA NothingToCompare ==
  ASSUME NEW u, NEW m, NEW b, NEW n, Equal(b, Zero)
  PROVE  Line(m, b, n).ratio = Zero /\ RelativeScore(u, m, b) = Zero
BY DEF Line, RelativeScore

LEMMA ComparedPlatforms == \A platforms : ComparisonPlatforms(platforms) = platforms
BY DEF ComparisonPlatforms

\* RanksAgree, of one group.
LEMMA GroupAgrees ==
  ASSUME rows \in Seq(ResultRows), NEW key \in Keys,
         printed[key] = Lines(key), shown[key] = Scored(key)
  PROVE  /\ DOMAIN shown[key].score = DOMAIN printed[key]
         /\ \E p \in DOMAIN printed[key] : p = shown[key].winner /\ printed[key][p].best
         /\ \A p \in DOMAIN printed[key] :
              IF Equal(Best(key), Zero)
              THEN Equal(printed[key][p].ratio, Zero) /\ Equal(shown[key].score[p], Zero)
              ELSE /\ printed[key][p].best <=> Equal(printed[key][p].ratio, <<1, 1>>)
                   /\ printed[key][p].best <=> Equal(shown[key].score[p], <<1, 1>>)
                   /\ ~ Less(<<1, 1>>, shown[key].score[p])
                   /\ IF IsHigherBetter(UnitOf(key))
                      THEN Equal(shown[key].score[p], printed[key][p].ratio)
                      ELSE Equal(Divide(<<1, 1>>, printed[key][p].ratio), shown[key].score[p])
<1> DEFINE P == PlatformsIn(key)
           best == Best(key)
           unit == UnitOf(key)
<1>1. DOMAIN printed[key] = P /\ DOMAIN shown[key].score = P
  BY ComparedPlatforms DEF Lines, Scored
<1>2. \A p \in P : printed[key][p] = Line(Mean(key, p), best, Len(RepeatsOf(key, p)))
  BY ComparedPlatforms DEF Lines
<1>3. \A p \in P : shown[key].score[p] = RelativeScore(unit, Mean(key, p), best)
  BY DEF Scored
<1>4. shown[key].winner = Winner(key)
  BY DEF Scored
<1>5. \A p \in P : Mean(key, p) \in Fractions /\ ~ Better(unit, Mean(key, p), best)
  BY MeanType, BestIsBest
<1>6. best \in Fractions
  BY <1>5, BestIsBest
<1> HIDE DEF P, best, unit
<1>7. Winner(key) \in P /\ Equal(Mean(key, Winner(key)), best)
  BY WinnerWins DEF P, best
<1>8. \A m, n : Line(m, best, n).best <=> Equal(m, best)
  BY DEF Line
<1>9. Winner(key) \in DOMAIN printed[key] /\ printed[key][Winner(key)].best
  BY <1>1, <1>2, <1>7, <1>8
<1>10. ASSUME NEW p \in P
       PROVE  IF Equal(best, Zero)
              THEN Equal(printed[key][p].ratio, Zero) /\ Equal(shown[key].score[p], Zero)
              ELSE /\ printed[key][p].best <=> Equal(printed[key][p].ratio, <<1, 1>>)
                   /\ printed[key][p].best <=> Equal(shown[key].score[p], <<1, 1>>)
                   /\ ~ Less(<<1, 1>>, shown[key].score[p])
                   /\ IF IsHigherBetter(unit)
                      THEN Equal(shown[key].score[p], printed[key][p].ratio)
                      ELSE Equal(Divide(<<1, 1>>, printed[key][p].ratio), shown[key].score[p])
  <2>1. CASE Equal(best, Zero)
    <3>1. printed[key][p].ratio = Zero /\ shown[key].score[p] = Zero
      BY <1>2, <1>3, <2>1, NothingToCompare
    <3>2. Equal(Zero, Zero)
      BY DEF Equal
    <3> QED BY <2>1, <3>1, <3>2
  <2>2. CASE ~ Equal(best, Zero)
    <3>1. ScoreAgrees(unit, Mean(key, p), best, Len(RepeatsOf(key, p)))
      BY <1>5, <1>6, <2>2, RatioAndScore
    <3> QED BY <1>2, <1>3, <2>2, <3>1 DEF ScoreAgrees
  <2> QED BY <2>1, <2>2
<1> QED BY <1>1, <1>4, <1>9, <1>10 DEF best, unit

--------------------------------------------------------------------------------
\* What the ranking depends on is the rows.
LEMMA SameRows == rows' = rows =>
  /\ Keys' = Keys
  /\ \A key : Lines(key)' = Lines(key) /\ Scored(key)' = Scored(key)
<1> SUFFICES ASSUME rows' = rows PROVE Keys' = Keys /\ \A key : Lines(key)' = Lines(key) /\ Scored(key)' = Scored(key)
  OBVIOUS
<1>1. Keys' = Keys
  BY DEF Keys, IsComparable, Key
<1>2. ASSUME NEW key PROVE Lines(key)' = Lines(key) /\ Scored(key)' = Scored(key)
  <2>1. RowsIn(key)' = RowsIn(key)
    BY DEF RowsIn
  <2>2. PlatformsIn(key)' = PlatformsIn(key) /\ UnitOf(key)' = UnitOf(key)
    BY <2>1 DEF PlatformsIn, UnitOf
  <2>3. \A p : RepeatsOf(key, p)' = RepeatsOf(key, p)
    BY <2>1 DEF RepeatsOf
  <2>4. \A p : Mean(key, p)' = Mean(key, p)
    BY <2>3 DEF Mean
  <2>5. Best(key)' = Best(key)
    BY <2>2, <2>4 DEF Best
  <2>6. \A p : FirstRow(key, p)' = FirstRow(key, p)
    BY <2>1 DEF FirstRow
  <2>7. Winner(key)' = Winner(key)
    BY <2>2, <2>4, <2>5, <2>6 DEF Winner
  <2>8. Lines(key)' = Lines(key)
    BY <2>2, <2>3, <2>4, <2>5 DEF Lines
  <2>9. Scored(key)' = Scored(key)
    BY <2>1, <2>2, <2>4, <2>5, <2>7 DEF Scored
  <2> QED BY <2>8, <2>9
<1> QED BY <1>1, <1>2

--------------------------------------------------------------------------------
(***************************************************************************)
(* The plan of a run.                                                      *)
(***************************************************************************)

\* The platforms that are inserted come after some place of the others.
LEMMA InsertedAfter ==
  ASSUME NEW A, NEW s \in Seq(A), NEW p, NEW more
  PROVE  \E i \in 0 .. Len(s) :
           InsertAfter(s, p, more) = SubSeq(s, 1, i) \o more \o SubSeq(s, i + 1, Len(s))
<1> DEFINE I == {i \in 1 .. Len(s) : s[i] = p}
           at == SelectInSeq(s, LAMBDA x : x = p)
<1>1. Len(s) \in Nat
  BY LenProperties
<1>2. at = IF I # {} THEN Min(I) ELSE 0
  BY DEF SelectInSeq
<1>5. InsertAfter(s, p, more) = SubSeq(s, 1, at) \o more \o SubSeq(s, at + 1, Len(s))
  BY DEF InsertAfter
<1> HIDE DEF at
<1>3. CASE I = {}
  <2>1. at \in 0 .. Len(s)
    BY <1>1, <1>2, <1>3
  <2> QED BY <2>1, <1>5
<1>4. CASE I # {}
  <2>1. I \subseteq Nat
    OBVIOUS
  <2>2. PICK n \in I : \A m \in I : n <= m
    BY <1>4, <2>1, LeastNumber
  <2>3. Min(I) \in I
    <3> HIDE DEF I
    <3> QED BY <2>2 DEF Min
  <2>4. at \in 0 .. Len(s)
    BY <1>1, <1>2, <1>4, <2>3
  <2> QED BY <2>4, <1>5
<1> QED BY <1>3, <1>4

\* Where the inserted platforms are others the list remains one of distinct platforms.
LEMMA InsertKeepsDistinct ==
  ASSUME NEW A, NEW s \in Seq(A), NEW p, NEW more \in Seq(A)
  PROVE  /\ InsertAfter(s, p, more) \in Seq(A)
         /\ ToSet(InsertAfter(s, p, more)) = ToSet(s) \cup ToSet(more)
         /\ IsInjective(s) /\ IsInjective(more) /\ ToSet(s) \cap ToSet(more) = {}
            => IsInjective(InsertAfter(s, p, more))
<1>1. PICK i \in 0 .. Len(s) : InsertAfter(s, p, more) = SubSeq(s, 1, i) \o more \o SubSeq(s, i + 1, Len(s))
  BY InsertedAfter
<1>2. Len(s) \in Nat /\ Len(more) \in Nat /\ i \in Nat /\ i <= Len(s)
  BY LenProperties
<1>3. PICK a \in Seq(A) : a = SubSeq(s, 1, i) /\ Len(a) = i /\ \A k \in 1 .. i : a[k] = s[k]
  <2>1. SubSeq(s, 1, i) \in Seq(A)
    BY <1>2, SubSeqProperties, ElementOfSeq
  <2>2. Len(SubSeq(s, 1, i)) = i
    BY <1>2, SubSeqProperties
  <2>3. \A k \in 1 .. i : SubSeq(s, 1, i)[k] = s[k]
    BY <1>2, SubSeqProperties
  <2> QED BY <2>1, <2>2, <2>3
<1>4. PICK c \in Seq(A) :
        c = SubSeq(s, i + 1, Len(s)) /\ Len(c) = Len(s) - i /\ \A k \in 1 .. Len(s) - i : c[k] = s[k + i]
  <2>1. SubSeq(s, i + 1, Len(s)) \in Seq(A)
    BY <1>2, SubSeqProperties, ElementOfSeq
  <2>2. Len(SubSeq(s, i + 1, Len(s))) = Len(s) - i
    BY <1>2, SubSeqProperties
  <2>3. \A k \in 1 .. Len(s) - i : SubSeq(s, i + 1, Len(s))[k] = s[k + i]
    BY <1>2, SubSeqProperties
  <2> QED BY <2>1, <2>2, <2>3
<1>5. PICK w \in Seq(A) : w = a \o more /\ Len(w) = i + Len(more)
                          /\ \A k \in 1 .. Len(w) : w[k] = IF k <= i THEN s[k] ELSE more[k - i]
  <2>3. /\ a \o more \in Seq(A) /\ Len(a \o more) = Len(a) + Len(more)
        /\ \A k \in 1 .. Len(a) + Len(more) : (a \o more)[k] = IF k <= Len(a) THEN a[k] ELSE more[k - Len(a)]
    BY ConcatProperties
  <2>1. PICK w \in Seq(A) : w = a \o more /\ Len(w) = Len(a) + Len(more)
                            /\ \A k \in 1 .. Len(a) + Len(more) : w[k] = IF k <= Len(a) THEN a[k] ELSE more[k - Len(a)]
    BY <2>3
  <2>2. \A k \in 1 .. Len(w) : w[k] = IF k <= i THEN s[k] ELSE more[k - i]
    BY <1>2, <1>3, <2>1
  <2> QED BY <1>3, <2>1, <2>2
<1>6. PICK r \in Seq(A) : r = w \o c /\ Len(r) = Len(w) + Len(c)
                          /\ \A k \in 1 .. Len(r) : r[k] = IF k <= Len(w) THEN w[k] ELSE c[k - Len(w)]
  <2>1. /\ w \o c \in Seq(A) /\ Len(w \o c) = Len(w) + Len(c)
        /\ \A k \in 1 .. Len(w) + Len(c) : (w \o c)[k] = IF k <= Len(w) THEN w[k] ELSE c[k - Len(w)]
    BY ConcatProperties
  <2>2. PICK r \in Seq(A) : r = w \o c
    BY <2>1
  <2> QED BY <2>1, <2>2
<1>7. InsertAfter(s, p, more) = r
  BY <1>1, <1>3, <1>4, <1>5, <1>6
<1>8. Len(r) = Len(s) + Len(more) /\ Len(w) = i + Len(more)
  <2>1. Len(w) = i + Len(more)
    BY <1>5
  <2>2. Len(c) = Len(s) - i
    BY <1>4
  <2>3. Len(r) = Len(w) + Len(c)
    BY <1>6
  <2> QED BY <2>1, <2>2, <2>3, <1>2
<1>9. \A k \in 1 .. Len(r) : r[k] = IF k <= i THEN s[k] ELSE IF k <= i + Len(more) THEN more[k - i] ELSE s[k - Len(more)]
  <2> TAKE k \in 1 .. Len(r)
  <2>1. CASE k <= i
    BY <2>1, <1>2, <1>5, <1>6
  <2>2. CASE i < k /\ k <= i + Len(more)
    BY <2>2, <1>2, <1>5, <1>6
  <2>3. CASE i + Len(more) < k
    <3>1. k - Len(w) \in 1 .. Len(s) - i /\ ~ k <= Len(w) /\ k - Len(w) + i = k - Len(more)
      BY <2>3, <1>2, <1>8
    <3>2. r[k] = c[k - Len(w)]
      BY <3>1, <1>6
    <3>3. c[k - Len(w)] = s[k - Len(w) + i]
      BY <3>1, <1>4
    <3>4. ~ k <= i /\ ~ k <= i + Len(more)
      BY <2>3, <1>2
    <3> QED BY <3>1, <3>2, <3>3, <3>4
  <2> QED BY <2>1, <2>2, <2>3, <1>2
<1>10. DOMAIN s = 1 .. Len(s) /\ DOMAIN more = 1 .. Len(more) /\ DOMAIN r = 1 .. Len(r)
  BY LenProperties
<1>11. \A k \in 1 .. Len(r) :
         \/ k \in 1 .. i /\ r[k] = s[k] /\ k \in 1 .. Len(s)
         \/ k - i \in 1 .. Len(more) /\ r[k] = more[k - i]
         \/ k > i + Len(more) /\ k - Len(more) \in 1 .. Len(s) /\ r[k] = s[k - Len(more)]
  BY <1>2, <1>8, <1>9
<1>12. ToSet(r) = ToSet(s) \cup ToSet(more)
  <2>1. \A k \in 1 .. Len(r) : r[k] \in ToSet(s) \cup ToSet(more)
    BY <1>10, <1>11 DEF ToSet
  <2>2. \A k \in 1 .. Len(s) : s[k] \in ToSet(r)
    <3> TAKE k \in 1 .. Len(s)
    <3>1. CASE k <= i
      <4>1. k \in 1 .. Len(r) /\ r[k] = s[k]
        BY <3>1, <1>2, <1>8, <1>9
      <4> QED BY <4>1, <1>10 DEF ToSet
    <3>2. CASE k > i
      <4>1. k + Len(more) \in 1 .. Len(r) /\ r[k + Len(more)] = s[k]
        <5>1. k + Len(more) \in 1 .. Len(r) /\ ~ k + Len(more) <= i /\ k + Len(more) - Len(more) = k
              /\ ~ k + Len(more) <= i + Len(more)
          BY <3>2, <1>2, <1>8
        <5> QED BY <5>1, <1>9
      <4> QED BY <4>1, <1>10 DEF ToSet
    <3> QED BY <3>1, <3>2, <1>2
  <2>3. \A k \in 1 .. Len(more) : more[k] \in ToSet(r)
    <3> TAKE k \in 1 .. Len(more)
    <3>1. k + i \in 1 .. Len(r) /\ r[k + i] = more[k]
      <4>1. k + i \in 1 .. Len(r) /\ ~ k + i <= i /\ k + i <= i + Len(more) /\ k + i - i = k
        BY <1>2, <1>8
      <4> QED BY <4>1, <1>9
    <3> QED BY <3>1, <1>10 DEF ToSet
  <2>4. ToSet(s) = {s[k] : k \in 1 .. Len(s)} /\ ToSet(more) = {more[k] : k \in 1 .. Len(more)} /\ ToSet(r) = {r[k] : k \in 1 .. Len(r)}
    BY <1>10 DEF ToSet
  <2>5. ToSet(r) \subseteq ToSet(s) \cup ToSet(more)
    BY <2>1, <2>4
  <2>6. ToSet(s) \subseteq ToSet(r) /\ ToSet(more) \subseteq ToSet(r)
    BY <2>2, <2>3, <2>4
  <2> QED BY <2>5, <2>6
<1>13. ASSUME IsInjective(s), IsInjective(more), ToSet(s) \cap ToSet(more) = {}
       PROVE  IsInjective(r)
  <2>1. \A k, l \in 1 .. Len(s) : s[k] = s[l] => k = l
    BY <1>10, <1>13 DEF IsInjective
  <2>2. \A k, l \in 1 .. Len(more) : more[k] = more[l] => k = l
    BY <1>10, <1>13 DEF IsInjective
  <2>3. \A k \in 1 .. Len(s), l \in 1 .. Len(more) : s[k] # more[l]
    BY <1>10, <1>13 DEF ToSet
  <2>4. ASSUME NEW k \in 1 .. Len(r), NEW l \in 1 .. Len(r), r[k] = r[l] PROVE k = l
    <3>4. k \in Nat /\ l \in Nat
      OBVIOUS
    <3>5. \/ l \in 1 .. i /\ r[l] = s[l] /\ l \in 1 .. Len(s)
          \/ l - i \in 1 .. Len(more) /\ r[l] = more[l - i]
          \/ l > i + Len(more) /\ l - Len(more) \in 1 .. Len(s) /\ r[l] = s[l - Len(more)]
      BY <1>11
    <3>1. CASE k \in 1 .. i /\ r[k] = s[k] /\ k \in 1 .. Len(s)
      <4>1. l - i \in 1 .. Len(more) => r[l] # more[l - i]
        BY <3>1, <2>3, <2>4
      <4>2. l \in 1 .. Len(s) /\ r[l] = s[l] => k = l
        BY <3>1, <2>1, <2>4
      <4>3. l - Len(more) \in 1 .. Len(s) /\ r[l] = s[l - Len(more)] => k = l - Len(more)
        BY <3>1, <2>1, <2>4
      <4> QED BY <3>1, <3>4, <3>5, <4>1, <4>2, <4>3, <1>2
    <3>2. CASE k - i \in 1 .. Len(more) /\ r[k] = more[k - i]
      <4>1. \A j \in 1 .. Len(s) : r[l] # s[j]
        BY <3>2, <2>3, <2>4
      <4>2. l - i \in 1 .. Len(more) /\ r[l] = more[l - i]
        BY <4>1, <3>5
      <4>3. k - i = l - i
        BY <3>2, <4>2, <2>2, <2>4
      <4> QED BY <4>3, <3>4, <1>2
    <3>3. CASE k > i + Len(more) /\ k - Len(more) \in 1 .. Len(s) /\ r[k] = s[k - Len(more)]
      <4>1. l - i \in 1 .. Len(more) => r[l] # more[l - i]
        BY <3>3, <2>3, <2>4
      <4>2. l \in 1 .. Len(s) /\ r[l] = s[l] => k - Len(more) = l
        BY <3>3, <2>1, <2>4
      <4>3. l - Len(more) \in 1 .. Len(s) /\ r[l] = s[l - Len(more)] => k - Len(more) = l - Len(more)
        BY <3>3, <2>1, <2>4
      <4> QED BY <3>3, <3>4, <3>5, <4>1, <4>2, <4>3, <1>2
    <3> QED BY <3>1, <3>2, <3>3, <1>11
  <2> QED BY <2>4, <1>10 DEF IsInjective
<1> QED BY <1>7, <1>12, <1>13

\* Lists of one platform and of two.
LEMMA OneElement ==
  ASSUME NEW A, NEW e \in A
  PROVE  <<e>> \in Seq(A) /\ IsInjective(<<e>>) /\ ToSet(<<e>>) = {e}
<1>1. PICK t \in Seq(A) : t = <<e>> /\ DOMAIN t = 1 .. 1 /\ t[1] = e
  <2>1. PICK n \in Seq(A) : n = <<>> /\ Len(n) = 0
    BY EmptySeq
  <2>2. Append(n, e) = <<e>>
    BY <2>1
  <2>3. PICK t \in Seq(A) : t = Append(n, e)
    BY AppendProperties
  <2>4. Len(t) = 1 /\ t[1] = e
    BY <2>1, <2>3, AppendProperties
  <2> QED BY <2>2, <2>3, <2>4, LenProperties
<1>2. IsInjective(t)
  BY <1>1 DEF IsInjective
<1>3. ToSet(t) = {e}
  BY <1>1 DEF ToSet
<1> QED BY <1>1, <1>2, <1>3

LEMMA TwoElements ==
  ASSUME NEW A, NEW d \in A, NEW e \in A, d # e
  PROVE  /\ <<d>> \o <<e>> \in Seq(A) /\ IsInjective(<<d>> \o <<e>>)
         /\ ToSet(<<d>> \o <<e>>) = {d, e}
<1>1. PICK a \in Seq(A), b \in Seq(A) : a = <<d>> /\ b = <<e>> /\ Len(a) = 1 /\ Len(b) = 1
                                  /\ a[1] = d /\ b[1] = e
  <2>1. <<d>> \in Seq(A) /\ <<e>> \in Seq(A)
    BY OneElement
  <2>2. Len(<<d>>) = 1 /\ Len(<<e>>) = 1 /\ <<d>>[1] = d /\ <<e>>[1] = e
    OBVIOUS
  <2> QED BY <2>1, <2>2
<1>2. PICK t \in Seq(A) : t = a \o b /\ Len(t) = 2 /\ t[1] = d /\ t[2] = e
  <2>1. /\ a \o b \in Seq(A) /\ Len(a \o b) = Len(a) + Len(b)
        /\ \A i \in 1 .. Len(a) + Len(b) : (a \o b)[i] = IF i <= Len(a) THEN a[i] ELSE b[i - Len(a)]
    BY ConcatProperties
  <2>2. PICK t \in Seq(A) : t = a \o b
    BY <2>1
  <2>3. t[1] = a[1] /\ t[2] = b[1] /\ Len(t) = 2
    BY <2>1, <2>2, <1>1
  <2> QED BY <2>2, <2>3, <1>1
<1>3. DOMAIN t = {1, 2}
  BY <1>2, LenProperties
<1>4. IsInjective(t)
  BY <1>2, <1>3 DEF IsInjective
<1>5. ToSet(t) = {d, e}
  BY <1>2, <1>3 DEF ToSet
<1> QED BY <1>1, <1>2, <1>4, <1>5

\* What add_docker_only_platforms inserts first.
TunedList(withTfb) == <<"dotnet-tuned">> \o (IF withTfb THEN <<"dotnet-tfb">> ELSE <<>>)

LEMMA TunedListTypes ==
  ASSUME NEW withTfb \in BOOLEAN
  PROVE  /\ TunedList(withTfb) \in Seq(PlatformNames) /\ IsInjective(TunedList(withTfb))
         /\ ToSet(TunedList(withTfb)) \subseteq {"dotnet-tuned", "dotnet-tfb"}
<1>1. "dotnet-tuned" \in PlatformNames /\ "dotnet-tfb" \in PlatformNames /\ "dotnet-tuned" # "dotnet-tfb"
  BY DEF PlatformNames
<1>2. CASE withTfb
  <2>1. TunedList(withTfb) = <<"dotnet-tuned">> \o <<"dotnet-tfb">>
    BY <1>2 DEF TunedList
  <2>2. \A d, e \in PlatformNames : d # e =>
          /\ <<d>> \o <<e>> \in Seq(PlatformNames) /\ IsInjective(<<d>> \o <<e>>)
          /\ ToSet(<<d>> \o <<e>>) = {d, e}
    BY ZenonT(40), TwoElements
  <2> QED BY <1>1, <2>1, <2>2
<1>3. CASE ~ withTfb
  <2>1. /\ <<"dotnet-tuned">> \in Seq(PlatformNames) /\ IsInjective(<<"dotnet-tuned">>)
        /\ ToSet(<<"dotnet-tuned">>) = {"dotnet-tuned"}
    BY ZenonT(40), OneElement, <1>1
  <2>2. <<"dotnet-tuned">> \o <<>> = <<"dotnet-tuned">>
    BY <2>1, ConcatEmptySeq
  <2>3. TunedList(withTfb) = <<"dotnet-tuned">>
    BY <2>2, <1>3 DEF TunedList
  <2> QED BY <2>1, <2>3
<1> QED BY <1>2, <1>3

\* The platforms for Docker only are not there before they are added.
LEMMA DockerOnlyDistinct ==
  ASSUME NEW s \in Seq(PlatformNames), NEW withTfb \in BOOLEAN
  PROVE  /\ AddDockerOnlyPlatforms(s, withTfb) \in Seq(PlatformNames)
         /\ IsInjective(s) /\ (Contains(s, "dotnet-tfb") => Contains(s, "dotnet-tuned"))
            => IsInjective(AddDockerOnlyPlatforms(s, withTfb))
<1> DEFINE has(p) == Contains(s, p)
           after == IF has("dotnet-pgo") THEN "dotnet-pgo" ELSE "dotnet"
           tuned == TunedList(withTfb)
           result == InsertAfter(s, after, tuned)
           Distinct == IsInjective(s) /\ (has("dotnet-tfb") => has("dotnet-tuned"))
<1>1. \A p : has(p) <=> p \in ToSet(s)
  <2>1. DOMAIN s = 1 .. Len(s)
    BY LenProperties
  <2> QED BY <2>1 DEF Contains, ToSet
<1>2. AddDockerOnlyPlatforms(s, withTfb) =
        IF has("dotnet-tuned") \/ ~ has("dotnet") THEN s
        ELSE IF withTfb /\ has("java") /\ ~ has("java-spring")
        THEN InsertAfter(result, "java", <<"java-spring">>)
        ELSE result
  BY DEF AddDockerOnlyPlatforms, TunedList
<1>3. CASE has("dotnet-tuned") \/ ~ has("dotnet")
  BY <1>2, <1>3
<1>4. CASE ~ (has("dotnet-tuned") \/ ~ has("dotnet"))
  <2>1. Distinct => "dotnet-tuned" \notin ToSet(s) /\ "dotnet-tfb" \notin ToSet(s)
    BY <1>1, <1>4
  <2>2. tuned \in Seq(PlatformNames) /\ IsInjective(tuned) /\ ToSet(tuned) \subseteq {"dotnet-tuned", "dotnet-tfb"}
    BY TunedListTypes
  <2> HIDE DEF tuned, after
  <2>3. Distinct => ToSet(s) \cap ToSet(tuned) = {}
    BY <2>1, <2>2
  <2>4. result \in Seq(PlatformNames) /\ ToSet(result) = ToSet(s) \cup ToSet(tuned)
    BY <2>2, InsertKeepsDistinct
  <2>5. Distinct => IsInjective(result)
    BY <2>2, <2>3, InsertKeepsDistinct
  <2> HIDE DEF result, has
  <2>6. CASE withTfb /\ has("java") /\ ~ has("java-spring")
    <3>1. <<"java-spring">> \in Seq(PlatformNames) /\ IsInjective(<<"java-spring">>) /\ ToSet(<<"java-spring">>) = {"java-spring"}
      <4>1. "java-spring" \in PlatformNames
        BY DEF PlatformNames
      <4> QED BY ZenonT(40), <4>1, OneElement
    <3>2. PICK spring \in Seq(PlatformNames) :
            spring = <<"java-spring">> /\ IsInjective(spring) /\ ToSet(spring) = {"java-spring"}
      BY <3>1
    <3>3. "java-spring" \notin ToSet(s) /\ "java-spring" \notin ToSet(tuned)
      BY <1>1, <2>2, <2>6
    <3>4. ToSet(result) \cap ToSet(spring) = {}
      BY <2>4, <3>2, <3>3
    <3>5. InsertAfter(result, "java", spring) \in Seq(PlatformNames)
          /\ (Distinct => IsInjective(InsertAfter(result, "java", spring)))
      BY <2>4, <2>5, <3>2, <3>4, InsertKeepsDistinct
    <3>6. AddDockerOnlyPlatforms(s, withTfb) = InsertAfter(result, "java", spring)
      BY <1>2, <1>4, <2>6, <3>2
    <3> QED BY <3>5, <3>6 DEF has
  <2>7. CASE ~ (withTfb /\ has("java") /\ ~ has("java-spring"))
    <3>1. AddDockerOnlyPlatforms(s, withTfb) = result
      BY <1>2, <1>4, <2>7
    <3> QED BY <2>4, <2>5, <3>1 DEF has
  <2> QED BY <2>6, <2>7
<1> QED BY <1>3, <1>4

\* The parts of a request and of a benchmark.
LEMMA RequestTypes ==
  ASSUME NEW r \in RunRequests
  PROVE  /\ r.spec \in Seq(Benchmarks) /\ r.platform \in PlatformNames
         /\ r.repeat \in Nat \ {0} /\ r.concurrency \in Seq(Int)
BY DEF RunRequests, PlatformNames

LEMMA BenchmarkTypes ==
  ASSUME NEW b \in Benchmarks
  PROVE  /\ b.id \in STRING /\ b.kind \in {"web", "grpc", "micro"} /\ b.category \in STRING
         /\ b.commands \in Seq(PlatformNames) /\ IsInjective(b.commands) /\ b.cells \in Seq(Int)
<1>1. b.id \in STRING /\ b.kind \in {"web", "grpc", "micro"} /\ b.category \in STRING
      /\ b.commands \in Seq(STRING) /\ IsInjective(b.commands) /\ b.cells \in Seq(Int)
  BY DEF Benchmarks
<1>2. STRING \subseteq PlatformNames
  BY DEF PlatformNames
<1>3. b.commands \in Seq(PlatformNames)
  BY <1>1, <1>2, SeqMonotonic
<1> QED BY <1>1, <1>3

\* A command that a definition has implies another.
TfbWithTuned(b) == Contains(b.commands, "dotnet-tfb") => Contains(b.commands, "dotnet-tuned")

\* The platforms that are selected of a benchmark: a micro-benchmark has the main ones
\* only, and no platform is selected twice.
LEMMA SelectedTypes ==
  ASSUME NEW r \in RunRequests, NEW b \in Benchmarks
  PROVE  /\ SelectedPlatforms(r, b) \in Seq(PlatformNames)
         /\ ~ Api(b) => ToSet(SelectedPlatforms(r, b)) \subseteq ToSet(Platforms)
         /\ TfbWithTuned(b) => IsInjective(SelectedPlatforms(r, b))
<1> DEFINE available ==
             CASE ~ Api(b) -> Platforms
               [] Api(b) /\ r.runner = "docker" -> AddDockerOnlyPlatforms(b.commands, b.kind = "web")
               [] OTHER -> b.commands
<1>1. SelectedPlatforms(r, b) = IF r.platform = NotGiven THEN available
                                ELSE IF Contains(available, r.platform) THEN <<r.platform>> ELSE <<>>
  BY DEF SelectedPlatforms
<1>2. available = IF ~ Api(b) THEN Platforms
                  ELSE IF r.runner = "docker" THEN AddDockerOnlyPlatforms(b.commands, b.kind = "web")
                  ELSE b.commands
  OBVIOUS
<1> HIDE DEF available
<1>3. Platforms \in Seq(PlatformNames) /\ IsInjective(Platforms) /\ ToSet(Platforms) = {"dotnet", "java", "go"}
  <2>1. PICK q \in Seq({"dotnet", "java", "go"}) :
          q = <<"dotnet", "java", "go">> /\ Len(q) = 3 /\ q[1] = "dotnet" /\ q[2] = "java" /\ q[3] = "go"
    <3>1. <<"dotnet", "java", "go">> \in Seq({"dotnet", "java", "go"})
      OBVIOUS
    <3>2. Len(<<"dotnet", "java", "go">>) = 3
      OBVIOUS
    <3> QED BY <3>1, <3>2
  <2>2. DOMAIN q = {1, 2, 3}
    BY <2>1, LenProperties
  <2>3. IsInjective(q) /\ ToSet(q) = {"dotnet", "java", "go"}
    BY <2>1, <2>2 DEF IsInjective, ToSet
  <2>4. {"dotnet", "java", "go"} \subseteq PlatformNames
    BY DEF PlatformNames
  <2>5. q \in Seq(PlatformNames)
    BY <2>4, SeqMonotonic
  <2> QED BY <2>1, <2>3, <2>5 DEF Platforms
<1>4. b.commands \in Seq(PlatformNames) /\ IsInjective(b.commands)
  BY BenchmarkTypes
<1>5. available \in Seq(PlatformNames) /\ (TfbWithTuned(b) => IsInjective(available))
  <2>1. CASE ~ Api(b)
    BY <2>1, <1>2, <1>3
  <2>2. CASE Api(b) /\ r.runner = "docker"
    <3>1. available = AddDockerOnlyPlatforms(b.commands, b.kind = "web")
      BY <1>2, <2>2
    <3>2. PICK w \in BOOLEAN : w = (b.kind = "web")
      OBVIOUS
    <3>3. AddDockerOnlyPlatforms(b.commands, w) \in Seq(PlatformNames)
      BY <1>4, DockerOnlyDistinct
    <3>4. TfbWithTuned(b) => IsInjective(AddDockerOnlyPlatforms(b.commands, w))
      BY <1>4, DockerOnlyDistinct DEF TfbWithTuned
    <3> QED BY <3>1, <3>2, <3>3, <3>4
  <2>3. CASE Api(b) /\ r.runner # "docker"
    BY <2>3, <1>2, <1>4
  <2> QED BY <2>1, <2>2, <2>3
<1>6. ~ Api(b) => available = Platforms
  BY <1>2
<1>7. CASE r.platform = NotGiven
  BY <1>1, <1>3, <1>5, <1>6, <1>7
<1>8. CASE r.platform # NotGiven /\ Contains(available, r.platform)
  <2>1. SelectedPlatforms(r, b) = <<r.platform>> /\ r.platform \in PlatformNames
    BY <1>1, <1>8, RequestTypes
  <2>2. <<r.platform>> \in Seq(PlatformNames) /\ IsInjective(<<r.platform>>) /\ ToSet(<<r.platform>>) = {r.platform}
    BY <2>1, OneElement
  <2>3. r.platform \in ToSet(available)
    <3>1. DOMAIN available = 1 .. Len(available)
      BY <1>5, LenProperties
    <3> QED BY <3>1, <1>8 DEF Contains, ToSet
  <2> QED BY <2>1, <2>2, <2>3, <1>6
<1>9. CASE r.platform # NotGiven /\ ~ Contains(available, r.platform)
  <2>1. SelectedPlatforms(r, b) = <<>>
    BY <1>1, <1>9
  <2>2. <<>> \in Seq(PlatformNames) /\ IsInjective(<<>>) /\ ToSet(<<>>) = {}
    BY EmptySeq DEF IsInjective, ToSet
  <2> QED BY <2>1, <2>2
<1> QED BY <1>7, <1>8, <1>9

--------------------------------------------------------------------------------
LaneSet == [benchmark : Benchmarks, platform : PlatformNames]

\* The lanes of the selected benchmarks, one sequence for each.
LanesOf(r) ==
  [i \in DOMAIN SelectedBenchmarks(r) |->
     [j \in DOMAIN SelectedPlatforms(r, SelectedBenchmarks(r)[i]) |->
        [benchmark |-> SelectedBenchmarks(r)[i],
         platform |-> SelectedPlatforms(r, SelectedBenchmarks(r)[i])[j]]]]

LEMMA LanesOfTypes ==
  ASSUME NEW r \in RunRequests
  PROVE  /\ SelectedBenchmarks(r) \in Seq(Benchmarks)
         /\ LanesOf(r) \in Seq(Seq(LaneSet))
         /\ Len(LanesOf(r)) = Len(SelectedBenchmarks(r))
         /\ PlannedLanes(r) = FlattenSeq(LanesOf(r))
         /\ PlannedLanes(r) \in Seq(LaneSet)
<1>1. PICK B \in Seq(Benchmarks) : B = SelectedBenchmarks(r)
  BY RequestTypes, FilterType DEF SelectedBenchmarks
<1>2. DOMAIN B = 1 .. Len(B) /\ Len(B) \in Nat
  BY LenProperties
<1>3. ASSUME NEW i \in 1 .. Len(B)
      PROVE  [j \in DOMAIN SelectedPlatforms(r, B[i]) |->
                [benchmark |-> B[i], platform |-> SelectedPlatforms(r, B[i])[j]]] \in Seq(LaneSet)
  <2>1. B[i] \in Benchmarks
    BY ElementOfSeq
  <2>2. PICK q \in Seq(PlatformNames) : q = SelectedPlatforms(r, B[i])
    BY <2>1, SelectedTypes
  <2>3. DOMAIN q = 1 .. Len(q) /\ Len(q) \in Nat /\ \A j \in 1 .. Len(q) : q[j] \in PlatformNames
    BY LenProperties, ElementOfSeq
  <2>4. [j \in 1 .. Len(q) |-> [benchmark |-> B[i], platform |-> q[j]]] \in Seq(LaneSet)
    BY <2>1, <2>3 DEF LaneSet
  <2> QED BY <2>2, <2>3, <2>4
<1>4. LanesOf(r) = [i \in 1 .. Len(B) |->
                      [j \in DOMAIN SelectedPlatforms(r, B[i]) |->
                         [benchmark |-> B[i], platform |-> SelectedPlatforms(r, B[i])[j]]]]
  BY <1>1, <1>2 DEF LanesOf
<1>5. LanesOf(r) \in Seq(Seq(LaneSet)) /\ Len(LanesOf(r)) = Len(B)
  BY <1>2, <1>3, <1>4
<1>6. PlannedLanes(r) = FlattenSeq(LanesOf(r))
  BY DEF PlannedLanes, LanesOf
<1>7. PlannedLanes(r) \in Seq(LaneSet)
  BY <1>5, <1>6, FlattenType
<1> QED BY <1>1, <1>5, <1>6, <1>7

\* A planned lane is of a definition of the spec, and of a platform that is selected of it.
LEMMA PlannedFromSpec ==
  ASSUME NEW r \in RunRequests, NEW k \in 1 .. Len(PlannedLanes(r))
  PROVE  /\ PlannedLanes(r)[k] \in LaneSet
         /\ PlannedLanes(r)[k].benchmark \in ToSet(r.spec)
         /\ ~ Api(PlannedLanes(r)[k].benchmark) => PlannedLanes(r)[k].platform \in ToSet(Platforms)
<1>1. PICK B \in Seq(Benchmarks) : B = SelectedBenchmarks(r)
  BY LanesOfTypes
<1>2. PICK q \in Seq(Seq(LaneSet)) : q = LanesOf(r) /\ Len(q) = Len(B)
  BY <1>1, LanesOfTypes
<1>3. PICK P \in Seq(LaneSet) : P = PlannedLanes(r) /\ P = FlattenSeq(q)
  BY <1>2, LanesOfTypes
<1>4. P[k] \in ToSet(FlattenSeq(q)) /\ P[k] \in LaneSet
  <2>1. DOMAIN P = 1 .. Len(P)
    BY LenProperties
  <2> QED BY <2>1, <1>3, ElementOfSeq DEF ToSet
<1>5. PICK i \in 1 .. Len(q) : P[k] \in ToSet(q[i])
  BY <1>4, FlattenElements DEF FlattenedElements
<1>6. DOMAIN B = 1 .. Len(B) /\ B[i] \in Benchmarks
  BY <1>2, LenProperties, ElementOfSeq
<1>7. q[i] = [j \in DOMAIN SelectedPlatforms(r, B[i]) |->
                [benchmark |-> B[i], platform |-> SelectedPlatforms(r, B[i])[j]]]
  BY <1>1, <1>2, <1>6 DEF LanesOf
<1>8. P[k].benchmark = B[i] /\ P[k].platform \in ToSet(SelectedPlatforms(r, B[i]))
  BY <1>5, <1>7 DEF ToSet
<1>9. B[i] \in ToSet(r.spec)
  <2>1. ToSet(B) \subseteq ToSet(r.spec)
    BY <1>1, RequestTypes, FilterElements DEF SelectedBenchmarks
  <2> QED BY <2>1, <1>2, <1>6 DEF ToSet
<1>10. ~ Api(B[i]) => ToSet(SelectedPlatforms(r, B[i])) \subseteq ToSet(Platforms)
  BY <1>6, SelectedTypes
<1> QED BY <1>3, <1>4, <1>8, <1>9, <1>10

\* With distinct ids at most one benchmark that is selected has a given one.
LEMMA SelectedDistinct ==
  ASSUME NEW r \in RunRequests, DistinctIds(r.spec),
         NEW i \in 1 .. Len(SelectedBenchmarks(r)), NEW j \in 1 .. Len(SelectedBenchmarks(r)),
         SelectedBenchmarks(r)[i].id = SelectedBenchmarks(r)[j].id
  PROVE  i = j
<1>1. PICK s \in Seq(Benchmarks) : s = r.spec
  BY RequestTypes
<1>2. PICK B \in Seq(Benchmarks) : B = SelectedBenchmarks(r)
  BY LanesOfTypes
<1> DEFINE S == {b \in ToSet(r.spec) : /\ r.benchmark \in {NotGiven, b.id}
                                       /\ r.profile \in {NotGiven, b.profile}}
           T == {b \in Benchmarks : b.id = B[i].id}
<1>3. B = Filter(s, S)
  BY <1>1, <1>2 DEF SelectedBenchmarks
<1> HIDE DEF S
<1>4. Filter(B, T) = Filter(s, S \cap T)
  <2>1. FilterTwice(s, S, T)
    BY FilterOfFilter
  <2> QED BY <2>1, <1>3 DEF FilterTwice
<1>5. \A k, l \in 1 .. Len(s) : s[k] \in S \cap T /\ s[l] \in S \cap T => k = l
  <2>1. DOMAIN s = 1 .. Len(s)
    BY LenProperties
  <2>2. \A k, l \in 1 .. Len(s) : s[k].id = s[l].id => k = l
    BY <1>1, <2>1 DEF DistinctIds
  <2> QED BY <2>2
<1>6. Len(Filter(s, S \cap T)) <= 1
  BY <1>5, FilterKeepsOnly DEF KeepsOnly
<1>7. \A k, l \in 1 .. Len(B) : B[k] \in T /\ B[l] \in T => k = l
  <2>1. Keeps(B, T)
    BY FilterKeeps
  <2> HIDE DEF T
  <2> QED BY <2>1, <1>4, <1>6 DEF Keeps
<1>8. B[i] \in T /\ B[j] \in T
  BY <1>2, ElementOfSeq
<1> HIDE DEF T
<1> QED BY <1>2, <1>7, <1>8

\* With such definitions no lane is planned twice.
LEMMA PlannedDistinct ==
  ASSUME NEW r \in RunRequests, LanesDistinct(r.spec),
         NEW k \in 1 .. Len(PlannedLanes(r)), NEW l \in 1 .. Len(PlannedLanes(r)),
         PlannedLanes(r)[k].benchmark.id = PlannedLanes(r)[l].benchmark.id,
         PlannedLanes(r)[k].platform = PlannedLanes(r)[l].platform
  PROVE  k = l
<1>1. PICK B \in Seq(Benchmarks) : B = SelectedBenchmarks(r)
  BY LanesOfTypes
<1>2. PICK q \in Seq(Seq(LaneSet)) : q = LanesOf(r) /\ Len(q) = Len(B)
  BY <1>1, LanesOfTypes
<1>3. PICK P \in Seq(LaneSet) : P = PlannedLanes(r) /\ P = FlattenSeq(q)
  BY <1>2, LanesOfTypes
<1>4. P[k] \in LaneSet /\ P[l] \in LaneSet
  BY <1>3, ElementOfSeq
<1> DEFINE S == {lane \in LaneSet : lane.benchmark.id = P[k].benchmark.id /\ lane.platform = P[k].platform}
<1>5. P[k] \in S /\ P[l] \in S
  BY <1>3, <1>4
<1>6. \A i \in 1 .. Len(q) :
        q[i] \in Seq(LaneSet) /\ DOMAIN q[i] = DOMAIN SelectedPlatforms(r, B[i]) /\ B[i] \in Benchmarks
        /\ \A j \in DOMAIN q[i] : q[i][j] = [benchmark |-> B[i], platform |-> SelectedPlatforms(r, B[i])[j]]
  <2> TAKE i \in 1 .. Len(q)
  <2>1. DOMAIN B = 1 .. Len(B) /\ B[i] \in Benchmarks /\ q[i] \in Seq(LaneSet)
    BY <1>2, LenProperties, ElementOfSeq
  <2>2. q[i] = [j \in DOMAIN SelectedPlatforms(r, B[i]) |->
                  [benchmark |-> B[i], platform |-> SelectedPlatforms(r, B[i])[j]]]
    BY <1>1, <1>2, <2>1 DEF LanesOf
  <2> QED BY <2>1, <2>2
<1>7. \A i \in 1 .. Len(q) : \A j \in 1 .. Len(q[i]) :
        q[i][j].benchmark = B[i] /\ j \in DOMAIN SelectedPlatforms(r, B[i])
        /\ q[i][j].platform = SelectedPlatforms(r, B[i])[j]
  <2> TAKE i \in 1 .. Len(q)
  <2> TAKE j \in 1 .. Len(q[i])
  <2>1. j \in DOMAIN q[i]
    BY <1>6, LenProperties
  <2>2. /\ DOMAIN q[i] = DOMAIN SelectedPlatforms(r, B[i])
        /\ q[i][j] = [benchmark |-> B[i], platform |-> SelectedPlatforms(r, B[i])[j]]
    BY <2>1, <1>6
  <2>3. q[i][j].benchmark = B[i] /\ q[i][j].platform = SelectedPlatforms(r, B[i])[j]
    BY <2>2
  <2> QED BY <2>1, <2>2, <2>3
<1>8. \E i0 : \A i \in 1 .. Len(q) : i # i0 => Filter(q[i], S) = <<>>
  <2>1. CASE \E i \in 1 .. Len(q) : B[i].id = P[k].benchmark.id
    <3>1. PICK i0 \in 1 .. Len(q) : B[i0].id = P[k].benchmark.id
      BY <2>1
    <3>2. ASSUME NEW i \in 1 .. Len(q), i # i0 PROVE Filter(q[i], S) = <<>>
      <4>1. B[i].id # B[i0].id
        BY <1>1, <1>2, <3>2, SelectedDistinct DEF LanesDistinct
      <4>2. q[i] \in Seq(LaneSet) /\ \A j \in 1 .. Len(q[i]) : q[i][j].benchmark = B[i]
        BY <1>6, <1>7
      <4>3. \A j \in 1 .. Len(q[i]) : q[i][j] \notin S
        BY <3>1, <4>1, <4>2
      <4> HIDE DEF S
      <4> QED BY <4>2, <4>3, FilterNone
    <3> QED BY <3>2
  <2>2. CASE ~ \E i \in 1 .. Len(q) : B[i].id = P[k].benchmark.id
    <3>1. ASSUME NEW i \in 1 .. Len(q) PROVE Filter(q[i], S) = <<>>
      <4>1. q[i] \in Seq(LaneSet) /\ \A j \in 1 .. Len(q[i]) : q[i][j].benchmark = B[i]
        BY <1>6, <1>7
      <4>2. \A j \in 1 .. Len(q[i]) : q[i][j] \notin S
        BY <2>2, <4>1
      <4> HIDE DEF S
      <4> QED BY <4>1, <4>2, FilterNone
    <3> QED BY <3>1
  <2> QED BY <2>1, <2>2
<1>9. PICK i0 : \A i \in 1 .. Len(q) : i # i0 => Filter(q[i], S) = <<>>
  BY <1>8
<1>10. Filter(P, S) = IF i0 \in 1 .. Len(q) THEN Filter(q[i0], S) ELSE <<>>
  <2> HIDE DEF S
  <2>1. Filter(FlattenSeq(q), S) = IF i0 \in 1 .. Len(q) THEN Filter(q[i0], S) ELSE <<>>
    BY <1>9, FilterFlatten
  <2> QED BY <2>1, <1>3
<1>11. i0 \in 1 .. Len(q) => Len(Filter(q[i0], S)) <= 1
  <2> SUFFICES ASSUME i0 \in 1 .. Len(q) PROVE Len(Filter(q[i0], S)) <= 1
    OBVIOUS
  <2>1. TfbWithTuned(B[i0])
    <3>1. B[i0] \in ToSet(r.spec)
      <4>1. ToSet(B) \subseteq ToSet(r.spec)
        BY <1>1, RequestTypes, FilterElements DEF SelectedBenchmarks
      <4>2. DOMAIN B = 1 .. Len(B)
        BY LenProperties
      <4> QED BY <4>1, <4>2, <1>2 DEF ToSet
    <3> QED BY <3>1 DEF LanesDistinct, TfbWithTuned, ToSet
  <2>2. IsInjective(SelectedPlatforms(r, B[i0]))
    BY <1>6, <2>1, SelectedTypes
  <2>3. \A j, m \in 1 .. Len(q[i0]) : q[i0][j] \in S /\ q[i0][m] \in S => j = m
    <3> TAKE j, m \in 1 .. Len(q[i0])
    <3> DEFINE selected == SelectedPlatforms(r, B[i0])
    <3>1. /\ j \in DOMAIN selected /\ q[i0][j].platform = selected[j]
          /\ m \in DOMAIN selected /\ q[i0][m].platform = selected[m]
      BY <1>7
    <3>2. q[i0][j] \in S /\ q[i0][m] \in S => selected[j] = selected[m]
      BY <3>1
    <3> HIDE DEF selected, S
    <3>3. selected[j] = selected[m] => j = m
      BY <3>1, <2>2 DEF IsInjective, selected
    <3> QED BY <3>2, <3>3
  <2>4. q[i0] \in Seq(LaneSet)
    BY <1>6
  <2> HIDE DEF S
  <2> QED BY <2>3, <2>4, FilterKeepsOnly DEF KeepsOnly
<1>12. Len(Filter(P, S)) <= 1
  <2> HIDE DEF S
  <2>1. Len(<<>>) = 0
    OBVIOUS
  <2> QED BY <1>10, <1>11, <2>1
<1>13. \A i, j \in 1 .. Len(P) : P[i] \in S /\ P[j] \in S => i = j
  <2> HIDE DEF S
  <2> QED BY <1>12, FilterKeeps DEF Keeps
<1> HIDE DEF S
<1> QED BY <1>3, <1>5, <1>13

--------------------------------------------------------------------------------
(***************************************************************************)
(* The inductive invariant of Comparison.                                  *)
(***************************************************************************)

\* What a lane has left behind: rows of its benchmark and its platform; an api lane, in
\* requests/s above 0, either none or one for each repeat of each cell.
MeasuredBy(cells, n, lane, r) ==
  /\ r \in Seq(ResultRows)
  /\ \A k \in 1 .. Len(r) :
       /\ r[k].benchmark = lane.benchmark.id /\ r[k].platform = lane.platform
       /\ Api(lane.benchmark) <=> r[k].unit = "requests/s"
       /\ Api(lane.benchmark) => r[k].mean # 0
  /\ Api(lane.benchmark) /\ r # <<>> =>
       /\ Len(r) = Len(Repeated(cells, n))
       /\ \A k \in 1 .. Len(r) : r[k].size = Repeated(cells, n)[k]

\* The lanes are measured in the order of the plan.
LanesInStep ==
  /\ measured \in Seq([lane : LaneSet, rows : Seq(ResultRows)])
  /\ Len(measured) <= Len(PlannedLanes(request))
  /\ \A i \in 1 .. Len(measured) :
       /\ measured[i].lane = PlannedLanes(request)[i]
       /\ MeasuredBy(Cells(request, measured[i].lane.benchmark), request.repeat,
                     measured[i].lane, measured[i].rows)
  /\ phase = "start" => measured = <<>>
  /\ phase = "lanes" =>
       /\ planned \in Seq(LaneSet)
       /\ Len(measured) + Len(planned) = Len(PlannedLanes(request))
       /\ \A i \in 1 .. Len(planned) : planned[i] = PlannedLanes(request)[Len(measured) + i]

\* A run raises where nothing is selected, or at a lane that raises.
RaisedForAReason ==
  phase = "raised" =>
    \/ NothingSelected(request)
    \/ \E i \in 1 .. Len(PlannedLanes(request)) : LaneRaises(request, PlannedLanes(request)[i])

\* The rows that are ranked are those of the lanes, and nothing is ranked before.
RowsInStep ==
  IF phase = "rank"
  THEN rows = FlattenSeq([i \in DOMAIN measured |-> measured[i].rows])
  ELSE rows = <<>> /\ printed = <<>> /\ shown = <<>>

\* What compare has printed and report has shown is the ranking of these rows.
RankingInStep ==
  /\ \A key \in DOMAIN printed : key \in Keys /\ printed[key] = Lines(key)
  /\ \A key \in DOMAIN shown : key \in Keys /\ shown[key] = Scored(key)

RankingInv ==
  /\ request \in Requests
  /\ phase \in {"start", "lanes", "normalize", "rank", "raised"}
  /\ LanesInStep
  /\ RaisedForAReason
  /\ RowsInStep
  /\ RankingInStep

--------------------------------------------------------------------------------
\* A lane leaves behind what MeasuredBy says.
LEMMA LaneRowsMeasured ==
  ASSUME request \in RunRequests, NEW lane \in LaneSet,
         ~ Api(lane.benchmark) => lane.platform \in ToSet(Platforms),
         NEW r \in LaneRows(lane)
  PROVE  MeasuredBy(Cells(request, lane.benchmark), request.repeat, lane, r)
<1>1. lane.benchmark \in Benchmarks /\ lane.platform \in PlatformNames
  BY DEF LaneSet
<1>2. lane.benchmark.id \in STRING /\ lane.benchmark.category \in STRING /\ lane.benchmark.cells \in Seq(Int)
  BY <1>1, BenchmarkTypes
<1>3. \A size \in Int, unit \in Units, mean \in Nat :
        /\ Row(lane, size, unit, mean) \in ResultRows
        /\ Row(lane, size, unit, mean).benchmark = lane.benchmark.id
        /\ Row(lane, size, unit, mean).platform = lane.platform
        /\ Row(lane, size, unit, mean).size = size
        /\ Row(lane, size, unit, mean).unit = unit
        /\ Row(lane, size, unit, mean).mean = mean
  BY <1>1, <1>2 DEF Row, ResultRows
<1>4. ApiMeans \subseteq Nat \ {0} /\ MicroMeans \subseteq Nat /\ MaxCount \in Nat
  BY ComparisonAssumption
<1>5. ASSUME r = <<>> PROVE MeasuredBy(Cells(request, lane.benchmark), request.repeat, lane, r)
  BY <1>5, EmptySeq DEF MeasuredBy
<1>6. CASE Api(lane.benchmark)
  <2> DEFINE cells == Cells(request, lane.benchmark)
             repeated == Repeated(cells, request.repeat)
  <2>1. cells \in Seq(Int) /\ request.repeat \in Nat
    BY <1>2, RequestTypes DEF Cells
  <2>2. PICK q \in Seq(Int) : q = repeated
    BY <2>1, RepeatedType
  <2>3. DOMAIN q = 1 .. Len(q) /\ Len(q) \in Nat /\ \A i \in 1 .. Len(q) : q[i] \in Int
    BY LenProperties, ElementOfSeq
  <2>4. LaneRows(lane) = ApiRows(lane)
    BY <1>6 DEF LaneRows
  <2>5. ApiRows(lane) = {[i \in DOMAIN q |-> Row(lane, q[i], "requests/s", mean[i])] :
                           mean \in [DOMAIN q -> ApiMeans]} \cup {<<>>}
    BY <2>2 DEF ApiRows, Repeated
  <2>6. CASE r # <<>>
    <3>1. PICK mean \in [DOMAIN q -> ApiMeans] : r = [i \in DOMAIN q |-> Row(lane, q[i], "requests/s", mean[i])]
      BY <2>4, <2>5, <2>6
    <3>2. \A i \in 1 .. Len(q) : /\ r[i] = Row(lane, q[i], "requests/s", mean[i])
                                /\ mean[i] \in Nat /\ mean[i] # 0 /\ q[i] \in Int
      BY <1>4, <2>3, <3>1
    <3>3. "requests/s" \in Units
      BY DEF Units
    <3>4. \A i \in 1 .. Len(q) : /\ r[i] \in ResultRows /\ r[i].benchmark = lane.benchmark.id
                                /\ r[i].platform = lane.platform /\ r[i].size = q[i]
                                /\ r[i].unit = "requests/s" /\ r[i].mean # 0
      BY <1>3, <3>2, <3>3
    <3>5. r = [i \in 1 .. Len(q) |-> r[i]]
      BY <2>3, <3>1
    <3>6. r \in Seq(ResultRows) /\ Len(r) = Len(q)
      BY <2>3, <3>4, <3>5
    <3> QED BY <1>6, <2>2, <3>4, <3>6 DEF MeasuredBy
  <2> QED BY <1>5, <2>6
<1>7. CASE ~ Api(lane.benchmark)
  <2>1. lane.platform \in {"dotnet", "java", "go"}
    <3>1. DOMAIN Platforms = {1, 2, 3}
      BY DEF Platforms
    <3> QED BY <1>7, <3>1 DEF ToSet, Platforms
  <2> DEFINE sizes == lane.benchmark.cells
  <2>2. \E n \in Nat, unit \in Units \ {"requests/s"} : \E size, mean :
          /\ r = [i \in 1 .. n |-> Row(lane, size[i], unit, mean[i])]
          /\ \A i \in 1 .. n : size[i] \in Int /\ mean[i] \in MicroMeans
    <3>1. CASE lane.platform = "go"
      <4>1. PICK all \in Seq(Int) : all = Repeated(sizes, MaxCount)
        BY <1>2, <1>4, RepeatedType
      <4>2. LaneRows(lane) = GoRows(lane)
        BY <1>7, <3>1 DEF LaneRows
      <4>3. GoRows(lane) =
              UNION {{[i \in 1 .. n |-> Row(lane, all[i], "ns/op", mean[i])] : mean \in [1 .. n -> MicroMeans]} :
                       n \in 0 .. Len(all)}
        BY <4>1 DEF GoRows, Repeated
      <4> DEFINE some(n) == {[i \in 1 .. n |-> Row(lane, all[i], "ns/op", mean[i])] : mean \in [1 .. n -> MicroMeans]}
      <4>4. PICK n \in 0 .. Len(all) : r \in some(n)
        <5>1. r \in UNION {some(n) : n \in 0 .. Len(all)}
          BY <4>2, <4>3
        <5> HIDE DEF some
        <5> QED BY <5>1
      <4>5. PICK mean \in [1 .. n -> MicroMeans] : r = [i \in 1 .. n |-> Row(lane, all[i], "ns/op", mean[i])]
        BY <4>4
      <4>6. n \in Nat /\ \A i \in 1 .. n : all[i] \in Int /\ mean[i] \in MicroMeans
        BY <4>4, <4>5, LenProperties, ElementOfSeq
      <4>7. "ns/op" \in Units \ {"requests/s"}
        BY DEF Units
      <4> QED BY <4>5, <4>6, <4>7
    <3>2. ASSUME NEW units, units \subseteq Units \ {"requests/s"}, r \in ReportRows(lane, units)
          PROVE  \E n \in Nat, unit \in Units \ {"requests/s"} : \E size, mean :
                   /\ r = [i \in 1 .. n |-> Row(lane, size[i], unit, mean[i])]
                   /\ \A i \in 1 .. n : size[i] \in Int /\ mean[i] \in MicroMeans
      <4>1. DOMAIN sizes = 1 .. Len(sizes) /\ Len(sizes) \in Nat /\ \A i \in 1 .. Len(sizes) : sizes[i] \in Int
        BY <1>2, LenProperties, ElementOfSeq
      <4>2. CASE r = <<>>
        <5>1. PICK unit \in Units \ {"requests/s"} : TRUE
          BY DEF Units
        <5>2. r = [i \in 1 .. 0 |-> Row(lane, sizes[i], unit, sizes[i])]
          BY <4>2
        <5>3. 0 \in Nat /\ \A i \in 1 .. 0 : sizes[i] \in Int /\ sizes[i] \in MicroMeans
          OBVIOUS
        <5> QED BY <5>2, <5>3
      <4>3. CASE r # <<>>
        <5>1. PICK unit \in units, mean \in [DOMAIN sizes -> MicroMeans] :
                r = [i \in DOMAIN sizes |-> Row(lane, sizes[i], unit, mean[i])]
          BY <3>2, <4>3 DEF ReportRows
        <5> QED BY <3>2, <4>1, <5>1
      <4> QED BY <4>2, <4>3
    <3>3. CASE lane.platform = "java"
      <4>1. LaneRows(lane) = ReportRows(lane, {"ns/op", "unknown"})
        BY <1>7, <3>3 DEF LaneRows
      <4> QED BY <4>1, <3>2 DEF Units
    <3>4. CASE lane.platform = "dotnet"
      <4>1. LaneRows(lane) = ReportRows(lane, {"ns"})
        BY <1>7, <3>4 DEF LaneRows
      <4> QED BY <4>1, <3>2 DEF Units
    <3> QED BY <2>1, <3>1, <3>3, <3>4
  <2>8. PICK n \in Nat, unit \in Units \ {"requests/s"} : \E size, mean :
          /\ r = [i \in 1 .. n |-> Row(lane, size[i], unit, mean[i])]
          /\ \A i \in 1 .. n : size[i] \in Int /\ mean[i] \in MicroMeans
    BY <2>2
  <2>3. PICK size, mean :
          /\ r = [i \in 1 .. n |-> Row(lane, size[i], unit, mean[i])]
          /\ \A i \in 1 .. n : size[i] \in Int /\ mean[i] \in MicroMeans
    BY <2>8
  <2>4. \A i \in 1 .. n : r[i] = Row(lane, size[i], unit, mean[i]) /\ mean[i] \in Nat
    BY <1>4, <2>3
  <2>5. \A i \in 1 .. n : /\ r[i] \in ResultRows /\ r[i].benchmark = lane.benchmark.id
                          /\ r[i].platform = lane.platform /\ r[i].unit # "requests/s"
    BY <1>3, <2>3, <2>4
  <2>6. r = [i \in 1 .. n |-> r[i]]
    BY <2>3
  <2>7. r \in Seq(ResultRows) /\ Len(r) = n
    BY <2>5, <2>6
  <2> QED BY <1>7, <2>5, <2>7 DEF MeasuredBy
<1> QED BY <1>6, <1>7

\* The rows of a ranking have their types.
LEMMA RankedRows == RankingInv => rows \in Seq(ResultRows)
<1> SUFFICES ASSUME RankingInv PROVE rows \in Seq(ResultRows)
  OBVIOUS
<1>1. CASE phase # "rank"
  BY <1>1, EmptySeq DEF RankingInv, RowsInStep
<1>2. CASE phase = "rank"
  <2>1. measured \in Seq([lane : LaneSet, rows : Seq(ResultRows)])
    BY DEF RankingInv, LanesInStep
  <2>2. DOMAIN measured = 1 .. Len(measured) /\ Len(measured) \in Nat
        /\ \A i \in 1 .. Len(measured) : measured[i].rows \in Seq(ResultRows)
    <3>1. \A i \in 1 .. Len(measured) : measured[i] \in [lane : LaneSet, rows : Seq(ResultRows)]
      BY <2>1, ElementOfSeq
    <3> QED BY <2>1, <3>1, LenProperties
  <2>3. [i \in DOMAIN measured |-> measured[i].rows] \in Seq(Seq(ResultRows))
    BY <2>2
  <2> QED BY <1>2, <2>3, FlattenType DEF RankingInv, RowsInStep
<1> QED BY <1>1, <1>2

LEMMA CInitInv == CInit => RankingInv
<1> SUFFICES ASSUME CInit PROVE RankingInv
  OBVIOUS
<1>1. request \in Requests /\ request \in RunRequests
  BY ComparisonAssumption DEF CInit
<1>2. measured = <<>> /\ rows = <<>> /\ printed = <<>> /\ shown = <<>> /\ phase = "start"
  BY DEF CInit
<1>3. LanesInStep
  <2>1. PICK P \in Seq(LaneSet) : P = PlannedLanes(request)
    BY <1>1, LanesOfTypes
  <2>2. Len(P) \in Nat /\ Len(<<>>) = 0 /\ <<>> \in Seq([lane : LaneSet, rows : Seq(ResultRows)])
    BY LenProperties, EmptySeq
  <2> QED BY <1>2, <2>1, <2>2 DEF LanesInStep
<1>4. RaisedForAReason /\ RowsInStep
  BY <1>2 DEF RaisedForAReason, RowsInStep
<1>5. RankingInStep
  BY <1>2 DEF RankingInStep
<1> QED BY <1>1, <1>2, <1>3, <1>4, <1>5 DEF RankingInv

\* What no step of the lanes changes.
LEMMA NothingRanked ==
  ASSUME RankingInv, phase # "rank", phase' # "rank", UNCHANGED <<request, rows, printed, shown>>
  PROVE  RowsInStep' /\ RankingInStep'
<1>1. rows' = <<>> /\ printed' = <<>> /\ shown' = <<>>
  BY DEF RankingInv, RowsInStep
<1>2. RowsInStep'
  BY <1>1 DEF RowsInStep
<1>3. RankingInStep'
  BY <1>1 DEF RankingInStep
<1> QED BY <1>2, <1>3

LEMMA PlanStep == RankingInv /\ PlanRun => RankingInv'
<1> SUFFICES ASSUME RankingInv, PlanRun PROVE RankingInv'
  OBVIOUS
<1>1. request' = request /\ request \in Requests /\ request \in RunRequests
  BY ComparisonAssumption DEF RankingInv, PlanRun
<1>2. phase = "start" /\ measured = <<>> /\ measured' = <<>>
  BY DEF RankingInv, LanesInStep, PlanRun
<1>3. phase' \in {"lanes", "raised"} /\ (phase' = "raised" => NothingSelected(request))
      /\ (phase' = "lanes" => planned' = PlannedLanes(request))
  BY DEF PlanRun
<1>4. RowsInStep' /\ RankingInStep'
  BY <1>2, <1>3, NothingRanked DEF PlanRun
<1>5. PICK P \in Seq(LaneSet) : P = PlannedLanes(request) /\ Len(P) \in Nat
  BY <1>1, LanesOfTypes, LenProperties
<1>6. Len(<<>>) = 0 /\ <<>> \in Seq([lane : LaneSet, rows : Seq(ResultRows)])
  BY EmptySeq
<1>7. LanesInStep'
  <2>1. \A i \in 1 .. 0 : FALSE
    OBVIOUS
  <2> QED BY <1>1, <1>2, <1>3, <1>5, <1>6, <2>1 DEF LanesInStep
<1>8. RaisedForAReason'
  BY <1>1, <1>3 DEF RaisedForAReason
<1> QED BY <1>1, <1>3, <1>4, <1>7, <1>8 DEF RankingInv

LEMMA MeasureStep == RankingInv /\ MeasureLane => RankingInv'
<1> SUFFICES ASSUME RankingInv, MeasureLane PROVE RankingInv'
  OBVIOUS
<1>1. request' = request /\ request \in Requests /\ request \in RunRequests
  BY ComparisonAssumption DEF RankingInv, MeasureLane
<1>2. phase = "lanes" /\ planned # <<>> /\ planned' = Tail(planned)
  BY DEF MeasureLane
<1>3. PICK P \in Seq(LaneSet) : P = PlannedLanes(request) /\ Len(P) \in Nat
  BY <1>1, LanesOfTypes, LenProperties
<1> DEFINE Entries == [lane : LaneSet, rows : Seq(ResultRows)]
<1>4. PICK m \in Seq(Entries), p \in Seq(LaneSet) :
        m = measured /\ p = planned /\ Len(m) \in Nat /\ Len(p) \in Nat
  BY <1>2, LenProperties DEF RankingInv, LanesInStep
<1>5. Len(m) + Len(p) = Len(P) /\ \A i \in 1 .. Len(p) : p[i] = P[Len(m) + i]
  BY <1>2, <1>3, <1>4 DEF RankingInv, LanesInStep
<1>6. \A i \in 1 .. Len(m) :
        /\ m[i].lane = P[i]
        /\ MeasuredBy(Cells(request, m[i].lane.benchmark), request.repeat, m[i].lane, m[i].rows)
  BY <1>3, <1>4 DEF RankingInv, LanesInStep
<1>7. Len(p) # 0 /\ Head(p) = p[1] /\ Head(p) = P[Len(m) + 1] /\ Len(m) + 1 \in 1 .. Len(P)
  <2>1. Len(p) # 0
    BY <1>2, <1>4, EmptySeq
  <2>2. Head(p) = p[1]
    BY <2>1
  <2>3. p[1] = P[Len(m) + 1]
    BY <1>4, <1>5, <2>1
  <2> QED BY <1>3, <1>4, <1>5, <2>1, <2>2, <2>3
<1>8. CASE LaneRaises(request, Head(planned))
  <2>1. phase' = "raised" /\ measured' = measured
    BY <1>8 DEF MeasureLane
  <2>2. RowsInStep' /\ RankingInStep'
    BY <1>2, <2>1, NothingRanked DEF MeasureLane
  <2>3. RaisedForAReason'
    BY <1>1, <1>3, <1>4, <1>7, <1>8 DEF RaisedForAReason
  <2>4. LanesInStep'
    BY <1>1, <2>1 DEF RankingInv, LanesInStep
  <2> QED BY <1>1, <2>1, <2>2, <2>3, <2>4 DEF RankingInv
<1>9. CASE ~ LaneRaises(request, Head(planned))
  <2>1. PICK r \in LaneRows(Head(planned)) : measured' = Append(measured, [lane |-> Head(planned), rows |-> r])
    BY <1>9 DEF MeasureLane
  <2>2. phase' \in {"lanes", "normalize"} /\ (phase' = "lanes" => Len(p) # 1)
    BY <1>2, <1>4, <1>9 DEF MeasureLane
  <2>3. PICK lane : lane = Head(p)
    OBVIOUS
  <2>4. lane \in LaneSet /\ (~ Api(lane.benchmark) => lane.platform \in ToSet(Platforms))
    BY <1>1, <1>3, <1>7, <2>3, PlannedFromSpec
  <2>5. MeasuredBy(Cells(request, lane.benchmark), request.repeat, lane, r)
    BY <1>1, <1>4, <2>1, <2>3, <2>4, LaneRowsMeasured
  <2>6. r \in Seq(ResultRows)
    BY <2>5 DEF MeasuredBy
  <2>7. PICK e \in Entries : e = [lane |-> lane, rows |-> r]
    BY <2>4, <2>6
  <2>8. measured' = Append(m, e)
    BY <1>4, <2>1, <2>3, <2>7
  <2>9. PICK n \in Seq(Entries) : /\ n = Append(m, e) /\ Len(n) = Len(m) + 1 /\ n[Len(m) + 1] = e
                                  /\ \A i \in 1 .. Len(m) : n[i] = m[i]
    <3>1. /\ Append(m, e) \in Seq(Entries) /\ Len(Append(m, e)) = Len(m) + 1
          /\ Append(m, e)[Len(m) + 1] = e /\ \A i \in 1 .. Len(m) : Append(m, e)[i] = m[i]
      BY AppendProperties
    <3> QED BY <3>1
  <2>10. PICK t \in Seq(LaneSet) : /\ t = Tail(p) /\ Len(t) = Len(p) - 1
                                  /\ \A i \in 1 .. Len(t) : t[i] = p[i + 1]
    BY <1>2, <1>4, HeadTailProperties
  <2>11. measured' = n /\ planned' = t
    BY <1>2, <1>4, <2>8, <2>9, <2>10
  <2>12. \A i \in 1 .. Len(n) :
           /\ n[i].lane = P[i]
           /\ MeasuredBy(Cells(request, n[i].lane.benchmark), request.repeat, n[i].lane, n[i].rows)
    <3> TAKE i \in 1 .. Len(n)
    <3>1. CASE i \in 1 .. Len(m)
      BY <3>1, <1>6, <2>9
    <3>2. CASE i = Len(m) + 1
      <4>1. n[i] = e /\ e.lane = lane /\ e.rows = r
        BY <3>2, <2>7, <2>9
      <4>2. lane = P[i]
        BY <3>2, <1>7, <2>3
      <4> QED BY <4>1, <4>2, <2>5
    <3> QED BY <3>1, <3>2, <1>4, <2>9
  <2>13. \A i \in 1 .. Len(t) : t[i] = P[Len(n) + i]
    <3> TAKE i \in 1 .. Len(t)
    <3>1. i + 1 \in 1 .. Len(p) /\ Len(m) + (i + 1) = Len(n) + i
      BY <1>4, <2>9, <2>10
    <3> QED BY <3>1, <1>5, <2>10
  <2>14. Len(n) + Len(t) = Len(P) /\ Len(n) <= Len(P)
    BY <1>4, <1>5, <1>7, <2>9, <2>10
  <2>15. LanesInStep'
    BY <1>1, <1>3, <2>2, <2>9, <2>11, <2>12, <2>13, <2>14 DEF LanesInStep
  <2>16. RowsInStep' /\ RankingInStep'
    BY <1>2, <2>2, NothingRanked DEF MeasureLane
  <2>17. RaisedForAReason'
    BY <2>2 DEF RaisedForAReason
  <2> QED BY <1>1, <2>2, <2>15, <2>16, <2>17 DEF RankingInv
<1> QED BY <1>8, <1>9

LEMMA NoLanesStep == RankingInv /\ NoLanes => RankingInv'
<1> SUFFICES ASSUME RankingInv, NoLanes PROVE RankingInv'
  OBVIOUS
<1>1. phase = "lanes" /\ phase' = "normalize" /\ UNCHANGED <<request, measured>>
  BY DEF NoLanes
<1>2. LanesInStep'
  BY <1>1 DEF RankingInv, LanesInStep
<1>3. RowsInStep' /\ RankingInStep'
  BY <1>1, NothingRanked DEF NoLanes
<1>4. RaisedForAReason'
  BY <1>1 DEF RaisedForAReason
<1> QED BY <1>1, <1>2, <1>3, <1>4 DEF RankingInv

LEMMA RankStep == RankingInv /\ NormalizeRun => RankingInv'
<1> SUFFICES ASSUME RankingInv, NormalizeRun PROVE RankingInv'
  OBVIOUS
<1>1. phase = "normalize" /\ phase' = "rank" /\ UNCHANGED <<request, measured, printed, shown>>
      /\ rows' = FlattenSeq([i \in DOMAIN measured |-> measured[i].rows])
  BY DEF NormalizeRun
<1>2. printed' = <<>> /\ shown' = <<>>
  BY <1>1 DEF RankingInv, RowsInStep
<1>3. LanesInStep'
  BY <1>1 DEF RankingInv, LanesInStep
<1>4. RowsInStep' /\ RaisedForAReason'
  BY <1>1 DEF RowsInStep, RaisedForAReason
<1>5. RankingInStep'
  BY <1>2 DEF RankingInStep
<1> QED BY <1>1, <1>3, <1>4, <1>5 DEF RankingInv

LEMMA CompareStep == ASSUME NEW command PROVE RankingInv /\ Compare(command) => RankingInv'
<1> SUFFICES ASSUME RankingInv, Compare(command) PROVE RankingInv'
  OBVIOUS
<1>1. phase = "rank" /\ UNCHANGED <<request, phase, measured, rows, shown>>
      /\ printed' = [key \in {k \in Keys : ~ Skipped(k, command = "strict")} |-> Lines(key)]
  BY DEF Compare
<1>2. LanesInStep' /\ RaisedForAReason' /\ RowsInStep'
  BY <1>1 DEF RankingInv, LanesInStep, RaisedForAReason, RowsInStep
<1>3. Keys' = Keys /\ \A key : Lines(key)' = Lines(key) /\ Scored(key)' = Scored(key)
  BY <1>1, SameRows
<1>4. RankingInStep'
  <2>1. \A key \in DOMAIN printed' : key \in Keys' /\ printed'[key] = Lines(key)'
    BY <1>1, <1>3
  <2>2. \A key \in DOMAIN shown' : key \in Keys' /\ shown'[key] = Scored(key)'
    BY <1>1, <1>3 DEF RankingInv, RankingInStep
  <2> QED BY <2>1, <2>2 DEF RankingInStep
<1> QED BY <1>1, <1>2, <1>4 DEF RankingInv

LEMMA ReportStep == RankingInv /\ Report => RankingInv'
<1> SUFFICES ASSUME RankingInv, Report PROVE RankingInv'
  OBVIOUS
<1>1. phase = "rank" /\ UNCHANGED <<request, phase, measured, rows, printed>>
      /\ shown' = [key \in Keys |-> Scored(key)]
  BY DEF Report
<1>2. LanesInStep' /\ RaisedForAReason' /\ RowsInStep'
  BY <1>1 DEF RankingInv, LanesInStep, RaisedForAReason, RowsInStep
<1>3. Keys' = Keys /\ \A key : Lines(key)' = Lines(key) /\ Scored(key)' = Scored(key)
  BY <1>1, SameRows
<1>4. RankingInStep'
  <2>1. \A key \in DOMAIN printed' : key \in Keys' /\ printed'[key] = Lines(key)'
    BY <1>1, <1>3 DEF RankingInv, RankingInStep
  <2>2. \A key \in DOMAIN shown' : key \in Keys' /\ shown'[key] = Scored(key)'
    BY <1>1, <1>3
  <2> QED BY <2>1, <2>2 DEF RankingInStep
<1> QED BY <1>1, <1>2, <1>4 DEF RankingInv

LEMMA CStutter == RankingInv /\ UNCHANGED cvars => RankingInv'
<1> SUFFICES ASSUME RankingInv, UNCHANGED cvars PROVE RankingInv'
  OBVIOUS
<1>1. UNCHANGED <<request, phase, planned, measured, rows, printed, shown>>
  BY DEF cvars
<1>2. LanesInStep' /\ RaisedForAReason' /\ RowsInStep'
  BY <1>1 DEF RankingInv, LanesInStep, RaisedForAReason, RowsInStep
<1>3. Keys' = Keys /\ \A key : Lines(key)' = Lines(key) /\ Scored(key)' = Scored(key)
  BY <1>1, SameRows
<1>4. RankingInStep'
  BY <1>1, <1>3 DEF RankingInv, RankingInStep
<1> QED BY <1>1, <1>2, <1>4 DEF RankingInv

LEMMA CNextInv == RankingInv /\ [CNext]_cvars => RankingInv'
BY PlanStep, MeasureStep, NoLanesStep, RankStep, CompareStep, ReportStep, CStutter DEF CNext, Finished

\* The ranking is that of the rows, and the rows are those of the lanes in their order.
THEOREM RankingInvariance == CSpec => []RankingInv
<1>1. CInit => RankingInv
  BY CInitInv
<1>2. RankingInv /\ [CNext]_cvars => RankingInv'
  BY CNextInv
<1> QED BY <1>1, <1>2, PTL DEF CSpec

\* compare and report agree.
THEOREM ReportAgreesWithCompare == CSpec => []RanksAgree
<1>1. RankingInv => RanksAgree
  <2> SUFFICES ASSUME RankingInv PROVE RanksAgree
    OBVIOUS
  <2>1. rows \in Seq(ResultRows)
    BY RankedRows
  <2>2. \A key \in DOMAIN printed \cap DOMAIN shown :
          key \in Keys /\ printed[key] = Lines(key) /\ shown[key] = Scored(key)
    BY DEF RankingInv, RankingInStep
  <2> QED BY <2>1, <2>2, GroupAgrees DEF RanksAgree
<1> QED BY <1>1, RankingInvariance, PTL

\* A run on the host with definitions that validate accepts raises for its settings only.
LEMMA HostRaises ==
  ASSUME RankingInv, phase = "raised", ValidateSpecs(request.spec), request.runner = "host"
  PROVE  \/ NothingSelected(request)
         \/ \E i \in DOMAIN request.spec : ~ SettingsMakeSense(request, request.spec[i])
<1>1. SUFFICES ASSUME NEW k \in 1 .. Len(PlannedLanes(request)), LaneRaises(request, PlannedLanes(request)[k])
               PROVE  \E i \in DOMAIN request.spec : ~ SettingsMakeSense(request, request.spec[i])
  BY DEF RankingInv, RaisedForAReason
<1>2. request \in RunRequests
  BY ComparisonAssumption DEF RankingInv
<1>3. PICK lane \in LaneSet : lane = PlannedLanes(request)[k]
  BY <1>1, <1>2, PlannedFromSpec
<1>4. PICK i \in DOMAIN request.spec : lane.benchmark = request.spec[i]
  BY <1>1, <1>2, <1>3, PlannedFromSpec DEF ToSet
<1>5. CASE Api(lane.benchmark)
  <2>1. ~ SettingsMakeSense(request, lane.benchmark)
    BY <1>1, <1>3, <1>5 DEF LaneRaises
  <2> QED BY <2>1, <1>4
<1>6. CASE ~ Api(lane.benchmark)
  <2>1. lane.platform \in ToSet(Platforms)
    BY <1>1, <1>2, <1>3, <1>6, PlannedFromSpec
  <2>2. lane.platform \in ToSet(lane.benchmark.commands)
    BY <1>4, <2>1 DEF ValidateSpecs
  <2>3. lane.benchmark.commands \in Seq(PlatformNames)
    BY BenchmarkTypes DEF LaneSet
  <2>4. Contains(lane.benchmark.commands, lane.platform)
    <3>1. DOMAIN lane.benchmark.commands = 1 .. Len(lane.benchmark.commands)
      BY <2>3, LenProperties
    <3> QED BY <2>2, <3>1 DEF Contains, ToSet
  <2>5. lane.benchmark.kind # "grpc"
    BY <1>6 DEF Api
  <2>6. ~ LaneRaises(request, lane)
    BY <1>6, <2>4, <2>5 DEF LaneRaises
  <2> QED BY <1>1, <1>3, <2>6
<1> QED BY <1>5, <1>6

\* With distinct definitions no lane is measured twice.
LEMMA MeasuredDistinct ==
  ASSUME RankingInv, LanesDistinct(request.spec),
         NEW i \in 1 .. Len(measured), NEW j \in 1 .. Len(measured),
         measured[i].lane.benchmark.id = measured[j].lane.benchmark.id,
         measured[i].lane.platform = measured[j].lane.platform
  PROVE  i = j
<1>1. request \in RunRequests
  BY ComparisonAssumption DEF RankingInv
<1>2. PICK P \in Seq(LaneSet) : P = PlannedLanes(request) /\ Len(P) \in Nat
  BY <1>1, LanesOfTypes, LenProperties
<1>3. Len(measured) \in Nat
  BY LenProperties DEF RankingInv, LanesInStep
<1>4. i \in 1 .. Len(P) /\ j \in 1 .. Len(P) /\ measured[i].lane = P[i] /\ measured[j].lane = P[j]
  BY <1>2, <1>3 DEF RankingInv, LanesInStep
<1> QED BY <1>1, <1>2, <1>4, PlannedDistinct

\* The repeats of a lane in the group of one of its cells are among its own rows.
LEMMA OwnRepeats ==
  ASSUME RankingInv, LanesDistinct(request.spec), phase = "rank",
         NEW i \in 1 .. Len(measured), NEW size
  PROVE  LET lane == measured[i].lane
             key == <<lane.benchmark.id, size>>
         IN RepeatsOf(key, lane.platform)
              = Filter(measured[i].rows, {row \in ResultRows : row.size = size /\ IsComparable(row)})
<1> DEFINE lane == measured[i].lane
           key == <<lane.benchmark.id, size>>
           S == {row \in ToSet(rows) : IsComparable(row) /\ Key(row) = key}
           T == {row \in ToSet(rows) : row.platform = lane.platform}
           U == {row \in ResultRows : IsComparable(row) /\ Key(row) = key /\ row.platform = lane.platform}
           V == {row \in ResultRows : row.size = size /\ IsComparable(row)}
<1>1. PICK s \in Seq(ResultRows) : s = rows
  BY RankedRows
<1>2. Len(measured) \in Nat /\ DOMAIN measured = 1 .. Len(measured)
  BY LenProperties DEF RankingInv, LanesInStep
<1>3. \A j \in 1 .. Len(measured) :
        /\ measured[j].rows \in Seq(ResultRows)
        /\ \A k \in 1 .. Len(measured[j].rows) :
             /\ measured[j].rows[k].benchmark = measured[j].lane.benchmark.id
             /\ measured[j].rows[k].platform = measured[j].lane.platform
  BY DEF RankingInv, LanesInStep, MeasuredBy
<1>4. PICK q : q = [j \in DOMAIN measured |-> measured[j].rows]
  OBVIOUS
<1>5. q \in Seq(Seq(ResultRows)) /\ Len(q) = Len(measured) /\ \A j \in 1 .. Len(q) : q[j] = measured[j].rows
  BY <1>2, <1>3, <1>4
<1>6. s = FlattenSeq(q)
  BY <1>1, <1>4 DEF RankingInv, RowsInStep
<1>7. RepeatsOf(key, lane.platform) = Filter(s, S \cap T)
  <2>1. RepeatsOf(key, lane.platform) = Filter(Filter(s, S), T)
    BY <1>1 DEF RepeatsOf, RowsIn
  <2>2. FilterTwice(s, S, T)
    BY FilterOfFilter
  <2> QED BY <2>1, <2>2 DEF FilterTwice
<1>8. Filter(s, S \cap T) = Filter(s, U)
  <2>1. DOMAIN s = 1 .. Len(s)
    BY LenProperties
  <2>2. \A k \in 1 .. Len(s) : s[k] \in ToSet(rows) /\ s[k] \in ResultRows
    BY <1>1, <2>1, ElementOfSeq DEF ToSet
  <2>3. \A k \in 1 .. Len(s) : s[k] \in S \cap T <=> s[k] \in U
    BY <2>2
  <2> HIDE DEF S, T, U
  <2>4. SameFilter(s, S \cap T, U)
    BY <2>3, FilterSame
  <2> QED BY <2>4 DEF SameFilter
<1>9. Filter(s, U) = Filter(q[i], U)
  <2>1. ASSUME NEW j \in 1 .. Len(q), j # i PROVE Filter(q[j], U) = <<>>
    <3>1. measured[j].lane.benchmark.id # lane.benchmark.id \/ measured[j].lane.platform # lane.platform
      BY <1>5, <2>1, MeasuredDistinct
    <3>2. q[j] \in Seq(ResultRows) /\ \A k \in 1 .. Len(q[j]) : q[j][k] \notin U
      BY <1>3, <1>5, <3>1 DEF Key
    <3> HIDE DEF U
    <3> QED BY <3>2, FilterNone
  <2> HIDE DEF U
  <2>2. i \in 1 .. Len(q)
    BY <1>5
  <2> QED BY <1>5, <1>6, <2>1, <2>2, FilterFlatten
<1>10. Filter(q[i], U) = Filter(q[i], V)
  <2>1. PICK r \in Seq(ResultRows) : r = q[i] /\ r = measured[i].rows
    BY <1>3, <1>5
  <2>2. \A k \in 1 .. Len(r) : r[k] \in ResultRows /\ r[k].benchmark = lane.benchmark.id
                              /\ r[k].platform = lane.platform
    BY <1>3, <2>1, ElementOfSeq
  <2>3. \A k \in 1 .. Len(r) : r[k] \in U <=> r[k] \in V
    BY <2>2 DEF Key
  <2> HIDE DEF U, V
  <2>4. SameFilter(r, U, V)
    BY <2>3, FilterSame
  <2> QED BY <2>1, <2>4 DEF SameFilter
<1>11. q[i] = measured[i].rows
  BY <1>5
<1> QED BY <1>7, <1>8, <1>9, <1>10, <1>11

\* LanesAccounted, of one cell of one lane.
LEMMA CellAccounted ==
  ASSUME RankingInv, LanesDistinct(request.spec), phase = "rank",
         NEW i \in 1 .. Len(measured),
         NEW c \in DOMAIN Cells(request, measured[i].lane.benchmark)
  PROVE  LET lane == measured[i].lane
             cells == Cells(request, lane.benchmark)
             key == <<lane.benchmark.id, cells[c]>>
             mine == {j \in DOMAIN measured[i].rows : measured[i].rows[j].size = cells[c]
                                                     /\ IsComparable(measured[i].rows[j])}
         IN /\ lane.platform \in PlatformsIn(key) <=> mine # {}
            /\ mine # {} /\ Api(lane.benchmark) =>
                 Len(RepeatsOf(key, lane.platform)) = request.repeat * Len(Filter(cells, {cells[c]}))
<1> DEFINE lane == measured[i].lane
           cells == Cells(request, lane.benchmark)
           size == cells[c]
           key == <<lane.benchmark.id, size>>
           V == {row \in ResultRows : row.size = size /\ IsComparable(row)}
           mine == {j \in DOMAIN measured[i].rows : measured[i].rows[j].size = size
                                                   /\ IsComparable(measured[i].rows[j])}
<1>1. MeasuredBy(cells, request.repeat, lane, measured[i].rows)
  BY DEF RankingInv, LanesInStep
<1>2. PICK r \in Seq(ResultRows) : r = measured[i].rows
  BY <1>1 DEF MeasuredBy
<1>3. DOMAIN r = 1 .. Len(r) /\ Len(r) \in Nat /\ \A k \in 1 .. Len(r) : r[k] \in ResultRows
  BY LenProperties, ElementOfSeq
<1>4. RepeatsOf(key, lane.platform) = Filter(r, V)
  BY <1>2, OwnRepeats
<1>5. mine # {} <=> \E k \in 1 .. Len(r) : r[k] \in V
  BY <1>2, <1>3
<1>6. PICK f \in Seq(ResultRows) : f = Filter(r, V) /\ Len(f) \in Nat
  BY FilterType, LenProperties
<1>7. mine # {} <=> Len(f) # 0
  <2> HIDE DEF V, mine
  <2>1. (\E k \in 1 .. Len(r) : r[k] \in V) => Len(f) # 0
    <3>1. Keeps(r, V)
      BY FilterKeeps
    <3> QED BY <3>1, <1>6 DEF Keeps
  <2>2. Len(f) # 0 => \E k \in 1 .. Len(r) : r[k] \in V
    <3>1. KeepsOnly(r, V)
      BY FilterKeepsOnly
    <3>2. Len(f) # 0 => 1 \in 1 .. Len(f)
      BY <1>6
    <3> QED BY <3>1, <3>2, <1>6 DEF KeepsOnly
  <2> QED BY <1>5, <2>1, <2>2
<1>8. rows \in Seq(ResultRows)
  BY RankedRows
<1>9. lane.platform \in PlatformsIn(key) <=> mine # {}
  <2>1. lane.platform \in PlatformsIn(key) <=> Len(RepeatsOf(key, lane.platform)) # 0
    BY <1>8, RepeatRows
  <2> HIDE DEF key, mine, V
  <2> QED BY <2>1, <1>4, <1>6, <1>7
<1>10. ASSUME mine # {}, Api(lane.benchmark)
       PROVE  Len(RepeatsOf(key, lane.platform)) = request.repeat * Len(Filter(cells, {size}))
  <2>1. request \in RunRequests /\ request.repeat \in Nat
    BY ComparisonAssumption, RequestTypes DEF RankingInv
  <2>2. lane.benchmark \in Benchmarks
    <3>1. measured[i] \in [lane : LaneSet, rows : Seq(ResultRows)]
      BY ElementOfSeq DEF RankingInv, LanesInStep
    <3> QED BY <3>1 DEF LaneSet
  <2>3. PICK d \in Seq(Int) : d = cells
    BY <2>1, <2>2, RequestTypes, BenchmarkTypes DEF Cells
  <2>4. PICK w \in Seq(Int) : w = Repeated(d, request.repeat)
    BY <2>1, RepeatedType
  <2>5. r # <<>>
    BY <1>3, <1>5, <1>10
  <2>6. /\ Len(r) = Len(w)
        /\ \A k \in 1 .. Len(r) : r[k].size = w[k] /\ r[k].unit = "requests/s"
    BY <1>1, <1>2, <1>10, <2>3, <2>4, <2>5 DEF MeasuredBy
  <2>7. \A k \in 1 .. Len(r) : r[k] \in V <=> w[k] \in {size}
    BY <1>3, <2>6 DEF IsComparable
  <2> HIDE DEF V
  <2>8. SameLength(r, V, w, {size})
    BY <2>6, <2>7, FilterSameLength
  <2>9. RepeatedKept(d, request.repeat, size)
    BY <2>1, RepeatedCount
  <2>10. Len(RepeatsOf(key, lane.platform)) = Len(Filter(w, {size}))
    BY <1>4, <2>8 DEF SameLength
  <2> QED BY <2>3, <2>4, <2>9, <2>10 DEF RepeatedKept
<1> QED BY <1>9, <1>10

\* Lanes that were measured have their place in the ranking.
THEOREM EveryLaneIsAccounted == CSpec => []LanesAccounted
<1>1. RankingInv => LanesAccounted
  <2> SUFFICES ASSUME RankingInv PROVE LanesAccounted
    OBVIOUS
  <2>1. DOMAIN measured = 1 .. Len(measured)
    BY LenProperties DEF RankingInv, LanesInStep
  <2>2. ValidateSpecs(request.spec) /\ request.runner = "host" /\ phase = "raised" =>
          \/ NothingSelected(request)
          \/ \E i \in DOMAIN request.spec : ~ SettingsMakeSense(request, request.spec[i])
    BY HostRaises
  <2>3. LanesDistinct(request.spec) =>
          \A i, j \in DOMAIN measured :
            /\ measured[i].lane.benchmark.id = measured[j].lane.benchmark.id
            /\ measured[i].lane.platform = measured[j].lane.platform
            => i = j
    BY <2>1, MeasuredDistinct
  <2>4. ASSUME LanesDistinct(request.spec), phase = "rank", NEW i \in DOMAIN measured,
               NEW c \in DOMAIN Cells(request, measured[i].lane.benchmark)
        PROVE  LET lane == measured[i].lane
                   cells == Cells(request, lane.benchmark)
                   key == <<lane.benchmark.id, cells[c]>>
                   mine == {j \in DOMAIN measured[i].rows : measured[i].rows[j].size = cells[c]
                                                           /\ IsComparable(measured[i].rows[j])}
               IN /\ lane.platform \in PlatformsIn(key) <=> mine # {}
                  /\ mine # {} /\ Api(lane.benchmark) =>
                       Len(RepeatsOf(key, lane.platform)) = request.repeat * Len(Filter(cells, {cells[c]}))
    BY <2>1, <2>4, CellAccounted
  <2> QED BY <2>2, <2>3, <2>4 DEF LanesAccounted
<1> QED BY <1>1, RankingInvariance, PTL

--------------------------------------------------------------------------------
(***************************************************************************)
(* Products and powers.                                                    *)
(***************************************************************************)

\* F is the function that Product declares, on the first k scores.
Products(F, s, k) == F = [n \in 0 .. k |-> IF n = 0 THEN <<1, 1>> ELSE Times(F[n - 1], s[n])]

LEMMA ProductsExists ==
  ASSUME NEW s, NEW m \in Nat
  PROVE  \E F : Products(F, s, m)
<1> DEFINE Bad == {k \in Nat : ~ \E F : Products(F, s, k)}
<1>1. SUFFICES ASSUME Bad # {} PROVE FALSE
  OBVIOUS
<1>2. PICK k \in Bad : \A j \in Bad : k <= j
  BY <1>1, LeastNumber
<1>3. CASE k = 0
  <2> DEFINE F == [n \in 0 .. 0 |-> <<1, 1>>]
  <2>1. Products(F, s, 0)
    BY DEF Products
  <2> QED BY <2>1, <1>3, <1>2
<1>4. CASE k # 0
  <2>1. k - 1 \in Nat /\ k - 1 \notin Bad
    BY <1>2, <1>4
  <2>2. PICK F : Products(F, s, k - 1)
    BY <2>1
  <2> DEFINE G == [n \in 0 .. k |-> IF n = k THEN Times(F[k - 1], s[k]) ELSE F[n]]
  <2>3. \A n \in 0 .. k - 1 : F[n] = IF n = 0 THEN <<1, 1>> ELSE Times(F[n - 1], s[n])
    BY <2>2 DEF Products
  <2>4. \A n \in 0 .. k : G[n] = IF n = 0 THEN <<1, 1>> ELSE Times(G[n - 1], s[n])
    <3>1. G[k] = Times(G[k - 1], s[k])
      BY <2>1, <1>4
    <3>2. \A n \in 0 .. k - 1 : G[n] = IF n = 0 THEN <<1, 1>> ELSE Times(G[n - 1], s[n])
      BY <2>3, <2>1
    <3> HIDE DEF G
    <3> QED BY <3>1, <3>2, <1>4, <2>1
  <2>5. Products(G, s, k)
    <3>1. G = [n \in 0 .. k |-> G[n]]
      OBVIOUS
    <3> HIDE DEF G
    <3> QED BY <3>1, <2>4 DEF Products
  <2> QED BY <2>5, <1>2
<1> QED BY <1>3, <1>4

LEMMA ProductsAt ==
  ASSUME NEW s, NEW k \in Nat, NEW F, Products(F, s, k)
  PROVE  F[0] = <<1, 1>> /\ \A n \in 1 .. k : F[n] = Times(F[n - 1], s[n])
<1>1. \A n \in 0 .. k : F[n] = IF n = 0 THEN <<1, 1>> ELSE Times(F[n - 1], s[n])
  BY DEF Products
<1>2. F[0] = <<1, 1>>
  BY <1>1
<1>3. ASSUME NEW n \in 1 .. k PROVE F[n] = Times(F[n - 1], s[n])
  <2>1. n \in 0 .. k /\ n # 0
    OBVIOUS
  <2> QED BY <1>1, <2>1
<1> QED BY <1>2, <1>3

LEMMA ProductValue ==
  ASSUME NEW s, Len(s) \in Nat
  PROVE  \E F : Products(F, s, Len(s)) /\ Product(s) = F[Len(s)]
BY ProductsExists DEF Product, Products

\* The product of two fractions, and its order.
LEMMA TimesIsProduct ==
  ASSUME NEW x \in Fractions, NEW y \in Fractions, NEW v \in Fractions, NEW w \in Fractions
  PROVE  /\ Times(x, v) \in Fractions
         /\ ~ Less(y, x) /\ ~ Less(w, v) => ~ Less(Times(y, w), Times(x, v))
<1>x. PICK x1 \in Nat, x2 \in Nat : x = <<x1, x2>> /\ x2 # 0
  BY DEF Fractions
<1>y. PICK y1 \in Nat, y2 \in Nat : y = <<y1, y2>> /\ y2 # 0
  BY DEF Fractions
<1>v. PICK v1 \in Nat, v2 \in Nat : v = <<v1, v2>> /\ v2 # 0
  BY DEF Fractions
<1>w. PICK w1 \in Nat, w2 \in Nat : w = <<w1, w2>> /\ w2 # 0
  BY DEF Fractions
<1>1. /\ x = <<x1, x2>> /\ y = <<y1, y2>> /\ v = <<v1, v2>> /\ w = <<w1, w2>>
      /\ x2 # 0 /\ y2 # 0 /\ v2 # 0 /\ w2 # 0
  BY <1>x, <1>y, <1>v, <1>w
<1>2. Times(x, v) = <<x1 * v1, x2 * v2>> /\ Times(y, w) = <<y1 * w1, y2 * w2>>
  BY <1>1 DEF Times
<1>3. x1 * v1 \in Nat /\ x2 * v2 \in Nat /\ x2 * v2 # 0 /\ y1 * w1 \in Nat /\ y2 * w2 \in Nat /\ y2 * w2 # 0
  BY <1>1, ProductPositive
<1>4. Times(x, v) \in Fractions /\ Times(y, w) \in Fractions
  BY <1>2, <1>3 DEF Fractions
<1>5. ASSUME ~ Less(y, x), ~ Less(w, v) PROVE ~ Less(Times(y, w), Times(x, v))
  <2>1. x1 * y2 <= y1 * x2 /\ v1 * w2 <= w1 * v2
    BY <1>1, <1>5, LessIsOrder
  <2>2. PICK a \in Nat, b \in Nat, c \in Nat, d \in Nat :
          a = x1 * y2 /\ b = y1 * x2 /\ c = v1 * w2 /\ d = w1 * v2
    BY ProductPositive
  <2>3. a * c <= b * c
    BY <2>1, <2>2, TimesKeepsOrder
  <2>4. c * b <= d * b
    BY <2>1, <2>2, TimesKeepsOrder
  <2>5. a * c <= b * d
    <3>1. c * b = b * c /\ d * b = b * d /\ a * c \in Nat /\ b * c \in Nat /\ b * d \in Nat
      OBVIOUS
    <3> QED BY <3>1, <2>3, <2>4
  <2>6. (x1 * v1) * (y2 * w2) = a * c /\ (y1 * w1) * (x2 * v2) = b * d
    BY <2>2
  <2>7. (x1 * v1) * (y2 * w2) <= (y1 * w1) * (x2 * v2)
    BY <2>5, <2>6
  <2> QED BY <1>2, <1>4, <2>7, LessIsOrder
<1> QED BY <1>4, <1>5

\* A product of scores is a fraction, and no greater than that of scores that are no
\* smaller.
LEMMA ProductKeepsOrder ==
  ASSUME NEW s, NEW t, Len(s) \in Nat, Len(t) = Len(s),
         \A i \in 1 .. Len(s) : s[i] \in Fractions /\ t[i] \in Fractions /\ ~ Less(t[i], s[i])
  PROVE  Product(s) \in Fractions /\ Product(t) \in Fractions /\ ~ Less(Product(t), Product(s))
<1>1. PICK F : Products(F, s, Len(s)) /\ Product(s) = F[Len(s)]
  BY ProductValue
<1>2. PICK G : Products(G, t, Len(s)) /\ Product(t) = G[Len(s)]
  BY ProductValue
<1>3. F[0] = <<1, 1>> /\ \A n \in 1 .. Len(s) : F[n] = Times(F[n - 1], s[n])
  BY <1>1, ProductsAt
<1>4. G[0] = <<1, 1>> /\ \A n \in 1 .. Len(s) : G[n] = Times(G[n - 1], t[n])
  BY <1>2, ProductsAt
<1> DEFINE Good(n) == F[n] \in Fractions /\ G[n] \in Fractions /\ ~ Less(G[n], F[n])
           Bad == {n \in 0 .. Len(s) : ~ Good(n)}
<1>5. SUFFICES ASSUME Bad # {} PROVE FALSE
  BY <1>1, <1>2
<1>6. PICK n \in Bad : \A j \in Bad : n <= j
  <2>1. Bad \subseteq Nat
    OBVIOUS
  <2> QED BY <1>5, <2>1, LeastNumber
<1>7. CASE n = 0
  <2>1. <<1, 1>> \in Fractions /\ ~ Less(<<1, 1>>, <<1, 1>>)
    BY DEF Fractions, Less
  <2> QED BY <2>1, <1>3, <1>4, <1>6, <1>7
<1>8. CASE n # 0
  <2>1. n - 1 \in 0 .. Len(s) /\ n \in 1 .. Len(s)
    BY <1>6, <1>8
  <2>2. Good(n - 1)
    <3>1. n - 1 \notin Bad
      <4>1. n \in Nat
        BY <2>1
      <4> HIDE DEF Bad
      <4> QED BY <1>6, <2>1, <4>1
    <3> QED BY <2>1, <3>1
  <2>3. F[n] = Times(F[n - 1], s[n]) /\ G[n] = Times(G[n - 1], t[n])
    BY <1>3, <1>4, <2>1
  <2>4. s[n] \in Fractions /\ t[n] \in Fractions /\ ~ Less(t[n], s[n])
    BY <2>1
  <2>5. Good(n)
    BY <2>2, <2>3, <2>4, TimesIsProduct
  <2> QED BY <1>6, <2>5
<1> QED BY <1>7, <1>8

\* A product of scores of at most 1 is 1 only if all of them are.
LEMMA ProductOfOnes ==
  ASSUME NEW s, Len(s) \in Nat,
         \A i \in 1 .. Len(s) : s[i] \in Fractions /\ ~ Less(<<1, 1>>, s[i]),
         Equal(Product(s), <<1, 1>>), NEW j \in 1 .. Len(s)
  PROVE  Equal(s[j], <<1, 1>>)
<1>1. PICK F : Products(F, s, Len(s)) /\ Product(s) = F[Len(s)]
  BY ProductValue
<1>2. F[0] = <<1, 1>> /\ \A n \in 1 .. Len(s) : F[n] = Times(F[n - 1], s[n])
  BY <1>1, ProductsAt
<1>3. \A i \in 1 .. Len(s) : /\ s[i] = <<s[i][1], s[i][2]>> /\ s[i][1] \in Nat /\ s[i][2] \in Nat
                            /\ s[i][2] # 0 /\ s[i][1] <= s[i][2]
  BY DEF Fractions, Less
<1>4. SUFFICES ASSUME s[j][1] < s[j][2] PROVE FALSE
  BY <1>3 DEF Equal
<1> DEFINE Good(n) == /\ F[n] = <<F[n][1], F[n][2]>> /\ F[n][1] \in Nat /\ F[n][2] \in Nat
                      /\ F[n][2] # 0 /\ F[n][1] <= F[n][2]
                      /\ n >= j => F[n][1] < F[n][2]
           Bad == {n \in 0 .. Len(s) : ~ Good(n)}
<1>5. Bad = {}
  <2>1. SUFFICES ASSUME Bad # {} PROVE FALSE
    OBVIOUS
  <2>2. PICK n \in Bad : \A m \in Bad : n <= m
    <3>1. Bad \subseteq Nat
      OBVIOUS
    <3> QED BY <2>1, <3>1, LeastNumber
  <2>3. CASE n = 0
    BY <2>2, <2>3, <1>2
  <2>4. CASE n # 0
    <3>1. n - 1 \in 0 .. Len(s) /\ n \in 1 .. Len(s) /\ n \in Nat
      BY <2>2, <2>4
    <3>2. Good(n - 1)
      <4>1. n - 1 \notin Bad
        <5> HIDE DEF Bad
        <5> QED BY <2>2, <3>1
      <4> QED BY <3>1, <4>1
    <3>3. PICK a \in Nat, b \in Nat : F[n - 1] = <<a, b>> /\ b # 0 /\ a <= b /\ (n - 1 >= j => a < b)
      <4>1. /\ F[n - 1] = <<F[n - 1][1], F[n - 1][2]>> /\ F[n - 1][1] \in Nat /\ F[n - 1][2] \in Nat
            /\ F[n - 1][2] # 0 /\ F[n - 1][1] <= F[n - 1][2]
            /\ n - 1 >= j => F[n - 1][1] < F[n - 1][2]
        BY <3>2
      <4> HIDE DEF Bad, Good
      <4> QED BY <4>1
    <3>4. PICK x \in Nat, y \in Nat : s[n] = <<x, y>> /\ y # 0 /\ x <= y /\ (n = j => x < y)
      BY <1>3, <1>4, <3>1
    <3>5. F[n] = <<a * x, b * y>>
      <4>1. F[n] = Times(F[n - 1], s[n])
        BY <1>2, <3>1
      <4>2. Times(<<a, b>>, <<x, y>>) = <<a * x, b * y>>
        BY DEF Times
      <4> QED BY <4>1, <4>2, <3>3, <3>4
    <3>6. a * x \in Nat /\ b * y \in Nat /\ b * y # 0 /\ b * x \in Nat /\ a * y \in Nat
      BY <3>3, <3>4, ProductPositive
    <3>7. a * x <= b * x /\ x * b <= y * b
      BY <3>3, <3>4, TimesKeepsOrder
    <3>8. a * x <= b * y
      <4>1. x * b = b * x /\ y * b = b * y
        OBVIOUS
      <4> QED BY <4>1, <3>6, <3>7
    <3>9. n >= j => a * x < b * y
      <4>1. CASE n = j
        <5>1. x < y
          BY <3>4, <4>1
        <5>2. ~ y * b <= x * b
          BY <5>1, <3>3, TimesStrict
        <5>3. x * b = b * x /\ y * b = b * y
          OBVIOUS
        <5> QED BY <5>2, <5>3, <3>6, <3>7
      <4>2. CASE n - 1 >= j
        <5>1. a < b
          BY <3>3, <4>2
        <5>2. ~ b * y <= a * y
          BY <5>1, <3>4, TimesStrict
        <5>3. x * a <= y * a
          BY <3>4, TimesKeepsOrder
        <5>4. x * a = a * x /\ y * a = a * y
          OBVIOUS
        <5> QED BY <5>2, <5>3, <5>4, <3>6
      <4> QED BY <4>1, <4>2, <3>1
    <3>10. Good(n)
      BY <3>5, <3>6, <3>8, <3>9
    <3> QED BY <2>2, <3>10
  <2> QED BY <2>3, <2>4
<1>6. Good(Len(s))
  BY <1>5
<1>7. F[Len(s)][1] < F[Len(s)][2] /\ F[Len(s)][1] \in Nat /\ F[Len(s)][2] \in Nat
  BY <1>6
<1> QED BY <1>1, <1>7 DEF Equal

\* F is the function that Power declares.
Powers(F, x, k) == F = [i \in 0 .. k |-> IF i = 0 THEN 1 ELSE x * F[i - 1]]

LEMMA PowersExists ==
  ASSUME NEW x, NEW m \in Nat
  PROVE  \E F : Powers(F, x, m)
<1> DEFINE Bad == {k \in Nat : ~ \E F : Powers(F, x, k)}
<1>1. SUFFICES ASSUME Bad # {} PROVE FALSE
  OBVIOUS
<1>2. PICK k \in Bad : \A j \in Bad : k <= j
  BY <1>1, LeastNumber
<1>3. CASE k = 0
  <2> DEFINE F == [n \in 0 .. 0 |-> 1]
  <2>1. Powers(F, x, 0)
    BY DEF Powers
  <2> QED BY <2>1, <1>3, <1>2
<1>4. CASE k # 0
  <2>1. k - 1 \in Nat /\ k - 1 \notin Bad
    BY <1>2, <1>4
  <2>2. PICK F : Powers(F, x, k - 1)
    BY <2>1
  <2> DEFINE G == [n \in 0 .. k |-> IF n = k THEN x * F[k - 1] ELSE F[n]]
  <2>3. \A n \in 0 .. k - 1 : F[n] = IF n = 0 THEN 1 ELSE x * F[n - 1]
    BY <2>2 DEF Powers
  <2>4. \A n \in 0 .. k : G[n] = IF n = 0 THEN 1 ELSE x * G[n - 1]
    <3>1. G[k] = x * G[k - 1]
      BY <2>1, <1>4
    <3>2. \A n \in 0 .. k - 1 : G[n] = IF n = 0 THEN 1 ELSE x * G[n - 1]
      BY <2>3, <2>1
    <3> HIDE DEF G
    <3> QED BY <3>1, <3>2, <1>4, <2>1
  <2>5. Powers(G, x, k)
    <3>1. G = [n \in 0 .. k |-> G[n]]
      OBVIOUS
    <3> HIDE DEF G
    <3> QED BY <3>1, <2>4 DEF Powers
  <2> QED BY <2>5, <1>2
<1> QED BY <1>3, <1>4

LEMMA PowerValue ==
  ASSUME NEW x, NEW n \in Nat
  PROVE  \E F : /\ Power(x, n) = F[n] /\ F[0] = 1
                /\ \A i \in 1 .. n : F[i] = x * F[i - 1]
<1>1. PICK F : Powers(F, x, n) /\ Power(x, n) = F[n]
  BY PowersExists DEF Power, Powers
<1>2. F[0] = 1 /\ \A i \in 1 .. n : F[i] = x * F[i - 1]
  BY <1>1 DEF Powers
<1> QED BY <1>1, <1>2

\* Products that are in some order are so to any power.
LEMMA PowersKeepOrder ==
  ASSUME NEW a \in Nat, NEW b \in Nat, NEW c \in Nat, NEW d \in Nat, NEW n \in Nat, a * b <= c * d
  PROVE  /\ Power(a, n) * Power(b, n) <= Power(c, n) * Power(d, n)
         /\ Power(a, n) \in Nat /\ Power(b, n) \in Nat /\ Power(c, n) \in Nat /\ Power(d, n) \in Nat
<1>1. PICK A : Power(a, n) = A[n] /\ A[0] = 1 /\ \A i \in 1 .. n : A[i] = a * A[i - 1]
  BY PowerValue
<1>2. PICK B : Power(b, n) = B[n] /\ B[0] = 1 /\ \A i \in 1 .. n : B[i] = b * B[i - 1]
  BY PowerValue
<1>3. PICK C : Power(c, n) = C[n] /\ C[0] = 1 /\ \A i \in 1 .. n : C[i] = c * C[i - 1]
  BY PowerValue
<1>4. PICK D : Power(d, n) = D[n] /\ D[0] = 1 /\ \A i \in 1 .. n : D[i] = d * D[i - 1]
  BY PowerValue
<1> DEFINE Good(i) == /\ A[i] \in Nat /\ B[i] \in Nat /\ C[i] \in Nat /\ D[i] \in Nat
                      /\ A[i] * B[i] <= C[i] * D[i]
           Bad == {i \in 0 .. n : ~ Good(i)}
<1>5. SUFFICES ASSUME Bad # {} PROVE FALSE
  BY <1>1, <1>2, <1>3, <1>4
<1>6. PICK i \in Bad : \A j \in Bad : i <= j
  <2>1. Bad \subseteq Nat
    OBVIOUS
  <2> QED BY <1>5, <2>1, LeastNumber
<1>7. CASE i = 0
  BY <1>1, <1>2, <1>3, <1>4, <1>6, <1>7
<1>8. CASE i # 0
  <2>1. i - 1 \in 0 .. n /\ i \in 1 .. n /\ i \in Nat
    BY <1>6, <1>8
  <2>2. Good(i - 1)
    <3>1. i - 1 \notin Bad
      <4> HIDE DEF Bad
      <4> QED BY <1>6, <2>1
    <3> QED BY <2>1, <3>1
  <2>3. PICK e \in Nat, f \in Nat, g \in Nat, h \in Nat :
          A[i - 1] = e /\ B[i - 1] = f /\ C[i - 1] = g /\ D[i - 1] = h /\ e * f <= g * h
    BY <2>2
  <2>4. A[i] = a * e /\ B[i] = b * f /\ C[i] = c * g /\ D[i] = d * h
    BY <1>1, <1>2, <1>3, <1>4, <2>1, <2>3
  <2>5. PICK p \in Nat, q \in Nat, r \in Nat, s \in Nat : p = a * b /\ q = c * d /\ r = e * f /\ s = g * h
    BY ProductPositive
  <2>6. p * r <= q * r /\ r * q <= s * q
    BY <2>3, <2>5, TimesKeepsOrder
  <2>7. p * r <= q * s
    <3>1. r * q = q * r /\ s * q = q * s /\ p * r \in Nat /\ q * r \in Nat /\ q * s \in Nat
      OBVIOUS
    <3> QED BY <3>1, <2>6
  <2>8. (a * e) * (b * f) = p * r /\ (c * g) * (d * h) = q * s
    BY <2>5
  <2>9. a * e \in Nat /\ b * f \in Nat /\ c * g \in Nat /\ d * h \in Nat
    BY ProductPositive
  <2>10. Good(i)
    BY <2>4, <2>7, <2>8, <2>9
  <2> QED BY <1>6, <2>10
<1> QED BY <1>7, <1>8

\* The sequence of a finite set has each of its elements.
LEMMA SetToSeqElements ==
  ASSUME NEW S, IsFiniteSet(S)
  PROVE  /\ Len(SetToSeq(S)) \in Nat /\ DOMAIN SetToSeq(S) = 1 .. Len(SetToSeq(S))
         /\ \A i \in 1 .. Len(SetToSeq(S)) : SetToSeq(S)[i] \in S
         /\ \A x \in S : \E i \in 1 .. Len(SetToSeq(S)) : SetToSeq(S)[i] = x
<1>1. PICK n \in Nat : n = Cardinality(S)
  BY FS_CardinalityType
<1>2. \E f \in [1 .. n -> S] : IsInjective(f)
  <2>1. ExistsBijection(1 .. n, S)
    BY <1>1, FS_CardinalityType
  <2> QED BY <2>1 DEF ExistsBijection, Bijection, Injection
<1>3. PICK f : f = SetToSeq(S)
  OBVIOUS
<1>4. f \in [1 .. n -> S] /\ IsInjective(f)
  BY <1>1, <1>2, <1>3 DEF SetToSeq
<1>5. f \in Injection(1 .. n, S)
  BY <1>4 DEF Injection
<1>6. IsFiniteSet(1 .. n) /\ Cardinality(1 .. n) = n
  BY FS_Interval
<1>7. f \in Surjection(1 .. n, S)
  BY <1>1, <1>5, <1>6, FS_Injection
<1>8. \A x \in S : \E i \in 1 .. n : f[i] = x
  BY <1>7 DEF Surjection
<1>9. Len(f) = n /\ DOMAIN f = 1 .. n
  BY <1>4
<1> QED BY <1>3, <1>4, <1>8, <1>9

--------------------------------------------------------------------------------
(***************************************************************************)
(* The leaders of a report.                                                *)
(***************************************************************************)

\* A row that is ranked is of a benchmark of the spec, and in requests/s, with a mean
\* above 0, exactly if this is an api.
LEMMA RowOrigin ==
  ASSUME RankingInv, NEW row \in ToSet(rows)
  PROVE  \E b \in ToSet(request.spec) : /\ row.benchmark = b.id
                                        /\ Api(b) <=> row.unit = "requests/s"
                                        /\ Api(b) => row.mean # 0
<1>1. CASE phase # "rank"
  BY <1>1 DEF RankingInv, RowsInStep, ToSet
<1>2. CASE phase = "rank"
  <2>1. Len(measured) \in Nat /\ DOMAIN measured = 1 .. Len(measured)
    BY LenProperties DEF RankingInv, LanesInStep
  <2>2. PICK q : q = [i \in DOMAIN measured |-> measured[i].rows]
    OBVIOUS
  <2>3. \A i \in 1 .. Len(measured) :
          MeasuredBy(Cells(request, measured[i].lane.benchmark), request.repeat,
                     measured[i].lane, measured[i].rows)
    BY DEF RankingInv, LanesInStep
  <2>4. q \in Seq(Seq(ResultRows)) /\ Len(q) = Len(measured) /\ \A i \in 1 .. Len(q) : q[i] = measured[i].rows
    BY <2>1, <2>2, <2>3 DEF MeasuredBy
  <2>5. rows = FlattenSeq(q)
    BY <1>2, <2>2 DEF RankingInv, RowsInStep
  <2>6. FlattenedElements(q)
    BY <2>4, FlattenElements
  <2>7. PICK i \in 1 .. Len(measured) : row \in ToSet(measured[i].rows)
    BY <2>4, <2>5, <2>6 DEF FlattenedElements
  <2>8. PICK r \in Seq(ResultRows) : r = measured[i].rows
    BY <2>3 DEF MeasuredBy
  <2>9. PICK k \in 1 .. Len(r) : r[k] = row
    BY <2>7, <2>8, LenProperties DEF ToSet
  <2>10. PICK lane : lane = measured[i].lane
    OBVIOUS
  <2>11. /\ row.benchmark = lane.benchmark.id
         /\ Api(lane.benchmark) <=> row.unit = "requests/s"
         /\ Api(lane.benchmark) => row.mean # 0
    BY <2>3, <2>8, <2>9, <2>10 DEF MeasuredBy
  <2>12. lane.benchmark \in ToSet(request.spec)
    <3>1. request \in RunRequests
      BY ComparisonAssumption DEF RankingInv
    <3>2. PICK P \in Seq(LaneSet) : P = PlannedLanes(request) /\ Len(P) \in Nat
      BY <3>1, LanesOfTypes, LenProperties
    <3>3. i \in 1 .. Len(P) /\ lane = P[i]
      BY <2>1, <2>10, <3>2 DEF RankingInv, LanesInStep
    <3> QED BY <3>1, <3>2, <3>3, PlannedFromSpec
  <2> QED BY <2>11, <2>12
<1> QED BY <1>1, <1>2

\* Where the ids are distinct, the rows of a group are all of an api or none is.
LEMMA UnitOfGroup ==
  ASSUME RankingInv, DistinctIds(request.spec), NEW key \in Keys, IsHigherBetter(UnitOf(key)),
         NEW row \in ToSet(RowsIn(key))
  PROVE  row.mean # 0
<1>1. rows \in Seq(ResultRows)
  BY RankedRows
<1>2. PICK g \in Seq(ResultRows) : g = RowsIn(key) /\ Len(g) \in Nat /\ Len(g) # 0
  BY <1>1, GroupRows, GroupNotEmpty
<1>3. g[1] \in ToSet(g)
  <2>1. 1 \in DOMAIN g
    BY <1>2, LenProperties
  <2> QED BY <2>1 DEF ToSet
<1>4. \A x \in ToSet(g) : x \in ToSet(rows) /\ x.benchmark = key[1]
  <2>1. \A x \in ToSet(g) : x \in ToSet(rows) /\ Key(x) = key
    BY <1>1, <1>2, GroupRows
  <2> QED BY <2>1 DEF Key
<1>5. PICK b \in ToSet(request.spec) : /\ g[1].benchmark = b.id
                                       /\ Api(b) <=> g[1].unit = "requests/s"
  BY <1>3, <1>4, RowOrigin
<1>6. PICK c \in ToSet(request.spec) : row.benchmark = c.id /\ (Api(c) => row.mean # 0)
  BY <1>2, <1>4, RowOrigin
<1>7. b = c
  <2>1. b.id = c.id
    BY <1>2, <1>3, <1>4, <1>5, <1>6
  <2> QED BY <2>1 DEF DistinctIds, ToSet
<1>8. Api(b)
  BY <1>2, <1>5 DEF IsHigherBetter, UnitOf
<1> QED BY <1>6, <1>7, <1>8

\* A throughput has no mean of 0.
LEMMA MeanPositive ==
  ASSUME RankingInv, DistinctIds(request.spec), NEW key \in Keys, IsHigherBetter(UnitOf(key)),
         NEW p \in PlatformsIn(key)
  PROVE  Mean(key, p)[1] # 0
<1>1. rows \in Seq(ResultRows)
  BY RankedRows
<1>2. PICK r \in Seq(ResultRows) : r = RepeatsOf(key, p)
  BY <1>1, RepeatRows
<1>3. Len(r) # 0
  BY <1>1, <1>2, RepeatRows
<1>4. ASSUME NEW i \in 1 .. Len(r) PROVE r[i].mean # 0
  <2>1. r[i] \in ToSet(r)
    BY LenProperties DEF ToSet
  <2>2. r[i] \in ToSet(RowsIn(key))
    BY <1>1, <1>2, <2>1, RepeatRows
  <2> QED BY <2>2, UnitOfGroup
<1>5. Total(r) # 0
  BY <1>3, <1>4, TotalType
<1> QED BY <1>2, <1>5 DEF Mean

\* A platform whose mean is not better has no higher score.
LEMMA ScoresInOrder ==
  ASSUME NEW u, NEW m \in Fractions, NEW n \in Fractions, NEW b \in Fractions,
         ~ Equal(b, Zero), ~ Equal(m, Zero), ~ Equal(n, Zero), ~ Better(u, m, n)
  PROVE  ~ Less(RelativeScore(u, n, b), RelativeScore(u, m, b))
<1>1. PICK m1 \in Nat, m2 \in Nat : m = <<m1, m2>> /\ m2 # 0
  BY DEF Fractions
<1>2. PICK n1 \in Nat, n2 \in Nat : n = <<n1, n2>> /\ n2 # 0
  BY DEF Fractions
<1>3. PICK b1 \in Nat, b2 \in Nat : b = <<b1, b2>> /\ b2 # 0
  BY DEF Fractions
<1>4. b1 * b2 \in Nat /\ m1 * n2 \in Nat /\ n1 * m2 \in Nat
  BY ProductPositive
<1>5. CASE IsHigherBetter(u)
  <2>1. m1 * n2 <= n1 * m2
    BY <1>1, <1>2, <1>4, <1>5 DEF Better, Less
  <2>2. (m1 * n2) * (b1 * b2) <= (n1 * m2) * (b1 * b2)
    BY <1>4, <2>1, TimesKeepsOrder
  <2>3. RelativeScore(u, m, b) = <<m1 * b2, m2 * b1>> /\ RelativeScore(u, n, b) = <<n1 * b2, n2 * b1>>
    BY <1>1, <1>2, <1>3, <1>5 DEF RelativeScore, Divide
  <2>4. /\ (m1 * n2) * (b1 * b2) = (m1 * b2) * (n2 * b1)
        /\ (n1 * m2) * (b1 * b2) = (n1 * b2) * (m2 * b1)
    OBVIOUS
  <2>5. PICK x \in Nat, y \in Nat : x = (m1 * b2) * (n2 * b1) /\ y = (n1 * b2) * (m2 * b1)
    BY ProductPositive
  <2>6. ~ y < x
    BY <2>2, <2>4, <2>5
  <2> QED BY <2>3, <2>5, <2>6 DEF Less
<1>6. CASE ~ IsHigherBetter(u)
  <2>1. n1 * m2 <= m1 * n2
    BY <1>1, <1>2, <1>4, <1>6 DEF Better, Less
  <2>2. (n1 * m2) * (b1 * b2) <= (m1 * n2) * (b1 * b2)
    BY <1>4, <2>1, TimesKeepsOrder
  <2>3. RelativeScore(u, m, b) = <<b1 * m2, b2 * m1>> /\ RelativeScore(u, n, b) = <<b1 * n2, b2 * n1>>
    <3>1. Divide(b, m) = <<b1 * m2, b2 * m1>> /\ Divide(b, n) = <<b1 * n2, b2 * n1>>
      BY <1>1, <1>2, <1>3 DEF Divide
    <3> QED BY <3>1, <1>6 DEF RelativeScore
  <2>4. /\ (n1 * m2) * (b1 * b2) = (b1 * m2) * (b2 * n1)
        /\ (m1 * n2) * (b1 * b2) = (b1 * n2) * (b2 * m1)
    OBVIOUS
  <2>5. PICK x \in Nat, y \in Nat : x = (b1 * m2) * (b2 * n1) /\ y = (b1 * n2) * (b2 * m1)
    BY ProductPositive
  <2>6. ~ y < x
    BY <2>2, <2>4, <2>5
  <2> QED BY <2>3, <2>5, <2>6 DEF Less
<1> QED BY <1>5, <1>6

\* A score of a group: none is counted where the best mean is 0, and elsewhere all are.
ScoreCounted(key, p) ==
  LET score == Scored(key).score[p] IN
  IF Equal(Best(key), Zero) THEN score[1] = 0
  ELSE /\ score \in Fractions /\ score[1] # 0
       /\ ~ Less(<<1, 1>>, score)
       /\ Equal(score, <<1, 1>>) => Equal(Mean(key, p), Best(key))

LEMMA ScoresCounted ==
  ASSUME RankingInv, DistinctIds(request.spec), NEW key \in Keys, NEW p \in PlatformsIn(key)
  PROVE  ScoreCounted(key, p) /\ (~ Equal(Best(key), Zero) => ~ Equal(Mean(key, p), Zero))
<1> DEFINE u == UnitOf(key)
           m == Mean(key, p)
           b == Best(key)
<1>1. rows \in Seq(ResultRows)
  BY RankedRows
<1>2. m \in Fractions /\ b \in Fractions /\ ~ Better(u, m, b)
  BY <1>1, MeanType, BestIsBest
<1>3. Scored(key).score[p] = RelativeScore(u, m, b)
  BY DEF Scored
<1>4. CASE Equal(b, Zero)
  <2>1. RelativeScore(u, m, b) = Zero
    BY <1>4, NothingToCompare
  <2>2. Zero[1] = 0
    BY DEF Zero
  <2> QED BY <1>3, <1>4, <2>1, <2>2 DEF ScoreCounted
<1>5. CASE ~ Equal(b, Zero)
  <2>1. IsHigherBetter(u) => m[1] # 0
    BY MeanPositive
  <2>2. m = <<m[1], m[2]>> /\ b = <<b[1], b[2]>> /\ m[1] \in Nat /\ m[2] \in Nat /\ b[1] \in Nat /\ b[2] \in Nat
    BY <1>2 DEF Fractions
  <2>3. m[2] # 0 /\ b[2] # 0 /\ b[1] # 0
    BY <1>2, <1>5 DEF Fractions, Equal, Zero
  <2> HIDE DEF u, m, b
  <2>4. ~ IsHigherBetter(u) => m[1] # 0
    <3> SUFFICES ASSUME ~ IsHigherBetter(u), m[1] = 0 PROVE FALSE
      OBVIOUS
    <3>1. m[1] * b[2] = 0
      BY <2>2
    <3>2. b[1] * m[2] \in Nat /\ b[1] * m[2] # 0
      BY <2>2, <2>3, ProductPositive
    <3> QED BY <1>2, <3>1, <3>2 DEF Better, Less
  <2>5. ~ Equal(m, Zero)
    BY <2>1, <2>2, <2>4 DEF Equal, Zero
  <2>6. ScoreAgrees(u, m, b, 1)
    BY <1>2, <1>5, RatioAndScore
  <2> DEFINE s == RelativeScore(u, m, b)
  <2>7. s \in Fractions /\ s[1] # 0 /\ ~ Less(<<1, 1>>, s) /\ (Equal(s, <<1, 1>>) => Equal(m, b))
    BY <2>1, <2>4, <2>6 DEF ScoreAgrees
  <2> QED BY <1>3, <1>5, <2>5, <2>7 DEF ScoreCounted, m, b
<1> QED BY <1>4, <1>5

\* There are finitely many groups.
LEMMA KeysFinite ==
  ASSUME rows \in Seq(ResultRows)
  PROVE  IsFiniteSet(Keys)
<1> DEFINE I == {j \in DOMAIN rows : IsComparable(rows[j])}
<1>1. DOMAIN rows = 1 .. Len(rows) /\ Len(rows) \in Nat
  BY LenProperties
<1>2. IsFiniteSet(1 .. Len(rows))
  BY <1>1, FS_Interval
<1>3. IsFiniteSet(I)
  <2>1. I \in SUBSET (1 .. Len(rows))
    BY <1>1
  <2> HIDE DEF I
  <2> QED BY <1>2, <2>1, FS_Subset
<1>4. PICK f : f = [i \in I |-> Key(rows[i])]
  OBVIOUS
<1>5. f \in Surjection(I, Keys)
  BY <1>4 DEF Surjection, Keys
<1> QED BY <1>3, <1>5, FS_Surjection

--------------------------------------------------------------------------------
\* A report of some groups, which are groups of the ranking.
Reported(groups) ==
  /\ groups \subseteq Keys
  /\ \A key \in groups : shown[key] = Scored(key)

RankedIn(groups, p) == {key \in groups : p \in DOMAIN shown[key].score}

\* The groups whose score counts are those with a best mean other than 0.
Counted(groups, p) == {key \in groups : p \in DOMAIN shown[key].score /\ shown[key].score[p][1] # 0}

LEMMA CountedGroups ==
  ASSUME RankingInv, DistinctIds(request.spec), NEW groups, Reported(groups), NEW p
  PROVE  /\ Counted(groups, p) = {key \in RankedIn(groups, p) : ~ Equal(Best(key), Zero)}
         /\ IsFiniteSet(Counted(groups, p))
         /\ \A key \in RankedIn(groups, p) : key \in Keys /\ p \in PlatformsIn(key)
<1>1. ASSUME NEW key \in RankedIn(groups, p)
      PROVE  /\ key \in Keys /\ p \in PlatformsIn(key)
             /\ shown[key].score[p][1] # 0 <=> ~ Equal(Best(key), Zero)
  <2>1. key \in Keys /\ shown[key] = Scored(key) /\ p \in DOMAIN shown[key].score
    BY DEF RankedIn, Reported
  <2>2. p \in PlatformsIn(key)
    BY <2>1 DEF Scored
  <2>3. ScoreCounted(key, p)
    BY <2>1, <2>2, ScoresCounted
  <2> QED BY <2>1, <2>2, <2>3 DEF ScoreCounted
<1>2. Counted(groups, p) = {key \in RankedIn(groups, p) : ~ Equal(Best(key), Zero)}
  <2>1. Counted(groups, p) = {key \in RankedIn(groups, p) : shown[key].score[p][1] # 0}
    BY DEF Counted, RankedIn
  <2> QED BY <1>1, <2>1
<1>3. IsFiniteSet(Counted(groups, p))
  <2>1. rows \in Seq(ResultRows)
    BY RankedRows
  <2>2. Counted(groups, p) \in SUBSET Keys
    BY DEF Counted, Reported
  <2> QED BY <2>1, <2>2, KeysFinite, FS_Subset
<1> QED BY <1>1, <1>2, <1>3

\* The scores of a platform that its geometric mean is the root of.
ScoresOf(groups, p) ==
  [i \in DOMAIN SetToSeq(Counted(groups, p)) |-> shown[SetToSeq(Counted(groups, p))[i]].score[p]]

LEMMA GeomeanOfScores ==
  ASSUME RankingInv, DistinctIds(request.spec), NEW groups, Reported(groups), NEW p
  PROVE  /\ Geomean(groups, p) = <<Product(ScoresOf(groups, p)), Len(ScoresOf(groups, p))>>
         /\ Len(ScoresOf(groups, p)) = Len(SetToSeq(Counted(groups, p)))
         /\ Len(ScoresOf(groups, p)) \in Nat
         /\ \A i \in 1 .. Len(ScoresOf(groups, p)) :
              /\ SetToSeq(Counted(groups, p))[i] \in Counted(groups, p)
              /\ ScoresOf(groups, p)[i] = Scored(SetToSeq(Counted(groups, p))[i]).score[p]
<1>1. PICK of : of = SetToSeq(Counted(groups, p))
  OBVIOUS
<1>2. Len(of) \in Nat /\ DOMAIN of = 1 .. Len(of) /\ \A i \in 1 .. Len(of) : of[i] \in Counted(groups, p)
  BY <1>1, CountedGroups, SetToSeqElements
<1>3. PICK s : s = [i \in 1 .. Len(of) |-> shown[of[i]].score[p]]
  OBVIOUS
<1>4. s = ScoresOf(groups, p)
  BY <1>1, <1>2, <1>3 DEF ScoresOf
<1>5. Len(s) = Len(of) /\ \A i \in 1 .. Len(s) : s[i] = shown[of[i]].score[p]
  BY <1>2, <1>3
<1>6. Geomean(groups, p) = <<Product(s), Len(of)>>
  BY <1>1, <1>2, <1>3 DEF Geomean, Counted
<1>7. \A i \in 1 .. Len(s) : s[i] = Scored(of[i]).score[p]
  <2>1. \A key \in Counted(groups, p) : shown[key] = Scored(key)
    BY DEF Counted, Reported
  <2> QED BY <1>2, <1>5, <2>1
<1> QED BY <1>1, <1>2, <1>4, <1>5, <1>6, <1>7

\* Part of LeadersDeserved: a platform that is nowhere better has no higher mean.
LEMMA NowhereBetter ==
  ASSUME RankingInv, DistinctIds(request.spec), NEW groups, Reported(groups), NEW p, NEW q,
         RankedIn(groups, p) = RankedIn(groups, q),
         \A key \in RankedIn(groups, p) : ~ Better(UnitOf(key), Mean(key, p), Mean(key, q))
  PROVE  ~ GeomeanLess(Geomean(groups, q), Geomean(groups, p))
<1>1. Counted(groups, p) = Counted(groups, q)
  BY CountedGroups
<1>2. PICK of : of = SetToSeq(Counted(groups, p))
  OBVIOUS
<1>3. of = SetToSeq(Counted(groups, q))
  BY <1>1, <1>2
<1>4. PICK s : s = ScoresOf(groups, p)
  OBVIOUS
<1>5. PICK t : t = ScoresOf(groups, q)
  OBVIOUS
<1>6. PICK n \in Nat : n = Len(s) /\ n = Len(t)
  BY <1>2, <1>3, <1>4, <1>5, GeomeanOfScores
<1>7. ASSUME NEW i \in 1 .. n
      PROVE  s[i] \in Fractions /\ t[i] \in Fractions /\ ~ Less(t[i], s[i])
  <2>1. PICK key : key = of[i]
    OBVIOUS
  <2>2. key \in Counted(groups, p) /\ s[i] = Scored(key).score[p]
    <3>1. Len(s) = n /\ i \in 1 .. Len(s)
      BY <1>6
    <3>2. \A k \in 1 .. Len(ScoresOf(groups, p)) :
            /\ SetToSeq(Counted(groups, p))[k] \in Counted(groups, p)
            /\ ScoresOf(groups, p)[k] = Scored(SetToSeq(Counted(groups, p))[k]).score[p]
      BY GeomeanOfScores
    <3>3. \A k \in 1 .. Len(s) : of[k] \in Counted(groups, p) /\ s[k] = Scored(of[k]).score[p]
      BY <3>2, <1>2, <1>4
    <3> QED BY <2>1, <3>1, <3>3
  <2>3. t[i] = Scored(key).score[q]
    <3>1. Len(t) = n /\ i \in 1 .. Len(t)
      BY <1>6
    <3>2. \A k \in 1 .. Len(ScoresOf(groups, q)) :
            ScoresOf(groups, q)[k] = Scored(SetToSeq(Counted(groups, q))[k]).score[q]
      BY GeomeanOfScores
    <3>3. \A k \in 1 .. Len(t) : t[k] = Scored(of[k]).score[q]
      BY <3>2, <1>3, <1>5
    <3> QED BY <2>1, <3>1, <3>3
  <2>4. key \in RankedIn(groups, p) /\ ~ Equal(Best(key), Zero)
    BY <2>2, CountedGroups
  <2>5. key \in Keys /\ p \in PlatformsIn(key) /\ q \in PlatformsIn(key)
    BY <2>4, CountedGroups
  <2>6. s[i] \in Fractions /\ t[i] \in Fractions
    BY <2>2, <2>3, <2>4, <2>5, ScoresCounted DEF ScoreCounted
  <2>7. ~ Equal(Mean(key, p), Zero) /\ ~ Equal(Mean(key, q), Zero)
    BY <2>4, <2>5, ScoresCounted
  <2>8. Mean(key, p) \in Fractions /\ Mean(key, q) \in Fractions /\ Best(key) \in Fractions
    BY <2>5, RankedRows, MeanType, BestIsBest
  <2>9. ~ Better(UnitOf(key), Mean(key, p), Mean(key, q))
    BY <2>4
  <2>10. ~ Less(RelativeScore(UnitOf(key), Mean(key, q), Best(key)), RelativeScore(UnitOf(key), Mean(key, p), Best(key)))
    BY <2>4, <2>7, <2>8, <2>9, ScoresInOrder
  <2>11. /\ Scored(key).score[p] = RelativeScore(UnitOf(key), Mean(key, p), Best(key))
         /\ Scored(key).score[q] = RelativeScore(UnitOf(key), Mean(key, q), Best(key))
    BY <2>5 DEF Scored
  <2> QED BY <2>2, <2>3, <2>6, <2>10, <2>11
<1>8. Product(s) \in Fractions /\ Product(t) \in Fractions /\ ~ Less(Product(t), Product(s))
  BY <1>6, <1>7, ProductKeepsOrder
<1>9. PICK s1 \in Nat, s2 \in Nat : Product(s) = <<s1, s2>>
  BY <1>8 DEF Fractions
<1>10. PICK t1 \in Nat, t2 \in Nat : Product(t) = <<t1, t2>>
  BY <1>8 DEF Fractions
<1>11. s1 * t2 <= t1 * s2
  BY <1>8, <1>9, <1>10, LessIsOrder
<1>12. /\ Power(s1, n) * Power(t2, n) <= Power(t1, n) * Power(s2, n)
       /\ Power(s1, n) \in Nat /\ Power(t2, n) \in Nat /\ Power(t1, n) \in Nat /\ Power(s2, n) \in Nat
  BY <1>11, PowersKeepOrder
<1>13. Geomean(groups, p) = <<<<s1, s2>>, n>> /\ Geomean(groups, q) = <<<<t1, t2>>, n>>
  BY <1>4, <1>5, <1>6, <1>9, <1>10, GeomeanOfScores
<1>14. GeomeanLess(Geomean(groups, q), Geomean(groups, p))
         <=> Power(t1, n) * Power(s2, n) < Power(s1, n) * Power(t2, n)
  BY <1>13 DEF GeomeanLess, Less
<1>15. PICK x \in Nat, y \in Nat : x = Power(s1, n) * Power(t2, n) /\ y = Power(t1, n) * Power(s2, n)
  BY <1>12, ProductPositive
<1> QED BY <1>12, <1>14, <1>15

\* Part of LeadersDeserved: a platform with a geometric mean of 1 is nowhere worse.
LEMMA EverywhereBest ==
  ASSUME RankingInv, DistinctIds(request.spec), NEW groups, Reported(groups), NEW p,
         Equal(Geomean(groups, p)[1], <<1, 1>>), NEW key \in RankedIn(groups, p)
  PROVE  Equal(Best(key), Zero) \/ Equal(Mean(key, p), Best(key))
<1>1. SUFFICES ASSUME ~ Equal(Best(key), Zero) PROVE Equal(Mean(key, p), Best(key))
  OBVIOUS
<1>2. key \in Counted(groups, p) /\ IsFiniteSet(Counted(groups, p))
  BY <1>1, CountedGroups
<1>3. PICK of : of = SetToSeq(Counted(groups, p))
  OBVIOUS
<1>4. PICK s : s = ScoresOf(groups, p)
  OBVIOUS
<1>5. PICK n \in Nat : n = Len(s) /\ n = Len(of)
  BY <1>3, <1>4, GeomeanOfScores
<1>6. PICK j \in 1 .. n : of[j] = key
  BY <1>2, <1>3, <1>5, SetToSeqElements
<1>7. \A i \in 1 .. n : of[i] \in Counted(groups, p) /\ s[i] = Scored(of[i]).score[p]
  BY <1>3, <1>4, <1>5, GeomeanOfScores
<1>8. ASSUME NEW other \in Counted(groups, p)
      PROVE  ScoreCounted(other, p) /\ ~ Equal(Best(other), Zero)
  <2>1. other \in RankedIn(groups, p) /\ ~ Equal(Best(other), Zero)
    BY CountedGroups
  <2>2. other \in Keys /\ p \in PlatformsIn(other)
    BY <2>1, CountedGroups
  <2> QED BY <2>1, <2>2, ScoresCounted
<1>9. \A i \in 1 .. n : s[i] \in Fractions /\ ~ Less(<<1, 1>>, s[i])
  BY <1>7, <1>8 DEF ScoreCounted
<1>10. Equal(Product(s), <<1, 1>>)
  <2>1. Geomean(groups, p)[1] = Product(s)
    BY <1>4, GeomeanOfScores
  <2> QED BY <2>1
<1>11. Equal(s[j], <<1, 1>>)
  BY <1>5, <1>9, <1>10, ProductOfOnes
<1>12. s[j] = Scored(key).score[p]
  BY <1>6, <1>7
<1> QED BY <1>2, <1>8, <1>11, <1>12 DEF ScoreCounted

\* The leaders of a report, and of each category, deserve it.
THEOREM LeadersAreDeserved == CSpec => []LeadersDeserved
<1>1. RankingInv => LeadersDeserved
  <2> SUFFICES ASSUME RankingInv PROVE LeadersDeserved
    OBVIOUS
  <2>1. SUFFICES ASSUME NEW groups \in {DOMAIN shown} \cup {OfCategory(shown[key].category) : key \in DOMAIN shown}
        PROVE LET platforms == UNION {DOMAIN shown[key].score : key \in groups}
                  rankedIn(p) == {key \in groups : p \in DOMAIN shown[key].score}
              IN /\ \A key \in groups : \E p \in platforms : \A q \in platforms : key \in Won(groups, q) <=> q = p
                 /\ DistinctIds(request.spec) =>
                      \A p, q \in platforms :
                        /\ rankedIn(p) = rankedIn(q)
                        /\ \A key \in rankedIn(p) : ~Better(UnitOf(key), Mean(key, p), Mean(key, q))
                        => ~GeomeanLess(Geomean(groups, q), Geomean(groups, p))
                 /\ DistinctIds(request.spec) =>
                      \A p \in platforms :
                        LET g == Geomean(groups, p) IN
                        g[2] > 0 /\ Equal(g[1], <<1, 1>>) =>
                          \A key \in rankedIn(p) : Equal(Best(key), Zero) \/ Equal(Mean(key, p), Best(key))
    BY DEF LeadersDeserved
  <2> DEFINE platforms == UNION {DOMAIN shown[key].score : key \in groups}
  <2>2. groups \subseteq DOMAIN shown
    BY DEF OfCategory
  <2>3. Reported(groups)
    BY <2>2 DEF RankingInv, RankingInStep, Reported
  <2>4. ASSUME NEW key \in groups
        PROVE  \E p \in platforms : \A q \in platforms : key \in Won(groups, q) <=> q = p
    <3>1. key \in Keys /\ shown[key] = Scored(key)
      BY <2>3 DEF Reported
    <3>2. Winner(key) \in PlatformsIn(key)
      BY <3>1, RankedRows, WinnerWins
    <3>3. shown[key].winner = Winner(key) /\ DOMAIN shown[key].score = PlatformsIn(key)
      BY <3>1 DEF Scored
    <3>4. Winner(key) \in platforms
      BY <3>2, <3>3
    <3>5. \A q : key \in Won(groups, q) <=> q = Winner(key)
      BY <3>3 DEF Won
    <3> HIDE DEF platforms
    <3> QED BY <3>4, <3>5
  <2>5. ASSUME DistinctIds(request.spec), NEW p, NEW q,
               RankedIn(groups, p) = RankedIn(groups, q),
               \A key \in RankedIn(groups, p) : ~ Better(UnitOf(key), Mean(key, p), Mean(key, q))
        PROVE  ~ GeomeanLess(Geomean(groups, q), Geomean(groups, p))
    BY <2>3, <2>5, NowhereBetter
  <2>6. ASSUME DistinctIds(request.spec), NEW p, Equal(Geomean(groups, p)[1], <<1, 1>>),
               NEW key \in RankedIn(groups, p)
        PROVE  Equal(Best(key), Zero) \/ Equal(Mean(key, p), Best(key))
    BY <2>3, <2>6, EverywhereBest
  <2> HIDE DEF platforms
  <2> QED BY <2>4, <2>5, <2>6 DEF RankedIn, platforms
<1> QED BY <1>1, RankingInvariance, PTL

================================================================================
