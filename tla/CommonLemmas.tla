---------------------------- MODULE CommonLemmas ----------------------------
(***************************************************************************)
(* Facts about sequences, finite sets, least elements and recursion that    *)
(* the proofs of several components use.                                   *)
(***************************************************************************)
EXTENDS Naturals, SequencesExt, FiniteSetTheorems, SequenceTheorems, TLAPS

----------------------------------------------------------------------------
(* Sequences without duplicates: channels, queues, the order of use *)

\* Receiving from a channel without repetitions takes one element away.
LEMMA TakeHead ==
  ASSUME NEW S, NEW q \in Seq(S), q # << >>, IsInjective(q)
  PROVE  /\ Head(q) \in Range(q)
         /\ Head(q) \in S
         /\ Tail(q) \in Seq(S)
         /\ Len(Tail(q)) = Len(q) - 1
         /\ Range(Tail(q)) = Range(q) \ {Head(q)}
         /\ IsInjective(Tail(q))
<1>1. /\ Len(q) \in Nat \ {0}
      /\ DOMAIN q = 1 .. Len(q)
      /\ Head(q) = q[1]
  BY EmptySeq, LenProperties
<1>2. /\ Tail(q) \in Seq(S)
      /\ Len(Tail(q)) = Len(q) - 1
      /\ DOMAIN Tail(q) = 1 .. (Len(q) - 1)
      /\ \A i \in 1 .. (Len(q) - 1) : Tail(q)[i] = q[i + 1]
  BY <1>1
<1>3. IsInjective(Tail(q))
  BY <1>1, <1>2 DEF IsInjective
<1>4. Range(Tail(q)) = Range(q) \ {Head(q)}
  <2>1. ASSUME NEW x \in Range(Tail(q)) PROVE x \in Range(q) \ {Head(q)}
    <3>1. PICK i \in 1 .. (Len(q) - 1) : x = q[i + 1]
      BY <1>2, <2>1 DEF Range
    <3>2. i + 1 \in 1 .. Len(q) /\ i + 1 # 1
      BY <1>1
    <3>3. QED BY <1>1, <3>1, <3>2 DEF Range, IsInjective
  <2>2. ASSUME NEW x \in Range(q) \ {Head(q)} PROVE x \in Range(Tail(q))
    <3>1. PICK i \in 1 .. Len(q) : x = q[i]
      BY <1>1, <2>2 DEF Range
    <3>2. i - 1 \in 1 .. (Len(q) - 1) /\ Tail(q)[i - 1] = x
      BY <1>1, <1>2, <2>2, <3>1
    <3>3. QED BY <1>2, <3>2 DEF Range
  <2>3. QED BY <2>1, <2>2
<1>5. Head(q) \in Range(q)
  BY <1>1 DEF Range
<1>6. Head(q) \in S
  BY HeadTailProperties
<1>7. QED BY <1>2, <1>3, <1>4, <1>5, <1>6

\* Sending a new element adds it, and the channel stays without repetitions.
LEMMA PutLast ==
  ASSUME NEW S, NEW q \in Seq(S), NEW x \in S, x \notin Range(q), IsInjective(q)
  PROVE  /\ Append(q, x) \in Seq(S)
         /\ Len(Append(q, x)) = Len(q) + 1
         /\ Range(Append(q, x)) = Range(q) \cup {x}
         /\ IsInjective(Append(q, x))
<1>1. /\ Append(q, x) \in Seq(S)
      /\ Len(q) \in Nat
      /\ Len(Append(q, x)) = Len(q) + 1
      /\ DOMAIN q = 1 .. Len(q)
      /\ DOMAIN Append(q, x) = 1 .. (Len(q) + 1)
      /\ \A i \in 1 .. Len(q) : Append(q, x)[i] = q[i]
      /\ Append(q, x)[Len(q) + 1] = x
  BY LenProperties, AppendProperties
<1>2. Range(Append(q, x)) = Range(q) \cup {x}
  BY <1>1 DEF Range
<1>3. IsInjective(Append(q, x))
  BY <1>1 DEF IsInjective, Range
<1>4. QED BY <1>1, <1>2, <1>3

\* So does taking an element from the middle.
LEMMA DropAt ==
  ASSUME NEW S, NEW q \in Seq(S), IsInjective(q), NEW p \in 1 .. Len(q)
  PROVE  /\ RemoveAt(q, p) \in Seq(S)
         /\ Len(RemoveAt(q, p)) = Len(q) - 1
         /\ Range(RemoveAt(q, p)) = Range(q) \ {q[p]}
         /\ IsInjective(RemoveAt(q, p))
<1>0. PICK n \in Nat : n = Len(q)
  BY LenProperties
<1> DEFINE a == SubSeq(q, 1, p - 1)
           b == SubSeq(q, p + 1, n)
           r == RemoveAt(q, p)
<1>1. /\ n \in Nat
      /\ p \in 1 .. n
      /\ DOMAIN q = 1 .. n
      /\ \A i \in 1 .. n : q[i] \in S
  BY <1>0, LenProperties, ElementOfSeq
<1>2. /\ a \in Seq(S)
      /\ Len(a) = p - 1
      /\ \A i \in 1 .. (p - 1) : a[i] = q[i]
  BY <1>1, SubSeqProperties
<1>3. /\ b \in Seq(S)
      /\ Len(b) = n - p
      /\ \A i \in 1 .. (n - p) : b[i] = q[p + i]
  <2>1. \A i \in (p + 1) .. n : q[i] \in S
    BY <1>1
  <2>2. /\ b \in Seq(S)
        /\ Len(b) = IF p + 1 <= n THEN n - (p + 1) + 1 ELSE 0
        /\ \A i \in 1 .. (n - (p + 1) + 1) : b[i] = q[(p + 1) + i - 1]
    BY <1>1, <2>1, SubSeqProperties
  <2>3. /\ n - (p + 1) + 1 = n - p
        /\ (p + 1 <= n) \/ (n - p = 0)
    BY <1>1
  <2>4. ASSUME NEW i \in 1 .. (n - p) PROVE b[i] = q[p + i]
    <3>1. (p + 1) + i - 1 = p + i /\ i \in 1 .. (n - (p + 1) + 1)
      BY <1>1, <2>3
    <3>2. b[i] = q[(p + 1) + i - 1]
      BY <2>2, <3>1
    <3>3. QED BY <3>1, <3>2
  <2>5. Len(b) = n - p
    BY <1>1, <2>2, <2>3
  <2>6. QED BY <2>2, <2>4, <2>5
<1> HIDE DEF a, b
<1>4. /\ r \in Seq(S)
      /\ Len(r) = n - 1
      /\ \A i \in 1 .. (n - 1) : r[i] = IF i < p THEN q[i] ELSE q[i + 1]
  <2>1. r = a \o b
    BY <1>0 DEF RemoveAt, a, b
  <2>2. /\ r \in Seq(S)
        /\ Len(r) = Len(a) + Len(b)
        /\ \A i \in 1 .. (Len(a) + Len(b)) :
             r[i] = IF i <= Len(a) THEN a[i] ELSE b[i - Len(a)]
    <3>1. a \in Seq(S) /\ b \in Seq(S)
      BY <1>2, <1>3
    <3> HIDE DEF r
    <3>2. QED BY <2>1, <3>1, ConcatProperties
  <2>3. ASSUME NEW i \in 1 .. (n - 1)
        PROVE  r[i] = IF i < p THEN q[i] ELSE q[i + 1]
    <3>1. i \in 1 .. (Len(a) + Len(b))
      BY <1>1, <1>2, <1>3
    <3>2. CASE i < p
      <4>1. i \in 1 .. (p - 1) /\ i <= Len(a)
        BY <1>1, <1>2, <3>2
      <4>2. QED BY <1>2, <2>2, <3>1, <3>2, <4>1
    <3>3. CASE ~(i < p)
      <4>1. /\ ~(i <= Len(a))
            /\ i - Len(a) \in 1 .. (n - p)
            /\ p + (i - Len(a)) = i + 1
        BY <1>1, <1>2, <3>3
      <4>2. r[i] = b[i - Len(a)]
        BY <2>2, <3>1, <4>1
      <4>3. b[i - Len(a)] = q[p + (i - Len(a))]
        BY <1>3, <4>1
      <4>4. QED BY <3>3, <4>1, <4>2, <4>3
    <3>4. QED BY <3>2, <3>3
  <2>4. Len(r) = n - 1
    BY <1>1, <1>2, <1>3, <2>2
  <2>5. QED BY <2>2, <2>3, <2>4
<1> HIDE DEF r
<1>5. DOMAIN r = 1 .. (n - 1)
  BY <1>4, LenProperties
<1>6. IsInjective(r)
  <2>1. ASSUME NEW i \in 1 .. (n - 1), NEW j \in 1 .. (n - 1), r[i] = r[j]
        PROVE  i = j
    <3>1. /\ i \in 1 .. n /\ i + 1 \in 1 .. n
          /\ j \in 1 .. n /\ j + 1 \in 1 .. n
      BY <1>1
    <3>2. \A k, l \in 1 .. n : q[k] = q[l] => k = l
      BY <1>1 DEF IsInjective
    <3>3. (IF i < p THEN i ELSE i + 1) = (IF j < p THEN j ELSE j + 1)
      BY <1>4, <2>1, <3>1, <3>2
    <3>4. QED BY <1>1, <3>3
  <2>2. QED BY <1>5, <2>1 DEF IsInjective
<1>7. Range(r) = Range(q) \ {q[p]}
  <2>1. ASSUME NEW x \in Range(r) PROVE x \in Range(q) \ {q[p]}
    <3>1. PICK i \in 1 .. (n - 1) : x = r[i]
      BY <1>5, <2>1 DEF Range
    <3>2. PICK k \in 1 .. n : k # p /\ x = q[k]
      BY <1>1, <1>4, <3>1
    <3>3. QED BY <1>1, <3>2 DEF Range, IsInjective
  <2>2. ASSUME NEW x \in Range(q) \ {q[p]} PROVE x \in Range(r)
    <3>1. PICK k \in 1 .. n : k # p /\ x = q[k]
      BY <1>1, <2>2 DEF Range
    <3>2. CASE k < p
      <4>1. k \in 1 .. (n - 1) /\ r[k] = x
        BY <1>1, <1>4, <3>1, <3>2
      <4>2. QED BY <1>5, <4>1 DEF Range
    <3>3. CASE k > p
      <4>1. k - 1 \in 1 .. (n - 1) /\ r[k - 1] = x
        BY <1>1, <1>4, <3>1, <3>3
      <4>2. QED BY <1>5, <4>1 DEF Range
    <3>4. QED BY <1>1, <3>1, <3>2, <3>3
  <2>3. QED BY <2>1, <2>2
<1>8. QED BY <1>0, <1>4, <1>6, <1>7 DEF r

\* The empty channel holds nothing.
LEMMA EmptyChannel ==
  ASSUME NEW S
  PROVE  << >> \in Seq(S) /\ Range(<< >>) = {} /\ IsInjective(<< >>)
BY DEF Range, IsInjective

\* Appending to the second part of a sequence appends to the whole.
LEMMA ConcatAppend ==
  ASSUME NEW S, NEW s \in Seq(S), NEW t \in Seq(S), NEW e \in S
  PROVE  s \o Append(t, e) = Append(s \o t, e)
<1>1. Append(t, e) = t \o <<e>> /\ <<e>> \in Seq(S)
  BY AppendIsConcat
<1>2. s \o t \in Seq(S)
  BY ConcatProperties
<1>3. Append(s \o t, e) = (s \o t) \o <<e>>
  BY <1>2, AppendIsConcat
<1>4. (s \o t) \o <<e>> = s \o (t \o <<e>>)
  BY <1>1, ConcatAssociative
<1>5. QED BY <1>1, <1>3, <1>4

----------------------------------------------------------------------------
(* Counting *)

\* n units with one tag are n.
LEMMA ChunkSize ==
  ASSUME NEW s, NEW n \in Nat
  PROVE  IsFiniteSet({s} \X (1 .. n)) /\ Cardinality({s} \X (1 .. n)) = n
<1>1. IsFiniteSet(1 .. n) /\ Cardinality(1 .. n) = n
  BY FS_Interval
<1>2. IsFiniteSet({s}) /\ Cardinality({s}) = 1
  BY FS_Singleton
<1>3. QED BY <1>1, <1>2, FS_Product

\* Taking a part of a finite set away takes its size away.
LEMMA RemoveChunk ==
  ASSUME NEW A, NEW C, IsFiniteSet(A), C \subseteq A
  PROVE  /\ IsFiniteSet(A \ C)
         /\ Cardinality(A) \in Nat
         /\ Cardinality(C) \in Nat
         /\ Cardinality(C) <= Cardinality(A)
         /\ Cardinality(A \ C) = Cardinality(A) - Cardinality(C)
<1>1. IsFiniteSet(A \ C) /\ Cardinality(A \ C) = Cardinality(A) - Cardinality(A \cap C)
  BY FS_Difference
<1>2. A \cap C = C
  OBVIOUS
<1>3. IsFiniteSet(C) /\ Cardinality(C) <= Cardinality(A)
  BY FS_Subset
<1>4. Cardinality(A) \in Nat /\ Cardinality(C) \in Nat
  BY <1>3, FS_CardinalityType
<1>5. QED BY <1>1, <1>2, <1>3, <1>4

\* Adding a disjoint finite set adds its size.
LEMMA AddChunk ==
  ASSUME NEW A, NEW C, IsFiniteSet(A), IsFiniteSet(C), A \cap C = {}
  PROVE  /\ IsFiniteSet(A \cup C)
         /\ Cardinality(A \cup C) = Cardinality(A) + Cardinality(C)
<1>1. /\ IsFiniteSet(A \cup C)
      /\ Cardinality(A \cup C) = Cardinality(A) + Cardinality(C) - Cardinality(A \cap C)
  BY FS_Union
<1>2. Cardinality(A \cap C) = 0
  BY FS_EmptySet
<1>3. Cardinality(A) \in Nat /\ Cardinality(C) \in Nat
  BY FS_CardinalityType
<1>4. QED BY <1>1, <1>2, <1>3

----------------------------------------------------------------------------
(* Least elements *)

\* A nonempty set of naturals, finite or not, has a least element, and Min
\* chooses it: the initial segments below its elements are finite sets, and
\* inclusion is well-founded on those.
LEMMA MinOfNaturals ==
  ASSUME NEW S \in SUBSET Nat, S # {}
  PROVE  /\ Min(S) \in S
         /\ \A y \in S : Min(S) <= y
<1> DEFINE Below(x) == 0 .. x - 1
           D == {Below(x) : x \in S}
           R == StrictSubsetOrdering(Nat)
<1>1. D # {} /\ D \subseteq FiniteSubsetsOf(Nat)
  <2>1. ASSUME NEW x \in S PROVE Below(x) \in FiniteSubsetsOf(Nat)
    <3>1. x - 1 \in Int
      OBVIOUS
    <3>2. IsFiniteSet(Below(x))
      BY <3>1, FS_Interval
    <3>3. Below(x) \subseteq Nat
      OBVIOUS
    <3>4. QED BY <3>2, <3>3 DEF FiniteSubsetsOf
  <2>2. QED BY <2>1
<1>2. PICK d \in D : \A e \in D : ~(<<e, d>> \in R)
  <2> HIDE DEF D
  <2>1. QED BY <1>1, FS_StrictSubsetOrderingWellFounded, WFMin
<1>3. PICK x \in S : d = Below(x)
  BY <1>2
<1>4. ASSUME NEW y \in S PROVE x <= y
  <2>1. SUFFICES ASSUME y < x PROVE FALSE
    OBVIOUS
  <2>2. Below(y) \subseteq Below(x) /\ Below(y) # Below(x)
    <3>1. y \in Below(x) /\ y \notin Below(y)
      BY <2>1
    <3>2. QED BY <2>1, <3>1
  <2>3. <<Below(y), d>> \in R
    BY <1>3, <2>2 DEF StrictSubsetOrdering
  <2>4. QED BY <1>2, <2>3
<1>5. QED BY <1>4 DEF Min

\* A set of naturals with a bound has a greatest element.
LEMMA MaxOfNaturals ==
  ASSUME NEW S \in SUBSET Nat, S # {}, NEW n \in Nat, \A y \in S : y <= n
  PROVE  \E m \in S : \A y \in S : y <= m
<1> DEFINE T == {k \in Nat : n - k \in S}
<1>1. PICK x \in S : TRUE
  OBVIOUS
<1>2. n - x \in T
  BY <1>1
<1>3. T # {} /\ T \in SUBSET Nat
  BY <1>2
<1>4. Min(T) \in T /\ \A y \in T : Min(T) <= y
  BY <1>3, MinOfNaturals
<1>5. ASSUME NEW y \in S PROVE n - y \in T
  BY <1>5
<1>6. PICK k \in Nat : k = Min(T)
  BY <1>4
<1> HIDE DEF T
<1>7. n - k \in S
  BY <1>4, <1>6 DEF T
<1>8. \A y \in S : y <= n - k
  BY <1>4, <1>5, <1>6
<1>9. QED BY <1>7, <1>8

----------------------------------------------------------------------------
(* Folding *)

\* What satisfies the recursion of FlattenSeq is what it computes.
LEMMA FlattenIs ==
  ASSUME NEW s, NEW n \in Nat \ {0}, Len(s) = n,
         NEW F, \A i \in 1 .. n : F[i] = IF i = 1 THEN s[i] ELSE F[i - 1] \o s[i]
  PROVE  FlattenSeq(s) = F[n]
<1> DEFINE G == CHOOSE f : f = [i \in 1 .. Len(s) |->
                                  IF i = 1 THEN s[i] ELSE f[i - 1] \o s[i]]
<1>1. FlattenSeq(s) = G[n]
  BY DEF FlattenSeq
<1>2. G = [i \in 1 .. n |-> IF i = 1 THEN s[i] ELSE G[i - 1] \o s[i]]
  <2> DEFINE H == [i \in 1 .. n |-> F[i]]
  <2>1. ASSUME NEW i \in 1 .. n
        PROVE  H[i] = IF i = 1 THEN s[i] ELSE H[i - 1] \o s[i]
    <3>1. i # 1 => i - 1 \in 1 .. n
      OBVIOUS
    <3>2. QED BY <3>1
  <2>2. H = [i \in 1 .. n |-> H[i]]
    OBVIOUS
  <2> HIDE DEF H
  <2>3. H = [i \in 1 .. n |-> IF i = 1 THEN s[i] ELSE H[i - 1] \o s[i]]
    BY <2>1, <2>2
  <2>4. QED BY <2>3, Zenon
<1> HIDE DEF G
<1> DEFINE bad == {i \in 1 .. n : G[i] # F[i]}
<1>3. bad = {}
  <2>1. SUFFICES ASSUME bad # {} PROVE FALSE
    OBVIOUS
  <2>2. bad \in SUBSET Nat
    OBVIOUS
  <2> DEFINE m == Min(bad)
  <2>3. m \in bad /\ \A i \in bad : m <= i
    BY <2>1, <2>2, MinOfNaturals
  <2> HIDE DEF m
  <2>4. m \in 1 .. n /\ G[m] # F[m]
    BY <2>3
  <2>5. CASE m = 1
    BY <1>2, <2>4, <2>5
  <2>6. CASE m # 1
    <3>1. m - 1 \in 1 .. n /\ ~(m <= m - 1)
      BY <2>4, <2>6
    <3>2. m - 1 \notin bad
      BY <2>3, <3>1
    <3>3. G[m - 1] = F[m - 1]
      BY <3>1, <3>2
    <3>4. G[m] = G[m - 1] \o s[m] /\ F[m] = F[m - 1] \o s[m]
      BY <1>2, <2>4, <2>6
    <3>5. QED BY <2>4, <3>3, <3>4
  <2>7. QED BY <2>5, <2>6
<1>4. n \in 1 .. n
  OBVIOUS
<1>5. QED BY <1>1, <1>3, <1>4

----------------------------------------------------------------------------
(* Recursion *)

\* f is a, then g[1] of that, then g[2] of that, and so on up to n.
Iterates(f, S, a, g, n) ==
  /\ f \in [0 .. n -> S]
  /\ \A k \in 0 .. n : f[k] = IF k = 0 THEN a ELSE g[k][f[k - 1]]

\* A function on 0 .. n can be defined by recursion.
LEMMA Iterated ==
  ASSUME NEW S, NEW a \in S, NEW g \in [Nat -> [S -> S]], NEW n \in Nat
  PROVE  \E f : Iterates(f, S, a, g, n)
<1> USE DEF Iterates
<1> DEFINE Goes(m) == \E f : Iterates(f, S, a, g, m)
           bad == {m \in Nat : ~Goes(m)}
<1>1. SUFFICES ASSUME bad # {} PROVE FALSE
  OBVIOUS
<1>2. bad \in SUBSET Nat
  OBVIOUS
<1>3. PICK m \in bad : \A y \in bad : m <= y
  <2> HIDE DEF bad
  <2>1. QED BY <1>1, <1>2, MinOfNaturals
<1>4. m \in Nat /\ ~Goes(m)
  OBVIOUS
<1>5. CASE m = 0
  <2> DEFINE f == [k \in 0 .. 0 |-> a]
  <2>1. f \in [0 .. 0 -> S] /\ \A k \in 0 .. 0 : f[k] = IF k = 0 THEN a ELSE g[k][f[k - 1]]
    OBVIOUS
  <2> HIDE DEF f
  <2>2. QED BY <1>4, <1>5, <2>1
<1>6. CASE m # 0
  <2>1. m - 1 \in Nat /\ ~(m <= m - 1)
    BY <1>4, <1>6
  <2>2. Goes(m - 1)
    BY <1>3, <2>1
  <2>3. PICK f \in [0 .. m - 1 -> S] :
          \A k \in 0 .. m - 1 : f[k] = IF k = 0 THEN a ELSE g[k][f[k - 1]]
    BY <2>2
  <2> DEFINE h == [k \in 0 .. m |-> IF k = m THEN g[m][f[m - 1]] ELSE f[k]]
  <2>4. \A k \in 0 .. m : k # m => k \in 0 .. m - 1
    BY <1>4
  <2>5. m - 1 \in 0 .. m - 1 /\ f[m - 1] \in S
    BY <1>4, <2>1, <2>3
  <2>6. \A k \in 0 .. m : h[k] \in S
    BY <2>3, <2>4, <2>5
  <2>7. h \in [0 .. m -> S]
    BY <2>6
  <2>8. ASSUME NEW k \in 0 .. m PROVE h[k] = IF k = 0 THEN a ELSE g[k][h[k - 1]]
    <3>1. CASE k = m
      <4>1. m - 1 \in 0 .. m /\ m - 1 # m /\ m \in 0 .. m
        BY <1>4, <1>6
      <4>2. QED BY <1>6, <3>1, <4>1
    <3>2. CASE k # m
      <4>1. k # 0 => k - 1 \in 0 .. m /\ k - 1 # m
        BY <1>4, <3>2
      <4>2. f[k] = IF k = 0 THEN a ELSE g[k][f[k - 1]]
        BY <2>3, <2>4, <3>2
      <4>3. QED BY <3>2, <4>1, <4>2
    <3>3. QED BY <3>1, <3>2
  <2> HIDE DEF h
  <2>9. QED BY <1>4, <2>7, <2>8
<1>7. QED BY <1>5, <1>6
----------------------------------------------------------------------------
(* Sets as sequences *)

\* SetToSeq lists every element.
LEMMA SetToSeqLists ==
  ASSUME NEW S, IsFiniteSet(S)
  PROVE  /\ Cardinality(S) \in Nat
         /\ SetToSeq(S) \in [1 .. Cardinality(S) -> S]
         /\ \A x \in S : \E i \in 1 .. Cardinality(S) : SetToSeq(S)[i] = x
<1> DEFINE n == Cardinality(S)
<1>1. n \in Nat /\ ExistsBijection(1 .. n, S)
  BY FS_CardinalityType
<1>2. PICK b : b \in Bijection(1 .. n, S)
  BY <1>1 DEF ExistsBijection
<1>3. b \in [1 .. n -> S] /\ IsInjective(b)
  BY <1>2 DEF Bijection, Injection, IsInjective
<1> DEFINE q == SetToSeq(S)
<1>4. q \in [1 .. n -> S] /\ IsInjective(q)
  BY <1>3 DEF SetToSeq
<1>5. q \in Injection(1 .. n, S)
  <2> HIDE DEF q, n
  <2>1. QED BY <1>4 DEF Injection, IsInjective
<1>6. Cardinality(1 .. n) = n
  <2> HIDE DEF n
  <2>1. QED BY <1>1, FS_Interval
<1>7. q \in Surjection(1 .. n, S)
  BY <1>5, <1>6, FS_Injection
<1>8. \A x \in S : \E i \in 1 .. n : q[i] = x
  <2> HIDE DEF q, n
  <2>1. QED BY <1>7 DEF Surjection
<1>9. QED BY <1>1, <1>4, <1>8

\* q lists S in ascending order.
IsAscending(q, S) ==
  /\ q \in [1 .. Cardinality(S) -> S]
  /\ \A i, j \in DOMAIN q : i < j => q[i] < q[j]

\* A set of numbers up to n is finite and can be listed in ascending order.
LEMMA AscendingExists ==
  ASSUME NEW n \in Nat, NEW S \in SUBSET (1 .. n)
  PROVE  IsFiniteSet(S) /\ Cardinality(S) \in Nat /\ \E q : IsAscending(q, S)
<1> DEFINE Has(m) == \A T \in SUBSET (1 .. m) : \E q : IsAscending(q, T)
           bad == {m \in Nat : ~Has(m)}
<1>1. ASSUME NEW m \in Nat, NEW T \in SUBSET (1 .. m)
      PROVE  IsFiniteSet(T) /\ Cardinality(T) \in Nat
  <2>1. IsFiniteSet(1 .. m)
    BY FS_Interval
  <2>2. IsFiniteSet(T)
    BY <2>1, FS_Subset
  <2>3. QED BY <2>2, FS_CardinalityType
<1>2. SUFFICES ASSUME bad # {} PROVE FALSE
  BY <1>1
<1>3. bad \in SUBSET Nat
  OBVIOUS
<1>4. PICK m \in bad : \A y \in bad : m <= y
  <2> HIDE DEF bad
  <2>1. QED BY <1>2, <1>3, MinOfNaturals
<1>5. m \in Nat /\ ~Has(m)
  OBVIOUS
<1>6. PICK T \in SUBSET (1 .. m) : ~\E q : IsAscending(q, T)
  BY <1>5
<1>7. CASE T = {}
  <2>1. Cardinality(T) = 0
    BY <1>7, FS_EmptySet
  <2>2. IsAscending(<< >>, T)
    BY <1>7, <2>1 DEF IsAscending
  <2>3. QED BY <1>6, <2>2
<1>8. CASE T # {}
  <2>0. m \in Nat
    BY <1>5
  <2>1. m - 1 \in Nat /\ ~(m <= m - 1) /\ m # 0
    <3>1. PICK x \in T : TRUE
      BY <1>8
    <3>2. x \in 1 .. m
      OBVIOUS
    <3> HIDE DEF bad
    <3>3. QED BY <2>0, <3>2
  <2>2. Has(m - 1)
    BY <1>4, <2>1
  <2>3. CASE m \notin T
    <3>1. T \in SUBSET (1 .. m - 1)
      BY <1>5, <1>6, <2>3
    <3>2. QED BY <1>6, <2>2, <3>1
  <2>4. CASE m \in T
    <3> DEFINE U == T \ {m}
    <3>1. U \in SUBSET (1 .. m - 1) /\ T = U \cup {m} /\ m \notin U
      BY <1>5, <1>6, <2>4
    <3>2. PICK q : IsAscending(q, U)
      BY <2>2, <3>1
    <3> DEFINE k == Cardinality(U)
    <3>3. IsFiniteSet(U) /\ k \in Nat
      BY <1>1, <2>1, <3>1
    <3>4. Cardinality(T) = k + 1
      <4> HIDE DEF U
      <4>1. QED BY <3>1, <3>3, FS_AddElement
    <3> DEFINE f == [i \in 1 .. k + 1 |-> IF i = k + 1 THEN m ELSE q[i]]
    <3>5. q \in [1 .. k -> U] /\ \A i, j \in 1 .. k : i < j => q[i] < q[j]
      BY <3>2 DEF IsAscending
    <3>6. \A i \in 1 .. k + 1 : i # k + 1 => i \in 1 .. k
      <4> HIDE DEF k
      <4>1. QED BY <3>3
    <3>7. f \in [1 .. k + 1 -> T]
      <4> HIDE DEF k, U
      <4>1. QED BY <2>4, <3>1, <3>5, <3>6
    <3>8. ASSUME NEW i \in 1 .. k + 1, NEW j \in 1 .. k + 1, i < j PROVE f[i] < f[j]
      <4>1. i \in 1 .. k
        <5> HIDE DEF k
        <5>1. QED BY <3>3, <3>8
      <4>2. q[i] \in 1 .. m - 1 /\ q[i] < m
        <5> HIDE DEF U, k
        <5>1. q[i] \in U
          BY <3>5, <4>1
        <5>2. q[i] \in 1 .. m - 1
          BY <3>1, <5>1
        <5>3. QED BY <2>0, <5>2
      <4>3. CASE j = k + 1
        <5> HIDE DEF U, k
        <5>1. i # k + 1
          BY <3>3, <4>1
        <5>2. QED BY <4>2, <4>3, <5>1
      <4>4. CASE j # k + 1
        <5> HIDE DEF U, k
        <5>1. j \in 1 .. k /\ i # k + 1
          BY <3>3, <3>6, <4>1, <4>4
        <5>2. QED BY <3>5, <3>8, <4>1, <4>4, <5>1
      <4>5. QED BY <4>3, <4>4
    <3>9. IsAscending(f, T)
      <4> DEFINE h == f
      <4>1. h \in [1 .. k + 1 -> T] /\ \A i, j \in 1 .. k + 1 : i < j => h[i] < h[j]
        BY <3>7, <3>8
      <4>2. IsAscending(h, T)
        <5> HIDE DEF h, k, U
        <5>1. DOMAIN h = 1 .. k + 1
          BY <4>1
        <5>2. QED BY <3>4, <4>1, <5>1 DEF IsAscending
      <4>3. QED BY <4>2
    <3>10. QED BY <1>6, <3>9
  <2>5. QED BY <2>3, <2>4
<1>9. QED BY <1>7, <1>8

\* An ascending sequence lists every element, and none twice.
LEMMA AscendingLists ==
  ASSUME NEW n \in Nat, NEW S \in SUBSET (1 .. n), NEW q, IsAscending(q, S)
  PROVE  q \in Seq(S) /\ IsInjective(q) /\ Range(q) = S
<1>1. IsFiniteSet(S) /\ Cardinality(S) \in Nat
  BY AscendingExists
<1> DEFINE k == Cardinality(S)
<1>2. q \in [1 .. k -> S] /\ DOMAIN q = 1 .. k
  BY DEF IsAscending
<1>3. \A i, j \in 1 .. k : q[i] = q[j] => i = j
  <2> HIDE DEF k
  <2>1. \A i \in 1 .. k : q[i] \in Nat
    <3>1. S \subseteq Nat
      OBVIOUS
    <3>2. QED BY <1>2, <3>1
  <2>2. \A i, j \in 1 .. k : i < j => q[i] < q[j]
    BY <1>2 DEF IsAscending
  <2>3. \A i, j \in 1 .. k : i < j \/ j < i \/ i = j
    BY <1>1
  <2>4. QED BY <2>1, <2>2, <2>3
<1>4. IsInjective(q)
  BY <1>2, <1>3 DEF IsInjective
<1>5. q \in Injection(1 .. k, S)
  <2> HIDE DEF k
  <2>1. QED BY <1>2, <1>3 DEF Injection, IsInjective
<1>6. Cardinality(1 .. k) = k
  <2> HIDE DEF k
  <2>1. QED BY <1>1, FS_Interval DEF k
<1>7. q \in Surjection(1 .. k, S)
  BY <1>1, <1>5, <1>6, FS_Injection
<1>8. Range(q) = S
  <2> HIDE DEF k
  <2>1. QED BY <1>2, <1>7 DEF Surjection, Range
<1>9. q \in Seq(S)
  <2> HIDE DEF k
  <2>1. QED BY <1>1, <1>2 DEF k
<1>10. QED BY <1>4, <1>8, <1>9
=============================================================================
