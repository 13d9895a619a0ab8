---------------------------- MODULE ReaderProofs ----------------------------
(***************************************************************************)
(* Proofs about what a reader relies on, for archives of any size.           *)
(*                                                                         *)
(* Directories: what check_dirent_order says is true, and once it has passed *)
(* the lookups answer exactly (LookupInv).  Title listings: the same, of     *)
(* valid_title_listing and the title searches (TitleInv).  Files: the        *)
(* extents of clusters never overlap, and in a file of this writer, whole or *)
(* cut, they are what was written (LayoutInv).  Clusters: what parses has    *)
(* all of its blobs, and what was encoded reads back (BodyInv).  Their cache *)
(* accounts for its bytes exactly, stays within its budget between critical  *)
(* sections, and its counters add up, for any number of threads, lengths and *)
(* budgets (CacheInv).                                                       *)
(***************************************************************************)
EXTENDS Reader, CommonLemmas

----------------------------------------------------------------------------
(* Directories *)

Sorted(m) == \A i, j \in 0 .. m - 1 : i < j => ~Before(dir[j], dir[i])

\* What is left of the window is below what is looked for, what is right of
\* it is not.
FindWindow ==
    op = "find" =>
      /\ \A i \in Index : i < lo => Before(dir[i], key)
      /\ \A i \in Index : hi <= i => Before(key, dir[i])

NsWindow ==
    op \in {"lower", "upper"} =>
      /\ \A i \in Index : i < lo => dir[i].ns < Searched
      /\ \A i \in Index : hi <= i => dir[i].ns >= Searched

LowerBound ==
    op = "upper" =>
      /\ \A i \in Index : i < first => dir[i].ns < key.ns
      /\ \A i \in Index : first <= i => dir[i].ns >= key.ns

PrefixWindow ==
    op = "prefix" =>
      /\ \A i \in Index : i < lo => Before(dir[i], key)
      /\ \A i \in Index : hi <= i => ~Before(dir[i], key)

Walked ==
    op = "walk" =>
      /\ first <= past
      /\ \A i \in Index : i < first => Before(dir[i], key)
      /\ \A i \in Index : first <= i => ~Before(dir[i], key)
      /\ \A i \in Index : first <= i /\ i < past => StartsWith(dir[i], key)

Windows == Sorted(N) /\ FindWindow /\ NsWindow /\ LowerBound /\ PrefixWindow /\ Walked

\* The inductive invariant.  Comparing neighbours sorts the part of the
\* directory already read, because the order is transitive; a sorted
\* directory keeps every search window honest, and a window that closes
\* gives an exact answer.
LookupInv ==
    /\ TypeOK
    /\ op # "idle" => answer = "none"
    /\ op = "order" => hi = N
    /\ op = "order" => Sorted(lo)
    /\ checked = "sorted" => Windows
    /\ VerdictExact
    /\ LookupExact
    /\ RangeExact
    /\ PrefixExact

----------------------------------------------------------------------------
(* The order of keys *)

\* The order of keys: not-after is transitive.
LEMMA Transitive ==
  ASSUME NEW a \in Key, NEW b \in Key, NEW c \in Key,
         ~Before(b, a), ~Before(c, b)
  PROVE  ~Before(c, a)
BY CountAssumption DEF Key, Before

\* What is not after an entry below the key is below the key.
LEMMA BelowBefore ==
  ASSUME NEW a \in Key, NEW b \in Key, NEW k \in Key,
         Before(a, k), ~Before(a, b)
  PROVE  Before(b, k)
BY CountAssumption DEF Key, Before

\* What is not before an entry above the key is above the key.
LEMMA AboveAfter ==
  ASSUME NEW a \in Key, NEW b \in Key, NEW k \in Key,
         Before(k, a), ~Before(b, a)
  PROVE  Before(k, b)
BY CountAssumption DEF Key, Before

\* Before is strict.
LEMMA Antisymmetric ==
  ASSUME NEW a \in Key, NEW b \in Key, Before(a, b)
  PROVE  ~Before(b, a) /\ a # b
BY CountAssumption DEF Key, Before

\* Past the first entry that does not start with the prefix none does.
LEMMA PrefixPast ==
  ASSUME NEW a \in Key, NEW b \in Key, NEW k \in Key,
         ~Before(a, k), ~StartsWith(a, k), ~Before(b, a)
  PROVE  ~StartsWith(b, k)
BY CountAssumption, PrefixAssumption DEF Key, Before, StartsWith

\* What starts with the prefix is not below it.
LEMMA PrefixNotBelow ==
  ASSUME NEW a \in Key, NEW k \in Key, Before(a, k)
  PROVE  ~StartsWith(a, k)
BY CountAssumption, PrefixAssumption DEF Key, Before, StartsWith

\* In a sorted directory, without case distinctions on equal indices.
LEMMA InOrder ==
  ASSUME TypeOK, Sorted(N), NEW i \in Index, NEW j \in Index, i <= j
  PROVE  /\ ~Before(dir[j], dir[i])
         /\ dir[i].ns <= dir[j].ns
<1>1. dir[i] \in Key /\ dir[j] \in Key
  BY DEF TypeOK
<1>2. CASE i = j
  BY <1>1, <1>2, CountAssumption DEF Key, Before
<1>3. CASE i < j
  <2>1. ~Before(dir[j], dir[i])
    BY <1>3 DEF Sorted, Index
  <2>2. QED BY <1>1, <2>1, CountAssumption DEF Key, Before
<1>4. QED BY <1>2, <1>3, CountAssumption DEF Index

\* The middle is in the window.
LEMMA MidInside ==
  ASSUME TypeOK, lo < hi
  PROVE  /\ Mid \in Index
         /\ lo <= Mid /\ Mid < hi
         /\ Mid + 1 \in 0 .. N
BY CountAssumption DEF TypeOK, Mid, Index

----------------------------------------------------------------------------
(* One lemma per group of steps *)

\* Nothing was asked yet.
LEMMA LookupInit == Init => LookupInv
BY CountAssumption DEF Init, LookupInv, TypeOK, Key, Windows, VerdictExact,
     LookupExact, RangeExact, PrefixExact

\* A new query opens the whole directory.
LEMMA StepAsk ==
  ASSUME LookupInv, NEW k \in Key,
         NEW o \in {"order", "find", "lower", "prefix"}, Ask(o, k)
  PROVE  LookupInv'
<1> USE DEF LookupInv
<1>1. TypeOK'
  BY CountAssumption DEF TypeOK, Ask
<1>2. op' = "order" => Sorted(lo)'
  BY DEF Ask, Sorted
<1>3. ASSUME checked' = "sorted" PROVE Windows'
  <2>1. Sorted(N)'
    BY <1>3 DEF Ask, Windows, Sorted
  <2>2. /\ \A i \in Index : ~(i < lo')
        /\ \A i \in Index : ~(hi' <= i)
    BY CountAssumption DEF Ask, Index
  <2>3. QED BY <2>1, <2>2 DEF Ask, Windows, FindWindow, NsWindow, LowerBound,
                               PrefixWindow, Walked
<1>4. VerdictExact'
  BY DEF Ask, VerdictExact
<1>5. LookupExact' /\ RangeExact' /\ PrefixExact'
  BY DEF Ask, LookupExact, RangeExact, PrefixExact
<1>6. QED BY <1>1, <1>2, <1>3, <1>4, <1>5 DEF Ask

\* check_dirent_order: what was passed is sorted.
LEMMA StepCheck ==
  ASSUME LookupInv, Check
  PROVE  LookupInv'
<1> USE DEF LookupInv
<1>1. op = "order" /\ answer = "none" /\ Sorted(lo)
  BY DEF Check, CheckNext, CheckRefuses, CheckPasses
<1>2. UNCHANGED <<dir, key, hi, first, past, answer>> /\ hi = N
  BY DEF Check, CheckNext, CheckRefuses, CheckPasses
<1>3. TypeOK'
  <2>1. lo' \in 0 .. N /\ lo' <= hi'
    <3>1. lo \in 0 .. N /\ lo <= hi /\ hi' = hi /\ hi \in 0 .. N
      BY <1>2 DEF TypeOK
    <3>2. CASE CheckNext
      <4>1. lo < N /\ lo' = lo + 1 /\ hi = N
        BY <3>2, <1>1 DEF CheckNext
      <4>2. QED BY <3>1, <4>1, CountAssumption
    <3>3. CASE CheckRefuses \/ CheckPasses
      BY <3>1, <3>3 DEF CheckRefuses, CheckPasses
    <3>4. QED BY <3>2, <3>3 DEF Check
  <2>2. op' \in {"order", "idle"} /\ checked' \in {checked, "sorted", "unsorted"}
    BY <1>1 DEF Check, CheckNext, CheckRefuses, CheckPasses
  <2>3. QED BY <1>2, <2>1, <2>2 DEF TypeOK
<1>4. LookupExact' /\ RangeExact' /\ PrefixExact'
  BY <1>1, <1>2 DEF LookupExact, RangeExact, PrefixExact
<1>5. CASE CheckNext
  <2>1. lo \in Nat /\ lo < N /\ lo' = lo + 1 /\ op' = "order" /\ checked' = checked
    BY <1>5 DEF CheckNext, TypeOK
  <2>2. ASSUME NEW i \in 0 .. lo, NEW j \in 0 .. lo, i < j
        PROVE  ~Before(dir[j], dir[i])
    <3>1. dir[i] \in Key /\ dir[j] \in Key /\ dir[lo] \in Key
      BY <2>1, CountAssumption DEF TypeOK, Index
    <3>2. CASE j < lo
      BY <1>1, <2>1, <2>2, <3>2 DEF Sorted
    <3>3. CASE j = lo /\ i = lo - 1
      BY <1>5, <2>1, <2>2, <3>3 DEF CheckNext
    <3>4. CASE j = lo /\ i < lo - 1
      <4>1. lo - 1 \in Index /\ dir[lo - 1] \in Key
        BY <2>1, <3>4, CountAssumption DEF TypeOK, Index
      <4>2. ~Before(dir[lo - 1], dir[i])
        BY <1>1, <2>1, <3>4 DEF Sorted
      <4>3. ~Before(dir[lo], dir[lo - 1])
        BY <1>5, <2>1, <3>4 DEF CheckNext
      <4>4. QED BY <3>1, <3>4, <4>1, <4>2, <4>3, Transitive
    <3>5. QED BY <2>1, <2>2, <3>2, <3>3, <3>4
  <2>3. Sorted(lo)'
    BY <1>2, <2>1, <2>2 DEF Sorted
  <2>4. checked' = "sorted" => Windows'
    BY <1>1, <1>2, <2>1 DEF Windows, Sorted, FindWindow, NsWindow, LowerBound,
                            PrefixWindow, Walked
  <2>5. VerdictExact'
    BY <1>2, <2>1 DEF VerdictExact
  <2>6. QED BY <1>1, <1>2, <1>3, <1>4, <2>1, <2>3, <2>4, <2>5
<1>6. CASE CheckRefuses
  <2>1. checked' = "unsorted" /\ op' = "idle"
    BY <1>6 DEF CheckRefuses
  <2>2. lo \in Index /\ lo - 1 \in Index /\ lo - 1 < lo /\ Before(dir[lo], dir[lo - 1])
    BY <1>6, CountAssumption DEF CheckRefuses, TypeOK, Index
  <2>3. VerdictExact'
    BY <1>2, <2>1, <2>2 DEF VerdictExact
  <2>4. QED BY <1>3, <1>4, <2>1, <2>3
<1>7. CASE CheckPasses
  <2>1. checked' = "sorted" /\ op' = "idle"
    BY <1>7 DEF CheckPasses
  <2>2. lo = N
    BY <1>7, CountAssumption DEF CheckPasses, TypeOK
  <2>3. Sorted(N)
    BY <1>1, <2>2
  <2>4. Windows'
    BY <1>2, <2>1, <2>3 DEF Windows, Sorted, FindWindow, NsWindow, LowerBound,
                            PrefixWindow, Walked
  <2>5. VerdictExact'
    BY <1>2, <2>1, <2>3 DEF VerdictExact, Sorted, Index
  <2>6. QED BY <1>3, <1>4, <2>1, <2>4, <2>5
<1>8. QED BY <1>5, <1>6, <1>7 DEF Check

\* A turn of a search: only the window moves.
LEMMA StepTurn ==
  ASSUME LookupInv, lo < hi, Left \/ Right, op # "order", op # "idle",
         checked = "sorted" => FindWindow' /\ NsWindow' /\ PrefixWindow'
  PROVE  LookupInv'
<1> USE DEF LookupInv
<1>1. UNCHANGED <<dir, checked, op, key, first, past, answer>>
  BY DEF Left, Right
<1>2. TypeOK'
  <2>1. lo \in 0 .. N /\ hi \in 0 .. N
    BY DEF TypeOK
  <2>2. Mid \in 0 .. N /\ lo <= Mid /\ Mid + 1 <= hi /\ Mid + 1 \in 0 .. N
    BY <2>1, MidInside, CountAssumption DEF Index
  <2> HIDE DEF LookupInv
  <2>3. lo' \in 0 .. N /\ hi' \in 0 .. N /\ lo' <= hi'
    <3>1. CASE Left
      BY <2>1, <2>2, <3>1 DEF Left
    <3>2. CASE Right
      BY <2>1, <2>2, <3>2 DEF Right
    <3>3. QED BY <3>1, <3>2
  <2>4. QED BY <1>1, <2>3 DEF LookupInv, TypeOK
<1>3. checked = "sorted" => Sorted(N)'
  BY <1>1 DEF Sorted, Windows
<1>4. checked = "sorted" => LowerBound' /\ Walked'
  BY <1>1 DEF Windows, LowerBound, Walked
<1>5. checked' = "sorted" => Windows'
  BY <1>1, <1>3, <1>4 DEF Windows
<1>6. VerdictExact' /\ LookupExact' /\ RangeExact' /\ PrefixExact'
  BY <1>1 DEF VerdictExact, LookupExact, RangeExact, PrefixExact
<1>7. QED BY <1>1, <1>2, <1>5, <1>6

\* What a turn to the left or right leaves behind, by the order.
LEMMA TurnSound ==
  ASSUME TypeOK, Sorted(N), lo < hi, NEW i \in Index
  PROVE  /\ dir[i] \in Key /\ dir[Mid] \in Key
         /\ i < Mid + 1 => ~Before(dir[Mid], dir[i]) /\ dir[i].ns <= dir[Mid].ns
         /\ Mid <= i => ~Before(dir[i], dir[Mid]) /\ dir[Mid].ns <= dir[i].ns
<1>1. Mid \in Index
  BY MidInside
<1>2. dir[i] \in Key /\ dir[Mid] \in Key
  BY <1>1 DEF TypeOK
<1>3. i < Mid + 1 => i <= Mid
  BY <1>1, CountAssumption DEF Index
<1>4. QED BY <1>1, <1>2, <1>3, InOrder

\* entry_by_ns_path: what left the window is not the key.
LEMMA StepFind ==
  ASSUME LookupInv, Find
  PROVE  LookupInv'
<1> USE DEF LookupInv
<1>1. op = "find" /\ answer = "none" /\ TypeOK
  BY DEF Find, FindLeft, FindRight, FindHit, FindMiss
<1>2. key \in Key
  BY DEF TypeOK
<1>3. CASE FindLeft
  <2>1. lo < hi /\ Left /\ Before(key, dir[Mid])
    BY <1>3 DEF FindLeft
  <2>2. ASSUME checked = "sorted" PROVE FindWindow'
    <3>1. Sorted(N) /\ FindWindow
      BY <2>2 DEF Windows
    <3>2. ASSUME NEW i \in Index, Mid <= i PROVE Before(key, dir[i])
      BY <1>1, <1>2, <2>1, <3>1, <3>2, TurnSound, AboveAfter
    <3>3. QED BY <1>1, <2>1, <3>1, <3>2 DEF Left, FindWindow
  <2>3. NsWindow' /\ PrefixWindow'
    BY <1>1, <2>1 DEF Left, NsWindow, PrefixWindow
  <2>4. QED BY <1>1, <2>1, <2>2, <2>3, StepTurn
<1>4. CASE FindRight
  <2>1. lo < hi /\ Right /\ Before(dir[Mid], key)
    BY <1>4 DEF FindRight
  <2>2. ASSUME checked = "sorted" PROVE FindWindow'
    <3>1. Sorted(N) /\ FindWindow
      BY <2>2 DEF Windows
    <3>2. ASSUME NEW i \in Index, i < Mid + 1 PROVE Before(dir[i], key)
      BY <1>1, <1>2, <2>1, <3>1, <3>2, TurnSound, BelowBefore
    <3>3. QED BY <1>1, <2>1, <3>1, <3>2 DEF Right, FindWindow
  <2>3. NsWindow' /\ PrefixWindow'
    BY <1>1, <2>1 DEF Right, NsWindow, PrefixWindow
  <2>4. QED BY <1>1, <2>1, <2>2, <2>3, StepTurn
<1>5. CASE FindHit \/ FindMiss
  <2>1. /\ UNCHANGED <<dir, checked, key, lo, hi>>
        /\ op' = "idle"
    BY <1>5 DEF FindHit, FindMiss, Answer
  <2>2. TypeOK'
    <3>1. CASE FindHit
      <4>1. Mid \in 0 .. N /\ Mid + 1 \in 0 .. N
        BY <3>1, MidInside, CountAssumption DEF FindHit, Index
      <4>2. QED BY <2>1, <3>1, <4>1 DEF TypeOK, FindHit, Answer
    <3>2. CASE FindMiss
      BY <2>1, <3>2 DEF TypeOK, FindMiss, Answer
    <3>3. QED BY <1>5, <3>1, <3>2
  <2>3. checked' = "sorted" => Windows'
    BY <2>1 DEF Windows, Sorted, FindWindow, NsWindow, LowerBound, PrefixWindow,
                Walked
  <2>4. VerdictExact'
    BY <2>1 DEF VerdictExact
  <2>5. LookupExact'
    <3>1. CASE FindHit
      BY <2>1, <3>1 DEF LookupExact, FindHit, Answer
    <3>2. CASE FindMiss
      <4>1. SUFFICES ASSUME checked = "sorted", NEW i \in Index PROVE dir[i] # key
        BY <2>1, <3>2 DEF LookupExact, FindMiss, Answer
      <4>2. FindWindow /\ dir[i] \in Key
        BY <4>1 DEF Windows, TypeOK
      <4>3. i < lo \/ hi <= i
        BY <3>2, CountAssumption DEF FindMiss, TypeOK, Index
      <4>4. QED BY <1>1, <1>2, <4>2, <4>3, Antisymmetric DEF FindWindow
    <3>3. QED BY <1>5, <3>1, <3>2
  <2>6. RangeExact' /\ PrefixExact'
    BY <1>5 DEF RangeExact, PrefixExact, FindHit, FindMiss, Answer
  <2>7. QED BY <2>1, <2>2, <2>3, <2>4, <2>5, <2>6
<1>6. QED BY <1>3, <1>4, <1>5 DEF Find

\* lower_bound_ns: what left the window is on its side of the namespace.
LEMMA StepRange ==
  ASSUME LookupInv, NsRange
  PROVE  LookupInv'
<1> USE DEF LookupInv
<1>1. op \in {"lower", "upper"} /\ answer = "none" /\ TypeOK
  BY DEF NsRange, NsLeft, NsRight, LowerDone, UpperDone
<1>2. key \in Key /\ key.ns \in 0 .. TopNs /\ Searched \in Int
  BY CountAssumption DEF TypeOK, Key, Searched, NextNs
<1>3. CASE NsLeft
  <2>1. lo < hi /\ Left /\ dir[Mid].ns >= Searched /\ Searched' = Searched
    BY <1>3 DEF NsLeft, Left, Searched
  <2>2. ASSUME checked = "sorted" PROVE NsWindow'
    <3>1. Sorted(N) /\ NsWindow
      BY <2>2 DEF Windows
    <3>2. ASSUME NEW i \in Index, Mid <= i PROVE dir[i].ns >= Searched
      <4>1. dir[Mid].ns <= dir[i].ns /\ dir[i].ns \in Int /\ dir[Mid].ns \in Int
        BY <1>1, <2>1, <3>1, <3>2, TurnSound DEF Key
      <4>2. QED BY <1>2, <2>1, <4>1
    <3>3. QED BY <1>1, <2>1, <3>1, <3>2 DEF Left, NsWindow
  <2>3. FindWindow' /\ PrefixWindow'
    BY <1>1, <2>1 DEF Left, FindWindow, PrefixWindow
  <2>4. QED BY <1>1, <2>1, <2>2, <2>3, StepTurn
<1>4. CASE NsRight
  <2>1. lo < hi /\ Right /\ dir[Mid].ns < Searched /\ Searched' = Searched
    BY <1>4 DEF NsRight, Right, Searched
  <2>2. ASSUME checked = "sorted" PROVE NsWindow'
    <3>1. Sorted(N) /\ NsWindow
      BY <2>2 DEF Windows
    <3>2. ASSUME NEW i \in Index, i < Mid + 1 PROVE dir[i].ns < Searched
      <4>1. dir[i].ns <= dir[Mid].ns /\ dir[i].ns \in Int /\ dir[Mid].ns \in Int
        BY <1>1, <2>1, <3>1, <3>2, TurnSound DEF Key
      <4>2. QED BY <1>2, <2>1, <4>1
    <3>3. QED BY <1>1, <2>1, <3>1, <3>2 DEF Right, NsWindow
  <2>3. FindWindow' /\ PrefixWindow'
    BY <1>1, <2>1 DEF Right, FindWindow, PrefixWindow
  <2>4. QED BY <1>1, <2>1, <2>2, <2>3, StepTurn
<1>5. ASSUME lo >= hi, checked = "sorted", NEW i \in Index
      PROVE  /\ i < lo => dir[i].ns < Searched
             /\ lo <= i => dir[i].ns >= Searched
  <2>1. NsWindow
    BY <1>5 DEF Windows
  <2>2. lo <= i => hi <= i
    BY <1>5, CountAssumption DEF TypeOK, Index
  <2>3. QED BY <1>1, <2>1, <2>2 DEF NsWindow
<1>6. CASE LowerDone
  <2>1. /\ UNCHANGED <<dir, checked, key, past, answer>>
        /\ op = "lower" /\ op' = "upper" /\ lo >= hi
        /\ first' = lo /\ lo' = 0 /\ hi' = N
    BY <1>6 DEF LowerDone
  <2>2. TypeOK'
    BY <2>1, CountAssumption DEF TypeOK
  <2>3. ASSUME checked' = "sorted" PROVE Windows'
    <3>1. Sorted(N)'
      BY <2>1, <2>3 DEF Windows, Sorted
    <3>2. LowerBound'
      <4>1. Searched = key.ns
        BY <2>1 DEF Searched
      <4>2. QED BY <1>5, <2>1, <2>3, <4>1 DEF LowerBound
    <3>3. NsWindow'
      <4>1. \A i \in Index : ~(i < 0) /\ ~(N <= i)
        BY CountAssumption DEF Index
      <4>2. QED BY <2>1, <4>1 DEF NsWindow
    <3>4. QED BY <2>1, <3>1, <3>2, <3>3 DEF Windows, FindWindow, PrefixWindow, Walked
  <2>4. VerdictExact' /\ LookupExact' /\ RangeExact' /\ PrefixExact'
    BY <1>1, <2>1 DEF VerdictExact, LookupExact, RangeExact, PrefixExact
  <2>5. QED BY <1>1, <2>1, <2>2, <2>3, <2>4
<1>7. CASE UpperDone
  <2>1. /\ UNCHANGED <<dir, checked, key, lo, hi>>
        /\ op = "upper" /\ op' = "idle" /\ lo >= hi
        /\ first' = first /\ past' = lo /\ answer' = "range"
    BY <1>7 DEF UpperDone, Answer
  <2>2. TypeOK'
    BY <2>1 DEF TypeOK
  <2>3. checked' = "sorted" => Windows'
    BY <2>1 DEF Windows, Sorted, FindWindow, NsWindow, LowerBound, PrefixWindow,
                Walked
  <2>4. VerdictExact' /\ LookupExact' /\ PrefixExact'
    BY <2>1 DEF VerdictExact, LookupExact, PrefixExact
  <2>5. RangeExact'
    <3>1. SUFFICES ASSUME checked = "sorted", key.ns < TopNs, NEW i \in Index
                   PROVE  dir[i].ns = key.ns <=> first <= i /\ i < lo
      BY <2>1 DEF RangeExact
    <3>2. Searched = key.ns + 1
      BY <1>2, <2>1, <3>1, CountAssumption DEF Searched, NextNs
    <3>3. dir[i].ns \in Int /\ i \in Int /\ lo \in Int /\ first \in Int
      BY CountAssumption DEF TypeOK, Key, Index
    <3>4. /\ i < first => dir[i].ns < key.ns
          /\ first <= i => dir[i].ns >= key.ns
      BY <2>1, <3>1 DEF Windows, LowerBound
    <3>5. /\ i < lo => dir[i].ns < key.ns + 1
          /\ lo <= i => dir[i].ns >= key.ns + 1
      BY <1>5, <2>1, <3>1, <3>2
    <3>6. QED BY <1>2, <3>3, <3>4, <3>5, CountAssumption
  <2>6. QED BY <2>1, <2>2, <2>3, <2>4, <2>5
<1>8. QED BY <1>3, <1>4, <1>6, <1>7 DEF NsRange

\* by_prefix: the walk starts at the first key that is not below the prefix.
LEMMA StepPrefix ==
  ASSUME LookupInv, Prefix
  PROVE  LookupInv'
<1> USE DEF LookupInv
<1>1. op \in {"prefix", "walk"} /\ answer = "none" /\ TypeOK
  BY DEF Prefix, PrefixLeft, PrefixRight, PrefixStart, Yield, WalkEnds
<1>2. key \in Key
  BY DEF TypeOK
<1>3. CASE PrefixLeft
  <2>1. op = "prefix" /\ lo < hi /\ Left /\ ~Before(dir[Mid], key)
    BY <1>3 DEF PrefixLeft
  <2>2. ASSUME checked = "sorted" PROVE PrefixWindow'
    <3>1. Sorted(N) /\ PrefixWindow
      BY <2>2 DEF Windows
    <3>2. ASSUME NEW i \in Index, Mid <= i PROVE ~Before(dir[i], key)
      BY <1>1, <1>2, <2>1, <3>1, <3>2, TurnSound, Transitive
    <3>3. QED BY <2>1, <3>1, <3>2 DEF Left, PrefixWindow
  <2>3. FindWindow' /\ NsWindow'
    BY <2>1 DEF Left, FindWindow, NsWindow
  <2>4. QED BY <2>1, <2>2, <2>3, StepTurn
<1>4. CASE PrefixRight
  <2>1. op = "prefix" /\ lo < hi /\ Right /\ Before(dir[Mid], key)
    BY <1>4 DEF PrefixRight
  <2>2. ASSUME checked = "sorted" PROVE PrefixWindow'
    <3>1. Sorted(N) /\ PrefixWindow
      BY <2>2 DEF Windows
    <3>2. ASSUME NEW i \in Index, i < Mid + 1 PROVE Before(dir[i], key)
      BY <1>1, <1>2, <2>1, <3>1, <3>2, TurnSound, BelowBefore
    <3>3. QED BY <2>1, <3>1, <3>2 DEF Right, PrefixWindow
  <2>3. FindWindow' /\ NsWindow'
    BY <2>1 DEF Right, FindWindow, NsWindow
  <2>4. QED BY <2>1, <2>2, <2>3, StepTurn
<1>5. CASE PrefixStart
  <2>1. /\ UNCHANGED <<dir, checked, key, lo, hi, answer>>
        /\ op = "prefix" /\ op' = "walk" /\ lo >= hi
        /\ first' = lo /\ past' = lo
    BY <1>5 DEF PrefixStart
  <2>2. TypeOK'
    BY <2>1 DEF TypeOK
  <2>3. ASSUME checked' = "sorted" PROVE Windows'
    <3>1. Sorted(N)' /\ PrefixWindow
      BY <2>1, <2>3 DEF Windows, Sorted
    <3>2. Walked'
      <4>1. \A i \in Index : /\ lo <= i => hi <= i
                             /\ ~(lo <= i /\ i < lo)
        BY <2>1, CountAssumption DEF TypeOK, Index
      <4>2. lo <= lo
        BY CountAssumption DEF TypeOK
      <4>3. QED BY <2>1, <3>1, <4>1, <4>2 DEF Walked, PrefixWindow
    <3>3. QED BY <2>1, <3>1, <3>2 DEF Windows, FindWindow, NsWindow, LowerBound,
                                      PrefixWindow
  <2>4. VerdictExact' /\ LookupExact' /\ RangeExact' /\ PrefixExact'
    BY <1>1, <2>1 DEF VerdictExact, LookupExact, RangeExact, PrefixExact
  <2>5. QED BY <1>1, <2>1, <2>2, <2>3, <2>4
<1>6. CASE Yield
  <2>1. /\ UNCHANGED <<dir, checked, op, key, lo, hi, first, answer>>
        /\ op = "walk" /\ past < N /\ past' = past + 1
        /\ StartsWith(dir[past], key)
    BY <1>6 DEF Yield
  <2>2. past \in 0 .. N /\ past' \in 0 .. N
    BY <2>1, CountAssumption DEF TypeOK
  <2>3. TypeOK'
    BY <2>1, <2>2 DEF TypeOK
  <2>4. ASSUME checked' = "sorted" PROVE Windows'
    <3>1. Sorted(N)' /\ Walked
      BY <2>1, <2>4 DEF Windows, Sorted
    <3>2. Walked'
      <4>1. first <= past'
        BY <2>1, <2>2, <3>1, CountAssumption DEF Walked, TypeOK
      <4>2. \A i \in Index : i < past + 1 => i < past \/ i = past
        BY <2>2, CountAssumption DEF Index
      <4>3. QED BY <2>1, <3>1, <4>1, <4>2 DEF Walked
    <3>3. QED BY <2>1, <3>1, <3>2 DEF Windows, FindWindow, NsWindow, LowerBound,
                                      PrefixWindow
  <2>5. VerdictExact' /\ LookupExact' /\ RangeExact' /\ PrefixExact'
    BY <1>1, <2>1 DEF VerdictExact, LookupExact, RangeExact, PrefixExact
  <2>6. QED BY <1>1, <2>1, <2>3, <2>4, <2>5
<1>7. CASE WalkEnds
  <2>1. /\ UNCHANGED <<dir, checked, key, lo, hi>>
        /\ op = "walk" /\ op' = "idle"
        /\ first' = first /\ past' = past /\ answer' = "listed"
        /\ past < N => ~StartsWith(dir[past], key)
    BY <1>7 DEF WalkEnds, Answer
  <2>2. TypeOK'
    BY <2>1 DEF TypeOK
  <2>3. checked' = "sorted" => Windows'
    BY <2>1 DEF Windows, Sorted, FindWindow, NsWindow, LowerBound, PrefixWindow,
                Walked
  <2>4. VerdictExact' /\ LookupExact' /\ RangeExact'
    BY <2>1 DEF VerdictExact, LookupExact, RangeExact
  <2>5. PrefixExact'
    <3>1. SUFFICES ASSUME checked = "sorted", NEW i \in Index
                   PROVE  StartsWith(dir[i], key) <=> first <= i /\ i < past
      BY <2>1 DEF PrefixExact
    <3>2. Walked /\ Sorted(N)
      BY <3>1 DEF Windows
    <3>3. dir[i] \in Key /\ i \in Int /\ first \in Int /\ past \in 0 .. N
      BY CountAssumption DEF TypeOK, Index
    <3>4. CASE i < first
      BY <1>2, <2>1, <3>2, <3>3, <3>4, PrefixNotBelow DEF Walked
    <3>5. CASE first <= i /\ i < past
      BY <2>1, <3>2, <3>5 DEF Walked
    <3>6. CASE past <= i
      <4>1. past \in Index /\ past < N
        BY <3>3, <3>6, CountAssumption DEF Index
      <4>2. dir[past] \in Key /\ ~Before(dir[past], key)
        BY <2>1, <3>2, <4>1 DEF TypeOK, Walked
      <4>3. ~Before(dir[i], dir[past])
        BY <1>1, <3>2, <3>6, <4>1, InOrder
      <4>4. ~StartsWith(dir[i], key)
        BY <1>2, <2>1, <3>3, <4>1, <4>2, <4>3, PrefixPast
      <4>5. QED BY <3>3, <3>6, <4>4
    <3>7. QED BY <3>3, <3>4, <3>5, <3>6
  <2>6. QED BY <2>1, <2>2, <2>3, <2>4, <2>5
<1>8. QED BY <1>3, <1>4, <1>5, <1>6, <1>7 DEF Prefix

\* A step of no variable.
LEMMA StepNothing ==
  ASSUME LookupInv, UNCHANGED vars
  PROVE  LookupInv'
BY DEF vars, LookupInv, TypeOK, Windows, Sorted, FindWindow, NsWindow, Searched,
       LowerBound, PrefixWindow, Walked, VerdictExact, LookupExact, RangeExact,
       PrefixExact

----------------------------------------------------------------------------
\* Every step of every lookup keeps the invariant.
THEOREM LookupInvariance == Spec => []LookupInv
<1>1. Init => LookupInv
  BY LookupInit
<1>2. ASSUME LookupInv, [Next]_vars PROVE LookupInv'
  <2>1. ASSUME NEW k \in Key, NEW o \in {"order", "find", "lower", "prefix"}, Ask(o, k)
        PROVE  LookupInv'
    BY <1>2, <2>1, StepAsk
  <2>2. CASE Work
    BY <1>2, <2>2, StepCheck, StepFind, StepRange, StepPrefix DEF Work
  <2>3. CASE UNCHANGED vars
    BY <1>2, <2>3, StepNothing
  <2>4. QED BY <1>2, <2>1, <2>2, <2>3 DEF Next
<1>3. QED BY <1>1, <1>2, PTL DEF Spec

\* The windows of all searches stay inside the directory.
THEOREM LookupTypeCorrect == Spec => []TypeOK
<1>1. LookupInv => TypeOK
  BY DEF LookupInv
<1>2. QED BY <1>1, LookupInvariance, PTL

\* check_dirent_order, which compares neighbours, decides whether the whole
\* directory is sorted.
THEOREM OrderCheckSound == Spec => []VerdictExact
<1>1. LookupInv => VerdictExact
  BY DEF LookupInv
<1>2. QED BY <1>1, LookupInvariance, PTL

\* In a checked directory entry_by_ns_path finds what there is to find.
THEOREM CheckedMeansFound == Spec => []LookupExact
<1>1. LookupInv => LookupExact
  BY DEF LookupInv
<1>2. QED BY <1>1, LookupInvariance, PTL

\* In a checked directory namespace_range is the namespace.
THEOREM CheckedMeansRange == Spec => []RangeExact
<1>1. LookupInv => RangeExact
  BY DEF LookupInv
<1>2. QED BY <1>1, LookupInvariance, PTL

\* In a checked directory by_prefix lists every match and nothing else.
THEOREM CheckedMeansListed == Spec => []PrefixExact
<1>1. LookupInv => PrefixExact
  BY DEF LookupInv
<1>2. QED BY <1>1, LookupInvariance, PTL

\* All that is said of the lookups by path, for every directory.
THEOREM DirectoryIsExact == Spec => []DirectoryExact
<1>1. LookupInv => DirectoryExact
  BY DEF LookupInv, DirectoryExact
<1>2. QED BY <1>1, LookupInvariance, PTL

----------------------------------------------------------------------------
(* Title listings *)

\* The key of a position of the listing.
KeyAt(i) == dir[Titles!Listed(i)]

TitleTypes ==
    /\ dir \in [Titles!Index -> Titles!Key]
    /\ listing \in Seq(0 .. TitleN)
    /\ subset \in BOOLEAN
    /\ key \in Titles!Key
    /\ op \in {"idle", "check", "find", "scan", "from", "to"}
    /\ checked \in {"no", "valid", "invalid"}
    /\ lo \in Nat /\ hi \in Nat /\ lo <= hi
    /\ first \in Nat /\ past \in Nat
    /\ op \in {"find", "from", "to"} => hi <= Len(listing)
    /\ op = "check" => hi = Len(listing)
    /\ op = "scan" => hi = TitleN
    /\ op # "idle" => answer = "none"

\* valid_title_listing: the positions that have passed are a valid listing.
Passed ==
    op = "check" =>
      /\ seen = {Titles!Listed(i) : i \in 0 .. lo - 1}
      /\ \A i \in 0 .. lo - 1 :
           Titles!InFile(i) /\ (subset => KeyAt(i).ns = Content)
      /\ \A i, j \in 0 .. lo - 1 :
           i < j => /\ Titles!Listed(i) # Titles!Listed(j)
                    /\ ~Titles!Before(KeyAt(j), KeyAt(i))

\* On a valid listing what is left of the window is on one side of what is
\* looked for, what is right of it on the other.
TitleWindows ==
    /\ op = "find" => \A i \in Titles!Positions :
         /\ i < lo => Titles!Before(KeyAt(i), key)
         /\ hi <= i => Titles!Before(key, KeyAt(i))
    /\ op \in {"from", "to"} => \A i \in Titles!Positions :
         /\ i < lo => Titles!Below(KeyAt(i))
         /\ hi <= i => ~Titles!Below(KeyAt(i))
    /\ op = "to" => \A i \in Titles!Positions :
         i < first <=> Titles!Before(KeyAt(i), key)
    /\ op = "scan" => \A i \in 0 .. lo - 1 : dir[i] # key

TitleInv ==
    /\ TitleTypes
    /\ Passed
    /\ checked = "valid" => TitleWindows
    /\ Titles!VerdictExact
    /\ Titles!TitleExact
    /\ Titles!RangeExact

----------------------------------------------------------------------------
(* Keys and listings *)

\* The order of keys, as the searches use it.
LEMMA TitleOrder ==
  ASSUME NEW a \in Titles!Key, NEW b \in Titles!Key, NEW k \in Titles!Key
  PROVE  /\ Titles!Before(a, k) /\ ~Titles!Before(a, b) => Titles!Before(b, k)
         /\ Titles!Before(k, a) /\ ~Titles!Before(b, a) => Titles!Before(k, b)
         /\ Titles!Before(a, k) => ~Titles!Before(k, a) /\ a # k
         /\ Titles!Before(a, k) => Titles!BeforeEnd(a, k) \/ a.ns = k.ns
         /\ Titles!BeforeEnd(a, k) /\ ~Titles!Before(a, b) => Titles!BeforeEnd(b, k)
         /\ ~Titles!Before(b, a) /\ ~Titles!Before(k, b) => ~Titles!Before(k, a)
         /\ ~Titles!Before(a, a)
<1>1. /\ {a.ns, b.ns, k.ns, a.title, b.title, k.title} \subseteq Int
      /\ TitlePrefixEnd[k.title] \in Int
  BY TitleAssumption DEF Titles!Key
<1>2. a = [ns |-> a.ns, title |-> a.title] /\ k = [ns |-> k.ns, title |-> k.title]
  BY DEF Titles!Key
<1>3. QED BY <1>1, <1>2 DEF Titles!Before, Titles!BeforeEnd

\* Positions and what is there.
LEMMA Listings ==
  ASSUME TitleTypes
  PROVE  /\ Len(listing) \in Nat /\ TitleN \in Nat
         /\ \A i : i \in Titles!Positions <=> i \in Nat /\ i < Len(listing)
         /\ \A i \in Titles!Positions :
              /\ Titles!Listed(i) \in 0 .. TitleN
              /\ Titles!InFile(i) => /\ Titles!Listed(i) \in Titles!Index
                                     /\ KeyAt(i) \in Titles!Key
<1>1. listing \in [1 .. Len(listing) -> 0 .. TitleN] /\ Len(listing) \in Nat /\ TitleN \in Nat
  BY TitleAssumption DEF TitleTypes
<1>2. ASSUME NEW i \in Titles!Positions PROVE i + 1 \in 1 .. Len(listing)
  BY <1>1 DEF Titles!Positions
<1>3. \A i : i \in Titles!Positions <=> i \in Nat /\ i < Len(listing)
  BY <1>1 DEF Titles!Positions
<1>4. ASSUME NEW i \in Titles!Positions
      PROVE  /\ Titles!Listed(i) \in 0 .. TitleN
             /\ Titles!InFile(i) => /\ Titles!Listed(i) \in Titles!Index
                                    /\ KeyAt(i) \in Titles!Key
  <2>1. Titles!Listed(i) \in 0 .. TitleN
    BY <1>1, <1>2 DEF Titles!Listed
  <2>2. Titles!InFile(i) => Titles!Listed(i) \in Titles!Index
    BY <1>1, <2>1 DEF Titles!InFile, Titles!Index
  <2>3. QED BY <2>1, <2>2 DEF TitleTypes, KeyAt
<1>5. QED BY <1>1, <1>3, <1>4

\* The middle is in the window.
LEMMA TitleMid ==
  ASSUME TitleTypes, lo < hi, hi <= Len(listing)
  PROVE  /\ Titles!Mid \in Titles!Positions
         /\ lo <= Titles!Mid /\ Titles!Mid < hi /\ Titles!Mid + 1 \in Nat
<1>1. Len(listing) \in Nat /\ lo \in Nat /\ hi \in Nat
  BY Listings DEF TitleTypes
<1>2. Titles!Mid \in Nat /\ lo <= Titles!Mid /\ Titles!Mid < hi
  BY <1>1 DEF Titles!Mid
<1>3. QED BY <1>1, <1>2, Listings

\* A valid listing is in order, equal positions or not.
LEMMA ListingOrder ==
  ASSUME TitleTypes, Titles!Valid,
         NEW i \in Titles!Positions, NEW j \in Titles!Positions, i <= j
  PROVE  /\ KeyAt(i) \in Titles!Key /\ KeyAt(j) \in Titles!Key
         /\ ~Titles!Before(KeyAt(j), KeyAt(i))
<1>1. KeyAt(i) \in Titles!Key /\ KeyAt(j) \in Titles!Key
  BY Listings DEF Titles!Valid
<1>2. i \in Nat /\ j \in Nat
  BY Listings
<1>3. CASE i = j
  BY <1>1, <1>3, TitleOrder
<1>4. CASE i < j
  BY <1>1, <1>4 DEF Titles!Valid, KeyAt
<1>5. QED BY <1>1, <1>2, <1>3, <1>4

\* A listing as long as the directory that lists no entry twice lists them
\* all.
LEMMA ListsAll ==
  ASSUME TitleTypes,
         \A i \in Titles!Positions : Titles!InFile(i),
         \A i, j \in Titles!Positions : i # j => Titles!Listed(i) # Titles!Listed(j)
  PROVE  {Titles!Listed(i) : i \in Titles!Positions} = Titles!Index
           <=> Len(listing) = TitleN
<1> DEFINE f == [i \in Titles!Positions |-> Titles!Listed(i)]
<1>1. Len(listing) \in Nat /\ TitleN \in Nat
  BY Listings
<1>2. /\ IsFiniteSet(Titles!Positions) /\ Cardinality(Titles!Positions) = Len(listing)
      /\ IsFiniteSet(Titles!Index) /\ Cardinality(Titles!Index) = TitleN
  <2>1. 0 .. Len(listing) - 1 = Titles!Positions /\ 0 .. TitleN - 1 = Titles!Index
    BY DEF Titles!Positions, Titles!Index
  <2>2. ASSUME NEW n \in Nat
        PROVE  IsFiniteSet(0 .. n - 1) /\ Cardinality(0 .. n - 1) = n
    <3>1. IsFiniteSet(0 .. n - 1)
          /\ Cardinality(0 .. n - 1) = IF 0 > n - 1 THEN 0 ELSE (n - 1) - 0 + 1
      BY FS_Interval
    <3>2. QED BY <3>1
  <2>3. QED BY <1>1, <2>1, <2>2
<1>3. f \in Injection(Titles!Positions, Titles!Index)
  <2>1. \A i \in Titles!Positions : Titles!Listed(i) \in Titles!Index
    BY Listings
  <2>2. f \in [Titles!Positions -> Titles!Index]
    BY <2>1
  <2>3. QED BY <2>2 DEF Injection, IsInjective
<1>4. Len(listing) = TitleN <=> f \in Surjection(Titles!Positions, Titles!Index)
  <2> HIDE DEF f
  <2>1. QED BY <1>2, <1>3, FS_Injection
<1>5. f \in Surjection(Titles!Positions, Titles!Index)
        <=> {Titles!Listed(i) : i \in Titles!Positions} = Titles!Index
  <2>1. f \in [Titles!Positions -> Titles!Index]
    BY <1>3 DEF Injection
  <2>2. \A i \in Titles!Positions : f[i] = Titles!Listed(i) /\ f[i] \in Titles!Index
    BY <2>1
  <2> HIDE DEF f
  <2>3. QED BY <2>1, <2>2 DEF Surjection
<1>6. QED BY <1>4, <1>5

----------------------------------------------------------------------------
(* The steps of the title searches *)

\* Nothing was asked yet.
LEMMA TitleInit == Titles!Init => TitleInv
<1> SUFFICES ASSUME Titles!Init PROVE TitleInv
  OBVIOUS
<1>1. listing \in Seq(0 .. TitleN)
  <2>1. PICK n \in 0 .. TitleN : listing \in [1 .. n -> 0 .. TitleN]
    BY DEF Titles!Init, Titles!Listing
  <2>2. n \in Nat
    BY <2>1, TitleAssumption
  <2>3. QED BY <2>1, <2>2, SeqDef
<1>2. key \in Titles!Key
  BY TitleAssumption DEF Titles!Init, Titles!Key
<1>3. TitleTypes
  BY <1>1, <1>2 DEF Titles!Init, TitleTypes
<1>4. QED BY <1>3 DEF Titles!Init, TitleInv, Passed, TitleWindows, Titles!VerdictExact,
                      Titles!TitleExact, Titles!RangeExact

\* A new query opens the whole listing.
LEMMA TitleAsk ==
  ASSUME TitleInv, NEW k \in Titles!Key, NEW o \in {"check", "find", "from"},
         Titles!Ask(o, k)
  PROVE  TitleInv'
<1>1. /\ UNCHANGED <<dir, listing, subset, checked>>
      /\ op' = o /\ key' = k /\ lo' = 0 /\ hi' = Len(listing) /\ seen' = {}
      /\ first' = 0 /\ past' = 0 /\ answer' = "none"
  BY DEF Titles!Ask
<1>2. Len(listing) \in Nat
  BY Listings DEF TitleInv
<1>3. TitleTypes'
  BY <1>1, <1>2 DEF TitleInv, TitleTypes
<1>4. Passed'
  <2>1. 0 .. 0 - 1 = {}
    OBVIOUS
  <2>2. seen' = {} /\ 0 .. lo' - 1 = {}
    BY <1>1, <2>1
  <2>3. QED BY <2>2 DEF Passed
<1>5. TitleWindows'
  <2>1. \A i \in Titles!Positions : ~(i < 0) /\ ~(Len(listing) <= i)
    BY <1>2 DEF Titles!Positions
  <2>2. \A i \in Titles!Positions' : ~(i < lo') /\ ~(hi' <= i)
    BY <1>1, <2>1 DEF Titles!Positions
  <2>3. QED BY <1>1, <2>2 DEF TitleWindows
<1>6. Titles!VerdictExact'
  BY <1>1 DEF TitleInv, Titles!VerdictExact, Titles!Valid, Titles!InFile, Titles!Listed,
              Titles!Positions
<1>7. Titles!TitleExact' /\ Titles!RangeExact'
  BY <1>1 DEF Titles!TitleExact, Titles!RangeExact
<1>8. QED BY <1>3, <1>4, <1>5, <1>6, <1>7 DEF TitleInv

\* The directory and the listing do not change, nor what depends on them alone.
LEMMA TitleSame ==
  ASSUME UNCHANGED <<dir, listing, subset>>
  PROVE  /\ Titles!Positions' = Titles!Positions
         /\ Titles!Valid' = Titles!Valid
         /\ \A i \in Titles!Positions : KeyAt(i)' = KeyAt(i)
BY DEF Titles!Valid, Titles!InFile, Titles!Listed, Titles!Positions, KeyAt

\* valid_title_listing: comparing neighbours is enough.
LEMMA TitleCheckEntry ==
  ASSUME TitleInv, Titles!CheckEntry
  PROVE  TitleInv'
<1>1. /\ UNCHANGED <<dir, listing, subset, checked, op, key, hi, first, past, at, answer>>
      /\ op = "check" /\ lo < hi /\ Titles!Fits /\ ~Titles!WrongLength
      /\ lo' = lo + 1 /\ seen' = seen \cup {Titles!Listed(lo)}
      /\ answer = "none" /\ hi = Len(listing) /\ lo \in Nat /\ TitleTypes /\ Passed
  BY DEF Titles!CheckEntry, TitleInv, TitleTypes
<1>2. Len(listing) \in Nat /\ lo \in Titles!Positions /\ lo + 1 <= Len(listing)
  BY <1>1, Listings
<1>3. \A i : i \in 0 .. lo <=> i \in 0 .. lo - 1 \/ i = lo
  BY <1>1
<1>4. (lo + 1) - 1 = lo
  BY <1>1
<1>5. TitleTypes'
  BY <1>1, <1>2 DEF TitleTypes
<1>6. {Titles!Listed(i) : i \in 0 .. lo} = seen \cup {Titles!Listed(lo)}
  BY <1>1, <1>3 DEF Passed
<1>7. \A i \in 0 .. lo : Titles!InFile(i) /\ (subset => KeyAt(i).ns = Content)
  BY <1>1, <1>3 DEF Passed, Titles!Fits, KeyAt
<1>8. ASSUME NEW i \in 0 .. lo, NEW j \in 0 .. lo, i < j
      PROVE  /\ Titles!Listed(i) # Titles!Listed(j)
             /\ ~Titles!Before(KeyAt(j), KeyAt(i))
  <2>1. i \in 0 .. lo - 1 /\ i \in Titles!Positions /\ j \in Titles!Positions
    BY <1>1, <1>2, <1>8, Listings
  <2>2. CASE j # lo
    <3>1. j \in 0 .. lo - 1
      BY <1>3, <2>2
    <3>2. QED BY <1>1, <1>8, <2>1, <3>1 DEF Passed
  <2>3. CASE j = lo
    <3>1. Titles!Listed(i) # Titles!Listed(lo)
      BY <1>1, <2>1 DEF Passed, Titles!Fits
    <3>2. ~Titles!Before(KeyAt(lo), KeyAt(lo - 1))
      BY <1>1, <1>8, <2>3 DEF Titles!Fits, KeyAt
    <3>3. CASE i = lo - 1
      BY <2>3, <3>1, <3>2, <3>3
    <3>4. CASE i # lo - 1
      <4>1. lo - 1 \in 0 .. lo - 1 /\ i < lo - 1 /\ lo - 1 \in Titles!Positions
        BY <1>1, <1>2, <1>8, <2>3, <3>4, Listings
      <4>2. ~Titles!Before(KeyAt(lo - 1), KeyAt(i))
        BY <1>1, <2>1, <4>1 DEF Passed
      <4>3. /\ KeyAt(i) \in Titles!Key /\ KeyAt(lo) \in Titles!Key
            /\ KeyAt(lo - 1) \in Titles!Key
        BY <1>1, <1>2, <1>7, <2>1, <4>1, Listings, <1>3
      <4>4. ~Titles!Before(KeyAt(lo), KeyAt(i))
        BY <3>2, <4>2, <4>3, TitleOrder
      <4>5. QED BY <2>3, <3>1, <4>4
    <3>5. QED BY <3>3, <3>4
  <2>4. QED BY <2>2, <2>3
<1>9. Passed'
  <2>1. (0 .. lo - 1)' = 0 .. lo
    BY <1>1, <1>4
  <2>2. \A i \in 0 .. lo : /\ Titles!Listed(i)' = Titles!Listed(i)
                           /\ Titles!InFile(i)' = Titles!InFile(i)
                           /\ KeyAt(i)' = KeyAt(i)
    BY <1>1 DEF Titles!Listed, Titles!InFile, KeyAt
  <2>3. seen' = {Titles!Listed(i) : i \in 0 .. lo - 1}'
    BY <1>1, <1>6, <2>1 DEF Titles!Listed
  <2>4. \A i \in (0 .. lo - 1)' :
          Titles!InFile(i)' /\ (subset' => KeyAt(i)'.ns = Content)
    BY <1>1, <1>7, <2>1, <2>2
  <2>5. \A i, j \in (0 .. lo - 1)' :
          i < j => /\ Titles!Listed(i)' # Titles!Listed(j)'
                   /\ ~Titles!Before(KeyAt(j)', KeyAt(i)')
    BY <1>8, <2>1, <2>2
  <2>6. QED BY <1>1, <2>3, <2>4, <2>5 DEF Passed, Titles!Before
<1>10. TitleWindows'
  BY <1>1 DEF TitleWindows
<1>11. Titles!VerdictExact' /\ Titles!TitleExact' /\ Titles!RangeExact'
  BY <1>1, TitleSame DEF TitleInv, Titles!VerdictExact, Titles!TitleExact, Titles!RangeExact
<1>12. QED BY <1>5, <1>9, <1>10, <1>11 DEF TitleInv

\* valid_title_listing: its verdict.
LEMMA TitleVerdict ==
  ASSUME TitleInv, Titles!CheckRefuses \/ Titles!CheckPasses
  PROVE  TitleInv'
<1>1. /\ UNCHANGED <<dir, listing, subset, key, lo, hi, seen, first, past, at, answer>>
      /\ op = "check" /\ op' = "idle" /\ checked' \in {"valid", "invalid"}
      /\ answer = "none" /\ hi = Len(listing) /\ lo \in Nat /\ TitleTypes /\ Passed
      /\ lo <= hi
  BY DEF Titles!CheckRefuses, Titles!CheckPasses, Titles!Verdict, TitleInv, TitleTypes
<1>2. Len(listing) \in Nat /\ TitleN \in Nat
  BY <1>1, Listings
<1>3. (checked' = "valid" => Titles!Valid) /\ (checked' = "invalid" => ~Titles!Valid)
  <2>1. CASE Titles!CheckPasses
    <3>1. checked' = "valid" /\ ~Titles!WrongLength /\ lo = Len(listing)
      BY <1>1, <1>2, <2>1 DEF Titles!CheckPasses, Titles!Verdict
    <3>2. 0 .. lo - 1 = Titles!Positions
      BY <3>1 DEF Titles!Positions
    <3>3. /\ \A i \in Titles!Positions :
               Titles!InFile(i) /\ (subset => KeyAt(i).ns = Content)
          /\ \A i, j \in Titles!Positions :
               i < j => /\ Titles!Listed(i) # Titles!Listed(j)
                        /\ ~Titles!Before(KeyAt(j), KeyAt(i))
      BY <1>1, <3>2 DEF Passed
    <3>4. \A i, j \in Titles!Positions : i # j => Titles!Listed(i) # Titles!Listed(j)
      <4>1. SUFFICES ASSUME NEW i \in Titles!Positions, NEW j \in Titles!Positions, i # j
                     PROVE  Titles!Listed(i) # Titles!Listed(j)
        OBVIOUS
      <4>2. i \in Nat /\ j \in Nat
        BY <1>1, Listings
      <4>3. CASE i < j
        BY <3>3, <4>3
      <4>4. CASE j < i
        BY <3>3, <4>4
      <4>5. QED BY <4>1, <4>2, <4>3, <4>4
    <3>5. ~subset => {Titles!Listed(i) : i \in Titles!Positions} = Titles!Index
      BY <1>1, <3>1, <3>3, <3>4, ListsAll DEF Titles!WrongLength
    <3>6. QED BY <3>1, <3>3, <3>4, <3>5 DEF Titles!Valid, KeyAt
  <2>2. CASE Titles!CheckRefuses
    <3>1. /\ checked' = "invalid"
          /\ Titles!WrongLength \/ (lo < hi /\ ~Titles!Fits)
      BY <2>2 DEF Titles!CheckRefuses, Titles!Verdict
    <3>2. SUFFICES ASSUME Titles!Valid PROVE FALSE
      BY <3>1
    <3>3. ~Titles!WrongLength
      BY <1>1, <3>2, ListsAll DEF Titles!WrongLength, Titles!Valid
    <3>4. lo \in Titles!Positions /\ \A i \in 0 .. lo - 1 : i \in Titles!Positions /\ i # lo
      BY <1>1, <1>2, <3>1, <3>3, Listings
    <3>5. Titles!Listed(lo) \notin seen
      BY <1>1, <3>2, <3>4 DEF Passed, Titles!Valid
    <3>6. lo > 0 => ~Titles!Before(KeyAt(lo), KeyAt(lo - 1))
      <4>1. lo > 0 => lo - 1 \in 0 .. lo - 1 /\ lo - 1 < lo
        BY <1>1
      <4>2. QED BY <3>2, <3>4, <4>1 DEF Titles!Valid, KeyAt
    <3>7. QED BY <3>1, <3>2, <3>3, <3>4, <3>5, <3>6 DEF Titles!Fits, Titles!Valid, KeyAt
  <2>3. QED BY <2>1, <2>2
<1>4. TitleTypes'
  BY <1>1 DEF TitleTypes
<1>5. Passed' /\ TitleWindows'
  BY <1>1 DEF Passed, TitleWindows
<1>6. Titles!VerdictExact'
  BY <1>1, <1>3, TitleSame DEF Titles!VerdictExact
<1>7. Titles!TitleExact' /\ Titles!RangeExact'
  BY <1>1 DEF Titles!TitleExact, Titles!RangeExact
<1>8. QED BY <1>4, <1>5, <1>6, <1>7 DEF TitleInv

\* A turn of a search: only the window moves.
LEMMA TitleTurn ==
  ASSUME TitleInv, Titles!Left \/ Titles!Right, lo < hi, op \in {"find", "from", "to"},
         checked = "valid" => TitleWindows'
  PROVE  TitleInv'
<1>1. UNCHANGED <<dir, listing, subset, checked, op, key, seen, first, past, at, answer>>
  BY DEF Titles!Left, Titles!Right
<1>2. TitleTypes /\ hi <= Len(listing) /\ Len(listing) \in Nat /\ hi \in Nat /\ lo \in Nat
  BY Listings DEF TitleInv, TitleTypes
<1>3. Titles!Mid \in Nat /\ lo <= Titles!Mid /\ Titles!Mid < hi
  BY <1>2, TitleMid, Listings
<1>4. lo' \in Nat /\ hi' \in Nat /\ lo' <= hi' /\ hi' <= Len(listing)
  <2>1. CASE Titles!Left
    BY <1>2, <1>3, <2>1 DEF Titles!Left
  <2>2. CASE Titles!Right
    BY <1>2, <1>3, <2>2 DEF Titles!Right
  <2>3. QED BY <2>1, <2>2
<1>5. TitleTypes'
  BY <1>1, <1>2, <1>4 DEF TitleTypes
<1>6. Passed'
  BY <1>1 DEF Passed
<1>7. Titles!VerdictExact' /\ Titles!TitleExact' /\ Titles!RangeExact'
  BY <1>1, TitleSame DEF TitleInv, Titles!VerdictExact, Titles!TitleExact,
                         Titles!RangeExact, Titles!Listed
<1>8. QED BY <1>1, <1>5, <1>6, <1>7 DEF TitleInv

\* An answer.
LEMMA TitleSay ==
  ASSUME TitleInv, NEW a \in {"found", "missing", "error"}, NEW i, Titles!Say(a, i),
         checked = "valid" =>
           /\ a # "error"
           /\ a = "found" => dir[i] = key
           /\ a = "missing" => \A j \in Titles!Index : dir[j] # key
  PROVE  TitleInv'
<1>1. /\ UNCHANGED <<dir, listing, subset, checked, key, lo, hi, seen, first, past>>
      /\ op' = "idle" /\ answer' = a /\ at' = i
  BY DEF Titles!Say
<1>2. TitleTypes'
  BY <1>1 DEF TitleInv, TitleTypes
<1>3. Passed' /\ TitleWindows'
  BY <1>1 DEF Passed, TitleWindows
<1>4. Titles!VerdictExact'
  BY <1>1, TitleSame DEF TitleInv, Titles!VerdictExact
<1>5. Titles!TitleExact' /\ Titles!RangeExact'
  BY <1>1 DEF Titles!TitleExact, Titles!RangeExact
<1>6. QED BY <1>2, <1>3, <1>4, <1>5 DEF TitleInv

\* What a turn of a search leaves behind, by the order of the listing.
LEMMA TitleBehind ==
  ASSUME TitleTypes, Titles!Valid, lo < hi, hi <= Len(listing),
         NEW i \in Titles!Positions
  PROVE  /\ Titles!InFile(Titles!Mid) /\ Titles!MidKey = KeyAt(Titles!Mid)
         /\ KeyAt(i) \in Titles!Key /\ KeyAt(Titles!Mid) \in Titles!Key
         /\ i < Titles!Mid + 1 => ~Titles!Before(KeyAt(Titles!Mid), KeyAt(i))
         /\ Titles!Mid <= i => ~Titles!Before(KeyAt(i), KeyAt(Titles!Mid))
<1>1. Titles!Mid \in Titles!Positions
  BY TitleMid
<1>2. Titles!InFile(Titles!Mid) /\ Titles!MidKey = KeyAt(Titles!Mid)
  BY <1>1 DEF Titles!Valid, Titles!MidKey, KeyAt
<1>3. i < Titles!Mid + 1 => i <= Titles!Mid
  BY <1>1, Listings
<1>4. KeyAt(i) \in Titles!Key /\ KeyAt(Titles!Mid) \in Titles!Key
  BY <1>1, Listings DEF Titles!Valid
<1>5. QED BY <1>1, <1>2, <1>3, <1>4, ListingOrder

\* entry_by_ns_title: what left the window is not the key.
LEMMA TitleFind ==
  ASSUME TitleInv, Titles!Find
  PROVE  TitleInv'
<1>1. /\ op = "find" /\ TitleTypes /\ hi <= Len(listing) /\ answer = "none"
      /\ key \in Titles!Key /\ Len(listing) \in Nat /\ lo \in Nat /\ hi \in Nat
      /\ checked = "valid" => Titles!Valid
  BY Listings DEF Titles!Find, Titles!FindLeft, Titles!FindRight, Titles!FindHit, Titles!FindMiss,
              Titles!FindScans, TitleInv, TitleTypes, Titles!VerdictExact
<1>2. CASE Titles!FindLeft
  <2>1. /\ lo < hi /\ Titles!Left /\ Titles!Before(key, Titles!MidKey)
        /\ UNCHANGED <<dir, listing, subset, op, key, lo>> /\ hi' = Titles!Mid
    BY <1>2 DEF Titles!FindLeft, Titles!Left
  <2>2. ASSUME checked = "valid" PROVE TitleWindows'
    <3>1. Titles!Valid /\ TitleWindows
      BY <1>1, <2>2 DEF TitleInv
    <3>2. ASSUME NEW i \in Titles!Positions, Titles!Mid <= i
          PROVE  Titles!Before(key, KeyAt(i))
      BY <1>1, <2>1, <3>1, <3>2, TitleBehind, TitleOrder
    <3>3. \A i \in Titles!Positions' : /\ i \in Titles!Positions /\ KeyAt(i)' = KeyAt(i)
      BY <2>1, TitleSame
    <3>4. \A i \in Titles!Positions' :
            /\ i < lo' => Titles!Before(KeyAt(i)', key')
            /\ hi' <= i => Titles!Before(key', KeyAt(i)')
      BY <1>1, <2>1, <3>1, <3>2, <3>3 DEF TitleWindows
    <3>5. QED BY <1>1, <2>1, <3>4 DEF TitleWindows, Titles!Before
  <2>3. QED BY <1>1, <2>1, <2>2, TitleTurn
<1>3. CASE Titles!FindRight
  <2>1. /\ lo < hi /\ Titles!Right /\ Titles!Before(Titles!MidKey, key)
        /\ UNCHANGED <<dir, listing, subset, op, key, hi>> /\ lo' = Titles!Mid + 1
    BY <1>3 DEF Titles!FindRight, Titles!Right
  <2>2. ASSUME checked = "valid" PROVE TitleWindows'
    <3>1. Titles!Valid /\ TitleWindows
      BY <1>1, <2>2 DEF TitleInv
    <3>2. ASSUME NEW i \in Titles!Positions, i < Titles!Mid + 1
          PROVE  Titles!Before(KeyAt(i), key)
      BY <1>1, <2>1, <3>1, <3>2, TitleBehind, TitleOrder
    <3>3. \A i \in Titles!Positions' : /\ i \in Titles!Positions /\ KeyAt(i)' = KeyAt(i)
      BY <2>1, TitleSame
    <3>4. \A i \in Titles!Positions' :
            /\ i < lo' => Titles!Before(KeyAt(i)', key')
            /\ hi' <= i => Titles!Before(key', KeyAt(i)')
      BY <1>1, <2>1, <3>1, <3>2, <3>3 DEF TitleWindows
    <3>5. QED BY <1>1, <2>1, <3>4 DEF TitleWindows, Titles!Before
  <2>3. QED BY <1>1, <2>1, <2>2, TitleTurn
<1>4. CASE Titles!FindHit
  <2>1. /\ lo < hi /\ Titles!MidKey = key
        /\ Titles!Say("found", Titles!Listed(Titles!Mid))
    BY <1>4 DEF Titles!FindHit
  <2>2. dir[Titles!Listed(Titles!Mid)] = key
    BY <2>1 DEF Titles!MidKey
  <2>3. QED BY <2>1, <2>2, TitleSay
<1>5. ASSUME lo >= hi, checked = "valid", NEW i \in Titles!Positions
      PROVE  KeyAt(i) # key
  <2>1. TitleWindows /\ Titles!Valid
    BY <1>1, <1>5 DEF TitleInv
  <2>2. i < lo \/ hi <= i
    BY <1>1, <1>5, Listings
  <2>3. KeyAt(i) \in Titles!Key
    BY <1>1, <2>1, Listings DEF Titles!Valid
  <2>4. QED BY <1>1, <2>1, <2>2, <2>3, TitleOrder DEF TitleWindows
<1>6. CASE Titles!FindMiss
  <2>1. lo >= hi /\ Len(listing) = TitleN /\ Titles!Say("missing", 0)
    BY <1>6 DEF Titles!FindMiss, Titles!Authoritative
  <2>2. ASSUME checked = "valid" PROVE \A j \in Titles!Index : dir[j] # key
    <3>1. {Titles!Listed(i) : i \in Titles!Positions} = Titles!Index
      BY <1>1, <2>1, <2>2, ListsAll DEF Titles!Valid
    <3>2. QED BY <1>5, <2>1, <2>2, <3>1 DEF KeyAt
  <2>3. QED BY <2>1, <2>2, TitleSay
<1>7. CASE Titles!FindScans
  <2>1. /\ UNCHANGED <<dir, listing, subset, checked, key, seen, first, past, at, answer>>
        /\ op' = "scan" /\ lo' = 0 /\ hi' = TitleN
    BY <1>7 DEF Titles!FindScans
  <2>2. TitleTypes'
    BY <1>1, <2>1, Listings DEF TitleTypes
  <2>3. Passed' /\ TitleWindows'
    <3>1. (0 .. lo - 1)' = {}
      BY <2>1
    <3>2. QED BY <2>1, <3>1 DEF Passed, TitleWindows
  <2>4. Titles!VerdictExact' /\ Titles!TitleExact' /\ Titles!RangeExact'
    BY <1>1, <2>1, TitleSame DEF TitleInv, Titles!VerdictExact, Titles!TitleExact,
                                 Titles!RangeExact
  <2>5. QED BY <2>2, <2>3, <2>4 DEF TitleInv
<1>8. QED BY <1>2, <1>3, <1>4, <1>6, <1>7 DEF Titles!Find

\* The scan of the directory.
LEMMA TitleScan ==
  ASSUME TitleInv, Titles!Scan
  PROVE  TitleInv'
<1>1. /\ op = "scan" /\ TitleTypes /\ answer = "none" /\ hi = TitleN
      /\ lo \in Nat /\ TitleN \in Nat
  BY TitleAssumption DEF Titles!Scan, Titles!ScanOn, Titles!ScanHit, Titles!ScanMiss,
                         TitleInv, TitleTypes
<1>2. CASE Titles!ScanOn
  <2>1. /\ UNCHANGED <<dir, listing, subset, checked, op, key, hi, seen, first, past, at, answer>>
        /\ lo < hi /\ dir[lo] # key /\ lo' = lo + 1
    BY <1>2 DEF Titles!ScanOn
  <2>2. TitleTypes'
    BY <1>1, <2>1 DEF TitleTypes
  <2>3. Passed'
    BY <1>1, <2>1 DEF Passed
  <2>4. checked = "valid" => TitleWindows'
    <3>1. SUFFICES ASSUME checked = "valid", NEW i \in 0 .. lo PROVE dir[i] # key
      <4>1. (0 .. lo - 1)' = 0 .. lo
        BY <1>1, <2>1
      <4>2. QED BY <1>1, <2>1, <4>1 DEF TitleWindows
    <3>2. TitleWindows /\ (i \in 0 .. lo - 1 \/ i = lo)
      BY <1>1, <3>1 DEF TitleInv
    <3>3. QED BY <1>1, <2>1, <3>2 DEF TitleWindows
  <2>5. Titles!VerdictExact' /\ Titles!TitleExact' /\ Titles!RangeExact'
    BY <1>1, <2>1, TitleSame DEF TitleInv, Titles!VerdictExact, Titles!TitleExact,
                                 Titles!RangeExact
  <2>6. QED BY <2>1, <2>2, <2>3, <2>4, <2>5 DEF TitleInv
<1>3. CASE Titles!ScanHit
  <2>1. dir[lo] = key /\ Titles!Say("found", lo)
    BY <1>3 DEF Titles!ScanHit
  <2>2. QED BY <2>1, TitleSay
<1>4. CASE Titles!ScanMiss
  <2>1. lo >= hi /\ Titles!Say("missing", 0)
    BY <1>4 DEF Titles!ScanMiss
  <2>2. ASSUME checked = "valid" PROVE \A j \in Titles!Index : dir[j] # key
    <3>1. \A j \in Titles!Index : j \in 0 .. lo - 1
      BY <1>1, <2>1 DEF Titles!Index
    <3>2. QED BY <1>1, <2>2, <3>1 DEF TitleInv, TitleWindows
  <2>3. QED BY <2>1, <2>2, TitleSay
<1>5. QED BY <1>2, <1>3, <1>4 DEF Titles!Scan

\* An index past the directory is not in a valid listing.
LEMMA TitleFails ==
  ASSUME TitleInv, Titles!Fails
  PROVE  TitleInv'
<1>1. /\ lo < hi /\ ~Titles!InFile(Titles!Mid) /\ Titles!Say("error", 0)
      /\ TitleTypes /\ hi <= Len(listing)
  BY DEF Titles!Fails, TitleInv, TitleTypes
<1>2. checked # "valid"
  BY <1>1, TitleMid DEF TitleInv, Titles!VerdictExact, Titles!Valid
<1>3. QED BY <1>1, <1>2, TitleSay

\* title_prefix_range: what left the window is on its side of the range.
LEMMA TitleRange ==
  ASSUME TitleInv, Titles!PrefixRange
  PROVE  TitleInv'
<1>1. /\ op \in {"from", "to"} /\ TitleTypes /\ hi <= Len(listing) /\ answer = "none"
      /\ key \in Titles!Key /\ Len(listing) \in Nat /\ lo \in Nat /\ hi \in Nat
      /\ first \in Nat /\ past \in Nat
      /\ checked = "valid" => Titles!Valid
  BY Listings DEF Titles!PrefixRange, Titles!RangeLeft, Titles!RangeRight, Titles!FromDone,
              Titles!ToDone, TitleInv, TitleTypes, Titles!VerdictExact
<1>2. ASSUME NEW a \in Titles!Key, NEW b \in Titles!Key,
             Titles!Below(a), ~Titles!Before(a, b)
      PROVE  Titles!Below(b)
  BY <1>1, <1>2, TitleOrder DEF Titles!Below
<1>3. CASE Titles!RangeRight
  <2>1. /\ lo < hi /\ Titles!Right /\ Titles!Below(Titles!MidKey)
        /\ UNCHANGED <<dir, listing, subset, op, key, hi, first>> /\ lo' = Titles!Mid + 1
    BY <1>3 DEF Titles!RangeRight, Titles!Right
  <2>2. ASSUME checked = "valid" PROVE TitleWindows'
    <3>1. Titles!Valid /\ TitleWindows
      BY <1>1, <2>2 DEF TitleInv
    <3>2. ASSUME NEW i \in Titles!Positions, i < Titles!Mid + 1
          PROVE  Titles!Below(KeyAt(i))
      <4>1. /\ Titles!Below(KeyAt(Titles!Mid))
            /\ KeyAt(i) \in Titles!Key /\ KeyAt(Titles!Mid) \in Titles!Key
            /\ ~Titles!Before(KeyAt(Titles!Mid), KeyAt(i))
        BY <1>1, <2>1, <3>1, <3>2, TitleBehind
      <4>2. QED BY <1>2, <4>1
    <3>3. \A i \in Titles!Positions : /\ i < Titles!Mid + 1 => Titles!Below(KeyAt(i))
                                      /\ hi <= i => ~Titles!Below(KeyAt(i))
      BY <1>1, <3>1, <3>2 DEF TitleWindows
    <3>4. \A i \in Titles!Positions' :
            i \in Titles!Positions /\ KeyAt(i)' = KeyAt(i)
      BY <2>1, TitleSame
    <3>5. \A i \in Titles!Positions' : /\ i < lo' => Titles!Below(KeyAt(i))'
                                       /\ hi' <= i => ~Titles!Below(KeyAt(i))'
      BY <2>1, <3>3, <3>4 DEF Titles!Below, Titles!Before, Titles!BeforeEnd
    <3>6. op' = "to" => \A i \in Titles!Positions' :
            i < first' <=> Titles!Before(KeyAt(i), key)'
      BY <2>1, <3>1, <3>4 DEF TitleWindows, Titles!Before
    <3>7. QED BY <1>1, <2>1, <3>5, <3>6 DEF TitleWindows
  <2>3. QED BY <1>1, <2>1, <2>2, TitleTurn
<1>4. CASE Titles!RangeLeft
  <2>1. /\ lo < hi /\ Titles!Left /\ ~Titles!Below(Titles!MidKey)
        /\ UNCHANGED <<dir, listing, subset, op, key, lo, first>> /\ hi' = Titles!Mid
    BY <1>4 DEF Titles!RangeLeft, Titles!Left
  <2>2. ASSUME checked = "valid" PROVE TitleWindows'
    <3>1. Titles!Valid /\ TitleWindows
      BY <1>1, <2>2 DEF TitleInv
    <3>2. ASSUME NEW i \in Titles!Positions, Titles!Mid <= i
          PROVE  ~Titles!Below(KeyAt(i))
      <4>1. /\ ~Titles!Below(KeyAt(Titles!Mid))
            /\ KeyAt(i) \in Titles!Key /\ KeyAt(Titles!Mid) \in Titles!Key
            /\ ~Titles!Before(KeyAt(i), KeyAt(Titles!Mid))
        BY <1>1, <2>1, <3>1, <3>2, TitleBehind
      <4>2. QED BY <1>2, <4>1
    <3>3. \A i \in Titles!Positions : /\ i < lo => Titles!Below(KeyAt(i))
                                      /\ Titles!Mid <= i => ~Titles!Below(KeyAt(i))
      BY <1>1, <3>1, <3>2 DEF TitleWindows
    <3>4. \A i \in Titles!Positions' :
            i \in Titles!Positions /\ KeyAt(i)' = KeyAt(i)
      BY <2>1, TitleSame
    <3>5. \A i \in Titles!Positions' : /\ i < lo' => Titles!Below(KeyAt(i))'
                                       /\ hi' <= i => ~Titles!Below(KeyAt(i))'
      BY <2>1, <3>3, <3>4 DEF Titles!Below, Titles!Before, Titles!BeforeEnd
    <3>6. op' = "to" => \A i \in Titles!Positions' :
            i < first' <=> Titles!Before(KeyAt(i), key)'
      BY <2>1, <3>1, <3>4 DEF TitleWindows, Titles!Before
    <3>7. QED BY <1>1, <2>1, <3>5, <3>6 DEF TitleWindows
  <2>3. QED BY <1>1, <2>1, <2>2, TitleTurn
<1>5. ASSUME lo >= hi, checked = "valid", NEW i \in Titles!Positions
      PROVE  i < lo <=> Titles!Below(KeyAt(i))
  <2>1. TitleWindows
    BY <1>1, <1>5 DEF TitleInv
  <2>2. i < lo \/ hi <= i
    BY <1>1, <1>5, Listings
  <2>3. ~(i < lo) \/ ~(hi <= i)
    BY <1>1, <1>5, Listings DEF TitleTypes
  <2>4. QED BY <1>1, <2>1, <2>2, <2>3 DEF TitleWindows
<1>6. CASE Titles!FromDone
  <2>1. /\ UNCHANGED <<dir, listing, subset, checked, key, seen, past, at, answer>>
        /\ op = "from" /\ op' = "to" /\ lo >= hi
        /\ first' = lo /\ lo' = 0 /\ hi' = Len(listing)
    BY <1>6 DEF Titles!FromDone
  <2>2. TitleTypes'
    BY <1>1, <2>1 DEF TitleTypes
  <2>3. ASSUME checked = "valid" PROVE TitleWindows'
    <3>1. \A i \in Titles!Positions' :
            /\ i \in Titles!Positions /\ KeyAt(i)' = KeyAt(i)
            /\ ~(i < lo') /\ ~(hi' <= i)
      BY <1>1, <2>1, TitleSame, Listings
    <3>2. \A i \in Titles!Positions : i < lo <=> Titles!Before(KeyAt(i), key)
      BY <1>5, <2>1, <2>3 DEF Titles!Below
    <3>3. \A i \in Titles!Positions' : i < first' <=> Titles!Before(KeyAt(i), key)'
      BY <2>1, <3>1, <3>2 DEF Titles!Before
    <3>4. QED BY <2>1, <3>1, <3>3 DEF TitleWindows
  <2>4. Passed'
    BY <2>1 DEF Passed
  <2>5. Titles!VerdictExact' /\ Titles!TitleExact' /\ Titles!RangeExact'
    BY <1>1, <2>1, TitleSame DEF TitleInv, Titles!VerdictExact, Titles!TitleExact,
                                 Titles!RangeExact
  <2>6. QED BY <2>1, <2>2, <2>3, <2>4, <2>5 DEF TitleInv
<1>7. CASE Titles!ToDone
  <2>1. /\ UNCHANGED <<dir, listing, subset, checked, key, lo, hi, seen, first, at>>
        /\ op = "to" /\ op' = "idle" /\ lo >= hi /\ past' = lo /\ answer' = "range"
    BY <1>7 DEF Titles!ToDone
  <2>2. TitleTypes'
    BY <1>1, <2>1 DEF TitleTypes
  <2>3. Passed' /\ TitleWindows'
    BY <2>1 DEF Passed, TitleWindows
  <2>4. Titles!VerdictExact' /\ Titles!TitleExact'
    BY <2>1, TitleSame DEF TitleInv, Titles!VerdictExact, Titles!TitleExact
  <2>5. Titles!RangeExact'
    <3>1. SUFFICES ASSUME checked = "valid", NEW i \in Titles!Positions
                   PROVE  (/\ KeyAt(i).ns = key.ns /\ key.title <= KeyAt(i).title
                           /\ KeyAt(i).title < TitlePrefixEnd[key.title])
                            <=> first <= i /\ i < lo
      BY <2>1, TitleSame DEF Titles!RangeExact, KeyAt, Titles!Listed
    <3>2. Titles!Valid /\ TitleWindows
      BY <1>1, <3>1 DEF TitleInv
    <3>3. i < first <=> Titles!Before(KeyAt(i), key)
      BY <2>1, <3>1, <3>2 DEF TitleWindows
    <3>4. i < lo <=> Titles!BeforeEnd(KeyAt(i), key)
      BY <1>5, <2>1, <3>1 DEF Titles!Below
    <3>5. i \in Nat /\ KeyAt(i) \in Titles!Key
      BY <1>1, <3>2, Listings DEF Titles!Valid
    <3>6. /\ {KeyAt(i).ns, key.ns, KeyAt(i).title, key.title} \subseteq Nat
          /\ TitlePrefixEnd[key.title] \in Nat
      BY <1>1, <3>5, TitleAssumption DEF Titles!Key
    <3>7. QED BY <1>1, <3>3, <3>4, <3>5, <3>6 DEF Titles!Before, Titles!BeforeEnd
  <2>6. QED BY <2>2, <2>3, <2>4, <2>5 DEF TitleInv
<1>8. QED BY <1>3, <1>4, <1>6, <1>7 DEF Titles!PrefixRange

\* No step of the title searches.
LEMMA TitleQuiet ==
  ASSUME TitleInv, UNCHANGED <<dir, checked, op, key, lo, hi, first, past, answer,
                               listing, subset, seen, at>>
  PROVE  TitleInv'
<1>1. TitleTypes' /\ Passed' /\ (checked' = "valid" => TitleWindows')
  BY DEF TitleInv, TitleTypes, Passed, TitleWindows, KeyAt, Titles!Listed, Titles!InFile,
         Titles!Positions, Titles!Below, Titles!Before, Titles!BeforeEnd
<1>2. Titles!VerdictExact' /\ Titles!TitleExact' /\ Titles!RangeExact'
  BY TitleSame DEF TitleInv, Titles!VerdictExact, Titles!TitleExact,
                   Titles!RangeExact, Titles!Listed
<1>3. QED BY <1>1, <1>2 DEF TitleInv

(* The inductive invariant of the title searches, in every behaviour of the   *)
(* reader: what the scan of valid_title_listing and the windows of the binary *)
(* searches have passed is decided.                                           *)
THEOREM TitleInvariance == ReaderSpec => [](part = "titles" => TitleInv)
<1>1. ReaderInit => (part = "titles" => TitleInv)
  BY TitleInit DEF ReaderInit
<1>2. ASSUME part = "titles" => TitleInv,
             [ReaderNext]_readerVars
      PROVE  (part = "titles" => TitleInv)'
  <2>1. SUFFICES ASSUME part' = "titles" PROVE TitleInv'
    OBVIOUS
  <2>2. CASE ByTitle
    <3>1. TitleInv
      BY <1>2, <2>2 DEF ByTitle
    <3>2. Titles!Next
      BY <2>2 DEF ByTitle
    <3>3. CASE Titles!Work
      BY <3>1, <3>3, TitleCheckEntry, TitleVerdict, TitleFind, TitleScan, TitleRange,
         TitleFails DEF Titles!Work, Titles!Check
    <3>4. ASSUME NEW o \in {"check", "find", "from"}, NEW k \in Titles!Key, Titles!Ask(o, k)
          PROVE  TitleInv'
      BY <3>1, <3>4, TitleAsk
    <3>5. QED BY <3>2, <3>3, <3>4 DEF Titles!Next
  <2>3. CASE ByPath \/ InFile \/ InCluster \/ InCache
    BY <2>1, <2>3 DEF ByPath, InFile, InCluster, InCache
  <2>4. CASE UNCHANGED readerVars
    <3>1. TitleInv
      BY <1>2, <2>1, <2>4 DEF readerVars
    <3>2. UNCHANGED <<dir, checked, op, key, lo, hi, first, past, answer,
                      listing, subset, seen, at>>
      BY <2>4 DEF readerVars, lookup, titles
    <3>3. QED BY <3>1, <3>2, TitleQuiet
  <2>5. QED BY <1>2, <2>2, <2>3, <2>4 DEF ReaderNext
<1>3. QED BY <1>1, <1>2, PTL DEF ReaderSpec

\* check_title_index accepts a listing of any length exactly when it is valid.
THEOREM ListingVerdictIsExact == ReaderSpec => []ListingVerdictExact
<1>1. (part = "titles" => TitleInv) => ListingVerdictExact
  BY DEF TitleInv, ListingVerdictExact
<1>2. QED BY <1>1, TitleInvariance, PTL

\* On a listing that was accepted every title search is exact.
THEOREM TitlesAreExact == ReaderSpec => []TitlesExact
<1>1. (part = "titles" => TitleInv) => TitlesExact
  BY DEF TitleInv, TitlesExact
<1>2. QED BY <1>1, TitleInvariance, PTL

----------------------------------------------------------------------------
(* Files *)

Positions == [url : Nat, title : Nat, cluster : Nat, dirents : Nat, checksum : Nat]

\* Stages in which the header is in the file.
Headed == {"digest", "sealed", "torn", "cut", "foreign"}
Stages == {"clusters", "tables", "mimes", "header"} \cup Headed

FileTypes ==
    /\ stage \in Stages
    /\ eof \in Nat
    /\ layout \in Positions
    /\ head \subseteq Positions
    /\ DOMAIN ptrs \subseteq Cluster
    /\ ptrs \in [DOMAIN ptrs -> Nat]
    /\ stage # "clusters" => DOMAIN ptrs = Cluster
    /\ head # {} => stage \in Headed

\* Where the clusters end: where the first table begins.
DataEnd == IF stage = "clusters" THEN eof ELSE layout.url

\* Each cluster is followed at once by another one, or by the first table.
Tiled ==
    /\ DOMAIN size = DOMAIN ptrs
    /\ size \in [DOMAIN ptrs -> Nat \ {0}]
    /\ \A i \in DOMAIN ptrs : ptrs[i] + size[i] <= DataEnd
    /\ \A i, j \in DOMAIN ptrs : ptrs[i] < ptrs[j] => ptrs[i] + size[i] <= ptrs[j]
    /\ \A i \in DOMAIN ptrs :
         \/ ptrs[i] + size[i] = DataEnd
         \/ \E j \in DOMAIN ptrs : ptrs[j] = ptrs[i] + size[i]
    /\ DataEnd >= Reserved

\* How much of the file there is at each stage.
Extended ==
    /\ stage # "clusters" => layout = LayoutFrom(layout.url)
    /\ head \subseteq {layout}
    /\ stage = "tables" => eof = layout.url
    /\ stage \in {"mimes", "header", "digest"} => eof = layout.checksum
    /\ stage = "sealed" => eof = layout.checksum + Md5Len
    /\ stage = "torn" /\ head # {} => eof \in layout.checksum .. layout.checksum + Md5Len - 1
    /\ stage = "cut" => eof < layout.checksum + Md5Len

LayoutInv == FileTypes /\ (stage # "foreign" => Tiled /\ Extended)

----------------------------------------------------------------------------
(* The layout that finalize computes *)

\* The tables follow each other.
LEMMA LayoutOrder ==
  ASSUME NEW end \in Nat
  PROVE  LET l == LayoutFrom(end)
         IN  /\ l \in Positions
             /\ l.url = end
             /\ l.title = l.url + Dirents
             /\ l.title <= l.cluster
             /\ l.dirents = l.cluster + ClusterCount
             /\ l.checksum = l.dirents + DirentLen * Dirents
             /\ l.dirents <= l.checksum
<1>1. Dirents \in Nat /\ ClusterCount \in Nat /\ DirentLen \in Nat
  BY SizeAssumption
<1>2. Dirents \div 2 \in Nat
  BY <1>1
<1>3. DirentLen * Dirents \in Nat
  BY <1>1
<1>4. QED BY <1>1, <1>2, <1>3 DEF LayoutFrom, Positions

----------------------------------------------------------------------------
(* The initial states and the steps *)

\* The placeholder header of a fresh file, or any header of another writer,
\* satisfies the invariant.
LEMMA LayoutInit ==
  ASSUME FileInit
  PROVE  LayoutInv
<1>1. None \in Positions
  BY DEF None, Positions
<1>2. CASE stage = "clusters"
  <2>1. ptrs = << >> /\ head = {} /\ eof = Reserved /\ size = << >>
    BY <1>2 DEF FileInit
  <2>2. DOMAIN ptrs = {}
    BY <2>1
  <2>3. QED BY <1>1, <1>2, <2>1, <2>2, SizeAssumption
            DEF FileInit, LayoutInv, FileTypes, Tiled, Extended, Stages, Headed, DataEnd
<1>3. CASE stage = "foreign"
  <2>1. Claims \subseteq Positions
    BY SizeAssumption DEF Claims, Positions
  <2>2. QED BY <1>1, <1>3, <2>1, SizeAssumption DEF FileInit, LayoutInv, FileTypes, Stages, Headed
<1>4. QED BY <1>2, <1>3 DEF FileInit

\* A cluster that lands at the end of the file follows those that are there.
LEMMA StepLand ==
  ASSUME LayoutInv, NEW i \in Cluster, NEW n \in Lengths, Land(i, n)
  PROVE  LayoutInv'
<1> DEFINE old == DOMAIN ptrs
<1>1. /\ stage = "clusters" /\ stage' = "clusters"
      /\ head = {} /\ head' = {}
      /\ layout' = layout
      /\ i \notin old
      /\ n \in Nat \ {0} /\ eof \in Nat
      /\ eof' = eof + n
  BY SizeAssumption DEF Land, LayoutInv, FileTypes, Headed
<1>2. /\ DOMAIN ptrs' = old \cup {i}
      /\ ptrs'[i] = eof
      /\ \A j \in old : ptrs'[j] = ptrs[j] /\ ptrs[j] \in Nat
      /\ ptrs' \in [DOMAIN ptrs' -> Nat]
  BY <1>1 DEF Land, With, LayoutInv, FileTypes
<1>3. /\ DOMAIN size' = old \cup {i}
      /\ size'[i] = n
      /\ \A j \in old : size'[j] = size[j] /\ size[j] \in Nat \ {0}
      /\ size' \in [DOMAIN size' -> Nat \ {0}]
  BY <1>1 DEF Land, With, LayoutInv, Tiled
<1>4. DataEnd = eof /\ DataEnd' = eof + n
  BY <1>1 DEF DataEnd
<1>5. FileTypes'
  BY <1>1, <1>2 DEF LayoutInv, FileTypes, Stages, Headed
<1>6. /\ \A j \in old : ptrs[j] + size[j] <= eof
      /\ \A j, k \in old : ptrs[j] < ptrs[k] => ptrs[j] + size[j] <= ptrs[k]
      /\ \A j \in old : \/ ptrs[j] + size[j] = eof
                        \/ \E k \in old : ptrs[k] = ptrs[j] + size[j]
      /\ eof >= Reserved
  BY <1>1, <1>4 DEF LayoutInv, Tiled
<1>7. Tiled'
  <2>1. \A j \in old \cup {i} : ptrs'[j] + size'[j] <= eof + n
    BY <1>1, <1>2, <1>3, <1>6
  <2>2. \A j, k \in old \cup {i} : ptrs'[j] < ptrs'[k] => ptrs'[j] + size'[j] <= ptrs'[k]
    BY <1>1, <1>2, <1>3, <1>6
  <2>3. \A j \in old \cup {i} : \/ ptrs'[j] + size'[j] = eof + n
                                \/ \E k \in old \cup {i} : ptrs'[k] = ptrs'[j] + size'[j]
    BY <1>1, <1>2, <1>3, <1>6
  <2>4. eof + n >= Reserved
    BY <1>1, <1>6, SizeAssumption
  <2>5. QED BY <1>2, <1>3, <1>4, <2>1, <2>2, <2>3, <2>4 DEF Tiled
<1>8. Extended'
  BY <1>1 DEF Extended
<1>9. QED BY <1>5, <1>7, <1>8 DEF LayoutInv

\* finalize and the end of the process leave the clusters where they are.
LEMMA StepTables ==
  ASSUME LayoutInv,
         \/ PlanTables \/ WriteTables \/ WriteMimes \/ WriteHeader \/ WriteDigest \/ Torn
         \/ \E n \in Reserved .. eof : CutShort(n)
  PROVE  LayoutInv'
<1>1. CASE PlanTables
  <2>1. layout' = LayoutFrom(eof) /\ eof \in Nat
    BY <1>1 DEF PlanTables, LayoutInv, FileTypes
  <2>2. layout' \in Positions /\ layout'.url = eof
    BY <2>1, LayoutOrder
  <2>3. FileTypes'
    BY <1>1, <2>2 DEF PlanTables, LayoutInv, FileTypes, Stages, Headed
  <2>4. DataEnd' = DataEnd
    BY <1>1, <2>2 DEF PlanTables, DataEnd
  <2>5. Tiled'
    BY <1>1, <2>4 DEF PlanTables, LayoutInv, Tiled
  <2>6. Extended'
    BY <1>1, <2>1, <2>2 DEF PlanTables, LayoutInv, FileTypes, Extended, Headed
  <2>7. QED BY <2>3, <2>5, <2>6 DEF LayoutInv
<1>2. ASSUME \/ WriteTables \/ WriteMimes \/ WriteHeader \/ WriteDigest \/ Torn
             \/ \E n \in Reserved .. eof : CutShort(n)
      PROVE  LayoutInv'
  <2>1. /\ stage \notin {"clusters", "foreign"}
        /\ stage' \notin {"clusters", "foreign"}
        /\ ptrs' = ptrs /\ size' = size /\ layout' = layout
    BY <1>2 DEF WriteTables, WriteMimes, WriteHeader, WriteDigest, Torn, CutShort
  <2>2. FileTypes /\ Tiled /\ Extended
    BY <2>1 DEF LayoutInv
  <2>3. DataEnd' = DataEnd /\ Tiled'
    BY <2>1, <2>2 DEF DataEnd, Tiled
  <2>4. layout.url \in Nat /\ layout.checksum \in Nat /\ eof \in Nat /\ Reserved \in Nat
    BY <2>2, SizeAssumption DEF FileTypes, Positions
  <2>5. FileTypes' /\ Extended'
    <3>1. CASE WriteTables
      BY <2>1, <2>2, <2>4, <3>1 DEF WriteTables, FileTypes, Extended, Stages, Headed
    <3>2. CASE WriteMimes
      BY <2>1, <2>2, <2>4, <3>2 DEF WriteMimes, FileTypes, Extended, Stages, Headed
    <3>3. CASE WriteHeader
      BY <2>1, <2>2, <2>4, <3>3 DEF WriteHeader, FileTypes, Extended, Stages, Headed
    <3>4. CASE WriteDigest
      BY <2>1, <2>2, <2>4, <3>4 DEF WriteDigest, FileTypes, Extended, Stages, Headed, Md5Len
    <3>5. CASE Torn
      <4>1. CASE stage = "tables"
        BY <2>1, <2>2, <2>4, <3>5, <4>1 DEF Torn, FileTypes, Extended, Stages, Headed
      <4>2. CASE stage = "digest"
        BY <2>1, <2>2, <2>4, <3>5, <4>2 DEF Torn, FileTypes, Extended, Stages, Headed, Md5Len
      <4>3. QED BY <3>5, <4>1, <4>2 DEF Torn
    <3>6. ASSUME NEW n \in Reserved .. eof, CutShort(n) PROVE FileTypes' /\ Extended'
      BY <2>1, <2>2, <2>4, <3>6 DEF CutShort, FileTypes, Extended, Stages, Headed, Md5Len
    <3>7. QED BY <1>2, <3>1, <3>2, <3>3, <3>4, <3>5, <3>6
  <2>6. QED BY <2>3, <2>5 DEF LayoutInv
<1>3. QED BY <1>1, <1>2

\* Where the clusters are is settled once and for all.
THEOREM LayoutInvariance == FileSpec => []LayoutInv
<1>1. FileInit => LayoutInv
  BY LayoutInit
<1>2. ASSUME LayoutInv, [FileNext]_fileVars PROVE LayoutInv'
  <2>1. ASSUME NEW i \in Cluster, NEW n \in Lengths, Land(i, n) PROVE LayoutInv'
    BY <1>2, <2>1, StepLand
  <2>2. CASE \/ PlanTables \/ WriteTables \/ WriteMimes \/ WriteHeader \/ WriteDigest \/ Torn
             \/ \E n \in Reserved .. eof : CutShort(n)
    BY <1>2, <2>2, StepTables
  <2>3. CASE UNCHANGED fileVars
    BY <1>2, <2>3 DEF fileVars, LayoutInv, FileTypes, Tiled, Extended, DataEnd
  <2>4. QED BY <1>2, <2>1, <2>2, <2>3 DEF FileNext
<1>3. QED BY <1>1, <1>2, PTL DEF FileSpec

----------------------------------------------------------------------------
(* What a reader computes *)

\* In any file, the boundary behind a start is behind it, unless nothing is,
\* and before every table that is behind it.
LEMMA BoundaryIsNext ==
  ASSUME FileTypes, NEW h \in head, NEW start \in Nat
  PROVE  LET b == BoundaryAfter(h, start)
         IN  /\ b \in Nat
             /\ \A p \in {h.url, h.title, h.cluster, EndOfData(h)} : start < p => b <= p
             /\ start < b => b \in {h.url, h.title, h.cluster, EndOfData(h)}
<1> DEFINE places == {h.url, h.title, h.cluster, EndOfData(h)}
           after == {p \in places : p > start}
<1>1. EndOfData(h) \in Nat /\ places \subseteq Nat
  BY DEF FileTypes, Positions, EndOfData
<1>2. BoundaryAfter(h, start) = IF after = {} THEN EndOfData(h) ELSE Min(after)
  BY DEF BoundaryAfter
<1>3. after # {} => Min(after) \in after /\ \A p \in after : Min(after) <= p
  <2> HIDE DEF places
  <2>1. after \in SUBSET Nat
    BY <1>1
  <2> HIDE DEF after
  <2>2. QED BY <2>1, MinOfNaturals
<1> HIDE DEF places
<1>4. QED BY <1>1, <1>2, <1>3 DEF places

\* The end of a cluster is the least of the boundary and the later clusters.
LEMMA EndIsNext ==
  ASSUME FileTypes, DOMAIN ptrs = Cluster, NEW h \in head, NEW start \in Nat
  PROVE  LET e == SliceEnd(h, start)
         IN  /\ e \in {BoundaryAfter(h, start)} \cup {ptrs[j] : j \in Cluster}
             /\ e <= BoundaryAfter(h, start)
             /\ \A j \in Cluster : start < ptrs[j] => e <= ptrs[j]
             /\ e = BoundaryAfter(h, start) \/ start < e
             /\ e \in Nat
<1> DEFINE later == {ptrs[i] : i \in {j \in Cluster : ptrs[j] > start}}
           ends == {BoundaryAfter(h, start)} \cup later
<1>1. BoundaryAfter(h, start) \in Nat
  BY BoundaryIsNext
<1>2. later \subseteq Nat
  BY DEF FileTypes
<1>3. SliceEnd(h, start) = Min(ends)
  BY DEF SliceEnd
<1>4. Min(ends) \in ends /\ \A p \in ends : Min(ends) <= p
  <2>1. ends \in SUBSET Nat /\ ends # {}
    BY <1>1, <1>2
  <2> HIDE DEF ends
  <2>2. QED BY <2>1, MinOfNaturals
<1>5. \A j \in Cluster : start < ptrs[j] => ptrs[j] \in later
  BY DEF FileTypes
<1>6. \A p \in later : start < p /\ \E j \in Cluster : p = ptrs[j]
  BY DEF FileTypes
<1> HIDE DEF later
<1>7. QED BY <1>1, <1>2, <1>3, <1>4, <1>5, <1>6

\* The extents of clusters never overlap each other or a table, whatever the
\* header and the pointers of a file claim.
THEOREM ExtentsAreApart == FileSpec => []ExtentsApart
<1>1. ASSUME LayoutInv PROVE ExtentsApart
  <2>1. FileTypes
    BY <1>1 DEF LayoutInv
  <2>2. SUFFICES ASSUME NEW h \in head, NEW i \in Cluster, NEW r \in ByteRange(h, i)
                 PROVE  /\ \A j \in Cluster : \A q \in ByteRange(h, j) :
                             r = q \/ r.to <= q.from \/ q.to <= r.from
                        /\ \A p \in {h.url, h.title, h.cluster} : p <= r.from \/ r.to <= p
                        /\ h.checksum # 0 /\ r.from < h.checksum => r.to <= h.checksum
    BY DEF ExtentsApart
  <2>3. DOMAIN ptrs = Cluster /\ \A j \in Cluster : ptrs[j] \in Nat
    BY <2>1, <2>2 DEF FileTypes, Headed
  <2>4. ASSUME NEW j \in Cluster, NEW q \in ByteRange(h, j)
        PROVE  /\ q = [from |-> ptrs[j], to |-> SliceEnd(h, ptrs[j])]
               /\ q.from = ptrs[j] /\ q.to = SliceEnd(h, ptrs[j])
               /\ q.from \in Nat /\ q.to \in Nat
               /\ q.from < q.to /\ q.to <= eof
    <3>1. /\ q = [from |-> ptrs[j], to |-> SliceEnd(h, ptrs[j])]
          /\ ptrs[j] < SliceEnd(h, ptrs[j]) /\ SliceEnd(h, ptrs[j]) <= eof
      BY <2>4 DEF ByteRange
    <3>2. SliceEnd(h, ptrs[j]) \in Nat
      BY <2>1, <2>3, EndIsNext
    <3>3. QED BY <2>3, <3>1, <3>2
  <2>5. ASSUME NEW j \in Cluster, NEW k \in Cluster, ptrs[j] < ptrs[k]
        PROVE  SliceEnd(h, ptrs[j]) <= ptrs[k]
    BY <2>1, <2>3, <2>5, EndIsNext
  <2>6. ASSUME NEW j \in Cluster, NEW q \in ByteRange(h, j)
        PROVE  r = q \/ r.to <= q.from \/ q.to <= r.from
    <3>1. CASE ptrs[i] = ptrs[j]
      BY <2>4, <2>6, <3>1
    <3>2. CASE ptrs[i] < ptrs[j]
      BY <2>4, <2>5, <2>6, <3>2
    <3>3. CASE ptrs[j] < ptrs[i]
      BY <2>4, <2>5, <2>6, <3>3
    <3>4. QED BY <2>3, <3>1, <3>2, <3>3
  <2>7. /\ SliceEnd(h, r.from) <= BoundaryAfter(h, r.from)
        /\ BoundaryAfter(h, r.from) \in Nat
        /\ \A p \in {h.url, h.title, h.cluster, EndOfData(h)} :
             r.from < p => BoundaryAfter(h, r.from) <= p
    BY <2>1, <2>3, <2>4, EndIsNext, BoundaryIsNext
  <2>8. /\ h.url \in Nat /\ h.title \in Nat /\ h.cluster \in Nat /\ h.checksum \in Nat
        /\ eof \in Nat
    BY <2>1 DEF FileTypes, Positions
  <2>9. ASSUME NEW p \in {h.url, h.title, h.cluster} PROVE p <= r.from \/ r.to <= p
    BY <2>4, <2>7, <2>8
  <2>10. ASSUME h.checksum # 0, r.from < h.checksum PROVE r.to <= h.checksum
    <3>1. CASE h.checksum < eof
      <4>1. EndOfData(h) = h.checksum
        BY <2>10, <3>1 DEF EndOfData
      <4>2. QED BY <2>4, <2>7, <2>8, <2>10, <4>1
    <3>2. CASE eof <= h.checksum
      BY <2>4, <2>8, <3>2
    <3>3. QED BY <2>8, <3>1, <3>2
  <2>11. QED BY <2>6, <2>9, <2>10
<1>2. QED BY <1>1, LayoutInvariance, PTL

----------------------------------------------------------------------------
(* What a reader computes of a file of this writer *)

\* With the header and the cluster table in the file, the end a reader
\* computes for a cluster is the end of what was written.
LEMMA EndIsWritten ==
  ASSUME LayoutInv, stage # "foreign", NEW h \in head, HasTable(h),
         NEW i \in Cluster
  PROVE  /\ SliceEnd(h, ptrs[i]) = ptrs[i] + size[i]
         /\ ptrs[i] \in Nat /\ size[i] \in Nat \ {0}
         /\ ptrs[i] + size[i] <= eof
<1>1. FileTypes /\ Tiled /\ Extended
  BY DEF LayoutInv
<1>2. stage \in Headed /\ DOMAIN ptrs = Cluster
  BY <1>1 DEF FileTypes, Headed
<1>3. h = layout /\ DataEnd = h.url
  BY <1>1, <1>2 DEF Extended, DataEnd, Headed
<1>4. h.url \in Nat /\ h \in Positions /\ eof \in Nat /\ Dirents \in Nat /\ ClusterCount \in Nat
  BY <1>1, SizeAssumption DEF FileTypes, Positions
<1>5. /\ h.title = h.url + Dirents /\ h.title <= h.cluster
      /\ h.dirents = h.cluster + ClusterCount /\ h.dirents <= h.checksum
  <2>1. h = LayoutFrom(h.url)
    BY <1>1, <1>2, <1>3 DEF Extended, Headed
  <2>2. QED BY <1>4, <2>1, LayoutOrder
<1>6. /\ h.title \in Nat /\ h.cluster \in Nat /\ h.checksum \in Nat /\ h.dirents \in Nat
      /\ h.url <= h.title /\ h.url <= h.cluster /\ h.url <= h.checksum
      /\ h.url <= eof
  BY <1>4, <1>5 DEF Positions, HasTable
<1>7. /\ \A j \in Cluster : ptrs[j] \in Nat /\ size[j] \in Nat \ {0}
      /\ \A j \in Cluster : ptrs[j] + size[j] <= h.url
      /\ \A j \in Cluster : ptrs[i] < ptrs[j] => ptrs[i] + size[i] <= ptrs[j]
      /\ ptrs[i] + size[i] = h.url \/ \E j \in Cluster : ptrs[j] = ptrs[i] + size[i]
  BY <1>1, <1>2, <1>3 DEF FileTypes, Tiled
<1>8. ptrs[i] < ptrs[i] + size[i] /\ ptrs[i] < h.url
  BY <1>4, <1>7
<1>9. BoundaryAfter(h, ptrs[i]) = h.url
  <2>1. EndOfData(h) \in Nat /\ h.url <= EndOfData(h)
    BY <1>4, <1>6 DEF EndOfData
  <2>2. /\ BoundaryAfter(h, ptrs[i]) <= h.url
        /\ BoundaryAfter(h, ptrs[i]) \in Nat
        /\ ptrs[i] < BoundaryAfter(h, ptrs[i])
             => BoundaryAfter(h, ptrs[i]) \in {h.url, h.title, h.cluster, EndOfData(h)}
    BY <1>1, <1>7, <1>8, BoundaryIsNext
  <2>3. ptrs[i] < BoundaryAfter(h, ptrs[i])
    <3>1. h.url \in {p \in {h.url, h.title, h.cluster, EndOfData(h)} : p > ptrs[i]}
      BY <1>4, <1>7, <1>8
    <3>2. {p \in {h.url, h.title, h.cluster, EndOfData(h)} : p > ptrs[i]} \in SUBSET Nat
      BY <1>4, <1>6, <2>1
    <3>3. QED BY <1>4, <1>7, <3>1, <3>2, MinOfNaturals DEF BoundaryAfter
  <2>4. QED BY <1>4, <1>6, <2>1, <2>2, <2>3
<1>10. /\ SliceEnd(h, ptrs[i]) \in {h.url} \cup {ptrs[j] : j \in Cluster}
       /\ SliceEnd(h, ptrs[i]) <= h.url
       /\ \A j \in Cluster : ptrs[i] < ptrs[j] => SliceEnd(h, ptrs[i]) <= ptrs[j]
       /\ SliceEnd(h, ptrs[i]) = h.url \/ ptrs[i] < SliceEnd(h, ptrs[i])
       /\ SliceEnd(h, ptrs[i]) \in Nat
  BY <1>1, <1>2, <1>7, <1>9, EndIsNext
<1>11. ptrs[i] + size[i] <= SliceEnd(h, ptrs[i])
  BY <1>7, <1>8, <1>10
<1>12. SliceEnd(h, ptrs[i]) <= ptrs[i] + size[i]
  BY <1>7, <1>8, <1>10
<1>13. SliceEnd(h, ptrs[i]) = ptrs[i] + size[i]
  BY <1>7, <1>10, <1>11, <1>12
<1>14. ptrs[i] + size[i] <= eof
  BY <1>4, <1>6, <1>7
<1>15. QED BY <1>7, <1>13, <1>14

\* A file that opens has the whole of each cluster under its own index or
\* refuses it; a finished one has them all and passes its own checks, and only
\* a finished one passes the last of them.
THEOREM FilesAreWholeOrRefused == FileSpec => []WholeOrRefused
<1>1. ASSUME LayoutInv PROVE WholeOrRefused
  <2>1. SUFFICES ASSUME stage # "foreign", NEW h \in head
                 PROVE  /\ \A i \in Cluster : \A r \in ByteRange(h, i) :
                             r = [from |-> ptrs[i], to |-> ptrs[i] + size[i]]
                        /\ stage \in {"digest", "sealed", "torn"} =>
                             /\ CheckDirentPtrs(h) /\ CheckClusterPtrs(h)
                             /\ \A i \in Cluster : ByteRange(h, i) # {}
                        /\ stage = "sealed" <=> ChecksumMatches(h)
    BY DEF WholeOrRefused
  <2>2. FileTypes /\ Tiled /\ Extended
    BY <1>1, <2>1 DEF LayoutInv
  <2>3. h = layout /\ stage \in {"digest", "sealed", "torn", "cut"}
    BY <2>1, <2>2 DEF FileTypes, Extended, Headed
  <2>4. /\ h \in Positions /\ h.url \in Nat /\ h.title \in Nat /\ h.cluster \in Nat
        /\ h.dirents \in Nat /\ h.checksum \in Nat /\ eof \in Nat
        /\ Dirents \in Nat /\ DirentLen \in Nat /\ ClusterCount \in Nat /\ Reserved \in Nat \ {0}
    BY <2>2, SizeAssumption DEF FileTypes, Positions
  <2>5. /\ h.title = h.url + Dirents /\ h.title <= h.cluster
        /\ h.dirents = h.cluster + ClusterCount
        /\ h.checksum = h.dirents + DirentLen * Dirents
        /\ h.dirents <= h.checksum
    <3>1. h = LayoutFrom(h.url)
      BY <2>2, <2>3 DEF Extended
    <3>2. QED BY <2>4, <3>1, LayoutOrder
  <2>6. ASSUME NEW i \in Cluster, NEW r \in ByteRange(h, i)
        PROVE  r = [from |-> ptrs[i], to |-> ptrs[i] + size[i]]
    <3>1. HasTable(h) /\ r = [from |-> ptrs[i], to |-> SliceEnd(h, ptrs[i])]
      BY <2>6 DEF ByteRange
    <3>2. QED BY <1>1, <2>1, <3>1, EndIsWritten
  <2>7. ASSUME stage \in {"digest", "sealed", "torn"}
        PROVE  /\ CheckDirentPtrs(h) /\ CheckClusterPtrs(h)
               /\ \A i \in Cluster : ByteRange(h, i) # {}
    <3>1. h.checksum <= eof
      BY <2>1, <2>2, <2>3, <2>4, <2>7 DEF Extended, Md5Len
    <3>2. HasTable(h)
      BY <2>4, <2>5, <3>1 DEF HasTable
    <3>3. ASSUME NEW i \in Cluster
          PROVE  ptrs[i] < eof /\ ByteRange(h, i) # {}
      <4>1. /\ SliceEnd(h, ptrs[i]) = ptrs[i] + size[i]
            /\ ptrs[i] \in Nat /\ size[i] \in Nat \ {0}
            /\ ptrs[i] + size[i] <= eof
        BY <1>1, <2>1, <3>2, <3>3, EndIsWritten
      <4>2. /\ ptrs[i] < ptrs[i] + size[i]
            /\ ptrs[i] < eof
        BY <2>4, <4>1
      <4>3. [from |-> ptrs[i], to |-> ptrs[i] + size[i]] \in ByteRange(h, i)
        BY <3>2, <4>1, <4>2 DEF ByteRange
      <4>4. QED BY <4>2, <4>3
    <3>4. CheckDirentPtrs(h)
      <4>1. ASSUME NEW d \in 1 .. Dirents PROVE h.dirents + d * DirentLen <= eof
        <5>1. PICK k \in Nat : Dirents = d + k
          <6>1. Dirents - d \in Nat /\ Dirents = d + (Dirents - d)
            BY <2>4
          <6>2. QED BY <6>1
        <5>2. DirentLen * (d + k) = d * DirentLen + DirentLen * k
          BY <2>4
        <5>3. d * DirentLen \in Nat /\ DirentLen * k \in Nat
          BY <2>4
        <5>4. DirentLen * Dirents = d * DirentLen + DirentLen * k
          BY <5>1, <5>2
        <5>5. QED BY <2>4, <2>5, <3>1, <5>3, <5>4
      <4>2. h.url + Dirents <= eof
        BY <2>4, <2>5, <3>1
      <4>3. QED BY <4>1, <4>2 DEF CheckDirentPtrs
    <3>5. QED BY <3>2, <3>3, <3>4 DEF CheckClusterPtrs
  <2>8. stage = "sealed" <=> ChecksumMatches(h)
    <3>1. h.checksum # 0
      <4>1. h.url >= Reserved
        <5>1. DataEnd >= Reserved
          BY <2>2 DEF Tiled
        <5>2. DataEnd = h.url
          BY <2>3 DEF DataEnd
        <5>3. QED BY <5>1, <5>2
      <4>2. /\ h.url <= h.title /\ h.title <= h.dirents
            /\ h.dirents <= h.checksum
        BY <2>4, <2>5
      <4>3. QED BY <2>4, <4>1, <4>2
    <3>2. ChecksumMatches(h) <=> layout.checksum + Md5Len <= eof
      BY <2>3, <3>1 DEF ChecksumMatches
    <3>3. CASE stage = "sealed"
      BY <2>2, <2>3, <2>4, <3>2, <3>3 DEF Extended, Md5Len
    <3>4. CASE stage = "digest"
      BY <2>2, <2>3, <2>4, <3>2, <3>4 DEF Extended, Md5Len
    <3>5. CASE stage = "torn"
      BY <2>1, <2>2, <2>3, <2>4, <3>2, <3>5 DEF Extended, Md5Len
    <3>6. CASE stage = "cut"
      BY <2>2, <2>3, <2>4, <3>2, <3>6 DEF Extended, Md5Len
    <3>7. QED BY <2>3, <3>3, <3>4, <3>5, <3>6
  <2>9. QED BY <2>6, <2>7, <2>8
<1>2. QED BY <1>1, LayoutInvariance, PTL

----------------------------------------------------------------------------
(* Clusters *)

\* What a reader takes for the table are numbers.
Readable(b) ==
    /\ b.packed \in BOOLEAN /\ b.ext \in BOOLEAN /\ b.len \in Nat
    /\ Body!Width(b.ext) <= b.len => b.word[0] \in Nat
    /\ \A i \in Nat :
         (i + 1) * Body!Width(b.ext) <= b.len /\ (i + 1) * Body!Width(b.ext) <= b.word[0]
           => b.word[i] \in Nat

BodyInv ==
    /\ lens \in Seq(Nat)
    /\ \A b \in body : Readable(b)
    /\ \A b, c \in body : b = c
    /\ lens # << >> => \A b \in body : \E packed \in BOOLEAN : b = Body!Encoded(lens, packed)
    /\ asked => body # {} /\ \A b \in body : parsed = Body!ParseBody(b)

\* Multiples of the width of an offset.
LEMMA Widths ==
  ASSUME NEW w \in Nat \ {0}
  PROVE  /\ \A i \in Int : (i + 1) * w = i * w + w /\ i * w \in Int
         /\ \A i, j \in Nat : i <= j => i * w <= j * w
         /\ \A i \in Nat : i <= i * w /\ i * w \in Nat /\ (i * w) \div w = i /\ (i * w) % w = 0
         /\ \A f \in Nat : f % w = 0 => /\ f \div w \in Nat /\ f = (f \div w) * w
                                        /\ f >= w => f \div w >= 1
<1>1. \A i \in Int : (i + 1) * w = i * w + w /\ i * w \in Int
  OBVIOUS
<1>2. ASSUME NEW i \in Nat, NEW j \in Nat, i <= j PROVE i * w <= j * w
  <2>1. (j - i) * w >= 0
    BY <1>2
  <2>2. (j - i) * w = j * w - i * w
    OBVIOUS
  <2>3. QED BY <2>1, <2>2
<1>3. ASSUME NEW i \in Nat
      PROVE  i <= i * w /\ i * w \in Nat /\ (i * w) \div w = i /\ (i * w) % w = 0
  <2>1. i * w \in Nat
    OBVIOUS
  <2>2. i * (w - 1) >= 0 /\ i * (w - 1) = i * w - i
    OBVIOUS
  <2>3. (i * w) \div w = i
    OBVIOUS
  <2>4. (i * w) % w = 0
    OBVIOUS
  <2>5. QED BY <2>1, <2>2, <2>3, <2>4
<1>4. ASSUME NEW f \in Nat, f % w = 0
      PROVE  f \div w \in Nat /\ f = (f \div w) * w /\ (f >= w => f \div w >= 1)
  <2>1. f \div w \in Nat
    OBVIOUS
  <2>2. f = (f \div w) * w + (f % w)
    OBVIOUS
  <2>3. f = (f \div w) * w
    BY <1>4, <2>1, <2>2
  <2>4. f \div w = 0 => (f \div w) * w = 0
    OBVIOUS
  <2>5. QED BY <2>1, <2>3, <2>4
<1>5. QED BY <1>1, <1>2, <1>3, <1>4

\* offset_count: one more offset than blobs fill the table.
LEMMA OffsetCounts ==
  ASSUME NEW b, Readable(b), NEW n \in Body!OffsetCount(b)
  PROVE  LET w == Body!Width(b.ext)
         IN  /\ w \in Nat \ {0} /\ n \in Nat
             /\ (n + 1) * w = b.word[0] /\ b.word[0] \in Nat /\ b.word[0] <= b.len
             /\ n = b.word[0] \div w - 1
<1> DEFINE w == Body!Width(b.ext)
<1>1. w \in Nat \ {0}
  BY BodyAssumption DEF Readable, Body!Width
<1>2. w <= b.len /\ b.word[0] >= w /\ b.word[0] % w = 0 /\ b.word[0] <= b.len
      /\ n = b.word[0] \div w - 1
  <2>1. (0 + 1) * w = w
    BY <1>1
  <2> HIDE DEF w
  <2>2. QED BY <2>1 DEF Body!OffsetCount, Body!ReadOff, w
<1>3. b.word[0] \in Nat
  BY <1>2 DEF Readable
<1> HIDE DEF w
<1>4. /\ b.word[0] \div w \in Nat /\ b.word[0] = (b.word[0] \div w) * w
      /\ b.word[0] \div w >= 1
  BY <1>1, <1>2, <1>3, Widths
<1>5. n \in Nat /\ n + 1 = b.word[0] \div w
  BY <1>2, <1>4
<1>6. QED BY <1>1, <1>2, <1>3, <1>4, <1>5 DEF w

\* The offsets of the table can be read.
LEMMA TableRead ==
  ASSUME NEW b, Readable(b), NEW n \in Body!OffsetCount(b), NEW i \in 0 .. n
  PROVE  /\ (i + 1) * Body!Width(b.ext) <= (n + 1) * Body!Width(b.ext)
         /\ Body!ReadOff(b, i) = {b.word[i]}
         /\ b.word[i] \in Nat
<1> DEFINE w == Body!Width(b.ext)
<1>1. /\ w \in Nat \ {0} /\ n \in Nat /\ (n + 1) * w = b.word[0]
      /\ b.word[0] \in Nat /\ b.word[0] <= b.len /\ b.len \in Nat
  BY OffsetCounts DEF Readable
<1>2. i \in Nat /\ i + 1 \in Nat /\ n + 1 \in Nat /\ i + 1 <= n + 1
  BY <1>1
<1> HIDE DEF w
<1>3. (i + 1) * w <= (n + 1) * w /\ (i + 1) * w \in Int
  BY <1>1, <1>2, Widths
<1>4. (i + 1) * w <= b.word[0] /\ (i + 1) * w <= b.len
  BY <1>1, <1>3
<1>5. QED BY <1>2, <1>3, <1>4 DEF Readable, Body!ReadOff, w

\* validate_raw_offsets: the offsets rise from the end of the table to at most
\* the end of the body.
LEMMA ValidTable ==
  ASSUME NEW b, Readable(b), NEW n \in Body!ValidateOffsets(b)
  PROVE  /\ n \in Body!OffsetCount(b)
         /\ \A i \in 0 .. n : /\ b.word[i] \in Nat
                              /\ b.word[0] <= b.word[i] /\ b.word[i] <= b.len
         /\ \A i \in 1 .. n : b.word[i - 1] <= b.word[i]
<1>1. n \in Body!OffsetCount(b)
  BY DEF Body!ValidateOffsets
<1>2. n \in Nat /\ b.word[0] <= b.len
  BY <1>1, OffsetCounts
<1>3. ASSUME NEW i \in 1 .. n
      PROVE  b.word[i - 1] <= b.word[i] /\ b.word[i] <= b.len
  <2>1. i \in 0 .. n /\ i - 1 \in 0 .. n
    BY <1>2
  <2>2. Body!ReadOff(b, i) = {b.word[i]} /\ Body!ReadOff(b, i - 1) = {b.word[i - 1]}
    BY <1>1, <2>1, TableRead
  <2>3. QED BY <2>2 DEF Body!ValidateOffsets
<1>4. \A i \in 0 .. n : b.word[i] \in Nat
  BY <1>1, TableRead
<1> DEFINE bad == {i \in 0 .. n : ~(b.word[0] <= b.word[i])}
<1>5. bad = {}
  <2>1. SUFFICES ASSUME bad # {} PROVE FALSE
    OBVIOUS
  <2>2. bad \in SUBSET Nat
    BY <1>2
  <2>3. PICK m \in bad : \A y \in bad : m <= y
    <3> HIDE DEF bad
    <3>1. QED BY <2>1, <2>2, MinOfNaturals
  <2>4. m # 0
    <3>1. 0 \in 0 .. n
      BY <1>2
    <3>2. QED BY <1>4, <2>3, <3>1
  <2>5. m \in 1 .. n /\ m - 1 \in 0 .. n /\ ~(m <= m - 1) /\ 0 \in 0 .. n
    BY <1>2, <2>3, <2>4
  <2>6. b.word[0] <= b.word[m - 1] /\ b.word[m - 1] <= b.word[m]
    BY <1>3, <2>3, <2>5
  <2>7. b.word[0] <= b.word[m]
    BY <1>4, <2>5, <2>6
  <2>8. QED BY <2>3, <2>7
<1>6. \A i \in 0 .. n : b.word[i] <= b.len
  <2>1. \A i \in 0 .. n : i = 0 \/ i \in 1 .. n
    BY <1>2
  <2>2. QED BY <1>2, <1>3, <2>1
<1>7. QED BY <1>1, <1>3, <1>4, <1>5, <1>6

\* blob_range on a table that is valid, or not: the two offsets, if they are
\* in order.
LEMMA Ranges ==
  ASSUME NEW b, Readable(b), NEW n \in Body!OffsetCount(b), NEW i \in Nat
  PROVE  /\ ~(i < n) => Body!BlobRange(b, n, i) = {}
         /\ i < n => \A r : r \in Body!BlobRange(b, n, i) <=>
              /\ r = [from |-> b.word[i], to |-> b.word[i + 1]]
              /\ b.word[0] <= b.word[i]
              /\ b.word[i] <= b.word[i + 1] /\ b.word[i + 1] <= b.len
<1>1. n \in Nat /\ (n + 1) * Body!Width(b.ext) = b.word[0]
  BY OffsetCounts
<1>2. i < n => i \in 0 .. n /\ i + 1 \in 0 .. n
  BY <1>1
<1>3. i < n => /\ Body!ReadOff(b, i) = {b.word[i]}
               /\ Body!ReadOff(b, i + 1) = {b.word[i + 1]}
  BY <1>2, TableRead
<1>4. i < n =>
        {[from |-> f, to |-> t] : f \in Body!ReadOff(b, i), t \in Body!ReadOff(b, i + 1)}
          = {[from |-> b.word[i], to |-> b.word[i + 1]]}
  BY <1>3
<1>5. QED BY <1>1, <1>4 DEF Body!BlobRange, Body!RangeIn

\* A cluster that parses has all of its blobs, in its copy and in place.
LEMMA ParsedIsSound ==
  ASSUME NEW b, Readable(b), parsed = Body!ParseBody(b)
  PROVE  Body!ReadSound(b)
<1> SUFFICES ASSUME NEW n \in parsed, NEW i \in 0 .. n
             PROVE  /\ i < n => Body!BlobRange(b, n, i) # {}
                    /\ i + 1 < n =>
                         \A r \in Body!BlobRange(b, n, i), q \in Body!BlobRange(b, n, i + 1) :
                           r.to = q.from
                    /\ ~b.packed => Body!RawBlobRange(b, i) = Body!BlobRange(b, n, i)
  BY DEF Body!ReadSound
<1>1. n \in Body!ValidateOffsets(b) /\ n \in Body!OffsetCount(b)
  <2>1. n \in Body!ValidateOffsets(b)
    BY DEF Body!ParseBody
  <2>2. QED BY <2>1, ValidTable
<1>2. n \in Nat /\ i \in Nat
  BY <1>1, OffsetCounts
<1>3. i < n => i \in 0 .. n /\ i + 1 \in 1 .. n /\ i + 1 \in 0 .. n /\ (i + 1) - 1 = i
  BY <1>2
<1>4. i < n => /\ b.word[0] <= b.word[i]
               /\ b.word[i] <= b.word[i + 1] /\ b.word[i + 1] <= b.len
  BY <1>1, <1>3, ValidTable
<1>5. i < n => Body!BlobRange(b, n, i) = {[from |-> b.word[i], to |-> b.word[i + 1]]}
  BY <1>1, <1>2, <1>4, Ranges
<1>6. i + 1 < n => \A q \in Body!BlobRange(b, n, i + 1) : q.from = b.word[i + 1]
  <2>1. i + 1 \in Nat
    BY <1>2
  <2>2. QED BY <1>1, <2>1, Ranges
<1>7. i + 1 < n => i < n
  BY <1>2
<1>8. \A m \in Body!OffsetCount(b) : m = n
  BY <1>1, OffsetCounts
<1>9. ~b.packed => Body!RawBlobRange(b, i) = Body!BlobRange(b, n, i)
  BY <1>1, <1>8 DEF Body!RawBlobRange
<1>10. i < n => \A r \in Body!BlobRange(b, n, i) : r.to = b.word[i + 1]
  BY <1>5
<1>11. i < n => Body!BlobRange(b, n, i) # {}
  BY <1>5
<1>12. QED BY <1>6, <1>7, <1>9, <1>10, <1>11

\* In place, an answer is inside the body behind the offsets it is from.
LEMMA InPlaceIsSound ==
  ASSUME NEW b, Readable(b)
  PROVE  Body!InPlaceSound(b)
<1> DEFINE w == Body!Width(b.ext)
<1>1. SUFFICES ASSUME NEW i \in 0 .. b.len, NEW r \in Body!RawBlobRange(b, i)
               PROVE  w * (i + 2) <= r.from /\ r.from <= r.to /\ r.to <= b.len
  BY DEF Body!InPlaceSound
<1>2. PICK n \in Body!OffsetCount(b) : r \in Body!BlobRange(b, n, i)
  BY DEF Body!RawBlobRange
<1>3. i \in Nat /\ n \in Nat /\ w \in Nat \ {0} /\ (n + 1) * w = b.word[0]
  BY <1>2, OffsetCounts DEF Readable
<1>4. /\ i < n /\ r = [from |-> b.word[i], to |-> b.word[i + 1]]
      /\ b.word[0] <= b.word[i]
      /\ b.word[i] <= b.word[i + 1] /\ b.word[i + 1] <= b.len
  BY <1>2, <1>3, Ranges
<1> HIDE DEF w
<1>5. (i + 2) * w <= (n + 1) * w /\ (i + 2) * w \in Int
  <2>1. i + 2 \in Nat /\ n + 1 \in Nat /\ i + 2 <= n + 1
    BY <1>3, <1>4
  <2>2. QED BY <1>3, <2>1, Widths
<1>6. w * (i + 2) = (i + 2) * w
  BY <1>3
<1>7. i \in 0 .. n
  BY <1>3, <1>4
<1>8. b.word[i] \in Nat /\ b.word[0] \in Nat
  BY <1>2, <1>7, TableRead, OffsetCounts
<1>9. QED BY <1>3, <1>4, <1>5, <1>6, <1>8

----------------------------------------------------------------------------
(* encode_cluster *)

\* The running offset of the encoder.
LEMMA RunningEnds ==
  ASSUME NEW s \in Seq(Nat)
  PROVE  /\ Body!Ends(s)[0] = 0
         /\ \A i \in 0 .. Len(s) : /\ Body!Ends(s)[i] \in Nat
                                   /\ Body!Ends(s)[i] <= Body!Sum(s)
         /\ \A i \in 1 .. Len(s) : Body!Ends(s)[i] = Body!Ends(s)[i - 1] + s[i]
<1> DEFINE n == Len(s)
           next(k, x) == x + (IF k \in 1 .. n THEN s[k] ELSE 0)
           g == [k \in Nat |-> [x \in Nat |-> next(k, x)]]
           E == Body!Ends(s)
<1>1. n \in Nat /\ \A i \in 1 .. n : s[i] \in Nat
  OBVIOUS
<1>2. \A k \in Nat, x \in Nat : next(k, x) \in Nat
  BY <1>1
<1>3. g \in [Nat -> [Nat -> Nat]] /\ 0 \in Nat
  BY <1>2
<1>4. PICK f : Iterates(f, Nat, 0, g, n)
  <2> HIDE DEF g, n
  <2>1. QED BY <1>1, <1>3, Iterated
<1>5. f \in [0 .. n -> Nat]
      /\ \A i \in 0 .. n : f[i] = IF i = 0 THEN 0 ELSE f[i - 1] + s[i]
  <2>1. f \in [0 .. n -> Nat]
        /\ \A i \in 0 .. n : f[i] = IF i = 0 THEN 0 ELSE g[i][f[i - 1]]
    BY <1>4 DEF Iterates
  <2>2. \A i \in 0 .. n : i # 0 => /\ i \in Nat /\ i \in 1 .. n
                                   /\ i - 1 \in 0 .. n /\ f[i - 1] \in Nat
    <3>1. \A i \in 0 .. n : i # 0 => i \in Nat /\ i \in 1 .. n /\ i - 1 \in 0 .. n
      <4> HIDE DEF n
      <4>1. QED BY <1>1
    <3> HIDE DEF n
    <3>2. QED BY <2>1, <3>1
  <2>3. \A k \in Nat, x \in Nat : g[k][x] = next(k, x)
    OBVIOUS
  <2>4. \A i \in 0 .. n : i # 0 => g[i][f[i - 1]] = f[i - 1] + s[i]
    <3> HIDE DEF g
    <3>1. QED BY <2>2, <2>3
  <2>5. QED BY <2>1, <2>4
<1>6. f = [i \in 0 .. n |-> IF i = 0 THEN 0 ELSE f[i - 1] + s[i]]
  <2>1. f = [i \in 0 .. n |-> f[i]]
    BY <1>5
  <2>2. QED BY <1>5, <2>1
<1>7. E = [i \in 0 .. n |-> IF i = 0 THEN 0 ELSE E[i - 1] + s[i]]
  BY <1>6, Zenon DEF Body!Ends
<1> HIDE DEF E
<1>8. \A i \in 0 .. n : E[i] = IF i = 0 THEN 0 ELSE E[i - 1] + s[i]
  BY <1>7
<1>9. /\ E[0] = 0
      /\ \A i \in 1 .. n : E[i] = E[i - 1] + s[i]
  <2>1. 0 \in 0 .. n /\ \A i \in 1 .. n : i \in 0 .. n /\ i # 0
    BY <1>1
  <2>2. QED BY <1>8, <2>1
<1> DEFINE odd == {i \in 0 .. n : E[i] \notin Nat}
<1>10. odd = {}
  <2>1. SUFFICES ASSUME odd # {} PROVE FALSE
    OBVIOUS
  <2>2. odd \in SUBSET Nat
    BY <1>1
  <2>3. PICK m \in odd : \A y \in odd : m <= y
    <3> HIDE DEF odd
    <3>1. QED BY <2>1, <2>2, MinOfNaturals
  <2>4. m # 0
    BY <1>9
  <2>5. m \in 1 .. n /\ m - 1 \in 0 .. n /\ ~(m <= m - 1)
    BY <1>1, <2>3, <2>4
  <2>6. E[m - 1] \in Nat
    BY <2>3, <2>5
  <2>7. E[m] = E[m - 1] + s[m] /\ s[m] \in Nat
    BY <1>1, <1>9, <2>5
  <2>8. E[m] \notin Nat
    BY <2>3
  <2> HIDE DEF n, odd
  <2>9. QED BY <2>6, <2>7, <2>8
<1> DEFINE above == {i \in 0 .. n : ~(E[i] <= E[n])}
<1>11. above = {}
  <2>1. SUFFICES ASSUME above # {} PROVE FALSE
    OBVIOUS
  <2>2. above \in SUBSET Nat /\ \A y \in above : y <= n
    BY <1>1
  <2>3. PICK m \in above : \A y \in above : y <= m
    <3> HIDE DEF above
    <3>1. QED BY <1>1, <2>1, <2>2, MaxOfNaturals
  <2>4. n \in 0 .. n /\ E[n] \in Nat
    BY <1>1, <1>10
  <2>5. m # n
    BY <2>3, <2>4
  <2>6. m + 1 \in 1 .. n /\ m + 1 \in 0 .. n /\ m \in 0 .. n /\ (m + 1) - 1 = m /\ ~(m + 1 <= m)
    BY <1>1, <2>3, <2>5
  <2>7. E[m + 1] <= E[n]
    BY <2>3, <2>6
  <2>8. E[m + 1] = E[m] + s[m + 1] /\ s[m + 1] \in Nat /\ E[m] \in Nat /\ E[m + 1] \in Nat
    BY <1>1, <1>9, <1>10, <2>6
  <2>9. ~(E[m] <= E[n])
    BY <2>3
  <2> HIDE DEF n, above
  <2>10. QED BY <2>4, <2>7, <2>8, <2>9
<1>12. QED BY <1>9, <1>10, <1>11 DEF Body!Sum, E

\* No offset is cut to 32 bits.
LEMMA EncodedIs ==
  ASSUME NEW s \in Seq(Nat), NEW packed \in BOOLEAN
  PROVE  LET b == Body!Encoded(s, packed)
             w == Body!Width(b.ext)
         IN  /\ b.packed = packed /\ b.ext \in BOOLEAN /\ w \in Nat \ {0}
             /\ Len(s) \in Nat /\ (Len(s) + 1) * w \in Nat
             /\ b.len = (Len(s) + 1) * w + Body!Sum(s) /\ b.len \in Nat
             /\ \A i \in 0 .. Len(s) :
                  b.word[i] = (Len(s) + 1) * w + Body!Ends(s)[i]
             /\ ~b.ext => b.len <= Top32
<1> DEFINE n == Len(s)
           x == Body!Extended(s)
           w == Body!Width(x)
           table == (n + 1) * w
           b == Body!Encoded(s, packed)
           E == Body!Ends(s)
           total == Body!Sum(s)
<1>1. /\ b.packed = packed /\ b.ext = x /\ b.len = table + total
      /\ \A i \in 0 .. n : b.word[i] = Body!Stored(table + E[i], x)
  BY DEF Body!Encoded
<1>2. x \in BOOLEAN /\ (~x => (n + 1) * W32 + total <= Top32)
  <2>1. (n + 1) * W32 + total \in Int
    <3>1. n \in Nat /\ W32 \in Nat /\ total \in Nat
      <4>1. n \in 0 .. n
        OBVIOUS
      <4>2. QED BY <4>1, RunningEnds, BodyAssumption DEF Body!Sum
    <3>2. QED BY <3>1
  <2>2. QED BY <2>1, BodyAssumption DEF Body!Extended
<1>3. w \in Nat \ {0} /\ Top32 \in Nat /\ (~x => w = W32)
  BY <1>2, BodyAssumption DEF Body!Width
<1>4. n \in Nat /\ n \in 0 .. n
  OBVIOUS
<1>5. /\ \A i \in 0 .. n : E[i] \in Nat /\ E[i] <= total
      /\ total \in Nat
  BY <1>4, RunningEnds DEF Body!Sum
<1>6. table \in Nat
  BY <1>3, <1>4
<1>7. ~x => table + total <= Top32
  BY <1>2, <1>3
<1>8. ASSUME NEW i \in 0 .. n PROVE b.word[i] = table + E[i]
  <2>1. b.word[i] = Body!Stored(table + E[i], x) /\ E[i] \in Nat /\ E[i] <= total
    BY <1>1, <1>5
  <2>2. ~x => table + E[i] <= Top32
    <3> HIDE DEF table, E, total, x, n
    <3>1. QED BY <1>3, <1>5, <1>6, <1>7, <2>1
  <2>3. ~x => (table + E[i]) % (Top32 + 1) = table + E[i]
    <3>1. \A y, z \in Nat : y <= z => y % (z + 1) = y
      OBVIOUS
    <3>2. table + E[i] \in Nat
      BY <1>6, <2>1
    <3> HIDE DEF table, E, total, x, n
    <3>3. QED BY <1>3, <2>2, <3>1, <3>2
  <2>4. QED BY <2>1, <2>3 DEF Body!Stored
<1> HIDE DEF E, total, x, n, b
<1>9. b.len \in Nat /\ (~x => b.len <= Top32)
  BY <1>1, <1>5, <1>6, <1>7
<1>10. QED BY <1>1, <1>2, <1>3, <1>4, <1>6, <1>8, <1>9 DEF b, n, E, total

\* The table that is written is the table that is read.
LEMMA EncodedReads ==
  ASSUME NEW s \in Seq(Nat), NEW packed \in BOOLEAN, NEW b,
         b = Body!Encoded(s, packed)
  PROVE  /\ Readable(b)
         /\ Body!ValidateOffsets(b) = {Len(s)}
         /\ \A i \in 1 .. Len(s) :
              \E r \in Body!BlobRange(b, Len(s), i - 1) : r.to - r.from = s[i]
<1> DEFINE n == Len(s)
           w == Body!Width(b.ext)
           table == (n + 1) * w
           E == Body!Ends(s)
           total == Body!Sum(s)
<1>1. /\ b.packed \in BOOLEAN /\ b.ext \in BOOLEAN /\ w \in Nat \ {0}
      /\ n \in Nat /\ table \in Nat
      /\ b.len = table + total /\ b.len \in Nat
      /\ \A i \in 0 .. n : b.word[i] = table + E[i]
  BY EncodedIs
<1>2. /\ E[0] = 0
      /\ \A i \in 0 .. n : E[i] \in Nat /\ E[i] <= total
      /\ \A i \in 1 .. n : E[i] = E[i - 1] + s[i] /\ s[i] \in Nat
  BY RunningEnds
<1>3. total \in Nat /\ 0 \in 0 .. n /\ n \in 0 .. n
  <2>1. 0 \in 0 .. n /\ n \in 0 .. n
    BY <1>1
  <2>2. QED BY <1>2, <2>1 DEF Body!Sum
<1>4. /\ w <= table /\ table \div w = n + 1 /\ table % w = 0
      /\ \A i \in Nat : (i + 1) * w <= table => i <= n
  <2> HIDE DEF n, w
  <2>1. n + 1 \in Nat /\ 1 <= n + 1 /\ 1 * w = w
    BY <1>1
  <2>2. 1 * w <= (n + 1) * w
    BY <1>1, <2>1, Widths
  <2>3. ((n + 1) * w) \div w = n + 1 /\ ((n + 1) * w) % w = 0
    BY <1>1, <2>1, Widths
  <2>4. ASSUME NEW i \in Nat, (i + 1) * w <= table PROVE i <= n
    <3>1. SUFFICES ASSUME n + 1 <= i PROVE FALSE
      BY <1>1
    <3>2. n + 2 \in Nat /\ i + 1 \in Nat /\ n + 2 <= i + 1
      BY <1>1, <3>1
    <3>3. (n + 2) * w <= (i + 1) * w
      BY <1>1, <3>2, Widths
    <3>4. (n + 2) * w = (n + 1) * w + w
      BY <1>1
    <3>5. (i + 1) * w \in Int /\ (n + 1) * w \in Int
      BY <1>1, <2>1, Widths
    <3>6. QED BY <1>1, <2>4, <3>3, <3>4, <3>5
  <2>5. QED BY <2>1, <2>2, <2>3, <2>4
<1> HIDE DEF n, w, E, total, table
<1>5. b.word[0] = table /\ table <= b.len
  BY <1>1, <1>2, <1>3
<1>6. ASSUME NEW i \in 0 .. n PROVE b.word[i] \in Nat /\ b.word[i] <= b.len
  <2>1. b.word[i] = table + E[i] /\ E[i] \in Nat /\ E[i] <= total
    BY <1>1, <1>2
  <2>2. QED BY <1>1, <1>3, <2>1
<1>7. Readable(b)
  <2>1. \A i \in Nat : i <= n => i \in 0 .. n
    BY <1>1
  <2>2. QED BY <1>1, <1>3, <1>4, <1>5, <1>6, <2>1 DEF Readable, w
<1>8. Body!OffsetCount(b) = {n}
  <2>1. (0 + 1) * w = w /\ w <= b.len
    BY <1>1, <1>4, <1>5
  <2>2. Body!ReadOff(b, 0) = {table}
    BY <1>5, <2>1 DEF Body!ReadOff, w
  <2>3. {f \in Body!ReadOff(b, 0) : f >= w /\ f % w = 0 /\ f <= b.len} = {table}
    BY <1>1, <1>4, <1>5, <2>2
  <2>4. Body!OffsetCount(b) = {f \div w - 1 : f \in {table}}
    BY <2>3 DEF Body!OffsetCount, w
  <2>5. {f \div w - 1 : f \in {table}} = {table \div w - 1}
    OBVIOUS
  <2>6. table \div w - 1 = n
    BY <1>1, <1>4
  <2>7. QED BY <2>4, <2>5, <2>6
<1>9. ASSUME NEW i \in 1 .. n
      PROVE  /\ i \in 0 .. n /\ i - 1 \in 0 .. n /\ (i - 1) + 1 = i /\ i - 1 \in Nat /\ i - 1 < n
             /\ b.word[i] = b.word[i - 1] + s[i] /\ s[i] \in Nat
             /\ table <= b.word[i - 1]
             /\ b.word[i - 1] <= b.word[i]
  <2>1. i \in 0 .. n /\ i - 1 \in 0 .. n /\ (i - 1) + 1 = i /\ i - 1 \in Nat /\ i - 1 < n
    BY <1>1
  <2>2. /\ b.word[i] = table + E[i] /\ b.word[i - 1] = table + E[i - 1]
        /\ E[i] = E[i - 1] + s[i] /\ s[i] \in Nat /\ E[i - 1] \in Nat
    BY <1>1, <1>2, <2>1
  <2>3. QED BY <1>1, <2>1, <2>2
<1>10. Body!ValidateOffsets(b) = {n}
  <2>1. ASSUME NEW i \in 1 .. n
        PROVE  \E next \in Body!ReadOff(b, i) :
                 /\ \A prev \in Body!ReadOff(b, i - 1) : prev <= next
                 /\ next <= b.len
    <3>1. n \in Body!OffsetCount(b) /\ i \in 0 .. n /\ i - 1 \in 0 .. n
      BY <1>8, <1>9
    <3>2. Body!ReadOff(b, i) = {b.word[i]} /\ Body!ReadOff(b, i - 1) = {b.word[i - 1]}
      BY <1>7, <3>1, TableRead
    <3>3. b.word[i] <= b.len /\ b.word[i - 1] <= b.word[i]
      BY <1>6, <1>9, <3>1
    <3>4. QED BY <3>2, <3>3
  <2>2. QED BY <1>8, <2>1 DEF Body!ValidateOffsets
<1>11. ASSUME NEW i \in 1 .. n
       PROVE  \E r \in Body!BlobRange(b, n, i - 1) : r.to - r.from = s[i]
  <2> DEFINE r == [from |-> b.word[i - 1], to |-> b.word[i]]
  <2>1. n \in Body!OffsetCount(b) /\ b.word[i] <= b.len
    BY <1>6, <1>8, <1>9
  <2>2. r \in Body!BlobRange(b, n, i - 1)
    BY <1>5, <1>7, <1>9, <2>1, Ranges
  <2>3. r.to - r.from = s[i]
    BY <1>6, <1>9
  <2>4. QED BY <2>2, <2>3
<1>12. QED BY <1>7, <1>10, <1>11 DEF n

\* What is encoded reads back, unless it is too long for the decoders.
LEMMA EncodedReadsBack ==
  ASSUME lens \in Seq(Nat), NEW packed \in BOOLEAN, NEW b,
         b = Body!Encoded(lens, packed), parsed = Body!ParseBody(b)
  PROVE  Body!RoundTrip(b)
<1>1. /\ Body!ValidateOffsets(b) = {Len(lens)}
      /\ \A i \in 1 .. Len(lens) :
           \E r \in Body!BlobRange(b, Len(lens), i - 1) : r.to - r.from = lens[i]
  BY EncodedReads
<1>2. CASE Body!Decodes(b)
  <2>1. parsed = {Len(lens)} /\ DOMAIN lens = 1 .. Len(lens)
    BY <1>1, <1>2 DEF Body!ParseBody
  <2>2. QED BY <1>1, <2>1 DEF Body!RoundTrip
<1>3. CASE ~Body!Decodes(b)
  <2>1. parsed = {} /\ b.packed /\ ~(b.len <= Body!Limit(b))
    BY <1>3 DEF Body!ParseBody, Body!Decodes
  <2>2. b.ext \in BOOLEAN /\ b.len \in Nat /\ (~b.ext => b.len <= Top32)
    BY EncodedIs
  <2>3. b.ext /\ b.len > Limit64
    BY <2>1, <2>2, BodyAssumption DEF Body!Limit
  <2>4. QED BY <2>1, <2>3 DEF Body!RoundTrip
<1>4. QED BY <1>2, <1>3

\* Any bytes a reader may be given.
LEMMA BodiesReadable ==
  ASSUME NEW b \in Body!Bodies
  PROVE  Readable(b)
<1>0. PICK x \in BOOLEAN :
        b \in UNION {[packed : BOOLEAN, ext : {x}, len : {n},
                      word : [0 .. n \div Body!Width(x) - 1 -> 0 .. n + 1]]
                       : n \in 0 .. (MaxWords + 1) * Body!Width(x) - 1}
  BY DEF Body!Bodies
<1>1. PICK n \in 0 .. (MaxWords + 1) * Body!Width(x) - 1 :
        b \in [packed : BOOLEAN, ext : {x}, len : {n},
               word : [0 .. n \div Body!Width(x) - 1 -> 0 .. n + 1]]
  BY <1>0
<1> DEFINE w == Body!Width(x)
<1>2. w \in Nat \ {0} /\ n \in Nat /\ n \div w \in Nat
  <2>1. w \in Nat \ {0} /\ MaxWords \in Nat
    BY BodyAssumption DEF Body!Width
  <2>2. (MaxWords + 1) * w \in Nat
    BY <2>1
  <2> HIDE DEF w
  <2>3. n \in Nat
    BY <1>1, <2>2 DEF w
  <2>4. QED BY <2>1, <2>3
<1>3. /\ b.packed \in BOOLEAN /\ b.ext = x /\ b.len = n
      /\ b.word \in [0 .. n \div w - 1 -> 0 .. n + 1]
  BY <1>1
<1> HIDE DEF w
<1>4. ASSUME NEW i \in Nat, (i + 1) * w <= n PROVE b.word[i] \in Nat
  <2>1. n = (n \div w) * w + (n % w) /\ n % w < w /\ n % w \in Nat
    BY <1>2
  <2>2. i + 1 <= n \div w
    <3>1. SUFFICES ASSUME (n \div w) + 1 <= i + 1 PROVE FALSE
      BY <1>2
    <3>2. (n \div w) + 1 \in Nat /\ i + 1 \in Nat
      BY <1>2
    <3>3. ((n \div w) + 1) * w <= (i + 1) * w
      BY <1>2, <3>1, <3>2, Widths
    <3>4. ((n \div w) + 1) * w = (n \div w) * w + w /\ (n \div w) * w \in Int
      BY <1>2, Widths
    <3>5. (i + 1) * w \in Int
      BY <1>2, Widths
    <3>6. QED BY <1>2, <1>4, <2>1, <3>3, <3>4, <3>5
  <2>3. i \in 0 .. n \div w - 1
    BY <1>2, <2>2
  <2>4. QED BY <1>2, <1>3, <2>3
<1>5. w <= n => b.word[0] \in Nat
  <2>1. (0 + 1) * w = w
    BY <1>2
  <2>2. QED BY <1>4, <2>1
<1>6. QED BY <1>2, <1>3, <1>4, <1>5 DEF Readable, w

\* Lengths of blobs are numbers.
LEMMA BodyInit == Body!Init => BodyInv
<1> SUFFICES ASSUME Body!Init PROVE BodyInv
  OBVIOUS
<1>1. lens \in Seq(Nat)
  <2>1. CASE lens \in Body!BoundedSeq(BlobLens, MaxBlobs)
    <3>1. PICK n \in 0 .. MaxBlobs : lens \in [1 .. n -> BlobLens]
      BY <2>1 DEF Body!BoundedSeq, Body!SeqOf
    <3>2. n \in Nat /\ BlobLens \subseteq Nat
      BY BodyAssumption
    <3>3. lens \in [1 .. n -> Nat]
      BY <3>1, <3>2
    <3>4. QED BY <3>2, <3>3, SeqDef
  <2>2. CASE lens = << >>
    BY <2>2
  <2>3. QED BY <2>1, <2>2 DEF Body!Init
<1>2. CASE body = {}
  BY <1>1, <1>2 DEF Body!Init, BodyInv
<1>3. CASE lens = << >> /\ \E b \in Body!Bodies : body = {b}
  BY <1>1, <1>3, BodiesReadable DEF Body!Init, BodyInv
<1>4. QED BY <1>2, <1>3 DEF Body!Init

\* Encoding, parsing and asking for a blob keep the invariant.
LEMMA BodyStep ==
  ASSUME BodyInv, Body!Next
  PROVE  BodyInv'
<1>1. ASSUME NEW packed \in BOOLEAN, Body!Encode(packed) PROVE BodyInv'
  <2>1. /\ body = {} /\ body' = {Body!Encoded(lens, packed)}
        /\ UNCHANGED <<lens, asked, parsed>>
    BY <1>1 DEF Body!Encode
  <2>2. lens \in Seq(Nat) /\ Readable(Body!Encoded(lens, packed))
    BY EncodedReads DEF BodyInv
  <2>3. ~asked
    BY <2>1 DEF BodyInv
  <2>4. QED BY <2>1, <2>2, <2>3 DEF BodyInv
<1>2. ASSUME Body!Parse PROVE BodyInv'
  <2>1. /\ \E b \in body : parsed' = Body!ParseBody(b)
        /\ UNCHANGED <<lens, body>>
    BY <1>2 DEF Body!Parse
  <2>2. body' # {} /\ \A b \in body' : parsed' = Body!ParseBody(b)
    BY <2>1 DEF BodyInv
  <2>3. QED BY <2>1, <2>2 DEF BodyInv
<1>3. QED BY <1>1, <1>2 DEF Body!Next

(* The inductive invariant of cluster bodies, in every behaviour of the       *)
(* reader: a body is one whose offsets fit their width, and an encoded one is *)
(* what encode_cluster makes of the lengths.                                  *)
THEOREM BodyInvariance == ReaderSpec => [](part = "cluster" => BodyInv)
<1>1. ReaderInit => (part = "cluster" => BodyInv)
  BY BodyInit DEF ReaderInit
<1>2. ASSUME part = "cluster" => BodyInv,
             [ReaderNext]_readerVars
      PROVE  (part = "cluster" => BodyInv)'
  <2>1. SUFFICES ASSUME part' = "cluster" PROVE BodyInv'
    OBVIOUS
  <2>2. CASE InCluster
    BY <1>2, <2>2, BodyStep DEF InCluster
  <2>3. CASE ByPath \/ ByTitle \/ InFile \/ InCache
    BY <2>1, <2>3 DEF ByPath, ByTitle, InFile, InCache
  <2>4. CASE UNCHANGED readerVars
    BY <1>2, <2>1, <2>4 DEF readerVars, cluster, BodyInv
  <2>5. QED BY <1>2, <2>2, <2>3, <2>4 DEF ReaderNext
<1>3. QED BY <1>1, <1>2, PTL DEF ReaderSpec

\* For clusters of any size with offsets of any width: the checks of a reader
\* and its reads of blobs agree, and read back what the writer encoded.
THEOREM BlobsAreExact == ReaderSpec => []BlobsExact
<1>1. ASSUME part = "cluster" => BodyInv PROVE BlobsExact
  <2>1. SUFFICES ASSUME part = "cluster", asked, NEW b \in body
                 PROVE  /\ Body!ReadSound(b) /\ Body!InPlaceSound(b)
                        /\ lens # << >> => Body!RoundTrip(b)
    BY DEF BlobsExact, Body!BlobsExact
  <2>2. BodyInv /\ Readable(b) /\ parsed = Body!ParseBody(b) /\ lens \in Seq(Nat)
    BY <1>1, <2>1 DEF BodyInv
  <2>3. lens # << >> => Body!RoundTrip(b)
    <3>1. SUFFICES ASSUME lens # << >> PROVE Body!RoundTrip(b)
      OBVIOUS
    <3>2. PICK packed \in BOOLEAN : b = Body!Encoded(lens, packed)
      BY <2>1, <2>2, <3>1 DEF BodyInv
    <3>3. QED BY <2>2, <3>2, EncodedReadsBack
  <2>4. QED BY <2>2, <2>3, ParsedIsSound, InPlaceIsSound
<1>2. QED BY <1>1, BodyInvariance, PTL

----------------------------------------------------------------------------
(* The cache of decompressed clusters, for any number of threads *)

\* The inductive invariant.  The counters and the budget follow from the
\* exact account, the account from the order of use being without duplicates.
CacheInv ==
    /\ CacheTypes
    /\ BytesExact
    /\ IsFiniteSet(Resident)
    /\ WithinBudget
    /\ JustPutStays
    /\ StatsAddUp

(* The payload of a set of clusters *)

\* A cluster that comes in adds its length to the payload.
LEMMA PayloadAdd ==
  ASSUME NEW A \in SUBSET Clusters, NEW i \in Clusters, i \notin A,
         IsFiniteSet(Payload(A))
  PROVE  /\ IsFiniteSet(Payload(A \cup {i}))
         /\ Cardinality(Payload(A)) \in Nat
         /\ Cardinality(Payload(A \cup {i})) = Cardinality(Payload(A)) + Length[i]
<1> DEFINE C == {i} \X (1 .. Length[i])
<1>1. Length[i] \in Nat
  BY LengthAssumption
<1>2. IsFiniteSet(C) /\ Cardinality(C) = Length[i]
  BY <1>1, ChunkSize
<1>3. Payload(A \cup {i}) = Payload(A) \cup C
  BY DEF Payload
<1>4. Payload(A) \cap C = {}
  BY DEF Payload
<1> HIDE DEF C
<1>5. Cardinality(Payload(A)) \in Nat
  BY FS_CardinalityType
<1>6. QED BY <1>2, <1>3, <1>4, <1>5, AddChunk

\* A cluster that leaves takes its length away, which never underflows.
LEMMA PayloadDrop ==
  ASSUME NEW A \in SUBSET Clusters, NEW i \in A, IsFiniteSet(Payload(A))
  PROVE  /\ IsFiniteSet(Payload(A \ {i}))
         /\ Cardinality(Payload(A)) \in Nat
         /\ Length[i] <= Cardinality(Payload(A))
         /\ Cardinality(Payload(A \ {i})) = Cardinality(Payload(A)) - Length[i]
<1> DEFINE C == {i} \X (1 .. Length[i])
<1>1. Length[i] \in Nat
  BY LengthAssumption
<1>2. Cardinality(C) = Length[i]
  BY <1>1, ChunkSize
<1>3. Payload(A \ {i}) = Payload(A) \ C
  BY DEF Payload
<1>4. C \subseteq Payload(A)
  BY DEF Payload
<1> HIDE DEF C
<1>5. QED BY <1>2, <1>3, <1>4, RemoveChunk

\* The order of use after a cluster was used or put in.
LEMMA UsedLast ==
  ASSUME NEW q \in Seq(Clusters), IsInjective(q), NEW i \in Clusters
  PROVE  LET r == Append(Without(q, i), i) IN
         /\ r \in Seq(Clusters)
         /\ IsInjective(r)
         /\ Range(r) = Range(q) \cup {i}
         /\ Len(q) \in Nat
         /\ Len(r) = IF i \in Range(q) THEN Len(q) ELSE Len(q) + 1
         /\ r # << >>
         /\ Last(r) = i
<1> DEFINE w == Without(q, i)
           r == Append(w, i)
<1>1. Len(q) \in Nat /\ DOMAIN q = 1 .. Len(q)
  BY LenProperties
<1>2. /\ w \in Seq(Clusters)
      /\ IsInjective(w)
      /\ Range(w) = Range(q) \ {i}
      /\ Len(w) = IF i \in Range(q) THEN Len(q) - 1 ELSE Len(q)
  <2>1. CASE i \notin Range(q)
    BY <1>1, <2>1 DEF Without
  <2>2. CASE i \in Range(q)
    <3> DEFINE p == CHOOSE k \in DOMAIN q : q[k] = i
    <3>1. p \in 1 .. Len(q) /\ q[p] = i
      <4>1. \E k \in DOMAIN q : q[k] = i
        BY <2>2 DEF Range
      <4>2. p \in DOMAIN q /\ q[p] = i
        BY <4>1
      <4>3. QED BY <1>1, <4>2
    <3>2. w = RemoveAt(q, p)
      BY <2>2 DEF Without
    <3> HIDE DEF p, w
    <3>3. QED BY <2>2, <3>1, <3>2, DropAt
  <2>3. QED BY <2>1, <2>2
<1> HIDE DEF w
<1>3. i \notin Range(w)
  BY <1>2
<1>4. /\ r \in Seq(Clusters)
      /\ Len(r) = Len(w) + 1
      /\ Range(r) = Range(w) \cup {i}
      /\ IsInjective(r)
  BY <1>2, <1>3, PutLast
<1>5. Len(w) \in Nat /\ r[Len(w) + 1] = i /\ r # << >>
  BY <1>2, LenProperties, AppendProperties
<1>6. Last(r) = i
  BY <1>4, <1>5 DEF Last
<1>7. Len(r) = IF i \in Range(q) THEN Len(q) ELSE Len(q) + 1
  <2>1. CASE i \in Range(q)
    <3>1. Len(r) = (Len(q) - 1) + 1
      BY <1>2, <1>4, <2>1
    <3>2. QED BY <1>1, <2>1, <3>1
  <2>2. CASE i \notin Range(q)
    BY <1>2, <1>4, <2>2
  <2>3. QED BY <2>1, <2>2
<1>8. QED BY <1>1, <1>2, <1>4, <1>5, <1>6, <1>7 DEF w

(* One lemma per action *)

\* The threads that parse can be counted.
LEMMA CountedLoading ==
  IsFiniteSet(Loading) /\ Cardinality(Loading) \in Nat
<1>1. IsFiniteSet(Threads)
  BY ThreadsAssumption
<1>2. Loading \subseteq Threads
  BY DEF Loading
<1>3. QED BY <1>1, <1>2, FS_Subset, FS_CardinalityType

\* A miss adds one of them.
LEMMA StartsLoading ==
  ASSUME NEW t \in Threads, t \notin Loading
  PROVE  Cardinality(Loading \cup {t}) = Cardinality(Loading) + 1
BY CountedLoading, FS_AddElement

\* A put or a failed parse takes one away.
LEMMA StopsLoading ==
  ASSUME NEW t \in Loading
  PROVE  /\ Cardinality(Loading \ {t}) = Cardinality(Loading) - 1
BY CountedLoading, FS_RemoveElement

\* ClusterByteCache::new.
LEMMA CacheStarts == CacheInit => CacheInv
<1> SUFFICES ASSUME CacheInit PROVE CacheInv
  OBVIOUS
<1>1. lru = << >> /\ lru \in Seq(Clusters) /\ Range(lru) = {} /\ IsInjective(lru)
  BY EmptyChannel DEF CacheInit
<1>2. Resident = {}
  BY <1>1 DEF Resident, Cached, Payload
<1>3. Cardinality(Resident) = 0 /\ IsFiniteSet(Resident)
  BY <1>2, FS_EmptySet
<1>4. max \in Nat
  BY BudgetAssumption DEF CacheInit
<1>5. CacheTypes
  BY <1>1, <1>4, NoneAssumption DEF CacheInit, CacheTypes
<1>6. Loading = {}
  BY DEF CacheInit, Loading
<1>7. StatsAddUp
  <2>1. Cardinality(Loading) = 0 /\ Len(lru) = 0
    BY <1>1, <1>6, FS_EmptySet
  <2>2. QED BY <2>1 DEF CacheInit, StatsAddUp
<1>8. WithinBudget /\ JustPutStays
  BY <1>4 DEF CacheInit, WithinBudget, JustPutStays
<1>9. QED BY <1>1, <1>3, <1>5, <1>7, <1>8 DEF CacheInv, BytesExact, CacheInit

\* Steps of one thread that leave the cached clusters alone.
LEMMA StepOutside ==
  ASSUME CacheInv, NEW t \in Threads, NEW i \in Clusters,
         Load(t, i) \/ Miss(t) \/ Parse(t) \/ ParseFails(t)
  PROVE  CacheInv'
<1> USE DEF CacheInv
<1>1. UNCHANGED <<lru, max, bytes, evictions, holder>>
  BY DEF Load, Miss, Parse, ParseFails
<1>2. CacheTypes'
  BY NoneAssumption DEF CacheTypes, Goto, Load, Miss, Parse, ParseFails
<1>3. BytesExact' /\ IsFiniteSet(Resident)' /\ WithinBudget'
  BY <1>1 DEF BytesExact, Resident, Cached, WithinBudget
<1>4. \A u \in Threads : (pc[u] = "evict")' =>
        pc[u] = "evict" /\ want'[u] = want[u]
  BY DEF CacheTypes, Goto, Load, Miss, Parse, ParseFails
<1>5. JustPutStays'
  BY <1>1, <1>4 DEF JustPutStays
<1>6. StatsAddUp'
  <2>1. CASE Load(t, i)
    <3>1. Loading' = Loading
      BY <2>1 DEF CacheTypes, Loading, Goto, Load
    <3>2. QED BY <2>1, <3>1 DEF StatsAddUp, Load
  <2>2. CASE Miss(t)
    <3>1. Loading' = Loading \cup {t} /\ t \notin Loading
      BY <2>2 DEF CacheTypes, Loading, Goto, Miss
    <3>2. Cardinality(Loading') = Cardinality(Loading) + 1
      BY <3>1, StartsLoading
    <3>3. QED BY <2>2, <3>2, CountedLoading, LenProperties DEF CacheTypes, StatsAddUp, Miss
  <2>3. CASE Parse(t)
    <3>1. Loading' = Loading
      BY <2>3 DEF CacheTypes, Loading, Goto, Parse
    <3>2. QED BY <2>3, <3>1 DEF StatsAddUp, Parse
  <2>4. CASE ParseFails(t)
    <3>1. Loading' = Loading \ {t} /\ t \in Loading
      BY <2>4 DEF CacheTypes, Loading, Goto, ParseFails
    <3>2. Cardinality(Loading') = Cardinality(Loading) - 1
      BY <3>1, StopsLoading
    <3>3. QED BY <2>4, <3>2, CountedLoading, LenProperties
             DEF CacheTypes, StatsAddUp, ParseFails
  <2>5. QED BY <2>1, <2>2, <2>3, <2>4
<1>7. QED BY <1>2, <1>3, <1>5, <1>6

\* A hit only moves its cluster to the end of the order of use.
LEMMA StepHit ==
  ASSUME CacheInv, NEW t \in Threads, Hit(t)
  PROVE  CacheInv'
<1> USE DEF CacheInv
<1>1. /\ want[t] \in Clusters
      /\ want[t] \in Range(lru)
      /\ lru \in Seq(Clusters) /\ IsInjective(lru)
  BY DEF CacheTypes, Hit, BytesExact, Cached
<1>2. /\ lru' \in Seq(Clusters)
      /\ IsInjective(lru')
      /\ Range(lru') = Range(lru)
      /\ Len(lru') = Len(lru)
  <2>1. Range(lru) \cup {want[t]} = Range(lru)
    BY <1>1
  <2>2. lru' = Append(Without(lru, want[t]), want[t])
    BY DEF Hit
  <2>3. QED BY <1>1, <2>1, <2>2, UsedLast
<1>3. CacheTypes'
  BY <1>2, NoneAssumption DEF CacheTypes, Goto, Hit
<1>4. Resident' = Resident
  BY <1>2 DEF Resident, Cached, Payload
<1>5. BytesExact' /\ IsFiniteSet(Resident)'
  BY <1>2, <1>4 DEF BytesExact, Hit
<1>6. WithinBudget'
  BY <1>2 DEF WithinBudget, Hit
<1>7. JustPutStays'
  BY <1>3, NoneAssumption DEF JustPutStays, CacheTypes, Hit
<1>8. Loading' = Loading
  BY DEF CacheTypes, Loading, Goto, Hit
<1>9. StatsAddUp'
  BY <1>2, <1>8 DEF StatsAddUp, Hit
<1>10. QED BY <1>3, <1>5, <1>6, <1>7, <1>9

\* put accounts for what it adds and for what it replaces.
LEMMA StepPut ==
  ASSUME CacheInv, NEW t \in Threads, Put(t)
  PROVE  CacheInv'
<1> USE DEF CacheInv
<1> DEFINE i == want[t]
<1>1. /\ i \in Clusters
      /\ lru \in Seq(Clusters) /\ IsInjective(lru)
      /\ Length[i] \in Nat
  BY LengthAssumption DEF CacheTypes, Put, BytesExact
<1>2. /\ lru' \in Seq(Clusters)
      /\ IsInjective(lru')
      /\ Range(lru') = Range(lru) \cup {i}
      /\ Len(lru) \in Nat
      /\ Len(lru') = IF i \in Range(lru) THEN Len(lru) ELSE Len(lru) + 1
      /\ lru' # << >>
      /\ Last(lru') = i
  BY <1>1, UsedLast DEF Put
<1>3. bytes' = (IF i \in Range(lru) THEN Minus(bytes, Length[i]) ELSE bytes) + Length[i]
  BY DEF Put, Cached
<1>4. Range(lru) \in SUBSET Clusters
  BY <1>1, RangeOfSeq
<1>5. /\ bytes' = Cardinality(Payload(Range(lru')))
      /\ bytes' \in Nat
      /\ IsFiniteSet(Payload(Range(lru')))
  <2>1. bytes = Cardinality(Payload(Range(lru))) /\ IsFiniteSet(Payload(Range(lru)))
    BY DEF BytesExact, Resident, Cached
  <2>2. CASE i \in Range(lru)
    <3>1. Range(lru') = Range(lru)
      BY <1>2, <2>2
    <3>2. Length[i] <= bytes /\ bytes \in Nat
      BY <1>4, <2>1, <2>2, PayloadDrop
    <3>3. bytes' = bytes
      BY <1>1, <1>3, <2>2, <3>2 DEF Minus
    <3>4. QED BY <2>1, <3>1, <3>2, <3>3
  <2>3. CASE i \notin Range(lru)
    <3>1. /\ IsFiniteSet(Payload(Range(lru) \cup {i}))
          /\ Cardinality(Payload(Range(lru))) \in Nat
          /\ Cardinality(Payload(Range(lru) \cup {i})) =
               Cardinality(Payload(Range(lru))) + Length[i]
      BY <1>1, <1>4, <2>1, <2>3, PayloadAdd
    <3>2. QED BY <1>1, <1>2, <1>3, <2>1, <2>3, <3>1
  <2>4. QED BY <2>2, <2>3
<1>6. BytesExact' /\ IsFiniteSet(Resident)'
  BY <1>2, <1>5 DEF BytesExact, Resident, Cached
<1>7. CacheTypes'
  BY <1>2, <1>5, NoneAssumption DEF CacheTypes, Goto, Put
<1>8. WithinBudget'
  BY NoneAssumption DEF WithinBudget, Put
<1>9. JustPutStays'
  <2>1. \A u \in Threads : pc'[u] = "evict" => u = t
    BY <1>7 DEF CacheTypes, Put
  <2>2. want'[t] = i
    BY DEF CacheTypes, Put, Goto
  <2>3. QED BY <1>2, <2>1, <2>2 DEF JustPutStays
<1>10. StatsAddUp'
  <2>1. Loading' = Loading \ {t} /\ t \in Loading
    BY DEF CacheTypes, Loading, Goto, Put
  <2>2. Cardinality(Loading') = Cardinality(Loading) - 1 /\ Cardinality(Loading) \in Nat
    BY <2>1, StopsLoading, CountedLoading
  <2>3. wasted' = (IF i \in Range(lru) THEN wasted + 1 ELSE wasted) /\ wasted \in Nat
    BY DEF CacheTypes, Put, Cached
  <2>4. misses' = misses /\ evictions' = evictions /\ evictions \in Nat
    BY DEF CacheTypes, Put
  <2>5. QED BY <1>2, <2>2, <2>3, <2>4 DEF StatsAddUp
<1>11. QED BY <1>6, <1>7, <1>8, <1>9, <1>10

\* resize evicts before it unlocks.
LEMMA StepResize ==
  ASSUME CacheInv, NEW t \in Threads, NEW b \in Budgets, Resize(t, b)
  PROVE  CacheInv'
<1> USE DEF CacheInv
<1>1. b \in Nat
  BY BudgetAssumption
<1>2. CacheTypes'
  BY <1>1, NoneAssumption DEF CacheTypes, Goto, Resize
<1>3. BytesExact' /\ IsFiniteSet(Resident)'
  BY DEF BytesExact, Resident, Cached, Resize
<1>4. WithinBudget'
  BY NoneAssumption DEF WithinBudget, Resize
<1>5. JustPutStays'
  <2>1. \A u \in Threads : pc'[u] = "evict" => u = t
    BY <1>2 DEF CacheTypes, Resize
  <2>2. want'[t] = NoCluster
    BY DEF CacheTypes, Resize, Goto
  <2>3. QED BY <2>1, <2>2 DEF JustPutStays
<1>6. Loading' = Loading
  BY DEF CacheTypes, Loading, Goto, Resize
<1>7. StatsAddUp'
  BY <1>6 DEF StatsAddUp, Resize
<1>8. QED BY <1>2, <1>3, <1>4, <1>5, <1>7

\* An eviction takes the oldest cluster, its length and one from the misses still cached.
LEMMA StepEvict ==
  ASSUME CacheInv, NEW t \in Threads, Evict(t)
  PROVE  CacheInv'
<1> USE DEF CacheInv
<1> DEFINE i == Head(lru)
<1>1. lru \in Seq(Clusters) /\ IsInjective(lru) /\ Len(lru) \in Nat /\ Len(lru) > 1
  BY LenProperties DEF CacheTypes, Evict, OverBudget, BytesExact
<1>2. lru # << >>
  BY <1>1
<1>3. /\ i \in Range(lru)
      /\ lru' \in Seq(Clusters)
      /\ Len(lru') = Len(lru) - 1
      /\ Range(lru') = Range(lru) \ {i}
      /\ IsInjective(lru')
  BY <1>1, <1>2, TakeHead DEF Evict
<1>4. lru' # << >> /\ Last(lru') = Last(lru)
  <2>1. Len(Tail(lru)) = Len(lru) - 1
        /\ \A k \in 1 .. Len(Tail(lru)) : Tail(lru)[k] = lru[k + 1]
    BY <1>1, <1>2, HeadTailProperties
  <2>2. (Len(lru) - 1) \in 1 .. (Len(lru) - 1) /\ (Len(lru) - 1) + 1 = Len(lru)
    BY <1>1
  <2>3. lru'[Len(lru) - 1] = lru[Len(lru)]
    BY <2>1, <2>2 DEF Evict
  <2>4. QED BY <1>1, <1>3, <2>3 DEF Last
<1>5. Range(lru) \in SUBSET Clusters
  BY <1>1, RangeOfSeq
<1>6. bytes = Cardinality(Payload(Range(lru))) /\ IsFiniteSet(Payload(Range(lru)))
  BY DEF BytesExact, Resident, Cached
<1>7. /\ IsFiniteSet(Payload(Range(lru) \ {i}))
      /\ bytes \in Nat
      /\ Length[i] \in Nat
      /\ Length[i] <= bytes
      /\ Cardinality(Payload(Range(lru) \ {i})) = bytes - Length[i]
  BY <1>3, <1>5, <1>6, PayloadDrop, LengthAssumption
<1>8. bytes' = bytes - Length[i] /\ bytes' \in Nat
  BY <1>7 DEF Evict, Minus
<1>9. BytesExact' /\ IsFiniteSet(Resident)'
  BY <1>3, <1>7, <1>8 DEF BytesExact, Resident, Cached
<1>10. CacheTypes'
  BY <1>3, <1>8 DEF CacheTypes, Evict
<1>11. holder = t /\ holder' = t
  BY DEF CacheTypes, Evict
<1>12. WithinBudget'
  BY <1>11, NoneAssumption DEF WithinBudget
<1>13. JustPutStays'
  BY <1>4 DEF JustPutStays, Evict
<1>14. StatsAddUp'
  <2>1. Loading' = Loading
    BY DEF Loading, Evict
  <2>2. QED BY <1>1, <1>3, <2>1, CountedLoading DEF CacheTypes, StatsAddUp, Evict
<1>15. QED BY <1>9, <1>10, <1>12, <1>13, <1>14

\* The guard is dropped once the cache is within its budget.
LEMMA StepUnlock ==
  ASSUME CacheInv, NEW t \in Threads, Unlock(t)
  PROVE  CacheInv'
<1> USE DEF CacheInv
<1>1. holder = t
  BY DEF CacheTypes, Unlock
<1>2. CacheTypes'
  BY <1>1, NoneAssumption DEF CacheTypes, Goto, Unlock
<1>3. BytesExact' /\ IsFiniteSet(Resident)'
  BY DEF BytesExact, Resident, Cached, Unlock
<1>4. WithinBudget'
  <2>1. bytes \in Nat /\ max \in Nat /\ Len(lru) \in Nat
    BY LenProperties DEF CacheTypes
  <2>2. CASE bytes <= max
    BY <2>2 DEF WithinBudget, Unlock
  <2>3. CASE Len(lru) = 1
    BY <2>3 DEF WithinBudget, Unlock
  <2>4. CASE Len(lru) = 0
    <3>1. Range(lru) = {}
      BY <2>4, EmptySeq, EmptyChannel DEF CacheTypes
    <3>2. Resident = {}
      BY <3>1 DEF Resident, Cached, Payload
    <3>3. bytes = 0
      BY <3>2, FS_EmptySet DEF BytesExact
    <3>4. QED BY <2>1, <2>2, <3>3
  <2>5. bytes <= max \/ Len(lru) <= 1
    BY <2>1 DEF Unlock, OverBudget
  <2>6. bytes <= max \/ Len(lru) = 1 \/ Len(lru) = 0
    BY <2>1, <2>5
  <2>7. QED BY <2>2, <2>3, <2>4, <2>6
<1>5. JustPutStays'
  BY <1>2, NoneAssumption DEF JustPutStays, CacheTypes, Unlock
<1>6. Loading' = Loading
  BY DEF CacheTypes, Loading, Goto, Unlock
<1>7. StatsAddUp'
  BY <1>6 DEF StatsAddUp, Unlock
<1>8. QED BY <1>2, <1>3, <1>4, <1>5, <1>7

\* A step of no variable.
LEMMA CacheRests ==
  ASSUME CacheInv, UNCHANGED cacheVars
  PROVE  CacheInv'
BY DEF CacheInv, cacheVars, CacheTypes, BytesExact, Resident, Cached, WithinBudget,
       JustPutStays, StatsAddUp, Loading

----------------------------------------------------------------------------
\* Every step of every thread keeps the account, the budget and the counters.
THEOREM CacheInvariance == ReaderSpec => []CacheInv
<1>1. ReaderInit => CacheInv
  BY CacheStarts DEF ReaderInit, NoCache
<1>2. ASSUME CacheInv, [ReaderNext]_readerVars PROVE CacheInv'
  <2>1. ASSUME NEW t \in Threads, NEW i \in Clusters, Load(t, i) PROVE CacheInv'
    BY <1>2, <2>1, StepOutside
  <2>2. ASSUME NEW t \in Threads, NEW b \in Budgets, Resize(t, b) PROVE CacheInv'
    BY <1>2, <2>2, StepResize
  <2>3. ASSUME NEW t \in Threads, LoadStep(t) PROVE CacheInv'
    <3>1. CASE Hit(t)
      BY <1>2, <3>1, StepHit
    <3>2. CASE Miss(t) \/ Parse(t) \/ ParseFails(t)
      <4>1. want[t] \in Clusters
        BY <1>2, <3>2 DEF CacheInv, CacheTypes, Miss, Parse, ParseFails
      <4>2. QED BY <1>2, <3>2, <4>1, StepOutside
    <3>3. CASE Put(t)
      BY <1>2, <3>3, StepPut
    <3>4. CASE Evict(t)
      BY <1>2, <3>4, StepEvict
    <3>5. CASE Unlock(t)
      BY <1>2, <3>5, StepUnlock
    <3>6. QED BY <2>3, <3>1, <3>2, <3>3, <3>4, <3>5 DEF LoadStep
  <2>4. CASE Idle \/ UNCHANGED cacheVars
    BY <1>2, <2>4, CacheRests DEF Idle
  <2>5. CASE InCache
    BY <2>5, <2>1, <2>2, <2>3, <2>4 DEF InCache, CacheNext
  <2>6. CASE ByPath \/ ByTitle \/ InFile \/ InCluster \/ UNCHANGED readerVars
    BY <2>4, <2>6 DEF ByPath, ByTitle, InFile, InCluster, readerVars
  <2>7. QED BY <1>2, <2>5, <2>6 DEF ReaderNext
<1>3. QED BY <1>1, <1>2, PTL DEF ReaderSpec

\* Every variable keeps its type, and the mutex is held over several steps
\* by evict_to_budget alone.
THEOREM CacheTypeCorrect == ReaderSpec => []CacheTypes
<1>1. CacheInv => CacheTypes
  BY DEF CacheInv
<1>2. QED BY <1>1, CacheInvariance, PTL

\* current_bytes is the length of the cached payloads, for clusters of any
\* length and any race of loads.
THEOREM AccountExact == ReaderSpec => []BytesExact
<1>1. CacheInv => BytesExact
  BY DEF CacheInv
<1>2. QED BY <1>1, CacheInvariance, PTL

\* Between critical sections the cache is within its budget or holds a
\* single cluster.
THEOREM BudgetKept == ReaderSpec => []WithinBudget
<1>1. CacheInv => WithinBudget
  BY DEF CacheInv
<1>2. QED BY <1>1, CacheInvariance, PTL

\* The eviction loop of a put never evicts what was put in.
THEOREM PutSurvives == ReaderSpec => []JustPutStays
<1>1. CacheInv => JustPutStays
  BY DEF CacheInv
<1>2. QED BY <1>1, CacheInvariance, PTL

\* Misses are entries, evictions, parses that came to nothing and parses
\* under way.
THEOREM CountersAddUp == ReaderSpec => []StatsAddUp
<1>1. CacheInv => StatsAddUp
  BY DEF CacheInv
<1>2. QED BY <1>1, CacheInvariance, PTL

\* Eviction keeps the budget, and never loses what was just put in.
THEOREM EvictionIsExact == ReaderSpec => []EvictionExact
<1>1. CacheInv => EvictionExact
  BY DEF CacheInv, EvictionExact
<1>2. QED BY <1>1, CacheInvariance, PTL
=============================================================================
