------------------------ MODULE RedirectArchiveProofs ------------------------
(***************************************************************************)
(* Proofs about redirects, for directories of any size and any shape and     *)
(* for any MAX_REDIRECTS.                                                  *)
(*                                                                         *)
(* The writer.  That there is no cycle among the decided redirects cannot    *)
(* be seen from the marks alone.  Inv therefore speaks of every closed set   *)
(* of redirects: none is decided completely (Acyclic), and one that the      *)
(* chain has touched holds the entry the walk is at (Funnel), so that it     *)
(* cannot be left through an article or a decided entry.                    *)
(*                                                                         *)
(* The readers.  ReadInv says what each of their loops knows: a chain that   *)
(* is chased has come this far from its entry, and what check_integrity has  *)
(* coloured is as sound as what it has scanned.  Their loops are cycles of   *)
(* the writer's graph (LoopsAreCycles), which joins the two.                *)
(***************************************************************************)
EXTENDS RedirectArchive, CommonLemmas

Marked == {i \in Entries : mark[i] # 0}

\* Every redirect has a target once step 5 is over.
Resolved == pc \notin {"resolve", "missing"} => \A i \in Redirects : target[i] \in Entries

\* Where the walk is.
Position ==
    /\ start <= N => current \in Entries
    /\ start = N + 1 => chain = << >>
    /\ chain = << >> => current = start
    /\ chain # << >> => mark[start] = 1
    /\ pc = "resolve" => start = 1 /\ chain = << >> /\ mark = [i \in Entries |-> 0]
    /\ pc = "cycle" => start <= N
    /\ pc = "done" => start = N + 1

\* The entries on the chain lead to one another and to current.
OnChain ==
    /\ Range(chain) = {i \in Entries : mark[i] = 1}
    /\ \A i \in Entries : mark[i] = 1 =>
         /\ i \in Redirects
         /\ mark[target[i]] = 1 \/ target[i] = current

\* Everything before start is decided.
Behind == \A i \in Entries : i < start => mark[i] \in {2, 3}

Acyclic ==
    \A C \in SUBSET Redirects : Closed(C) => \E i \in C : mark[i] \notin {2, 3}

Funnel ==
    \A C \in SUBSET Redirects :
      Closed(C) /\ (\E i \in C : mark[i] = 1) => current \in C

\* One step for each entry marked and one for each entry decided.
Work ==
    steps <= Cardinality(Marked) + (start - 1) + (IF pc = "cycle" THEN 1 ELSE 0)

Inv ==
    /\ TypeOK
    /\ Resolved
    /\ Position
    /\ OnChain
    /\ Behind
    /\ Agrees
    /\ Acyclic
    /\ Funnel
    /\ Work
    /\ CycleExact

----------------------------------------------------------------------------
\* The empty path holds no entry.
LEMMA RangeEmpty == Range(<< >>) = {}
  BY DEF Range

\* The walk adds the entry it goes to.
LEMMA RangeAppend ==
  ASSUME NEW q \in Seq(Entries), NEW e \in Entries
  PROVE  Range(Append(q, e)) = Range(q) \cup {e}
<1>1. /\ Len(q) \in Nat
      /\ DOMAIN q = 1 .. Len(q)
      /\ DOMAIN Append(q, e) = 1 .. (Len(q) + 1)
      /\ \A i \in 1 .. Len(q) : Append(q, e)[i] = q[i]
      /\ Append(q, e)[Len(q) + 1] = e
  BY LenProperties, AppendProperties
<1> QED
  BY <1>1 DEF Range

\* There are at most as many marks as entries.
LEMMA MarkedFinite ==
  ASSUME TypeOK
  PROVE  /\ IsFiniteSet(Marked)
         /\ Cardinality(Marked) \in Nat
         /\ Cardinality(Marked) <= N
<1>1. IsFiniteSet(Entries) /\ Cardinality(Entries) = N
  <2>1. N \in Nat
    BY NAssumption
  <2> QED
    BY <2>1, FS_Interval, FS_CardinalityType DEF Entries
<1>2. Marked \subseteq Entries
  BY DEF Marked
<1> QED
  BY <1>1, <1>2, FS_Subset, FS_CardinalityType

\* Nothing is resolved at first.
LEMMA InitInv == Init => Inv
<1> SUFFICES ASSUME Init PROVE Inv
  OBVIOUS
<1> USE NAssumption
<1>1. TypeOK
  BY DEF Init, TypeOK, Entries, Kinds
<1>2. Range(chain) = {}
  BY RangeEmpty DEF Init
<1>3. Resolved /\ Position /\ Agrees /\ CycleExact
  BY DEF Init, Resolved, Position, Agrees, CycleExact, Entries
<1>4. OnChain /\ Behind
  BY <1>2 DEF Init, OnChain, Behind, Entries
<1>5. Acyclic /\ Funnel
  BY DEF Init, Acyclic, Funnel, Closed, Redirects
<1>6. Work
  BY <1>1, MarkedFinite DEF Init, Work
<1> QED
  BY <1>1, <1>3, <1>4, <1>5, <1>6 DEF Inv

----------------------------------------------------------------------------
\* Step 5 of finalize: targets are resolved.
LEMMA ResolveInv ==
  ASSUME Inv, Resolve
  PROVE  Inv'
<1> USE NAssumption
<1>1. TypeOK'
  BY DEF Inv, TypeOK, Resolve, Entries, Kinds
<1>2. Resolved' /\ Position' /\ CycleExact'
  BY DEF Inv, TypeOK, Resolve, Resolved, Position, CycleExact, Redirects, Entries
<1>3. OnChain' /\ Behind' /\ Agrees'
  BY DEF Inv, Resolve, OnChain, Behind, Agrees, Redirects, Entries
<1>4. Acyclic' /\ Funnel'
  BY DEF Inv, Resolve, Acyclic, Funnel, Closed, Redirects, Entries
<1>5. Marked' = Marked
  BY DEF Resolve, Marked
<1>6. Work'
  BY <1>5, MarkedFinite DEF Inv, Resolve, Work, TypeOK
<1> QED
  BY <1>1, <1>2, <1>3, <1>4, <1>6 DEF Inv

\* The walk met its own chain: the chain is a cycle with what leads into it.
LEMMA CycleInv ==
  ASSUME Inv, Cycle
  PROVE  Inv'
<1> USE NAssumption
<1> DEFINE C == {i \in Entries : mark[i] = 1}
<1>1. current \in C
  BY DEF Inv, Position, Cycle
<1>2. \A i \in C : target[i] \in C
  <2> SUFFICES ASSUME NEW i \in C PROVE target[i] \in C
    OBVIOUS
  <2>1. i \in Redirects /\ (mark[target[i]] = 1 \/ target[i] = current)
    BY DEF Inv, OnChain
  <2>2. target[i] \in Entries
    BY <2>1 DEF Inv, Resolved, Cycle
  <2> QED
    BY <2>1, <2>2, <1>1
<1>3. HasCycle
  BY <1>1, <1>2 DEF HasCycle, Closed, Inv, OnChain
<1>4. TypeOK'
  BY DEF Inv, TypeOK, Cycle
<1>5. Resolved' /\ Position'
  BY DEF Inv, TypeOK, Cycle, Resolved, Position, Redirects, Entries
<1>6. OnChain' /\ Behind' /\ Agrees'
  BY DEF Inv, Cycle, OnChain, Behind, Agrees, Redirects, Entries
<1>7. Acyclic' /\ Funnel'
  BY DEF Inv, Cycle, Acyclic, Funnel, Closed, Redirects, Entries
<1>8. CycleExact'
  BY <1>3 DEF Cycle, CycleExact, HasCycle, Closed, Redirects, Entries
<1>9. Marked' = Marked
  BY DEF Cycle, Marked
<1>10. Work'
  BY <1>9, MarkedFinite DEF Inv, Cycle, Work, TypeOK
<1> QED
  BY <1>4, <1>5, <1>6, <1>7, <1>8, <1>10 DEF Inv

\* Step 6: the walk and its marks.
LEMMA FollowInv ==
  ASSUME Inv, Follow
  PROVE  Inv'
<1> USE NAssumption
<1>1. /\ current \in Entries /\ current \in Redirects /\ target[current] \in Entries
      /\ mark[current] = 0
      /\ mark' = [mark EXCEPT ![current] = 1]
      /\ current' = target[current]
      /\ mark \in [Entries -> 0 .. 3]
      /\ Redirects' = Redirects
  BY DEF Inv, TypeOK, Position, Resolved, Follow, Redirects
<1>2. /\ chain' \in Seq(Entries)
      /\ Range(chain') = Range(chain) \cup {current}
      /\ chain' # << >>
  BY <1>1, RangeAppend DEF Inv, TypeOK, Follow
<1>3. TypeOK'
  BY <1>1, <1>2 DEF Inv, TypeOK, Follow, Entries
<1>4. Resolved' /\ CycleExact'
  BY <1>1 DEF Inv, Follow, Resolved, CycleExact
<1>5. Position'
  BY <1>1, <1>2 DEF Inv, TypeOK, Follow, Position, Entries
<1>6. OnChain'
  <2>1. Range(chain') = {i \in Entries : mark'[i] = 1}
    BY <1>1, <1>2 DEF Inv, OnChain
  <2>2. ASSUME NEW i \in Entries, mark'[i] = 1
        PROVE  i \in Redirects /\ (mark'[target[i]] = 1 \/ target[i] = current')
    <3>1. CASE i = current
      BY <1>1, <3>1
    <3>2. CASE i # current
      <4>1. mark[i] = 1
        BY <1>1, <2>2, <3>2
      <4>2. i \in Redirects /\ (mark[target[i]] = 1 \/ target[i] = current)
        BY <4>1 DEF Inv, OnChain
      <4>3. target[i] \in Entries
        BY <4>2 DEF Inv, Resolved, Follow
      <4> QED
        BY <1>1, <4>2, <4>3
    <3> QED
      BY <3>1, <3>2
  <2> QED
    BY <1>1, <2>1, <2>2 DEF OnChain, Follow, Entries
<1>7. Behind'
  BY <1>1 DEF Inv, Behind, Follow, Entries
<1>8. Agrees'
  <2> SUFFICES ASSUME NEW i \in Entries, mark'[i] \in {2, 3}
               PROVE  IF i \in Redirects THEN mark'[target[i]] = mark'[i]
                      ELSE mark'[i] = 3 <=> kind[i] = "html"
    BY <1>1 DEF Agrees, Follow, Entries
  <2>1. i # current /\ mark'[i] = mark[i]
    BY <1>1
  <2>2. CASE i \in Redirects
    <3>1. mark[target[i]] = mark[i] /\ target[i] \in Entries
      BY <2>1, <2>2 DEF Inv, Agrees, Resolved, Follow
    <3>2. target[i] # current
      BY <1>1, <2>1, <3>1
    <3> QED
      BY <1>1, <2>1, <2>2, <3>1, <3>2
  <2>3. CASE i \notin Redirects
    BY <2>1, <2>3 DEF Inv, Agrees
  <2> QED
    BY <2>2, <2>3
<1>9. Acyclic'
  <2> SUFFICES ASSUME NEW C \in SUBSET Redirects, Closed(C)
               PROVE  \E i \in C : mark'[i] \notin {2, 3}
    BY <1>1 DEF Acyclic, Closed, Follow
  <2>1. PICK i \in C : mark[i] \notin {2, 3}
    BY DEF Inv, Acyclic
  <2>2. i \in Entries
    BY DEF Redirects
  <2> QED
    BY <1>1, <2>1, <2>2
<1>10. Funnel'
  <2> SUFFICES ASSUME NEW C \in SUBSET Redirects, Closed(C),
                      NEW i \in C, mark'[i] = 1
               PROVE  current' \in C
    BY <1>1 DEF Funnel, Closed, Follow
  <2>1. current \in C
    <3>1. i \in Entries
      BY DEF Redirects
    <3>2. CASE i = current
      BY <3>2
    <3>3. CASE i # current
      <4>1. mark[i] = 1
        BY <1>1, <3>1, <3>3
      <4> QED
        BY <4>1 DEF Inv, Funnel
    <3> QED
      BY <3>2, <3>3
  <2> QED
    BY <1>1, <2>1 DEF Closed
<1>11. Work'
  <2>1. Marked' = Marked \cup {current} /\ current \notin Marked
    BY <1>1 DEF Marked, Entries
  <2>2. Cardinality(Marked') = Cardinality(Marked) + 1
    BY <2>1, MarkedFinite, FS_AddElement DEF Inv
  <2> QED
    BY <2>2, MarkedFinite DEF Inv, TypeOK, Work, Follow
<1> QED
  BY <1>3, <1>4, <1>5, <1>6, <1>7, <1>8, <1>9, <1>10, <1>11 DEF Inv

\* The walk ends at a decided entry or an article, and the chain is decided.
LEMMA SettleInv ==
  ASSUME Inv, Known \/ Article
  PROVE  Inv'
<1> USE NAssumption
<1> DEFINE fresh == mark[current] = 0
           m == IF fresh THEN (IF kind[current] = "html" THEN 3 ELSE 2)
                         ELSE mark[current]
           q == IF fresh THEN Append(chain, current) ELSE chain
           R == {i \in Entries : mark[i] = 1 \/ (fresh /\ i = current)}
<1>1. /\ Settle(m, q) /\ steps' = steps + 1
      /\ UNCHANGED <<kind, target, pc, listing>>
      /\ pc = "walk" /\ start <= N
      /\ fresh \/ mark[current] \in {2, 3}
      /\ fresh => current \notin Redirects
  BY DEF Known, Article
<1>2. /\ current \in Entries
      /\ mark \in [Entries -> 0 .. 3]
      /\ chain \in Seq(Entries)
      /\ start \in 1 .. N + 1
      /\ steps \in Nat
      /\ Redirects' = Redirects
  BY <1>1 DEF Inv, TypeOK, Position, Redirects
<1>3. Range(q) = R
  <2>1. Range(chain) = {i \in Entries : mark[i] = 1}
    BY DEF Inv, OnChain
  <2>2. CASE fresh
    BY <1>2, <2>1, <2>2, RangeAppend
  <2>3. CASE ~fresh
    BY <2>1, <2>3
  <2> QED
    BY <2>2, <2>3
<1>4. m \in {2, 3}
  BY <1>1
<1> HIDE DEF q
<1>5. /\ mark' = [i \in Entries |-> IF i \in R THEN m ELSE mark[i]]
      /\ chain' = << >>
      /\ start' = start + 1
      /\ current' = start + 1
  BY <1>1, <1>3 DEF Settle
<1>6. \A i \in Entries : mark'[i] # 1
  BY <1>2, <1>4, <1>5
<1>7. \A i \in Redirects : /\ target[i] \in Entries
                           /\ i \in R => mark[i] = 1
                           /\ i \in Entries
  BY <1>1, <1>2 DEF Inv, Resolved, Redirects
<1> HIDE DEF m
<1>8. TypeOK'
  <2>1. mark' \in [Entries -> 0 .. 3]
    BY <1>2, <1>4, <1>5
  <2>2. start' \in 1 .. N + 1 /\ current' \in 1 .. N + 1
    BY <1>1, <1>2, <1>5
  <2>3. chain' \in Seq(Entries)
    BY <1>5
  <2> QED
    BY <1>1, <2>1, <2>2, <2>3 DEF Inv, TypeOK, Entries
<1>9. Resolved' /\ CycleExact'
  BY <1>1, <1>2 DEF Inv, Resolved, CycleExact
<1>10. Position'
  BY <1>1, <1>2, <1>5 DEF Position, Entries
<1>11. OnChain'
  BY <1>5, <1>6, RangeEmpty DEF OnChain, Entries
<1>12. Behind'
  <2> SUFFICES ASSUME NEW i \in Entries, i < start + 1
               PROVE  mark'[i] \in {2, 3}
    BY <1>5 DEF Behind, Entries
  <2>1. CASE i \in R
    BY <1>4, <1>5, <2>1
  <2>2. CASE i \notin R
    <3>1. mark'[i] = mark[i]
      BY <1>5, <2>2
    <3>2. CASE i < start
      BY <3>1, <3>2 DEF Inv, Behind
    <3>3. CASE i = start
      <4>1. i = current \/ mark[i] = 1
        BY <3>3 DEF Inv, Position
      <4> QED
        BY <1>1, <2>2, <3>1, <4>1
    <3> QED
      BY <1>2, <3>2, <3>3 DEF Entries
  <2> QED
    BY <2>1, <2>2
<1>13. Agrees'
  <2> SUFFICES ASSUME NEW i \in Entries, mark'[i] \in {2, 3}
               PROVE  IF i \in Redirects THEN mark'[target[i]] = mark'[i]
                      ELSE mark'[i] = 3 <=> kind[i] = "html"
    BY <1>1, <1>2 DEF Agrees, Entries
  <2>1. CASE i \in Redirects /\ i \in R
    <3>1. mark[target[i]] = 1 \/ target[i] = current
      BY <1>7, <2>1 DEF Inv, OnChain
    <3>2. mark'[target[i]] = m
      BY <1>1, <1>2, <1>5, <1>7, <2>1, <3>1 DEF m
    <3> QED
      BY <1>5, <2>1, <3>2
  <2>2. CASE i \in Redirects /\ i \notin R
    <3>1. mark[i] \in {2, 3} /\ mark'[i] = mark[i]
      BY <1>5, <2>2
    <3>2. mark[target[i]] = mark[i]
      BY <2>2, <3>1 DEF Inv, Agrees
    <3>3. target[i] \notin R
      BY <3>1, <3>2
    <3> QED
      BY <1>5, <1>7, <2>2, <3>1, <3>2, <3>3
  <2>3. CASE i \notin Redirects
    <3>1. CASE i \in R
      <4>1. fresh /\ i = current
        BY <2>3, <3>1 DEF Inv, OnChain
      <4> QED
        BY <1>5, <2>3, <3>1, <4>1 DEF m
    <3>2. CASE i \notin R
      BY <1>5, <2>3, <3>2 DEF Inv, Agrees
    <3> QED
      BY <3>1, <3>2
  <2> QED
    BY <2>1, <2>2, <2>3
<1>14. Acyclic'
  <2> SUFFICES ASSUME NEW C \in SUBSET Redirects, Closed(C),
                      \A i \in C : mark'[i] \in {2, 3}
               PROVE  FALSE
    BY <1>1, <1>2 DEF Acyclic, Closed
  <2>1. PICK i \in C : mark[i] \notin {2, 3}
    BY DEF Inv, Acyclic
  <2>2. mark[i] = 1
    BY <1>5, <1>7, <2>1
  <2>3. current \in C
    BY <2>1, <2>2 DEF Inv, Funnel
  <2> DEFINE D == {j \in C : mark[j] \in {2, 3}}
  <2>4. current \in D
    BY <1>1, <2>3
  <2>5. \A j \in D : target[j] \in D
    <3> SUFFICES ASSUME NEW j \in D PROVE target[j] \in D
      OBVIOUS
    <3>1. j \in Redirects /\ j \in Entries
      BY <1>7
    <3>2. mark[target[j]] = mark[j]
      BY <3>1 DEF Inv, Agrees
    <3> QED
      BY <3>2 DEF Closed
  <2>6. Closed(D) /\ D \in SUBSET Redirects
    BY <2>4, <2>5 DEF Closed
  <2> QED
    BY <2>6 DEF Inv, Acyclic
<1>15. Funnel'
  BY <1>2, <1>6, <1>7 DEF Funnel
<1>16. Work'
  <2>1. Marked' = Marked \cup (IF fresh THEN {current} ELSE {})
    BY <1>2, <1>4, <1>5 DEF Marked, Entries
  <2>2. IsFiniteSet(Marked) /\ Cardinality(Marked) \in Nat
    BY MarkedFinite DEF Inv
  <2>3. Cardinality(Marked') \in {Cardinality(Marked), Cardinality(Marked) + 1}
    <3>1. CASE fresh
      BY <2>1, <2>2, <3>1, FS_AddElement
    <3>2. CASE ~fresh
      <4>1. Marked' = Marked
        BY <2>1, <3>2
      <4> QED
        BY <4>1
    <3> QED
      BY <3>1, <3>2
  <2> QED
    BY <1>1, <1>2, <1>5, <2>2, <2>3 DEF Inv, Work
<1> QED
  BY <1>8, <1>9, <1>10, <1>11, <1>12, <1>13, <1>14, <1>15, <1>16 DEF Inv

\* Step 6: the listing.
LEMMA ListInv ==
  ASSUME Inv, List
  PROVE  Inv'
<1> USE NAssumption
<1>1. start = N + 1 /\ pc = "walk" /\ pc' = "done"
  BY DEF Inv, TypeOK, List
<1>2. \A i \in Entries : mark[i] \in {2, 3}
  BY <1>1 DEF Inv, TypeOK, Behind, Entries
<1>3. ~HasCycle
  BY <1>2 DEF Inv, Acyclic, HasCycle, Redirects
<1>4. TypeOK'
  BY DEF Inv, TypeOK, List
<1>5. Resolved' /\ Position'
  BY <1>1 DEF Inv, List, Resolved, Position, Redirects, Entries
<1>6. OnChain' /\ Behind' /\ Agrees'
  BY DEF Inv, List, OnChain, Behind, Agrees, Redirects, Entries
<1>7. Acyclic' /\ Funnel'
  BY DEF Inv, List, Acyclic, Funnel, Closed, Redirects, Entries
<1>8. CycleExact'
  BY <1>1, <1>3 DEF List, CycleExact, HasCycle, Closed, Redirects, Entries
<1>9. Marked' = Marked
  BY DEF List, Marked
<1>10. Work'
  BY <1>1, <1>9, MarkedFinite DEF Inv, List, Work, TypeOK
<1> QED
  BY <1>4, <1>5, <1>6, <1>7, <1>8, <1>10 DEF Inv

\* A step of no variable.
LEMMA StutterInv ==
  ASSUME Inv, UNCHANGED vars
  PROVE  Inv'
<1>1. /\ TypeOK' /\ Resolved' /\ Position' /\ OnChain' /\ Behind' /\ Agrees'
      /\ Redirects' = Redirects /\ Marked' = Marked
  BY DEF Inv, vars, TypeOK, Resolved, Position, OnChain, Behind, Agrees, Redirects, Marked
<1>2. Acyclic' /\ Funnel' /\ CycleExact' /\ Work'
  BY <1>1 DEF Inv, vars, Acyclic, Funnel, CycleExact, HasCycle, Closed, Work
<1> QED
  BY <1>1, <1>2 DEF Inv

----------------------------------------------------------------------------
\* The walk keeps its invariant on every directory.
THEOREM WalkInvariance == Spec => []Inv
<1>1. Init => Inv
  BY InitInv
<1>2. ASSUME Inv, [Next]_vars PROVE Inv'
  <2>1. CASE Resolve
    BY <1>2, <2>1, ResolveInv
  <2>2. CASE Cycle
    BY <1>2, <2>2, CycleInv
  <2>3. CASE Known \/ Article
    BY <1>2, <2>3, SettleInv
  <2>4. CASE Follow
    BY <1>2, <2>4, FollowInv
  <2>5. CASE List
    BY <1>2, <2>5, ListInv
  <2>6. CASE Ended \/ UNCHANGED vars
    BY <1>2, <2>6, StutterInv DEF Ended
  <2> QED
    BY <1>2, <2>1, <2>2, <2>3, <2>4, <2>5, <2>6 DEF Next
<1> QED
  BY <1>1, <1>2, PTL DEF Spec

\* Every variable keeps its type; the walk never leaves the directory.
THEOREM WalkTypeCorrect == Spec => []TypeOK
<1>1. Inv => TypeOK
  BY DEF Inv
<1> QED
  BY <1>1, WalkInvariance, PTL

\* A directory is refused for a cycle exactly if it has one.
THEOREM CyclesFound == Spec => []CycleExact
<1>1. Inv => CycleExact
  BY DEF Inv
<1> QED
  BY <1>1, WalkInvariance, PTL

\* What the walk has decided agrees along every redirect.
THEOREM MarksAgree == Spec => []Agrees
<1>1. Inv => Agrees
  BY DEF Inv
<1> QED
  BY <1>1, WalkInvariance, PTL

\* The inner loop runs at most twice per entry.
THEOREM WalkIsLinear == Spec => []LinearWalk
<1>1. ASSUME Inv PROVE LinearWalk
  <2>1. Cardinality(Marked) \in Nat /\ Cardinality(Marked) <= N
    BY <1>1, MarkedFinite DEF Inv
  <2>2. steps \in Nat /\ start \in 1 .. N + 1 /\ (pc = "cycle" => start <= N)
    BY <1>1 DEF Inv, TypeOK, Position
  <2> QED
    BY <1>1, <2>1, <2>2, NAssumption DEF Inv, Work, LinearWalk
<1> QED
  BY <1>1, WalkInvariance, PTL

\* The walk finds the cycles there are, in linear time.
THEOREM WalkIsExact == Spec => []WalkExact
<1>1. CycleExact /\ LinearWalk => WalkExact
  BY DEF WalkExact
<1> QED
  BY <1>1, CyclesFound, WalkIsLinear, PTL

----------------------------------------------------------------------------
(* The archive that was written *)

\* What the readers find at the end of the walk.
Outcome ==
    /\ pc = "missing" => \E i \in Redirects : target[i] = 0
    /\ pc = "done" => listing = {i \in Entries : kind[i] # "page" /\ mark[i] = 3}

\* Nothing is decided before the walk begins.
LEMMA OutcomeInit == Init => Outcome
  BY DEF Init, Outcome

\* Only a dangling redirect is reported as missing, and the listing is the marked entries.
LEMMA OutcomeNext ==
  ASSUME Inv, Outcome, [Next]_vars
  PROVE  Outcome'
<1>1. Redirects' = Redirects /\ UNCHANGED <<kind, target>>
  BY DEF Next, Resolve, Cycle, Known, Article, Follow, List, Ended, vars, Redirects
<1>2. CASE Resolve
  BY <1>1, <1>2 DEF Resolve, Outcome
<1>3. CASE List
  BY <1>1, <1>3 DEF List, Outcome
<1>4. CASE Cycle \/ Known \/ Article \/ Follow
  BY <1>1, <1>4 DEF Cycle, Known, Article, Follow, Outcome
<1>5. CASE Ended \/ UNCHANGED vars
  BY <1>1, <1>5 DEF Ended, vars, Outcome
<1>6. QED BY <1>2, <1>3, <1>4, <1>5 DEF Next

\* The entries of the readers, and where they lead.
LEMMA StoredGraph ==
  ASSUME TypeOK
  PROVE  /\ N \in Nat /\ F!Index = 0 .. N - 1
         /\ Stored \in [F!Index -> -1 .. N]
         /\ \A i \in F!Index :
              /\ i + 1 \in Entries
              /\ F!IsRedirect(i) <=> i + 1 \in Redirects
              /\ F!Dangles(i) <=> i + 1 \in Redirects /\ target[i + 1] = 0
              /\ Stored[i] \in F!Index =>
                   i + 1 \in Redirects /\ target[i + 1] = Stored[i] + 1
              /\ F!IsRedirect(i) /\ ~F!Dangles(i) => Stored[i] \in F!Index
<1>1. N \in Nat /\ F!Index = 0 .. N - 1
  BY NAssumption DEF F!Index
<1>2. ASSUME NEW i \in F!Index
      PROVE  /\ i + 1 \in Entries /\ i \in Nat /\ i < N
             /\ target[i + 1] \in 0 .. N
             /\ Stored[i] = IF i + 1 \notin Redirects THEN -1
                            ELSE IF target[i + 1] = 0 THEN N ELSE target[i + 1] - 1
  BY <1>1 DEF TypeOK, Entries, Stored
<1>3. Stored \in [F!Index -> -1 .. N]
  <2>1. \A i \in F!Index : Stored[i] \in -1 .. N
    BY <1>1, <1>2
  <2>2. Stored = [i \in F!Index |-> Stored[i]]
    BY <1>1 DEF Stored
  <2>3. QED BY <2>1, <2>2
<1>4. ASSUME NEW i \in F!Index
      PROVE  /\ F!IsRedirect(i) <=> i + 1 \in Redirects
             /\ F!Dangles(i) <=> i + 1 \in Redirects /\ target[i + 1] = 0
             /\ Stored[i] \in F!Index =>
                  i + 1 \in Redirects /\ target[i + 1] = Stored[i] + 1
             /\ F!IsRedirect(i) /\ ~F!Dangles(i) => Stored[i] \in F!Index
  BY <1>1, <1>2 DEF F!IsRedirect, F!Dangles, F!Article
<1>5. QED BY <1>1, <1>2, <1>3, <1>4

\* The loops the readers see are the cycles of the writer.
LEMMA LoopsAreCycles ==
  ASSUME TypeOK
  PROVE  /\ F!Loops => HasCycle
         /\ HasCycle /\ (\A i \in F!Index : ~F!Dangles(i)) => F!Loops
<1>1. ASSUME F!Loops PROVE HasCycle
  <2>1. PICK S \in SUBSET F!Index : S # {} /\ F!Trapped(S)
    BY <1>1 DEF F!Loops
  <2> DEFINE C == {j \in Entries : j - 1 \in S}
  <2>2. ASSUME NEW j \in C PROVE j \in Redirects /\ target[j] \in C
    <3>1. j - 1 \in F!Index /\ (j - 1) + 1 = j /\ j \in Entries /\ Stored[j - 1] \in S
      BY <2>1, StoredGraph DEF F!Trapped, Entries
    <3>2. Stored[j - 1] \in F!Index
      BY <3>1
    <3>3. j \in Redirects /\ target[j] = Stored[j - 1] + 1
      BY <3>1, <3>2, StoredGraph
    <3>4. target[j] \in Entries /\ target[j] - 1 = Stored[j - 1]
      BY <3>2, <3>3, StoredGraph
    <3>5. QED BY <3>1, <3>3, <3>4
  <2>3. C # {}
    <3>1. PICK i \in S : i \in F!Index
      BY <2>1
    <3>2. i + 1 \in Entries /\ (i + 1) - 1 = i
      BY <3>1, StoredGraph
    <3>3. QED BY <3>2
  <2>4. C \in SUBSET Redirects /\ Closed(C)
    BY <2>2, <2>3 DEF Closed
  <2>5. QED BY <2>4 DEF HasCycle
<1>2. ASSUME HasCycle, \A i \in F!Index : ~F!Dangles(i) PROVE F!Loops
  <2>1. PICK C \in SUBSET Redirects : Closed(C)
    BY <1>2 DEF HasCycle
  <2> DEFINE S == {i \in F!Index : i + 1 \in C}
  <2>2. ASSUME NEW i \in S PROVE Stored[i] \in S
    <3>1. i \in F!Index /\ i + 1 \in Redirects /\ target[i + 1] \in C
      BY <2>1 DEF Closed
    <3>2. Stored[i] \in F!Index /\ target[i + 1] = Stored[i] + 1
      BY <1>2, <3>1, StoredGraph
    <3>3. QED BY <3>1, <3>2
  <2>3. S # {}
    <3>1. PICK j \in C : j \in Entries
      BY <2>1 DEF Closed, Redirects
    <3>2. j - 1 \in F!Index /\ (j - 1) + 1 = j
      BY <3>1, StoredGraph DEF Entries
    <3>3. QED BY <3>1, <3>2
  <2>4. QED BY <2>2, <2>3 DEF F!Loops, F!Trapped
<1>3. QED BY <1>1, <1>2

----------------------------------------------------------------------------
(* The readers *)

Chasing == op \in {"resolve", "item", "follow"}
Checking == op \in {"scan", "next", "mark", "finish"}

\* Types; nothing is read before the archive is finished.
ReadTypes ==
    /\ ~Finalized => op = "idle" /\ answer = "none" /\ sound = "no"
    /\ Chasing \/ Checking \/ op = "idle"
    /\ Chasing \/ answer # "none" => key \in F!Index /\ cur \in F!Index
    /\ Chasing \/ Checking => answer = "none"
    /\ hops \in Nat
    /\ visited \in [F!Index -> 0 .. 2]
    /\ scanned \in 0 .. N
    /\ op \in {"mark", "finish"} => scanned \in F!Index /\ cur \in F!Index

\* A walk does not leave what cannot be left, stays with what the writer
\* decided, and knows how it came.
Chased ==
    /\ Chasing \/ answer # "none" =>
         /\ \A S \in SUBSET F!Index : key \in S /\ F!Trapped(S) => cur \in S
         /\ pc = "done" => mark[cur + 1] = mark[key + 1]
    /\ op = "resolve" => seen = {} /\ hops <= MaxRedirects /\ F!Chain(hops, cur)
    /\ op = "follow" =>
         /\ key \in seen \/ (seen = {} /\ key = cur)
         /\ \A i \in seen : i \in F!Index /\ (Stored[i] \in seen \/ Stored[i] = cur)

\* check_integrity has looked at all targets before it walks, and an entry it
\* has passed is done.
Scanned ==
    /\ op = "scan" =>
         /\ \A i \in F!Index : i < scanned => ~F!Dangles(i)
         /\ \A i \in F!Index : visited[i] = 0
    /\ op \in {"next", "mark", "finish"} =>
         \A i \in F!Index : ~F!Dangles(i) /\ (i < scanned => visited[i] = 2)

\* What a done entry redirects to is done, or about to be.
DoneGoesOn ==
    \A i \in F!Index :
      visited[i] = 2 /\ F!IsRedirect(i) =>
        visited[Stored[i]] = 2 \/ (op = "finish" /\ Stored[i] = cur)

\* No loop is among the entries that were met.
NoneMetLoops ==
    \A S \in SUBSET F!Index : S # {} /\ F!Trapped(S) => \E i \in S : visited[i] = 0

\* S is not left along the path.
KeepsPath(S) == \A i \in S : visited[i] = 1 /\ F!IsRedirect(i) => Stored[i] \in S
HoldsPath(S) == \A i \in F!Index : visited[i] = 1 => i \in S

Between ==
    op = "next" =>
      /\ \A i \in F!Index : visited[i] # 1
      /\ DoneGoesOn
      /\ NoneMetLoops

\* The first walk: the path leads from scanned to cur, and a loop that it has
\* entered holds cur.
Outbound ==
    op = "mark" =>
      /\ visited[scanned] = 1 \/ (visited[scanned] = 0 /\ cur = scanned)
      /\ DoneGoesOn
      /\ \A i \in F!Index : visited[i] = 1 =>
           F!IsRedirect(i) /\ (visited[Stored[i]] = 1 \/ Stored[i] = cur)
      /\ \A S \in SUBSET F!Index :
           scanned \in S /\ KeepsPath(S) => cur \in S /\ HoldsPath(S)
      /\ \A S \in SUBSET F!Index : S # {} /\ F!Trapped(S) =>
           /\ \E i \in S : visited[i] # 2
           /\ (\E i \in S : visited[i] = 1) => cur \in S

\* The second walk, which finishes the path: what is left of it is ahead.
Inbound ==
    op = "finish" =>
      /\ visited[cur] # 0
      /\ visited[scanned] = 2 \/ cur = scanned
      /\ DoneGoesOn
      /\ \A i \in F!Index : visited[i] = 1 /\ F!IsRedirect(i) => visited[Stored[i]] # 0
      /\ \A S \in SUBSET F!Index : cur \in S /\ KeepsPath(S) => HoldsPath(S)
      /\ NoneMetLoops

Judged ==
    /\ sound \in {"no", "ok", "loop", "index"}
    /\ F!SoundExact
    /\ sound = "loop" => \A i \in F!Index : ~F!Dangles(i)

ReadInv ==
    /\ ReadTypes /\ Chased /\ Scanned
    /\ Between /\ Outbound /\ Inbound
    /\ Judged /\ F!FollowExact

\* What holds of the archive while it is read.
Written == Inv /\ Finalized /\ UNCHANGED written

\* The graph stays.
LEMMA GraphKept ==
  ASSUME Written
  PROVE  /\ Stored' = Stored
         /\ UNCHANGED <<kind, target, pc, mark, listing>>
         /\ Finalized'
  BY DEF Written, written, vars, Stored, Redirects, Finalized

\* Nothing is read while the archive is written.
LEMMA WriteReadInv ==
  ASSUME Inv, ReadInv, Finalize
  PROVE  ReadInv'
<1>1. UNCHANGED read /\ UNCHANGED <<kind, target>> /\ Stored' = Stored
  BY DEF Finalize, Next, Resolve, Cycle, Known, Article, Follow, List, Ended, vars,
         Stored, Redirects
<1>2. UNCHANGED <<sound, op, key, cur, hops, seen, visited, scanned, answer>>
  BY <1>1 DEF read
<1>3. CASE Finalized
  <2>1. UNCHANGED vars
    BY <1>3 DEF Finalize, Finalized, Next, Resolve, Cycle, Known, Article, Follow, List, Ended
  <2>2. UNCHANGED <<kind, target, pc, mark>>
    BY <2>1 DEF vars
  <2>3. ReadTypes' /\ Chased' /\ Scanned'
    BY <1>1, <1>2, <2>2
       DEF ReadInv, ReadTypes, Finalized, Chased, Scanned, Chasing, Checking,
           F!Trapped, F!Chain, F!Dangles
  <2>4. Between' /\ Outbound' /\ Inbound'
    BY <1>1, <1>2
       DEF ReadInv, Between, Outbound, Inbound, DoneGoesOn, NoneMetLoops, KeepsPath,
           HoldsPath, F!Trapped, F!IsRedirect
  <2>5. Judged' /\ F!FollowExact'
    BY <1>1, <1>2
       DEF ReadInv, Judged, F!SoundExact, F!FollowExact, F!Loops, F!Trapped, F!Dangles,
           F!IsRedirect, F!Chain
  <2>6. QED BY <2>3, <2>4, <2>5 DEF ReadInv
<1>4. CASE ~Finalized
  <2>1. op = "idle" /\ answer = "none" /\ sound = "no"
    BY <1>4 DEF ReadInv, ReadTypes
  <2>2. ReadTypes'
    BY <1>2, <2>1 DEF ReadInv, ReadTypes, Chasing, Checking
  <2>3. Chased' /\ Scanned' /\ Between' /\ Outbound' /\ Inbound'
    BY <1>2, <2>1 DEF Chased, Scanned, Between, Outbound, Inbound, Chasing
  <2>4. Judged' /\ F!FollowExact'
    BY <1>2, <2>1 DEF Judged, F!SoundExact, F!FollowExact
  <2>5. QED BY <2>2, <2>3, <2>4 DEF ReadInv
<1>5. QED BY <1>3, <1>4

\* A new call.
LEMMA AskInv ==
  ASSUME ReadInv, Written,
         F!AskIntegrity \/ \E o \in {"resolve", "item", "follow"}, k \in F!Index : F!Ask(o, k)
  PROVE  ReadInv'
<1>1. /\ Stored' = Stored /\ UNCHANGED <<kind, target, pc, mark, listing>>
      /\ Finalized' /\ TypeOK /\ N \in Nat
  BY GraphKept, NAssumption DEF Written, Inv
<1>2. CASE F!AskIntegrity
  <2>1. /\ op' = "scan" /\ visited' = [i \in F!Index |-> 0] /\ scanned' = 0 /\ hops' = 0
        /\ answer' = "none" /\ UNCHANGED sound
    BY <1>2 DEF F!AskIntegrity
  <2>2. ReadTypes'
    BY <1>1, <2>1 DEF ReadTypes, Chasing, Checking
  <2>3. Chased' /\ Between' /\ Outbound' /\ Inbound' /\ F!FollowExact'
    BY <2>1 DEF Chased, Chasing, Between, Outbound, Inbound, F!FollowExact
  <2>4. Scanned'
    BY <2>1, StoredGraph, <1>1 DEF Scanned, F!Index
  <2>5. Judged'
    BY <1>1, <2>1 DEF ReadInv, Judged, F!SoundExact, F!Loops, F!Trapped, F!Dangles
  <2>6. QED BY <2>2, <2>3, <2>4, <2>5 DEF ReadInv
<1>3. ASSUME NEW o \in {"resolve", "item", "follow"}, NEW k \in F!Index, F!Ask(o, k)
      PROVE  ReadInv'
  <2>1. /\ op' = o /\ key' = k /\ cur' = k /\ hops' = 0 /\ seen' = {} /\ answer' = "none"
        /\ UNCHANGED <<sound, visited, scanned>>
    BY <1>3 DEF F!Ask, F!check
  <2>2. ReadTypes'
    BY <1>1, <2>1 DEF ReadInv, ReadTypes, Chasing, Checking
  <2>3. Between' /\ Outbound' /\ Inbound' /\ F!FollowExact' /\ Scanned'
    BY <2>1 DEF Between, Outbound, Inbound, F!FollowExact, Scanned
  <2>4. Chased'
    <3>1. F!Chain(0, k)'
      <4> DEFINE w == [n \in 0 .. 0 |-> k]
      <4>1. w \in [0 .. 0 -> F!Index] /\ w[0] = key' /\ w[0] = k
        BY <2>1
      <4>2. \A n \in 0 .. 0 - 1 : w[n + 1] = Stored'[w[n]]
        OBVIOUS
      <4> HIDE DEF w
      <4>3. QED BY <4>1, <4>2 DEF F!Chain
    <3>2. 0 <= MaxRedirects
      BY MaxRedirectsAssumption
    <3>3. QED BY <1>1, <2>1, <3>1, <3>2 DEF Chased, Chasing, F!Trapped
  <2>5. Judged'
    BY <1>1, <2>1 DEF ReadInv, Judged, F!SoundExact, F!Loops, F!Trapped, F!Dangles
  <2>6. QED BY <2>2, <2>3, <2>4, <2>5 DEF ReadInv
<1>4. QED BY <1>2, <1>3

\* A walk that goes on, or answers, keeps what the checks know.
LEMMA ChaseQuiet ==
  ASSUME ReadInv, Written, Chasing, UNCHANGED <<sound, visited, scanned>>,
         op' \in {"idle", "resolve", "item", "follow"}
  PROVE  Scanned' /\ Between' /\ Outbound' /\ Inbound' /\ Judged'
<1>1. Stored' = Stored
  BY GraphKept
<1>2. Scanned' /\ Between' /\ Outbound' /\ Inbound'
  BY DEF Scanned, Between, Outbound, Inbound
<1>3. Judged'
  BY <1>1 DEF ReadInv, Judged, F!SoundExact, F!Loops, F!Trapped, F!Dangles
<1>4. QED BY <1>2, <1>3

\* One redirect further: no closed set is left, the writer's decision is the
\* same, and the chain is one longer.
LEMMA HopAlong ==
  ASSUME ReadInv, Written, Chasing, F!IsRedirect(cur), ~F!Dangles(cur)
  PROVE  /\ Stored[cur] \in F!Index
         /\ \A S \in SUBSET F!Index : key \in S /\ F!Trapped(S) => Stored[cur] \in S
         /\ pc = "done" => mark[Stored[cur] + 1] = mark[key + 1]
<1>1. key \in F!Index /\ cur \in F!Index
  BY DEF ReadInv, ReadTypes
<1>2. /\ Stored[cur] \in F!Index /\ cur + 1 \in Redirects /\ cur + 1 \in Entries
      /\ target[cur + 1] = Stored[cur] + 1
  BY <1>1, StoredGraph DEF Written, Inv
<1>3. \A S \in SUBSET F!Index : key \in S /\ F!Trapped(S) => Stored[cur] \in S
  BY DEF ReadInv, Chased, F!Trapped
<1>4. ASSUME pc = "done" PROVE mark[Stored[cur] + 1] = mark[key + 1]
  <2>1. mark[cur + 1] \in {2, 3}
    BY <1>2, <1>4, NAssumption DEF Written, Inv, Position, Behind, Entries
  <2>2. mark[target[cur + 1]] = mark[cur + 1]
    BY <1>2, <2>1 DEF Written, Inv, Agrees
  <2>3. QED BY <1>2, <1>4, <2>2 DEF ReadInv, Chased
<1>5. QED BY <1>2, <1>3, <1>4

\* Entry::resolve follows a redirect.
LEMMA HopInv ==
  ASSUME ReadInv, Written, F!Hop
  PROVE  ReadInv'
<1>1. /\ op = "resolve" /\ F!IsRedirect(cur) /\ ~F!Dangles(cur) /\ hops < MaxRedirects
      /\ hops' = hops + 1 /\ cur' = Stored[cur]
      /\ UNCHANGED <<op, key, seen, answer, sound, visited, scanned>>
  BY DEF F!Hop, F!check
<1>2. /\ Stored' = Stored /\ UNCHANGED <<kind, target, pc, mark, listing>> /\ Finalized'
  BY GraphKept
<1>3. Chasing
  BY <1>1 DEF Chasing
<1>4. /\ cur' \in F!Index /\ key \in F!Index /\ cur \in F!Index /\ hops \in Nat
      /\ \A S \in SUBSET F!Index : key \in S /\ F!Trapped(S) => cur' \in S
      /\ pc = "done" => mark[cur' + 1] = mark[key + 1]
  BY <1>1, <1>3, HopAlong DEF ReadInv, ReadTypes
<1>5. F!Chain(hops, cur)'
  <2>1. PICK w \in [0 .. hops -> F!Index] :
          /\ w[0] = key /\ w[hops] = cur
          /\ \A k \in 0 .. hops - 1 : w[k + 1] = Stored[w[k]]
    BY <1>1 DEF ReadInv, Chased, F!Chain
  <2> DEFINE v == [n \in 0 .. hops + 1 |-> IF n = hops + 1 THEN cur' ELSE w[n]]
  <2>2. \A n \in 0 .. hops : v[n] = w[n]
    BY <1>4
  <2>3. v \in [0 .. hops + 1 -> F!Index]
    <3>1. \A n \in 0 .. hops + 1 : v[n] \in F!Index
      BY <1>4
    <3>2. QED BY <3>1
  <2>4. v[0] = key /\ v[hops + 1] = cur'
    BY <1>4, <2>1, <2>2
  <2>5. ASSUME NEW k \in 0 .. hops PROVE v[k + 1] = Stored[v[k]]
    <3>1. CASE k = hops
      BY <1>1, <2>1, <2>2, <2>4, <3>1
    <3>2. CASE k # hops
      <4>1. k \in 0 .. hops - 1 /\ k + 1 \in 0 .. hops
        BY <1>4, <3>2
      <4>2. QED BY <2>1, <2>2, <4>1
    <3>3. QED BY <3>1, <3>2
  <2> HIDE DEF v
  <2>6. (hops + 1) - 1 = hops
    BY <1>4
  <2>7. QED BY <1>1, <1>2, <2>3, <2>4, <2>5, <2>6 DEF F!Chain
<1>6. Chased'
  <2>1. hops + 1 <= MaxRedirects
    BY <1>1, <1>4, MaxRedirectsAssumption
  <2>2. seen = {}
    BY <1>1 DEF ReadInv, Chased
  <2>3. QED BY <1>1, <1>2, <1>4, <1>5, <2>1, <2>2 DEF Chased, F!Trapped
<1>7. ReadTypes'
  BY <1>1, <1>2, <1>4 DEF ReadInv, ReadTypes, Chasing, Checking
<1>8. F!FollowExact'
  BY <1>1 DEF F!FollowExact
<1>9. QED BY <1>1, <1>3, <1>6, <1>7, <1>8, ChaseQuiet DEF ReadInv

\* follow_loop follows a redirect.
LEMMA FollowOnInv ==
  ASSUME ReadInv, Written, F!Follow
  PROVE  ReadInv'
<1>1. /\ op = "follow" /\ F!IsRedirect(cur) /\ ~F!Dangles(cur)
      /\ seen' = seen \cup {cur} /\ cur' = Stored[cur]
      /\ UNCHANGED <<op, key, hops, answer, sound, visited, scanned>>
  BY DEF F!Follow, F!check
<1>2. /\ Stored' = Stored /\ UNCHANGED <<kind, target, pc, mark, listing>> /\ Finalized'
  BY GraphKept
<1>3. Chasing
  BY <1>1 DEF Chasing
<1>4. /\ cur' \in F!Index /\ key \in F!Index /\ cur \in F!Index
      /\ \A S \in SUBSET F!Index : key \in S /\ F!Trapped(S) => cur' \in S
      /\ pc = "done" => mark[cur' + 1] = mark[key + 1]
  BY <1>1, <1>3, HopAlong DEF ReadInv, ReadTypes
<1>5. Chased'
  <2>1. key \in seen'
    BY <1>1 DEF ReadInv, Chased
  <2>2. \A i \in seen' : i \in F!Index /\ (Stored[i] \in seen' \/ Stored[i] = cur')
    BY <1>1, <1>4 DEF ReadInv, Chased
  <2>3. QED BY <1>1, <1>2, <1>4, <2>1, <2>2 DEF Chased, F!Trapped
<1>6. ReadTypes'
  BY <1>1, <1>2, <1>4 DEF ReadInv, ReadTypes, Chasing, Checking
<1>7. F!FollowExact'
  BY <1>1 DEF F!FollowExact
<1>8. QED BY <1>1, <1>3, <1>5, <1>6, <1>7, ChaseQuiet DEF ReadInv

\* An answer is about the chain that was walked.
LEMMA SayInv ==
  ASSUME ReadInv, Written,
         F!Arrives \/ F!HopDangles \/ F!HopLimit \/ F!NotAnItem
           \/ F!FollowDangles \/ F!FollowLoop
  PROVE  ReadInv'
<1>1. /\ op' = "idle" /\ Chasing
      /\ UNCHANGED <<key, cur, hops, seen, sound, visited, scanned>>
  BY DEF F!Arrives, F!HopDangles, F!HopLimit, F!NotAnItem, F!FollowDangles, F!FollowLoop,
         F!Say, F!check, Chasing
<1>2. /\ Stored' = Stored /\ UNCHANGED <<kind, target, pc, mark, listing>> /\ Finalized'
  BY GraphKept
<1>3. key \in F!Index /\ cur \in F!Index
  BY <1>1 DEF ReadInv, ReadTypes
<1>4. ReadTypes'
  BY <1>1, <1>2, <1>3 DEF ReadInv, ReadTypes, Chasing, Checking
<1>5. Chased'
  BY <1>1, <1>2 DEF ReadInv, Chased, F!Trapped
<1> DEFINE trapped == \E S \in SUBSET F!Index : key \in S /\ F!Trapped(S)
<1>6. Stored[cur] \notin F!Index => ~trapped
  BY <1>1 DEF ReadInv, Chased, F!Trapped
<1>7. TypeOK /\ N \in Nat /\ F!Index = 0 .. N - 1
  BY StoredGraph DEF Written, Inv
<1>8. ~F!IsRedirect(cur) \/ F!Dangles(cur) => Stored[cur] \notin F!Index
  BY <1>7 DEF F!IsRedirect, F!Dangles, F!Article
<1>9. F!Dangles(cur) => sound # "ok"
  BY <1>3 DEF ReadInv, Judged, F!SoundExact
<1>10. /\ answer' = "entry" => ~F!IsRedirect(cur) /\ ~trapped
       /\ answer' = "index" => F!Dangles(cur) /\ ~trapped /\ sound # "ok"
       /\ answer' = "loop" =>
            IF seen = {} THEN F!Chain(MaxRedirects, cur) /\ F!IsRedirect(cur) ELSE trapped
  <2>1. CASE F!Arrives
    BY <1>6, <1>8, <2>1 DEF F!Arrives, F!Say
  <2>2. CASE F!HopDangles \/ F!FollowDangles
    BY <1>6, <1>8, <1>9, <2>2 DEF F!HopDangles, F!FollowDangles, F!Say
  <2>3. CASE F!NotAnItem
    BY <2>3 DEF F!NotAnItem, F!Say
  <2>4. CASE F!HopLimit
    <3>1. /\ op = "resolve" /\ F!IsRedirect(cur) /\ hops >= MaxRedirects /\ answer' = "loop"
      BY <2>4 DEF F!HopLimit, F!Say
    <3>2. seen = {} /\ hops <= MaxRedirects /\ hops \in Nat /\ F!Chain(hops, cur)
      BY <3>1 DEF ReadInv, Chased, ReadTypes
    <3>3. hops = MaxRedirects
      BY <3>1, <3>2, MaxRedirectsAssumption
    <3>4. QED BY <3>1, <3>2, <3>3
  <2>5. CASE F!FollowLoop
    <3>1. op = "follow" /\ cur \in seen /\ answer' = "loop"
      BY <2>5 DEF F!FollowLoop, F!Say
    <3>2. key \in seen /\ seen \in SUBSET F!Index /\ F!Trapped(seen)
      BY <3>1 DEF ReadInv, Chased, F!Trapped
    <3>3. QED BY <3>1, <3>2
  <2>6. QED BY <2>1, <2>2, <2>3, <2>4, <2>5
<1>11. F!FollowExact'
  BY <1>1, <1>2, <1>10
     DEF F!FollowExact, F!IsRedirect, F!Dangles, F!Chain, F!Trapped
<1>12. QED BY <1>1, <1>4, <1>5, <1>11, ChaseQuiet DEF ReadInv

----------------------------------------------------------------------------
(* check_integrity *)

\* A step of the check answers no other call.
LEMMA CheckQuiet ==
  ASSUME ReadInv, Written, Checking, UNCHANGED <<key, hops, seen, answer>>,
         op' \in {"idle", "scan", "next", "mark", "finish"}
  PROVE  Chased' /\ F!FollowExact' /\ answer' = "none" /\ hops' \in Nat
<1>1. answer' = "none" /\ hops' \in Nat
  BY DEF ReadInv, ReadTypes
<1>2. QED BY <1>1 DEF Chased, Chasing, F!FollowExact

\* A verdict is kept.
LEMMA JudgedKept ==
  ASSUME ReadInv, Written, UNCHANGED sound
  PROVE  Judged'
BY GraphKept DEF ReadInv, Judged, F!SoundExact, F!Loops, F!Trapped, F!Dangles

\* Before the walks, every target is looked at.
LEMMA ScanInv ==
  ASSUME ReadInv, Written, F!Scan \/ F!ScanRefuses \/ F!ScanDone
  PROVE  ReadInv'
<1>1. /\ op = "scan" /\ Checking /\ UNCHANGED <<key, cur, hops, seen, answer, visited>>
      /\ op' \in {"idle", "scan", "next"}
  BY DEF F!Scan, F!ScanRefuses, F!ScanDone, F!Verdict, F!walk, Checking
<1>2. /\ Stored' = Stored /\ Finalized' /\ N \in Nat /\ F!Index = 0 .. N - 1
      /\ visited \in [F!Index -> 0 .. 2] /\ scanned \in 0 .. N
      /\ \A i \in F!Index : visited[i] = 0 /\ (i < scanned => ~F!Dangles(i))
  BY <1>1, GraphKept, StoredGraph DEF Written, Inv, ReadInv, ReadTypes, Scanned
<1>3. Chased' /\ F!FollowExact' /\ answer' = "none" /\ hops' \in Nat
  BY <1>1, CheckQuiet
<1>4. Outbound' /\ Inbound'
  BY <1>1 DEF Outbound, Inbound
<1>5. CASE F!Scan
  <2>1. /\ scanned < N /\ ~F!Dangles(scanned) /\ scanned' = scanned + 1 /\ op' = "scan"
        /\ UNCHANGED sound
    BY <1>5 DEF F!Scan
  <2>2. Scanned' /\ Between' /\ scanned' \in 0 .. N
    BY <1>1, <1>2, <2>1 DEF Scanned, Between, F!Dangles
  <2>3. ReadTypes'
    BY <1>1, <1>2, <1>3, <2>1, <2>2 DEF ReadInv, ReadTypes, Chasing, Checking
  <2>4. QED BY <1>3, <1>4, <2>1, <2>2, <2>3, JudgedKept DEF ReadInv
<1>6. CASE F!ScanRefuses
  <2>1. /\ scanned < N /\ F!Dangles(scanned) /\ UNCHANGED scanned /\ op' = "idle"
        /\ sound' = "index"
    BY <1>6 DEF F!ScanRefuses, F!Verdict
  <2>2. Scanned' /\ Between'
    BY <2>1 DEF Scanned, Between
  <2>3. ReadTypes'
    BY <1>1, <1>2, <1>3, <2>1 DEF ReadInv, ReadTypes, Chasing, Checking
  <2>4. scanned \in F!Index
    BY <1>2, <2>1
  <2>5. Judged'
    BY <1>2, <2>1, <2>4 DEF Judged, F!SoundExact, F!Dangles
  <2>6. QED BY <1>3, <1>4, <2>2, <2>3, <2>5 DEF ReadInv
<1>7. CASE F!ScanDone
  <2>1. scanned >= N /\ scanned' = 0 /\ op' = "next" /\ UNCHANGED sound
    BY <1>7 DEF F!ScanDone
  <2>2. \A i \in F!Index : ~F!Dangles(i) /\ ~(i < 0)
    BY <1>2, <2>1
  <2>3. Scanned'
    BY <1>2, <2>1, <2>2 DEF Scanned, F!Dangles
  <2>4. Between'
    <3>1. DoneGoesOn' /\ \A i \in F!Index : visited'[i] # 1
      BY <1>1, <1>2 DEF DoneGoesOn
    <3>2. NoneMetLoops'
      BY <1>1, <1>2 DEF NoneMetLoops
    <3>3. QED BY <3>1, <3>2 DEF Between
  <2>5. ReadTypes'
    BY <1>1, <1>2, <1>3, <2>1 DEF ReadInv, ReadTypes, Chasing, Checking
  <2>6. QED BY <1>3, <1>4, <2>1, <2>3, <2>4, <2>5, JudgedKept DEF ReadInv
<1>8. QED BY <1>5, <1>6, <1>7

\* Between two walks.
LEMMA BetweenInv ==
  ASSUME ReadInv, Written, F!Skip \/ F!Start \/ F!Passes
  PROVE  ReadInv'
<1>1. /\ op = "next" /\ Checking /\ UNCHANGED <<key, hops, seen, answer, visited>>
      /\ op' \in {"idle", "next", "mark"}
  BY DEF F!Skip, F!Start, F!Passes, F!Verdict, F!walk, Checking
<1>2. /\ Stored' = Stored /\ Finalized' /\ N \in Nat /\ F!Index = 0 .. N - 1
      /\ visited \in [F!Index -> 0 .. 2] /\ scanned \in 0 .. N
      /\ \A i \in F!Index : ~F!Dangles(i) /\ (i < scanned => visited[i] = 2)
      /\ \A i \in F!Index : visited[i] # 1
      /\ DoneGoesOn /\ NoneMetLoops
  BY <1>1, GraphKept, StoredGraph DEF Written, Inv, ReadInv, ReadTypes, Scanned, Between
<1>3. Chased' /\ F!FollowExact' /\ answer' = "none" /\ hops' \in Nat
  BY <1>1, CheckQuiet
<1>4. Inbound'
  BY <1>1 DEF Inbound
<1>5. CASE F!Skip
  <2>1. /\ scanned < N /\ visited[scanned] # 0 /\ scanned' = scanned + 1 /\ op' = "next"
        /\ UNCHANGED <<sound, cur>>
    BY <1>5 DEF F!Skip, F!walk
  <2>2. scanned \in F!Index
    BY <1>2, <2>1
  <2>3. visited[scanned] = 2
    BY <1>2, <2>1, <2>2
  <2>4. Scanned'
    BY <1>1, <1>2, <2>1, <2>3 DEF Scanned, F!Dangles
  <2>5. Between' /\ Outbound'
    BY <1>1, <1>2, <2>1
       DEF Between, Outbound, DoneGoesOn, NoneMetLoops, F!IsRedirect, F!Trapped
  <2>6. ReadTypes'
    BY <1>1, <1>2, <1>3, <2>1 DEF ReadInv, ReadTypes, Chasing, Checking
  <2>7. QED BY <1>3, <1>4, <2>1, <2>4, <2>5, <2>6, JudgedKept DEF ReadInv
<1>6. CASE F!Start
  <2>1. /\ scanned < N /\ visited[scanned] = 0 /\ cur' = scanned /\ op' = "mark"
        /\ UNCHANGED <<sound, scanned>>
    BY <1>6 DEF F!Start
  <2>2. scanned \in F!Index
    BY <1>2, <2>1
  <2>3. Scanned' /\ Between'
    BY <1>1, <1>2, <2>1 DEF Scanned, Between, F!Dangles
  <2>4. Outbound'
    <3>1. DoneGoesOn'
      BY <1>1, <1>2, <2>1 DEF DoneGoesOn, F!IsRedirect
    <3>2. \A S \in SUBSET F!Index : S # {} /\ F!Trapped(S)' =>
            /\ \E i \in S : visited'[i] # 2
            /\ (\E i \in S : visited'[i] = 1) => cur' \in S
      BY <1>1, <1>2 DEF NoneMetLoops, F!Trapped
    <3>3. \A S \in SUBSET F!Index : scanned \in S => cur' \in S /\ HoldsPath(S)'
      BY <1>1, <1>2, <2>1 DEF HoldsPath
    <3>4. QED BY <1>1, <1>2, <2>1, <3>1, <3>2, <3>3 DEF Outbound
  <2>5. ReadTypes'
    BY <1>1, <1>2, <1>3, <2>1, <2>2 DEF ReadInv, ReadTypes, Chasing, Checking
  <2>6. QED BY <1>3, <1>4, <2>1, <2>3, <2>4, <2>5, JudgedKept DEF ReadInv
<1>7. CASE F!Passes
  <2>1. scanned >= N /\ op' = "idle" /\ sound' = "ok" /\ UNCHANGED scanned
    BY <1>7 DEF F!Passes, F!Verdict
  <2>2. \A i \in F!Index : visited[i] = 2
    BY <1>2, <2>1
  <2>3. ~F!Loops
    BY <1>2, <2>2 DEF F!Loops, NoneMetLoops
  <2>4. Judged'
    BY <1>2, <2>1, <2>3 DEF Judged, F!SoundExact, F!Loops, F!Trapped, F!Dangles
  <2>5. Scanned' /\ Between' /\ Outbound'
    BY <2>1 DEF Scanned, Between, Outbound
  <2>6. ReadTypes'
    BY <1>1, <1>2, <1>3, <2>1 DEF ReadInv, ReadTypes, Chasing, Checking
  <2>7. QED BY <1>3, <1>4, <2>4, <2>5, <2>6 DEF ReadInv
<1>8. QED BY <1>5, <1>6, <1>7

\* What a walk of the check has to go on.
LEMMA CheckFacts ==
  ASSUME ReadInv, Written, op \in {"mark", "finish"}
  PROVE  /\ Stored' = Stored /\ Finalized' /\ N \in Nat /\ F!Index = 0 .. N - 1
         /\ visited \in [F!Index -> 0 .. 2]
         /\ scanned \in F!Index /\ cur \in F!Index
         /\ \A i \in F!Index : ~F!Dangles(i) /\ (i < scanned => visited[i] = 2)
         /\ \A i \in F!Index : F!IsRedirect(i) <=> Stored[i] \in F!Index
<1>1. /\ TypeOK /\ Stored' = Stored /\ Finalized'
  BY GraphKept DEF Written, Inv
<1>2. /\ visited \in [F!Index -> 0 .. 2] /\ scanned \in F!Index /\ cur \in F!Index
      /\ \A i \in F!Index : ~F!Dangles(i) /\ (i < scanned => visited[i] = 2)
  BY DEF ReadInv, ReadTypes, Scanned
<1>3. QED BY <1>1, <1>2, StoredGraph

\* The path grows by a redirect.
LEMMA MarkRedirect ==
  ASSUME ReadInv, Written, F!Mark, F!IsRedirect(cur)
  PROVE  ReadInv'
<1>1. /\ op = "mark" /\ Checking /\ visited[cur] = 0 /\ op' = "mark"
      /\ visited' = [visited EXCEPT ![cur] = 1]
      /\ cur' = Stored[cur]
      /\ UNCHANGED <<scanned, sound, key, hops, seen, answer>>
  BY DEF F!Mark, F!Colour, Checking
<1>2. /\ Stored' = Stored /\ Finalized' /\ N \in Nat /\ F!Index = 0 .. N - 1
      /\ visited \in [F!Index -> 0 .. 2]
      /\ scanned \in F!Index /\ cur \in F!Index /\ cur' \in F!Index
      /\ \A i \in F!Index : ~F!Dangles(i) /\ (i < scanned => visited[i] = 2)
      /\ \A i \in F!Index : F!IsRedirect(i) <=> Stored[i] \in F!Index
  BY <1>1, CheckFacts
<1>3. /\ visited[scanned] = 1 \/ (visited[scanned] = 0 /\ cur = scanned)
      /\ DoneGoesOn
      /\ \A i \in F!Index : visited[i] = 1 =>
           F!IsRedirect(i) /\ (visited[Stored[i]] = 1 \/ Stored[i] = cur)
      /\ \A S \in SUBSET F!Index :
           scanned \in S /\ KeepsPath(S) => cur \in S /\ HoldsPath(S)
      /\ \A S \in SUBSET F!Index : S # {} /\ F!Trapped(S) =>
           /\ \E i \in S : visited[i] # 2
           /\ (\E i \in S : visited[i] = 1) => cur \in S
  BY <1>1 DEF ReadInv, Outbound
<1>4. /\ visited' \in [F!Index -> 0 .. 2] /\ visited'[cur] = 1
      /\ \A i \in F!Index : i # cur => visited'[i] = visited[i]
  BY <1>1, <1>2
<1>5. \A i \in F!Index : F!IsRedirect(i)' <=> F!IsRedirect(i)
  BY <1>2 DEF F!IsRedirect
<1>6. DoneGoesOn'
  <2>1. SUFFICES ASSUME NEW i \in F!Index, visited'[i] = 2, F!IsRedirect(i)
                 PROVE  visited'[Stored[i]] = 2
    BY <1>2, <1>5 DEF DoneGoesOn
  <2>2. visited[i] = 2 /\ Stored[i] \in F!Index
    BY <1>2, <1>4, <2>1
  <2>3. visited[Stored[i]] = 2
    BY <1>1, <1>3, <2>1, <2>2 DEF DoneGoesOn
  <2>4. QED BY <1>1, <1>4, <2>2, <2>3
<1>7. ASSUME NEW i \in F!Index, visited'[i] = 1
      PROVE  F!IsRedirect(i) /\ (visited'[Stored[i]] = 1 \/ Stored[i] = cur')
  <2>1. CASE i = cur
    BY <1>1, <2>1
  <2>2. CASE i # cur
    <3>1. visited[i] = 1
      BY <1>4, <1>7, <2>2
    <3>2. F!IsRedirect(i) /\ Stored[i] \in F!Index
          /\ (visited[Stored[i]] = 1 \/ Stored[i] = cur)
      BY <1>2, <1>3, <3>1
    <3>3. QED BY <1>1, <1>4, <3>2
  <2>3. QED BY <2>1, <2>2
<1>8. ASSUME NEW S \in SUBSET F!Index, scanned \in S, KeepsPath(S)'
      PROVE  cur' \in S /\ HoldsPath(S)'
  <2>1. \A i \in S : visited'[i] = 1 /\ F!IsRedirect(i) => Stored[i] \in S
    BY <1>2, <1>5, <1>8 DEF KeepsPath
  <2>2. KeepsPath(S)
    BY <1>1, <1>4, <2>1 DEF KeepsPath
  <2>3. cur \in S /\ HoldsPath(S)
    BY <1>3, <1>8, <2>2
  <2>4. QED BY <1>1, <1>4, <2>1, <2>3 DEF HoldsPath
<1>9. ASSUME NEW S \in SUBSET F!Index, S # {}, F!Trapped(S)'
      PROVE  /\ \E i \in S : visited'[i] # 2
             /\ (\E i \in S : visited'[i] = 1) => cur' \in S
  <2>1. F!Trapped(S)
    BY <1>2, <1>9 DEF F!Trapped
  <2>2. \E i \in S : visited'[i] # 2
    BY <1>3, <1>4, <1>9, <2>1
  <2>3. ASSUME NEW i \in S, visited'[i] = 1 PROVE cur \in S
    BY <1>3, <1>4, <1>9, <2>1, <2>3
  <2>4. cur \in S => cur' \in S
    BY <1>1, <2>1 DEF F!Trapped
  <2>5. QED BY <2>2, <2>3, <2>4
<1>10. Outbound'
  <2>1. visited'[scanned] = 1
    BY <1>2, <1>3, <1>4
  <2>2. QED BY <1>1, <1>2, <1>5, <1>6, <1>7, <1>8, <1>9, <2>1 DEF Outbound
<1>11. Scanned'
  BY <1>1, <1>2, <1>4 DEF Scanned, F!Dangles
<1>12. Between' /\ Inbound'
  BY <1>1 DEF Between, Inbound
<1>13. Chased' /\ F!FollowExact' /\ answer' = "none" /\ hops' \in Nat
  BY <1>1, CheckQuiet
<1>14. ReadTypes'
  BY <1>1, <1>2, <1>4, <1>13 DEF ReadInv, ReadTypes, Chasing, Checking
<1>15. QED BY <1>1, <1>10, <1>11, <1>12, <1>13, <1>14, JudgedKept DEF ReadInv

\* The path ends, at an article or at an entry that is done, and the second
\* walk begins.
LEMMA MarkEnds ==
  ASSUME ReadInv, Written, (F!Mark /\ ~F!IsRedirect(cur)) \/ F!MarkKnown
  PROVE  ReadInv'
<1> DEFINE known == visited[cur] = 2
<1>1. /\ op = "mark" /\ Checking /\ op' = "finish"
      /\ \/ known /\ UNCHANGED visited
         \/ /\ visited[cur] = 0 /\ ~F!IsRedirect(cur)
            /\ visited' = [visited EXCEPT ![cur] = 1]
      /\ cur' = scanned
      /\ UNCHANGED <<scanned, sound, key, hops, seen, answer>>
  BY DEF F!Mark, F!MarkKnown, F!Colour, Checking
<1>2. /\ Stored' = Stored /\ Finalized' /\ N \in Nat /\ F!Index = 0 .. N - 1
      /\ visited \in [F!Index -> 0 .. 2]
      /\ scanned \in F!Index /\ cur \in F!Index
      /\ \A i \in F!Index : ~F!Dangles(i) /\ (i < scanned => visited[i] = 2)
      /\ \A i \in F!Index : F!IsRedirect(i) <=> Stored[i] \in F!Index
  BY <1>1, CheckFacts
<1>3. /\ visited[scanned] = 1 \/ (visited[scanned] = 0 /\ cur = scanned)
      /\ DoneGoesOn
      /\ \A i \in F!Index : visited[i] = 1 =>
           F!IsRedirect(i) /\ (visited[Stored[i]] = 1 \/ Stored[i] = cur)
      /\ \A S \in SUBSET F!Index :
           scanned \in S /\ KeepsPath(S) => cur \in S /\ HoldsPath(S)
      /\ \A S \in SUBSET F!Index : S # {} /\ F!Trapped(S) =>
           /\ \E i \in S : visited[i] # 2
           /\ (\E i \in S : visited[i] = 1) => cur \in S
  BY <1>1 DEF ReadInv, Outbound
<1>4. /\ visited' \in [F!Index -> 0 .. 2] /\ visited'[cur] \in {1, 2}
      /\ visited'[cur] = 2 <=> known
      /\ \A i \in F!Index : i # cur => visited'[i] = visited[i]
      /\ \A i \in F!Index : visited[i] # 0 => visited'[i] = visited[i]
      /\ ~known => ~F!IsRedirect(cur)
  BY <1>1, <1>2
<1>5. \A i \in F!Index : F!IsRedirect(i)' <=> F!IsRedirect(i)
  BY <1>2 DEF F!IsRedirect
<1> HIDE DEF known
<1>6. DoneGoesOn'
  <2>1. SUFFICES ASSUME NEW i \in F!Index, visited'[i] = 2, F!IsRedirect(i)
                 PROVE  visited'[Stored[i]] = 2
    BY <1>2, <1>5 DEF DoneGoesOn
  <2>2. visited[i] = 2 /\ Stored[i] \in F!Index
    BY <1>2, <1>4, <2>1 DEF known
  <2>3. visited[Stored[i]] = 2
    BY <1>1, <1>3, <2>1, <2>2 DEF DoneGoesOn
  <2>4. QED BY <1>4, <2>2, <2>3
<1>7. ASSUME NEW i \in F!Index, visited'[i] = 1, F!IsRedirect(i)
      PROVE  visited'[Stored[i]] # 0
  <2>1. visited[i] = 1 /\ Stored[i] \in F!Index
    BY <1>2, <1>4, <1>7 DEF known
  <2>2. visited[Stored[i]] = 1 \/ Stored[i] = cur
    BY <1>3, <2>1
  <2>3. QED BY <1>4, <2>1, <2>2
<1>8. ASSUME NEW S \in SUBSET F!Index, scanned \in S, KeepsPath(S)'
      PROVE  HoldsPath(S)'
  <2>1. \A i \in S : visited'[i] = 1 /\ F!IsRedirect(i) => Stored[i] \in S
    BY <1>2, <1>5, <1>8 DEF KeepsPath
  <2>2. KeepsPath(S)
    BY <1>4, <2>1 DEF KeepsPath
  <2>3. cur \in S /\ HoldsPath(S)
    BY <1>3, <1>8, <2>2
  <2>4. QED BY <1>4, <2>3 DEF HoldsPath
<1>9. NoneMetLoops'
  <2>1. SUFFICES ASSUME NEW S \in SUBSET F!Index, S # {}, F!Trapped(S),
                        \A i \in S : visited'[i] # 0
                 PROVE  FALSE
    BY <1>2 DEF NoneMetLoops, F!Trapped
  <2>2. cur \in S
    <3>1. PICK i \in S : visited[i] # 2
      BY <1>3, <2>1
    <3>2. CASE visited[i] = 1
      BY <1>3, <2>1, <3>2
    <3>3. CASE visited[i] = 0
      BY <1>4, <2>1, <3>3
    <3>4. QED BY <1>2, <3>1, <3>2, <3>3
  <2>3. known
    <3>1. Stored[cur] \in F!Index
      BY <2>1, <2>2 DEF F!Trapped
    <3>2. QED BY <1>2, <1>4, <3>1
  <2> DEFINE D == {j \in S : visited[j] = 2}
  <2>4. D # {} /\ D \in SUBSET F!Index
    BY <2>2, <2>3 DEF known
  <2>5. ASSUME NEW j \in D PROVE Stored[j] \in D
    <3>1. Stored[j] \in S /\ j \in F!Index /\ visited[j] = 2
      BY <2>1 DEF F!Trapped
    <3>2. F!IsRedirect(j)
      BY <1>2, <3>1
    <3>3. visited[Stored[j]] = 2
      BY <1>1, <1>3, <3>1, <3>2 DEF DoneGoesOn
    <3>4. QED BY <3>1, <3>3
  <2>6. F!Trapped(D)
    BY <2>5 DEF F!Trapped
  <2>7. \E j \in D : visited[j] # 2
    <3> HIDE DEF D
    <3>1. QED BY <1>3, <2>4, <2>6
  <2>8. QED BY <2>7
<1>10. Inbound'
  <2>1. visited'[scanned] # 0
    BY <1>2, <1>3, <1>4
  <2>2. QED BY <1>1, <1>2, <1>5, <1>6, <1>7, <1>8, <1>9, <2>1 DEF Inbound
<1>11. Scanned'
  BY <1>1, <1>2, <1>4 DEF Scanned, F!Dangles
<1>12. Between' /\ Outbound'
  BY <1>1 DEF Between, Outbound
<1>13. Chased' /\ F!FollowExact' /\ answer' = "none" /\ hops' \in Nat
  BY <1>1, CheckQuiet
<1>14. ReadTypes'
  BY <1>1, <1>2, <1>4, <1>13 DEF ReadInv, ReadTypes, Chasing, Checking
<1>15. QED BY <1>1, <1>10, <1>11, <1>12, <1>13, <1>14, JudgedKept DEF ReadInv

\* The walk has met its own path, which is a loop with what leads into it.
LEMMA MarkLoopInv ==
  ASSUME ReadInv, Written, F!MarkLoop
  PROVE  ReadInv'
<1>1. /\ op = "mark" /\ Checking /\ visited[cur] = 1 /\ op' = "idle" /\ sound' = "loop"
      /\ UNCHANGED <<scanned, visited, cur, key, hops, seen, answer>>
  BY DEF F!MarkLoop, F!Verdict, F!walk, Checking
<1>2. /\ Stored' = Stored /\ Finalized' /\ cur \in F!Index
      /\ visited \in [F!Index -> 0 .. 2] /\ scanned \in F!Index
      /\ \A i \in F!Index : ~F!Dangles(i)
      /\ \A i \in F!Index : F!IsRedirect(i) <=> Stored[i] \in F!Index
  BY <1>1, CheckFacts
<1> DEFINE S == {i \in F!Index : visited[i] = 1}
<1>3. ASSUME NEW i \in S PROVE Stored[i] \in S
  <2>1. F!IsRedirect(i) /\ (visited[Stored[i]] = 1 \/ Stored[i] = cur)
    BY <1>1 DEF ReadInv, Outbound
  <2>2. QED BY <1>1, <1>2, <2>1
<1>4. F!Loops
  <2>1. S \in SUBSET F!Index /\ cur \in S
    BY <1>1, <1>2
  <2>2. QED BY <1>3, <2>1 DEF F!Loops, F!Trapped
<1>5. Judged'
  BY <1>1, <1>2, <1>4 DEF Judged, F!SoundExact, F!Loops, F!Trapped, F!Dangles
<1>6. Scanned' /\ Between' /\ Outbound' /\ Inbound'
  BY <1>1 DEF Scanned, Between, Outbound, Inbound
<1>7. Chased' /\ F!FollowExact' /\ answer' = "none" /\ hops' \in Nat
  BY <1>1, CheckQuiet
<1>8. scanned' \in 0 .. N
  BY <1>1 DEF ReadInv, ReadTypes
<1>9. ReadTypes'
  BY <1>1, <1>2, <1>7, <1>8 DEF ReadInv, ReadTypes, Chasing, Checking
<1>10. QED BY <1>5, <1>6, <1>7, <1>9 DEF ReadInv

\* The second walk finishes an entry and goes on.
LEMMA FinishRedirect ==
  ASSUME ReadInv, Written, F!Finish, F!IsRedirect(cur)
  PROVE  ReadInv'
<1>1. /\ op = "finish" /\ Checking /\ visited[cur] = 1 /\ op' = "finish"
      /\ visited' = [visited EXCEPT ![cur] = 2]
      /\ cur' = Stored[cur]
      /\ UNCHANGED <<scanned, sound, key, hops, seen, answer>>
  BY DEF F!Finish, F!Colour, Checking
<1>2. /\ Stored' = Stored /\ Finalized' /\ N \in Nat /\ F!Index = 0 .. N - 1
      /\ visited \in [F!Index -> 0 .. 2]
      /\ scanned \in F!Index /\ cur \in F!Index /\ cur' \in F!Index
      /\ \A i \in F!Index : ~F!Dangles(i) /\ (i < scanned => visited[i] = 2)
      /\ \A i \in F!Index : F!IsRedirect(i) <=> Stored[i] \in F!Index
  BY <1>1, CheckFacts
<1>3. /\ visited[scanned] = 2 \/ cur = scanned
      /\ DoneGoesOn
      /\ \A i \in F!Index : visited[i] = 1 /\ F!IsRedirect(i) => visited[Stored[i]] # 0
      /\ \A S \in SUBSET F!Index : cur \in S /\ KeepsPath(S) => HoldsPath(S)
      /\ NoneMetLoops
  BY <1>1 DEF ReadInv, Inbound
<1>4. /\ visited' \in [F!Index -> 0 .. 2] /\ visited'[cur] = 2
      /\ \A i \in F!Index : i # cur => visited'[i] = visited[i]
      /\ \A i \in F!Index : visited'[i] = 0 <=> visited[i] = 0
  BY <1>1, <1>2
<1>5. \A i \in F!Index : F!IsRedirect(i)' <=> F!IsRedirect(i)
  BY <1>2 DEF F!IsRedirect
<1>6. DoneGoesOn'
  <2>1. SUFFICES ASSUME NEW i \in F!Index, visited'[i] = 2, F!IsRedirect(i)
                 PROVE  visited'[Stored[i]] = 2 \/ Stored[i] = cur'
    BY <1>1, <1>2, <1>5 DEF DoneGoesOn
  <2>2. CASE i = cur
    BY <1>1, <2>2
  <2>3. CASE i # cur
    <3>1. visited[i] = 2 /\ Stored[i] \in F!Index
      BY <1>2, <1>4, <2>1, <2>3
    <3>2. visited[Stored[i]] = 2 \/ Stored[i] = cur
      BY <1>3, <2>1, <3>1 DEF DoneGoesOn
    <3>3. QED BY <1>4, <3>1, <3>2
  <2>4. QED BY <2>2, <2>3
<1>7. ASSUME NEW i \in F!Index, visited'[i] = 1, F!IsRedirect(i)
      PROVE  visited'[Stored[i]] # 0
  <2>1. visited[i] = 1 /\ Stored[i] \in F!Index
    BY <1>2, <1>4, <1>7
  <2>2. QED BY <1>3, <1>4, <1>7, <2>1
<1>8. ASSUME NEW S \in SUBSET F!Index, cur' \in S, KeepsPath(S)'
      PROVE  HoldsPath(S)'
  <2> DEFINE T == S \cup {cur}
  <2>1. \A i \in S : visited'[i] = 1 /\ F!IsRedirect(i) => Stored[i] \in S
    BY <1>2, <1>5, <1>8 DEF KeepsPath
  <2>2. KeepsPath(T)
    BY <1>1, <1>4, <1>8, <2>1 DEF KeepsPath
  <2>3. T \in SUBSET F!Index /\ cur \in T
    BY <1>2
  <2>4. HoldsPath(T)
    <3> HIDE DEF T
    <3>1. QED BY <1>3, <2>2, <2>3
  <2>5. QED BY <1>4, <2>4 DEF HoldsPath
<1>9. NoneMetLoops'
  BY <1>2, <1>3, <1>4 DEF NoneMetLoops, F!Trapped
<1>10. Inbound'
  <2>1. visited'[cur'] # 0
    BY <1>1, <1>2, <1>3, <1>4
  <2>2. visited'[scanned] = 2
    BY <1>2, <1>3, <1>4
  <2>3. QED BY <1>1, <1>2, <1>5, <1>6, <1>7, <1>8, <1>9, <2>1, <2>2 DEF Inbound
<1>11. Scanned'
  BY <1>1, <1>2, <1>4 DEF Scanned, F!Dangles
<1>12. Between' /\ Outbound'
  BY <1>1 DEF Between, Outbound
<1>13. Chased' /\ F!FollowExact' /\ answer' = "none" /\ hops' \in Nat
  BY <1>1, CheckQuiet
<1>14. ReadTypes'
  BY <1>1, <1>2, <1>4, <1>13 DEF ReadInv, ReadTypes, Chasing, Checking
<1>15. QED BY <1>1, <1>10, <1>11, <1>12, <1>13, <1>14, JudgedKept DEF ReadInv

\* The second walk is over: nothing of the path is left.
LEMMA FinishEnds ==
  ASSUME ReadInv, Written, (F!Finish /\ ~F!IsRedirect(cur)) \/ F!FinishDone
  PROVE  ReadInv'
<1>1. /\ op = "finish" /\ Checking /\ op' = "next"
      /\ \/ visited[cur] # 1 /\ UNCHANGED visited
         \/ /\ visited[cur] = 1 /\ ~F!IsRedirect(cur)
            /\ visited' = [visited EXCEPT ![cur] = 2]
      /\ scanned' = scanned + 1
      /\ UNCHANGED <<cur, sound, key, hops, seen, answer>>
  BY DEF F!Finish, F!FinishDone, F!Colour, F!walk, Checking
<1>2. /\ Stored' = Stored /\ Finalized' /\ N \in Nat /\ F!Index = 0 .. N - 1
      /\ visited \in [F!Index -> 0 .. 2]
      /\ scanned \in F!Index /\ cur \in F!Index
      /\ \A i \in F!Index : ~F!Dangles(i) /\ (i < scanned => visited[i] = 2)
      /\ \A i \in F!Index : F!IsRedirect(i) <=> Stored[i] \in F!Index
  BY <1>1, CheckFacts
<1>3. /\ visited[cur] # 0
      /\ visited[scanned] = 2 \/ cur = scanned
      /\ DoneGoesOn
      /\ \A S \in SUBSET F!Index : cur \in S /\ KeepsPath(S) => HoldsPath(S)
      /\ NoneMetLoops
  BY <1>1 DEF ReadInv, Inbound
<1>4. /\ visited' \in [F!Index -> 0 .. 2] /\ visited'[cur] = 2
      /\ \A i \in F!Index : i # cur => visited'[i] = visited[i]
      /\ \A i \in F!Index : visited'[i] = 0 <=> visited[i] = 0
      /\ visited[cur] = 1 => ~F!IsRedirect(cur)
  BY <1>1, <1>2, <1>3
<1>5. \A i \in F!Index : visited'[i] # 1
  <2>1. KeepsPath({cur})
    BY <1>4 DEF KeepsPath
  <2>2. {cur} \in SUBSET F!Index
    BY <1>2
  <2>3. HoldsPath({cur})
    BY <1>3, <2>1, <2>2
  <2>4. QED BY <1>4, <2>3 DEF HoldsPath
<1>6. DoneGoesOn'
  <2>1. SUFFICES ASSUME NEW i \in F!Index, visited'[i] = 2, F!IsRedirect(i)
                 PROVE  visited'[Stored[i]] = 2
    BY <1>2 DEF DoneGoesOn, F!IsRedirect
  <2>2. visited[i] = 2 /\ Stored[i] \in F!Index
    BY <1>2, <1>3, <1>4, <2>1
  <2>3. visited[Stored[i]] = 2 \/ Stored[i] = cur
    BY <1>3, <2>1, <2>2 DEF DoneGoesOn
  <2>4. QED BY <1>4, <2>2, <2>3
<1>7. NoneMetLoops'
  BY <1>2, <1>3, <1>4 DEF NoneMetLoops, F!Trapped
<1>8. Scanned'
  <2>1. \A i \in F!Index : i < scanned + 1 => i < scanned \/ i = scanned
    BY <1>2
  <2>2. \A i \in F!Index : i < scanned + 1 => visited'[i] = 2
    BY <1>2, <1>3, <1>4, <2>1
  <2>3. QED BY <1>1, <1>2, <2>2 DEF Scanned, F!Dangles
<1>9. Between' /\ Outbound' /\ Inbound'
  BY <1>1, <1>5, <1>6, <1>7 DEF Between, Outbound, Inbound
<1>10. Chased' /\ F!FollowExact' /\ answer' = "none" /\ hops' \in Nat
  BY <1>1, CheckQuiet
<1>11. scanned + 1 \in 0 .. N
  BY <1>2
<1>12. ReadTypes'
  BY <1>1, <1>2, <1>4, <1>10, <1>11 DEF ReadInv, ReadTypes, Chasing, Checking
<1>13. QED BY <1>1, <1>8, <1>9, <1>10, <1>12, JudgedKept DEF ReadInv

----------------------------------------------------------------------------
\* The archive is written as the walk alone writes it, whoever reads later.
THEOREM ArchiveWrites == ArchiveSpec => Spec
<1>1. ArchiveInit => Init
  BY DEF ArchiveInit
<1>2. [ArchiveNext]_<<written, read>> => [Next]_vars
  BY DEF ArchiveNext, Finalize, Read, written
<1>3. QED BY <1>1, <1>2, PTL DEF ArchiveSpec, Spec

(* In every archive, from finalize to the readers: the invariant of the walk  *)
(* of finalize, what its outcome means, and the invariant of the readers'     *)
(* walks (limited hops, the seen set, the three colours).                     *)
THEOREM ArchiveInvariance == ArchiveSpec => [](Inv /\ Outcome /\ ReadInv)
<1>1. ArchiveInit => Inv /\ Outcome /\ ReadInv
  <2>1. SUFFICES ASSUME ArchiveInit PROVE Inv /\ Outcome /\ ReadInv
    OBVIOUS
  <2>2. Inv /\ Outcome /\ N \in Nat /\ ~Finalized
    BY <2>1, InitInv, OutcomeInit, NAssumption DEF ArchiveInit, Init, Finalized
  <2>3. /\ op = "idle" /\ answer = "none" /\ sound = "no" /\ hops = 0 /\ scanned = 0
        /\ visited = [i \in F!Index |-> 0]
    BY <2>1 DEF ArchiveInit, F!Init
  <2>4. ReadTypes /\ Chased /\ Scanned /\ Between /\ Outbound /\ Inbound
    BY <2>2, <2>3 DEF ReadTypes, Chased, Scanned, Between, Outbound, Inbound, Chasing, Checking
  <2>5. Judged /\ F!FollowExact
    BY <2>3 DEF Judged, F!SoundExact, F!FollowExact
  <2>6. QED BY <2>2, <2>4, <2>5 DEF ReadInv
<1>2. ASSUME Inv, Outcome, ReadInv, [ArchiveNext]_<<written, read>>
      PROVE  ReadInv'
  <2>1. CASE Finalize
    BY <1>2, <2>1, WriteReadInv
  <2>2. CASE Read
    <3>1. Written /\ F!Next
      BY <1>2, <2>2 DEF Read, Written
    <3>2. CASE F!AskIntegrity \/ \E o \in {"resolve", "item", "follow"}, k \in F!Index : F!Ask(o, k)
      BY <1>2, <3>1, <3>2, AskInv
    <3>3. CASE F!Arrives \/ F!Resolve \/ F!FollowAll
      BY <1>2, <3>1, <3>3, HopInv, FollowOnInv, SayInv DEF F!Resolve, F!FollowAll
    <3>4. CASE F!Integrity
      BY <1>2, <3>1, <3>4, ScanInv, BetweenInv, MarkRedirect, MarkEnds, MarkLoopInv,
         FinishRedirect, FinishEnds DEF F!Integrity
    <3>5. QED BY <3>1, <3>2, <3>3, <3>4 DEF F!Next, F!Work
  <2>3. CASE UNCHANGED <<written, read>>
    <3>1. /\ UNCHANGED <<kind, target, pc, mark, listing>> /\ Stored' = Stored
          /\ UNCHANGED <<sound, op, key, cur, hops, seen, visited, scanned, answer>>
      BY <2>3 DEF written, vars, read, Stored, Redirects
    <3>2. ReadTypes' /\ Chased' /\ Scanned'
      BY <1>2, <3>1
         DEF ReadInv, ReadTypes, Finalized, Chased, Scanned, Chasing, Checking,
             F!Trapped, F!Chain, F!Dangles
    <3>3. Between' /\ Outbound' /\ Inbound'
      BY <1>2, <3>1
         DEF ReadInv, Between, Outbound, Inbound, DoneGoesOn, NoneMetLoops, KeepsPath,
             HoldsPath, F!Trapped, F!IsRedirect
    <3>4. Judged' /\ F!FollowExact'
      BY <1>2, <3>1
         DEF ReadInv, Judged, F!SoundExact, F!FollowExact, F!Loops, F!Trapped, F!Dangles,
             F!IsRedirect, F!Chain
    <3>5. QED BY <3>2, <3>3, <3>4 DEF ReadInv
  <2>4. QED BY <1>2, <2>1, <2>2, <2>3 DEF ArchiveNext
<1>3. Inv /\ Outcome /\ [Next]_vars => Outcome'
  BY OutcomeNext
<1>4. QED BY <1>1, <1>2, <1>3, ArchiveWrites, WalkInvariance, PTL DEF ArchiveSpec, Spec

\* check_integrity passes exactly the archives whose redirects all end at an
\* article, however long the chains, and says what is wrong with the others.
THEOREM SoundIsExact == ArchiveSpec => []SoundExact
<1>1. ReadInv => SoundExact
  BY DEF ReadInv, Judged, SoundExact
<1>2. QED BY <1>1, ArchiveInvariance, PTL

\* follow_loop and resolve say of every entry what its chain of redirects is,
\* resolve within MAX_REDIRECTS, on any graph.
THEOREM FollowIsExact == ArchiveSpec => []FollowExact
<1>1. ReadInv => FollowExact
  BY DEF ReadInv, FollowExact
<1>2. QED BY <1>1, ArchiveInvariance, PTL

----------------------------------------------------------------------------
(* The listing *)

\* Hop, unfolded once.
LEMMA HopUnfolds ==
  ASSUME TypeOK, \A i \in Redirects : target[i] \in Entries
  PROVE  /\ \A i \in Entries : Hop[0][i] = i
         /\ \A n \in 1 .. N, i \in Entries :
              Hop[n][i] = IF Hop[n - 1][i] \in Redirects THEN target[Hop[n - 1][i]]
                          ELSE Hop[n - 1][i]
         /\ \A n \in 0 .. N, i \in Entries : Hop[n][i] \in Entries
<1> DEFINE S == [Entries -> Entries]
           a == [i \in Entries |-> i]
           onward(h) == [i \in Entries |-> IF h[i] \in Redirects THEN target[h[i]] ELSE h[i]]
           g == [k \in Nat |-> [h \in S |-> onward(h)]]
           H == CHOOSE f : f = [n \in 0 .. N |->
                  IF n = 0 THEN [i \in Entries |-> i]
                  ELSE [i \in Entries |-> LET j == f[n - 1][i]
                                          IN IF j \in Redirects THEN target[j] ELSE j]]
<1>1. Hop = H
  BY DEF Hop
<1>2. \A h \in S : onward(h) \in S
  OBVIOUS
<1>3. a \in S /\ g \in [Nat -> [S -> S]] /\ N \in Nat
  BY <1>2, NAssumption
<1>4. PICK f : Iterates(f, S, a, g, N)
  <2> HIDE DEF S, a, g
  <2>1. QED BY <1>3, Iterated
<1>5. \A k \in 0 .. N : f[k] = IF k = 0 THEN a ELSE onward(f[k - 1])
  <2>1. \A k \in 0 .. N : k \in Nat /\ (k # 0 => f[k - 1] \in S)
    <3>1. \A k \in 0 .. N : k \in Nat /\ (k # 0 => k - 1 \in 0 .. N)
      BY <1>3
    <3> HIDE DEF S
    <3>2. QED BY <1>4, <3>1 DEF Iterates
  <2>2. \A k \in Nat, h \in S : g[k][h] = onward(h)
    OBVIOUS
  <2> HIDE DEF S, g, onward
  <2>3. QED BY <1>4, <2>1, <2>2 DEF Iterates
<1>6. f = [n \in 0 .. N |-> IF n = 0 THEN [i \in Entries |-> i]
             ELSE [i \in Entries |-> LET j == f[n - 1][i]
                                     IN IF j \in Redirects THEN target[j] ELSE j]]
  <2>1. f = [n \in 0 .. N |-> f[n]]
    BY <1>4 DEF Iterates
  <2>2. QED BY <1>5, <2>1
<1>7. H = [n \in 0 .. N |-> IF n = 0 THEN [i \in Entries |-> i]
             ELSE [i \in Entries |-> LET j == H[n - 1][i]
                                     IN IF j \in Redirects THEN target[j] ELSE j]]
  BY <1>6, Zenon
<1> HIDE DEF H
<1>8. /\ \A i \in Entries : H[0][i] = i
      /\ \A n \in 1 .. N, i \in Entries :
           H[n][i] = IF H[n - 1][i] \in Redirects THEN target[H[n - 1][i]]
                     ELSE H[n - 1][i]
  <2>1. 0 \in 0 .. N /\ \A n \in 1 .. N : n \in 0 .. N /\ n # 0
    BY <1>3
  <2>2. \A n \in 0 .. N : H[n] = IF n = 0 THEN [i \in Entries |-> i]
             ELSE [i \in Entries |-> LET j == H[n - 1][i]
                                     IN IF j \in Redirects THEN target[j] ELSE j]
    BY <1>7
  <2>3. QED BY <2>1, <2>2
<1> DEFINE bad == {n \in 0 .. N : ~(\A i \in Entries : H[n][i] \in Entries)}
<1>9. bad = {}
  <2>1. SUFFICES ASSUME bad # {} PROVE FALSE
    OBVIOUS
  <2>2. bad \in SUBSET Nat
    OBVIOUS
  <2>3. PICK m \in bad : \A y \in bad : m <= y
    <3> HIDE DEF bad
    <3>1. QED BY <2>1, <2>2, MinOfNaturals
  <2>4. m # 0
    BY <1>8
  <2>5. m \in 1 .. N /\ m - 1 \in 0 .. N /\ ~(m <= m - 1)
    BY <1>3, <2>4
  <2>6. \A i \in Entries : H[m - 1][i] \in Entries
    BY <2>3, <2>5
  <2>7. QED BY <1>8, <2>5, <2>6
<1>10. QED BY <1>1, <1>8, <1>9

\* Where all entries are decided, a chain has one decision.
LEMMA HopKeepsMark ==
  ASSUME Inv, pc = "done", NEW n \in 0 .. N, NEW i \in Entries
  PROVE  mark[Hop[n][i]] = mark[i]
<1>1. /\ TypeOK /\ \A j \in Redirects : target[j] \in Entries
      /\ \A j \in Entries : mark[j] \in {2, 3}
      /\ \A j \in Redirects : j \in Entries /\ mark[target[j]] = mark[j]
  <2>1. TypeOK /\ \A j \in Redirects : j \in Entries /\ target[j] \in Entries
    BY DEF Inv, Resolved, Redirects
  <2>2. \A j \in Entries : mark[j] \in {2, 3}
    BY NAssumption DEF Inv, Position, Behind, Entries
  <2>3. QED BY <2>1, <2>2 DEF Inv, Agrees
<1> DEFINE bad == {m \in 0 .. N : mark[Hop[m][i]] # mark[i]}
<1>2. SUFFICES ASSUME bad # {} PROVE FALSE
  OBVIOUS
<1>3. bad \in SUBSET Nat
  OBVIOUS
<1>4. PICK m \in bad : \A y \in bad : m <= y
  <2> HIDE DEF bad
  <2>1. QED BY <1>2, <1>3, MinOfNaturals
<1>5. m # 0
  BY <1>1, HopUnfolds
<1>6. m \in 1 .. N /\ m - 1 \in 0 .. N /\ ~(m <= m - 1)
  BY <1>5, NAssumption
<1>7. mark[Hop[m - 1][i]] = mark[i] /\ Hop[m - 1][i] \in Entries
  BY <1>1, <1>4, <1>6, HopUnfolds
<1>8. Hop[m][i] = IF Hop[m - 1][i] \in Redirects THEN target[Hop[m - 1][i]]
                  ELSE Hop[m - 1][i]
  BY <1>1, <1>6, HopUnfolds
<1>9. QED BY <1>1, <1>7, <1>8

\* N hops end at an article: a chain of N + 1 redirects would meet itself.
LEMMA HopEnds ==
  ASSUME Inv, pc = "done", NEW i \in Entries
  PROVE  Hop[N][i] \notin Redirects
<1> DEFINE h == [n \in 0 .. N |-> Hop[n][i]]
<1>1. SUFFICES ASSUME Hop[N][i] \in Redirects PROVE FALSE
  OBVIOUS
<1>2. TypeOK /\ N \in Nat /\ \A j \in Redirects : target[j] \in Entries
  BY NAssumption DEF Inv, Resolved
<1>3. /\ h \in [0 .. N -> Entries]
      /\ \A n \in 1 .. N : h[n] = IF h[n - 1] \in Redirects THEN target[h[n - 1]] ELSE h[n - 1]
      /\ h[N] \in Redirects
  <2>1. \A n \in 0 .. N : h[n] \in Entries
    BY <1>2, HopUnfolds
  <2>2. \A n \in 1 .. N : n \in 0 .. N /\ n - 1 \in 0 .. N
    BY <1>2
  <2>3. QED BY <1>1, <1>2, <2>1, <2>2, HopUnfolds
<1> HIDE DEF h
<1> DEFINE ended == {n \in 0 .. N : h[n] \notin Redirects}
<1>4. ended = {}
  <2>1. SUFFICES ASSUME ended # {} PROVE FALSE
    OBVIOUS
  <2>2. ended \in SUBSET Nat /\ \A y \in ended : y <= N
    OBVIOUS
  <2>3. PICK m \in ended : \A y \in ended : y <= m
    <3> HIDE DEF ended
    <3>1. QED BY <1>2, <2>1, <2>2, MaxOfNaturals
  <2>4. m # N
    BY <1>3
  <2>5. m + 1 \in 1 .. N /\ m + 1 \in 0 .. N /\ (m + 1) - 1 = m /\ ~(m + 1 <= m)
    BY <1>2, <2>4
  <2>6. h[m + 1] = h[m]
    BY <1>3, <2>5
  <2>7. QED BY <2>3, <2>5, <2>6
<1>5. \A n \in 0 .. N : h[n] \in Redirects
  BY <1>4
<1>6. \E k, m \in 0 .. N : k # m /\ h[k] = h[m]
  <2>1. IsFiniteSet(0 .. N) /\ Cardinality(0 .. N) = N + 1
    BY <1>2, FS_Interval
  <2>2. IsFiniteSet(Entries) /\ Cardinality(Entries) = N
    BY <1>2, FS_Interval DEF Entries
  <2>3. Cardinality(Entries) < Cardinality(0 .. N)
    BY <1>2, <2>1, <2>2
  <2> DEFINE A == 0 .. N
  <2>4. h \in [A -> Entries] /\ IsFiniteSet(A) /\ Cardinality(Entries) < Cardinality(A)
    BY <1>3, <2>1, <2>3
  <2>5. \E k, m \in A : k # m /\ h[k] = h[m]
    <3> HIDE DEF A
    <3>1. QED BY <2>2, <2>4, FS_PigeonHole
  <2>6. QED BY <2>5
<1>7. PICK k \in 0 .. N, m \in 0 .. N : k < m /\ h[k] = h[m]
  <2>1. PICK k \in 0 .. N, m \in 0 .. N : k # m /\ h[k] = h[m]
    BY <1>6
  <2>2. CASE k < m
    BY <2>1, <2>2
  <2>3. CASE m < k
    BY <2>1, <2>3
  <2>4. QED BY <2>1, <2>2, <2>3
<1> DEFINE C == {h[n] : n \in k .. m - 1}
<1>8. ASSUME NEW n \in k .. m - 1 PROVE h[n] \in Redirects /\ target[h[n]] \in C
  <2>1. n \in 0 .. N /\ n + 1 \in 1 .. N /\ (n + 1) - 1 = n
    BY <1>2, <1>7
  <2>2. h[n] \in Redirects /\ target[h[n]] = h[n + 1]
    BY <1>3, <1>5, <2>1
  <2>3. CASE n + 1 = m
    <3>1. k \in k .. m - 1
      BY <1>7
    <3>2. QED BY <1>7, <2>2, <2>3, <3>1
  <2>4. CASE n + 1 # m
    <3>1. n + 1 \in k .. m - 1
      BY <1>7, <2>4
    <3>2. QED BY <2>2, <3>1
  <2>5. QED BY <2>3, <2>4
<1>9. C # {}
  <2>1. k \in k .. m - 1
    BY <1>7
  <2>2. QED BY <2>1
<1>10. C \in SUBSET Redirects /\ Closed(C)
  BY <1>8, <1>9 DEF Closed
<1>11. HasCycle
  BY <1>10 DEF HasCycle
<1>12. QED BY <1>11 DEF Inv, CycleExact

\* The title listing of a finished archive shows the HTML articles of the
\* content namespace and the redirects whose chain ends at one, nothing else.
THEOREM ListingIsExact == ArchiveSpec => []ListingExact
<1>1. ASSUME Inv, Outcome PROVE ListingExact
  <2>1. SUFFICES ASSUME pc = "done", NEW i \in Entries
                 PROVE  mark[i] = 3 <=> kind[Hop[N][i]] = "html"
    BY <1>1 DEF ListingExact, Outcome
  <2>2. TypeOK /\ N \in 0 .. N /\ \A j \in Redirects : target[j] \in Entries
    BY <1>1, <2>1, NAssumption DEF Inv, Resolved
  <2>3. Hop[N][i] \in Entries /\ Hop[N][i] \notin Redirects /\ mark[Hop[N][i]] = mark[i]
    BY <1>1, <2>1, <2>2, HopUnfolds, HopEnds, HopKeepsMark
  <2>4. mark[Hop[N][i]] \in {2, 3}
    BY <1>1, <2>1, <2>3, NAssumption DEF Inv, Position, Behind, Entries
  <2>5. QED BY <1>1, <2>3, <2>4 DEF Inv, Agrees
<1>2. QED BY <1>1, ArchiveInvariance, PTL

\* Writer and readers agree about every directory, but for chains of more than
\* MAX_REDIRECTS redirects, at which resolve gives up.
THEOREM WriterAndReadersAgree == ArchiveSpec => []Agreement
<1>1. ASSUME Inv, Outcome, ReadInv, ListingExact PROVE Agreement
  <2>1. TypeOK /\ F!Index = 0 .. N - 1 /\ N \in Nat
    BY <1>1, StoredGraph DEF Inv
  <2>2. sound \in {"no", "ok", "loop", "index"}
    BY <1>1 DEF ReadInv, Judged
  <2>3. pc \in {"done", "cycle"} => \A i \in F!Index : ~F!Dangles(i)
    <3>1. SUFFICES ASSUME pc \in {"done", "cycle"}, NEW i \in F!Index, F!Dangles(i)
                   PROVE  FALSE
      OBVIOUS
    <3>2. i + 1 \in Redirects /\ target[i + 1] = 0
      BY <2>1, <3>1, StoredGraph
    <3>3. target[i + 1] \in Entries
      BY <1>1, <3>1, <3>2 DEF Inv, Resolved
    <3>4. QED BY <3>2, <3>3 DEF Entries
  <2>4. ASSUME pc = "done" PROVE sound \in {"no", "ok"}
    <3>1. ~F!Loops
      BY <1>1, <2>1, <2>4, LoopsAreCycles DEF Inv, CycleExact
    <3>2. QED BY <1>1, <2>2, <2>3, <2>4, <3>1 DEF ReadInv, Judged, F!SoundExact
  <2>5. ASSUME pc = "done" PROVE answer # "index"
    <3>1. SUFFICES ASSUME answer = "index" PROVE FALSE
      OBVIOUS
    <3>2. cur \in F!Index
      BY <1>1, <3>1 DEF ReadInv, ReadTypes
    <3>3. op = "idle"
      BY <1>1, <3>1 DEF ReadInv, ReadTypes, Chasing, Checking
    <3>4. F!Dangles(cur)
      BY <1>1, <3>1, <3>3 DEF ReadInv, F!FollowExact
    <3>5. QED BY <2>3, <2>5, <3>2, <3>4
  <2>6. ASSUME pc = "cycle" PROVE sound \in {"no", "loop"}
    <3>1. F!Loops
      BY <1>1, <2>1, <2>3, <2>6, LoopsAreCycles DEF Inv, CycleExact
    <3>2. QED BY <1>1, <2>2, <2>3, <2>6, <3>1 DEF ReadInv, Judged, F!SoundExact
  <2>7. ASSUME pc = "missing" PROVE sound \in {"no", "index"}
    <3>1. PICK j \in Redirects : target[j] = 0
      BY <1>1, <2>7 DEF Outcome
    <3>2. j \in Entries /\ j - 1 \in F!Index /\ (j - 1) + 1 = j
      BY <2>1 DEF Redirects, Entries
    <3>3. F!Dangles(j - 1)
      BY <2>1, <3>1, <3>2, StoredGraph
    <3>4. QED BY <1>1, <2>2, <3>2, <3>3 DEF ReadInv, Judged, F!SoundExact
  <2>8. ASSUME pc = "done", op = "idle", answer = "entry"
        PROVE  key + 1 \in listing
                 <=> kind[key + 1] # "page" /\ kind[cur + 1] = "html"
    <3>1. key \in F!Index /\ cur \in F!Index /\ mark[cur + 1] = mark[key + 1]
      BY <1>1, <2>8 DEF ReadInv, ReadTypes, Chased
    <3>2. key + 1 \in Entries /\ cur + 1 \in Entries
      BY <2>1, <3>1, StoredGraph
    <3>3. listing = {i \in Entries : kind[i] # "page" /\ mark[i] = 3}
      BY <1>1, <2>8 DEF Outcome
    <3>4. cur + 1 \notin Redirects
      <4>1. ~F!IsRedirect(cur)
        BY <1>1, <2>8 DEF ReadInv, F!FollowExact
      <4>2. QED BY <2>1, <3>1, <4>1, StoredGraph
    <3>5. mark[cur + 1] \in {2, 3}
      BY <1>1, <2>8, <3>2, NAssumption DEF Inv, Position, Behind, Entries
    <3>6. mark[cur + 1] = 3 <=> kind[cur + 1] = "html"
      BY <1>1, <3>2, <3>4, <3>5 DEF Inv, Agrees
    <3>7. QED BY <3>1, <3>2, <3>3, <3>6
  <2>9. ASSUME pc = "done", op = "idle", answer = "loop"
        PROVE  /\ seen = {} /\ F!Chain(MaxRedirects, cur) /\ F!IsRedirect(cur)
               /\ key + 1 \in listing
                    <=> kind[key + 1] # "page" /\ kind[Hop[N][key + 1]] = "html"
    <3>1. key + 1 \in Entries
      BY <1>1, <2>1, <2>9, StoredGraph DEF ReadInv, ReadTypes
    <3>2. ~F!Loops
      BY <1>1, <2>1, <2>9, LoopsAreCycles DEF Inv, CycleExact
    <3>3. ~\E S \in SUBSET F!Index : key \in S /\ F!Trapped(S)
      BY <3>2 DEF F!Loops
    <3>4. seen = {} /\ F!Chain(MaxRedirects, cur) /\ F!IsRedirect(cur)
      BY <1>1, <2>9, <3>3 DEF ReadInv, F!FollowExact
    <3>5. QED BY <1>1, <2>9, <3>1, <3>4 DEF ListingExact
  <2>10. QED BY <2>4, <2>5, <2>6, <2>7, <2>8, <2>9 DEF Agreement
<1>2. QED BY <1>1, ListingIsExact, ArchiveInvariance, PTL
=============================================================================
