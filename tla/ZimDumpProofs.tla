--------------------------- MODULE ZimDumpProofs ---------------------------
(***************************************************************************)
(* For archives and directories of any size, any number of threads and      *)
(* clusters: what zimdump does not report as failed is in the dump, the     *)
(* collision policy does not depend on the order of the threads, and links  *)
(* lead to where their targets were written.                                *)
(***************************************************************************)
EXTENDS ZimDump, CommonLemmas

----------------------------------------------------------------------------
(* The inductive invariant *)

\* All strings; that these two are among them is not known to the provers.
Text == STRING \cup {"_", Exceptions}
Path == Seq(Seq(Text))
Jobs == [queue : Seq(Index), stage : {"idle", "next", "walk", "rename"},
         dest : Path, depth : Nat, fell : BOOLEAN, to : Path]
Nodes == [is : {"none", "dir", "file"}, of : Index \cup {0}, ups : Nat, to : Path]

Types ==
    /\ entry \in Entries
    /\ phase \in {"plan", "articles", "redirects", "done", "failed"}
    /\ exiled \in SUBSET Index
    /\ todo \in SUBSET ({entry[i].cluster : i \in Index} \ {0})
    /\ aborted \in BOOLEAN
    /\ job \in [Procs -> Jobs]
    /\ fs \in [Places -> Nodes]

\* The places an entry may be written to.
Dests(i) == {Rel(i), ExceptionDest(i)}

Queued(i) == \E w \in Procs : i \in Range(job[w].queue)

\* What is still to be written.
Waiting(i) ==
    \/ phase = "plan"
    \/ Queued(i)
    \/ phase = "articles" /\ (IsRedirect(i) \/ entry[i].cluster \in todo)

\* Threads are at their own entries, articles before redirects.
Queues ==
    /\ \A w \in Procs : IsInjective(job[w].queue)
    /\ \A w \in Procs : job[w].stage = "idle" <=> job[w].queue = << >>
    /\ \A v, w \in Procs : v # w => Range(job[v].queue) \cap Range(job[w].queue) = {}
    /\ phase \notin {"articles", "redirects"} => AllIdle
    /\ phase = "articles" =>
         \A i \in Index : Queued(i) => ~IsRedirect(i) /\ entry[i].cluster \notin todo
    /\ phase = "redirects" => todo = {} /\ \A i \in Index : Queued(i) => IsRedirect(i)

\* A thread writes its entry where the plan says, or under _exceptions/.
Writes ==
    \A w \in Procs : job[w].stage \in {"walk", "rename"} =>
      /\ job[w].dest = IF job[w].fell THEN ExceptionDest(Current(w)) ELSE Rel(Current(w))
      /\ Current(w) \in exiled => job[w].fell

\* The plan, and where the table says that entries are.
Table ==
    /\ phase \in {"articles", "redirects", "done"} => exiled = {i \in Index : IsExiled(i)}
    /\ phase = "plan" => fallback = << >> /\ exiled = {}
    /\ \A i \in Index : Rel(i) \in DOMAIN fallback => fallback[Rel(i)] = ExceptionDest(i)
    /\ Distinct =>
         \A i \in Index : Rel(i) \in DOMAIN fallback => i \in exiled \/ ~Waiting(i)

\* A file is at a place of its entry, and says how deep it is.
Files ==
    \A p \in Places : fs[p].is = "file" =>
      /\ fs[p].of \in Index
      /\ p \in Dests(fs[p].of)
      /\ fs[p].ups = Len(p) - 1
      /\ IsRedirect(fs[p].of) => phase \notin {"plan", "articles"}

Published(i) == fs[Where(i)].is = "file" /\ fs[Where(i)].of = i

\* Until something aborts the dump, an entry waits, is lost or is published.
Accounted ==
    /\ phase \in {"redirects", "done"} => ~aborted
    /\ Distinct /\ ~aborted /\ phase # "failed" =>
         \A i \in Index \ lost : Waiting(i) \/ Published(i)

Planned(i) == IF IsExiled(i) THEN ExceptionDest(i) ELSE Rel(i)
Clean == Distinct /\ Reserved /\ old = {}

\* In a clean directory everything is where it was planned: nothing falls back
\* at run time, and directories are only made above planned places.
AsPlanned ==
    Clean =>
      /\ \A p \in Places : fs[p].is = "file" => p = Planned(fs[p].of)
      /\ \A p \in Places : fs[p].is = "dir" => \E i \in Index : p \in DirsAbove(Planned(i))
      /\ \A w \in Procs : job[w].stage \in {"walk", "rename"} /\ job[w].fell =>
           Current(w) \in exiled
      /\ \A i \in Index : Rel(i) \in DOMAIN fallback => i \in exiled
      /\ phase # "plan" => \A i \in exiled : IsRedirect(i) => Rel(i) \in DOMAIN fallback

\* Targets that no longer move once redirects are written.
Settled(i) == Distinct /\ (~IsRedirect(i) \/ Clean)

Links ==
    /\ \A w \in Procs : job[w].stage \in {"walk", "rename"} =>
         LET end == entry[Current(w)].target
         IN IsRedirect(Current(w)) /\ Settled(end) => job[w].to = Where(end)
    /\ \A p \in Places : fs[p].is = "file" =>
         LET end == entry[fs[p].of].target
         IN IsRedirect(fs[p].of) /\ Settled(end) => fs[p].to = Where(end)

DumpInv ==
    /\ Types /\ Queues /\ Writes /\ Table /\ Files /\ Accounted /\ AsPlanned /\ Links
----------------------------------------------------------------------------
(* Paths *)

\* Short sequences.
LEMMA Short ==
  ASSUME NEW S, NEW x \in S, NEW y \in S
  PROVE  /\ <<x>> \in Seq(S) /\ Len(<<x>>) = 1
         /\ <<x, y>> \in Seq(S) /\ Len(<<x, y>>) = 2 /\ <<x, y>>[1] = x
         /\ SubSeq(<<x, y>>, 1, 1) = <<x>>
<1>1. <<x>> \in Seq(S) /\ Len(<<x>>) = 1
  OBVIOUS
<1>2. <<x, y>> \in Seq(S) /\ Len(<<x, y>>) = 2 /\ <<x, y>>[1] = x
  OBVIOUS
<1>3. SubSeq(<<x, y>>, 1, 1) = <<x>>
  <2> DEFINE q == SubSeq(<<x, y>>, 1, 1)
             r == <<x>>
  <2>1. q \in Seq(S) /\ Len(q) = 1 /\ q[1] = x
    BY <1>2, SubSeqProperties
  <2>2. r \in Seq(S) /\ Len(r) = 1 /\ r[1] = x
    BY <1>1
  <2> HIDE DEF q, r
  <2>3. \A i \in 1 .. 1 : i = 1
    OBVIOUS
  <2>4. \A i \in 1 .. Len(q) : q[i] = r[i]
    BY <2>1, <2>2, <2>3
  <2>5. q = r
    BY <2>1, <2>2, <2>4, SeqEqual
  <2>6. QED BY <2>5 DEF q, r
<1>4. QED BY <1>1, <1>2, <1>3

\* Group and Safe list what they are made from, each element once.
LEMMA Listed ==
  ASSUME NEW n \in Nat, NEW S \in SUBSET (1 .. n)
  PROVE  Ascending(S) \in Seq(S) /\ IsInjective(Ascending(S)) /\ Range(Ascending(S)) = S
<1>1. \E q : IsAscending(q, S)
  BY AscendingExists
<1>2. IsAscending(Ascending(S), S)
  BY <1>1 DEF Ascending, IsAscending
<1>3. QED BY <1>2, AscendingLists

\* A sanitized path has at least one segment.
LEMMA SafeNames ==
  ASSUME NEW p \in Seq(STRING)
  PROVE  Safe(p) \in Seq(Text) /\ Len(Safe(p)) \in Nat \ {0}
<1> DEFINE keep == {k \in DOMAIN p : p[k] \notin {"", ".", ".."}}
           kept == Ascending(keep)
<1>1. Len(p) \in Nat /\ DOMAIN p = 1 .. Len(p)
  OBVIOUS
<1>2. kept \in Seq(keep)
  BY <1>1, Listed
<1>3. Safe(p) = IF kept = << >> THEN <<"_">> ELSE [k \in DOMAIN kept |-> p[kept[k]]]
  BY DEF Safe
<1> HIDE DEF kept, keep
<1>4. CASE kept = << >>
  <2>1. "_" \in Text
    BY DEF Text
  <2>2. <<"_">> \in Seq(Text) /\ Len(<<"_">>) = 1
    BY <2>1, Short
  <2>3. Safe(p) = <<"_">>
    BY <1>3, <1>4
  <2>4. Safe(p) \in Seq(Text) /\ Len(Safe(p)) = 1
    BY <2>2, <2>3, Zenon
  <2>5. QED BY <2>4
<1>5. CASE kept # << >>
  <2>1. \A k \in DOMAIN kept : p[kept[k]] \in Text
    <3>1. \A k \in DOMAIN kept : kept[k] \in DOMAIN p
      <4>1. keep \subseteq DOMAIN p
        BY DEF keep
      <4>2. QED BY <1>2, <4>1
    <3>2. \A k \in DOMAIN p : p[k] \in STRING
      BY <1>1
    <3>3. QED BY <3>1, <3>2 DEF Text
  <2>2. DOMAIN kept = 1 .. Len(kept) /\ Len(kept) \in Nat \ {0}
    BY <1>2, <1>5
  <2>3. QED BY <1>3, <1>5, <2>1, <2>2
<1>6. QED BY <1>4, <1>5

\* Names and paths say the same.
LEMMA PathsAndNames ==
  /\ DOMAIN RawPaths = 1 .. Len(RawPaths) /\ DOMAIN Names = DOMAIN RawPaths
  /\ \A k \in DOMAIN RawPaths :
       /\ Names[k] \in Seq(Text)
       /\ Rels[k] \in Path
       /\ Len(Rels[k]) \in Nat \ {0}
  /\ \A j, k \in DOMAIN RawPaths : Rels[j] = Rels[k] <=> Names[j] = Names[k]
<1>1. DOMAIN RawPaths = 1 .. Len(RawPaths) /\ \A k \in DOMAIN RawPaths : RawPaths[k] \in Seq(STRING)
  BY SizeAssumption
<1>2. DOMAIN Names = DOMAIN RawPaths /\ \A k \in DOMAIN RawPaths : Names[k] = Safe(RawPaths[k])
  BY DEF Names
<1>3. ASSUME NEW k \in DOMAIN RawPaths
      PROVE  /\ Names[k] \in Seq(Text) /\ Len(Names[k]) \in Nat \ {0}
             /\ DOMAIN Names[k] = 1 .. Len(Names[k])
             /\ Rels[k] = [j \in 1 .. Len(Names[k]) |-> <<Names[k][j]>>]
  <2>1. Names[k] \in Seq(Text) /\ Len(Names[k]) \in Nat \ {0}
    BY <1>1, <1>2, SafeNames
  <2>2. DOMAIN Names[k] = 1 .. Len(Names[k])
    BY <2>1
  <2>3. QED BY <1>2, <2>1, <2>2 DEF Rels
<1>4. ASSUME NEW k \in DOMAIN RawPaths PROVE Rels[k] \in Path /\ Len(Rels[k]) \in Nat \ {0}
  <2>1. \A j \in 1 .. Len(Names[k]) : Names[k][j] \in Text
    <3>1. Names[k] \in Seq(Text)
      BY <1>3
    <3>2. QED BY <3>1
  <2>2. \A j \in 1 .. Len(Names[k]) : <<Names[k][j]>> \in Seq(Text)
    BY <2>1, Short
  <2> DEFINE S == Seq(Text)
             n == Len(Names[k])
             f == [j \in 1 .. n |-> <<Names[k][j]>>]
  <2>3. n \in Nat \ {0} /\ Rels[k] = f
    BY <1>3
  <2>4. \A j \in 1 .. n : <<Names[k][j]>> \in S
    BY <2>2
  <2> HIDE DEF S, n
  <2>5. f \in Seq(S) /\ Len(f) = n
    BY <2>3, <2>4
  <2> HIDE DEF f
  <2>6. QED BY <2>3, <2>5 DEF Path, S
<1>5. ASSUME NEW j \in DOMAIN RawPaths, NEW k \in DOMAIN RawPaths, Rels[j] = Rels[k]
      PROVE  Names[j] = Names[k]
  <2>1. Len(Names[j]) = Len(Names[k])
    <3>1. DOMAIN Rels[j] = 1 .. Len(Names[j]) /\ DOMAIN Rels[k] = 1 .. Len(Names[k])
      BY <1>3
    <3>2. 1 .. Len(Names[j]) = 1 .. Len(Names[k])
      BY <1>5, <3>1
    <3>3. QED BY <1>3, <3>2
  <2>2. ASSUME NEW m \in 1 .. Len(Names[j]) PROVE Names[j][m] = Names[k][m]
    <3>1. Rels[j][m] = <<Names[j][m]>> /\ Rels[k][m] = <<Names[k][m]>>
      BY <1>3, <2>1
    <3>2. QED BY <1>5, <3>1
  <2>3. QED BY <1>3, <2>1, <2>2, SeqEqual
<1>6. ASSUME NEW j \in DOMAIN RawPaths, NEW k \in DOMAIN RawPaths, Names[j] = Names[k]
      PROVE  Rels[j] = Rels[k]
  BY <1>3, <1>6
<1>7. QED BY <1>1, <1>2, <1>3, <1>4, <1>5, <1>6

\* What is known of the places of an entry.
LEMMA PlacesOf ==
  ASSUME Types, NEW i \in Index
  PROVE  /\ entry[i].target \in Index
         /\ Rel(i) \in Path /\ Len(Rel(i)) \in Nat \ {0} /\ Rel(i) \in Places
         /\ ExceptionDest(i) \in Path /\ Len(ExceptionDest(i)) = 2 /\ ExceptionDest(i) \in Places
         /\ ExceptionDest(i)[1] = <<Exceptions>>
         /\ DirsAbove(Rel(i)) \subseteq Places
         /\ DirsAbove(ExceptionDest(i)) = {<< <<Exceptions>> >>}
         /\ << <<Exceptions>> >> \in Places
<1>1. entry[i].at \in DOMAIN RawPaths /\ entry[i].target \in Index
  BY DEF Types, Entries
<1> DEFINE k == entry[i].at
           name == Names[k]
<1>2. Rels[k] \in Path /\ Len(Rels[k]) \in Nat \ {0} /\ name \in Seq(Text)
  BY <1>1, PathsAndNames
<1>3. <<Exceptions>> \in Seq(Text)
  BY Short DEF Text
<1>4. Rel(i) = Rels[k] /\ ExceptionDest(i) = << <<Exceptions>>, name >>
  BY DEF Rel, ExceptionDest
<1>5. /\ << <<Exceptions>>, name >> \in Path /\ Len(<< <<Exceptions>>, name >>) = 2
      /\ << <<Exceptions>>, name >>[1] = <<Exceptions>>
      /\ SubSeq(<< <<Exceptions>>, name >>, 1, 1) = << <<Exceptions>> >>
  <2> DEFINE x == <<Exceptions>>
  <2> HIDE DEF name, x
  <2>1. x \in Seq(Text) /\ name \in Seq(Text)
    BY <1>2, <1>3 DEF x
  <2>2. QED BY <2>1, Short DEF Path, x
<1>6. DirsAbove(ExceptionDest(i)) = {<< <<Exceptions>> >>}
  <2> HIDE DEF name
  <2>1. \A m \in 1 .. 2 - 1 : m = 1
    OBVIOUS
  <2>2. QED BY <1>4, <1>5, <2>1 DEF DirsAbove
<1>7. {Rel(i), ExceptionDest(i), << <<Exceptions>> >>} \cup DirsAbove(Rel(i)) \subseteq Places
  BY <1>1, <1>4 DEF Places
<1>8. QED BY <1>1, <1>2, <1>4, <1>5, <1>6, <1>7

\* Entries with one path have one place under _exceptions/.
LEMMA SameDest ==
  ASSUME Types, NEW i \in Index, NEW j \in Index
  PROVE  Rel(i) = Rel(j) <=> ExceptionDest(i) = ExceptionDest(j)
<1>1. entry[i].at \in DOMAIN RawPaths /\ entry[j].at \in DOMAIN RawPaths
  BY DEF Types, Entries
<1>2. ExceptionDest(i) = ExceptionDest(j) <=> Names[entry[i].at] = Names[entry[j].at]
  BY DEF ExceptionDest
<1>3. QED BY <1>1, <1>2, PathsAndNames DEF Rel

\* Distinct entries have no place in common.
LEMMA Apart ==
  ASSUME Types, Distinct, NEW i \in Index, NEW j \in Index, i # j
  PROVE  Dests(i) \cap Dests(j) = {} /\ Rel(i) # Rel(j)
<1>1. Rel(i) # Rel(j) /\ Rel(i) # ExceptionDest(j) /\ Rel(j) # ExceptionDest(i)
  BY DEF Distinct
<1>2. ExceptionDest(i) # ExceptionDest(j)
  BY <1>1, SameDest
<1>3. QED BY <1>1, <1>2 DEF Dests

\* The directory a thread is at is above its destination.
LEMMA NextIsAbove ==
  ASSUME NEW p \in Path, NEW d \in Nat, d < Len(p) - 1
  PROVE  SubSeq(p, 1, d + 1) \in DirsAbove(p)
<1>1. d + 1 \in 1 .. Len(p) - 1
  BY DEF Path
<1>2. QED BY <1>1 DEF DirsAbove

\* What is above a path begins as it does and is shorter.
LEMMA AboveBegins ==
  ASSUME NEW p \in Path, NEW d \in DirsAbove(p)
  PROVE  d \in Path /\ Len(d) \in Nat \ {0} /\ Len(d) < Len(p) /\ d[1] = p[1]
<1>1. PICK k \in 1 .. Len(p) - 1 : d = SubSeq(p, 1, k)
  BY DEF DirsAbove
<1>2. Len(p) \in Nat /\ k \in Nat /\ 1 <= k /\ k < Len(p)
  BY <1>1 DEF Path
<1>3. d = [m \in 1 .. k |-> p[m]]
  BY <1>1, <1>2 DEF Path
<1>4. \A m \in 1 .. k : p[m] \in Seq(Text)
  BY <1>2 DEF Path
<1>5. d \in Path
  BY <1>2, <1>3, <1>4 DEF Path
<1>6. Len(d) = k
  BY <1>2, <1>3
<1>7. QED BY <1>2, <1>3, <1>5, <1>6

\* An entry is where the table says, at one of its places.
LEMMA WhereIs ==
  ASSUME Types, Table, NEW i \in Index
  PROVE  /\ Where(i) = IF Rel(i) \in DOMAIN fallback THEN ExceptionDest(i) ELSE Rel(i)
         /\ Where(i) \in Dests(i) /\ Where(i) \in Places /\ Where(i) \in Path
<1>1. Where(i) = IF Rel(i) \in DOMAIN fallback THEN ExceptionDest(i) ELSE Rel(i)
  BY DEF Where, Found, Table
<1>2. QED BY <1>1, PlacesOf DEF Dests
----------------------------------------------------------------------------
(* What steps leave alone *)

\* What only depends on the archive and on what the directory held.
LEMMA Same ==
  ASSUME UNCHANGED <<entry, old>>
  PROVE  /\ \A i : Rel(i)' = Rel(i)
         /\ \A i : ExceptionDest(i)' = ExceptionDest(i)
         /\ \A i : IsRedirect(i)' <=> IsRedirect(i)
         /\ \A i : Dests(i)' = Dests(i)
         /\ \A i : IsExiled(i)' <=> IsExiled(i)
         /\ \A i : Planned(i)' = Planned(i)
         /\ \A i : Settled(i)' <=> Settled(i)
         /\ Distinct' <=> Distinct
         /\ Clean' <=> Clean
<1>1. /\ \A i : Rel(i)' = Rel(i)
      /\ \A i : ExceptionDest(i)' = ExceptionDest(i)
      /\ \A i : IsRedirect(i)' <=> IsRedirect(i)
  BY DEF Rel, ExceptionDest, IsRedirect
<1>2. \A i : Dests(i)' = Dests(i)
  BY <1>1 DEF Dests
<1>3. \A i : IsExiled(i)' <=> IsExiled(i)
  BY <1>1 DEF IsExiled
<1>4. \A i : Planned(i)' = Planned(i)
  BY <1>1, <1>3 DEF Planned
<1>5. Distinct' <=> Distinct
  BY <1>1 DEF Distinct
<1>6. Clean' <=> Clean
  BY <1>1, <1>5 DEF Clean, Reserved
<1>7. \A i : Settled(i)' <=> Settled(i)
  BY <1>1, <1>5, <1>6 DEF Settled
<1>8. QED BY <1>1, <1>2, <1>3, <1>4, <1>5, <1>6, <1>7

\* Nothing moves while the table stays as it is.
LEMMA SameWhere ==
  ASSUME UNCHANGED <<entry, old, fallback>>
  PROVE  \A i : Where(i)' = Where(i)
BY Same DEF Where, Found

\* A thread that is at an entry has it at the head of its queue.
LEMMA AtEntry ==
  ASSUME Types, Queues, NEW w \in Procs, job[w].stage # "idle"
  PROVE  /\ job[w].queue \in Seq(Index) /\ job[w].queue # << >>
         /\ Current(w) \in Range(job[w].queue)
         /\ Current(w) \in Index
         /\ Queued(Current(w)) /\ Waiting(Current(w))
         /\ phase \in {"articles", "redirects"}
         /\ phase = "articles" =>
              ~IsRedirect(Current(w)) /\ entry[Current(w)].cluster \notin todo
         /\ phase = "redirects" => IsRedirect(Current(w))
<1>1. job[w].queue \in Seq(Index) /\ job[w].queue # << >>
  BY DEF Types, Jobs, Queues
<1>2. Current(w) = job[w].queue[1] /\ 1 \in DOMAIN job[w].queue /\ job[w].queue[1] \in Index
  BY <1>1 DEF Current
<1>3. Current(w) \in Range(job[w].queue)
  BY <1>2 DEF Range
<1>4. Queued(Current(w)) /\ Waiting(Current(w))
  BY <1>3 DEF Queued, Waiting
<1>5. phase \in {"articles", "redirects"}
  BY DEF Queues, AllIdle
<1>6. QED BY <1>1, <1>2, <1>3, <1>4, <1>5 DEF Queues

\* What a thread is done with leaves its queue; nothing comes in.
LEMMA JobChanges ==
  ASSUME Types, Queues, NEW w \in Procs,
         UNCHANGED <<entry, old, phase, todo>>,
         phase \in {"articles", "redirects"},
         job' \in [Procs -> Jobs], \A v \in Procs \ {w} : job'[v] = job[v],
         IsInjective(job'[w].queue),
         Range(job'[w].queue) \subseteq Range(job[w].queue),
         job'[w].stage = "idle" <=> job'[w].queue = << >>
  PROVE  /\ Queues'
         /\ \A i \in Index : Queued(i)' <=>
              IF i \in Range(job[w].queue) THEN i \in Range(job'[w].queue) ELSE Queued(i)
         /\ \A i \in Index : Waiting(i)' <=>
              IF i \in Range(job[w].queue) THEN i \in Range(job'[w].queue) ELSE Waiting(i)
<1>1. \A v \in Procs \ {w} : Range(job[v].queue) \cap Range(job[w].queue) = {}
  BY DEF Queues
<1>2. \A v \in Procs : Range(job'[v].queue) \subseteq Range(job[v].queue)
  OBVIOUS
<1>3. \A i \in Index : Queued(i)' <=>
              IF i \in Range(job[w].queue) THEN i \in Range(job'[w].queue) ELSE Queued(i)
  BY <1>1, <1>2 DEF Queued
<1>4. \A i \in Index : Queued(i)' => Queued(i)
  BY <1>2 DEF Queued
<1>5. \A i : IsRedirect(i)' <=> IsRedirect(i)
  BY Same
<1>6. Queues'
  <2>1. /\ \A v \in Procs : IsInjective(job'[v].queue)
        /\ \A v \in Procs : job'[v].stage = "idle" <=> job'[v].queue = << >>
    BY DEF Queues
  <2>2. \A u, v \in Procs : u # v => Range(job'[u].queue) \cap Range(job'[v].queue) = {}
    BY <1>2 DEF Queues
  <2>3. phase' = "articles" =>
          \A i \in Index : Queued(i)' => ~IsRedirect(i)' /\ entry'[i].cluster \notin todo'
    BY <1>4, <1>5 DEF Queues
  <2>4. phase' = "redirects" => todo' = {} /\ \A i \in Index : Queued(i)' => IsRedirect(i)'
    BY <1>4, <1>5 DEF Queues
  <2>5. QED BY <2>1, <2>2, <2>3, <2>4 DEF Queues
<1>7. ASSUME NEW i \in Index
      PROVE  Waiting(i)' <=>
               IF i \in Range(job[w].queue) THEN i \in Range(job'[w].queue) ELSE Waiting(i)
  <2>1. Waiting(i)' <=> Queued(i)' \/ (phase = "articles" /\ (IsRedirect(i) \/ entry[i].cluster \in todo))
    BY <1>5 DEF Waiting
  <2>2. Waiting(i) <=> Queued(i) \/ (phase = "articles" /\ (IsRedirect(i) \/ entry[i].cluster \in todo))
    BY DEF Waiting
  <2>3. i \in Range(job[w].queue) => Queued(i)
    BY DEF Queued
  <2>4. Queued(i) /\ phase = "articles" => ~IsRedirect(i) /\ entry[i].cluster \notin todo
    BY DEF Queues
  <2>5. QED BY <1>3, <2>1, <2>2, <2>3, <2>4
<1>8. QED BY <1>3, <1>6, <1>7
\* A thread gets on with its entry; at most it makes a directory.
LEMMA Moves ==
  ASSUME DumpInv, NEW w \in Procs,
         UNCHANGED <<entry, old, phase, exiled, todo, aborted, fallback, lost>>,
         job[w].stage # "idle",
         job' \in [Procs -> Jobs], \A v \in Procs \ {w} : job'[v] = job[v],
         job'[w].queue = job[w].queue, job'[w].stage \in {"walk", "rename"},
         job'[w].dest = IF job'[w].fell THEN ExceptionDest(Current(w)) ELSE Rel(Current(w)),
         Current(w) \in exiled => job'[w].fell,
         Clean /\ job'[w].fell => Current(w) \in exiled,
         IsRedirect(Current(w)) /\ Settled(entry[Current(w)].target) =>
           job'[w].to = Where(entry[Current(w)].target),
         fs' \in [Places -> Nodes],
         \A p \in Places :
           \/ fs'[p] = fs[p]
           \/ /\ fs[p].is # "file" /\ fs'[p].is = "dir"
              /\ Clean => \E i \in Index : p \in DirsAbove(Planned(i))
  PROVE  DumpInv'
<1>1. Types /\ Queues /\ Writes /\ Table /\ Files /\ Accounted /\ AsPlanned /\ Links
  BY DEF DumpInv
<1>2. Types'
  BY <1>1 DEF Types
<1>3. phase \in {"articles", "redirects"}
  BY <1>1, AtEntry
<1>4. Queues' /\ \A i \in Index : Waiting(i)' <=> Waiting(i)
  <2>1. \A i \in Index : i \in Range(job[w].queue) => Waiting(i)
    BY DEF Waiting, Queued
  <2>2. /\ phase \in {"articles", "redirects"}
        /\ IsInjective(job'[w].queue)
        /\ job'[w].stage = "idle" <=> job'[w].queue = << >>
    BY <1>1, <1>3 DEF Queues
  <2>3. QED BY <1>1, <2>1, <2>2, JobChanges
<1>5. \A v \in Procs : Current(v)' = Current(v)
  BY DEF Current
<1>6. /\ \A i : Rel(i)' = Rel(i) /\ ExceptionDest(i)' = ExceptionDest(i)
      /\ \A i : Dests(i)' = Dests(i) /\ Planned(i)' = Planned(i) /\ Where(i)' = Where(i)
      /\ \A i : (IsRedirect(i)' <=> IsRedirect(i)) /\ (IsExiled(i)' <=> IsExiled(i))
      /\ \A i : Settled(i)' <=> Settled(i)
      /\ (Distinct' <=> Distinct) /\ (Clean' <=> Clean)
  BY Same, SameWhere
<1>7. Writes'
  BY <1>1, <1>5, <1>6 DEF Writes
<1>8. Table'
  BY <1>1, <1>4, <1>6 DEF Table
<1>9. \A p \in Places : fs'[p].is = "file" => fs'[p] = fs[p]
  OBVIOUS
<1>10. Files'
  BY <1>1, <1>6, <1>9 DEF Files
<1>11. Accounted'
  <2>1. \A i \in Index : Published(i) => Published(i)'
    BY <1>1, <1>6, WhereIs DEF Published
  <2>2. QED BY <1>1, <1>4, <1>6, <2>1 DEF Accounted
<1>12. AsPlanned'
  <2>1. Clean => \A v \in Procs : job'[v].stage \in {"walk", "rename"} /\ job'[v].fell =>
                   Current(v) \in exiled
    BY <1>1 DEF AsPlanned
  <2>2. Clean => \A p \in Places : fs'[p].is = "dir" => \E i \in Index : p \in DirsAbove(Planned(i))
    BY <1>1 DEF AsPlanned
  <2>3. Clean => \A p \in Places : fs'[p].is = "file" => p = Planned(fs'[p].of)
    BY <1>1, <1>9 DEF AsPlanned
  <2>4. QED BY <1>1, <1>5, <1>6, <2>1, <2>2, <2>3 DEF AsPlanned
<1>13. Links'
  BY <1>1, <1>5, <1>6, <1>9 DEF Links
<1>14. QED BY <1>2, <1>4, <1>7, <1>8, <1>10, <1>11, <1>12, <1>13 DEF DumpInv
----------------------------------------------------------------------------
(* The steps of a thread *)

\* Beginning with an entry: its place by the plan, its target by the table.
LEMMA StepBegin ==
  ASSUME DumpInv, NEW w \in Procs, Begin(w),
         UNCHANGED <<entry, old, phase, exiled, todo, aborted>>
  PROVE  DumpInv'
<1>1. Types /\ Queues /\ Table
  BY DEF DumpInv
<1>2. job[w].stage # "idle"
  BY DEF Begin
<1> DEFINE i == Current(w)
           end == entry[i].target
           here == IF i \in exiled THEN ExceptionDest(i) ELSE Rel(i)
           there == IF IsRedirect(i) THEN Found(Rel(end)) ELSE << >>
<1>3. i \in Index
  BY <1>1, <1>2, AtEntry
<1>4. end \in Index /\ here \in Path
  BY <1>1, <1>3, PlacesOf
<1>5. Found(Rel(end)) = Where(end) /\ Where(end) \in Path
  BY <1>1, <1>4, WhereIs DEF Where
<1>6. there \in Path
  BY <1>5 DEF Path
<1>7. job[w] \in Jobs
  BY <1>1 DEF Types
<1> DEFINE out == i \in exiled
           j == [job[w] EXCEPT !.stage = "walk", !.depth = 0,
                               !.fell = out, !.dest = here, !.to = there]
<1>8. job' = [job EXCEPT ![w] = j] /\ out \in BOOLEAN
  <2>1. job' = [job EXCEPT ![w] = j]
    BY <1>1 DEF Begin, Types
  <2>2. out \in BOOLEAN
    OBVIOUS
  <2>3. QED BY <2>1, <2>2
<1> HIDE DEF here, there, out
<1>9. /\ j \in Jobs /\ j.queue = job[w].queue /\ j.stage = "walk"
      /\ j.dest = here /\ j.to = there /\ j.fell = out
  BY <1>4, <1>6, <1>7, <1>8 DEF Jobs
<1> HIDE DEF j
<1>10. job' \in [Procs -> Jobs] /\ job'[w] = j /\ \A v \in Procs \ {w} : job'[v] = job[v]
  BY <1>1, <1>8, <1>9 DEF Types
<1>11. fs' = fs /\ fallback' = fallback /\ lost' = lost
  BY DEF Begin
<1>12. /\ job'[w].dest = IF job'[w].fell THEN ExceptionDest(i) ELSE Rel(i)
       /\ IsRedirect(i) => job'[w].to = Where(end)
  BY <1>5, <1>9, <1>10 DEF here, there, out
<1>13. fs' \in [Places -> Nodes]
  BY <1>1, <1>11 DEF Types
<1> HIDE DEF end
<1>14. job'[w].fell <=> i \in exiled
  BY <1>9, <1>10 DEF out
<1>15. QED BY <1>2, <1>9, <1>10, <1>11, <1>12, <1>13, <1>14, Moves DEF end

\* A destination in a clean directory is the planned one.
LEMMA DestIsPlanned ==
  ASSUME DumpInv, Clean, NEW w \in Procs, job[w].stage \in {"walk", "rename"}
  PROVE  /\ job[w].dest = Planned(Current(w))
         /\ job[w].fell <=> Current(w) \in exiled
         /\ job[w].fell <=> IsExiled(Current(w))
<1>1. Types /\ Queues /\ Writes /\ Table /\ AsPlanned
  BY DEF DumpInv
<1>2. phase \in {"articles", "redirects"} /\ Current(w) \in Index
  BY <1>1, AtEntry
<1>3. Current(w) \in exiled <=> IsExiled(Current(w))
  BY <1>1, <1>2 DEF Table
<1>4. job[w].fell <=> Current(w) \in exiled
  BY <1>1 DEF AsPlanned, Writes
<1>5. QED BY <1>1, <1>3, <1>4 DEF Writes, Planned

\* What a thread is about to make or replace.
LEMMA Ahead ==
  ASSUME DumpInv, NEW w \in Procs, job[w].stage \in {"walk", "rename"}
  PROVE  /\ Current(w) \in Index
         /\ job[w].dest \in Dests(Current(w)) /\ job[w].dest \in Path /\ job[w].dest \in Places
         /\ Walking(w) => NextDir(w) \in DirsAbove(job[w].dest) /\ NextDir(w) \in Places
<1>1. Types /\ Queues /\ Writes
  BY DEF DumpInv
<1>2. Current(w) \in Index
  BY <1>1, AtEntry
<1>3. job[w].dest \in Dests(Current(w))
  BY <1>1 DEF Writes, Dests
<1>4. job[w].dest \in Path /\ job[w].dest \in Places /\ DirsAbove(job[w].dest) \subseteq Places
  BY <1>1, <1>2, <1>3, PlacesOf DEF Dests
<1>5. job[w].depth \in Nat
  BY <1>1 DEF Types, Jobs
<1>6. Walking(w) => NextDir(w) \in DirsAbove(job[w].dest)
  BY <1>4, <1>5, NextIsAbove DEF Walking, NextDir
<1>7. QED BY <1>2, <1>3, <1>4, <1>6

\* A directory on the way.
LEMMA StepDescend ==
  ASSUME DumpInv, NEW w \in Procs, Descend(w),
         UNCHANGED <<entry, old, phase, exiled, todo, aborted>>
  PROVE  DumpInv'
<1>1. Types /\ Queues /\ Writes /\ AsPlanned /\ Links
  BY DEF DumpInv
<1>2. Walking(w) /\ job[w].stage = "walk"
  BY DEF Descend, Walking
<1>3. Current(w) \in Index /\ NextDir(w) \in DirsAbove(job[w].dest) /\ NextDir(w) \in Places
  BY <1>2, Ahead
<1>4. Clean => NextDir(w) \in DirsAbove(Planned(Current(w)))
  BY <1>2, <1>3, DestIsPlanned
<1> DEFINE j == [job[w] EXCEPT !.depth = @ + 1]
<1>5. job' = [job EXCEPT ![w] = j] /\ job[w] \in Jobs
  BY <1>1 DEF Descend, Types
<1>6. /\ j \in Jobs /\ j.queue = job[w].queue /\ j.stage = job[w].stage
      /\ j.dest = job[w].dest /\ j.to = job[w].to /\ j.fell = job[w].fell
  BY <1>5 DEF Jobs
<1> HIDE DEF j
<1>7. job' \in [Procs -> Jobs] /\ job'[w] = j /\ \A v \in Procs \ {w} : job'[v] = job[v]
  BY <1>1, <1>5, <1>6 DEF Types
<1>8. << >> \in Path
  BY DEF Path
<1>9. Dir \in Nodes /\ Dir.is = "dir"
  BY <1>8 DEF Dir, None, Nodes
<1>10. /\ fs[NextDir(w)].is # "file" /\ fs' = [fs EXCEPT ![NextDir(w)] = Dir]
       /\ fallback' = fallback /\ lost' = lost
  BY DEF Descend
<1>11. fs' \in [Places -> Nodes]
  BY <1>1, <1>9, <1>10 DEF Types
<1>12. \A p \in Places : fs'[p] = IF p = NextDir(w) THEN Dir ELSE fs[p]
  BY <1>1, <1>10 DEF Types
<1>13. \A p \in Places :
         \/ fs'[p] = fs[p]
         \/ /\ fs[p].is # "file" /\ fs'[p].is = "dir"
            /\ Clean => \E i \in Index : p \in DirsAbove(Planned(i))
  BY <1>3, <1>4, <1>9, <1>10, <1>12
<1>14. /\ job'[w].dest = IF job'[w].fell THEN ExceptionDest(Current(w)) ELSE Rel(Current(w))
       /\ Current(w) \in exiled => job'[w].fell
       /\ Clean /\ job'[w].fell => Current(w) \in exiled
       /\ IsRedirect(Current(w)) /\ Settled(entry[Current(w)].target) =>
           job'[w].to = Where(entry[Current(w)].target)
  BY <1>1, <1>2, <1>6, <1>7 DEF Writes, AsPlanned, Links
<1>15. QED BY <1>2, <1>6, <1>7, <1>10, <1>11, <1>13, <1>14, Moves

\* The temporary file.
LEMMA StepFill ==
  ASSUME DumpInv, NEW w \in Procs, Fill(w),
         UNCHANGED <<entry, old, phase, exiled, todo, aborted>>
  PROVE  DumpInv'
<1>1. Types /\ Queues /\ Writes /\ AsPlanned /\ Links
  BY DEF DumpInv
<1>2. job[w].stage = "walk"
  BY DEF Fill
<1> DEFINE j == [job[w] EXCEPT !.stage = "rename"]
<1>3. job' = [job EXCEPT ![w] = j] /\ job[w] \in Jobs
  BY <1>1 DEF Fill, Types
<1>4. /\ j \in Jobs /\ j.queue = job[w].queue /\ j.stage = "rename"
      /\ j.dest = job[w].dest /\ j.to = job[w].to /\ j.fell = job[w].fell
  BY <1>3 DEF Jobs
<1> HIDE DEF j
<1>5. job' \in [Procs -> Jobs] /\ job'[w] = j /\ \A v \in Procs \ {w} : job'[v] = job[v]
  BY <1>1, <1>3, <1>4 DEF Types
<1>6. fs' = fs /\ fallback' = fallback /\ lost' = lost /\ fs' \in [Places -> Nodes]
  BY <1>1 DEF Fill, Types
<1>7. /\ job'[w].dest = IF job'[w].fell THEN ExceptionDest(Current(w)) ELSE Rel(Current(w))
      /\ Current(w) \in exiled => job'[w].fell
      /\ Clean /\ job'[w].fell => Current(w) \in exiled
      /\ IsRedirect(Current(w)) /\ Settled(entry[Current(w)].target) =>
          job'[w].to = Where(entry[Current(w)].target)
  BY <1>1, <1>2, <1>4, <1>5 DEF Writes, AsPlanned, Links
<1>8. QED BY <1>2, <1>4, <1>5, <1>6, <1>7, Moves

\* In a clean directory an entry at its own path meets neither a file on its
\* way nor a directory at its end: the plan has exiled whoever would.
LEMMA NoCollision ==
  ASSUME DumpInv, Clean, NEW w \in Procs, Collides(w)
  PROVE  job[w].fell
<1> SUFFICES ASSUME ~job[w].fell PROVE FALSE
  OBVIOUS
<1> DEFINE i == Current(w)
<1>1. Types /\ Queues /\ Writes /\ Table /\ Files /\ AsPlanned
  BY DEF DumpInv
<1>2. job[w].stage \in {"walk", "rename"}
  BY DEF Collides, Walking
<1>3. i \in Index /\ job[w].dest = Rel(i) /\ ~IsExiled(i)
  BY <1>1, <1>2, DestIsPlanned, Ahead DEF Writes
<1>4. Rel(i)[1] # <<Exceptions>> /\ Rel(i) \in Path /\ Rel(i) \in Places
  BY <1>1, <1>3, PlacesOf DEF Clean, Reserved
<1>5. CASE Walking(w) /\ fs[NextDir(w)].is = "file"
  <2> DEFINE j == fs[NextDir(w)].of
  <2>1. NextDir(w) \in DirsAbove(Rel(i)) /\ NextDir(w) \in Places
    BY <1>2, <1>3, <1>5, Ahead
  <2>2. j \in Index /\ NextDir(w) = Planned(j)
    BY <1>1, <1>5, <2>1 DEF Files, AsPlanned
  <2>3. NextDir(w)[1] # <<Exceptions>>
    BY <1>4, <2>1, AboveBegins
  <2>4. ExceptionDest(j)[1] = <<Exceptions>>
    BY <1>1, <2>2, PlacesOf
  <2>5. NextDir(w) = Rel(j)
    BY <2>2, <2>3, <2>4 DEF Planned
  <2>6. QED BY <1>3, <2>1, <2>2, <2>5 DEF IsExiled
<1>6. CASE fs[job[w].dest].is = "dir"
  <2>1. PICK j \in Index : Rel(i) \in DirsAbove(Planned(j))
    BY <1>1, <1>3, <1>4, <1>6 DEF AsPlanned
  <2>2. Rel(i) # << <<Exceptions>> >>
    BY <1>4
  <2>3. ~IsExiled(j)
    BY <1>1, <2>1, <2>2, PlacesOf DEF Planned
  <2>4. QED BY <1>3, <2>1, <2>3 DEF IsExiled, Planned
<1>7. QED BY <1>5, <1>6 DEF Collides

\* Falling back to _exceptions/.
LEMMA StepFallBack ==
  ASSUME DumpInv, NEW w \in Procs, FallBack(w),
         UNCHANGED <<entry, old, phase, exiled, todo, aborted>>
  PROVE  DumpInv'
<1>1. Types /\ Queues /\ Links
  BY DEF DumpInv
<1>2. job[w].stage \in {"walk", "rename"} /\ Collides(w) /\ ~job[w].fell
  BY DEF FallBack, Collides, Walking
<1>3. ~Clean
  BY <1>2, NoCollision
<1>4. Current(w) \in Index
  BY <1>2, Ahead
<1> DEFINE there == ExceptionDest(Current(w))
           j == [job[w] EXCEPT !.stage = "walk", !.depth = 0, !.fell = TRUE, !.dest = there]
<1>5. there \in Path
  BY <1>1, <1>4, PlacesOf
<1>6. job' = [job EXCEPT ![w] = j] /\ job[w] \in Jobs
  BY <1>1 DEF FallBack, Types
<1> HIDE DEF there
<1>7. /\ j \in Jobs /\ j.queue = job[w].queue /\ j.stage = "walk"
      /\ j.dest = there /\ j.to = job[w].to /\ j.fell
  BY <1>5, <1>6 DEF Jobs
<1> HIDE DEF j
<1>8. job' \in [Procs -> Jobs] /\ job'[w] = j /\ \A v \in Procs \ {w} : job'[v] = job[v]
  BY <1>1, <1>6, <1>7 DEF Types
<1>9. fs' = fs /\ fallback' = fallback /\ lost' = lost /\ fs' \in [Places -> Nodes]
  BY <1>1 DEF FallBack, Types
<1>10. IsRedirect(Current(w)) /\ Settled(entry[Current(w)].target) =>
          job'[w].to = Where(entry[Current(w)].target)
  BY <1>1, <1>2, <1>7, <1>8 DEF Links
<1>11. job'[w].dest = ExceptionDest(Current(w)) /\ job'[w].fell
  BY <1>7, <1>8 DEF there
<1>12. QED BY <1>2, <1>3, <1>7, <1>8, <1>9, <1>10, <1>11, Moves
\* A thread that is done with an entry does not wait for it any more, nor for
\* a place to write it.
LEMMA Proceeds ==
  ASSUME DumpInv, NEW w \in Procs, Proceed(w), job[w].stage # "idle",
         UNCHANGED <<entry, old, phase, todo>>
  PROVE  /\ job' \in [Procs -> Jobs]
         /\ Queues'
         /\ \A i \in Index : Waiting(i)' <=> Waiting(i) /\ i # Current(w)
         /\ \A v \in Procs : job'[v].stage \in {"walk", "rename"} =>
              job'[v] = job[v] /\ Current(v)' = Current(v)
<1>1. Types /\ Queues
  BY DEF DumpInv
<1>2. phase \in {"articles", "redirects"} /\ job[w].queue \in Seq(Index) /\ job[w].queue # << >>
  BY <1>1, AtEntry
<1> DEFINE q == job[w].queue
           t == Tail(q)
           label == IF Len(q) = 1 THEN "idle" ELSE "next"
           j == [Idle EXCEPT !.queue = t, !.stage = label]
<1>3. /\ t \in Seq(Index) /\ Len(t) = Len(q) - 1
      /\ Range(t) = Range(q) \ {Current(w)} /\ IsInjective(t) /\ Current(w) \in Range(q)
  BY <1>1, <1>2, TakeHead DEF Queues, Current
<1>4. t = << >> <=> label = "idle"
  <2>1. t = << >> <=> Len(t) = 0
    BY <1>3, EmptySeq
  <2>2. Len(q) \in Nat
    BY <1>2
  <2>3. QED BY <1>3, <2>1, <2>2
<1>5. job' = [job EXCEPT ![w] = j] /\ label \in {"idle", "next"}
  BY DEF Proceed
<1> HIDE DEF q, t, label
<1>6. << >> \in Path
  BY DEF Path
<1>7. j \in Jobs /\ j.queue = t /\ j.stage = label
  BY <1>3, <1>5, <1>6 DEF Jobs, Idle
<1> HIDE DEF j
<1>8. /\ job' \in [Procs -> Jobs] /\ \A v \in Procs \ {w} : job'[v] = job[v]
      /\ job'[w].queue = t /\ job'[w].stage = label
  BY <1>1, <1>5, <1>7 DEF Types
<1>9. Range(job'[w].queue) = Range(job[w].queue) \ {Current(w)}
  BY <1>3, <1>8 DEF q
<1>10. /\ Queues'
       /\ \A i \in Index : Waiting(i)' <=>
            IF i \in Range(job[w].queue) THEN i \in Range(job'[w].queue) ELSE Waiting(i)
  BY <1>1, <1>2, <1>3, <1>4, <1>8, <1>9, JobChanges
<1>11. \A i \in Index : i \in Range(job[w].queue) => Waiting(i)
  BY DEF Waiting, Queued
<1>12. Current(w) \in Range(job[w].queue)
  BY <1>3 DEF q
<1>13. \A i \in Index : Waiting(i)' <=> Waiting(i) /\ i # Current(w)
  BY <1>9, <1>10, <1>11, <1>12
<1>14. \A v \in Procs : job'[v].stage \in {"walk", "rename"} => job'[v] = job[v]
  BY <1>5, <1>8
<1>15. QED BY <1>8, <1>10, <1>13, <1>14 DEF Current

\* A failure is logged.
LEMMA StepLose ==
  ASSUME DumpInv, NEW w \in Procs, LogFailure(w), job[w].stage # "idle",
         UNCHANGED <<entry, old, phase, exiled, todo, aborted>>
  PROVE  DumpInv'
<1>1. Types /\ Queues /\ Writes /\ Table /\ Files /\ Accounted /\ AsPlanned /\ Links
  BY DEF DumpInv
<1>2. lost' = lost \cup {Current(w)} /\ Proceed(w) /\ UNCHANGED <<fs, fallback>>
  BY DEF LogFailure
<1>3. /\ job' \in [Procs -> Jobs]
      /\ Queues'
      /\ \A i \in Index : Waiting(i)' <=> Waiting(i) /\ i # Current(w)
      /\ \A v \in Procs : job'[v].stage \in {"walk", "rename"} =>
           job'[v] = job[v] /\ Current(v)' = Current(v)
  BY <1>2, Proceeds
<1>4. Types'
  BY <1>1, <1>2, <1>3 DEF Types
<1>5. /\ \A i : Rel(i)' = Rel(i) /\ ExceptionDest(i)' = ExceptionDest(i)
      /\ \A i : Dests(i)' = Dests(i) /\ Planned(i)' = Planned(i) /\ Where(i)' = Where(i)
      /\ \A i : (IsRedirect(i)' <=> IsRedirect(i)) /\ (IsExiled(i)' <=> IsExiled(i))
      /\ \A i : Settled(i)' <=> Settled(i)
      /\ (Distinct' <=> Distinct) /\ (Clean' <=> Clean)
  BY <1>2, Same, SameWhere
<1>6. Writes'
  BY <1>1, <1>3, <1>5 DEF Writes
<1>7. Table'
  BY <1>1, <1>2, <1>3, <1>5 DEF Table
<1>8. Files'
  BY <1>1, <1>2, <1>5 DEF Files
<1>9. Accounted'
  <2>1. \A i \in Index : Published(i)' <=> Published(i)
    BY <1>2, <1>5 DEF Published
  <2>2. QED BY <1>1, <1>2, <1>3, <1>5, <2>1 DEF Accounted
<1>10. AsPlanned'
  <2>1. Clean => \A v \in Procs : job'[v].stage \in {"walk", "rename"} /\ job'[v].fell =>
                   Current(v)' \in exiled
    BY <1>1, <1>3 DEF AsPlanned
  <2>2. QED BY <1>1, <1>2, <1>5, <2>1 DEF AsPlanned
<1>11. Links'
  BY <1>1, <1>2, <1>3, <1>5 DEF Links
<1>12. QED BY <1>3, <1>4, <1>6, <1>7, <1>8, <1>9, <1>10, <1>11 DEF DumpInv

\* The rename: the entry is there, and the table says where.
LEMMA StepPublish ==
  ASSUME DumpInv, NEW w \in Procs, Publish(w),
         UNCHANGED <<entry, old, phase, exiled, todo, aborted>>
  PROVE  DumpInv'
<1>1. Types /\ Queues /\ Writes /\ Table /\ Files /\ Accounted /\ AsPlanned /\ Links
  BY DEF DumpInv
<1>0. PICK i \in Index : i = Current(w)
  BY <1>1, AtEntry DEF Publish
<1> DEFINE d == job[w].dest
           fell == job[w].fell
           node == File(i, Ups(w), job[w].to)
<1>2. /\ job[w].stage = "rename" /\ Proceed(w) /\ lost' = lost
      /\ fs' = [fs EXCEPT ![d] = node]
      /\ fallback' = IF fell THEN Recorded(Rel(i), d) ELSE fallback
  BY <1>0 DEF Publish
<1>3. /\ job' \in [Procs -> Jobs]
      /\ Queues'
      /\ \A k \in Index : Waiting(k)' <=> Waiting(k) /\ k # i
      /\ \A v \in Procs : job'[v].stage \in {"walk", "rename"} =>
           job'[v] = job[v] /\ Current(v)' = Current(v)
  BY <1>0, <1>2, Proceeds
<1>4. /\ i \in Index /\ d \in Dests(i) /\ d \in Path /\ d \in Places
      /\ d = IF fell THEN ExceptionDest(i) ELSE Rel(i)
      /\ i \in exiled => fell
  BY <1>0, <1>1, <1>2, Ahead DEF Writes
<1>5. /\ Waiting(i) /\ phase \in {"articles", "redirects"}
      /\ IsRedirect(i) => phase = "redirects"
      /\ phase = "redirects" => IsRedirect(i)
  BY <1>0, <1>1, <1>2, AtEntry
<1>6. Len(d) \in Nat \ {0} /\ job[w].to \in Path
  <2>1. Len(d) \in Nat \ {0}
    BY <1>1, <1>4, PlacesOf
  <2>2. QED BY <1>1, <2>1 DEF Types, Jobs
<1>7. /\ node \in Nodes /\ node.is = "file" /\ node.of = i
      /\ node.ups = Len(d) - 1 /\ node.to = job[w].to
  BY <1>4, <1>6 DEF File, Ups, Nodes
<1> HIDE DEF node
<1>8. fs' \in [Places -> Nodes] /\ \A p \in Places : fs'[p] = IF p = d THEN node ELSE fs[p]
  BY <1>1, <1>2, <1>4, <1>7 DEF Types
<1>9. Types'
  BY <1>1, <1>3, <1>8 DEF Types
<1>10. /\ \A k : Rel(k)' = Rel(k) /\ ExceptionDest(k)' = ExceptionDest(k)
       /\ \A k : Dests(k)' = Dests(k) /\ Planned(k)' = Planned(k)
       /\ \A k : (IsRedirect(k)' <=> IsRedirect(k)) /\ (IsExiled(k)' <=> IsExiled(k))
       /\ \A k : Settled(k)' <=> Settled(k)
       /\ (Distinct' <=> Distinct) /\ (Clean' <=> Clean)
  BY Same
<1>11. /\ DOMAIN fallback' = DOMAIN fallback \cup (IF fell THEN {Rel(i)} ELSE {})
       /\ \A r \in DOMAIN fallback' :
            fallback'[r] = IF fell /\ r = Rel(i) THEN ExceptionDest(i) ELSE fallback[r]
  BY <1>2, <1>4 DEF Recorded
<1>12. \A k \in Index : Rel(k) \in DOMAIN fallback' => fallback'[Rel(k)] = ExceptionDest(k)
  BY <1>1, <1>4, <1>11, SameDest DEF Table
<1>13. \A k \in Index : Where(k)' = IF Rel(k) \in DOMAIN fallback' THEN ExceptionDest(k) ELSE Rel(k)
  BY <1>10, <1>12 DEF Where, Found
<1>14. \A k \in Index : /\ Where(k) = IF Rel(k) \in DOMAIN fallback THEN ExceptionDest(k) ELSE Rel(k)
                        /\ Where(k) \in Dests(k) /\ Where(k) \in Places
  BY <1>1, WhereIs
<1>15. Distinct => \A k \in Index : k # i => Rel(k) # Rel(i) /\ Where(k)' = Where(k) /\ Where(k) # d
  BY <1>1, <1>4, <1>11, <1>13, <1>14, Apart
<1>16. Distinct => Where(i)' = d
  <2>1. Distinct /\ ~fell => Rel(i) \notin DOMAIN fallback
    BY <1>1, <1>4, <1>5 DEF Table
  <2>2. QED BY <1>4, <1>11, <1>13, <2>1
<1>17. Writes'
  BY <1>1, <1>3, <1>10 DEF Writes
<1>18. Table'
  <2>1. Distinct => \A k \in Index : Rel(k) \in DOMAIN fallback' => k \in exiled \/ ~Waiting(k)'
    BY <1>1, <1>3, <1>11, <1>15 DEF Table
  <2>2. phase' # "plan"
    BY <1>5
  <2>3. QED BY <1>1, <1>10, <1>12, <2>1, <2>2 DEF Table
<1>19. Files'
  BY <1>1, <1>4, <1>5, <1>7, <1>8, <1>10 DEF Files
<1>20. Accounted'
  <2>1. Distinct => Published(i)'
    BY <1>4, <1>7, <1>8, <1>16 DEF Published
  <2>2. Distinct => \A k \in Index : k # i /\ Published(k) => Published(k)'
    BY <1>8, <1>14, <1>15 DEF Published
  <2>3. QED BY <1>1, <1>2, <1>3, <1>10, <2>1, <2>2 DEF Accounted
<1>21. Clean => d = Planned(i) /\ (fell <=> i \in exiled)
  BY <1>0, <1>2, DestIsPlanned
<1>22. AsPlanned'
  <2>1. Clean => \A p \in Places : fs'[p].is = "file" => p = Planned(fs'[p].of)
    BY <1>1, <1>7, <1>8, <1>21 DEF AsPlanned
  <2>2. Clean => \A p \in Places : fs'[p].is = "dir" => \E k \in Index : p \in DirsAbove(Planned(k))
    BY <1>1, <1>7, <1>8 DEF AsPlanned
  <2>3. Clean => \A v \in Procs : job'[v].stage \in {"walk", "rename"} /\ job'[v].fell =>
                   Current(v)' \in exiled
    BY <1>1, <1>3 DEF AsPlanned
  <2>4. Clean => \A k \in Index : Rel(k) \in DOMAIN fallback' => k \in exiled
    BY <1>1, <1>11, <1>15, <1>21 DEF AsPlanned, Clean
  <2>5. Clean => \A k \in exiled : IsRedirect(k) => Rel(k) \in DOMAIN fallback'
    BY <1>1, <1>5, <1>11 DEF AsPlanned
  <2>6. QED BY <1>10, <2>1, <2>2, <2>3, <2>4, <2>5 DEF AsPlanned
<1>23. ASSUME NEW k \in Index, Settled(k), phase = "redirects" PROVE Where(k)' = Where(k)
  <2>1. CASE k # i
    BY <1>15, <1>23, <2>1 DEF Settled
  <2>2. CASE k = i /\ fell
    <3>1. Clean
      BY <1>5, <1>23, <2>2 DEF Settled
    <3>2. Rel(i) \in DOMAIN fallback
      BY <1>1, <1>5, <1>21, <1>23, <2>2, <3>1 DEF AsPlanned
    <3>3. QED BY <1>4, <1>11, <1>13, <1>14, <2>2, <3>2
  <2>3. CASE k = i /\ ~fell
    BY <1>11, <1>13, <1>14, <2>3
  <2>4. QED BY <2>1, <2>2, <2>3
<1>24. Links'
  <2>1. ASSUME NEW v \in Procs, job'[v].stage \in {"walk", "rename"},
               NEW c, c = Current(v)', NEW end, end = entry[c].target,
               IsRedirect(c), Settled(end)
        PROVE  job'[v].to = Where(end)'
    <3>1. job'[v] = job[v] /\ c = Current(v)
      BY <1>3, <2>1
    <3>2. job[v].to = Where(end)
      BY <1>1, <2>1, <3>1 DEF Links
    <3>3. phase = "redirects" /\ c \in Index
      BY <1>1, <2>1, <3>1, AtEntry
    <3>4. end \in Index
      BY <1>1, <2>1, <3>3, PlacesOf
    <3>5. QED BY <1>23, <2>1, <3>1, <3>2, <3>3, <3>4
  <2>2. ASSUME NEW p \in Places, fs'[p].is = "file",
               NEW c, c = fs'[p].of, NEW end, end = entry[c].target,
               IsRedirect(c), Settled(end)
        PROVE  fs'[p].to = Where(end)'
    <3>1. CASE p = d
      <4>1. c = i /\ fs'[p].to = job[w].to
        BY <1>7, <1>8, <2>2, <3>1
      <4>2. job[w].to = Where(end)
        BY <1>0, <1>1, <1>2, <2>2, <4>1 DEF Links
      <4>3. end \in Index
        BY <1>1, <1>4, <2>2, <4>1, PlacesOf
      <4>4. QED BY <1>5, <1>23, <2>2, <4>1, <4>2, <4>3
    <3>2. CASE p # d
      <4>1. fs'[p] = fs[p]
        BY <1>8, <3>2
      <4>2. fs[p].to = Where(end) /\ c \in Index /\ phase = "redirects"
        BY <1>1, <1>5, <2>2, <4>1 DEF Links, Files
      <4>3. end \in Index
        BY <1>1, <2>2, <4>2, PlacesOf
      <4>4. QED BY <1>23, <2>2, <4>1, <4>2, <4>3
    <3>3. QED BY <3>1, <3>2
  <2>3. entry' = entry
    OBVIOUS
  <2>4. QED BY <1>10, <2>1, <2>2, <2>3 DEF Links
<1>25. QED BY <1>3, <1>9, <1>17, <1>18, <1>19, <1>20, <1>22, <1>24 DEF DumpInv
----------------------------------------------------------------------------
(* The passes *)

\* Work is handed out, given up or ended, and nothing is written.
LEMMA Turns ==
  ASSUME DumpInv, UNCHANGED <<entry, old, exiled, fs, fallback, lost>>,
         phase \in {"articles", "redirects"},
         phase' \in {"articles", "redirects", "done", "failed"},
         phase' = "articles" => phase = "articles",
         phase' \in {"redirects", "done"} => ~aborted',
         todo' \in SUBSET todo, aborted' \in BOOLEAN, ~aborted' => ~aborted,
         job' \in [Procs -> Jobs],
         \A v \in Procs : job'[v].stage \in {"walk", "rename"} => job'[v] = job[v],
         Queues',
         \A i \in Index : Waiting(i)' => Waiting(i),
         ~aborted' /\ phase' # "failed" => \A i \in Index : Waiting(i) => Waiting(i)'
  PROVE  DumpInv'
<1>1. Types /\ Queues /\ Writes /\ Table /\ Files /\ Accounted /\ AsPlanned /\ Links
  BY DEF DumpInv
<1>2. Types'
  BY <1>1 DEF Types
<1>3. \A v \in Procs : job'[v].stage \in {"walk", "rename"} => Current(v)' = Current(v)
  BY DEF Current
<1>4. /\ \A i : Rel(i)' = Rel(i) /\ ExceptionDest(i)' = ExceptionDest(i)
      /\ \A i : Dests(i)' = Dests(i) /\ Planned(i)' = Planned(i) /\ Where(i)' = Where(i)
      /\ \A i : (IsRedirect(i)' <=> IsRedirect(i)) /\ (IsExiled(i)' <=> IsExiled(i))
      /\ \A i : Settled(i)' <=> Settled(i)
      /\ (Distinct' <=> Distinct) /\ (Clean' <=> Clean)
  BY Same, SameWhere
<1>5. Writes'
  BY <1>1, <1>3, <1>4 DEF Writes
<1>6. Table'
  BY <1>1, <1>4 DEF Table
<1>7. Files'
  BY <1>1, <1>4 DEF Files
<1>8. Accounted'
  <2>1. \A i \in Index : Published(i)' <=> Published(i)
    BY <1>4 DEF Published
  <2>2. QED BY <1>1, <1>4, <2>1 DEF Accounted
<1>9. AsPlanned'
  <2>1. Clean => \A v \in Procs : job'[v].stage \in {"walk", "rename"} /\ job'[v].fell =>
                   Current(v)' \in exiled
    BY <1>1, <1>3 DEF AsPlanned
  <2>2. QED BY <1>1, <1>4, <2>1 DEF AsPlanned
<1>10. Links'
  BY <1>1, <1>3, <1>4 DEF Links
<1>11. QED BY <1>2, <1>5, <1>6, <1>7, <1>8, <1>9, <1>10 DEF DumpInv

\* Nobody has anything in its queue.
LEMMA IdleWaits ==
  ASSUME Queues, AllIdle
  PROVE  /\ \A w \in Procs : job[w].queue = << >>
         /\ \A i \in Index : ~Queued(i)
<1>1. \A w \in Procs : job[w].queue = << >>
  BY DEF Queues, AllIdle
<1>2. QED BY <1>1, EmptyChannel DEF Queued

\* What a group holds.
LEMMA GroupIs ==
  ASSUME NEW c
  PROVE  /\ Group(c) \in Seq(Index) /\ IsInjective(Group(c))
         /\ Range(Group(c)) = {i \in Index : entry[i].cluster = c}
<1> DEFINE S == {i \in Index : entry[i].cluster = c}
<1>1. S \in SUBSET (1 .. N) /\ N \in Nat
  BY SizeAssumption DEF Index
<1>2. Group(c) = Ascending(S)
  BY DEF Group
<1> HIDE DEF S
<1>3. Group(c) \in Seq(S) /\ IsInjective(Group(c)) /\ Range(Group(c)) = S
  BY <1>1, <1>2, Listed
<1>4. S \subseteq Index
  BY DEF S
<1>5. Group(c) \in Seq(Index)
  BY <1>3, <1>4
<1>6. QED BY <1>3, <1>5 DEF S

\* A group that is handed to a thread.
LEMMA Handed ==
  ASSUME DumpInv, NEW w \in Procs, NEW c, job[w].stage = "idle", Group(c) # << >>,
         job' = [job EXCEPT ![w] = [Idle EXCEPT !.queue = Group(c), !.stage = "next"]]
  PROVE  /\ job' \in [Procs -> Jobs]
         /\ \A v \in Procs : job'[v].stage \in {"walk", "rename"} => job'[v] = job[v]
         /\ job'[w].queue = Group(c) /\ job'[w].stage = "next"
         /\ \A v \in Procs \ {w} : job'[v] = job[v]
         /\ \A i \in Index : Queued(i)' <=> Queued(i) \/ entry[i].cluster = c
<1>1. Types /\ Queues
  BY DEF DumpInv
<1> DEFINE g == Group(c)
           j == [Idle EXCEPT !.queue = g, !.stage = "next"]
<1>2. g \in Seq(Index) /\ Range(g) = {i \in Index : entry[i].cluster = c}
  BY GroupIs
<1> HIDE DEF g
<1>3. << >> \in Path
  BY DEF Path
<1>4. j \in Jobs /\ j.queue = g /\ j.stage = "next"
  BY <1>2, <1>3 DEF Jobs, Idle
<1>5. job' = [job EXCEPT ![w] = j]
  BY DEF g
<1> HIDE DEF j
<1>6. /\ job' \in [Procs -> Jobs] /\ job'[w] = j /\ \A v \in Procs \ {w} : job'[v] = job[v]
  BY <1>1, <1>4, <1>5 DEF Types
<1>7. job[w].queue = << >> /\ Range(<< >>) = {}
  BY <1>1, EmptyChannel DEF Queues
<1>8. \A i \in Index : Queued(i)' <=> Queued(i) \/ entry[i].cluster = c
  BY <1>2, <1>4, <1>6, <1>7 DEF Queued
<1>9. QED BY <1>4, <1>6, <1>8 DEF g

\* A thread takes a cluster.
LEMMA StepTake ==
  ASSUME DumpInv, NEW w \in Workers, NEW c \in Clusters, Take(w, c)
  PROVE  DumpInv'
<1>1. Types /\ Queues
  BY DEF DumpInv
<1>2. /\ w \in Procs /\ phase = "articles" /\ job[w].stage = "idle" /\ c \in todo
      /\ todo' = todo \ {c}
      /\ job' = [job EXCEPT ![w] = [Idle EXCEPT !.queue = Group(c), !.stage = "next"]]
      /\ UNCHANGED <<entry, old, phase, exiled, aborted, fs, fallback, lost>>
  BY DEF Take, Procs
<1>3. c # 0 /\ \E i \in Index : entry[i].cluster = c
  BY <1>1, <1>2 DEF Types
<1>4. Group(c) # << >>
  BY <1>3, GroupIs, EmptyChannel
<1>5. /\ job' \in [Procs -> Jobs]
      /\ \A v \in Procs : job'[v].stage \in {"walk", "rename"} => job'[v] = job[v]
      /\ job'[w].queue = Group(c) /\ job'[w].stage = "next"
      /\ \A v \in Procs \ {w} : job'[v] = job[v]
      /\ \A i \in Index : Queued(i)' <=> Queued(i) \/ entry[i].cluster = c
  BY <1>2, <1>4, Handed
<1>6. \A i \in Index : IsRedirect(i)' <=> IsRedirect(i)
  BY <1>2, Same
<1>7. \A i \in Index : entry[i].cluster = c => ~IsRedirect(i) /\ ~Queued(i)
  BY <1>1, <1>2, <1>3 DEF Queues, IsRedirect
<1>8. Queues'
  <2>1. IsInjective(Group(c)) /\ Range(Group(c)) = {i \in Index : entry[i].cluster = c}
    BY GroupIs
  <2>2. \A v \in Procs : IsInjective(job'[v].queue) /\
                         (job'[v].stage = "idle" <=> job'[v].queue = << >>)
    BY <1>1, <1>4, <1>5, <2>1 DEF Queues
  <2>3. \A v \in Procs \ {w} : Range(job[v].queue) \cap Range(Group(c)) = {}
    BY <1>7, <2>1 DEF Queued
  <2>4. \A u, v \in Procs : u # v => Range(job'[u].queue) \cap Range(job'[v].queue) = {}
    BY <1>1, <1>5, <2>3 DEF Queues
  <2>5. \A i \in Index : Queued(i)' => ~IsRedirect(i)' /\ entry'[i].cluster \notin todo'
    BY <1>1, <1>2, <1>5, <1>6, <1>7 DEF Queues
  <2>6. phase' = "articles"
    BY <1>2
  <2>7. QED BY <2>2, <2>4, <2>5, <2>6 DEF Queues
<1>9. \A i \in Index : Waiting(i)' <=> Waiting(i)
  BY <1>2, <1>5, <1>6 DEF Waiting
<1>10. todo' \in SUBSET todo /\ aborted' \in BOOLEAN
  BY <1>1, <1>2 DEF Types
<1>11. QED BY <1>2, <1>5, <1>8, <1>9, <1>10, Turns

\* A cluster cannot be read.
LEMMA StepClusterFails ==
  ASSUME DumpInv, NEW w \in Workers, NEW c \in Clusters, ClusterFails(w, c)
  PROVE  DumpInv'
<1>1. Types /\ Queues
  BY DEF DumpInv
<1>2. /\ phase = "articles" /\ todo' = todo \ {c} /\ aborted' = TRUE
      /\ UNCHANGED <<entry, old, phase, exiled, job, fs, fallback, lost>>
  BY DEF ClusterFails
<1>3. \A i \in Index : (IsRedirect(i)' <=> IsRedirect(i)) /\ (Queued(i)' <=> Queued(i))
  BY <1>2, Same DEF Queued
<1>4. Queues'
  <2>1. \A i \in Index : Queued(i)' => ~IsRedirect(i)' /\ entry'[i].cluster \notin todo'
    BY <1>1, <1>2, <1>3 DEF Queues
  <2>2. QED BY <1>1, <1>2, <2>1 DEF Queues
<1>5. \A i \in Index : Waiting(i)' => Waiting(i)
  BY <1>2, <1>3 DEF Waiting
<1>6. job' \in [Procs -> Jobs] /\ todo' \in SUBSET todo
  BY <1>1, <1>2 DEF Types
<1>7. QED BY <1>2, <1>4, <1>5, <1>6, Turns

\* A blob cannot be read: the rest of the group is given up.
LEMMA StepBlobFails ==
  ASSUME DumpInv, NEW w \in Workers, BlobFails(w)
  PROVE  DumpInv'
<1>1. Types /\ Queues
  BY DEF DumpInv
<1>2. /\ w \in Procs /\ phase = "articles" /\ job' = [job EXCEPT ![w] = Idle] /\ aborted' = TRUE
      /\ UNCHANGED <<entry, old, phase, exiled, todo, fs, fallback, lost>>
  BY DEF BlobFails, Procs
<1>3. << >> \in Path
  BY DEF Path
<1>4. Idle \in Jobs /\ Idle.queue = << >> /\ Idle.stage = "idle"
  BY <1>3 DEF Idle, Jobs
<1>5. job' \in [Procs -> Jobs] /\ job'[w] = Idle /\ \A v \in Procs \ {w} : job'[v] = job[v]
  BY <1>1, <1>2, <1>4 DEF Types
<1>6. Range(<< >>) = {} /\ IsInjective(<< >>)
  BY EmptyChannel
<1>7. /\ Queues'
      /\ \A i \in Index : Waiting(i)' <=>
           IF i \in Range(job[w].queue) THEN i \in Range(job'[w].queue) ELSE Waiting(i)
  BY <1>1, <1>2, <1>4, <1>5, <1>6, JobChanges
<1>8. \A i \in Index : Waiting(i)' => Waiting(i)
  BY <1>4, <1>5, <1>6, <1>7
<1>9. \A v \in Procs : job'[v].stage \in {"walk", "rename"} => job'[v] = job[v]
  BY <1>4, <1>5
<1>10. QED BY <1>2, <1>5, <1>7, <1>8, <1>9, Turns

\* The dump ends, with or without an error.
LEMMA StepEnds ==
  ASSUME DumpInv, Abort \/ Finish \/ LogFails
  PROVE  DumpInv'
<1>1. Types /\ Queues /\ Accounted
  BY DEF DumpInv
<1>2. /\ phase \in {"articles", "redirects"} /\ phase' \in {"done", "failed"} /\ AllIdle
      /\ phase' = "done" => phase = "redirects"
      /\ UNCHANGED <<entry, old, exiled, todo, aborted, job, fs, fallback, lost>>
  BY DEF Abort, Finish, LogFails
<1>3. \A i \in Index : ~Queued(i)
  BY <1>1, <1>2, IdleWaits
<1>4. \A i \in Index : ~Waiting(i)'
  BY <1>2, <1>3 DEF Waiting, Queued
<1>5. \A i \in Index : phase' = "done" => ~Waiting(i)
  BY <1>2, <1>3 DEF Waiting
<1>6. Queues'
  <2>1. AllIdle'
    BY <1>2 DEF AllIdle
  <2>2. QED BY <1>1, <1>2, <2>1 DEF Queues
<1>7. phase' = "done" => ~aborted'
  BY <1>1, <1>2 DEF Accounted
<1>8. job' \in [Procs -> Jobs] /\ aborted' \in BOOLEAN
  BY <1>1, <1>2 DEF Types
<1>9. QED BY <1>2, <1>4, <1>5, <1>6, <1>7, <1>8, Turns

\* The redirects go to one thread.
LEMMA StepRedirects ==
  ASSUME DumpInv, StartRedirects
  PROVE  DumpInv'
<1>1. Types /\ Queues
  BY DEF DumpInv
<1>2. /\ phase = "articles" /\ phase' = "redirects" /\ ~aborted /\ todo = {} /\ AllIdle
      /\ job' = IF Group(0) = << >> THEN job
                ELSE [job EXCEPT ![Main] = [Idle EXCEPT !.queue = Group(0), !.stage = "next"]]
      /\ UNCHANGED <<entry, old, exiled, todo, aborted, fs, fallback, lost>>
  BY DEF StartRedirects
<1>3. Main \in Procs /\ job[Main].stage = "idle"
  BY <1>2 DEF Procs, AllIdle
<1>4. (\A w \in Procs : job[w].queue = << >>) /\ \A i \in Index : ~Queued(i)
  BY <1>1, <1>2, IdleWaits
<1>5. \A i \in Index : IsRedirect(i) <=> entry[i].cluster = 0
  BY DEF IsRedirect
<1>6. \A i \in Index : IsRedirect(i)' <=> IsRedirect(i)
  BY <1>2, Same
<1>7. IsInjective(Group(0)) /\ Range(Group(0)) = {i \in Index : entry[i].cluster = 0}
  BY GroupIs
<1>8. Range(<< >>) = {} /\ IsInjective(<< >>)
  BY EmptyChannel
<1>9. /\ job' \in [Procs -> Jobs]
      /\ \A v \in Procs : job'[v].stage \in {"walk", "rename"} => job'[v] = job[v]
      /\ \A v \in Procs \ {Main} : job'[v] = job[v]
      /\ job'[Main].queue = Group(0)
      /\ job'[Main].stage = "idle" <=> Group(0) = << >>
      /\ \A i \in Index : Queued(i)' <=> IsRedirect(i)
  <2>1. CASE Group(0) = << >>
    <3>1. job' = job
      BY <1>2, <2>1
    <3>2. \A i \in Index : ~IsRedirect(i)
      BY <1>5, <1>7, <1>8, <2>1
    <3>3. \A i \in Index : ~Queued(i)'
      BY <1>4, <3>1 DEF Queued
    <3>4. QED BY <1>1, <1>3, <1>4, <2>1, <3>1, <3>2, <3>3 DEF Types
  <2>2. CASE Group(0) # << >>
    <3>1. job' = [job EXCEPT ![Main] = [Idle EXCEPT !.queue = Group(0), !.stage = "next"]]
      BY <1>2, <2>2
    <3>2. /\ job' \in [Procs -> Jobs]
          /\ \A v \in Procs : job'[v].stage \in {"walk", "rename"} => job'[v] = job[v]
          /\ job'[Main].queue = Group(0) /\ job'[Main].stage = "next"
          /\ \A v \in Procs \ {Main} : job'[v] = job[v]
          /\ \A i \in Index : Queued(i)' <=> Queued(i) \/ entry[i].cluster = 0
      BY <1>3, <2>2, <3>1, Handed
    <3>3. QED BY <1>4, <1>5, <2>2, <3>2
  <2>3. QED BY <2>1, <2>2
<1>10. Queues'
  <2>1. \A v \in Procs : IsInjective(job'[v].queue) /\
                         (job'[v].stage = "idle" <=> job'[v].queue = << >>)
    BY <1>1, <1>7, <1>9 DEF Queues
  <2>2. \A u, v \in Procs : u # v => Range(job'[u].queue) \cap Range(job'[v].queue) = {}
    BY <1>4, <1>8, <1>9
  <2>3. todo' = {} /\ \A i \in Index : Queued(i)' => IsRedirect(i)'
    BY <1>2, <1>6, <1>9
  <2>4. QED BY <1>2, <2>1, <2>2, <2>3 DEF Queues
<1>11. \A i \in Index : Waiting(i)' <=> Waiting(i)
  BY <1>2, <1>4, <1>6, <1>9 DEF Waiting
<1>12. aborted' \in BOOLEAN /\ ~aborted' /\ todo' \in SUBSET todo
  BY <1>1, <1>2 DEF Types
<1>13. QED BY <1>2, <1>9, <1>10, <1>11, <1>12, Turns
\* The plan is made from the dirents.
LEMMA StepPlan ==
  ASSUME DumpInv, Plan
  PROVE  DumpInv'
<1>1. Types /\ Queues /\ Writes /\ Table /\ Files /\ Accounted /\ AsPlanned /\ Links
  BY DEF DumpInv
<1>2. /\ phase = "plan" /\ phase' = "articles" /\ exiled' = {i \in Index : IsExiled(i)}
      /\ todo' = {entry[i].cluster : i \in Index} \ {0}
      /\ UNCHANGED <<entry, old, aborted, job, fs, lost>>
  BY DEF Plan
<1>3. DOMAIN fallback' = {Rel(i) : i \in {j \in exiled' : IsRedirect(j)}}
  BY DEF Plan
<1>4. \A r \in DOMAIN fallback' : fallback'[r] = ExceptionDest(CHOOSE i \in Index : Rel(i) = r)
  BY DEF Plan
<1>5. AllIdle /\ (\A i \in Index : ~Queued(i)) /\ \A i \in Index : ~Queued(i)'
  BY <1>1, <1>2, IdleWaits DEF Queues, Queued
<1>6. \A v \in Procs : job'[v].stage = "idle"
  BY <1>2, <1>5 DEF AllIdle
<1>7. /\ \A i : Rel(i)' = Rel(i) /\ ExceptionDest(i)' = ExceptionDest(i)
      /\ \A i : Dests(i)' = Dests(i) /\ Planned(i)' = Planned(i)
      /\ \A i : (IsRedirect(i)' <=> IsRedirect(i)) /\ (IsExiled(i)' <=> IsExiled(i))
      /\ (Distinct' <=> Distinct) /\ (Clean' <=> Clean)
  BY <1>2, Same
<1>8. Types'
  BY <1>1, <1>2 DEF Types
<1>9. Queues'
  BY <1>1, <1>2, <1>5 DEF Queues
<1>10. Writes'
  BY <1>6 DEF Writes
<1>11. ASSUME NEW i \in Index, Rel(i) \in DOMAIN fallback'
       PROVE  fallback'[Rel(i)] = ExceptionDest(i)
  <2>1. (CHOOSE j \in Index : Rel(j) = Rel(i)) \in Index
        /\ Rel(CHOOSE j \in Index : Rel(j) = Rel(i)) = Rel(i)
    OBVIOUS
  <2>2. QED BY <1>1, <1>4, <1>11, <2>1, SameDest
<1>12. Clean \/ Distinct => \A i \in Index : Rel(i) \in DOMAIN fallback' => i \in exiled'
  BY <1>2, <1>3 DEF Distinct, Clean
<1>13. Table'
  BY <1>2, <1>7, <1>11, <1>12 DEF Table
<1>14. Files'
  BY <1>1, <1>2, <1>7 DEF Files
<1>15. Accounted'
  <2>1. \A i \in Index : Waiting(i)'
    BY <1>2 DEF Waiting, IsRedirect
  <2>2. QED BY <1>1, <1>2, <2>1 DEF Accounted
<1>16. AsPlanned'
  <2>1. \A i \in exiled' : IsRedirect(i) => Rel(i) \in DOMAIN fallback'
    BY <1>3
  <2>2. QED BY <1>1, <1>2, <1>6, <1>7, <1>12, <2>1 DEF AsPlanned
<1>17. Links'
  BY <1>1, <1>2, <1>6, <1>7 DEF Links, Files
<1>18. QED BY <1>8, <1>9, <1>10, <1>13, <1>14, <1>15, <1>16, <1>17 DEF DumpInv

\* A dirent cannot be read.
LEMMA StepPlanFails ==
  ASSUME DumpInv, PlanFails
  PROVE  DumpInv'
<1>1. Types /\ Queues /\ Writes /\ Table /\ Files /\ Accounted /\ AsPlanned /\ Links
  BY DEF DumpInv
<1>2. /\ phase = "plan" /\ phase' = "failed"
      /\ UNCHANGED <<entry, old, exiled, todo, aborted, job, fs, fallback, lost>>
  BY DEF PlanFails
<1>3. AllIdle /\ AllIdle'
  BY <1>1, <1>2 DEF Queues, AllIdle
<1>4. \A v \in Procs : job'[v].stage = "idle"
  BY <1>3 DEF AllIdle
<1>5. /\ \A i : Rel(i)' = Rel(i) /\ ExceptionDest(i)' = ExceptionDest(i)
      /\ \A i : Dests(i)' = Dests(i) /\ Planned(i)' = Planned(i) /\ Where(i)' = Where(i)
      /\ \A i : (IsRedirect(i)' <=> IsRedirect(i)) /\ (IsExiled(i)' <=> IsExiled(i))
      /\ \A i : Settled(i)' <=> Settled(i)
      /\ (Distinct' <=> Distinct) /\ (Clean' <=> Clean)
  BY <1>2, Same, SameWhere
<1>6. Types' /\ Queues' /\ Writes'
  BY <1>1, <1>2, <1>3, <1>4 DEF Types, Queues, Writes
<1>7. Table'
  BY <1>1, <1>2, <1>5 DEF Table
<1>8. Files' /\ Accounted'
  BY <1>1, <1>2, <1>5 DEF Files, Accounted
<1>9. AsPlanned'
  BY <1>1, <1>2, <1>4, <1>5 DEF AsPlanned, Table
<1>10. Links'
  BY <1>1, <1>2, <1>4, <1>5 DEF Links
<1>11. QED BY <1>6, <1>7, <1>8, <1>9, <1>10 DEF DumpInv

\* Before anything is written.
LEMMA DumpStarts == Init => DumpInv
<1> SUFFICES ASSUME Init PROVE DumpInv
  OBVIOUS
<1>1. /\ entry \in Entries /\ phase = "plan" /\ exiled = {} /\ todo = {} /\ aborted = FALSE
      /\ job = [w \in Procs |-> Idle] /\ fs = [p \in Places |-> IF p \in old THEN Dir ELSE None]
      /\ fallback = << >>
  BY DEF Init
<1>2. << >> \in Path /\ << >> \in Seq(Index)
  BY DEF Path
<1>3. Idle \in Jobs /\ Idle.queue = << >> /\ Idle.stage = "idle"
  BY <1>2 DEF Idle, Jobs
<1>4. None \in Nodes /\ Dir \in Nodes /\ None.is = "none" /\ Dir.is = "dir"
  BY <1>2 DEF None, Dir, Nodes
<1>5. Types
  BY <1>1, <1>3, <1>4 DEF Types
<1>6. \A w \in Procs : job[w] = Idle
  BY <1>1
<1>7. Queues
  BY <1>1, <1>3, <1>6, EmptyChannel DEF Queues, AllIdle
<1>8. Writes /\ \A i \in Index : Waiting(i)
  BY <1>1, <1>3, <1>6 DEF Writes, Waiting
<1>9. DOMAIN fallback = {}
  BY <1>1
<1>10. Table
  BY <1>1, <1>9 DEF Table
<1>11. \A p \in Places : fs[p].is # "file" /\ (fs[p].is = "dir" => p \in old)
  BY <1>1, <1>4
<1>12. Files /\ Accounted
  BY <1>1, <1>8, <1>11 DEF Files, Accounted
<1>13. AsPlanned
  BY <1>1, <1>3, <1>6, <1>9, <1>11 DEF AsPlanned, Clean
<1>14. Links
  BY <1>3, <1>6, <1>11 DEF Links
<1>15. QED BY <1>5, <1>7, <1>8, <1>10, <1>12, <1>13, <1>14 DEF DumpInv

\* Nothing happens.
LEMMA StepNothing ==
  ASSUME DumpInv, UNCHANGED vars
  PROVE  DumpInv'
<1>1. UNCHANGED <<entry, old, phase, exiled, todo, aborted, job, fs, fallback, lost>>
  BY DEF vars
<1>2. /\ \A i : Rel(i)' = Rel(i) /\ ExceptionDest(i)' = ExceptionDest(i)
      /\ \A i : Dests(i)' = Dests(i) /\ Planned(i)' = Planned(i) /\ Where(i)' = Where(i)
      /\ \A i : (IsRedirect(i)' <=> IsRedirect(i)) /\ (IsExiled(i)' <=> IsExiled(i))
      /\ \A i : Settled(i)' <=> Settled(i)
      /\ (Distinct' <=> Distinct) /\ (Clean' <=> Clean)
  BY <1>1, Same, SameWhere
<1>3. /\ \A i : (Queued(i)' <=> Queued(i)) /\ (Waiting(i)' <=> Waiting(i))
      /\ \A w : Current(w)' = Current(w)
      /\ AllIdle' <=> AllIdle
  BY <1>1, <1>2 DEF Queued, Waiting, Current, AllIdle
<1>4. \A i : Published(i)' <=> Published(i)
  BY <1>1, <1>2 DEF Published
<1>5. Types' /\ Queues' /\ Writes'
  BY <1>1, <1>2, <1>3 DEF DumpInv, Types, Queues, Writes
<1>6. Table' /\ Files'
  BY <1>1, <1>2, <1>3 DEF DumpInv, Table, Files
<1>7. Accounted' /\ AsPlanned'
  BY <1>1, <1>2, <1>3, <1>4 DEF DumpInv, Accounted, AsPlanned
<1>8. Links'
  BY <1>1, <1>2, <1>3 DEF DumpInv, Links
<1>9. QED BY <1>5, <1>6, <1>7, <1>8 DEF DumpInv

----------------------------------------------------------------------------
(* The results *)

\* The invariant is one of every dump: of any archive, into any directory, by
\* any number of threads (cmd_dump, src/bin/zimdump.rs:478).
THEOREM DumpInvariance == Spec => []DumpInv
<1>1. Init => DumpInv
  BY DumpStarts
<1>2. DumpInv /\ [Next]_vars => DumpInv'
  <2> SUFFICES ASSUME DumpInv, [Next]_vars PROVE DumpInv'
    OBVIOUS
  <2>1. CASE Plan
    BY <2>1, StepPlan
  <2>2. CASE PlanFails
    BY <2>2, StepPlanFails
  <2>3. ASSUME NEW w \in Workers, NEW c \in Clusters, Take(w, c) PROVE DumpInv'
    BY <2>3, StepTake
  <2>4. ASSUME NEW w \in Workers, NEW c \in Clusters, ClusterFails(w, c) PROVE DumpInv'
    BY <2>4, StepClusterFails
  <2>5. ASSUME NEW w \in Workers, BlobFails(w) PROVE DumpInv'
    BY <2>5, StepBlobFails
  <2>6. ASSUME NEW w \in Procs, Attempt(w) PROVE DumpInv'
    <3>1. UNCHANGED <<entry, old, phase, exiled, todo, aborted>>
      BY <2>6 DEF Attempt
    <3>2. CASE Begin(w)
      BY <3>1, <3>2, StepBegin
    <3>3. CASE Descend(w)
      BY <3>1, <3>3, StepDescend
    <3>4. CASE Fill(w)
      BY <3>1, <3>4, StepFill
    <3>5. CASE Publish(w)
      BY <3>1, <3>5, StepPublish
    <3>6. CASE FallBack(w)
      BY <3>1, <3>6, StepFallBack
    <3>7. CASE GiveUp(w)
      <4>1. LogFailure(w) /\ job[w].stage # "idle"
        BY <3>7 DEF GiveUp, Collides, Walking
      <4>2. QED BY <3>1, <4>1, StepLose
    <3>8. CASE IoFails(w)
      <4>1. LogFailure(w) /\ job[w].stage # "idle"
        BY <3>8 DEF IoFails
      <4>2. QED BY <3>1, <4>1, StepLose
    <3>9. QED BY <2>6, <3>2, <3>3, <3>4, <3>5, <3>6, <3>7, <3>8 DEF Attempt
  <2>7. CASE Abort \/ Finish \/ LogFails
    BY <2>7, StepEnds
  <2>8. CASE StartRedirects
    BY <2>8, StepRedirects
  <2>9. CASE UNCHANGED vars
    BY <2>9, StepNothing
  <2>10. QED BY <2>1, <2>2, <2>3, <2>4, <2>5, <2>6, <2>7, <2>8, <2>9 DEF Next
<1>3. QED BY <1>1, <1>2, PTL DEF Spec

\* Nothing waits once the dump is done.
LEMMA DoneWaitsForNothing ==
  ASSUME DumpInv, phase = "done", NEW i \in Index
  PROVE  ~Waiting(i)
<1>1. Queues /\ AllIdle
  BY DEF DumpInv, Queues
<1>2. QED BY <1>1, IdleWaits DEF Waiting

\* Whatever the threads do to each other's directories, and whatever an earlier
\* dump left: an entry that was not reported as failed is in the dump, at the
\* place the fallback table says (write_with_fallback, src/bin/zimdump.rs:529).
THEOREM EverythingIsDumped == Spec => []AllDumped
<1>1. DumpInv => AllDumped
  BY DoneWaitsForNothing DEF DumpInv, Accounted, AllDumped, Published
<1>2. QED BY <1>1, DumpInvariance, PTL

\* The collision policy of src/bin/zimdump.rs:582 is followed: in a clean
\* directory where an entry ends up follows from the paths alone, in whatever
\* order the threads write.
THEOREM PlacesArePlanned == Spec => []ShallowStays
<1>1. ASSUME DumpInv, phase = "done", Distinct, Reserved, old = {}, NEW i \in Index \ lost
      PROVE  Where(i) = IF \E j \in Index : Rel(j) \in DirsAbove(Rel(i))
                        THEN ExceptionDest(i) ELSE Rel(i)
  <2>1. Types /\ Table /\ Files /\ Accounted /\ AsPlanned /\ Clean
    BY <1>1 DEF DumpInv, Clean
  <2>2. Published(i)
    BY <1>1, <2>1, DoneWaitsForNothing DEF Accounted
  <2>3. Where(i) \in Places
    BY <2>1, WhereIs
  <2>4. Where(i) = Planned(i)
    BY <2>1, <2>2, <2>3 DEF Published, AsPlanned
  <2>5. QED BY <2>4 DEF Planned, IsExiled
<1>2. DumpInv => ShallowStays
  BY <1>1 DEF ShallowStays
<1>3. QED BY <1>2, DumpInvariance, PTL

\* A link leads from where it was written to where its target was written,
\* though either may have been moved (relative_target, src/bin/zimdump.rs:883).
THEOREM LinksAreRight == Spec => []LinksLead
<1>1. ASSUME DumpInv, phase = "done", Distinct, NEW i \in Index \ lost, IsRedirect(i),
             (old = {} /\ Reserved) \/ ~IsRedirect(entry[i].target)
      PROVE  /\ SubSeq(Where(i), 1, Len(Where(i)) - 1 - fs[Where(i)].ups) \o fs[Where(i)].to
                  = Where(entry[i].target)
             /\ fs[Where(i)].ups <= Len(Where(i)) - 1
  <2> DEFINE p == Where(i)
             end == entry[i].target
  <2>1. Types /\ Table /\ Files /\ Accounted /\ Links
    BY <1>1 DEF DumpInv
  <2>2. fs[p].is = "file" /\ fs[p].of = i
    BY <1>1, <2>1, DoneWaitsForNothing DEF Accounted, Published
  <2>3. p \in Places /\ p \in Path /\ p \in Dests(i)
    BY <2>1, WhereIs
  <2>4. end \in Index
    BY <2>1, PlacesOf
  <2>5. Settled(end)
    BY <1>1 DEF Settled, Clean
  <2>6. fs[p].ups = Len(p) - 1 /\ fs[p].to = Where(end)
    BY <1>1, <2>1, <2>2, <2>3, <2>5 DEF Files, Links
  <2>7. Where(end) \in Path
    BY <2>1, <2>4, WhereIs
  <2>8. Len(p) \in Nat
    BY <2>3 DEF Path
  <2> HIDE DEF p, end
  <2>9. Len(p) - 1 - fs[p].ups = 0
    BY <2>6, <2>8
  <2>10. SubSeq(p, 1, 0) = << >> /\ << >> \o Where(end) = Where(end)
    <3>1. SubSeq(p, 1, 0) = << >>
      BY <2>3, SubSeqEmpty DEF Path
    <3>2. Where(end) \in Seq(Seq(Text))
      BY <2>7 DEF Path
    <3>3. << >> \o Where(end) = Where(end)
      BY <3>2, ConcatEmptySeq
    <3>4. QED BY <3>1, <3>3
  <2>11. SubSeq(p, 1, Len(p) - 1 - fs[p].ups) \o fs[p].to = Where(end)
    BY <2>6, <2>9, <2>10
  <2>12. fs[p].ups <= Len(p) - 1
    BY <2>6, <2>8
  <2>13. QED BY <2>11, <2>12 DEF p, end
<1>2. DumpInv => LinksLead
  BY <1>1 DEF LinksLead
<1>3. QED BY <1>2, DumpInvariance, PTL
=============================================================================
