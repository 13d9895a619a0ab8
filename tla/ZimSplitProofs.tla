--------------------------- MODULE ZimSplitProofs ---------------------------
(***************************************************************************)
(* For any archive, any number of invocations with one prefix and any other *)
(* programs: an invocation touches no file but its own, one that fails      *)
(* leaves nothing behind but what could not be removed, its plan is the      *)
(* best that is allowed, and the parts of one that succeeds are the archive. *)
(***************************************************************************)
EXTENDS ZimSplit, CommonLemmas

Owners == Splitters \cup {Foreign, "none"}

Files ==
    /\ offsets \in SUBSET (0 .. Total)
    /\ pc = [p \in Splitters |-> pc[p]]
    /\ ends \in [Splitters -> Seq(Nat)]
    /\ cursor \in [Splitters -> Nat]
    /\ made \in [Splitters -> Seq(Paths)]
    /\ files \in [Paths -> [owner : Owners, bytes : Seq(Nat)]]

\* What an invocation has noted for its cleanup is its own; what is its own,
\* is noted, finished or stuck; and it is noted in the order of the parts.
Notes(p) ==
    /\ Len(ends[p]) <= MaxParts
    /\ IsInjective(made[p])
    /\ pc[p] \in {"open", "plan", "look", "failed"} => made[p] = << >>
    /\ pc[p] \in {"create", "copy"} =>
         /\ Len(made[p]) <= Len(ends[p])
         /\ \A i \in 1 .. Len(made[p]) : made[p][i] = i
    /\ pc[p] = "copy" => made[p] # << >>
    /\ pc[p] \in {"create", "copy", "cleanup"} =>
         \A f \in Range(made[p]) : files[f].owner = p
    /\ pc[p] \notin {"done", "killed"} =>
         \A f \in Paths : files[f].owner = p => f \in stuck \cup Range(made[p])

SplitInv == Files /\ \A p \in Splitters : Notes(p)

\* Before the first step no invocation owns or has noted a file.
LEMMA SplitInit ==
  ASSUME Init
  PROVE  SplitInv
<1>1. Files
  BY DEF Init, Files, NoFile, Owners
<1>2. ASSUME NEW p \in Splitters PROVE Notes(p)
  <2>1. /\ pc[p] = "open" /\ made[p] = << >> /\ ends[p] = << >>
        /\ \A f \in Paths : files[f].owner = "none"
    BY <1>2 DEF Init, NoFile
  <2>2. Len(ends[p]) <= MaxParts
    BY <2>1, LengthAssumption
  <2>3. IsInjective(made[p])
    BY <2>1, EmptyChannel
  <2>4. QED BY <2>1, <2>2, <2>3, OwnersAssumption DEF Notes
<1>3. QED BY <1>1, <1>2 DEF SplitInv

----------------------------------------------------------------------------
(* The steps of one invocation, and the others *)

\* Nobody else's state, nor who owns what among the others.
Apart(q) ==
    /\ \A p \in Splitters \ {q} : pc'[p] = pc[p] /\ ends'[p] = ends[p] /\ made'[p] = made[p]
    /\ stuck \subseteq stuck'
    /\ \A f \in Paths :
         \/ files'[f] = files[f]
         \/ /\ files[f].owner \notin Splitters \ {q}
            /\ files'[f].owner \notin Splitters \ {q}

\* An invocation that does not take the step keeps its notes.
LEMMA Bystander ==
  ASSUME SplitInv, NEW q \in Splitters \cup {Foreign}, Apart(q), NEW p \in Splitters \ {q}
  PROVE  Notes(p)'
<1>1. /\ Notes(p) /\ pc'[p] = pc[p] /\ ends'[p] = ends[p] /\ made'[p] = made[p]
      /\ stuck \subseteq stuck'
  BY DEF SplitInv, Apart
<1>2. \A f \in Paths : files'[f].owner = p <=> files[f].owner = p
  BY DEF Apart
<1>3. \A f \in Range(made[p]) : f \in Paths
  <2>1. made[p] \in Seq(Paths)
    BY DEF SplitInv, Files
  <2>2. QED BY <2>1 DEF Range
<1>4. QED BY <1>1, <1>2, <1>3 DEF Notes

\* The plan and the look.
LEMMA StepPlan ==
  ASSUME SplitInv, NEW p \in Splitters, Plan(p) \/ Survey(p)
  PROVE  Files' /\ Notes(p)' /\ Apart(p) /\ UNCHANGED files
<1>0. Files /\ Notes(p)
  BY DEF SplitInv
<1>1. CASE Cut(p)
  <2>1. PICK end \in Ahead(p) :
          /\ ends' = [ends EXCEPT ![p] = Append(@, end)]
          /\ cursor' = [cursor EXCEPT ![p] = end]
    BY <1>1 DEF Cut
  <2>2. end \in Nat
    BY <1>0, LengthAssumption DEF Ahead, Boundaries, Files
  <2>3. /\ ends'[p] = Append(ends[p], end) /\ ends[p] \in Seq(Nat)
        /\ Len(ends[p]) < MaxParts /\ UNCHANGED <<pc, made, files, stuck, offsets>>
    BY <1>0, <1>1, <2>1 DEF Cut, Files
  <2>4. Len(ends'[p]) <= MaxParts
    BY <2>2, <2>3, LengthAssumption
  <2>5. Files'
    BY <1>0, <2>1, <2>2, <2>3 DEF Files
  <2>6. Notes(p)'
    BY <1>0, <2>3, <2>4 DEF Notes
  <2>7. Apart(p)
    BY <1>0, <2>1, <2>3 DEF Apart, Files
  <2>8. QED BY <2>3, <2>5, <2>6, <2>7
<1>2. CASE ~Cut(p)
  <2>1. /\ UNCHANGED <<offsets, ends, made, files, stuck>>
        /\ cursor' = cursor \/ cursor' = [cursor EXCEPT ![p] = 0]
        /\ \E next \in {"plan", "look", "create", "failed"} : pc' = [pc EXCEPT ![p] = next]
           \/ pc' = pc
        /\ pc[p] \in {"open", "plan", "look"}
    BY <1>2 DEF Plan, Survey, Open, OpenRefuses, TooMany, Indivisible, Planned, Refuse,
                Look, LookRefuses, Looked
  <2>2. pc' = [pc EXCEPT ![p] = pc'[p]] /\ pc'[p] \in {"open", "plan", "look", "create", "failed"}
    BY <1>0, <2>1 DEF Files
  <2>3. Files'
    <3>1. pc' = [q \in Splitters |-> pc'[q]]
      BY <1>0, <2>2 DEF Files
    <3>2. cursor' \in [Splitters -> Nat]
      <4>1. cursor \in [Splitters -> Nat]
        BY <1>0 DEF Files
      <4>2. CASE cursor' = cursor
        BY <4>1, <4>2
      <4>3. CASE cursor' = [cursor EXCEPT ![p] = 0]
        BY <4>1, <4>3
      <4>4. QED BY <2>1, <4>2, <4>3
    <3>3. QED BY <1>0, <2>1, <3>1, <3>2 DEF Files
  <2>4. made[p] = << >> /\ Range(made[p]) = {}
    BY <1>0, <2>1, EmptyChannel DEF Notes
  <2>5. Notes(p)'
    <3>1. ends[p] \in Seq(Nat) /\ Len(made[p]) = 0
      BY <1>0, <2>4 DEF Files
    <3>2. QED BY <1>0, <2>1, <2>2, <2>4, <3>1, LenProperties DEF Notes
  <2>6. Apart(p)
    BY <1>0, <2>1, <2>2 DEF Apart, Files
  <2>7. QED BY <2>1, <2>3, <2>5, <2>6
<1>3. QED BY <1>1, <1>2

\* Creating a file that nobody has.
LEMMA StepCreate ==
  ASSUME SplitInv, NEW p \in Splitters, Create(p)
  PROVE  /\ Files' /\ Notes(p)' /\ Apart(p)
         /\ \A f \in Paths : files'[f] = files[f] \/ files[f].owner = "none"
<1>0. Files /\ Notes(p)
  BY DEF SplitInv
<1> DEFINE f == Following(p)
<1>1. /\ made[p] \in Seq(Paths) /\ Len(made[p]) \in Nat
      /\ Len(made[p]) < Len(ends[p]) /\ Len(ends[p]) \in Nat /\ Len(ends[p]) <= MaxParts
      /\ f = Len(made[p]) + 1 /\ files[f] = NoFile
      /\ pc[p] = "create"
  BY <1>0 DEF Create, Files, Notes, Current, Following
<1>2. f \in Paths
  BY <1>1, LengthAssumption DEF Paths
<1>3. files[f].owner = "none"
  BY <1>1 DEF NoFile
<1>4. f \notin Range(made[p])
  BY <1>0, <1>1, <1>3, OwnersAssumption DEF Notes
<1>5. /\ files' = [files EXCEPT ![f] = Part(p, << >>)]
      /\ made' = [made EXCEPT ![p] = Append(@, f)]
      /\ pc' = [pc EXCEPT ![p] = "copy"]
      /\ UNCHANGED <<offsets, ends, cursor, stuck>>
  BY DEF Create, CreateWith
<1> HIDE DEF f
<1>6. /\ Append(made[p], f) \in Seq(Paths)
      /\ Len(Append(made[p], f)) = Len(made[p]) + 1
      /\ Range(Append(made[p], f)) = Range(made[p]) \cup {f}
      /\ IsInjective(Append(made[p], f))
  BY <1>0, <1>1, <1>2, <1>4, PutLast DEF Notes
<1>7. \A i \in 1 .. Len(made[p]) + 1 : Append(made[p], f)[i] = i
  BY <1>0, <1>1 DEF Notes
<1>8. /\ made'[p] = Append(made[p], f) /\ pc'[p] = "copy" /\ ends'[p] = ends[p]
      /\ files'[f].owner = p
      /\ \A g \in Paths \ {f} : files'[g] = files[g]
  BY <1>0, <1>2, <1>5 DEF Files, Part
<1>9. Files'
  <2>1. Part(p, << >>) \in [owner : Owners, bytes : Seq(Nat)]
    BY DEF Part, Owners
  <2>2. QED BY <1>0, <1>2, <1>5, <1>6, <2>1 DEF Files
<1>10. Notes(p)'
  <2>1. \A g \in Range(made[p]) : g \in Paths
    BY <1>1 DEF Range
  <2>2. Append(made[p], f) # << >>
    BY <1>1, <1>6
  <2>3. \A g \in Range(Append(made[p], f)) : files'[g].owner = p
    BY <1>0, <1>1, <1>4, <1>6, <1>8, <2>1 DEF Notes
  <2>4. \A g \in Paths : files'[g].owner = p => g \in stuck \cup Range(Append(made[p], f))
    BY <1>0, <1>1, <1>6, <1>8 DEF Notes
  <2>5. QED BY <1>1, <1>5, <1>6, <1>7, <1>8, <2>2, <2>3, <2>4 DEF Notes
<1>11. Apart(p)
  BY <1>0, <1>3, <1>5, <1>8, OwnersAssumption DEF Apart, Files
<1>12. QED BY <1>3, <1>8, <1>9, <1>10, <1>11

\* Copying into the last file that was created.
LEMMA StepCopy ==
  ASSUME SplitInv, NEW p \in Splitters, Copy(p)
  PROVE  /\ Files' /\ Notes(p)' /\ Apart(p) /\ cursor'[p] # cursor[p]
         /\ \A f \in Paths : files'[f] = files[f] \/ files[f].owner = p
<1>0. Files /\ Notes(p)
  BY DEF SplitInv
<1> DEFINE f == Current(p)
           bytes == files[f].bytes \o [i \in 1 .. Want(p) |-> cursor[p] + i - 1]
<1>1. /\ made[p] \in Seq(Paths) /\ Len(made[p]) \in Nat \ {0}
      /\ made[p][Len(made[p])] = Len(made[p]) /\ f = Len(made[p])
      /\ pc[p] = "copy"
  <2>1. made[p] \in Seq(Paths) /\ made[p] # << >> /\ pc[p] = "copy"
    BY <1>0 DEF Copy, Files, Notes
  <2>2. Len(made[p]) \in Nat \ {0}
    BY <2>1, EmptySeq, LenProperties
  <2>3. QED BY <1>0, <2>1, <2>2 DEF Notes, Current
<1>2. f \in Paths /\ f \in Range(made[p]) /\ files[f].owner = p
  BY <1>0, <1>1 DEF Notes, Range
<1>3. Want(p) \in Nat \ {0}
  <2>1. ends[p] \in Seq(Nat) /\ f \in 1 .. Len(ends[p])
    BY <1>0, <1>1 DEF Files, Notes
  <2>2. Remaining(p) \in Int /\ Remaining(p) > 0
    BY <1>0, <2>1 DEF Copy, Remaining, Files
  <2>3. QED BY <2>2, LengthAssumption DEF Want
<1>4. /\ files' = [files EXCEPT ![f].bytes = bytes]
      /\ cursor' = [cursor EXCEPT ![p] = @ + Want(p)]
      /\ UNCHANGED <<offsets, pc, ends, made, stuck>>
  BY DEF Copy
<1>5. bytes \in Seq(Nat)
  <2>1. files[f].bytes \in Seq(Nat) /\ cursor[p] \in Nat
    BY <1>0, <1>2 DEF Files
  <2>2. [i \in 1 .. Want(p) |-> cursor[p] + i - 1] \in Seq(Nat)
    <3>1. \A i \in 1 .. Want(p) : cursor[p] + i - 1 \in Nat
      BY <1>3, <2>1
    <3>2. QED BY <1>3, <3>1
  <2>3. QED BY <2>1, <2>2, ConcatProperties
<1> HIDE DEF f, bytes
<1>6. /\ files' \in [Paths -> [owner : Owners, bytes : Seq(Nat)]]
      /\ \A g \in Paths : files'[g].owner = files[g].owner
      /\ \A g \in Paths \ {f} : files'[g] = files[g]
  BY <1>0, <1>2, <1>4, <1>5 DEF Files
<1>7. cursor' \in [Splitters -> Nat] /\ cursor'[p] # cursor[p]
  BY <1>0, <1>3, <1>4 DEF Files
<1>8. Files'
  BY <1>0, <1>4, <1>6, <1>7 DEF Files
<1>9. \A g \in Range(made[p]) : g \in Paths
  BY <1>1 DEF Range
<1>10. Notes(p)'
  BY <1>0, <1>4, <1>6, <1>9 DEF Notes
<1>11. Apart(p)
  BY <1>2, <1>4, <1>6 DEF Apart
<1>12. QED BY <1>2, <1>6, <1>7, <1>8, <1>10, <1>11

\* The steps that leave all files alone.
LEMMA StepQuiet ==
  ASSUME SplitInv, NEW p \in Splitters,
         \/ CreateRefused(p) \/ PartDone(p) \/ Complete(p)
         \/ RemoveFails(p) \/ CleanedUp(p) \/ IoFails(p) \/ Killed(p)
  PROVE  Files' /\ Notes(p)' /\ Apart(p) /\ UNCHANGED files
<1>0. Files /\ Notes(p)
  BY DEF SplitInv
<1>1. CASE RemoveFails(p)
  <2>1. /\ made[p] \in Seq(Paths) /\ made[p] # << >> /\ IsInjective(made[p])
        /\ pc[p] = "cleanup"
        /\ stuck' = stuck \cup {Head(made[p])}
        /\ made' = [made EXCEPT ![p] = Tail(@)]
        /\ UNCHANGED <<offsets, pc, ends, cursor, files>>
    BY <1>0, <1>1 DEF RemoveFails, Files, Notes
  <2>2. /\ Tail(made[p]) \in Seq(Paths)
        /\ Range(Tail(made[p])) = Range(made[p]) \ {Head(made[p])}
        /\ IsInjective(Tail(made[p]))
    BY <2>1, TakeHead
  <2>3. made'[p] = Tail(made[p]) /\ made' \in [Splitters -> Seq(Paths)]
    BY <1>0, <2>1, <2>2 DEF Files
  <2>4. Files'
    BY <1>0, <2>1, <2>3 DEF Files
  <2>5. Notes(p)'
    BY <1>0, <2>1, <2>2, <2>3 DEF Notes
  <2>6. Apart(p)
    BY <1>0, <2>1 DEF Apart, Files
  <2>7. QED BY <2>1, <2>4, <2>5, <2>6
<1>2. CASE ~RemoveFails(p)
  <2>1. /\ UNCHANGED <<offsets, ends, made, cursor, files, stuck>>
        /\ \E next \in {"create", "cleanup", "failed", "done", "killed"} :
             pc' = [pc EXCEPT ![p] = next]
        /\ pc[p] \notin {"done", "killed"}
    BY <1>2 DEF CreateRefused, PartDone, Complete, CleanedUp, IoFails, Killed, Running
  <2>2. /\ pc' = [pc EXCEPT ![p] = pc'[p]]
        /\ \A q \in Splitters \ {p} : pc'[q] = pc[q]
        /\ pc' = [q \in Splitters |-> pc'[q]]
    BY <1>0, <2>1 DEF Files
  <2>3. \/ pc[p] \in {"create", "copy"} /\ pc'[p] \in {"create", "cleanup", "done"}
        \/ made[p] = << >> /\ pc'[p] = "failed"
        \/ pc'[p] = "killed"
    BY <1>0, <1>2, <2>2
       DEF Files, Notes, CreateRefused, PartDone, Complete, CleanedUp, IoFails, Killed
  <2>4. Files'
    BY <1>0, <2>1, <2>2 DEF Files
  <2>5. Notes(p)'
    <3>1. CASE made[p] = << >> /\ pc'[p] = "failed"
      BY <1>0, <2>1, <3>1 DEF Notes
    <3>2. CASE pc[p] \in {"create", "copy"} /\ pc'[p] \in {"create", "cleanup", "done"}
      BY <1>0, <2>1, <3>2 DEF Notes
    <3>3. CASE pc'[p] = "killed"
      BY <1>0, <2>1, <3>3 DEF Notes
    <3>4. QED BY <2>3, <3>1, <3>2, <3>3
  <2>6. Apart(p)
    BY <2>1, <2>2 DEF Apart
  <2>7. QED BY <2>1, <2>4, <2>5, <2>6
<1>3. QED BY <1>1, <1>2

\* Removing what was noted.
LEMMA StepRemove ==
  ASSUME SplitInv, NEW p \in Splitters, RemovePart(p)
  PROVE  /\ Files' /\ Notes(p)' /\ Apart(p) /\ made'[p] # made[p]
         /\ \A f \in Paths : files'[f] = files[f] \/ files[f].owner = p
<1>0. Files /\ Notes(p)
  BY DEF SplitInv
<1> DEFINE f == Head(made[p])
           rest == Tail(made[p])
<1>1. /\ made[p] \in Seq(Paths) /\ made[p] # << >> /\ IsInjective(made[p])
      /\ pc[p] = "cleanup"
      /\ files' = [files EXCEPT ![f] = NoFile]
      /\ made' = [made EXCEPT ![p] = rest]
      /\ UNCHANGED <<offsets, pc, ends, cursor, stuck>>
  BY <1>0 DEF RemovePart, Files, Notes
<1>2. /\ f \in Range(made[p]) /\ f \in Paths
      /\ rest \in Seq(Paths) /\ Len(rest) = Len(made[p]) - 1
      /\ Range(rest) = Range(made[p]) \ {f}
      /\ IsInjective(rest)
  BY <1>1, TakeHead
<1>3. files[f].owner = p
  BY <1>0, <1>1, <1>2 DEF Notes
<1> HIDE DEF f, rest
<1>4. NoFile \in [owner : Owners, bytes : Seq(Nat)] /\ NoFile.owner = "none"
  BY DEF NoFile, Owners
<1>5. /\ made'[p] = rest /\ files'[f].owner = "none"
      /\ \A g \in Paths \ {f} : files'[g] = files[g]
      /\ \A q \in Splitters \ {p} : made'[q] = made[q]
  BY <1>0, <1>1, <1>2, <1>4 DEF Files
<1>6. Files'
  BY <1>0, <1>1, <1>2, <1>4 DEF Files
<1>7. \A g \in Range(made[p]) : g \in Paths
  BY <1>1 DEF Range
<1>8. Notes(p)'
  BY <1>0, <1>1, <1>2, <1>5, <1>7, OwnersAssumption DEF Notes
<1>9. Apart(p)
  BY <1>1, <1>3, <1>5, OwnersAssumption DEF Apart
<1>10. made'[p] # made[p]
  BY <1>1, <1>2, <1>5, LenProperties
<1>11. QED BY <1>3, <1>5, <1>6, <1>8, <1>9, <1>10

\* Another program takes a path that is free.
LEMMA StepIntrude ==
  ASSUME SplitInv, NEW f \in Paths, Intrude(f)
  PROVE  /\ Files' /\ Apart(Foreign)
         /\ \A g \in Paths : files'[g] = files[g] \/ files[g].owner = "none"
<1>1. /\ files[f].owner = "none" /\ files' = [files EXCEPT ![f] = Part(Foreign, << >>)]
      /\ UNCHANGED <<offsets, pc, ends, made, cursor, stuck>>
  BY DEF Intrude, NoFile
<1>2. Part(Foreign, << >>) \in [owner : Owners, bytes : Seq(Nat)]
  BY DEF Part, Owners
<1>3. files'[f].owner = Foreign /\ \A g \in Paths \ {f} : files'[g] = files[g]
  BY <1>1 DEF SplitInv, Files, Part
<1>4. Files'
  BY <1>1, <1>2 DEF SplitInv, Files
<1>5. Apart(Foreign)
  BY <1>1, <1>3, OwnersAssumption DEF Apart
<1>6. QED BY <1>1, <1>3, <1>4, <1>5

----------------------------------------------------------------------------
\* Every step of any invocation keeps the invariant of all of them.
THEOREM SplitInvariance == Spec => []SplitInv
<1>1. Init => SplitInv
  BY SplitInit
<1>2. ASSUME SplitInv, [Next]_vars PROVE SplitInv'
  <2>1. ASSUME NEW q \in Splitters, Work(q) \/ IoFails(q) \/ Killed(q) PROVE SplitInv'
    <3>1. Files' /\ Notes(q)' /\ Apart(q)
      BY <1>2, <2>1, StepPlan, StepCreate, StepCopy, StepQuiet, StepRemove
         DEF Work, Write, CleanUp
    <3>2. \A p \in Splitters \ {q} : Notes(p)'
      BY <1>2, <3>1, Bystander
    <3>3. QED BY <3>1, <3>2 DEF SplitInv
  <2>2. ASSUME NEW f \in Paths, Intrude(f) PROVE SplitInv'
    <3>1. Files' /\ Apart(Foreign)
      BY <1>2, <2>2, StepIntrude
    <3>2. \A p \in Splitters \ {Foreign} : Notes(p)'
      BY <1>2, <3>1, Bystander
    <3>3. QED BY <3>1, <3>2, OwnersAssumption DEF SplitInv
  <2>3. CASE UNCHANGED vars
    BY <1>2, <2>3 DEF vars, SplitInv, Files, Notes
  <2>4. QED BY <1>2, <2>1, <2>2, <2>3 DEF Next
<1>3. QED BY <1>1, <1>2, PTL DEF Spec

\* An invocation that failed has left nothing behind but the parts whose
\* removal failed.
THEOREM FailuresLeaveNothing == Spec => []NoLeftovers
<1>1. SplitInv => NoLeftovers
  <2>1. SUFFICES ASSUME SplitInv, NEW p \in Splitters, pc[p] = "failed",
                        NEW f \in Paths, files[f].owner = p
                 PROVE  f \in stuck
    BY DEF NoLeftovers
  <2>2. f \in stuck \cup Range(made[p]) /\ made[p] = << >>
    BY <2>1 DEF SplitInv, Notes
  <2>3. QED BY <2>2, EmptyChannel
<1>2. QED BY <1>1, SplitInvariance, PTL

\* No step of an invocation, its cleanup included, changes a file of another
\* invocation or of another program.
THEOREM OthersAreKept == Spec => OthersKept
<1> DEFINE Kept == \A f \in Paths :
             /\ files[f].owner = Foreign => files'[f] = files[f]
             /\ \A p \in Splitters :
                  files[f].owner = p /\ UNCHANGED <<pc[p], made[p], cursor[p]>>
                    => files'[f] = files[f]
<1>1. ASSUME SplitInv, [Next]_vars PROVE Kept \/ UNCHANGED files
  <2>1. ASSUME NEW q \in Splitters, Work(q) \/ IoFails(q) \/ Killed(q)
        PROVE  Kept
    <3>1. CASE Copy(q) \/ RemovePart(q)
      <4>1. /\ \A f \in Paths : files'[f] = files[f] \/ files[f].owner = q
            /\ cursor'[q] # cursor[q] \/ made'[q] # made[q]
        BY <1>1, <3>1, StepCopy, StepRemove
      <4>2. QED BY <4>1, OwnersAssumption
    <3>2. CASE Create(q)
      BY <1>1, <3>2, StepCreate, OwnersAssumption
    <3>3. CASE UNCHANGED files
      BY <3>3
    <3>4. QED BY <1>1, <2>1, <3>1, <3>2, <3>3, StepPlan, StepQuiet DEF Work, Write, CleanUp
  <2>2. ASSUME NEW g \in Paths, Intrude(g) PROVE Kept
    BY <1>1, <2>2, StepIntrude, OwnersAssumption
  <2>3. CASE UNCHANGED vars
    BY <2>3 DEF vars
  <2>4. QED BY <1>1, <2>1, <2>2, <2>3 DEF Next
<1>2. ASSUME SplitInv, [Next]_vars PROVE Kept
  BY <1>1, <1>2
<1>3. QED BY <1>2, SplitInvariance, PTL DEF Spec, OthersKept

----------------------------------------------------------------------------
(* The plan *)

\* The next part begins where the last one ends.
LastEnd(p) == IF ends[p] = << >> THEN 0 ELSE ends[p][Len(ends[p])]
Cursor(p) == cursor[p] = LastEnd(p)

PlanInv ==
    /\ PlanSound
    /\ size \in [Splitters -> Sizes]
    /\ \A p \in Splitters : pc[p] \in {"open", "plan"} => Cursor(p)

\* A cut is at a boundary after the last one, and beyond the limit only where
\* there is no other.
LEMMA CutIsSound ==
  ASSUME SplitInv, PlanInv, NEW q \in Splitters, Cut(q)
  PROVE  PlanInv'
<1>1. PICK end \in Ahead(q) :
        /\ EndIsLast(q, end) \/ EndIsForced(q, end)
        /\ ends' = [ends EXCEPT ![q] = Append(@, end)]
        /\ cursor' = [cursor EXCEPT ![q] = end]
  BY DEF Cut
<1>2. /\ UNCHANGED <<offsets, size, force, pc>> /\ pc[q] = "plan"
      /\ ends \in [Splitters -> Seq(Nat)] /\ cursor \in [Splitters -> Nat]
      /\ size \in [Splitters -> Sizes] /\ Cursor(q)
  BY DEF Cut, SplitInv, Files, PlanInv
<1>3. Boundaries \subseteq Nat
  BY LengthAssumption DEF Boundaries, SplitInv, Files
<1>4. end \in Nat /\ end \in Boundaries /\ cursor[q] < end
  BY <1>3 DEF Ahead
<1>5. PICK n \in Nat : n = Len(ends[q])
  BY <1>2
<1>6. /\ ends'[q] = Append(ends[q], end) /\ Len(ends'[q]) = n + 1
      /\ ends'[q][n + 1] = end /\ cursor'[q] = end
      /\ \A i \in 1 .. n : ends'[q][i] = ends[q][i]
  BY <1>1, <1>2, <1>4, <1>5
<1>7. \A p \in Splitters \ {q} : ends'[p] = ends[p] /\ cursor'[p] = cursor[p]
  BY <1>1, <1>2
<1>8. end - cursor[q] > size[q] =>
        force[q] /\ \A b \in Boundaries : ~(cursor[q] < b /\ b < end)
  <2>1. size[q] \in Nat /\ cursor[q] \in Nat /\ Top \in Nat
    <3>1. size[q] \in Sizes /\ cursor[q] \in Nat
      BY <1>2
    <3>2. Top \in Nat
      BY LengthAssumption
    <3>3. size[q] \in 1 .. Top
      BY <3>1, SizesAssumption
    <3>4. QED BY <3>1, <3>2, <3>3
  <2>2. CASE EndIsLast(q, end)
    <3>1. end <= Limit(q)
      BY <2>2 DEF EndIsLast, Fitting
    <3>2. QED BY <1>4, <2>1, <3>1 DEF Limit
  <2>3. CASE EndIsForced(q, end)
    <3>1. force[q] /\ \A b \in Ahead(q) : end <= b
      BY <2>3 DEF EndIsForced
    <3>2. QED BY <1>3, <1>4, <2>1, <3>1 DEF Ahead
  <2>4. QED BY <1>1, <2>2, <2>3
<1>9. PlanSound'
  <2>1. SUFFICES ASSUME NEW p \in Splitters, NEW i \in 1 .. Len(ends'[p])
                 PROVE  LET from == IF i = 1 THEN 0 ELSE ends'[p][i - 1]
                            to == ends'[p][i]
                        IN  /\ to \in Boundaries
                            /\ from < to
                            /\ to - from > size[p] =>
                                 force[p] /\ \A b \in Boundaries : ~(from < b /\ b < to)
    BY <1>2 DEF PlanSound, StartOf, Boundaries
  <2>2. CASE p # q \/ i \in 1 .. n
    <3>1. /\ i \in 1 .. Len(ends[p]) /\ ends'[p][i] = ends[p][i]
          /\ i # 1 => ends'[p][i - 1] = ends[p][i - 1]
      <4>1. CASE p # q
        BY <1>7, <4>1
      <4>2. CASE p = q /\ i \in 1 .. n
        <5>1. i # 1 => i - 1 \in 1 .. n
          BY <4>2
        <5>2. QED BY <1>5, <1>6, <4>2, <5>1
      <4>3. QED BY <2>2, <4>1, <4>2
    <3>2. QED BY <3>1 DEF PlanInv, PlanSound, StartOf
  <2>3. CASE p = q /\ i = n + 1
    <3>1. cursor[q] = IF i = 1 THEN 0 ELSE ends'[p][i - 1]
      <4>1. CASE n = 0
        <5>1. ends[q] = << >> /\ i = 1
          <6>1. ends[q] \in Seq(Nat) /\ Len(ends[q]) = 0
            BY <1>2, <1>5, <4>1
          <6>2. QED BY <2>3, <4>1, <6>1, EmptySeq
        <5>2. QED BY <1>2, <5>1 DEF Cursor, LastEnd
      <4>2. CASE n # 0
        <5>1. ends[q] # << >> /\ n \in 1 .. n /\ i - 1 = n
          BY <1>2, <1>5, <2>3, <4>2, EmptySeq
        <5>2. cursor[q] = ends[q][n]
          BY <1>2, <1>5, <5>1 DEF Cursor, LastEnd
        <5>3. i # 1 /\ ends'[p][i - 1] = ends[q][n]
          BY <1>5, <1>6, <2>3, <4>2, <5>1
        <5>4. QED BY <5>2, <5>3
      <4>3. QED BY <4>1, <4>2
    <3>2. QED BY <1>4, <1>6, <1>8, <2>3, <3>1
  <2>4. QED BY <1>5, <1>6, <2>1, <2>2, <2>3
<1>10. \A p \in Splitters : pc'[p] \in {"open", "plan"} => Cursor(p)'
  <2>1. Cursor(q)'
    <3>1. ends'[q] # << >>
      <4>1. Len(ends'[q]) # 0
        BY <1>5, <1>6
      <4>2. QED BY <4>1, EmptySeq
    <3>2. QED BY <1>6, <3>1 DEF Cursor, LastEnd
  <2>2. QED BY <1>2, <1>7, <2>1 DEF PlanInv, Cursor, LastEnd
<1>11. QED BY <1>2, <1>9, <1>10 DEF PlanInv

\* The cuts planned so far are sound, and the next part begins at the last.
THEOREM PlanInvariance == Spec => []PlanInv
<1>1. Init => PlanInv
  <2>1. SUFFICES ASSUME Init PROVE PlanInv
    OBVIOUS
  <2>2. \A p \in Splitters : ends[p] = << >> /\ cursor[p] = 0 /\ Len(ends[p]) = 0
    BY <2>1, EmptySeq DEF Init
  <2>3. QED BY <2>1, <2>2 DEF Init, PlanInv, PlanSound, Cursor, LastEnd
<1>2. ASSUME SplitInv, PlanInv, [Next]_vars PROVE PlanInv'
  <2>1. CASE \E q \in Splitters : Cut(q)
    BY <1>2, <2>1, CutIsSound
  <2>2. CASE UNCHANGED <<offsets, size, force, ends>> /\
             \A p \in Splitters : pc'[p] \in {"open", "plan"} =>
               pc[p] \in {"open", "plan"} /\ cursor'[p] = cursor[p]
    BY <1>2, <2>2 DEF PlanInv, PlanSound, StartOf, Boundaries, Cursor, LastEnd
  <2>3. CASE \E q \in Splitters : (Plan(q) \/ Survey(q)) /\ ~Cut(q)
    <3>1. PICK q \in Splitters : (Plan(q) \/ Survey(q)) /\ ~Cut(q)
      BY <2>3
    <3>2. QED BY <1>2, <2>2, <3>1
              DEF SplitInv, Files, Plan, Survey, Open, OpenRefuses, TooMany, Indivisible,
                  Planned, Refuse, Look, LookRefuses, Looked
  <2>4. CASE \E q \in Splitters : Write(q) \/ CleanUp(q) \/ IoFails(q) \/ Killed(q)
    <3>1. PICK q \in Splitters : Write(q) \/ CleanUp(q) \/ IoFails(q) \/ Killed(q)
      BY <2>4
    <3>2. QED BY <1>2, <2>2, <3>1
              DEF SplitInv, Files, Write, CleanUp, Create, CreateWith, CreateRefused, Copy,
                  PartDone, Complete, RemovePart, RemoveFails, CleanedUp, IoFails, Killed, Running
  <2>5. CASE (\E f \in Paths : Intrude(f)) \/ UNCHANGED vars
    BY <2>2, <2>5 DEF Intrude, vars
  <2>6. QED BY <1>2, <2>1, <2>3, <2>4, <2>5 DEF Next, Work
<1>3. QED BY <1>1, <1>2, SplitInvariance, PTL DEF Spec

\* Every part begins and ends at the start of a cluster or at the end of the
\* file, none is empty, and none is larger than --size but by --force where a
\* single region is.
THEOREM CutsAreSound == Spec => []PlanSound
<1>1. PlanInv => PlanSound
  BY DEF PlanInv
<1>2. QED BY <1>1, PlanInvariance, PTL

----------------------------------------------------------------------------
(* No plan is better *)

\* Every part goes as far as the limit allows, the parts follow one another,
\* and a refused plan could not go on.
Greedy(p) ==
    \A i \in 1 .. Len(ends[p]) : \A b \in Boundaries :
      b - StartOf(p, i) <= size[p] => b <= ends[p][i]

Rising(p) ==
    \A i, j \in 1 .. Len(ends[p]) : i < j => ends[p][i] < ends[p][j]

Refused(p) ==
    /\ why[p] \in {"region", "parts"} => pc[p] = "failed" /\ LastEnd(p) < Total
    /\ why[p] = "region" =>
         ~force[p] /\ \A b \in Boundaries : b > LastEnd(p) => b - LastEnd(p) > size[p]
    /\ why[p] = "parts" => Len(ends[p]) = MaxParts

FewInv ==
    /\ why = [p \in Splitters |-> why[p]]
    /\ \A p \in Splitters : Greedy(p) /\ Rising(p) /\ Refused(p)

\* What the arithmetic of the plan is about.
LEMMA PlanTypes ==
  ASSUME SplitInv, PlanInv
  PROVE  /\ Boundaries \subseteq 0 .. Total
         /\ Total \in Nat \ {0} /\ Total <= Top /\ Top \in Nat
         /\ \A p \in Splitters :
              /\ size[p] \in 1 .. Top /\ cursor[p] \in Nat /\ LastEnd(p) \in Nat
              /\ ends[p] \in Seq(Nat) /\ Len(ends[p]) \in Nat
              /\ Len(ends[p]) <= MaxParts
              /\ \A i \in 1 .. Len(ends[p]) : ends[p][i] \in Boundaries
<1>1. Boundaries \subseteq 0 .. Total /\ Total \in Nat \ {0} /\ Total <= Top /\ Top \in Nat
  BY LengthAssumption DEF SplitInv, Files, Boundaries
<1>2. ASSUME NEW p \in Splitters
      PROVE  /\ size[p] \in 1 .. Top /\ cursor[p] \in Nat /\ LastEnd(p) \in Nat
             /\ ends[p] \in Seq(Nat) /\ Len(ends[p]) \in Nat
             /\ Len(ends[p]) <= MaxParts
             /\ \A i \in 1 .. Len(ends[p]) : ends[p][i] \in Boundaries
  <2>1. size[p] \in Sizes
    BY DEF PlanInv
  <2>2. ends[p] \in Seq(Nat) /\ cursor[p] \in Nat /\ Len(ends[p]) <= MaxParts
    BY DEF SplitInv, Files, Notes
  <2>3. LastEnd(p) \in Nat
    <3>1. CASE ends[p] = << >>
      BY <3>1 DEF LastEnd
    <3>2. CASE ends[p] # << >>
      <4>1. Len(ends[p]) \in 1 .. Len(ends[p])
        BY <2>2, <3>2, EmptySeq
      <4>2. QED BY <2>2, <3>2, <4>1 DEF LastEnd
    <3>3. QED BY <3>1, <3>2
  <2>4. \A i \in 1 .. Len(ends[p]) : ends[p][i] \in Boundaries
    BY DEF PlanInv, PlanSound
  <2>5. size[p] \in 1 .. Top /\ Len(ends[p]) \in Nat
    BY <2>1, <2>2, SizesAssumption
  <2>6. QED BY <2>2, <2>3, <2>4, <2>5
<1>3. QED BY <1>1, <1>2

\* The limit, saturated or not, holds what fits and nothing else.
LEMMA FittingIs ==
  ASSUME SplitInv, PlanInv, NEW p \in Splitters
  PROVE  Fitting(p) = {b \in Boundaries : b > cursor[p] /\ b - cursor[p] <= size[p]}
<1>1. ASSUME NEW b \in Boundaries
      PROVE  b <= Limit(p) <=> b - cursor[p] <= size[p]
  <2>1. b \in 0 .. Total /\ Total \in Nat /\ Top \in Nat /\ Total <= Top
    BY PlanTypes
  <2>2. size[p] \in 1 .. Top /\ cursor[p] \in Nat
    BY PlanTypes
  <2>3. QED BY <2>1, <2>2 DEF Limit
<1>2. QED BY <1>1 DEF Fitting, Ahead

\* A step that plans nothing.
LEMMA PlanKept ==
  ASSUME FewInv, UNCHANGED <<offsets, size, force, ends>>,
         why' = [p \in Splitters |-> why'[p]],
         \A p \in Splitters :
           \/ why'[p] = why[p] /\ (pc[p] = "failed" => pc'[p] = "failed")
           \/ why'[p] \notin {"region", "parts"}
  PROVE  FewInv'
<1>1. ASSUME NEW p \in Splitters PROVE Greedy(p)' /\ Rising(p)' /\ Refused(p)'
  <2>1. Greedy(p) /\ Rising(p) /\ Refused(p)
    BY DEF FewInv
  <2>2. UNCHANGED <<size, force, ends, LastEnd(p), Boundaries>>
    BY DEF LastEnd, Boundaries
  <2>3. Greedy(p)' /\ Rising(p)'
    BY <2>1, <2>2 DEF Greedy, Rising, StartOf
  <2>4. Refused(p)'
    BY <2>1, <2>2 DEF Refused
  <2>5. QED BY <2>3, <2>4
<1>2. QED BY <1>1 DEF FewInv

\* A cut goes as far as it can.
LEMMA CutIsGreedy ==
  ASSUME SplitInv, PlanInv, FewInv, NEW q \in Splitters, Cut(q)
  PROVE  FewInv'
<1>1. PICK end \in Ahead(q) :
        /\ EndIsLast(q, end) \/ EndIsForced(q, end)
        /\ ends' = [ends EXCEPT ![q] = Append(@, end)]
  BY DEF Cut
<1>2. /\ UNCHANGED <<offsets, size, force, pc, why>> /\ pc[q] = "plan"
      /\ ends \in [Splitters -> Seq(Nat)] /\ Cursor(q)
      /\ Boundaries \subseteq 0 .. Total /\ Total \in Nat
      /\ cursor[q] \in Nat /\ size[q] \in Nat
  BY PlanTypes DEF Cut, SplitInv, Files, PlanInv
<1>3. end \in Nat /\ end \in Boundaries /\ cursor[q] < end
  BY <1>2 DEF Ahead
<1>4. PICK n \in Nat : n = Len(ends[q])
  BY <1>2
<1>5. /\ ends'[q] = Append(ends[q], end) /\ Len(ends'[q]) = n + 1
      /\ ends'[q][n + 1] = end
      /\ \A i \in 1 .. n : ends'[q][i] = ends[q][i] /\ ends[q][i] \in Nat
      /\ \A p \in Splitters \ {q} : ends'[p] = ends[p]
  BY <1>1, <1>2, <1>3, <1>4
<1>6. cursor[q] = IF n = 0 THEN 0 ELSE ends[q][n]
  <2>1. ends[q] \in Seq(Nat) /\ (ends[q] = << >> <=> n = 0)
    BY <1>2, <1>4, EmptySeq
  <2>2. QED BY <1>2, <1>4, <2>1 DEF Cursor, LastEnd
<1>7. \A b \in Boundaries : b - cursor[q] <= size[q] => b <= end
  <2>1. SUFFICES ASSUME NEW b \in Boundaries, b - cursor[q] <= size[q], b > cursor[q]
                 PROVE  b <= end
    BY <1>2, <1>3
  <2>2. b \in Fitting(q)
    BY <2>1, FittingIs
  <2>3. QED BY <1>1, <2>2 DEF EndIsLast, EndIsForced
<1>8. Boundaries' = Boundaries
  BY <1>2 DEF Boundaries
<1>9. Greedy(q)'
  <2>1. SUFFICES ASSUME NEW i \in 1 .. n + 1, NEW b \in Boundaries,
                        b - (IF i = 1 THEN 0 ELSE ends'[q][i - 1]) <= size[q]
                 PROVE  b <= ends'[q][i]
    BY <1>2, <1>5, <1>8 DEF Greedy, StartOf
  <2>2. CASE i \in 1 .. n
    <3>1. i # 1 => i - 1 \in 1 .. n
      BY <2>2
    <3>2. b - StartOf(q, i) <= size[q]
      BY <1>5, <2>1, <3>1 DEF StartOf
    <3>3. b <= ends[q][i]
      BY <1>4, <2>2, <3>2 DEF FewInv, Greedy
    <3>4. QED BY <1>5, <2>2, <3>3
  <2>3. CASE i = n + 1
    <3>1. cursor[q] = IF i = 1 THEN 0 ELSE ends'[q][i - 1]
      <4>1. CASE n = 0
        BY <1>6, <2>3, <4>1
      <4>2. CASE n # 0
        <5>1. i # 1 /\ i - 1 = n /\ n \in 1 .. n
          BY <2>3, <4>2
        <5>2. QED BY <1>5, <1>6, <4>2, <5>1
      <4>3. QED BY <4>1, <4>2
    <3>2. QED BY <1>5, <1>7, <2>1, <2>3, <3>1
  <2>4. QED BY <2>2, <2>3
<1>10. Rising(q)'
  <2>1. SUFFICES ASSUME NEW i \in 1 .. n + 1, NEW j \in 1 .. n + 1, i < j
                 PROVE  ends'[q][i] < ends'[q][j]
    BY <1>5 DEF Rising
  <2>2. \A k, l \in 1 .. n : k < l => ends[q][k] < ends[q][l]
    BY <1>4 DEF FewInv, Rising
  <2>3. i \in 1 .. n
    BY <2>1
  <2>4. CASE j \in 1 .. n
    BY <1>5, <2>1, <2>2, <2>3, <2>4
  <2>5. CASE j = n + 1
    <3>1. n \in 1 .. n /\ (i < n \/ i = n)
      BY <2>3
    <3>2. ends[q][i] <= ends[q][n] /\ cursor[q] = ends[q][n]
      BY <1>5, <1>6, <2>2, <2>3, <3>1
    <3>3. QED BY <1>3, <1>5, <2>3, <2>5, <3>1, <3>2
  <2>6. QED BY <2>4, <2>5
<1>11. Refused(q)'
  BY <1>2 DEF FewInv, Refused
<1>12. \A p \in Splitters \ {q} : Greedy(p)' /\ Rising(p)' /\ Refused(p)'
  <2>1. SUFFICES ASSUME NEW p \in Splitters \ {q}
                 PROVE  Greedy(p)' /\ Rising(p)' /\ Refused(p)'
    OBVIOUS
  <2>2. Greedy(p) /\ Rising(p) /\ Refused(p)
    BY DEF FewInv
  <2>3. ends'[p] = ends[p] /\ LastEnd(p)' = LastEnd(p)
    BY <1>5 DEF LastEnd
  <2>4. QED BY <1>2, <1>8, <2>2, <2>3 DEF Greedy, Rising, Refused, StartOf
<1>13. QED BY <1>2, <1>9, <1>10, <1>11, <1>12 DEF FewInv

\* A plan is refused where it ends before the file.
LEMMA RefusalIsForced ==
  ASSUME SplitInv, PlanInv, FewInv, NEW q \in Splitters, TooMany(q) \/ Indivisible(q)
  PROVE  FewInv'
<1>1. /\ UNCHANGED <<offsets, size, force, ends>> /\ pc[q] = "plan"
      /\ cursor[q] = LastEnd(q) /\ LastEnd(q) < Total
  BY DEF TooMany, Indivisible, Refuse, PlanInv, Cursor
<1>2. UNCHANGED Boundaries /\ \A p \in Splitters : UNCHANGED LastEnd(p)
  BY <1>1 DEF Boundaries, LastEnd
<1>3. /\ why' = [why EXCEPT ![q] = why'[q]] /\ pc' = [pc EXCEPT ![q] = "failed"]
      /\ \/ why'[q] = "parts" /\ Len(ends[q]) = MaxParts
         \/ why'[q] = "region" /\ Fitting(q) = {} /\ ~force[q]
  BY DEF TooMany, Indivisible, Refuse, FewInv
<1>4. pc'[q] = "failed" /\ \A p \in Splitters \ {q} : why'[p] = why[p] /\ pc'[p] = pc[p]
  BY <1>3 DEF SplitInv, Files, FewInv
<1>5. ASSUME NEW p \in Splitters PROVE Greedy(p)' /\ Rising(p)'
  BY <1>1, <1>2 DEF FewInv, Greedy, Rising, StartOf
<1>6. Refused(q)'
  <2>1. why'[q] = "region" =>
          \A b \in Boundaries : b > LastEnd(q) => b - LastEnd(q) > size[q]
    <3>1. SUFFICES ASSUME Fitting(q) = {}, NEW b \in Boundaries, b > LastEnd(q)
                   PROVE  b - LastEnd(q) > size[q]
      BY <1>3
    <3>2. ~(b - LastEnd(q) <= size[q])
      BY <1>1, <3>1, FittingIs
    <3>3. b \in Nat /\ LastEnd(q) \in Nat /\ size[q] \in Nat
      BY PlanTypes
    <3>4. QED BY <3>2, <3>3
  <2>2. QED BY <1>1, <1>2, <1>3, <1>4, <2>1 DEF Refused
<1>7. \A p \in Splitters \ {q} : Refused(p)'
  BY <1>1, <1>2, <1>4 DEF FewInv, Refused
<1>8. why' = [p \in Splitters |-> why'[p]]
  BY <1>3 DEF FewInv
<1>9. QED BY <1>5, <1>6, <1>7, <1>8 DEF FewInv

\* Every step keeps the plan so far one that no other plan outdoes.
LEMMA StepFew ==
  ASSUME SplitInv, PlanInv, FewInv, [Next]_vars
  PROVE  FewInv'
<1>1. ASSUME NEW q \in Splitters, Work(q) \/ IoFails(q) \/ Killed(q) PROVE FewInv'
  <2>1. CASE Cut(q)
    BY <2>1, CutIsGreedy
  <2>2. CASE TooMany(q) \/ Indivisible(q)
    BY <2>2, RefusalIsForced
  <2>3. CASE ~Cut(q) /\ ~TooMany(q) /\ ~Indivisible(q)
    <3>1. /\ UNCHANGED <<offsets, size, force, ends>>
          /\ \/ UNCHANGED pc
             \/ pc[q] # "failed" /\ pc' = [pc EXCEPT ![q] = pc'[q]]
          /\ \/ UNCHANGED why
             \/ \E r \in {"offset", "exists", "io"} : why' = [why EXCEPT ![q] = r]
      <4>1. CASE Plan(q)
        BY <2>3, <4>1
           DEF SplitInv, Files, Plan, Open, OpenRefuses, Planned, Refuse
      <4>2. CASE Survey(q)
        BY <4>2 DEF SplitInv, Files, Survey, Look, LookRefuses, Looked, Refuse
      <4>3. CASE Write(q)
        BY <4>3 DEF SplitInv, Files, Write, Create, CreateWith, CreateRefused, Copy,
                    PartDone, Complete
      <4>4. CASE CleanUp(q)
        BY <4>4 DEF SplitInv, Files, CleanUp, RemovePart, RemoveFails, CleanedUp
      <4>5. CASE IoFails(q) \/ Killed(q)
        BY <4>5 DEF SplitInv, Files, IoFails, Killed, Running
      <4>6. QED BY <1>1, <4>1, <4>2, <4>3, <4>4, <4>5 DEF Work
    <3>2. \A p \in Splitters : pc[p] = "failed" => pc'[p] = "failed"
      BY <3>1 DEF SplitInv, Files
    <3>3. /\ why' = [p \in Splitters |-> why'[p]]
          /\ \A p \in Splitters : why'[p] = why[p] \/ why'[p] \notin {"region", "parts"}
      BY <3>1 DEF FewInv
    <3>4. QED BY <3>1, <3>2, <3>3, PlanKept
  <2>4. QED BY <2>1, <2>2, <2>3
<1>2. CASE (\E f \in Paths : Intrude(f)) \/ UNCHANGED vars
  <2>1. UNCHANGED <<offsets, size, force, ends, pc, why>>
    BY <1>2 DEF Intrude, vars
  <2>2. QED BY <2>1, PlanKept DEF FewInv
<1>3. QED BY <1>1, <1>2 DEF Next

\* The first cut of an allowed plan after a place s, and what allows it.
LEMMA CutAfter ==
  ASSUME SplitInv, PlanInv, NEW p \in Splitters,
         NEW cuts \in SUBSET Boundaries, Allowed(p, cuts),
         NEW s \in Nat, s < Total
  PROVE  \E b \in cuts : \E from \in Nat :
           /\ from <= s /\ s < b
           /\ \/ b - from <= size[p]
              \/ force[p] /\ \A c \in Boundaries : ~(from < c /\ c < b)
<1>0. Boundaries \subseteq 0 .. Total /\ Total \in Nat /\ Total \in cuts
  BY PlanTypes DEF Allowed
<1>1. cuts \in SUBSET Nat
  BY <1>0
<1> DEFINE later == {c \in cuts : s < c}
           b == Min(later)
           earlier == {0} \cup {c \in cuts : c < b}
           from == CHOOSE a \in earlier : \A c \in earlier : c <= a
<1>2. b \in later /\ \A c \in later : b <= c
  <2>1. Total \in later
    BY <1>0
  <2>2. later \in SUBSET Nat
    BY <1>1
  <2> HIDE DEF later
  <2>3. QED BY <2>1, <2>2, MinOfNaturals
<1> HIDE DEF b
<1>3. b \in cuts /\ b \in Nat /\ s < b
  BY <1>1, <1>2
<1>4. from \in earlier
  <2>1. earlier \subseteq Nat
    <3>1. \A c \in cuts : c \in Nat
      BY <1>1
    <3>2. QED BY <3>1
  <2>2. \A c \in earlier : c <= b
    BY <1>1, <1>3
  <2>3. earlier # {}
    OBVIOUS
  <2> HIDE DEF earlier
  <2>4. \E a \in earlier : \A c \in earlier : c <= a
    BY <1>3, <2>1, <2>2, <2>3, MaxOfNaturals
  <2>5. QED BY <2>4
<1>5. \/ b - from <= size[p]
      \/ force[p] /\ \A c \in Boundaries : ~(from < c /\ c < b)
  BY <1>3 DEF Allowed
<1> HIDE DEF from
<1>6. from \in Nat /\ from <= s
  <2>1. CASE from = 0
    BY <2>1
  <2>2. CASE from \in cuts /\ from < b
    <3>1. from \in Nat
      BY <1>1, <2>2
    <3>2. ~(s < from)
      <4>1. SUFFICES ASSUME s < from PROVE FALSE
        OBVIOUS
      <4>2. b <= from
        BY <1>2, <2>2, <4>1
      <4>3. QED BY <1>3, <2>2, <3>1, <4>2
    <3>3. QED BY <3>1, <3>2
  <2>3. QED BY <1>4, <2>1, <2>2
<1>7. QED BY <1>3, <1>5, <1>6

\* Every part of the plan holds a cut of any other.
LEMMA CutInPart ==
  ASSUME SplitInv, PlanInv, FewInv, NEW p \in Splitters,
         NEW cuts \in SUBSET Boundaries, Allowed(p, cuts), NEW i \in 1 .. Len(ends[p])
  PROVE  \E b \in cuts : StartOf(p, i) < b /\ b <= ends[p][i]
<1>1. /\ ends[p][i] \in Boundaries /\ StartOf(p, i) < ends[p][i]
      /\ StartOf(p, i) \in Nat
  <2>1. ends[p][i] \in Boundaries /\ StartOf(p, i) < ends[p][i]
    BY DEF PlanInv, PlanSound
  <2>2. i # 1 => i - 1 \in 1 .. Len(ends[p])
    BY PlanTypes
  <2>3. StartOf(p, i) \in Nat
    BY <2>2, PlanTypes DEF StartOf
  <2>4. QED BY <2>1, <2>3
<1>2. Boundaries \subseteq 0 .. Total /\ Total \in Nat /\ size[p] \in Nat
  BY PlanTypes
<1>3. StartOf(p, i) < Total /\ ends[p][i] \in Nat
  <2>1. ends[p][i] \in 0 .. Total
    BY <1>1, <1>2
  <2>2. QED BY <1>1, <1>2, <2>1
<1>4. PICK b \in cuts, from \in Nat :
        /\ from <= StartOf(p, i) /\ StartOf(p, i) < b
        /\ \/ b - from <= size[p]
           \/ force[p] /\ \A c \in Boundaries : ~(from < c /\ c < b)
  BY <1>1, <1>3, CutAfter
<1>5. b \in Boundaries /\ b \in Nat
  BY <1>2
<1>6. b <= ends[p][i]
  <2>1. CASE b - from <= size[p]
    <3>1. b - StartOf(p, i) <= size[p]
      BY <1>1, <1>2, <1>4, <1>5, <2>1
    <3>2. QED BY <1>5, <3>1 DEF FewInv, Greedy
  <2>2. CASE \A c \in Boundaries : ~(from < c /\ c < b)
    <3>1. from < ends[p][i]
      BY <1>1, <1>3, <1>4
    <3>2. QED BY <1>1, <1>3, <1>5, <2>2, <3>1
  <2>3. QED BY <1>4, <2>1, <2>2
<1>7. QED BY <1>4, <1>6

\* A set that has an element in each of n intervals, one above the other, has
\* n elements at least.
LEMMA OneEach ==
  ASSUME NEW n \in Nat, NEW cuts \in SUBSET Nat, IsFiniteSet(cuts),
         NEW low \in [1 .. n -> Nat], NEW high \in [1 .. n -> Nat],
         \A i \in 1 .. n : \E b \in cuts : low[i] < b /\ b <= high[i],
         \A i, j \in 1 .. n : i < j => high[i] <= low[j]
  PROVE  n <= Cardinality(cuts)
<1> DEFINE f == [i \in 1 .. n |-> CHOOSE b \in cuts : low[i] < b /\ b <= high[i]]
<1>1. \A i \in 1 .. n : f[i] \in cuts /\ low[i] < f[i] /\ f[i] <= high[i]
  OBVIOUS
<1>2. f \in [1 .. n -> cuts]
  BY <1>1
<1> HIDE DEF f
<1>3. ASSUME NEW i \in 1 .. n, NEW j \in 1 .. n, i < j PROVE f[i] # f[j]
  <2>1. f[i] \in Nat /\ f[j] \in Nat /\ f[i] <= high[i] /\ low[j] < f[j]
    BY <1>1
  <2>2. high[i] <= low[j] /\ high[i] \in Nat /\ low[j] \in Nat
    BY <1>3
  <2>3. QED BY <2>1, <2>2
<1>4. ASSUME NEW i \in 1 .. n, NEW j \in 1 .. n, f[i] = f[j] PROVE i = j
  BY <1>3, <1>4
<1>5. f \in Injection(1 .. n, cuts)
  BY <1>2, <1>4 DEF Injection, IsInjective
<1>6. IsFiniteSet(1 .. n) /\ Cardinality(1 .. n) = n
  BY FS_Interval
<1>7. Cardinality(1 .. n) <= Cardinality(cuts)
  BY <1>5, FS_Injection
<1>8. QED BY <1>6, <1>7

\* Neither the plan nor the refusal can be bettered.
LEMMA NoPlanIsBetter ==
  ASSUME SplitInv, PlanInv, FewInv, NEW p \in Splitters,
         NEW cuts \in SUBSET Boundaries, Allowed(p, cuts)
  PROVE  /\ why[p] # "region"
         /\ why[p] = "parts" => Cardinality(cuts) > MaxParts
         /\ Len(ends[p]) <= Cardinality(cuts)
<1> DEFINE n == Len(ends[p])
           low == [i \in 1 .. n |-> StartOf(p, i)]
           high == [i \in 1 .. n |-> ends[p][i]]
<1>1. /\ n \in Nat /\ Boundaries \subseteq 0 .. Total /\ Total \in Nat
      /\ size[p] \in Nat /\ LastEnd(p) \in Nat /\ ends[p] \in Seq(Nat)
      /\ \A i \in 1 .. n : ends[p][i] \in Boundaries
  BY PlanTypes
<1>2. cuts \in SUBSET Nat /\ IsFiniteSet(cuts) /\ Cardinality(cuts) \in Nat
  <2>1. IsFiniteSet(0 .. Total)
    BY <1>1, FS_Interval
  <2>2. IsFiniteSet(cuts)
    BY <1>1, <2>1, FS_Subset
  <2>3. QED BY <1>1, <2>2, FS_CardinalityType
<1>3. \A i \in 1 .. n : \E b \in cuts : StartOf(p, i) < b /\ b <= ends[p][i]
  BY CutInPart
<1>4. \A i \in 1 .. n : StartOf(p, i) \in Nat /\ ends[p][i] \in Nat
  <2>1. \A i \in 1 .. n : i # 1 => i - 1 \in 1 .. n
    BY <1>1
  <2>2. QED BY <1>1, <2>1 DEF StartOf
<1>5. \A i, j \in 1 .. n : i < j => ends[p][i] <= StartOf(p, j)
  <2>1. SUFFICES ASSUME NEW i \in 1 .. n, NEW j \in 1 .. n, i < j
                 PROVE  ends[p][i] <= ends[p][j - 1]
    BY <1>1 DEF StartOf
  <2>2. j - 1 \in 1 .. n /\ (i < j - 1 \/ i = j - 1)
    BY <1>1, <2>1
  <2>3. i < j - 1 => ends[p][i] < ends[p][j - 1]
    BY <2>2 DEF FewInv, Rising
  <2>4. QED BY <1>4, <2>2, <2>3
<1>6. n <= Cardinality(cuts)
  <2>1. low \in [1 .. n -> Nat] /\ high \in [1 .. n -> Nat]
    BY <1>4
  <2>2. \A i \in 1 .. n : low[i] = StartOf(p, i) /\ high[i] = ends[p][i]
    OBVIOUS
  <2> HIDE DEF low, high, n
  <2>3. /\ \A i \in 1 .. n : \E b \in cuts : low[i] < b /\ b <= high[i]
        /\ \A i, j \in 1 .. n : i < j => high[i] <= low[j]
    BY <1>3, <1>5, <2>2
  <2>4. QED BY <1>1, <1>2, <2>1, <2>3, OneEach
<1>7. why[p] # "region"
  <2>1. SUFFICES ASSUME why[p] = "region" PROVE FALSE
    OBVIOUS
  <2>2. /\ LastEnd(p) < Total /\ ~force[p]
        /\ \A b \in Boundaries : b > LastEnd(p) => b - LastEnd(p) > size[p]
    BY <2>1 DEF FewInv, Refused
  <2>3. PICK b \in cuts, from \in Nat :
          from <= LastEnd(p) /\ LastEnd(p) < b /\ b - from <= size[p]
    BY <1>1, <2>2, CutAfter
  <2>4. b - LastEnd(p) > size[p] /\ b \in Nat
    BY <1>1, <2>2, <2>3
  <2>5. QED BY <1>1, <2>3, <2>4
<1>8. ASSUME why[p] = "parts" PROVE Cardinality(cuts) > MaxParts
  <2>1. n = MaxParts /\ LastEnd(p) < Total
    BY <1>8 DEF FewInv, Refused
  <2> DEFINE l == [i \in 1 .. n + 1 |-> IF i = n + 1 THEN LastEnd(p) ELSE StartOf(p, i)]
             h == [i \in 1 .. n + 1 |-> IF i = n + 1 THEN Total ELSE ends[p][i]]
  <2>2. \A i \in 1 .. n : ends[p][i] <= LastEnd(p)
    <3>1. SUFFICES ASSUME NEW i \in 1 .. n PROVE ends[p][i] <= LastEnd(p)
      OBVIOUS
    <3>2. ends[p] # << >> /\ n \in 1 .. n /\ (i < n \/ i = n)
      BY <1>1, EmptySeq
    <3>3. LastEnd(p) = ends[p][n]
      BY <3>2 DEF LastEnd
    <3>4. i < n => ends[p][i] < ends[p][n]
      BY <3>2 DEF FewInv, Rising
    <3>5. QED BY <1>4, <3>2, <3>3, <3>4
  <2>3. \A i \in 1 .. n + 1 : l[i] \in Nat /\ h[i] \in Nat
    BY <1>1, <1>4
  <2>4. l \in [1 .. n + 1 -> Nat] /\ h \in [1 .. n + 1 -> Nat]
    BY <2>3
  <2>5. \A i \in 1 .. n + 1 : \E b \in cuts : l[i] < b /\ b <= h[i]
    <3>1. SUFFICES ASSUME NEW i \in 1 .. n + 1
                   PROVE  \E b \in cuts : l[i] < b /\ b <= h[i]
      OBVIOUS
    <3>2. CASE i = n + 1
      <4>1. Total \in cuts
        BY DEF Allowed
      <4>2. l[i] = LastEnd(p) /\ h[i] = Total
        BY <3>2
      <4>3. QED BY <1>1, <2>1, <4>1, <4>2
    <3>3. CASE i \in 1 .. n
      <4>1. l[i] = StartOf(p, i) /\ h[i] = ends[p][i]
        BY <1>1, <3>3
      <4>2. QED BY <1>3, <3>3, <4>1
    <3>4. i = n + 1 \/ i \in 1 .. n
      BY <1>1
    <3>5. QED BY <3>2, <3>3, <3>4
  <2>6. \A i, j \in 1 .. n + 1 : i < j => h[i] <= l[j]
    <3>1. SUFFICES ASSUME NEW i \in 1 .. n + 1, NEW j \in 1 .. n + 1, i < j
                   PROVE  h[i] <= l[j]
      OBVIOUS
    <3>2. i \in 1 .. n /\ h[i] = ends[p][i]
      BY <1>1, <3>1
    <3>3. CASE j = n + 1
      <4>1. l[j] = LastEnd(p)
        BY <3>3
      <4>2. QED BY <2>2, <3>2, <4>1
    <3>4. CASE j \in 1 .. n
      <4>1. l[j] = StartOf(p, j)
        BY <1>1, <3>4
      <4>2. QED BY <1>5, <3>1, <3>2, <3>4, <4>1
    <3>5. j = n + 1 \/ j \in 1 .. n
      BY <1>1
    <3>6. QED BY <3>3, <3>4, <3>5
  <2> HIDE DEF l, h
  <2>7. n + 1 <= Cardinality(cuts)
    <3>1. n + 1 \in Nat
      BY <1>1
    <3> HIDE DEF n
    <3>2. QED BY <1>2, <2>4, <2>5, <2>6, <3>1, OneEach
  <2>8. QED BY <1>1, <1>2, <2>1, <2>7
<1>9. QED BY <1>6, <1>7, <1>8

\* A plan is made of sound cuts, no allowed plan has fewer, and an archive is
\* refused, for a region or for the number of parts, only if no plan is allowed
\* or every allowed one has too many parts.
THEOREM PlanIsExact == Spec => []PlanExact
<1>1. Init => FewInv
  <2>1. SUFFICES ASSUME Init PROVE FewInv
    OBVIOUS
  <2>2. why = [p \in Splitters |-> why[p]]
    BY <2>1 DEF Init
  <2>3. \A p \in Splitters : why[p] = "none" /\ Len(ends[p]) = 0
    BY <2>1, EmptySeq DEF Init
  <2>4. QED BY <2>2, <2>3 DEF FewInv, Greedy, Rising, Refused
<1>2. SplitInv /\ PlanInv /\ FewInv => PlanExact
  <2>1. SUFFICES ASSUME SplitInv, PlanInv, FewInv PROVE PlanFewest
    BY DEF PlanExact, PlanInv
  <2>2. QED BY <2>1, NoPlanIsBetter DEF PlanFewest
<1>3. QED BY <1>1, <1>2, StepFew, SplitInvariance, PlanInvariance, PTL DEF Spec

----------------------------------------------------------------------------
(* The parts that were written *)

\* The bytes of the archive from a up to b.
Slice(a, b) == [i \in 1 .. b - a |-> a + i - 1]

\* The parts written so far are the planned pieces, the one being written as
\* far as the input was read; a complete one has all of them, all its own.
Filled(p) ==
    /\ pc[p] \in {"look", "create", "copy", "done"} => LastEnd(p) = Total
    /\ pc[p] = "done" =>
         /\ Len(made[p]) = Len(ends[p])
         /\ \A f \in 1 .. Len(made[p]) : files[f].owner = p
    /\ pc[p] \in {"create", "done"} =>
         \A f \in 1 .. Len(made[p]) : files[f].bytes = Slice(StartOf(p, f), ends[p][f])
    /\ pc[p] = "create" => cursor[p] = StartOf(p, Len(made[p]) + 1)
    /\ pc[p] = "copy" =>
         /\ \A f \in 1 .. Len(made[p]) - 1 :
              files[f].bytes = Slice(StartOf(p, f), ends[p][f])
         /\ StartOf(p, Len(made[p])) <= cursor[p]
         /\ cursor[p] <= ends[p][Len(made[p])]
         /\ files[Len(made[p])].bytes = Slice(StartOf(p, Len(made[p])), cursor[p])

FillInv == \A p \in Splitters : Filled(p)

\* Two pieces, one after the other, are one.
LEMMA SliceJoin ==
  ASSUME NEW a \in Nat, NEW b \in Nat, NEW c \in Nat, a <= b, b <= c
  PROVE  Slice(a, b) \o Slice(b, c) = Slice(a, c)
<1> DEFINE s == Slice(a, b)
           t == Slice(b, c)
           u == Slice(a, c)
<1>1. /\ s \in Seq(Nat) /\ Len(s) = b - a
      /\ \A i \in 1 .. b - a : s[i] = a + i - 1
  <2>1. b - a \in Nat /\ \A i \in 1 .. b - a : a + i - 1 \in Nat
    OBVIOUS
  <2>2. QED BY <2>1 DEF Slice
<1>2. /\ t \in Seq(Nat) /\ Len(t) = c - b
      /\ \A i \in 1 .. c - b : t[i] = b + i - 1
  <2>1. c - b \in Nat /\ \A i \in 1 .. c - b : b + i - 1 \in Nat
    OBVIOUS
  <2>2. QED BY <2>1 DEF Slice
<1>3. /\ u \in Seq(Nat) /\ Len(u) = c - a
      /\ \A i \in 1 .. c - a : u[i] = a + i - 1
  <2>1. c - a \in Nat /\ \A i \in 1 .. c - a : a + i - 1 \in Nat
    OBVIOUS
  <2>2. QED BY <2>1 DEF Slice
<1> HIDE DEF s, t, u
<1>4. /\ s \o t \in Seq(Nat) /\ Len(s \o t) = c - a
      /\ \A i \in 1 .. c - a : (s \o t)[i] = IF i <= b - a THEN s[i] ELSE t[i - (b - a)]
  <2>1. Len(s) + Len(t) = c - a
    BY <1>1, <1>2
  <2>2. /\ s \o t \in Seq(Nat) /\ Len(s \o t) = Len(s) + Len(t)
        /\ \A i \in 1 .. Len(s) + Len(t) :
             (s \o t)[i] = IF i <= Len(s) THEN s[i] ELSE t[i - Len(s)]
    BY <1>1, <1>2, ConcatProperties
  <2>3. QED BY <1>1, <2>1, <2>2
<1>5. ASSUME NEW i \in 1 .. c - a PROVE (s \o t)[i] = u[i]
  <2>1. CASE i <= b - a
    BY <1>1, <1>3, <1>4, <2>1
  <2>2. CASE ~(i <= b - a)
    <3>1. i - (b - a) \in 1 .. c - b /\ b + (i - (b - a)) - 1 = a + i - 1
      BY <2>2
    <3>2. t[i - (b - a)] = b + (i - (b - a)) - 1
      BY <1>2, <3>1
    <3>3. QED BY <1>3, <1>4, <2>2, <3>1, <3>2
  <2>3. QED BY <2>1, <2>2
<1>6. s \o t = u
  BY <1>3, <1>4, <1>5, SeqEqual
<1>7. QED BY <1>6 DEF s, t, u

\* The places of the plan are naturals, in order.
LEMMA Places ==
  ASSUME SplitInv, PlanInv, NEW p \in Splitters, NEW i \in 1 .. Len(ends[p])
  PROVE  /\ StartOf(p, i) \in Nat /\ ends[p][i] \in Nat
         /\ StartOf(p, i) < ends[p][i] /\ ends[p][i] <= Total
         /\ StartOf(p, i + 1) = ends[p][i]
<1>1. ends[p][i] \in Boundaries /\ StartOf(p, i) < ends[p][i]
  BY DEF PlanInv, PlanSound
<1>2. /\ Boundaries \subseteq 0 .. Total /\ Total \in Nat /\ Len(ends[p]) \in Nat
      /\ \A j \in 1 .. Len(ends[p]) : ends[p][j] \in Boundaries
  BY PlanTypes
<1>3. ends[p][i] \in 0 .. Total
  BY <1>1, <1>2
<1>4. StartOf(p, i) \in Nat
  <2>1. i # 1 => i - 1 \in 1 .. Len(ends[p])
    BY <1>2
  <2>2. i # 1 => ends[p][i - 1] \in 0 .. Total
    BY <1>2, <2>1
  <2>3. QED BY <2>2 DEF StartOf
<1>5. i + 1 # 1 /\ (i + 1) - 1 = i
  BY <1>2
<1>6. QED BY <1>1, <1>2, <1>3, <1>4, <1>5 DEF StartOf

\* The parts noted by a writer are planned ones and its own.
LEMMA Noted ==
  ASSUME SplitInv, FillInv, NEW p \in Splitters, pc[p] \in {"create", "copy", "done"}
  PROVE  /\ Len(made[p]) \in Nat /\ Len(made[p]) <= Len(ends[p])
         /\ pc[p] = "copy" => Len(made[p]) \in 1 .. Len(made[p])
         /\ 1 .. Len(made[p]) \subseteq Paths
         /\ \A f \in 1 .. Len(made[p]) : files[f].owner = p
<1>1. /\ made[p] \in Seq(Paths) /\ Len(made[p]) \in Nat /\ Len(ends[p]) \in Nat
      /\ Len(made[p]) <= Len(ends[p]) /\ Len(ends[p]) <= MaxParts
      /\ pc[p] = "copy" => made[p] # << >>
  BY DEF SplitInv, Files, Notes, FillInv, Filled
<1>2. 1 .. Len(made[p]) \subseteq Paths
  BY <1>1, LengthAssumption DEF Paths
<1>3. pc[p] = "copy" => Len(made[p]) \in 1 .. Len(made[p])
  BY <1>1, EmptySeq
<1>4. ASSUME NEW f \in 1 .. Len(made[p]) PROVE files[f].owner = p
  <2>1. CASE pc[p] = "done"
    BY <2>1 DEF FillInv, Filled
  <2>2. CASE pc[p] \in {"create", "copy"}
    <3>1. made[p][f] = f
      BY <2>2 DEF SplitInv, Notes
    <3>2. f \in Range(made[p])
      BY <1>1, <3>1 DEF Range
    <3>3. QED BY <2>2, <3>2 DEF SplitInv, Notes
  <2>3. QED BY <2>1, <2>2
<1>5. QED BY <1>1, <1>2, <1>3, <1>4

\* Who does not take the step keeps what it wrote.
LEMMA FillBystander ==
  ASSUME SplitInv, PlanInv, FillInv, NEW q \in Splitters \cup {Foreign}, Apart(q),
         NEW p \in Splitters \ {q}, cursor'[p] = cursor[p]
  PROVE  Filled(p)'
<1>1. /\ pc'[p] = pc[p] /\ ends'[p] = ends[p] /\ made'[p] = made[p]
      /\ cursor'[p] = cursor[p] /\ LastEnd(p)' = LastEnd(p)
      /\ \A i : StartOf(p, i)' = StartOf(p, i)
  BY DEF Apart, LastEnd, StartOf
<1>2. Filled(p)
  BY DEF FillInv
<1>3. CASE pc[p] \in {"create", "copy", "done"}
  <2>1. \A f \in 1 .. Len(made[p]) : files'[f] = files[f]
    BY <1>3, Noted DEF Apart
  <2>2. \A f \in 1 .. Len(made[p]) - 1 : f \in 1 .. Len(made[p])
    BY <1>3, Noted
  <2>3. pc[p] = "copy" => Len(made[p]) \in 1 .. Len(made[p])
    BY <1>3, Noted
  <2>4. QED BY <1>1, <1>2, <2>1, <2>2, <2>3 DEF Filled
<1>4. CASE pc[p] \notin {"create", "copy", "done"}
  BY <1>1, <1>2, <1>4 DEF Filled
<1>5. QED BY <1>3, <1>4

\* A plan that reached the end of the file ends with it.
LEMMA FillPlanned ==
  ASSUME SplitInv, PlanInv, FillInv, NEW p \in Splitters, Planned(p)
  PROVE  Filled(p)'
<1>1. /\ pc'[p] = "look" /\ LastEnd(p)' = LastEnd(p)
      /\ cursor[p] = LastEnd(p) /\ cursor[p] >= Total
  BY DEF Planned, SplitInv, Files, PlanInv, Cursor, LastEnd
<1>2. LastEnd(p) = Total
  <2>1. CASE ends[p] = << >>
    BY <1>1, <2>1, LengthAssumption DEF LastEnd
  <2>2. CASE ends[p] # << >>
    <3>1. ends[p] \in Seq(Nat) /\ Total \in Nat
      BY PlanTypes
    <3>2. Len(ends[p]) \in 1 .. Len(ends[p])
      BY <2>2, <3>1, EmptySeq
    <3>3. LastEnd(p) <= Total /\ LastEnd(p) \in Nat
      BY <2>2, <3>2, Places DEF LastEnd
    <3>4. QED BY <1>1, <3>1, <3>3
  <2>3. QED BY <2>1, <2>2
<1>3. QED BY <1>1, <1>2 DEF Filled

\* The first part starts at the beginning.
LEMMA FillLooked ==
  ASSUME SplitInv, FillInv, NEW p \in Splitters, Looked(p)
  PROVE  Filled(p)'
<1>1. /\ pc'[p] = "create" /\ cursor'[p] = 0 /\ made'[p] = << >>
      /\ LastEnd(p)' = LastEnd(p) /\ pc[p] = "look"
  BY DEF Looked, SplitInv, Files, Notes, LastEnd
<1>2. Len(made'[p]) = 0
  BY <1>1
<1>3. StartOf(p, 1)' = 0
  BY DEF StartOf
<1>4. LastEnd(p)' = Total
  BY <1>1 DEF FillInv, Filled
<1>5. QED BY <1>1, <1>2, <1>3, <1>4 DEF Filled

\* A new part is empty, and is filled from where it starts.
LEMMA FillCreate ==
  ASSUME SplitInv, PlanInv, FillInv, NEW p \in Splitters, Create(p)
  PROVE  Filled(p)'
<1> DEFINE n == Len(made[p])
<1>1. /\ pc[p] = "create" /\ n \in Nat /\ 1 .. n \subseteq Paths
      /\ LastEnd(p) = Total /\ cursor[p] = StartOf(p, n + 1)
      /\ \A f \in 1 .. n : files[f].bytes = Slice(StartOf(p, f), ends[p][f])
      /\ n < Len(ends[p]) /\ Len(ends[p]) <= MaxParts
  BY Noted, PlanTypes DEF Create, Current, FillInv, Filled
<1>2. n + 1 \in 1 .. Len(ends[p]) /\ n + 1 \in Paths
  BY <1>1, PlanTypes, LengthAssumption DEF Paths
<1>3. /\ files' = [files EXCEPT ![n + 1] = Part(p, << >>)]
      /\ made' = [made EXCEPT ![p] = Append(@, n + 1)]
      /\ pc' = [pc EXCEPT ![p] = "copy"]
      /\ UNCHANGED <<ends, cursor>>
  BY DEF Create, CreateWith, Following
<1>4. /\ pc'[p] = "copy" /\ Len(made'[p]) = n + 1
      /\ files'[n + 1].bytes = << >>
      /\ \A f \in 1 .. n : files'[f] = files[f]
  BY <1>1, <1>2, <1>3 DEF SplitInv, Files, Part
<1>5. LastEnd(p)' = LastEnd(p) /\ \A i : StartOf(p, i)' = StartOf(p, i)
  BY <1>3 DEF LastEnd, StartOf
<1>6. /\ StartOf(p, n + 1) \in Nat /\ ends[p][n + 1] \in Nat
      /\ StartOf(p, n + 1) < ends[p][n + 1]
  BY <1>2, Places
<1>7. Slice(StartOf(p, n + 1), StartOf(p, n + 1)) = << >>
  <2>1. StartOf(p, n + 1) - StartOf(p, n + 1) = 0
    BY <1>6
  <2>2. QED BY <2>1 DEF Slice
<1>8. \A f \in 1 .. (n + 1) - 1 : f \in 1 .. n
  BY <1>1
<1> HIDE DEF n
<1>9. StartOf(p, n + 1) <= cursor[p] /\ cursor[p] <= ends[p][n + 1]
  BY <1>1, <1>6
<1>10. QED BY <1>1, <1>3, <1>4, <1>5, <1>7, <1>8, <1>9 DEF Filled

\* Copying goes on where it was.
LEMMA FillCopy ==
  ASSUME SplitInv, PlanInv, FillInv, NEW p \in Splitters, Copy(p)
  PROVE  Filled(p)'
<1> DEFINE n == Len(made[p])
           from == StartOf(p, n)
           to == ends[p][n]
           next == cursor[p] + Want(p)
<1>1. /\ pc[p] = "copy" /\ n \in Nat /\ 1 .. n \subseteq Paths /\ n \in 1 .. n
      /\ LastEnd(p) = Total /\ from <= cursor[p] /\ cursor[p] <= to
      /\ files[n].bytes = Slice(from, cursor[p])
      /\ \A f \in 1 .. n - 1 : files[f].bytes = Slice(StartOf(p, f), ends[p][f])
      /\ n <= Len(ends[p])
  BY Noted DEF Copy, FillInv, Filled
<1>2. n \in 1 .. Len(ends[p]) /\ n \in Paths
  BY <1>1, PlanTypes
<1>3. /\ files' = [files EXCEPT ![n].bytes = @ \o [i \in 1 .. Want(p) |-> cursor[p] + i - 1]]
      /\ cursor' = [cursor EXCEPT ![p] = next]
      /\ UNCHANGED <<pc, ends, made>>
  BY DEF Copy, Current
<1>4. from \in Nat /\ to \in Nat /\ cursor[p] \in Nat
  BY <1>2, Places, PlanTypes
<1>5. Want(p) \in Nat /\ next \in Nat /\ cursor[p] <= next /\ next <= to
  <2>1. Remaining(p) = to - cursor[p]
    BY DEF Remaining, Current
  <2>2. Buf \in Nat
    BY LengthAssumption
  <2>3. QED BY <1>1, <1>4, <2>1, <2>2 DEF Want
<1>6. [i \in 1 .. Want(p) |-> cursor[p] + i - 1] = Slice(cursor[p], next)
  <2>1. next - cursor[p] = Want(p)
    BY <1>4, <1>5
  <2>2. QED BY <2>1 DEF Slice
<1>7. /\ files'[n].bytes = files[n].bytes \o [i \in 1 .. Want(p) |-> cursor[p] + i - 1]
      /\ \A f \in 1 .. n - 1 : files'[f] = files[f]
      /\ cursor'[p] = next
  <2>1. \A f \in 1 .. n - 1 : f \in Paths /\ f # n
    BY <1>1
  <2>2. QED BY <1>2, <1>3, <2>1 DEF SplitInv, Files
<1>8. files'[n].bytes = Slice(from, next)
  <2>1. Slice(from, cursor[p]) \o Slice(cursor[p], next) = Slice(from, next)
    <3> HIDE DEF next, from
    <3>1. QED BY <1>1, <1>4, <1>5, SliceJoin
  <2>2. QED BY <1>1, <1>6, <1>7, <2>1
<1>9. LastEnd(p)' = LastEnd(p) /\ \A i : StartOf(p, i)' = StartOf(p, i)
  BY <1>3 DEF LastEnd, StartOf
<1>10. from <= next
  BY <1>1, <1>4, <1>5
<1>11. /\ pc'[p] = "copy" /\ Len(made'[p]) = n /\ ends'[p] = ends[p]
       /\ StartOf(p, n)' = from /\ LastEnd(p)' = Total
  BY <1>1, <1>3, <1>9
<1>12. \A f \in 1 .. n - 1 : files'[f].bytes = Slice(StartOf(p, f)', ends'[p][f])
  BY <1>1, <1>7, <1>9, <1>11
<1> HIDE DEF n, next, from
<1>13. /\ StartOf(p, Len(made[p]))' = from
       /\ Len(made'[p]) - 1 = n - 1
  BY <1>11 DEF StartOf, n
<1>14. QED
  <2>1. /\ \A f \in 1 .. Len(made'[p]) - 1 :
             files'[f].bytes = Slice(StartOf(p, f)', ends'[p][f])
        /\ StartOf(p, Len(made[p]))' <= cursor'[p]
        /\ cursor'[p] <= ends'[p][Len(made'[p])]
        /\ files'[Len(made'[p])].bytes = Slice(StartOf(p, Len(made[p]))', cursor'[p])
    BY <1>5, <1>7, <1>8, <1>10, <1>11, <1>12, <1>13 DEF to
  <2>2. QED BY <1>11, <2>1 DEF Filled, StartOf

\* A part is done when it is whole, and so is the last.
LEMMA FillDone ==
  ASSUME SplitInv, PlanInv, FillInv, NEW p \in Splitters, PartDone(p) \/ Complete(p)
  PROVE  Filled(p)'
<1> DEFINE n == Len(made[p])
<1>1. /\ UNCHANGED <<ends, made, cursor, files>>
      /\ LastEnd(p)' = LastEnd(p) /\ \A i : StartOf(p, i)' = StartOf(p, i)
      /\ pc[p] \in {"create", "copy"} /\ LastEnd(p) = Total
  BY DEF PartDone, Complete, LastEnd, StartOf, FillInv, Filled
<1>2. CASE PartDone(p)
  <2>1. /\ pc[p] = "copy" /\ pc'[p] = "create" /\ n \in 1 .. n /\ n <= Len(ends[p])
        /\ ends[p][n] - cursor[p] = 0
        /\ files[n].bytes = Slice(StartOf(p, n), cursor[p])
        /\ \A f \in 1 .. n - 1 : files[f].bytes = Slice(StartOf(p, f), ends[p][f])
    BY <1>2, Noted DEF PartDone, Remaining, Current, SplitInv, Files, FillInv, Filled
  <2>2. n \in 1 .. Len(ends[p])
    BY <1>1, <2>1, Noted, PlanTypes
  <2>3. cursor[p] = ends[p][n] /\ StartOf(p, n + 1) = ends[p][n]
    <3>1. cursor[p] \in Nat /\ ends[p][n] \in Nat
      BY <2>2, Places, PlanTypes
    <3>2. QED BY <2>1, <2>2, <3>1, Places
  <2>4. \A f \in 1 .. n : f \in 1 .. n - 1 \/ f = n
    BY <2>1, <2>2
  <2>5. \A f \in 1 .. n : files[f].bytes = Slice(StartOf(p, f), ends[p][f])
    BY <2>1, <2>3, <2>4
  <2> HIDE DEF n
  <2>6. QED BY <1>1, <2>1, <2>3, <2>5 DEF Filled, n
<1>3. CASE Complete(p)
  <2>1. /\ pc[p] = "create" /\ pc'[p] = "done" /\ n = Len(ends[p])
        /\ \A f \in 1 .. n : files[f].owner = p
        /\ \A f \in 1 .. n : files[f].bytes = Slice(StartOf(p, f), ends[p][f])
    BY <1>3, Noted DEF Complete, Current, SplitInv, Files, FillInv, Filled
  <2>2. QED BY <1>1, <2>1 DEF Filled
<1>4. QED BY <1>2, <1>3

\* Every step keeps the parts filled with the bytes of the plan up to the cursor.
LEMMA StepFill ==
  ASSUME SplitInv, PlanInv, FillInv, [Next]_vars
  PROVE  FillInv'
<1>1. ASSUME NEW q \in Splitters, Work(q) \/ IoFails(q) \/ Killed(q) PROVE FillInv'
  <2>1. Apart(q)
    BY <1>1, StepPlan, StepCreate, StepCopy, StepQuiet, StepRemove
       DEF Work, Write, CleanUp
  <2>2. \A p \in Splitters \ {q} : cursor'[p] = cursor[p]
    <3>1. cursor' = cursor \/ cursor' = [cursor EXCEPT ![q] = cursor'[q]]
      <4>1. CASE Plan(q) \/ Survey(q)
        BY <4>1 DEF SplitInv, Files, Plan, Survey, Open, OpenRefuses, Cut, TooMany,
                    Indivisible, Planned, Refuse, Look, LookRefuses, Looked
      <4>2. CASE Write(q)
        BY <4>2 DEF SplitInv, Files, Write, Create, CreateWith, CreateRefused, Copy,
                    PartDone, Complete
      <4>3. CASE CleanUp(q) \/ IoFails(q) \/ Killed(q)
        BY <4>3 DEF CleanUp, RemovePart, RemoveFails, CleanedUp, IoFails, Killed
      <4>4. QED BY <1>1, <4>1, <4>2, <4>3 DEF Work
    <3>2. QED BY <3>1 DEF SplitInv, Files
  <2>3. \A p \in Splitters \ {q} : Filled(p)'
    BY <2>1, <2>2, FillBystander
  <2>4. Filled(q)'
    <3>1. CASE Planned(q)
      BY <3>1, FillPlanned
    <3>2. CASE Looked(q)
      BY <3>2, FillLooked
    <3>3. CASE Create(q)
      BY <3>3, FillCreate
    <3>4. CASE Copy(q)
      BY <3>4, FillCopy
    <3>5. CASE PartDone(q) \/ Complete(q)
      BY <3>5, FillDone
    <3>6. CASE Look(q)
      BY <3>6 DEF Look, SplitInv, Files, FillInv, Filled, LastEnd
    <3>7. CASE pc'[q] \in {"plan", "failed", "cleanup", "killed"}
      BY <3>7 DEF Filled
    <3>8. QED
      <4>1. CASE Open(q) \/ OpenRefuses(q) \/ Cut(q) \/ TooMany(q) \/ Indivisible(q)
                 \/ LookRefuses(q) \/ CreateRefused(q) \/ CleanUp(q) \/ IoFails(q) \/ Killed(q)
        BY <3>7, <4>1
           DEF SplitInv, Files, Open, OpenRefuses, Cut, TooMany, Indivisible, Refuse,
               LookRefuses, CreateRefused, CleanUp, RemovePart, RemoveFails, CleanedUp,
               IoFails, Killed
      <4>2. QED BY <1>1, <3>1, <3>2, <3>3, <3>4, <3>5, <3>6, <4>1
                DEF Work, Plan, Survey, Write
  <2>5. QED BY <2>3, <2>4 DEF FillInv
<1>2. ASSUME NEW f \in Paths, Intrude(f) PROVE FillInv'
  <2>1. Apart(Foreign) /\ UNCHANGED cursor
    BY <1>2, StepIntrude DEF Intrude
  <2>2. \A p \in Splitters \ {Foreign} : Filled(p)'
    BY <2>1, FillBystander
  <2>3. QED BY <2>2, OwnersAssumption DEF FillInv
<1>3. CASE UNCHANGED vars
  <2>1. ASSUME NEW p \in Splitters PROVE Filled(p)'
    <3>1. /\ UNCHANGED <<pc, ends, made, cursor, files>> /\ LastEnd(p)' = LastEnd(p)
          /\ \A i : StartOf(p, i)' = StartOf(p, i)
      BY <1>3 DEF vars, LastEnd, StartOf
    <3>2. QED BY <3>1 DEF FillInv, Filled
  <2>2. QED BY <2>1 DEF FillInv
<1>4. QED BY <1>1, <1>2, <1>3 DEF Next

\* The parts of a complete plan, one after the other, are the archive.
LEMMA PartsAreWhole ==
  ASSUME SplitInv, PlanInv, FillInv, NEW p \in Splitters, pc[p] = "done"
  PROVE  FlattenSeq([i \in 1 .. Len(ends[p]) |-> files[i].bytes])
           = [i \in 1 .. Total |-> i - 1]
<1> DEFINE n == Len(ends[p])
           s == [i \in 1 .. n |-> files[i].bytes]
           F == [i \in 1 .. n |-> Slice(0, ends[p][i])]
<1>1. /\ \A i \in 1 .. n : files[i].bytes = Slice(StartOf(p, i), ends[p][i])
      /\ LastEnd(p) = Total
  BY DEF FillInv, Filled
<1>2. n \in Nat \ {0} /\ n \in 1 .. n /\ ends[p][n] = Total
  <2>1. ends[p] # << >>
    BY <1>1, LengthAssumption DEF LastEnd
  <2>2. ends[p] \in Seq(Nat)
    BY PlanTypes
  <2>3. QED BY <1>1, <2>1, <2>2, EmptySeq DEF LastEnd
<1>3. ASSUME NEW i \in 1 .. n
      PROVE  F[i] = IF i = 1 THEN s[i] ELSE F[i - 1] \o s[i]
  <2>1. s[i] = Slice(StartOf(p, i), ends[p][i])
    BY <1>1
  <2>2. CASE i = 1
    BY <2>1, <2>2 DEF StartOf
  <2>3. CASE i # 1
    <3>1. i - 1 \in 1 .. n /\ StartOf(p, i) = ends[p][i - 1]
      BY <1>2, <2>3 DEF StartOf
    <3>2. F[i - 1] = Slice(0, ends[p][i - 1])
      BY <3>1
    <3>3. /\ ends[p][i] \in Nat /\ ends[p][i - 1] \in Nat /\ 0 \in Nat
          /\ 0 <= ends[p][i - 1] /\ ends[p][i - 1] <= ends[p][i]
      BY <3>1, Places
    <3>4. Slice(0, ends[p][i - 1]) \o Slice(ends[p][i - 1], ends[p][i]) = Slice(0, ends[p][i])
      BY <3>3, SliceJoin
    <3>5. QED BY <2>1, <2>3, <3>1, <3>2, <3>4
  <2>4. QED BY <2>2, <2>3
<1>4. \A i \in 1 .. n : F[i] = IF i = 1 THEN s[i] ELSE F[i - 1] \o s[i]
  BY <1>3
<1>5. Len(s) = n
  BY <1>2
<1>6. F[n] = Slice(0, Total)
  BY <1>2
<1>7. Slice(0, Total) = [i \in 1 .. Total |-> i - 1]
  <2>1. Total \in Nat /\ Total - 0 = Total /\ \A i \in 1 .. Total : 0 + i - 1 = i - 1
    BY LengthAssumption
  <2>2. QED BY <2>1 DEF Slice
<1> HIDE DEF F, s, n
<1>8. FlattenSeq(s) = F[n]
  BY <1>2, <1>4, <1>5, FlattenIs
<1>9. QED BY <1>6, <1>7, <1>8 DEF s, n

\* Once an invocation has succeeded its parts, one after the other, are the
\* archive, byte for byte, and stay, whoever fails, is killed or competes.
THEOREM PartsReassemble == Spec => []DoneReassembles
<1>1. Init => FillInv
  BY DEF Init, FillInv, Filled
<1>2. SplitInv /\ PlanInv /\ FillInv => DoneReassembles
  BY PartsAreWhole DEF DoneReassembles
<1>3. QED BY <1>1, <1>2, StepFill, SplitInvariance, PlanInvariance, PTL DEF Spec
=============================================================================
