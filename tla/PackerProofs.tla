---------------------------- MODULE PackerProofs ----------------------------
(***************************************************************************)
(* For any entries, any capacities of the pipes and whatever the children   *)
(* do: nothing but a finished archive is published, and a run that ends has *)
(* collected its children and its directory.                               *)
(***************************************************************************)
EXTENDS Packer, CommonLemmas

Fields == {"child", "reaped", "heir", "stdin", "probed", "writes", "pipe", "got",
           "err", "drain", "out"}

\* What the handles on one child may look like.
Sane(j) ==
    /\ DOMAIN j = Fields
    /\ j = [f \in Fields |-> j[f]]
    /\ j.child = "none" <=> j.drain = "none"
    /\ j.reaped \in BOOLEAN
    /\ j.reaped => j.child \in {"ok", "bad"}
    /\ j.drain = "joined" => j.reaped

JobsSane ==
    /\ job = [k \in Kinds |-> job[k]]
    /\ \A k \in Kinds : Sane(job[k])

\* The indexes of whose child nothing is left, or that never had one.
Settled == {k \in Kinds : job[k].child = "none" \/ job[k].drain = "joined"}

\* What no step on the children undoes.
KeepsJobs ==
    /\ JobsSane'
    /\ \A k \in Kinds :
         /\ job'[k].child = "none" <=> job[k].child = "none"
         /\ job[k].drain = "joined" => job'[k].drain = "joined"

----------------------------------------------------------------------------
(* The children and the handles on them *)

\* A change of one child's record that keeps it sane keeps the others.
LEMMA OneJob ==
  ASSUME JobsSane, NEW k \in Kinds, NEW j, Sane(j),
         job' = [job EXCEPT ![k] = j],
         j.child = "none" <=> job[k].child = "none",
         job[k].drain = "joined" => j.drain = "joined"
  PROVE  KeepsJobs
<1>1. job' = [l \in Kinds |-> IF l = k THEN j ELSE job[l]]
  BY DEF JobsSane
<1>2. QED BY <1>1 DEF KeepsJobs, JobsSane, Settled

\* A child that was collected, or never was, stays so.
LEMMA StaysSettled ==
  ASSUME KeepsJobs, NEW k \in Kinds, k \in Settled
  PROVE  k \in Settled'
<1>1. job[k].child = "none" \/ job[k].drain = "joined"
  BY DEF Settled
<1>2. /\ job'[k].child = "none" <=> job[k].child = "none"
      /\ job[k].drain = "joined" => job'[k].drain = "joined"
  BY DEF KeepsJobs
<1>3. QED BY <1>1, <1>2 DEF Settled

\* The child, a grandchild and the drain thread.
LEMMA StepEnvironment ==
  ASSUME JobsSane, NEW k \in Kinds, Environment(k)
  PROVE  KeepsJobs
<1>1. Sane(job[k])
  BY DEF JobsSane
<1>2. CASE Read(k)
  <2>1. PICK next \in {"reading", "talking"} :
          job' = [job EXCEPT ![k].pipe = Tail(@), ![k].got = Append(@, Head(job[k].pipe)),
                             ![k].child = next]
    BY <1>2 DEF Read
  <2> DEFINE j == [job[k] EXCEPT !.pipe = Tail(@), !.got = Append(@, Head(job[k].pipe)),
                                 !.child = next]
  <2>2. job' = [job EXCEPT ![k] = j]
    BY <2>1 DEF JobsSane
  <2>3. Sane(j) /\ j.child # "none" /\ j.drain = job[k].drain /\ job[k].child # "none"
    BY <1>1, <1>2 DEF Read, Sane, Fields
  <2>4. QED BY <2>2, <2>3, OneJob
<1>3. CASE Talk(k)
  <2> DEFINE j == [job[k] EXCEPT !.err = @ + 1, !.child = "reading"]
  <2>1. job' = [job EXCEPT ![k] = j]
    BY <1>3 DEF Talk, JobsSane
  <2>2. Sane(j) /\ j.child # "none" /\ j.drain = job[k].drain /\ job[k].child # "none"
    BY <1>1, <1>3 DEF Talk, Sane, Fields
  <2>3. QED BY <2>1, <2>2, OneJob
<1>4. CASE Succeed(k)
  <2>1. PICK size \in {"empty", "full"}, h \in BOOLEAN :
          job' = [job EXCEPT ![k].child = "ok", ![k].out = size, ![k].heir = h]
    BY <1>4 DEF Succeed
  <2> DEFINE j == [job[k] EXCEPT !.child = "ok", !.out = size, !.heir = h]
  <2>2. job' = [job EXCEPT ![k] = j]
    BY <2>1 DEF JobsSane
  <2>3. Sane(j) /\ j.child # "none" /\ j.drain = job[k].drain /\ job[k].child # "none"
    BY <1>1, <1>4 DEF Succeed, Sane, Fields
  <2>4. QED BY <2>2, <2>3, OneJob
<1>5. CASE FailChild(k)
  <2>1. PICK size \in {"none", "partial"}, h \in BOOLEAN :
          job' = [job EXCEPT ![k].child = "bad", ![k].out = size, ![k].heir = h]
    BY <1>5 DEF FailChild
  <2> DEFINE j == [job[k] EXCEPT !.child = "bad", !.out = size, !.heir = h]
  <2>2. job' = [job EXCEPT ![k] = j]
    BY <2>1 DEF JobsSane
  <2>3. Sane(j) /\ j.child # "none" /\ j.drain = job[k].drain /\ job[k].child # "none"
    BY <1>1, <1>5 DEF FailChild, Alive, Sane, Fields
  <2>4. QED BY <2>2, <2>3, OneJob
<1>6. CASE HeirExits(k)
  <2> DEFINE j == [job[k] EXCEPT !.heir = FALSE]
  <2>1. job' = [job EXCEPT ![k] = j]
    BY <1>6 DEF HeirExits, JobsSane
  <2>2. Sane(j) /\ j.child = job[k].child /\ j.drain = job[k].drain
    BY <1>1 DEF Sane, Fields
  <2>3. QED BY <2>1, <2>2, OneJob
<1>7. CASE Drain(k)
  <2> DEFINE less == [job[k] EXCEPT !.err = @ - 1]
             done == [job[k] EXCEPT !.drain = "done"]
  <2>1. job' = [job EXCEPT ![k] = less] \/ job' = [job EXCEPT ![k] = done]
    BY <1>7 DEF Drain, JobsSane
  <2>2. Sane(less) /\ less.child = job[k].child /\ less.drain = job[k].drain
    BY <1>1 DEF Sane, Fields
  <2>3. Sane(done) /\ done.child = job[k].child /\ job[k].drain # "joined"
    BY <1>1, <1>7 DEF Drain, Sane, Fields
  <2>4. QED BY <2>1, <2>2, <2>3, OneJob
<1>8. QED BY <1>2, <1>3, <1>4, <1>5, <1>6, <1>7 DEF Environment, ChildStep

\* Feeding a child.
LEMMA StepFeed ==
  ASSUME JobsSane, NEW k \in Kinds, NEW doc, Probe(k) \/ Put(k, doc) \/ PutFails(k)
  PROVE  KeepsJobs
<1>1. Sane(job[k])
  BY DEF JobsSane
<1>2. CASE Probe(k)
  <2> DEFINE due == job[k].writes + 1 >= ProbeEvery
             gone == due /\ Exited(k)
             j == [job[k] EXCEPT !.writes = IF due THEN 0 ELSE @ + 1,
                                 !.probed = ~gone, !.stdin = ~gone, !.reaped = @ \/ gone]
  <2>1. job' = [job EXCEPT ![k] = j]
    BY <1>2 DEF Probe, JobsSane
  <2>2. gone => job[k].child \in {"ok", "bad"}
    BY DEF Exited
  <2> HIDE DEF due, gone
  <2>3. Sane(j) /\ j.child = job[k].child /\ j.drain = job[k].drain
    BY <1>1, <2>2 DEF Sane, Fields
  <2>4. QED BY <2>1, <2>3, OneJob
<1>3. CASE Put(k, doc)
  <2> DEFINE j == [job[k] EXCEPT !.pipe = Append(@, doc), !.probed = FALSE]
  <2>1. job' = [job EXCEPT ![k] = j]
    BY <1>3 DEF Put, JobsSane
  <2>2. Sane(j) /\ j.child = job[k].child /\ j.drain = job[k].drain
    BY <1>1 DEF Sane, Fields
  <2>3. QED BY <2>1, <2>2, OneJob
<1>4. CASE PutFails(k)
  <2> DEFINE j == [job[k] EXCEPT !.stdin = FALSE, !.probed = FALSE]
  <2>1. job' = [job EXCEPT ![k] = j]
    BY <1>4 DEF PutFails, JobsSane
  <2>2. Sane(j) /\ j.child = job[k].child /\ j.drain = job[k].drain
    BY <1>1 DEF Sane, Fields
  <2>3. QED BY <2>1, <2>2, OneJob
<1>5. QED BY <1>2, <1>3, <1>4

\* Closing, killing and waiting.
LEMMA StepReap ==
  ASSUME JobsSane, NEW k \in Kinds,
         CloseAll \/ (job[k].child # "none" /\ Kill(k)) \/ Wait(k) \/ Join(k)
  PROVE  KeepsJobs
<1>1. Sane(job[k])
  BY DEF JobsSane
<1>2. CASE CloseAll
  <2> DEFINE closed(l) == [job[l] EXCEPT !.stdin = FALSE, !.probed = FALSE]
  <2>1. job' = [l \in Kinds |-> closed(l)]
    BY <1>2 DEF CloseAll
  <2>2. ASSUME NEW l \in Kinds
        PROVE  Sane(closed(l)) /\ closed(l).child = job[l].child /\ closed(l).drain = job[l].drain
    <3>1. Sane(job[l])
      BY DEF JobsSane
    <3>2. QED BY <3>1 DEF Sane, Fields
  <2> HIDE DEF closed
  <2>3. QED BY <2>1, <2>2 DEF KeepsJobs, JobsSane, Settled
<1>3. CASE job[k].child # "none" /\ Kill(k)
  <2>1. PICK h \in BOOLEAN :
          job' = [job EXCEPT ![k].stdin = FALSE, ![k].probed = FALSE,
                             ![k].child = IF Alive(k) THEN "bad" ELSE @,
                             ![k].heir = @ \/ (Alive(k) /\ h)]
    BY <1>3 DEF Kill
  <2> DEFINE j == [job[k] EXCEPT !.stdin = FALSE, !.probed = FALSE,
                                 !.child = IF Alive(k) THEN "bad" ELSE @,
                                 !.heir = @ \/ (Alive(k) /\ h)]
  <2>2. job' = [job EXCEPT ![k] = j]
    BY <2>1 DEF JobsSane
  <2>3. Sane(j) /\ j.child # "none" /\ j.drain = job[k].drain
    BY <1>1, <1>3 DEF Alive, Sane, Fields
  <2>4. QED BY <1>3, <2>2, <2>3, OneJob
<1>4. CASE Wait(k)
  <2> DEFINE j == [job[k] EXCEPT !.reaped = TRUE]
  <2>1. job' = [job EXCEPT ![k] = j]
    BY <1>4 DEF Wait, JobsSane
  <2>2. Sane(j) /\ j.child = job[k].child /\ j.drain = job[k].drain
    BY <1>1, <1>4 DEF Wait, Exited, Sane, Fields
  <2>3. QED BY <2>1, <2>2, OneJob
<1>5. CASE Join(k)
  <2> DEFINE j == [job[k] EXCEPT !.drain = "joined"]
  <2>1. job' = [job EXCEPT ![k] = j]
    BY <1>5 DEF Join, JobsSane
  <2>2. Sane(j) /\ j.child = job[k].child /\ j.drain = "joined"
    BY <1>1, <1>5 DEF Join, Sane, Fields
  <2>3. QED BY <2>1, <2>2, OneJob
<1>6. QED BY <1>2, <1>3, <1>4, <1>5

\* The children that are spawned, and those that are not.
LEMMA FreshJobs ==
  /\ Sane(NoJob) /\ NoJob.child = "none"
  /\ Sane(Spawned) /\ Spawned.child # "none" /\ Spawned.drain # "joined"
  /\ \A h \in BOOLEAN :
       LET j == [Spawned EXCEPT !.stdin = FALSE, !.child = "bad", !.heir = h]
       IN  Sane(j)
BY DEF Sane, NoJob, Spawned, Fields

----------------------------------------------------------------------------
(* The invariant of the run *)

Early == {"check", "mkdir"}
Owning == {"start", "spawn", "unspawn", "metadata", "work", "finish", "rename",
           "unwind", "reap", "clean"}

Was == IF place = "hardlink" THEN "source" ELSE place

\* Only the rename touches the destination, and nothing fails after it.
Destination ==
    /\ pc \in Early \cup Owning \cup {"ok", "failed", "crashed"}
    /\ source = "whole"
    /\ place \in {"none", "old", "hardlink", "source"}
    /\ dest \in {"new", Was}
    /\ dest = "new" => pc \in {"clean", "ok", "crashed"}
    /\ pc = "ok" => dest = "new"

\* The run's own directory is not one that it found, and it is gone at the end
\* if it could be removed.
Directories ==
    /\ taken \in Leftovers
    /\ pc \in Early => mine = {} /\ dirs = taken
    /\ pc \in Owning => mine # {} /\ mine \cap taken = {} /\ dirs = taken \cup mine
    /\ Ended => dirs = taken \cup stuck
    /\ stuck \subseteq mine
    /\ ~Ended => stuck = {}

\* Where which children have been collected.
Collected ==
    /\ JobsSane
    /\ pc \in {"check", "mkdir", "start", "spawn"} => job = NoJobs
    /\ pc = "finish" => \A k \in Kinds \ waiting : k \in Settled
    /\ pc \in {"rename", "clean", "ok", "failed"} => \A k \in Kinds : k \in Settled

PackerInv == Destination /\ Directories /\ Collected

\* Before the first child is spawned there is none to collect.
LEMMA NobodyIsSettled ==
  /\ job = NoJobs => JobsSane /\ \A k \in Kinds : k \in Settled
  /\ job' = NoJobs => JobsSane' /\ \A k \in Kinds : k \in Settled'
BY FreshJobs DEF NoJobs, JobsSane, Settled

\* A step on the children alone.
LEMMA StepJobs ==
  ASSUME PackerInv, KeepsJobs, UNCHANGED run, pc \notin {"check", "mkdir", "start", "spawn"}
  PROVE  PackerInv'
<1>1. Destination' /\ Directories'
  BY DEF run, Given, PackerInv, Destination, Directories, Was, Ended
<1>2. Collected'
  <2>1. pc' = pc /\ waiting' = waiting
    BY DEF run
  <2>2. QED BY <2>1, StaysSettled DEF PackerInv, Collected, KeepsJobs
<1>3. QED BY <1>1, <1>2 DEF PackerInv

\* The invariant holds before the run has looked at its destination.
LEMMA PackerInit ==
  ASSUME Init
  PROVE  PackerInv
<1>1. Destination /\ Directories
  BY DEF Init, Destination, Directories, Early, Owning, Was, Ended
<1>2. Collected
  BY NobodyIsSettled DEF Init, Collected
<1>3. QED BY <1>1, <1>2 DEF PackerInv

\* Before the first operation.
LEMMA StepEarly ==
  ASSUME PackerInv, Check \/ MakeDir \/ Start \/ Spawn \/ Metadata
  PROVE  PackerInv'
<1>1. CASE Check
  <2>1. pc' \in {"mkdir", "failed"} /\ dest # "new"
    BY <1>1 DEF Check, Go, Unwind, PackerInv, Destination, Directories, Early
  <2>2. QED BY <1>1, <2>1, NobodyIsSettled
            DEF Check, Given, PackerInv, Destination, Directories, Collected, Early, Owning,
                Was, Ended, JobsSane, Settled
<1>2. CASE MakeDir
  <2>1. mine = {} /\ dirs = taken /\ job = NoJobs /\ job' = job /\ dest # "new"
    BY <1>2 DEF MakeDir, PackerInv, Destination, Directories, Collected, Early
  <2>2. Collected'
    BY <1>2, <2>1, NobodyIsSettled DEF MakeDir, Go, Unwind, Collected
  <2>3. Min(Attempts \ dirs) \notin taken
    <3>1. Attempts \ dirs \in SUBSET Nat /\ Attempts \ dirs # {}
      BY <2>1, AttemptAssumption DEF PackerInv, Directories
    <3>2. Min(Attempts \ dirs) \in Attempts \ dirs
      BY <3>1, MinOfNaturals
    <3>3. QED BY <2>1, <3>2
  <2>4. Directories'
    BY <1>2, <2>1, <2>3
       DEF MakeDir, Given, Go, Unwind, PackerInv, Directories, Early, Owning, Ended
  <2>5. Destination'
    BY <1>2, <2>1 DEF MakeDir, Given, Go, Unwind, PackerInv, Destination, Early, Owning, Was
  <2>6. QED BY <2>2, <2>4, <2>5 DEF PackerInv
<1>3. CASE Start
  <2>1. mine # {} /\ dest # "new" /\ job = NoJobs /\ job' = job /\ pc' \in {"spawn", "unwind"}
    BY <1>3 DEF Start, Go, Unwind, PackerInv, Destination, Directories, Collected, Owning
  <2>2. Collected'
    BY <2>1, NobodyIsSettled DEF Collected
  <2>3. QED BY <1>3, <2>1, <2>2
            DEF Start, Given, PackerInv, Destination, Directories, Early, Owning, Was, Ended
<1>4. CASE Spawn
  <2>1. mine # {} /\ dest # "new" /\ job = NoJobs /\ pc' \in {"metadata", "unspawn"}
    BY <1>4 DEF Spawn, Go, PackerInv, Destination, Directories, Collected, Owning
  <2>2. JobsSane'
    <3>1. CASE job' = [k \in Kinds |-> IF k \in wanted THEN Spawned ELSE NoJob]
      BY <3>1, FreshJobs DEF JobsSane
    <3>2. CASE job' = job
      BY <2>1, <3>2, NobodyIsSettled
    <3>3. ASSUME NEW h \in BOOLEAN,
                 job' = [job EXCEPT !["fulltext"] =
                           [Spawned EXCEPT !.stdin = FALSE, !.child = "bad", !.heir = h]]
          PROVE  JobsSane'
      <4> DEFINE j == [Spawned EXCEPT !.stdin = FALSE, !.child = "bad", !.heir = h]
      <4>1. Sane(j)
        BY FreshJobs
      <4>2. job' = [k \in Kinds |-> IF k = "fulltext" THEN j ELSE NoJob]
        BY <2>1, <3>3 DEF NoJobs, Kinds
      <4> HIDE DEF j
      <4>3. QED BY <4>1, <4>2, FreshJobs DEF JobsSane
    <3>4. QED BY <1>4, <3>1, <3>2, <3>3 DEF Spawn
  <2>3. Collected'
    BY <2>1, <2>2 DEF Collected
  <2>4. QED BY <1>4, <2>1, <2>3
            DEF Spawn, Given, PackerInv, Destination, Directories, Early, Owning, Was, Ended
<1>5. CASE Metadata
  <2>1. mine # {} /\ dest # "new" /\ job' = job /\ pc' \in {"work", "unwind"}
    BY <1>5 DEF Metadata, Go, Unwind, PackerInv, Destination, Directories, Owning
  <2>2. Collected'
    BY <2>1 DEF PackerInv, Collected, JobsSane
  <2>3. QED BY <1>5, <2>1, <2>2
            DEF Metadata, Given, PackerInv, Destination, Directories, Early, Owning, Was, Ended
<1>6. QED BY <1>1, <1>2, <1>3, <1>4, <1>5

\* The operations.
LEMMA StepWork ==
  ASSUME PackerInv, AddEntry \/ FeedNobody \/ FeedProbe \/ FeedPut \/ FeedFails
  PROVE  PackerInv'
<1>1. /\ pc = "work" /\ mine # {} /\ mine' = mine /\ dest # "new" /\ dest' = dest
      /\ source' = source /\ dirs' = dirs /\ stuck' = stuck /\ Given' = Given
      /\ pc' \in {"work", "unwind"}
  BY DEF AddEntry, FeedNobody, FeedProbe, FeedPut, FeedFails, AtWork, Rest, Unwind,
         PackerInv, Destination, Directories, Owning
<1>2. JobsSane
  BY DEF PackerInv, Collected
<1>3. JobsSane'
  <2>1. CASE AddEntry \/ FeedNobody
    BY <1>2, <2>1 DEF AddEntry, FeedNobody, JobsSane
  <2>2. CASE FeedProbe \/ FeedPut \/ FeedFails
    BY <1>2, <2>2, StepFeed DEF FeedProbe, FeedPut, FeedFails, KeepsJobs
  <2>3. QED BY <2>1, <2>2
<1>4. Collected'
  BY <1>1, <1>3 DEF Collected
<1>5. Destination' /\ Directories'
  BY <1>1 DEF Given, PackerInv, Destination, Directories, Early, Owning, Was, Ended
<1>6. QED BY <1>4, <1>5 DEF PackerInv

\* finish, and what is left to do when the children are done.
LEMMA StepFinish ==
  ASSUME PackerInv, Finish \/ WaitForChild \/ JoinThread \/ Unspawned \/ Seal \/ Publish
  PROVE  PackerInv'
<1>1. JobsSane
  BY DEF PackerInv, Collected
<1>2. Turn \in Kinds
  BY DEF Turn, Kinds
<1>3. CASE Finish
  <2>1. KeepsJobs
    BY <1>1, <1>2, <1>3, StepReap DEF Finish
  <2>2. \A k \in Kinds \ Children : k \in Settled
    BY DEF Children, Settled
  <2>3. Collected'
    BY <1>3, <2>1, <2>2, StaysSettled DEF Finish, Go, Collected, KeepsJobs
  <2>4. QED BY <1>3, <2>3
            DEF Finish, Go, Given, PackerInv, Destination, Directories, Early, Owning, Was, Ended
<1>4. CASE WaitForChild
  <2>1. KeepsJobs
    BY <1>1, <1>2, <1>4, StepReap DEF WaitForChild
  <2>2. QED BY <1>4, <2>1, StepJobs DEF WaitForChild
<1>5. CASE JoinThread
  <2>1. KeepsJobs
    BY <1>1, <1>2, <1>5, StepReap DEF JoinThread
  <2>2. PICK t \in Kinds : t = Turn
    BY <1>2
  <2>3. t \in Settled'
    <3>1. job' = [job EXCEPT ![t] = [job[t] EXCEPT !.drain = "joined"]] /\ Sane(job[t])
      BY <1>1, <2>2, <1>5 DEF JoinThread, Join, JobsSane
    <3>2. job'[t] = [job[t] EXCEPT !.drain = "joined"]
      BY <1>1, <3>1 DEF JobsSane
    <3>3. job'[t].drain = "joined"
      BY <3>1, <3>2 DEF Sane, Fields
    <3>4. QED BY <3>3 DEF Settled
  <2>4. Collected'
    <3>1. /\ waiting' = waiting \ {t} /\ pc' = pc
          /\ pc \in {"finish", "reap", "unspawn"}
      BY <1>5, <2>2 DEF JoinThread
    <3>2. ASSUME pc = "finish", NEW k \in Kinds \ waiting'
          PROVE  k \in Settled'
      <4>1. CASE k = t
        BY <2>3, <4>1
      <4>2. CASE k \in Settled
        BY <2>1, <4>2, StaysSettled
      <4>3. QED BY <3>1, <3>2, <4>1, <4>2 DEF PackerInv, Collected
    <3>3. QED BY <2>1, <3>1, <3>2 DEF Collected, KeepsJobs
  <2>5. QED BY <1>5, <2>4
            DEF JoinThread, Given, PackerInv, Destination, Directories, Early, Owning, Was, Ended
<1>6. CASE Unspawned
  <2>1. Collected'
    BY <1>6, NobodyIsSettled DEF Unspawned, Go, Collected
  <2>2. QED BY <1>6, <2>1
            DEF Unspawned, Go, Given, PackerInv, Destination, Directories, Early, Owning, Was,
                Ended
<1>7. CASE Seal
  <2>1. mine # {} /\ pc' \in {"rename", "unwind"} /\ job' = job /\ dest # "new"
    BY <1>7 DEF Seal, Go, Unwind, PackerInv, Destination, Directories, Owning
  <2>2. \A k \in Kinds : k \in Settled
    BY <1>7 DEF Seal, PackerInv, Collected
  <2>3. Collected'
    BY <1>1, <2>1, <2>2 DEF Collected, JobsSane, Settled
  <2>4. QED BY <1>7, <2>1, <2>3
            DEF Seal, Given, PackerInv, Destination, Directories, Early, Owning, Was, Ended
<1>8. CASE Publish
  <2>1. /\ mine # {} /\ pc' \in {"clean", "unwind"} /\ job' = job /\ dest # "new"
        /\ (dest' = "new" /\ pc' = "clean") \/ dest' = dest
    BY <1>8 DEF Publish, Go, Unwind, PackerInv, Destination, Directories, Owning
  <2>2. \A k \in Kinds : k \in Settled
    BY <1>8 DEF Publish, PackerInv, Collected
  <2>3. Collected'
    BY <1>1, <2>1, <2>2 DEF Collected, JobsSane, Settled
  <2>4. QED BY <1>8, <2>1, <2>3
            DEF Publish, Given, PackerInv, Destination, Directories, Early, Owning, Was, Ended
<1>9. QED BY <1>3, <1>4, <1>5, <1>6, <1>7, <1>8

\* Unwinding, and the end.
LEMMA StepDrop ==
  ASSUME PackerInv, DropHelper \/ Reaped \/ RemoveDir \/ Crash
  PROVE  PackerInv'
<1>1. JobsSane
  BY DEF PackerInv, Collected
<1>2. CASE DropHelper
  <2> DEFINE live == {k \in Children : job[k].drain # "joined"}
  <2>1. /\ pc = "unwind" /\ dest # "new" /\ dest' = dest /\ source' = source
        /\ dirs' = dirs /\ mine' = mine /\ stuck' = stuck /\ Given' = Given
    BY <1>2 DEF DropHelper, PackerInv, Destination
  <2>2. CASE live = {} /\ pc' = "clean" /\ job' = job
    <3>1. \A k \in Kinds : k \in Settled
      BY <2>2 DEF Children, Settled
    <3>2. Collected'
      BY <1>1, <2>2, <3>1 DEF Collected, JobsSane, Settled
    <3>3. QED BY <2>1, <2>2, <3>2
              DEF Given, PackerInv, Destination, Directories, Early, Owning, Was, Ended
  <2>3. ASSUME NEW k \in live, Kill(k), pc' = "reap"
        PROVE  PackerInv'
    <3>1. k \in Kinds /\ job[k].child # "none"
      BY DEF Children
    <3>2. KeepsJobs
      BY <1>1, <2>3, <3>1, StepReap
    <3>3. Collected'
      BY <2>3, <3>2 DEF Collected, KeepsJobs
    <3>4. QED BY <2>1, <2>3, <3>3
              DEF Given, PackerInv, Destination, Directories, Early, Owning, Was, Ended
  <2>4. QED BY <1>2, <2>2, <2>3 DEF DropHelper, Go
<1>3. CASE Reaped
  <2>1. Collected'
    BY <1>1, <1>3 DEF Reaped, Go, Collected, JobsSane
  <2>2. QED BY <1>3, <2>1
            DEF Reaped, Go, Given, PackerInv, Destination, Directories, Early, Owning, Was, Ended
<1>4. CASE RemoveDir
  <2>1. pc = "clean" /\ \A k \in Kinds : k \in Settled
    BY <1>4 DEF RemoveDir, PackerInv, Collected
  <2>2. \A k \in Kinds : ~Alive(k)
    BY <1>1, <2>1 DEF JobsSane, Sane, Settled, Alive
  <2>3. \/ dirs' = dirs \ mine /\ stuck' = stuck
        \/ dirs' = dirs /\ stuck' = mine
    BY <1>4, <2>2 DEF RemoveDir
  <2>4. dirs' = taken \cup stuck' /\ stuck' \subseteq mine
    BY <2>1, <2>3 DEF PackerInv, Directories, Owning, Ended
  <2>5. Collected'
    BY <1>1, <1>4, <2>1 DEF RemoveDir, Collected, JobsSane, Settled
  <2>6. QED BY <1>4, <2>1, <2>4, <2>5
            DEF RemoveDir, Given, PackerInv, Destination, Directories, Early, Owning, Was, Ended
<1>5. CASE Crash
  <2>1. Collected'
    BY <1>5, NobodyIsSettled DEF Crash, Go, Collected
  <2>2. QED BY <1>5, <2>1
            DEF Crash, Go, Given, PackerInv, Destination, Directories, Early, Owning, Was, Ended
<1>6. QED BY <1>2, <1>3, <1>4, <1>5

\* What a child does while the run goes on, or after its end.
LEMMA StepOthers ==
  ASSUME PackerInv, NEW k \in Kinds, Others(k)
  PROVE  PackerInv'
<1>1. JobsSane /\ Environment(k) /\ UNCHANGED run
  BY DEF Others, PackerInv, Collected
<1>2. pc \notin {"check", "mkdir", "start", "spawn"}
  <2>1. SUFFICES ASSUME job = NoJobs PROVE FALSE
    BY DEF PackerInv, Collected
  <2>2. job[k].child = "none" /\ job[k].drain = "none" /\ job[k].heir = FALSE
    BY <2>1 DEF NoJobs, NoJob
  <2>3. QED BY <1>1, <2>2
            DEF Environment, ChildStep, Read, Talk, Succeed, FailChild, Alive, HeirExits, Drain
<1>3. QED BY <1>1, <1>2, StepEnvironment, StepJobs

----------------------------------------------------------------------------
\* Every step of a run and of its children keeps the invariant.
THEOREM PackerInvariance == Spec => []PackerInv
<1>1. Init => PackerInv
  BY PackerInit
<1>2. ASSUME PackerInv, [Next]_vars PROVE PackerInv'
  <2>1. CASE Parent
    BY <1>2, <2>1, StepEarly, StepWork, StepFinish, StepDrop DEF Parent
  <2>2. CASE Crash
    BY <1>2, <2>2, StepDrop
  <2>3. ASSUME NEW k \in Kinds, Others(k) PROVE PackerInv'
    BY <1>2, <2>3, StepOthers
  <2>4. CASE UNCHANGED vars
    BY <1>2, <2>4
       DEF vars, run, Given, PackerInv, Destination, Directories, Collected, Was, Ended,
           JobsSane, Settled
  <2>5. QED BY <1>2, <2>1, <2>2, <2>3, <2>4 DEF Next, Over
<1>3. QED BY <1>1, <1>2, PTL DEF Spec

\* Nothing but a completed archive appears under the destination's name, and
\* the input survives, wherever the run fails or is killed.
THEOREM CompletedOnly == Spec => []PublishedWhole
<1>1. PackerInv => PublishedWhole
  BY DEF PackerInv, Destination, PublishedWhole, Was, Ended
<1>2. QED BY <1>1, PackerInvariance, PTL

\* A run that ends by itself has collected its children and their threads,
\* whatever failed, and nothing but a failure of remove_dir_all itself leaves
\* its directory behind: never a child that still writes there.
THEOREM RunsLeaveNothing == Spec => []NothingLeft
<1>1. PackerInv => NothingLeft
  <2>1. SUFFICES ASSUME PackerInv, Ended
                 PROVE  /\ \A k \in Children : job[k].reaped /\ job[k].drain = "joined"
                        /\ dirs = taken \cup stuck /\ stuck \subseteq mine
    BY DEF NothingLeft
  <2>2. \A k \in Kinds : k \in Settled /\ Sane(job[k])
    BY <2>1 DEF PackerInv, Collected, JobsSane, Ended
  <2>3. QED BY <2>1, <2>2 DEF PackerInv, Directories, Children, Settled, Sane
<1>2. QED BY <1>1, PackerInvariance, PTL
----------------------------------------------------------------------------
(* What the indexes are made of *)

\* What the run may be about to do.
IndexOps == [do : {"add"} \cup Kinds, at : DOMAIN entries]

\* The entries that an index is for.
Due(k) ==
    {i \in DOMAIN entries :
       entries[i] \in IF k = "fulltext" THEN Fronts
                      ELSE IF tool = "zimrecreate" THEN Fronts \cup {"tohtml"}
                      ELSE Articles \cup Redirects}

\* A document for an index is still to be fed, or in the pipe, or read.
Queued(k) == {i \in DOMAIN entries : Feed(k, i) \in Range(script)}
Held(j) == Range(j.got) \cup Range(j.pipe)

\* No document is fed twice; a child succeeds only at the end of its input.
Sound(j) ==
    /\ j.got \in Seq(DOMAIN entries) /\ IsInjective(j.got)
    /\ j.pipe \in Seq(DOMAIN entries) /\ IsInjective(j.pipe)
    /\ Range(j.got) \cap Range(j.pipe) = {}
    /\ j.child = "ok" => ~j.stdin /\ j.pipe = << >>

\* A child that has not failed, before the run has anything for it, while it is
\* fed, and when its input is complete.
Live(j) == j.child \in {"reading", "talking", "ok"}
Starting(j) ==
    /\ j.got = << >> /\ j.pipe = << >>
    /\ Live(j) => j.stdin

Feeding(j, todo, due) ==
    /\ Held(j) \cap todo = {}
    /\ Live(j) => j.stdin /\ Held(j) \cup todo = due

Complete(j, due) == Live(j) => ~j.stdin /\ Held(j) = due

Before == {"check", "mkdir", "start", "spawn", "unspawn", "metadata"}

IndexTypes ==
    /\ entries \in Seq(Articles \cup Redirects)
    /\ tool \in {"zimwriterfs", "zimrecreate"}
    /\ script \in Seq(IndexOps) /\ IsInjective(script)
    /\ indexes \subseteq Kinds

\* What is due is in one of the three places, until it is read; only a child
\* that has read everything has a blob.
IndexInv ==
    /\ IndexTypes
    /\ \A k \in Kinds : Sound(job[k])
    /\ pc \in Before => \A k \in Kinds : Starting(job[k])
    /\ pc = "work" => \A k \in Kinds : Feeding(job[k], Queued(k), Due(k))
    /\ pc = "finish" => \A k \in Kinds : Complete(job[k], Due(k))
    /\ pc \in Before \cup {"work"} => indexes = {}
    /\ pc # "crashed" => \A k \in indexes : job[k].child = "ok" /\ Range(job[k].got) = Due(k)

\* What a child and its thread do, and a parent that does not close its pipe.
Follows(j, next) ==
    /\ Sound(next)
    /\ next.stdin = j.stdin
    /\ Live(next) => Live(j)
    /\ Held(next) = Held(j)
    /\ j.child = "ok" => next.child = "ok" /\ next.got = j.got
    /\ j.got = << >> /\ j.pipe = << >> => next.got = << >> /\ next.pipe = << >>

----------------------------------------------------------------------------
(* The list of operations *)

\* Two lists with nothing in common make one list without repetitions.
LEMMA JoinOnce ==
  ASSUME NEW S, NEW s \in Seq(S), NEW t \in Seq(S), IsInjective(s), IsInjective(t),
         Range(s) \cap Range(t) = {}
  PROVE  s \o t \in Seq(S) /\ IsInjective(s \o t) /\ Range(s \o t) = Range(s) \cup Range(t)
<1>1. PICK m \in Nat, n \in Nat :
        m = Len(s) /\ n = Len(t) /\ DOMAIN s = 1 .. m /\ DOMAIN t = 1 .. n
  BY LenProperties
<1>2. /\ s \o t \in Seq(S) /\ DOMAIN (s \o t) = 1 .. m + n
      /\ \A i \in 1 .. m + n : (s \o t)[i] = IF i <= m THEN s[i] ELSE t[i - m]
  BY <1>1, ConcatProperties, LenProperties
<1>3. ASSUME NEW i \in 1 .. m + n
      PROVE  \/ i \in 1 .. m /\ (s \o t)[i] = s[i] /\ s[i] \in Range(s)
             \/ i - m \in 1 .. n /\ ~(i <= m) /\ (s \o t)[i] = t[i - m] /\ t[i - m] \in Range(t)
  <2>1. CASE i <= m
    BY <1>1, <1>2, <2>1 DEF Range
  <2>2. CASE ~(i <= m)
    <3>1. i - m \in 1 .. n
      BY <2>2
    <3>2. QED BY <1>1, <1>2, <2>2, <3>1 DEF Range
  <2>3. QED BY <2>1, <2>2
<1>4. Range(s \o t) = Range(s) \cup Range(t)
  BY RangeConcatenation
<1>5. ASSUME NEW i \in 1 .. m + n, NEW l \in 1 .. m + n, (s \o t)[i] = (s \o t)[l]
      PROVE  i = l
  <2>1. CASE i \in 1 .. m /\ s[i] = (s \o t)[i] /\ s[i] \in Range(s)
    <3>1. l \in 1 .. m /\ s[l] = s[i]
      BY <1>3, <1>5, <2>1
    <3>2. QED BY <1>1, <2>1, <3>1 DEF IsInjective
  <2>2. CASE i - m \in 1 .. n /\ t[i - m] = (s \o t)[i] /\ t[i - m] \in Range(t)
    <3>1. l - m \in 1 .. n /\ t[l - m] = t[i - m]
      BY <1>3, <1>5, <2>2
    <3>2. l - m = i - m
      BY <1>1, <2>2, <3>1 DEF IsInjective
    <3>3. QED BY <3>2
  <2>3. QED BY <1>3, <2>1, <2>2
<1>6. QED BY <1>2, <1>4, <1>5 DEF IsInjective

\* Lists of two and of three.
LEMMA Couple ==
  ASSUME NEW S, NEW a \in S, NEW b \in S, a # b
  PROVE  <<a, b>> \in Seq(S) /\ IsInjective(<<a, b>>) /\ Range(<<a, b>>) = {a, b}
<1>1. <<a, b>> \in Seq(S) /\ DOMAIN <<a, b>> = {1, 2}
  OBVIOUS
<1>2. QED BY <1>1 DEF IsInjective, Range

LEMMA Triple ==
  ASSUME NEW S, NEW a \in S, NEW b \in S, NEW c \in S, a # b, a # c, b # c
  PROVE  <<a, b, c>> \in Seq(S) /\ IsInjective(<<a, b, c>>) /\ Range(<<a, b, c>>) = {a, b, c}
<1>1. <<a, b, c>> \in Seq(S) /\ DOMAIN <<a, b, c>> = {1, 2, 3}
  OBVIOUS
<1>2. QED BY <1>1 DEF IsInjective, Range

\* These puts the operations of the entries of some kinds in the list, once.
LEMMA TheseOnce ==
  ASSUME entries \in Seq(Articles \cup Redirects), NEW kinds, NEW ops,
         \A i \in DOMAIN entries :
           /\ ops[i] \in Seq(IndexOps) /\ IsInjective(ops[i])
           /\ \A o \in Range(ops[i]) : o.at = i
  PROVE  /\ These(ops, kinds) \in Seq(IndexOps)
         /\ IsInjective(These(ops, kinds))
         /\ Range(These(ops, kinds)) =
              {o \in IndexOps : entries[o.at] \in kinds /\ o \in Range(ops[o.at])}
<1>1. PICK n \in Nat : n = Len(entries) /\ DOMAIN entries = 1 .. n
  BY LenProperties
<1> DEFINE part(i) == IF entries[i] \in kinds THEN ops[i] ELSE << >>
           parts == [i \in DOMAIN entries |-> part(i)]
           g == [i \in Nat |-> [q \in Seq(IndexOps) |->
                                  IF i \in 1 .. n THEN q \o part(i) ELSE q]]
           put(m) == {o \in IndexOps : /\ o.at \in 1 .. m
                                       /\ entries[o.at] \in kinds /\ o \in Range(ops[o.at])}
<1>2. ASSUME NEW i \in 1 .. n
      PROVE  /\ part(i) \in Seq(IndexOps) /\ IsInjective(part(i))
             /\ Range(part(i)) =
                  {o \in IndexOps : o.at = i /\ entries[o.at] \in kinds /\ o \in Range(ops[o.at])}
  <2>1. /\ ops[i] \in Seq(IndexOps) /\ IsInjective(ops[i])
        /\ \A o \in Range(ops[i]) : o.at = i
    BY <1>1
  <2>2. Range(ops[i]) \subseteq IndexOps
    BY <2>1, RangeOfSeq DEF Range
  <2>3. << >> \in Seq(IndexOps) /\ Range(<< >>) = {} /\ IsInjective(<< >>)
    BY EmptyChannel
  <2>4. CASE entries[i] \in kinds
    BY <2>1, <2>2, <2>4
  <2>5. CASE entries[i] \notin kinds
    BY <2>3, <2>5
  <2>6. QED BY <2>4, <2>5
<1>3. g \in [Nat -> [Seq(IndexOps) -> Seq(IndexOps)]]
  <2>1. ASSUME NEW i \in Nat, NEW q \in Seq(IndexOps)
        PROVE  (IF i \in 1 .. n THEN q \o part(i) ELSE q) \in Seq(IndexOps)
    <3> HIDE DEF part
    <3>1. QED BY <1>2, ConcatProperties
  <2> HIDE DEF part
  <2>2. QED BY <2>1
<1>4. PICK f : Iterates(f, Seq(IndexOps), << >>, g, n)
  <2> HIDE DEF g
  <2>1. QED BY <1>3, EmptyChannel, Iterated
<1>5. /\ f \in [0 .. n -> Seq(IndexOps)] /\ f[0] = << >>
      /\ \A m \in 1 .. n : m - 1 \in 0 .. n /\ f[m] = f[m - 1] \o part(m)
  <2>1. f \in [0 .. n -> Seq(IndexOps)]
        /\ \A m \in 0 .. n : f[m] = IF m = 0 THEN << >> ELSE g[m][f[m - 1]]
    BY <1>4 DEF Iterates
  <2> HIDE DEF part
  <2>2. ASSUME NEW m \in 1 .. n PROVE m - 1 \in 0 .. n /\ f[m] = f[m - 1] \o part(m)
    <3>1. m - 1 \in 0 .. n /\ m \in 0 .. n /\ m # 0 /\ m \in Nat
      OBVIOUS
    <3>2. f[m] = g[m][f[m - 1]] /\ f[m - 1] \in Seq(IndexOps)
      BY <2>1, <3>1
    <3>3. ASSUME NEW q \in Seq(IndexOps) PROVE g[m][q] = q \o part(m)
      BY <3>1
    <3> HIDE DEF g
    <3>4. QED BY <3>1, <3>2, <3>3
  <2>3. 0 \in 0 .. n
    OBVIOUS
  <2> HIDE DEF g
  <2>4. QED BY <2>1, <2>2, <2>3
<1> HIDE DEF part, g
<1>6. \A m \in 0 .. n : IsInjective(f[m]) /\ Range(f[m]) = put(m)
  <2> DEFINE bad == {m \in 0 .. n : ~(IsInjective(f[m]) /\ Range(f[m]) = put(m))}
  <2>1. SUFFICES ASSUME bad # {} PROVE FALSE
    OBVIOUS
  <2>2. PICK m \in bad : \A y \in bad : m <= y
    <3>1. bad \in SUBSET Nat
      OBVIOUS
    <3> HIDE DEF bad
    <3>2. QED BY <2>1, <3>1, MinOfNaturals
  <2>3. m \in 0 .. n /\ ~(IsInjective(f[m]) /\ Range(f[m]) = put(m))
    OBVIOUS
  <2>4. m # 0
    <3>1. put(0) = {}
      OBVIOUS
    <3>2. QED BY <1>5, <2>3, <3>1, EmptyChannel
  <2>5. m \in 1 .. n /\ m - 1 \in 0 .. n /\ ~(m <= m - 1)
    BY <2>3, <2>4
  <2>6. IsInjective(f[m - 1]) /\ Range(f[m - 1]) = put(m - 1) /\ f[m - 1] \in Seq(IndexOps)
    BY <1>5, <2>2, <2>5
  <2>7. f[m] = f[m - 1] \o part(m)
    BY <1>5, <2>5
  <2>8. Range(f[m - 1]) \cap Range(part(m)) = {}
    BY <1>2, <2>5, <2>6
  <2>9. IsInjective(f[m]) /\ Range(f[m]) = Range(f[m - 1]) \cup Range(part(m))
    BY <1>2, <2>5, <2>6, <2>7, <2>8, JoinOnce
  <2>10. put(m) = put(m - 1) \cup Range(part(m))
    BY <1>2, <2>5
  <2>11. QED BY <2>3, <2>6, <2>9, <2>10
<1>7. These(ops, kinds) = f[n]
  <2>1. These(ops, kinds) = FlattenSeq(parts)
    BY DEF These, part
  <2>2. parts = [i \in 1 .. n |-> part(i)] /\ Len(parts) = n
    <3>1. parts = [i \in 1 .. n |-> part(i)]
      BY <1>1
    <3>2. parts \in Seq(Seq(IndexOps))
      <4>1. parts \in [1 .. n -> Seq(IndexOps)]
        BY <1>2, <3>1
      <4> HIDE DEF parts
      <4>2. QED BY <4>1, IsASeq
    <3>3. Len(parts) \in Nat /\ DOMAIN parts = 1 .. Len(parts)
      <4> HIDE DEF parts
      <4>1. QED BY <3>2, LenProperties
    <3>4. Len(parts) = n
      <4>1. DOMAIN parts = 1 .. n
        BY <3>1
      <4>2. PICK m \in Nat : m = Len(parts) /\ 1 .. m = 1 .. n
        BY <3>3, <4>1
      <4>3. m = n
        BY <4>2
      <4> HIDE DEF parts
      <4>4. QED BY <4>2, <4>3
    <3>5. QED BY <3>1, <3>4
  <2>3. CASE n = 0
    <3>1. parts = << >>
      <4>1. DOMAIN entries = {}
        BY <1>1, <2>3
      <4>2. QED BY <4>1
    <3>2. FlattenSeq(parts) = << >>
      BY <2>2, <2>3, <3>1 DEF FlattenSeq
    <3>3. QED BY <1>5, <2>1, <2>3, <3>2
  <2>4. CASE n # 0
    <3>1. ASSUME NEW i \in 1 .. n
          PROVE  f[i] = IF i = 1 THEN parts[i] ELSE f[i - 1] \o parts[i]
      <4>1. parts[i] = part(i)
        BY <2>2
      <4>2. f[i] = f[i - 1] \o part(i) /\ part(i) \in Seq(IndexOps)
        BY <1>2, <1>5
      <4>3. CASE i = 1
        <5>1. f[i - 1] = << >>
          BY <1>5, <4>3
        <5>2. << >> \o part(i) = part(i)
          BY <4>2, ConcatEmptySeq
        <5>3. QED BY <4>1, <4>2, <4>3, <5>1, <5>2
      <4>4. QED BY <4>1, <4>2, <4>3
    <3>2. n \in Nat \ {0} /\ Len(parts) = n
      BY <2>2, <2>4
    <3> HIDE DEF parts
    <3>3. FlattenSeq(parts) = f[n]
      BY <3>1, <3>2, FlattenIs
    <3>4. QED BY <2>1, <3>3
  <2>5. QED BY <2>3, <2>4
<1>8. put(n) = {o \in IndexOps : entries[o.at] \in kinds /\ o \in Range(ops[o.at])}
  BY <1>1 DEF IndexOps
<1>9. n \in 0 .. n
  OBVIOUS
<1>10. QED BY <1>5, <1>6, <1>7, <1>8, <1>9

\* The run feeds an index every entry that is due, and no other.
LEMMA ScriptIsDue ==
  ASSUME entries \in Seq(Articles \cup Redirects), tool \in {"zimwriterfs", "zimrecreate"}
  PROVE  /\ Script \in Seq(IndexOps) /\ IsInjective(Script)
         /\ \A k \in Kinds, i \in DOMAIN entries : Feed(k, i) \in Range(Script) <=> i \in Due(k)
<1> DEFINE Packed == [i \in DOMAIN entries |-> PackFile(i)]
           Copied == [i \in DOMAIN entries |-> CopyEntry(i)]
           ops == IF tool = "zimwriterfs" THEN Packed ELSE Copied
           given(kinds) == {o \in IndexOps : entries[o.at] \in kinds /\ o \in Range(ops[o.at])}
<1>1. ASSUME NEW i \in DOMAIN entries
      PROVE  /\ entries[i] \in {"html", "other", "big", "tohtml", "toother"}
             /\ Add(i) \in IndexOps /\ \A k \in Kinds : Feed(k, i) \in IndexOps
             /\ Add(i) # Feed("title", i) /\ Add(i) # Feed("fulltext", i)
             /\ Feed("title", i) # Feed("fulltext", i)
  <2>1. entries[i] \in Articles \cup Redirects
    BY LenProperties
  <2>2. QED BY <2>1 DEF Articles, Redirects, Fronts, IndexOps, Add, Feed, Kinds
<1>2. ASSUME NEW i \in DOMAIN entries
      PROVE  /\ ops[i] \in Seq(IndexOps) /\ IsInjective(ops[i])
             /\ \A o \in Range(ops[i]) : o.at = i
             /\ \A k \in Kinds : Feed(k, i) \in Range(ops[i]) <=> i \in Due(k)
  <2> DEFINE A == Add(i)
             T == Feed("title", i)
             F == Feed("fulltext", i)
  <2>1. /\ A \in IndexOps /\ T \in IndexOps /\ F \in IndexOps
        /\ A # T /\ A # F /\ T # F /\ F # A /\ F # T /\ T # A
        /\ A.at = i /\ T.at = i /\ F.at = i
        /\ \A k \in Kinds : (k = "title" /\ Feed(k, i) = T) \/ (k = "fulltext" /\ Feed(k, i) = F)
    BY <1>1 DEF Add, Feed, Kinds
  <2>2. \/ ops[i] = <<T, F, A>> /\ i \in Due("title") /\ i \in Due("fulltext")
        \/ ops[i] = <<T, A>> /\ i \in Due("title") /\ i \notin Due("fulltext")
        \/ ops[i] = <<A, T>> /\ i \in Due("title") /\ i \notin Due("fulltext")
        \/ ops[i] = <<A>> /\ i \notin Due("title") /\ i \notin Due("fulltext")
    <3>1. CASE tool = "zimwriterfs"
      <4>1. ops[i] = PackFile(i)
        BY <3>1
      <4>2. QED BY <1>1, <3>1, <4>1 DEF PackFile, Due, Articles, Redirects, Fronts
    <3>2. CASE tool = "zimrecreate"
      <4>1. ops[i] = CopyEntry(i)
        BY <3>2
      <4>2. QED BY <1>1, <3>2, <4>1 DEF CopyEntry, Due, Articles, Redirects, Fronts
    <3>3. QED BY <3>1, <3>2
  <2> HIDE DEF A, T, F, ops
  <2>3. <<T, F, A>> \in Seq(IndexOps) /\ IsInjective(<<T, F, A>>) /\ Range(<<T, F, A>>) = {T, F, A}
    <3>1. T \in IndexOps /\ F \in IndexOps /\ A \in IndexOps /\ T # F /\ T # A /\ F # A
      BY <2>1
    <3>2. QED BY <3>1, Triple
  <2>4. <<T, A>> \in Seq(IndexOps) /\ IsInjective(<<T, A>>) /\ Range(<<T, A>>) = {T, A}
    BY <2>1, Couple
  <2>5. <<A, T>> \in Seq(IndexOps) /\ IsInjective(<<A, T>>) /\ Range(<<A, T>>) = {A, T}
    BY <2>1, Couple
  <2>6. <<A>> \in Seq(IndexOps) /\ IsInjective(<<A>>) /\ Range(<<A>>) = {A}
    <3>1. DOMAIN <<A>> = {1} /\ <<A>>[1] = A
      OBVIOUS
    <3>2. QED BY <2>1, <3>1 DEF IsInjective, Range
  <2>7. QED BY <2>1, <2>2, <2>3, <2>4, <2>5, <2>6
<1>3. \/ Script = These(ops, Articles) \o These(ops, Redirects)
      \/ Script = These(ops, Redirects) \o These(ops, Articles)
  BY DEF Script
<1> HIDE DEF ops
<1>4. ASSUME NEW kinds
      PROVE  /\ These(ops, kinds) \in Seq(IndexOps) /\ IsInjective(These(ops, kinds))
             /\ Range(These(ops, kinds)) = given(kinds)
  BY <1>2, TheseOnce
<1>5. given(Articles) \cap given(Redirects) = {} /\ given(Redirects) \cap given(Articles) = {}
  BY DEF Articles, Redirects, Fronts
<1>6. /\ Script \in Seq(IndexOps) /\ IsInjective(Script)
      /\ Range(Script) = given(Articles) \cup given(Redirects)
  <2> HIDE DEF given
  <2>1. CASE Script = These(ops, Articles) \o These(ops, Redirects)
    BY <1>4, <1>5, <2>1, JoinOnce
  <2>2. CASE Script = These(ops, Redirects) \o These(ops, Articles)
    <3>1. /\ Script \in Seq(IndexOps) /\ IsInjective(Script)
          /\ Range(Script) = given(Redirects) \cup given(Articles)
      BY <1>4, <1>5, <2>2, JoinOnce
    <3>2. QED BY <3>1
  <2>3. QED BY <1>3, <2>1, <2>2
<1>7. ASSUME NEW k \in Kinds, NEW i \in DOMAIN entries
      PROVE  Feed(k, i) \in Range(Script) <=> i \in Due(k)
  <2>1. /\ Feed(k, i) \in IndexOps /\ Feed(k, i).at = i
        /\ entries[i] \in Articles \/ entries[i] \in Redirects
    BY <1>1 DEF Feed, Articles, Redirects, Fronts
  <2>2. QED BY <1>2, <1>6, <2>1
<1>8. QED BY <1>6, <1>7
----------------------------------------------------------------------------
(* The children and the pipes *)

\* Nobody has done anything.
LEMMA NothingFollows ==
  ASSUME NEW j, Sound(j)
  PROVE  Follows(j, j)
BY DEF Follows

\* What leaves the pipe, what was read and the end of the input alone.
LEMMA AsideFollows ==
  ASSUME NEW j, NEW next, Sound(j),
         next.got = j.got, next.pipe = j.pipe, next.stdin = j.stdin,
         next.child = j.child \/ {next.child, j.child} \subseteq {"reading", "talking"}
  PROVE  Follows(j, next)
<1>1. Sound(next)
  BY DEF Sound
<1>2. Held(next) = Held(j)
  BY DEF Held
<1>3. QED BY <1>1, <1>2 DEF Follows, Live

\* The child, a grandchild and the drain thread.
LEMMA EnvironmentFollows ==
  ASSUME JobsSane, \A k \in Kinds : Sound(job[k]), NEW k \in Kinds, Environment(k)
  PROVE  \A l \in Kinds : Follows(job[l], job'[l])
<1>1. Sane(job[k]) /\ Sound(job[k])
  BY DEF JobsSane
<1>2. ASSUME NEW j, job' = [job EXCEPT ![k] = j], Follows(job[k], j)
      PROVE  \A l \in Kinds : Follows(job[l], job'[l])
  BY <1>2, NothingFollows DEF JobsSane
<1>3. CASE Read(k)
  <2>1. PICK next \in {"reading", "talking"} :
          job' = [job EXCEPT ![k].pipe = Tail(@), ![k].got = Append(@, Head(job[k].pipe)),
                             ![k].child = next]
    BY <1>3 DEF Read
  <2> DEFINE j == [job[k] EXCEPT !.pipe = Tail(@), !.got = Append(@, Head(job[k].pipe)),
                                 !.child = next]
             x == Head(job[k].pipe)
  <2>2. job' = [job EXCEPT ![k] = j]
    BY <2>1 DEF JobsSane
  <2>3. /\ j.pipe = Tail(job[k].pipe) /\ j.got = Append(job[k].got, x) /\ j.child = next
        /\ j.stdin = job[k].stdin
    BY <1>1 DEF Sane, Fields
  <2>4. job[k].child = "reading" /\ job[k].pipe # << >>
    BY <1>3 DEF Read
  <2> HIDE DEF j
  <2>5. /\ x \in Range(job[k].pipe) /\ x \in DOMAIN entries
        /\ j.pipe \in Seq(DOMAIN entries) /\ IsInjective(j.pipe)
        /\ Range(j.pipe) = Range(job[k].pipe) \ {x}
    <3>1. PICK q \in Seq(DOMAIN entries) : q = job[k].pipe /\ IsInjective(q) /\ q # << >>
      BY <1>1, <2>4 DEF Sound
    <3>2. /\ Head(q) \in Range(q) /\ Head(q) \in DOMAIN entries
          /\ Tail(q) \in Seq(DOMAIN entries) /\ IsInjective(Tail(q))
          /\ Range(Tail(q)) = Range(q) \ {Head(q)}
      BY <3>1, TakeHead
    <3>3. QED BY <2>3, <3>1, <3>2
  <2>6. x \notin Range(job[k].got)
    BY <1>1, <2>5 DEF Sound
  <2>7. /\ j.got \in Seq(DOMAIN entries) /\ IsInjective(j.got)
        /\ Range(j.got) = Range(job[k].got) \cup {x}
    <3> HIDE DEF x
    <3>1. QED BY <1>1, <2>3, <2>5, <2>6, PutLast DEF Sound
  <2>8. Sound(j)
    BY <1>1, <2>3, <2>5, <2>7 DEF Sound
  <2>9. Held(j) = Held(job[k])
    BY <2>5, <2>7 DEF Held
  <2>10. Follows(job[k], j)
    BY <2>3, <2>4, <2>8, <2>9 DEF Follows, Live
  <2>11. QED BY <1>2, <2>2, <2>10
<1>4. CASE Talk(k)
  <2> DEFINE j == [job[k] EXCEPT !.err = @ + 1, !.child = "reading"]
  <2>1. job' = [job EXCEPT ![k] = j]
    BY <1>4 DEF Talk, JobsSane
  <2>2. /\ j.got = job[k].got /\ j.pipe = job[k].pipe /\ j.stdin = job[k].stdin
        /\ j.child = "reading" /\ job[k].child = "talking"
    BY <1>1, <1>4 DEF Talk, Sane, Fields
  <2> HIDE DEF j
  <2>3. QED BY <1>1, <1>2, <2>1, <2>2, AsideFollows
<1>5. CASE Succeed(k)
  <2>1. PICK size \in {"empty", "full"}, h \in BOOLEAN :
          job' = [job EXCEPT ![k].child = "ok", ![k].out = size, ![k].heir = h]
    BY <1>5 DEF Succeed
  <2> DEFINE j == [job[k] EXCEPT !.child = "ok", !.out = size, !.heir = h]
  <2>2. job' = [job EXCEPT ![k] = j]
    BY <2>1 DEF JobsSane
  <2>3. /\ j.got = job[k].got /\ j.pipe = job[k].pipe /\ j.stdin = job[k].stdin
        /\ j.child = "ok" /\ job[k].child = "reading" /\ job[k].pipe = << >> /\ ~job[k].stdin
    BY <1>1, <1>5 DEF Succeed, Sane, Fields
  <2> HIDE DEF j
  <2>4. Sound(j) /\ Held(j) = Held(job[k])
    BY <1>1, <2>3 DEF Sound, Held
  <2>5. Follows(job[k], j)
    BY <2>3, <2>4 DEF Follows, Live
  <2>6. QED BY <1>2, <2>2, <2>5
<1>6. CASE FailChild(k)
  <2>1. PICK size \in {"none", "partial"}, h \in BOOLEAN :
          job' = [job EXCEPT ![k].child = "bad", ![k].out = size, ![k].heir = h]
    BY <1>6 DEF FailChild
  <2> DEFINE j == [job[k] EXCEPT !.child = "bad", !.out = size, !.heir = h]
  <2>2. job' = [job EXCEPT ![k] = j]
    BY <2>1 DEF JobsSane
  <2>3. /\ j.got = job[k].got /\ j.pipe = job[k].pipe /\ j.stdin = job[k].stdin
        /\ j.child = "bad" /\ job[k].child # "ok"
    BY <1>1, <1>6 DEF FailChild, Alive, Sane, Fields
  <2> HIDE DEF j
  <2>4. Sound(j) /\ Held(j) = Held(job[k])
    BY <1>1, <2>3 DEF Sound, Held
  <2>5. Follows(job[k], j)
    BY <2>3, <2>4 DEF Follows, Live
  <2>6. QED BY <1>2, <2>2, <2>5
<1>7. CASE HeirExits(k)
  <2> DEFINE j == [job[k] EXCEPT !.heir = FALSE]
  <2>1. job' = [job EXCEPT ![k] = j]
    BY <1>7 DEF HeirExits, JobsSane
  <2>2. /\ j.got = job[k].got /\ j.pipe = job[k].pipe /\ j.stdin = job[k].stdin
        /\ j.child = job[k].child
    BY <1>1 DEF Sane, Fields
  <2> HIDE DEF j
  <2>3. QED BY <1>1, <1>2, <2>1, <2>2, AsideFollows
<1>8. CASE Drain(k)
  <2> DEFINE less == [job[k] EXCEPT !.err = @ - 1]
             done == [job[k] EXCEPT !.drain = "done"]
  <2>1. job' = [job EXCEPT ![k] = less] \/ job' = [job EXCEPT ![k] = done]
    BY <1>8 DEF Drain, JobsSane
  <2>2. /\ less.got = job[k].got /\ less.pipe = job[k].pipe /\ less.stdin = job[k].stdin
        /\ less.child = job[k].child
        /\ done.got = job[k].got /\ done.pipe = job[k].pipe /\ done.stdin = job[k].stdin
        /\ done.child = job[k].child
    BY <1>1 DEF Sane, Fields
  <2> HIDE DEF less, done
  <2>3. Follows(job[k], less) /\ Follows(job[k], done)
    BY <1>1, <2>2, AsideFollows
  <2>4. QED BY <1>2, <2>1, <2>3
<1>9. QED BY <1>3, <1>4, <1>5, <1>6, <1>7, <1>8 DEF Environment, ChildStep

\* Waiting for a child and joining its thread.
LEMMA ReapFollows ==
  ASSUME JobsSane, \A k \in Kinds : Sound(job[k]), NEW k \in Kinds, Wait(k) \/ Join(k)
  PROVE  \A l \in Kinds : Follows(job[l], job'[l])
<1>1. Sane(job[k]) /\ Sound(job[k])
  BY DEF JobsSane
<1> DEFINE waited == [job[k] EXCEPT !.reaped = TRUE]
           joined == [job[k] EXCEPT !.drain = "joined"]
<1>2. job' = [job EXCEPT ![k] = waited] \/ job' = [job EXCEPT ![k] = joined]
  BY DEF Wait, Join, JobsSane
<1>3. /\ waited.got = job[k].got /\ waited.pipe = job[k].pipe /\ waited.stdin = job[k].stdin
      /\ waited.child = job[k].child
      /\ joined.got = job[k].got /\ joined.pipe = job[k].pipe /\ joined.stdin = job[k].stdin
      /\ joined.child = job[k].child
  BY <1>1 DEF Sane, Fields
<1> HIDE DEF waited, joined
<1>4. Follows(job[k], waited) /\ Follows(job[k], joined)
  BY <1>1, <1>3, AsideFollows
<1>5. QED BY <1>2, <1>4, NothingFollows DEF JobsSane

\* Killing a child, and closing the pipes of all.
LEMMA KillSpares ==
  ASSUME JobsSane, \A k \in Kinds : Sound(job[k]), NEW k \in Kinds, Kill(k)
  PROVE  \A l \in Kinds : /\ Sound(job'[l]) /\ job'[l].got = job[l].got
                          /\ job[l].child = "ok" => job'[l].child = "ok"
<1>1. Sane(job[k]) /\ Sound(job[k])
  BY DEF JobsSane
<1>2. PICK h \in BOOLEAN :
        job' = [job EXCEPT ![k].stdin = FALSE, ![k].probed = FALSE,
                           ![k].child = IF Alive(k) THEN "bad" ELSE @,
                           ![k].heir = @ \/ (Alive(k) /\ h)]
  BY DEF Kill
<1> DEFINE j == [job[k] EXCEPT !.stdin = FALSE, !.probed = FALSE,
                               !.child = IF Alive(k) THEN "bad" ELSE @,
                               !.heir = @ \/ (Alive(k) /\ h)]
<1>3. job' = [job EXCEPT ![k] = j]
  BY <1>2 DEF JobsSane
<1>4. /\ j.got = job[k].got /\ j.pipe = job[k].pipe /\ j.stdin = FALSE
      /\ j.child = IF Alive(k) THEN "bad" ELSE job[k].child
  BY <1>1 DEF Sane, Fields
<1> HIDE DEF j
<1>5. Sound(j) /\ (job[k].child = "ok" => j.child = "ok")
  BY <1>1, <1>4 DEF Sound, Alive
<1>6. QED BY <1>3, <1>4, <1>5 DEF JobsSane

LEMMA ClosingSpares ==
  ASSUME JobsSane, \A k \in Kinds : Sound(job[k]), CloseAll
  PROVE  \A k \in Kinds : /\ Sound(job'[k]) /\ ~job'[k].stdin
                          /\ job'[k].got = job[k].got /\ job'[k].pipe = job[k].pipe
                          /\ job'[k].child = job[k].child
<1>1. SUFFICES ASSUME NEW k \in Kinds
               PROVE  /\ Sound(job'[k]) /\ ~job'[k].stdin
                      /\ job'[k].got = job[k].got /\ job'[k].pipe = job[k].pipe
                      /\ job'[k].child = job[k].child
  OBVIOUS
<1> DEFINE j == [job[k] EXCEPT !.stdin = FALSE, !.probed = FALSE]
<1>2. job'[k] = j
  BY DEF CloseAll
<1>3. Sane(job[k]) /\ Sound(job[k])
  BY DEF JobsSane
<1>4. /\ j.got = job[k].got /\ j.pipe = job[k].pipe /\ j.stdin = FALSE
      /\ j.child = job[k].child
  BY <1>3 DEF Sane, Fields
<1> HIDE DEF j
<1>5. QED BY <1>2, <1>3, <1>4 DEF Sound

----------------------------------------------------------------------------
(* The invariant of the indexes *)

\* What the children do while the run stands still.
LEMMA IndexKept ==
  ASSUME IndexInv, \A k \in Kinds : Follows(job[k], job'[k]), UNCHANGED run
  PROVE  IndexInv'
<1>1. UNCHANGED <<entries, tool, script, indexes, pc>>
  BY DEF run, Given
<1>2. IndexTypes'
  BY <1>1 DEF IndexInv, IndexTypes, IndexOps
<1>3. ASSUME NEW k \in Kinds
      PROVE  /\ Sound(job[k])' /\ Due(k)' = Due(k) /\ Queued(k)' = Queued(k)
             /\ Held(job[k])' = Held(job'[k]) /\ Live(job[k])' = Live(job'[k])
  BY <1>1 DEF Follows, Sound, Due, Queued, Held, Live
<1>4. ASSUME pc \in Before, NEW k \in Kinds PROVE Starting(job[k])'
  BY <1>4 DEF IndexInv, Follows, Starting, Live
<1>5. ASSUME pc = "work", NEW k \in Kinds PROVE Feeding(job[k], Queued(k), Due(k))'
  <2>1. Feeding(job[k], Queued(k), Due(k)) /\ Follows(job[k], job'[k])
    BY <1>5 DEF IndexInv
  <2>2. QED BY <1>3, <2>1 DEF Follows, Feeding
<1>6. ASSUME pc = "finish", NEW k \in Kinds PROVE Complete(job[k], Due(k))'
  <2>1. Complete(job[k], Due(k)) /\ Follows(job[k], job'[k])
    BY <1>6 DEF IndexInv
  <2>2. QED BY <1>3, <2>1 DEF Follows, Complete
<1>7. ASSUME pc # "crashed", NEW k \in indexes
      PROVE  job'[k].child = "ok" /\ Range(job'[k].got) = Due(k)'
  <2>1. k \in Kinds
    BY DEF IndexInv, IndexTypes
  <2>2. QED BY <1>3, <1>7, <2>1 DEF IndexInv, Follows
<1>8. QED BY <1>1, <1>2, <1>3, <1>4, <1>5, <1>6, <1>7 DEF IndexInv
\* A run that is set up, or that only moves on, without work for its children.
LEMMA IndexAside ==
  ASSUME IndexInv, job' = job, UNCHANGED <<entries, tool, script, indexes>>,
         \/ pc \in Before /\ pc' \in Before
         \/ pc' \notin Before \cup {"work", "finish", "crashed"},
         pc # "crashed"
  PROVE  IndexInv'
<1>1. IndexTypes'
  BY DEF IndexInv, IndexTypes, IndexOps
<1>2. ASSUME NEW k \in Kinds
      PROVE  /\ Sound(job[k])' /\ Due(k)' = Due(k)
             /\ Starting(job[k])' <=> Starting(job[k])
  BY DEF IndexInv, Sound, Due, Starting, Live
<1>3. ASSUME NEW k \in indexes
      PROVE  k \in Kinds /\ job[k].child = "ok" /\ Range(job[k].got) = Due(k)
  BY DEF IndexInv, IndexTypes
<1>4. "work" \notin Before /\ "finish" \notin Before
  BY DEF Before
<1>5. QED BY <1>1, <1>2, <1>3, <1>4 DEF IndexInv

\* Before the first operation.
LEMMA IndexEarly ==
  ASSUME PackerInv, IndexInv, Check \/ MakeDir \/ Start \/ Spawn \/ Metadata
  PROVE  IndexInv'
<1>1. CASE Check \/ MakeDir \/ Start
  <2>1. /\ job' = job /\ UNCHANGED <<entries, tool, script, indexes>>
        /\ pc \in Before /\ pc' \in Before \cup {"failed", "unwind"}
    BY <1>1 DEF Check, MakeDir, Start, Go, Unwind, Given, Before
  <2>2. QED BY <2>1, IndexAside DEF Before
<1>2. CASE Spawn
  <2>1. /\ UNCHANGED <<entries, tool, script, indexes>> /\ job = NoJobs
        /\ pc \in Before /\ pc' \in Before /\ indexes = {}
    BY <1>2 DEF Spawn, Go, Given, Before, PackerInv, Collected, IndexInv
  <2>2. IndexTypes'
    BY <2>1 DEF IndexInv, IndexTypes, IndexOps
  <2>3. << >> \in Seq(DOMAIN entries) /\ Range(<< >>) = {} /\ IsInjective(<< >>)
    BY EmptyChannel
  <2> DEFINE Empty(j) == /\ j.got = << >> /\ j.pipe = << >>
                         /\ j.child # "ok" /\ (Live(j) => j.stdin)
  <2>4. ASSUME NEW j, Empty(j) PROVE Sound(j) /\ Starting(j)
    BY <2>3, <2>4 DEF Sound, Starting
  <2>5. /\ Empty(NoJob) /\ Empty(Spawned)
        /\ \A h \in BOOLEAN :
             Empty([Spawned EXCEPT !.stdin = FALSE, !.child = "bad", !.heir = h])
    BY DEF NoJob, Spawned, Live
  <2>6. ASSUME NEW k \in Kinds PROVE Empty(job'[k])
    <3>1. CASE job' = [l \in Kinds |-> IF l \in wanted THEN Spawned ELSE NoJob]
      BY <2>5, <3>1
    <3>2. CASE job' = job
      BY <2>1, <2>5, <3>2 DEF NoJobs
    <3>3. ASSUME NEW h \in BOOLEAN,
                 job' = [job EXCEPT !["fulltext"] =
                           [Spawned EXCEPT !.stdin = FALSE, !.child = "bad", !.heir = h]]
          PROVE  Empty(job'[k])
      <4> DEFINE j == [Spawned EXCEPT !.stdin = FALSE, !.child = "bad", !.heir = h]
      <4>1. job'[k] = IF k = "fulltext" THEN j ELSE NoJob
        BY <2>1, <3>3 DEF NoJobs
      <4>2. Empty(j)
        BY <2>5
      <4> HIDE DEF j, Empty
      <4>3. QED BY <2>5, <4>1, <4>2
    <3> HIDE DEF Empty
    <3>4. QED BY <1>2, <3>1, <3>2, <3>3 DEF Spawn
  <2> HIDE DEF Empty
  <2>7. \A k \in Kinds : Sound(job[k])' /\ Starting(job[k])'
    <3>1. \A k \in Kinds : Sound(job'[k]) /\ Starting(job'[k])
      BY <2>4, <2>6
    <3>2. QED BY <2>1, <3>1 DEF Sound, Starting, Live
  <2>8. QED BY <2>1, <2>2, <2>7 DEF IndexInv, Before
<1>3. CASE Metadata
  <2>1. /\ UNCHANGED <<entries, tool, indexes, job>> /\ pc \in Before /\ indexes = {}
        /\ \/ pc' = "work" /\ script' = Script
           \/ pc' \in {"unwind", "failed"} /\ script' = script
    BY <1>3 DEF Metadata, Go, Unwind, Given, Before, IndexInv
  <2>2. CASE script' = script /\ pc' \in {"unwind", "failed"}
    BY <2>1, <2>2, IndexAside DEF Before
  <2>3. CASE pc' = "work" /\ script' = Script
    <3>1. /\ Script \in Seq(IndexOps) /\ IsInjective(Script)
          /\ \A k \in Kinds, i \in DOMAIN entries : Feed(k, i) \in Range(Script) <=> i \in Due(k)
      BY ScriptIsDue DEF IndexInv, IndexTypes
    <3>2. IndexTypes'
      BY <2>1, <2>3, <3>1 DEF IndexInv, IndexTypes, IndexOps
    <3>3. ASSUME NEW k \in Kinds
          PROVE  Sound(job[k])' /\ Feeding(job[k], Queued(k), Due(k))'
      <4>1. Sound(job[k]) /\ Starting(job[k])
        BY <2>1 DEF IndexInv
      <4>2. Due(k)' = Due(k) /\ Queued(k)' = Due(k)
        BY <2>1, <2>3, <3>1 DEF Due, Queued, Feed
      <4>3. Range(<< >>) = {}
        BY EmptyChannel
      <4>4. QED BY <2>1, <4>1, <4>2, <4>3 DEF Sound, Starting, Feeding, Live, Held
    <3>4. QED BY <2>1, <2>3, <3>2, <3>3 DEF IndexInv, Before
  <2>4. QED BY <2>1, <2>2, <2>3
<1>4. QED BY <1>1, <1>2, <1>3

\* The operation that is done is not to be done any more.
LEMMA QueuedTail ==
  ASSUME IndexTypes, script # << >>, script' = Tail(script), entries' = entries
  PROVE  /\ Op \in IndexOps
         /\ script' \in Seq(IndexOps) /\ IsInjective(script')
         /\ \A k \in Kinds : /\ Op.do = k => Op.at \in Queued(k) /\ Queued(k)' = Queued(k) \ {Op.at}
                             /\ Op.do # k => Queued(k)' = Queued(k)
<1>1. /\ Op \in Range(script) /\ Op \in IndexOps
      /\ script' \in Seq(IndexOps) /\ IsInjective(script')
      /\ Range(script') = Range(script) \ {Op}
  BY TakeHead DEF IndexTypes, Op
<1>2. ASSUME NEW k \in Kinds, NEW i \in DOMAIN entries
      PROVE  Feed(k, i) = Op <=> k = Op.do /\ i = Op.at
  BY <1>1 DEF IndexOps, Feed
<1>3. Op.at \in DOMAIN entries
  BY <1>1 DEF IndexOps
<1>4. ASSUME NEW k \in Kinds PROVE Queued(k)' = {i \in DOMAIN entries : Feed(k, i) \in Range(script')}
  BY DEF Queued, Feed
<1>5. QED BY <1>1, <1>2, <1>3, <1>4 DEF Queued

\* The operations.
LEMMA IndexWork ==
  ASSUME PackerInv, IndexInv, AddEntry \/ FeedNobody \/ FeedProbe \/ FeedPut \/ FeedFails
  PROVE  IndexInv'
<1>1. /\ pc = "work" /\ script # << >> /\ indexes = {} /\ JobsSane
      /\ UNCHANGED <<entries, tool, indexes>>
  BY DEF AddEntry, FeedNobody, FeedProbe, FeedPut, FeedFails, AtWork, Rest, Given,
         PackerInv, Collected, IndexInv
<1>2. ASSUME NEW k \in Kinds
      PROVE  /\ Sound(job[k]) /\ Sane(job[k]) /\ Feeding(job[k], Queued(k), Due(k))
             /\ Due(k)' = Due(k)
  BY <1>1 DEF IndexInv, JobsSane, Due
<1>3. IndexTypes
  BY DEF IndexInv
<1>4. ASSUME script' = Tail(script), pc' = "work",
             \A k \in Kinds : /\ Sound(job'[k])
                              /\ Feeding(job'[k], Queued(k)', Due(k))
      PROVE  IndexInv'
  <2>1. IndexTypes'
    BY <1>1, <1>3, <1>4, QueuedTail DEF IndexTypes, IndexOps
  <2>2. ASSUME NEW k \in Kinds
        PROVE  Sound(job[k])' /\ Feeding(job[k], Queued(k), Due(k))'
    BY <1>1, <1>2, <1>4 DEF Sound, Feeding, Live, Held
  <2>3. QED BY <1>1, <1>4, <2>1, <2>2 DEF IndexInv, Before
<1>5. CASE AddEntry
  <2>1. job' = job /\ Op.do = "add"
    BY <1>5 DEF AddEntry
  <2>2. CASE script' = Tail(script) /\ pc' = pc
    <3>1. \A k \in Kinds : Queued(k)' = Queued(k)
      BY <1>1, <1>3, <2>1, <2>2, QueuedTail DEF Kinds
    <3>2. QED BY <1>1, <1>2, <1>4, <2>1, <2>2, <3>1
  <2>3. CASE script' = script /\ pc' \in {"failed", "unwind"}
    BY <1>1, <2>1, <2>3, IndexAside DEF Before
  <2>4. QED BY <1>5, <2>2, <2>3 DEF AddEntry, Next1, Unwind
<1>6. CASE FeedNobody
  <2>1. /\ job' = job /\ script' = Tail(script) /\ pc' = pc
        /\ Op.do \in Kinds /\ ~job[Op.do].stdin
    BY <1>6 DEF FeedNobody, Next1, Rest
  <2>2. ASSUME NEW k \in Kinds PROVE Feeding(job'[k], Queued(k)', Due(k))
    <3>1. CASE k = Op.do
      <4>1. Queued(k)' \subseteq Queued(k)
        BY <1>1, <1>3, <2>1, <3>1, QueuedTail
      <4>2. QED BY <1>2, <2>1, <3>1, <4>1 DEF Feeding
    <3>2. CASE k # Op.do
      BY <1>1, <1>2, <1>3, <2>1, <3>2, QueuedTail
    <3>3. QED BY <3>1, <3>2
  <2>3. QED BY <1>1, <1>2, <1>4, <2>1, <2>2
<1>7. CASE FeedProbe
  <2>1. PICK k \in Kinds : k = Op.do /\ Probe(k) /\ UNCHANGED <<script, pc>>
    BY <1>7 DEF FeedProbe, Rest
  <2> DEFINE due == job[k].writes + 1 >= ProbeEvery
             gone == due /\ Exited(k)
             j == [job[k] EXCEPT !.writes = IF due THEN 0 ELSE @ + 1,
                                 !.probed = ~gone, !.stdin = ~gone, !.reaped = @ \/ gone]
  <2>2. job' = [job EXCEPT ![k] = j] /\ job[k].stdin
    BY <1>1, <2>1 DEF Probe, JobsSane
  <2>3. gone => job[k].child \in {"ok", "bad"}
    BY DEF Exited
  <2> HIDE DEF due, gone
  <2>4. /\ j.got = job[k].got /\ j.pipe = job[k].pipe /\ j.child = job[k].child
        /\ j.stdin = ~gone
    BY <1>2 DEF Sane, Fields
  <2>5. job[k].child # "ok"
    BY <1>2, <2>2 DEF Sound
  <2> HIDE DEF j
  <2>6. Sound(j) /\ Held(j) = Held(job[k]) /\ Live(j) = Live(job[k])
    BY <1>2, <2>4, <2>5 DEF Sound, Held, Live
  <2>7. Feeding(j, Queued(k), Due(k))
    BY <1>2, <2>3, <2>4, <2>5, <2>6 DEF Feeding, Live
  <2>8. ASSUME NEW l \in Kinds
        PROVE  Sound(job'[l]) /\ Feeding(job'[l], Queued(l), Due(l))
    BY <1>1, <1>2, <2>2, <2>6, <2>7 DEF JobsSane
  <2>9. ASSUME NEW l \in Kinds
        PROVE  Sound(job[l])' /\ Feeding(job[l], Queued(l), Due(l))'
    <3>1. Queued(l)' = Queued(l)
      BY <1>1, <2>1 DEF Queued, Feed
    <3>2. QED BY <1>1, <1>2, <2>8, <3>1 DEF Sound, Feeding, Live, Held
  <2>10. IndexTypes'
    BY <1>1, <1>3, <2>1 DEF IndexTypes, IndexOps
  <2>11. QED BY <1>1, <2>1, <2>9, <2>10 DEF IndexInv, Before
<1>8. CASE FeedPut
  <2>1. PICK k \in Kinds : k = Op.do /\ Put(k, Op.at) /\ script' = Tail(script) /\ pc' = pc
    BY <1>8 DEF FeedPut, Next1, Rest
  <2> DEFINE x == Op.at
             j == [job[k] EXCEPT !.pipe = Append(@, x), !.probed = FALSE]
  <2>2. job' = [job EXCEPT ![k] = j] /\ job[k].stdin
    BY <1>1, <2>1 DEF Put, JobsSane
  <2>3. /\ j.got = job[k].got /\ j.pipe = Append(job[k].pipe, x) /\ j.child = job[k].child
        /\ j.stdin = job[k].stdin
    BY <1>2 DEF Sane, Fields
  <2> HIDE DEF j
  <2>4. /\ x \in Queued(k) /\ Queued(k)' = Queued(k) \ {x} /\ x \in DOMAIN entries
        /\ \A l \in Kinds : l # k => Queued(l)' = Queued(l)
    BY <1>1, <1>3, <2>1, QueuedTail DEF Queued
  <2> HIDE DEF x
  <2>5. job[k].child # "ok"
    BY <1>2, <2>2 DEF Sound
  <2>6. /\ Held(job[k]) \cap Queued(k) = {}
        /\ Live(job[k]) => job[k].stdin /\ Held(job[k]) \cup Queued(k) = Due(k)
    BY <1>2 DEF Feeding
  <2>7. x \notin Range(job[k].pipe) /\ x \notin Range(job[k].got)
    BY <2>4, <2>6 DEF Held
  <2>8. /\ j.pipe \in Seq(DOMAIN entries) /\ IsInjective(j.pipe)
        /\ Range(j.pipe) = Range(job[k].pipe) \cup {x}
    BY <1>2, <2>3, <2>4, <2>7, PutLast DEF Sound
  <2>9. Sound(j)
    BY <1>2, <2>3, <2>5, <2>7, <2>8 DEF Sound
  <2>10. Held(j) = Held(job[k]) \cup {x} /\ Live(j) = Live(job[k])
    BY <2>3, <2>8 DEF Held, Live
  <2>11. Feeding(j, Queued(k)', Due(k))
    BY <2>3, <2>4, <2>6, <2>10 DEF Feeding
  <2>12. ASSUME NEW l \in Kinds
         PROVE  Sound(job'[l]) /\ Feeding(job'[l], Queued(l)', Due(l))
    BY <1>1, <1>2, <2>2, <2>4, <2>9, <2>11 DEF JobsSane
  <2>13. QED BY <1>1, <1>4, <2>1, <2>12
<1>9. CASE FeedFails
  <2>1. PICK k \in Kinds : k = Op.do /\ PutFails(k) /\ script' = Tail(script) /\ pc' = pc
    BY <1>9 DEF FeedFails, Next1, Rest
  <2> DEFINE j == [job[k] EXCEPT !.stdin = FALSE, !.probed = FALSE]
  <2>2. job' = [job EXCEPT ![k] = j] /\ job[k].stdin /\ ~Alive(k)
    BY <1>1, <2>1 DEF PutFails, JobsSane, Readable
  <2>3. /\ j.got = job[k].got /\ j.pipe = job[k].pipe /\ j.child = job[k].child /\ ~j.stdin
    BY <1>2 DEF Sane, Fields
  <2> HIDE DEF j
  <2>4. ~Live(job[k])
    BY <1>2, <2>2 DEF Sound, Alive, Live
  <2>5. Sound(j) /\ Held(j) = Held(job[k]) /\ ~Live(j)
    BY <1>2, <2>3, <2>4 DEF Sound, Held, Live
  <2>6. /\ Queued(k)' \subseteq Queued(k)
        /\ \A l \in Kinds : l # k => Queued(l)' = Queued(l)
    BY <1>1, <1>3, <2>1, QueuedTail
  <2>7. Feeding(j, Queued(k)', Due(k))
    BY <1>2, <2>5, <2>6 DEF Feeding
  <2>8. ASSUME NEW l \in Kinds
        PROVE  Sound(job'[l]) /\ Feeding(job'[l], Queued(l)', Due(l))
    BY <1>1, <1>2, <2>2, <2>5, <2>6, <2>7 DEF JobsSane
  <2>9. QED BY <1>1, <1>4, <2>1, <2>8
<1>10. QED BY <1>5, <1>6, <1>7, <1>8, <1>9
\* finish, and what is left to do when the children are done.
LEMMA IndexFinish ==
  ASSUME PackerInv, IndexInv,
         Finish \/ WaitForChild \/ JoinThread \/ Unspawned \/ Seal \/ Publish
  PROVE  IndexInv'
<1>1. JobsSane /\ Turn \in Kinds /\ \A k \in Kinds : Sound(job[k])
  BY DEF PackerInv, Collected, IndexInv, Turn, Kinds
<1>2. CASE Finish
  <2>1. /\ pc = "work" /\ pc' = "finish" /\ script = << >> /\ CloseAll /\ indexes = {}
        /\ UNCHANGED <<entries, tool, script, indexes>>
    BY <1>2 DEF Finish, Go, Given, IndexInv
  <2>2. IndexTypes'
    BY <2>1 DEF IndexInv, IndexTypes, IndexOps
  <2>3. ASSUME NEW k \in Kinds PROVE Sound(job[k])' /\ Complete(job[k], Due(k))'
    <3>1. /\ Sound(job'[k]) /\ ~job'[k].stdin
          /\ job'[k].got = job[k].got /\ job'[k].pipe = job[k].pipe
          /\ job'[k].child = job[k].child
      BY <1>1, <2>1, ClosingSpares
    <3>2. Feeding(job[k], Queued(k), Due(k))
      BY <2>1 DEF IndexInv
    <3>3. Queued(k) = {} /\ Due(k)' = Due(k)
      BY <2>1, EmptyChannel DEF Queued, Due
    <3>4. Held(job[k])' = Held(job[k]) /\ Live(job[k])' = Live(job[k])
      BY <3>1 DEF Held, Live
    <3>5. QED BY <2>1, <3>1, <3>2, <3>3, <3>4 DEF Sound, Feeding, Complete
  <2>4. QED BY <2>1, <2>2, <2>3 DEF IndexInv, Before
<1>3. CASE WaitForChild
  <2>1. Wait(Turn) /\ UNCHANGED run
    BY <1>3 DEF WaitForChild
  <2>2. QED BY <1>1, <2>1, ReapFollows, IndexKept
<1>4. CASE JoinThread
  <2>1. PICK t \in Kinds : t = Turn
    BY <1>1
  <2>2. /\ Join(t) /\ UNCHANGED <<entries, tool, script, pc>>
        /\ pc \in {"finish", "reap", "unspawn"}
        /\ indexes' = IF pc = "finish" /\ HasBlob(t) THEN indexes \cup {t} ELSE indexes
    BY <1>4, <2>1 DEF JoinThread, Given
  <2>3. \A k \in Kinds : Follows(job[k], job'[k])
    BY <1>1, <2>2, ReapFollows
  <2>4. IndexTypes'
    BY <2>2 DEF IndexInv, IndexTypes, IndexOps
  <2>5. ASSUME NEW k \in Kinds
        PROVE  /\ Sound(job[k])' /\ Due(k)' = Due(k)
               /\ Held(job[k])' = Held(job[k]) /\ (Live(job[k])' => Live(job[k]))
               /\ job'[k].stdin = job[k].stdin
    BY <2>2, <2>3 DEF Follows, Sound, Due, Held, Live
  <2>6. ASSUME pc \in Before
        PROVE  indexes' = {} /\ \A k \in Kinds : Starting(job[k])'
    <3>1. indexes' = {}
      BY <2>2, <2>6 DEF IndexInv, Before
    <3>2. ASSUME NEW k \in Kinds PROVE Starting(job[k])'
      BY <2>3, <2>6 DEF IndexInv, Follows, Starting, Live
    <3>3. QED BY <3>1, <3>2
  <2>7. ASSUME pc = "finish", NEW k \in Kinds PROVE Complete(job[k], Due(k))'
    <3>1. Complete(job[k], Due(k))
      BY <2>7 DEF IndexInv
    <3>2. QED BY <2>5, <3>1 DEF Complete
  <2>8. ASSUME NEW k \in indexes'
        PROVE  job'[k].child = "ok" /\ Range(job'[k].got) = Due(k)'
    <3>1. CASE k \in indexes
      <4>1. k \in Kinds /\ job[k].child = "ok" /\ Range(job[k].got) = Due(k)
        BY <2>2, <3>1 DEF IndexInv, IndexTypes
      <4>2. QED BY <2>3, <2>5, <4>1 DEF Follows
    <3>2. CASE k \notin indexes
      <4>1. k = t /\ pc = "finish" /\ HasBlob(t)
        BY <2>2, <2>8, <3>2
      <4>2. job[t].child = "ok" /\ job[t].pipe = << >> /\ Complete(job[t], Due(t))
        BY <1>1, <4>1 DEF HasBlob, Sound, IndexInv
      <4>3. Range(job[t].got) = Due(t)
        BY <4>2, EmptyChannel DEF Complete, Live, Held
      <4>4. QED BY <2>3, <2>5, <4>1, <4>2, <4>3 DEF Follows
    <3>3. QED BY <3>1, <3>2
  <2>9. QED BY <2>2, <2>4, <2>5, <2>6, <2>7, <2>8 DEF IndexInv
<1>5. CASE Unspawned
  <2>1. /\ job' = NoJobs /\ pc = "unspawn" /\ pc' = "metadata" /\ indexes = {}
        /\ UNCHANGED <<entries, tool, script, indexes>>
    BY <1>5 DEF Unspawned, Go, Given, IndexInv, Before
  <2>2. IndexTypes'
    BY <2>1 DEF IndexInv, IndexTypes, IndexOps
  <2>3. ASSUME NEW k \in Kinds PROVE Sound(job[k])' /\ Starting(job[k])'
    BY <2>1, EmptyChannel DEF Sound, Starting, Live, NoJobs, NoJob
  <2>4. QED BY <2>1, <2>2, <2>3 DEF IndexInv, Before
<1>6. CASE Seal \/ Publish
  <2>1. /\ job' = job /\ UNCHANGED <<entries, tool, script, indexes>>
        /\ pc \in {"finish", "rename"} /\ pc' \in {"rename", "clean", "unwind", "failed"}
    BY <1>6 DEF Seal, Publish, Go, Unwind, Given
  <2>2. QED BY <2>1, IndexAside DEF Before
<1>7. QED BY <1>2, <1>3, <1>4, <1>5, <1>6

\* Unwinding, and the end.
LEMMA IndexDrop ==
  ASSUME PackerInv, IndexInv, DropHelper \/ Reaped \/ RemoveDir \/ Crash
  PROVE  IndexInv'
<1>1. JobsSane /\ \A k \in Kinds : Sound(job[k])
  BY DEF PackerInv, Collected, IndexInv
<1>2. UNCHANGED <<entries, tool, script, indexes>>
  BY DEF DropHelper, Reaped, RemoveDir, Crash, Given
<1>3. IndexTypes'
  BY <1>2 DEF IndexInv, IndexTypes, IndexOps
<1>4. CASE Reaped \/ RemoveDir \/ (DropHelper /\ job' = job /\ pc' = "clean")
  <2>1. /\ job' = job /\ pc \in {"reap", "clean", "unwind"}
        /\ pc' \in {"unwind", "ok", "failed", "clean"}
    BY <1>4 DEF Reaped, RemoveDir, DropHelper, Go
  <2>2. QED BY <1>2, <2>1, IndexAside DEF Before
<1>5. ASSUME NEW k \in Children, Kill(k), pc = "unwind", pc' = "reap" PROVE IndexInv'
  <2>1. k \in Kinds
    BY DEF Children
  <2>2. \A l \in Kinds : /\ Sound(job'[l]) /\ job'[l].got = job[l].got
                         /\ job[l].child = "ok" => job'[l].child = "ok"
    BY <1>1, <1>5, <2>1, KillSpares
  <2>3. ASSUME NEW l \in Kinds PROVE Sound(job[l])' /\ Due(l)' = Due(l)
    BY <1>2, <2>2 DEF Sound, Due
  <2>4. ASSUME NEW l \in indexes
        PROVE  job'[l].child = "ok" /\ Range(job'[l].got) = Due(l)'
    <3>1. l \in Kinds /\ job[l].child = "ok" /\ Range(job[l].got) = Due(l)
      BY <1>5 DEF IndexInv, IndexTypes
    <3>2. QED BY <2>2, <2>3, <3>1
  <2>5. QED BY <1>2, <1>3, <1>5, <2>3, <2>4 DEF IndexInv, Before
<1>6. CASE Crash
  <2>1. job' = NoJobs /\ pc' = "crashed"
    BY <1>6 DEF Crash, Go
  <2>2. ASSUME NEW k \in Kinds PROVE Sound(job[k])'
    BY <2>1, EmptyChannel DEF Sound, NoJobs, NoJob
  <2>3. QED BY <1>3, <2>1, <2>2 DEF IndexInv, Before
<1>7. CASE DropHelper
  <2>1. \/ job' = job /\ pc' = "clean"
        \/ \E k \in Children : Kill(k) /\ pc' = "reap"
    BY <1>7 DEF DropHelper, Go
  <2>2. pc = "unwind"
    BY <1>7 DEF DropHelper
  <2>3. QED BY <1>4, <1>5, <1>7, <2>1, <2>2
<1>8. QED BY <1>4, <1>6, <1>7

\* The invariant holds before the run has looked at its destination.
LEMMA IndexInit ==
  ASSUME Init
  PROVE  IndexInv
<1>1. /\ entries \in Batches /\ tool \in {"zimwriterfs", "zimrecreate"}
      /\ script = << >> /\ indexes = {} /\ pc = "check" /\ job = NoJobs
  BY DEF Init
<1>2. IndexTypes
  BY <1>1, BatchesAssumption, EmptyChannel DEF IndexTypes
<1>3. ASSUME NEW k \in Kinds PROVE Sound(job[k]) /\ Starting(job[k])
  BY <1>1, EmptyChannel DEF Sound, Starting, Live, NoJobs, NoJob
<1>4. QED BY <1>1, <1>2, <1>3 DEF IndexInv, Before

\* A list without repetitions is as long as the set of what is in it.
LEMMA OnceSize ==
  ASSUME NEW S, NEW q \in Seq(S), IsInjective(q)
  PROVE  Len(q) = Cardinality(Range(q))
<1>1. PICK n \in Nat : n = Len(q) /\ DOMAIN q = 1 .. n
  BY LenProperties
<1>2. q \in [1 .. n -> Range(q)] /\ \A x \in Range(q) : \E i \in 1 .. n : q[i] = x
  <2>1. q = [i \in 1 .. n |-> q[i]]
    BY <1>1, LenProperties
  <2>2. QED BY <1>1, <2>1 DEF Range
<1>3. q \in Bijection(1 .. n, Range(q))
  BY <1>1, <1>2 DEF Bijection, Injection, Surjection, IsInjective
<1>4. ExistsBijection(1 .. n, Range(q))
  BY <1>3 DEF ExistsBijection
<1>5. IsFiniteSet(1 .. n) /\ Cardinality(1 .. n) = n
  BY FS_Interval
<1>6. QED BY <1>1, <1>4, <1>5, FS_Bijection

\* Every step of a run, of its children and of the threads keeps the account of
\* the documents: fed, in the pipe or read.
THEOREM IndexInvariance == Spec => []IndexInv
<1>1. Init => IndexInv
  BY IndexInit
<1>2. ASSUME PackerInv, IndexInv, [Next]_vars PROVE IndexInv'
  <2>1. CASE Parent
    BY <1>2, <2>1, IndexEarly, IndexWork, IndexFinish, IndexDrop DEF Parent
  <2>2. CASE Crash
    BY <1>2, <2>2, IndexDrop
  <2>3. ASSUME NEW k \in Kinds, Others(k) PROVE IndexInv'
    <3>1. JobsSane /\ Environment(k) /\ UNCHANGED run /\ \A l \in Kinds : Sound(job[l])
      BY <1>2, <2>3 DEF Others, PackerInv, Collected, IndexInv
    <3>2. \A l \in Kinds : Follows(job[l], job'[l])
      BY <3>1, EnvironmentFollows
    <3>3. QED BY <1>2, <3>1, <3>2, IndexKept
  <2>4. CASE UNCHANGED vars
    <3>1. UNCHANGED run /\ job' = job
      BY <2>4 DEF vars
    <3>2. \A l \in Kinds : Follows(job[l], job'[l])
      BY <1>2, <3>1, NothingFollows DEF IndexInv
    <3>3. QED BY <1>2, <3>1, <3>2, IndexKept
  <2>5. QED BY <1>2, <2>1, <2>2, <2>3, <2>4 DEF Next, Over
<1>3. QED BY <1>1, <1>2, PackerInvariance, PTL DEF Spec

\* For any entries, any pipes and any failure: an index that is added to the
\* archive was made from exactly the entries it is for, each once.
THEOREM IndexesAreExact == Spec => []IndexExact
<1>1. IndexInv => IndexExact
  <2>1. SUFFICES ASSUME IndexInv, pc # "crashed", NEW k \in indexes
                 PROVE  LET due == IF k = "fulltext" THEN Fronts
                                   ELSE IF tool = "zimrecreate" THEN Fronts \cup {"tohtml"}
                                   ELSE Articles \cup Redirects
                            fed == job[k].got
                        IN /\ Len(fed) = Cardinality({i \in DOMAIN entries : entries[i] \in due})
                           /\ \A i \in DOMAIN entries :
                                entries[i] \in due => \E n \in DOMAIN fed : fed[n] = i
    BY DEF IndexExact
  <2>2. Sound(job[k]) /\ Range(job[k].got) = Due(k)
    BY <2>1 DEF IndexInv, IndexTypes
  <2>3. Len(job[k].got) = Cardinality(Due(k))
    BY <2>2, OnceSize DEF Sound
  <2>4. \A i \in Due(k) : \E n \in DOMAIN job[k].got : job[k].got[n] = i
    BY <2>2 DEF Range
  <2>5. QED BY <2>3, <2>4 DEF Due
<1>2. QED BY <1>1, IndexInvariance, PTL
=============================================================================
