------------------------------- MODULE Packer -------------------------------
(***************************************************************************)
(* `run` of zimwriterfs (src/bin/zimwriterfs.rs) and of zimrecreate          *)
(* (src/bin/zimrecreate.rs): an archive is written to a directory of its own *)
(* beside the destination while the children of IndexHelper build the search *)
(* indexes from the same entries; the indexes are added, the archive is      *)
(* finished and renamed onto the destination.  Whatever fails, `?` returns   *)
(* and the locals are dropped: the helper, the creator, the directory.       *)
(*                                                                         *)
(* Abstractions.  Between spawn and finish the run is a list of operations   *)
(* made from the entries; each of them but the feeds may fail.  What the     *)
(* creator does with what it is given is StreamWriter.  "source" is the      *)
(* input tree or archive; the destination's name may lead into it.           *)
(***************************************************************************)
EXTENDS IndexHelper, SequencesExt

\* Kinds of entries.
Fronts == {"html"}
Articles == Fronts \cup {"other", "big"}
Redirects == {"tohtml", "toother"}

CONSTANTS Batches,    \* lists of kinds of entries
          Attempts,   \* numbers tried for the directory
          Leftovers   \* sets of numbers already taken

ASSUME BatchesAssumption == Batches \subseteq Seq(Articles \cup Redirects)

\* Attempts are counted in 64 bits: there is always a number that is free.
ASSUME AttemptAssumption ==
    Attempts \subseteq Nat /\ \A L \in Leftovers : Attempts \ L # {}

VARIABLES
  tool,      \* "zimwriterfs" | "zimrecreate"
  entries,   \* kinds of the entries, in the order they are met
  wanted,    \* indexes asked for
  place,     \* what the destination leads to at the start
  dest,      \* "none" | "old" | "source" | "partial" | "new"
  source,    \* "whole" | "gone"
  dirs,      \* numbers of the temporary directories beside the destination
  taken,     \* those found at the start
  mine,      \* the one this run made, if it has
  pc,
  script,    \* operations to do
  waiting,   \* children to be waited for
  indexes,   \* blobs to be added, then those that are in the archive
  stuck      \* history: directories whose removal failed by itself

Given == <<tool, entries, wanted, place, taken>>
run == <<Given, dest, source, dirs, mine, pc, script, waiting, indexes, stuck>>
vars == <<run, job>>

Init ==
    /\ job = NoJobs
    /\ tool \in {"zimwriterfs", "zimrecreate"}
    /\ entries \in Batches
    /\ wanted \in {{"title"}, Kinds}
    /\ place \in {"none", "old", "hardlink", "source"}
    /\ dest = IF place = "hardlink" THEN "source" ELSE place
    /\ source = "whole"
    /\ taken \in Leftovers
    /\ dirs = taken
    /\ mine = {}
    /\ pc = "check"
    /\ script = << >>
    /\ waiting = {}
    /\ indexes = {}
    /\ stuck = {}

----------------------------------------------------------------------------
(* The operations between spawn and finish *)

Add(i) == [do |-> "add", at |-> i]
Feed(k, i) == [do |-> k, at |-> i]

\* zimwriterfs: files as they are walked, then the links and the redirects.
\* A big file goes in by chunks and is fed when it is in.
PackFile(i) ==
    CASE entries[i] = "html"  -> <<Feed("title", i), Feed("fulltext", i), Add(i)>>
      [] entries[i] = "other" -> <<Feed("title", i), Add(i)>>
      [] OTHER                -> <<Add(i), Feed("title", i)>>

\* zimrecreate: redirects while the dirents are read, then the articles by
\* cluster; only front articles and redirects to them go in the title index.
CopyEntry(i) ==
    CASE entries[i] = "html"   -> <<Feed("title", i), Feed("fulltext", i), Add(i)>>
      [] entries[i] = "tohtml" -> <<Add(i), Feed("title", i)>>
      [] OTHER                 -> <<Add(i)>>

\* The operations of the entries of these kinds, in the order of the entries.
These(ops, kinds) ==
    FlattenSeq([i \in DOMAIN entries |-> IF entries[i] \in kinds THEN ops[i] ELSE << >>])

Script ==
    LET Packed == [i \in DOMAIN entries |-> PackFile(i)]
        Copied == [i \in DOMAIN entries |-> CopyEntry(i)]
    IN
    IF tool = "zimwriterfs"
    THEN These(Packed, Articles) \o These(Packed, Redirects)
    ELSE These(Copied, Redirects) \o These(Copied, Articles)

----------------------------------------------------------------------------
(* Up to the first operation *)

Go(next) == pc' = next

\* `?`: the locals that exist are dropped.
Unwind == pc' = IF mine = {} THEN "failed" ELSE "unwind"

\* The destination must be outside HTML_DIR; it must not be the source file.
Refused ==
    \/ place = "source"
    \/ place = "hardlink" /\ tool = "zimrecreate"

Check ==
    /\ pc = "check"
    /\ IF Refused THEN Unwind ELSE Go("mkdir") \/ Unwind
    /\ UNCHANGED <<Given, stuck, dest, source, dirs, mine, script,
                   waiting, indexes, job>>

\* make_index_tmp_dir, make_output_tmp_dir: the first number that is free.
MakeDir ==
    /\ pc = "mkdir"
    /\ \/ /\ mine' = {Min(Attempts \ dirs)}
          /\ dirs' = dirs \cup mine'
          /\ Go("start")
       \/ Unwind /\ UNCHANGED <<mine, dirs>>
    /\ UNCHANGED <<Given, stuck, dest, source, script, waiting, indexes, job>>

\* Mutant: the archive is created where it is to be.
StartInPlace ==
    /\ pc = "start"
    /\ source' = IF dest = "source" THEN "gone" ELSE source
    /\ dest' = "partial"
    /\ Go("spawn") \/ Unwind
    /\ UNCHANGED <<Given, stuck, dirs, mine, script, waiting, indexes, job>>

\* Options, the main path, start_writing on the staged file.
Start ==
    /\ pc = "start"
    /\ Go("spawn") \/ Unwind
    /\ UNCHANGED <<Given, stuck, dest, source, dirs, mine, script,
                   waiting, indexes, job>>

\* IndexHelper::spawn: no binary, or a first child that cannot be spawned, and
\* there are no indexes; if the second cannot, the first is killed.
Spawn ==
    /\ pc = "spawn"
    /\ \/ /\ job' = [k \in Kinds |-> IF k \in wanted THEN Spawned ELSE NoJob]
          /\ Go("metadata")
          /\ UNCHANGED waiting
       \/ UNCHANGED <<job, waiting>> /\ Go("metadata")
       \/ /\ wanted = Kinds
          /\ \E h \in BOOLEAN :
               job' = [job EXCEPT !["fulltext"] =
                         [Spawned EXCEPT !.stdin = FALSE, !.child = "bad", !.heir = h]]
          /\ waiting' = {"fulltext"}
          /\ Go("unspawn")
    /\ UNCHANGED <<Given, stuck, dest, source, dirs, mine, script, indexes>>

\* Metadata, the illustration, the walk of the input.
Metadata ==
    /\ pc = "metadata"
    /\ \/ Go("work") /\ script' = Script
       \/ Unwind /\ UNCHANGED script
    /\ UNCHANGED <<Given, stuck, dest, source, dirs, mine, waiting, indexes, job>>

----------------------------------------------------------------------------
(* The operations *)

Op == Head(script)
AtWork == pc = "work" /\ script # << >>
Next1 == script' = Tail(script)
Rest == <<Given, stuck, dest, source, dirs, mine, pc, waiting, indexes>>

AddEntry ==
    /\ AtWork /\ Op.do = "add"
    /\ \/ Next1 /\ UNCHANGED pc
       \/ Unwind /\ UNCHANGED script
    /\ UNCHANGED <<Given, stuck, dest, source, dirs, mine, waiting, indexes, job>>

\* No child for this index, or one that is not fed any more.
FeedNobody ==
    /\ AtWork /\ Op.do \in Kinds
    /\ ~job[Op.do].stdin
    /\ Next1
    /\ UNCHANGED <<Rest, job>>

FeedProbe ==
    /\ AtWork /\ Op.do \in Kinds
    /\ Probe(Op.do)
    /\ UNCHANGED <<Rest, script>>

FeedPut ==
    /\ AtWork /\ Op.do \in Kinds
    /\ Put(Op.do, Op.at) /\ Next1
    /\ UNCHANGED Rest

FeedFails ==
    /\ AtWork /\ Op.do \in Kinds
    /\ PutFails(Op.do) /\ Next1
    /\ UNCHANGED Rest

----------------------------------------------------------------------------
(* IndexHelper::finish and the end of the run *)

Children == {k \in Kinds : job[k].child # "none"}

Finish ==
    /\ pc = "work" /\ script = << >>
    /\ CloseAll
    /\ waiting' = Children
    /\ Go("finish")
    /\ UNCHANGED <<Given, stuck, dest, source, dirs, mine, script, indexes>>

\* One child after the other, the fulltext one first.
Turn == IF "fulltext" \in waiting THEN "fulltext" ELSE "title"

WaitForChild ==
    /\ pc \in {"finish", "reap", "unspawn"} /\ waiting # {}
    /\ Wait(Turn)
    /\ UNCHANGED run

JoinThread ==
    /\ pc \in {"finish", "reap", "unspawn"} /\ waiting # {}
    /\ Join(Turn)
    /\ waiting' = waiting \ {Turn}
    /\ indexes' = IF pc = "finish" /\ HasBlob(Turn) THEN indexes \cup {Turn} ELSE indexes
    /\ UNCHANGED <<Given, stuck, dest, source, dirs, mine, pc, script>>

\* The first child is gone, there is no helper.
Unspawned ==
    /\ pc = "unspawn" /\ waiting = {}
    /\ job' = NoJobs
    /\ Go("metadata")
    /\ UNCHANGED <<Given, stuck, dest, source, dirs, mine, script,
                   waiting, indexes>>

\* add_to for each blob, finish_writing.
Seal ==
    /\ pc = "finish" /\ waiting = {}
    /\ Go("rename") \/ Unwind
    /\ UNCHANGED <<Given, stuck, dest, source, dirs, mine, script,
                   waiting, indexes, job>>

Publish ==
    /\ pc = "rename"
    /\ \/ dest' = "new" /\ Go("clean")
       \/ Unwind /\ UNCHANGED dest
    /\ UNCHANGED <<Given, stuck, source, dirs, mine, script, waiting,
                   indexes, job>>

----------------------------------------------------------------------------
(* Drop *)

\* Mutant: the directory goes first.
DropDirFirst ==
    /\ pc = "unwind"
    /\ Go("clean")
    /\ UNCHANGED <<Given, stuck, dest, source, dirs, mine, script,
                   waiting, indexes, job>>

\* IndexHelper::drop: close, kill, wait, join for each child; finish has left
\* none.
DropHelper ==
    /\ pc = "unwind"
    /\ LET live == {k \in Children : job[k].drain # "joined"}
       IN \/ live = {} /\ Go("clean") /\ UNCHANGED <<job, waiting>>
          \/ \E k \in live : /\ \A l \in live : k = "fulltext" \/ l = "title"
                             /\ Kill(k) /\ waiting' = {k} /\ Go("reap")
    /\ UNCHANGED <<Given, stuck, dest, source, dirs, mine, script, indexes>>

Reaped ==
    /\ pc = "reap" /\ waiting = {}
    /\ Go("unwind")
    /\ UNCHANGED <<Given, stuck, dest, source, dirs, mine, script,
                   waiting, indexes, job>>

\* TmpDirCleanup: whatever remove_dir_all answers is ignored.  It fails by
\* itself, or because a child still writes there.
RemoveDir ==
    /\ pc = "clean"
    /\ \/ dirs' = dirs \ mine /\ UNCHANGED stuck
       \/ stuck' = mine /\ UNCHANGED dirs
       \/ (\E k \in Kinds : Alive(k)) /\ UNCHANGED <<dirs, stuck>>
    /\ pc' = IF dest = "new" THEN "ok" ELSE "failed"
    /\ UNCHANGED <<Given, dest, source, mine, script, waiting, indexes, job>>

----------------------------------------------------------------------------

Ended == pc \in {"ok", "failed"}

\* Killed: nothing is dropped.  The children are left to themselves.
Crash ==
    /\ ~Ended /\ pc # "crashed"
    /\ Go("crashed")
    /\ job' = NoJobs
    /\ UNCHANGED <<Given, stuck, dest, source, dirs, mine, script,
                   waiting, indexes>>

Parent ==
    \/ Check \/ MakeDir \/ Start \/ Spawn \/ Metadata
    \/ AddEntry \/ FeedNobody \/ FeedProbe \/ FeedPut \/ FeedFails
    \/ Finish \/ WaitForChild \/ JoinThread \/ Unspawned \/ Seal \/ Publish
    \/ DropHelper \/ Reaped \/ RemoveDir

Others(k) == Environment(k) /\ UNCHANGED run

Over == (Ended \/ pc = "crashed") /\ UNCHANGED vars

Next == Parent \/ Crash \/ Over \/ \E k \in Kinds : Others(k)

Spec == Init /\ [][Next]_vars

\* The parent, the threads and the operating system go on; a child reads what
\* it gets and ends at the end of its input; a grandchild exits at some time.
FairSpec ==
    /\ Spec
    /\ WF_vars(Parent)
    /\ \A k \in Kinds :
         /\ WF_vars(ChildStep(k) /\ UNCHANGED run)
         /\ WF_vars(Drain(k) /\ UNCHANGED run)
         /\ WF_vars(HeirExits(k) /\ UNCHANGED run)

----------------------------------------------------------------------------
(* Properties *)

\* "Only a completed archive is published; failures never truncate the source
\* or destination" (src/bin/zimrecreate.rs:182), also when the destination is a
\* second name of an input file, also when the run is killed; and the exit
\* status tells whether the destination is new.
PublishedWhole ==
    /\ source = "whole"
    /\ dest = "new" \/ dest = IF place = "hardlink" THEN "source" ELSE place
    /\ Ended => (pc = "ok" <=> dest = "new")

\* A run that is not killed leaves no child, no zombie, no thread and, unless
\* remove_dir_all itself failed on it, no directory of its own, and touches
\* nobody else's.
NothingLeft ==
    Ended =>
      /\ \A k \in Children : job[k].reaped /\ job[k].drain = "joined"
      /\ dirs = taken \cup stuck
      /\ stuck \subseteq mine

\* An index in the archive is made from exactly the entries it is for, each
\* once: the title index from every entry (zimwriterfs) or from the articles
\* and the redirects to them (zimrecreate), the fulltext index from articles.
IndexExact ==
    dest = "new" /\ pc # "crashed" =>
      \A k \in indexes :
        LET due == IF k = "fulltext" THEN Fronts
                   ELSE IF tool = "zimrecreate" THEN Fronts \cup {"tohtml"}
                   ELSE Articles \cup Redirects
            fed == job[k].got
        IN /\ Len(fed) = Cardinality({i \in DOMAIN entries : entries[i] \in due})
           /\ \A i \in DOMAIN entries :
                entries[i] \in due => \E n \in DOMAIN fed : fed[n] = i

\* The run ends, whatever a child does with its pipes, as long as nobody keeps
\* them for ever.
RunEnds == <>(Ended \/ pc = "crashed")
=============================================================================
