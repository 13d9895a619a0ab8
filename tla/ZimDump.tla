------------------------------ MODULE ZimDump ------------------------------
(***************************************************************************)
(* `zimdump dump` of src/bin/zimdump.rs: every content entry becomes a file *)
(* under --dir, redirects become links or stubs.  Pass 1 plans from the      *)
(* dirents alone, pass 2 writes the articles cluster by cluster in parallel, *)
(* pass 3 writes the redirects one after the other.  DumpRoot publishes each *)
(* file by renaming a complete temporary file.                               *)
(*                                                                         *)
(* Abstractions.  A path is a sequence of names.  The name an exiled entry   *)
(* gets under _exceptions/ is its whole path with the separators escaped:    *)
(* here the sequence of its segments, so that a name is a sequence of        *)
(* strings, of length one if nothing was escaped.  No segment of an archive  *)
(* contains an escape itself.  Only entries of the dumped namespace are      *)
(* there, and none is called dump_errors.log.  The directory may hold        *)
(* directories of an earlier dump.                                           *)
(***************************************************************************)
EXTENDS Naturals, FiniteSets, SequencesExt

CONSTANTS RawPaths,   \* paths archives use, in directory order
          N,          \* number of entries
          Clusters,   \* source clusters
          Workers,    \* threads of the rayon pool
          Main,       \* the thread that writes redirects
          Leftovers   \* sets of directories found under --dir

ASSUME SizeAssumption ==
    RawPaths \in Seq(Seq(STRING)) /\ N \in Nat /\ N <= Len(RawPaths)
ASSUME MainAssumption == Main \notin Workers

VARIABLES
  entry,     \* the archive: entries in directory order
  old,       \* the directories found under --dir
  phase,     \* "plan" | "articles" | "redirects" | "done" | "failed"
  exiled,    \* pass 1: entries that go to _exceptions/
  todo,      \* pass 2: clusters not started
  aborted,   \* a cluster or a blob could not be read
  job,       \* what each thread is at
  fs,        \* path -> what is there
  fallback,  \* fallback_paths: where an entry is, if not at its path
  lost       \* entries whose failure was logged

vars == <<entry, old, phase, exiled, todo, aborted, job, fs, fallback, lost>>

Index == 1 .. N
Procs == Workers \cup {Main}
Exceptions == "_exceptions"

\* Directory order: entries take RawPaths in order, each at most once.
Entries ==
    {e \in [Index -> [at : DOMAIN RawPaths, cluster : Clusters \cup {0}, target : Index]] :
       /\ \A i, j \in Index : i < j => e[i].at < e[j].at
       /\ \A i \in Index : e[i].cluster # 0 => e[i].target = i}

IsRedirect(i) == entry[i].cluster = 0

\* The elements of a set of numbers in order.
Ascending(S) == CHOOSE q \in [1 .. Cardinality(S) -> S] :
                  \A i, j \in DOMAIN q : i < j => q[i] < q[j]

\* safe_path: the segments that name something.
Safe(p) ==
    LET kept == Ascending({k \in DOMAIN p : p[k] \notin {"", ".", ".."}})
    IN IF kept = << >> THEN <<"_">> ELSE [k \in DOMAIN kept |-> p[kept[k]]]

\* safe_path of every raw path, computed once: as one name, and as a path.
Names == [k \in DOMAIN RawPaths |-> Safe(RawPaths[k])]
Rels == [k \in DOMAIN Names |-> [j \in DOMAIN Names[k] |-> <<Names[k][j]>>]]

Rel(i) == Rels[entry[i].at]

\* exception_dest
ExceptionDest(i) == << <<Exceptions>>, Names[entry[i].at] >>

DirsAbove(p) == {SubSeq(p, 1, k) : k \in 1 .. Len(p) - 1}

\* Everything that can come into being under --dir.
Places == UNION {{Rels[k]} \cup DirsAbove(Rels[k])
                   \cup {<< <<Exceptions>>, Names[k] >>,
                         << <<Exceptions>> >>}
                 : k \in DOMAIN RawPaths}

None == [is |-> "none", of |-> 0, ups |-> 0, to |-> << >>]
Dir == [None EXCEPT !.is = "dir"]
File(i, ups, to) == [is |-> "file", of |-> i, ups |-> ups, to |-> to]

Idle == [queue |-> << >>, stage |-> "idle", dest |-> << >>, depth |-> 0,
         fell |-> FALSE, to |-> << >>]

Init ==
    /\ entry \in Entries
    /\ old \in Leftovers
    /\ phase = "plan"
    /\ exiled = {}
    /\ todo = {}
    /\ aborted = FALSE
    /\ job = [w \in Procs |-> Idle]
    /\ fs = [p \in Places |-> IF p \in old THEN Dir ELSE None]
    /\ fallback = << >>
    /\ lost = {}

----------------------------------------------------------------------------
(* Pass 1 *)

\* Mutant: only the parent is looked for.
IsExiledByParent(i) == \E j \in Index : Rel(j) = Front(Rel(i))

\* A shallower entry has the path of one of the directories above.
IsExiled(i) == \E j \in Index : Rel(j) \in DirsAbove(Rel(i))

Plan ==
    /\ phase = "plan"
    /\ phase' = "articles"
    /\ exiled' = {i \in Index : IsExiled(i)}
    /\ fallback' = [r \in {Rel(i) : i \in {j \in exiled' : IsRedirect(j)}} |->
                      ExceptionDest(CHOOSE i \in Index : Rel(i) = r)]
    /\ todo' = {entry[i].cluster : i \in Index} \ {0}
    /\ UNCHANGED <<entry, old, aborted, job, fs, lost>>

\* A dirent or a redirect target cannot be read.
PlanFails ==
    /\ phase = "plan"
    /\ phase' = "failed"
    /\ UNCHANGED <<entry, old, exiled, todo, aborted, job, fs, fallback, lost>>

----------------------------------------------------------------------------
(* write_with_fallback and DumpRoot, for thread w *)

Current(w) == Head(job[w].queue)

Found(p) == IF p \in DOMAIN fallback THEN fallback[p] ELSE p

\* The thread is done with its entry.
Proceed(w) ==
    job' = [job EXCEPT ![w] =
              [Idle EXCEPT !.queue = Tail(job[w].queue),
                           !.stage = IF Len(job[w].queue) = 1 THEN "idle" ELSE "next"]]

LogFailure(w) ==
    /\ lost' = lost \cup {Current(w)}
    /\ Proceed(w)
    /\ UNCHANGED <<fs, fallback>>

\* A redirect's target is looked up when its own turn comes.
Begin(w) ==
    /\ job[w].stage = "next"
    /\ LET i == Current(w) IN
         job' = [job EXCEPT ![w].stage = "walk",
                            ![w].depth = 0,
                            ![w].fell = i \in exiled,
                            ![w].dest = IF i \in exiled THEN ExceptionDest(i) ELSE Rel(i),
                            ![w].to = IF IsRedirect(i) THEN Found(Rel(entry[i].target))
                                                       ELSE << >>]
    /\ UNCHANGED <<fs, fallback, lost>>

Walking(w) == job[w].stage = "walk" /\ job[w].depth < Len(job[w].dest) - 1
NextDir(w) == SubSeq(job[w].dest, 1, job[w].depth + 1)

\* openat, mkdirat if need be, openat.
Descend(w) ==
    /\ Walking(w)
    /\ fs[NextDir(w)].is # "file"
    /\ fs' = [fs EXCEPT ![NextDir(w)] = Dir]
    /\ job' = [job EXCEPT ![w].depth = @ + 1]
    /\ UNCHANGED <<fallback, lost>>

\* The temporary file is created and filled.
Fill(w) ==
    /\ job[w].stage = "walk" /\ ~Walking(w)
    /\ job' = [job EXCEPT ![w].stage = "rename"]
    /\ UNCHANGED <<fs, fallback, lost>>

\* Mutant: links are written as seen from the entry's own path.
UpsOfEntry(w) == Len(Rel(Current(w))) - 1

\* relative_target
Ups(w) == Len(job[w].dest) - 1

\* Mutant: the fallback is not recorded.
PublishQuietly(w) ==
    /\ job[w].stage = "rename"
    /\ fs[job[w].dest].is # "dir"
    /\ fs' = [fs EXCEPT ![job[w].dest] = File(Current(w), Ups(w), job[w].to)]
    /\ Proceed(w)
    /\ UNCHANGED <<fallback, lost>>

\* record_fallback
Recorded(rel, dest) ==
    [r \in DOMAIN fallback \cup {rel} |-> IF r = rel THEN dest ELSE fallback[r]]

Publish(w) ==
    /\ job[w].stage = "rename"
    /\ fs[job[w].dest].is # "dir"
    /\ fs' = [fs EXCEPT ![job[w].dest] = File(Current(w), Ups(w), job[w].to)]
    /\ fallback' = IF job[w].fell THEN Recorded(Rel(Current(w)), job[w].dest) ELSE fallback
    /\ Proceed(w)
    /\ UNCHANGED lost

\* is_collision: a parent is a file, or the destination is a directory.
Collides(w) ==
    \/ Walking(w) /\ fs[NextDir(w)].is = "file"
    \/ job[w].stage = "rename" /\ fs[job[w].dest].is = "dir"

FallBack(w) ==
    /\ Collides(w) /\ ~job[w].fell
    /\ job' = [job EXCEPT ![w].stage = "walk", ![w].depth = 0, ![w].fell = TRUE,
                          ![w].dest = ExceptionDest(Current(w))]
    /\ UNCHANGED <<fs, fallback, lost>>

GiveUp(w) == Collides(w) /\ job[w].fell /\ LogFailure(w)

\* Any other error of mkdirat, openat, write_all or renameat.
IoFails(w) == job[w].stage \in {"walk", "rename"} /\ LogFailure(w)

Attempt(w) ==
    /\ phase \in {"articles", "redirects"}
    /\ Begin(w) \/ Descend(w) \/ Fill(w) \/ Publish(w) \/ FallBack(w) \/ GiveUp(w) \/ IoFails(w)
    /\ UNCHANGED <<entry, old, phase, exiled, todo, aborted>>

----------------------------------------------------------------------------
(* Pass 2 *)

\* The articles of a cluster in blob order.
Group(c) == Ascending({i \in Index : entry[i].cluster = c})

Take(w, c) ==
    /\ phase = "articles"
    /\ job[w].stage = "idle" /\ c \in todo
    /\ todo' = todo \ {c}
    /\ job' = [job EXCEPT ![w] = [Idle EXCEPT !.queue = Group(c), !.stage = "next"]]
    /\ UNCHANGED <<entry, old, phase, exiled, aborted, fs, fallback, lost>>

\* cluster_uncached fails; after it no further group need be started.
ClusterFails(w, c) ==
    /\ phase = "articles"
    /\ job[w].stage = "idle" /\ c \in todo
    /\ todo' = todo \ {c}
    /\ aborted' = TRUE
    /\ UNCHANGED <<entry, old, phase, exiled, job, fs, fallback, lost>>

BlobFails(w) ==
    /\ phase = "articles"
    /\ job[w].stage = "next"
    /\ job' = [job EXCEPT ![w] = Idle]
    /\ aborted' = TRUE
    /\ UNCHANGED <<entry, old, phase, exiled, todo, fs, fallback, lost>>

AllIdle == \A w \in Procs : job[w].stage = "idle"

\* try_for_each returns when every running group has ended.
Abort ==
    /\ phase = "articles" /\ aborted /\ AllIdle
    /\ phase' = "failed"
    /\ UNCHANGED <<entry, old, exiled, todo, aborted, job, fs, fallback, lost>>

----------------------------------------------------------------------------
(* Pass 3 *)

StartRedirects ==
    /\ phase = "articles" /\ ~aborted /\ todo = {} /\ AllIdle
    /\ phase' = "redirects"
    /\ job' = IF Group(0) = << >> THEN job
              ELSE [job EXCEPT ![Main] = [Idle EXCEPT !.queue = Group(0), !.stage = "next"]]
    /\ UNCHANGED <<entry, old, exiled, todo, aborted, fs, fallback, lost>>

\* The log is written if there is something to say, and the exit code says so.
Finish ==
    /\ phase = "redirects" /\ AllIdle
    /\ phase' = "done"
    /\ UNCHANGED <<entry, old, exiled, todo, aborted, job, fs, fallback, lost>>

LogFails ==
    /\ phase = "redirects" /\ AllIdle /\ lost # {}
    /\ phase' = "failed"
    /\ UNCHANGED <<entry, old, exiled, todo, aborted, job, fs, fallback, lost>>

Next ==
    \/ Plan \/ PlanFails
    \/ \E w \in Workers, c \in Clusters : Take(w, c) \/ ClusterFails(w, c)
    \/ \E w \in Workers : BlobFails(w)
    \/ \E w \in Procs : Attempt(w)
    \/ Abort \/ StartRedirects \/ Finish \/ LogFails

Spec == Init /\ [][Next]_vars

----------------------------------------------------------------------------
(* Properties *)

\* Every entry has places of its own: no two have one path once sanitized, and
\* none has the path under _exceptions/ that another would get.
Distinct ==
    \A i, j \in Index : i # j => Rel(i) # Rel(j) /\ Rel(i) # ExceptionDest(j)

\* No entry of the archive takes the name of the directory for exceptions.
Reserved == \A i \in Index : Rel(i)[1] # <<Exceptions>>

Where(i) == Found(Rel(i))

\* An entry that was not reported as failed is in the dump, where the fallback
\* table says, whatever the threads did to each other's directories, even in a
\* directory that held another dump.
AllDumped ==
    phase = "done" /\ Distinct =>
      \A i \in Index \ lost : fs[Where(i)].is = "file" /\ fs[Where(i)].of = i

\* "Collision policy, decided up front so it's deterministic and independent
\* of the parallel write order below ... the SHALLOW entry keeps its natural
\* path and the nested entries are exiled" (src/bin/zimdump.rs:582).
ShallowStays ==
    phase = "done" /\ Distinct /\ Reserved /\ old = {} =>
      \A i \in Index \ lost :
        Where(i) = IF \E j \in Index : Rel(j) \in DirsAbove(Rel(i))
                   THEN ExceptionDest(i) ELSE Rel(i)

\* A link leads to where its target was written, from where it was written
\* itself: both may have been moved.  (Only in a directory that held another
\* dump, or with an entry named _exceptions, can a redirect be moved after links
\* to it were written.)
LinksLead ==
    phase = "done" /\ Distinct =>
      \A i \in Index \ lost :
        LET node == fs[Where(i)]
            end == entry[i].target
        IN IsRedirect(i) /\ end \notin lost /\ ((old = {} /\ Reserved) \/ ~IsRedirect(end)) =>
             SubSeq(Where(i), 1, Len(Where(i)) - 1 - node.ups) \o node.to = Where(end)
                /\ node.ups <= Len(Where(i)) - 1
=============================================================================
