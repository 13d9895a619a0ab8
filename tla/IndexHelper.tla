---------------------------- MODULE IndexHelper ----------------------------
(***************************************************************************)
(* src/bin/_index_helper.rs: a child process per search index, fed through a *)
(* pipe while the archive is written.  The two ends of each pipe, the thread *)
(* that drains the child's stderr and the grandchild that may inherit both   *)
(* pipes are here; what the parent does with them, and when, is in Packer.   *)
(*                                                                         *)
(* Abstractions.  A document takes one place in the pipe, a burst of stderr  *)
(* output one place in the other.  The child (xapianbuilder, external) exits *)
(* with success only after it has read everything up to the end of its       *)
(* input; it may fail at any time.                                           *)
(***************************************************************************)
EXTENDS Naturals, Sequences

CONSTANTS PipeCap,     \* documents the stdin pipe holds
          ErrCap,      \* bursts the stderr pipe holds
          ProbeEvery   \* writes between two try_wait, 256 in the code

ASSUME CapAssumption == {PipeCap, ErrCap, ProbeEvery} \subseteq Nat \ {0}

VARIABLE job   \* the children and the parent's handles on them

Kinds == {"fulltext", "title"}

NoJob == [child |-> "none",    \* "reading" | "talking" | "ok" | "bad"
          reaped |-> FALSE,    \* its status has been collected
          heir |-> FALSE,      \* a grandchild has its pipes
          stdin |-> FALSE,     \* Job.stdin is Some
          probed |-> FALSE,    \* write_raw is past its probe
          writes |-> 0,        \* writes_since_liveness_check
          pipe |-> << >>,      \* written, not read
          got |-> << >>,       \* read by the child
          err |-> 0,           \* stderr not drained
          drain |-> "none",    \* stderr_thread: "on" | "done" | "joined"
          out |-> "none"]      \* "partial" | "empty" | "full"

NoJobs == [k \in Kinds |-> NoJob]

Alive(k) == job[k].child \in {"reading", "talking"}
Exited(k) == job[k].child \in {"ok", "bad"}
Readable(k) == Alive(k) \/ job[k].heir

----------------------------------------------------------------------------
(* The child, the grandchild and the drain thread *)

Read(k) ==
    /\ job[k].child = "reading" /\ job[k].pipe # << >>
    /\ \E next \in {"reading", "talking"} :
         job' = [job EXCEPT ![k].pipe = Tail(@),
                            ![k].got = Append(@, Head(job[k].pipe)),
                            ![k].child = next]

Talk(k) ==
    /\ job[k].child = "talking" /\ job[k].err < ErrCap
    /\ job' = [job EXCEPT ![k].err = @ + 1, ![k].child = "reading"]

\* The end of its input: every write end is closed and the pipe is empty.
Succeed(k) ==
    /\ job[k].child = "reading" /\ job[k].pipe = << >> /\ ~job[k].stdin
    /\ \E size \in {"empty", "full"}, h \in BOOLEAN :
         job' = [job EXCEPT ![k].child = "ok", ![k].out = size, ![k].heir = h]

FailChild(k) ==
    /\ Alive(k)
    /\ \E size \in {"none", "partial"}, h \in BOOLEAN :
         job' = [job EXCEPT ![k].child = "bad", ![k].out = size, ![k].heir = h]

HeirExits(k) ==
    /\ job[k].heir
    /\ job' = [job EXCEPT ![k].heir = FALSE]

\* Mutant: stderr is read when the child has been waited for.
DrainLate(k) ==
    /\ job[k].drain = "on" /\ job[k].reaped
    /\ \/ job[k].err > 0 /\ job' = [job EXCEPT ![k].err = @ - 1]
       \/ /\ job[k].err = 0 /\ ~Readable(k)
          /\ job' = [job EXCEPT ![k].drain = "done"]

\* read_to_end on the stderr pipe, while the child runs.
Drain(k) ==
    /\ job[k].drain = "on"
    /\ \/ job[k].err > 0 /\ job' = [job EXCEPT ![k].err = @ - 1]
       \/ /\ job[k].err = 0 /\ ~Readable(k)
          /\ job' = [job EXCEPT ![k].drain = "done"]

ChildStep(k) == Read(k) \/ Talk(k) \/ Succeed(k)

Environment(k) == ChildStep(k) \/ FailChild(k) \/ HeirExits(k) \/ Drain(k)

----------------------------------------------------------------------------
(* What the parent does *)

\* spawn_one
Spawned == [NoJob EXCEPT !.child = "reading", !.stdin = TRUE, !.drain = "on"]

\* write_raw up to the write: nothing more is written to a child that is gone.
Probe(k) ==
    /\ job[k].stdin /\ ~job[k].probed
    /\ LET due == job[k].writes + 1 >= ProbeEvery
           gone == due /\ Exited(k)
       IN job' = [job EXCEPT ![k].writes = IF due THEN 0 ELSE @ + 1,
                             ![k].probed = ~gone,
                             ![k].stdin = ~gone,
                             ![k].reaped = @ \/ gone]

\* The write itself waits for room as long as somebody might read.
Put(k, doc) ==
    /\ job[k].stdin /\ job[k].probed /\ Readable(k) /\ Len(job[k].pipe) < PipeCap
    /\ job' = [job EXCEPT ![k].pipe = Append(@, doc), ![k].probed = FALSE]

\* EPIPE
PutFails(k) ==
    /\ job[k].stdin /\ job[k].probed /\ ~Readable(k)
    /\ job' = [job EXCEPT ![k].stdin = FALSE, ![k].probed = FALSE]

\* Mutant: the exit status is not looked at.
AnyOutput(k) == job[k].out \in {"partial", "full"}

\* The output counts if the child succeeded and it is not empty.
HasBlob(k) == job[k].child = "ok" /\ job[k].out = "full"

\* stdin.take() for every child.
CloseAll == job' = [k \in Kinds |-> [job[k] EXCEPT !.stdin = FALSE, !.probed = FALSE]]

\* stdin.take() and kill() for one.
Kill(k) ==
    \E h \in BOOLEAN :
      job' = [job EXCEPT ![k].stdin = FALSE,
                         ![k].probed = FALSE,
                         ![k].child = IF Alive(k) THEN "bad" ELSE @,
                         ![k].heir = @ \/ (Alive(k) /\ h)]

\* child.wait()
Wait(k) ==
    /\ Exited(k) /\ ~job[k].reaped
    /\ job' = [job EXCEPT ![k].reaped = TRUE]

\* take_stderr
Join(k) ==
    /\ job[k].reaped /\ job[k].drain = "done"
    /\ job' = [job EXCEPT ![k].drain = "joined"]
=============================================================================
