------------------------------ MODULE ZimSplit ------------------------------
(***************************************************************************)
(* src/bin/zimsplit.rs: an archive is cut at cluster starts into parts       *)
(* <prefix>aa, <prefix>ab, ...  part_ends plans all parts first, run looks   *)
(* at every destination, then creates and fills one part after the other,   *)
(* and OutputCleanup removes what this invocation made if it fails.          *)
(*                                                                         *)
(* Several invocations with one prefix run at once, other programs create   *)
(* files, and any file operation may fail.  Byte i of the archive is the     *)
(* number i.                                                                *)
(***************************************************************************)
EXTENDS Integers, Sequences, FiniteSets, SequencesExt

CONSTANTS Splitters,   \* invocations of zimsplit
          Foreign,     \* any other program
          Total,       \* length of the archive
          MimePos,     \* the header's mime_list_pos, which follows the header
          Top,         \* u64::MAX
          Buf,         \* READ_BUF
          MaxParts,    \* MAX_PARTS, 26 * 26
          Sizes        \* values of --size

ASSUME LengthAssumption ==
    /\ Total \in Nat \ {0} /\ Buf \in Nat \ {0} /\ MaxParts \in Nat
    /\ MimePos \in Nat \ {0}
    /\ Top \in Nat /\ Total <= Top
ASSUME SizesAssumption == Sizes \subseteq 1 .. Top
ASSUME OwnersAssumption ==
    /\ Foreign \notin Splitters /\ Foreign # "none"
    /\ "none" \notin Splitters

NoFile == [owner |-> "none", bytes |-> <<>>]
Part(o, s) == [owner |-> o, bytes |-> s]
Paths == 1 .. MaxParts

VARIABLES
  offsets,  \* the cluster offsets
  size,     \* --size of each invocation
  force,    \* --force
  pc,       \* "open" | "plan" | "look" | "create" | "copy" | "cleanup" |
            \*   "done" | "failed" | "killed"
  ends,     \* part_ends: where each part ends
  looked,   \* how many destinations were looked at
  made,     \* OutputCleanup.paths
  cursor,   \* plan: start of the next part; then: position in the input
  files,    \* path -> the file there
  why,      \* history: the reason of a failure
  stuck     \* history: paths whose removal failed

vars == <<offsets, size, force, pc, ends, looked, made, cursor, files, why, stuck>>

Init ==
    /\ offsets \in SUBSET (0 .. Total)
    /\ size \in [Splitters -> Sizes]
    /\ force \in [Splitters -> BOOLEAN]
    /\ pc = [p \in Splitters |-> "open"]
    /\ ends = [p \in Splitters |-> <<>>]
    /\ looked = [p \in Splitters |-> 0]
    /\ made = [p \in Splitters |-> <<>>]
    /\ cursor = [p \in Splitters |-> 0]
    /\ files = [f \in Paths |-> NoFile]
    /\ why = [p \in Splitters |-> "none"]
    /\ stuck = {}

Boundaries == offsets \cup {Total}

\* Boundaries after the start of the part being planned.
Ahead(p) == {b \in Boundaries : b > cursor[p]}

\* u64::saturating_add
Limit(p) == IF size[p] > Top - cursor[p] THEN Top ELSE cursor[p] + size[p]

\* Mutant: the limit itself is a byte of the part.
FittingOneMore(p) == {b \in Ahead(p) : b <= Limit(p) + 1}

Fitting(p) == {b \in Ahead(p) : b <= Limit(p)}

\* The file the invocation is at.
Current(p) == Len(made[p])
Following(p) == Len(made[p]) + 1

----------------------------------------------------------------------------
Refuse(p, reason) ==
    /\ pc' = [pc EXCEPT ![p] = "failed"]
    /\ why' = [why EXCEPT ![p] = reason]
    /\ UNCHANGED <<offsets, size, force, ends, looked, made, cursor, files, stuck>>

(* part_ends *)

OffsetsInFile == \A o \in offsets : MimePos <= o /\ o < Total

Open(p) ==
    /\ pc[p] = "open" /\ OffsetsInFile
    /\ pc' = [pc EXCEPT ![p] = "plan"]
    /\ UNCHANGED <<offsets, size, force, ends, looked, made, cursor, files, why, stuck>>

OpenRefuses(p) == pc[p] = "open" /\ ~OffsetsInFile /\ Refuse(p, "offset")

\* The last boundary within the limit.
EndIsLast(p, end) == end \in Fitting(p) /\ \A b \in Fitting(p) : b <= end

\* --force: the next boundary, beyond the limit.
EndIsForced(p, end) ==
    /\ Fitting(p) = {} /\ force[p]
    /\ end \in Ahead(p) /\ \A b \in Ahead(p) : end <= b

Cut(p) ==
    /\ pc[p] = "plan" /\ cursor[p] < Total
    /\ Len(ends[p]) < MaxParts
    /\ \E end \in Ahead(p) :
         /\ EndIsLast(p, end) \/ EndIsForced(p, end)
         /\ ends' = [ends EXCEPT ![p] = Append(@, end)]
         /\ cursor' = [cursor EXCEPT ![p] = end]
    /\ UNCHANGED <<offsets, size, force, pc, looked, made, files, why, stuck>>

TooMany(p) ==
    /\ pc[p] = "plan" /\ cursor[p] < Total
    /\ Len(ends[p]) = MaxParts
    /\ Fitting(p) # {} \/ force[p]
    /\ Refuse(p, "parts")

Indivisible(p) ==
    /\ pc[p] = "plan" /\ cursor[p] < Total
    /\ Fitting(p) = {} /\ ~force[p]
    /\ Refuse(p, "region")

Planned(p) ==
    /\ pc[p] = "plan" /\ cursor[p] >= Total
    /\ pc' = [pc EXCEPT ![p] = "look"]
    /\ UNCHANGED <<offsets, size, force, ends, looked, made, cursor, files, why, stuck>>

----------------------------------------------------------------------------
(* run: look at all destinations *)

Look(p) ==
    /\ pc[p] = "look" /\ looked[p] < Len(ends[p])
    /\ files[looked[p] + 1] = NoFile
    /\ looked' = [looked EXCEPT ![p] = @ + 1]
    /\ UNCHANGED <<offsets, size, force, pc, ends, made, cursor, files, why, stuck>>

LookRefuses(p) ==
    /\ pc[p] = "look" /\ looked[p] < Len(ends[p])
    /\ files[looked[p] + 1] # NoFile
    /\ Refuse(p, "exists")

Looked(p) ==
    /\ pc[p] = "look" /\ looked[p] = Len(ends[p])
    /\ pc' = [pc EXCEPT ![p] = "create"]
    /\ cursor' = [cursor EXCEPT ![p] = 0]
    /\ UNCHANGED <<offsets, size, force, ends, looked, made, files, why, stuck>>

(* run: create and copy *)

CreateWith(p, f) ==
    /\ files' = [files EXCEPT ![f] = Part(p, <<>>)]
    /\ made' = [made EXCEPT ![p] = Append(@, f)]
    /\ pc' = [pc EXCEPT ![p] = "copy"]
    /\ UNCHANGED <<offsets, size, force, ends, looked, cursor, why, stuck>>

Create(p) ==
    /\ pc[p] = "create" /\ Current(p) < Len(ends[p])
    /\ files[Following(p)] = NoFile
    /\ CreateWith(p, Following(p))

\* Mutant: the path is noted for the cleanup before it is created.
CreateNotedFirst(p) ==
    /\ pc[p] = "create" /\ Current(p) < Len(ends[p])
    /\ files[Following(p)] # NoFile
    /\ made' = [made EXCEPT ![p] = Append(@, Following(p))]
    /\ pc' = [pc EXCEPT ![p] = "cleanup"]
    /\ why' = [why EXCEPT ![p] = "exists"]
    /\ UNCHANGED <<offsets, size, force, ends, looked, cursor, files, stuck>>

\* create_new never takes a file that came since the look.
CreateRefused(p) ==
    /\ pc[p] = "create" /\ Current(p) < Len(ends[p])
    /\ files[Following(p)] # NoFile
    /\ pc' = [pc EXCEPT ![p] = "cleanup"]
    /\ why' = [why EXCEPT ![p] = "exists"]
    /\ UNCHANGED <<offsets, size, force, ends, looked, made, cursor, files, stuck>>

\* Bytes of the current part that are still to be copied.
Remaining(p) == ends[p][Current(p)] - cursor[p]

Want(p) == IF Remaining(p) < Buf THEN Remaining(p) ELSE Buf

Copy(p) ==
    /\ pc[p] = "copy" /\ Remaining(p) > 0
    /\ files' = [files EXCEPT ![Current(p)].bytes =
                   @ \o [i \in 1 .. Want(p) |-> cursor[p] + i - 1]]
    /\ cursor' = [cursor EXCEPT ![p] = @ + Want(p)]
    /\ UNCHANGED <<offsets, size, force, pc, ends, looked, made, why, stuck>>

\* Mutant: a last short read is taken for the end.
PartDoneShort(p) ==
    /\ pc[p] = "copy" /\ Remaining(p) < Buf
    /\ pc' = [pc EXCEPT ![p] = "create"]
    /\ UNCHANGED <<offsets, size, force, ends, looked, made, cursor, files, why, stuck>>

PartDone(p) ==
    /\ pc[p] = "copy" /\ Remaining(p) = 0
    /\ pc' = [pc EXCEPT ![p] = "create"]
    /\ UNCHANGED <<offsets, size, force, ends, looked, made, cursor, files, why, stuck>>

Complete(p) ==
    /\ pc[p] = "create" /\ Current(p) = Len(ends[p])
    /\ pc' = [pc EXCEPT ![p] = "done"]
    /\ UNCHANGED <<offsets, size, force, ends, looked, made, cursor, files, why, stuck>>

\* Mutant: complete is set before the last part is copied.
IoFailsLate(p) ==
    /\ pc[p] \in {"look", "create", "copy"}
    /\ pc' = [pc EXCEPT ![p] = IF pc[p] = "look" \/ Current(p) = Len(ends[p])
                               THEN "failed" ELSE "cleanup"]
    /\ why' = [why EXCEPT ![p] = "io"]
    /\ UNCHANGED <<offsets, size, force, ends, looked, made, cursor, files, stuck>>

\* Any file operation of run may fail.
IoFails(p) ==
    /\ pc[p] \in {"look", "create", "copy"}
    /\ pc' = [pc EXCEPT ![p] = IF pc[p] = "look" THEN "failed" ELSE "cleanup"]
    /\ why' = [why EXCEPT ![p] = "io"]
    /\ UNCHANGED <<offsets, size, force, ends, looked, made, cursor, files, stuck>>

----------------------------------------------------------------------------
(* OutputCleanup::drop *)

\* remove_file takes a path: it removes whatever is there.
RemovePart(p) ==
    /\ pc[p] = "cleanup" /\ made[p] # <<>>
    /\ files' = [files EXCEPT ![Head(made[p])] = NoFile]
    /\ made' = [made EXCEPT ![p] = Tail(@)]
    /\ UNCHANGED <<offsets, size, force, pc, ends, looked, cursor, why, stuck>>

\* A removal that fails is passed over.
RemoveFails(p) ==
    /\ pc[p] = "cleanup" /\ made[p] # <<>>
    /\ stuck' = stuck \cup {Head(made[p])}
    /\ made' = [made EXCEPT ![p] = Tail(@)]
    /\ UNCHANGED <<offsets, size, force, pc, ends, looked, cursor, files, why>>

CleanedUp(p) ==
    /\ pc[p] = "cleanup" /\ made[p] = <<>>
    /\ pc' = [pc EXCEPT ![p] = "failed"]
    /\ UNCHANGED <<offsets, size, force, ends, looked, made, cursor, files, why, stuck>>

----------------------------------------------------------------------------
Running(p) == pc[p] \notin {"done", "failed", "killed"}

\* No destructor runs.
Killed(p) ==
    /\ Running(p)
    /\ pc' = [pc EXCEPT ![p] = "killed"]
    /\ UNCHANGED <<offsets, size, force, ends, looked, made, cursor, files, why, stuck>>

\* Another program creates a file.
Intrude(f) ==
    /\ files[f] = NoFile
    /\ files' = [files EXCEPT ![f] = Part(Foreign, <<>>)]
    /\ UNCHANGED <<offsets, size, force, pc, ends, looked, made, cursor, why, stuck>>

Plan(p) == Open(p) \/ OpenRefuses(p) \/ Cut(p) \/ TooMany(p) \/ Indivisible(p) \/ Planned(p)
Survey(p) == Look(p) \/ LookRefuses(p) \/ Looked(p)
Write(p) == Create(p) \/ CreateRefused(p) \/ Copy(p) \/ PartDone(p) \/ Complete(p)
CleanUp(p) == RemovePart(p) \/ RemoveFails(p) \/ CleanedUp(p)

Work(p) == Plan(p) \/ Survey(p) \/ Write(p) \/ CleanUp(p)

Next ==
    \/ \E p \in Splitters : Work(p) \/ IoFails(p) \/ Killed(p)
    \/ \E f \in Paths : Intrude(f)

Spec == Init /\ [][Next]_vars

----------------------------------------------------------------------------
(* Properties *)

StartOf(p, i) == IF i = 1 THEN 0 ELSE ends[p][i - 1]

\* "it never cuts a cluster", and --size is "a maximum part size": every cut
\* is at the start of a cluster, and only --force makes a part larger, one
\* that holds a single region.
PlanSound ==
    \A p \in Splitters : \A i \in 1 .. Len(ends[p]) :
      LET from == StartOf(p, i)  to == ends[p][i]
      IN /\ to \in Boundaries
         /\ from < to
         /\ to - from > size[p] =>
              force[p] /\ \A b \in Boundaries : ~(from < b /\ b < to)

\* What a plan of p may be: cuts that end with the file.
Allowed(p, cuts) ==
    /\ Total \in cuts
    /\ \A b \in cuts :
         LET earlier == {0} \cup {c \in cuts : c < b}
             from == CHOOSE a \in earlier : \A c \in earlier : c <= a
         IN \/ b - from <= size[p]
            \/ force[p] /\ \A c \in Boundaries : ~(from < c /\ c < b)

\* The cuts are as few as can be, and an archive is refused for its regions
\* or for the number of its parts only if there is no way to cut it.
PlanFewest ==
    \A p \in Splitters : pc[p] \notin {"open", "plan"} =>
      \A cuts \in SUBSET Boundaries : Allowed(p, cuts) =>
        /\ why[p] # "region"
        /\ why[p] = "parts" => Cardinality(cuts) > MaxParts
        /\ Len(ends[p]) <= Cardinality(cuts)

\* The plan is one that is allowed, and no plan is better.
PlanExact == PlanSound /\ PlanFewest

\* "Concatenating the parts reconstructs the original file": all of them are
\* there, whole and in order, once an invocation has succeeded, and stay,
\* whatever failed, was killed or competed with it.
DoneReassembles ==
    \A p \in Splitters : pc[p] = "done" =>
      FlattenSeq([i \in 1 .. Len(ends[p]) |-> files[i].bytes])
        = [i \in 1 .. Total |-> i - 1]

\* "Remove only files created by this invocation": a file changes in the steps
\* of its owner alone.
OthersKept ==
    [][\A f \in Paths :
         /\ files[f].owner = Foreign => files'[f] = files[f]
         /\ \A p \in Splitters :
              files[f].owner = p /\ UNCHANGED <<pc[p], made[p], cursor[p]>>
                => files'[f] = files[f]]_vars

\* An invocation that failed leaves no part behind but those whose removal
\* failed.
NoLeftovers ==
    \A p \in Splitters : pc[p] = "failed" =>
      \A f \in Paths : files[f].owner = p => f \in stuck
=============================================================================
