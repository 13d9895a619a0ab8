----------------------------- MODULE ClusterLog -----------------------------
(***************************************************************************)
(* What the cluster encode pipeline promises to the streaming writer: an   *)
(* append-only log.  Clusters are accepted one at a time, become durable   *)
(* one at a time and in the order in which they were accepted, and the log *)
(* may be sealed (the output file handed back) only when everything that   *)
(* was accepted is durable.  A failure is permanent: a failed log accepts  *)
(* a few more clusters, loses them, and is never sealed.                   *)
(*                                                                         *)
(* EncodePipeline implements this specification (Log!Spec there).          *)
(***************************************************************************)
EXTENDS Naturals, Sequences

CONSTANT Cluster   \* the cluster indices

VARIABLES accepted,   \* clusters accepted, in submission order
          durable,    \* clusters in the output file, in file order
          phase       \* "sealed" | "open" | "failed"

logVars == <<accepted, durable, phase>>

Init ==
    /\ accepted = << >>
    /\ durable = << >>
    /\ phase = "sealed"

\* A sealed log, the empty one included, may be opened.
Reopen ==
    /\ phase = "sealed"
    /\ phase' = "open"
    /\ UNCHANGED <<accepted, durable>>

Accept ==
    /\ phase \in {"open", "failed"}
    /\ \E c \in Cluster : accepted' = Append(accepted, c)
    /\ UNCHANGED <<durable, phase>>

Persist ==
    /\ phase = "open"
    /\ Len(durable) < Len(accepted)
    /\ durable' = Append(durable, accepted[Len(durable) + 1])
    /\ UNCHANGED <<accepted, phase>>

Fail ==
    /\ phase = "open"
    /\ phase' = "failed"
    /\ UNCHANGED <<accepted, durable>>

Seal ==
    /\ phase = "open"
    /\ durable = accepted
    /\ phase' = "sealed"
    /\ UNCHANGED <<accepted, durable>>

Next == Reopen \/ Accept \/ Persist \/ Fail \/ Seal

\* The log without its promise of progress.
SafeSpec == Init /\ [][Next]_logVars

\* An accepted cluster does not wait for ever in a log that has not failed.
Spec == SafeSpec /\ WF_logVars(Persist)
=============================================================================
