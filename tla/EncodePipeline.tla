--------------------------- MODULE EncodePipeline ---------------------------
(***************************************************************************)
(* The continuous encode pipeline of src/writer.rs: the producer thread    *)
(* (the one that owns the Streamer) submits clusters, a pool of workers    *)
(* encodes them, one writer thread appends the encoded clusters to the     *)
(* output file in submission order, and ByteBudget bounds the raw bytes    *)
(* that are queued or in flight.                                           *)
(*                                                                         *)
(* Abstractions.  A cluster is its index (1-based here, 0-based in the     *)
(* code) and the allocated size of its blobs; an encoded cluster is one    *)
(* unit long, so that an offset in the cluster area of the file is a       *)
(* position in the sequence file and 0 is the placeholder of a slot whose  *)
(* offset is not known yet.  Sequence numbers are 1-based.  The channels   *)
(* are std::sync::mpsc::sync_channel: bounded FIFOs whose receiver, when   *)
(* dropped, makes every send fail and then drops what is queued.           *)
(***************************************************************************)
EXTENDS Naturals, Sequences, FiniteSets, Functions

CONSTANTS Workers,      \* encode threads: rayon::current_num_threads()
          Limit,        \* ByteBudget.limit
          Sizes,        \* allocated sizes a cluster may have
          MaxClusters,  \* bound: cluster slots allocated in one build
          MaxStreamed   \* bound: slots that belong to streamed items

ASSUME WorkersAssumption == IsFiniteSet(Workers) /\ Workers # {}
ASSUME LimitAssumption == Limit \in Nat \ {0}
ASSUME SizesAssumption == Sizes \subseteq Nat
ASSUME BoundsAssumption == MaxClusters \in Nat /\ MaxStreamed \in Nat

ChannelCap == 2 * Cardinality(Workers)

VARIABLES
  \* the producer
  prod,             \* where the thread is
  want,             \* the cluster send_cluster is submitting
  cluster_offsets,  \* Streamer.cluster_offsets
  streamed,         \* slots reserved for streamed items
  file_pos,         \* Streamer.file_pos
  owner,            \* "streamer" | "pipeline" | "lost": who has the File
  jobs,             \* jobs[s]: the cluster submitted under sequence s
  jobTx,            \* is EncodePipeline.job_tx still there?
  used,             \* ByteBudgetState.used
  \* the workers
  jobQ,             \* job channel
  wpc,              \* where each worker is
  wjob,             \* the sequence each worker works on
  encErr,           \* sequences whose `encoded` is an Err
  \* the writer
  outQ,             \* channel of encoded clusters
  writer,           \* where the writer thread is
  pending,          \* out-of-order completions
  nextSeq,          \* its next_sequence
  offsets,          \* its (idx, offset) pairs
  file,             \* what it has appended to the output
  \* history
  late              \* clusters accepted after the writer was gone

prodVars   == <<prod, want, cluster_offsets, streamed, file_pos, owner>>
workerVars == <<wpc, wjob, encErr>>
writerVars == <<writer, pending, nextSeq, offsets, file>>
vars == <<prodVars, jobs, jobTx, used, jobQ, workerVars, outQ, writerVars, late>>

Job == [idx : Nat, bytes : Nat]

NoJob == [idx |-> 0, bytes |-> 0]

ProdStates == {"idle", "acquire", "wait", "send", "joinSend", "joinShutdown",
               "joinDrop", "dropped", "panicked"}

Init ==
    /\ prod = "idle"
    /\ want = NoJob
    /\ cluster_offsets = << >>
    /\ streamed = {}
    /\ file_pos = 1
    /\ owner = "streamer"
    /\ jobs = << >>
    /\ jobTx = FALSE
    /\ used = 0
    /\ jobQ = << >>
    /\ wpc = [w \in Workers |-> "exit"]
    /\ wjob = [w \in Workers |-> 0]
    /\ encErr = {}
    /\ outQ = << >>
    /\ writer = "none"
    /\ pending = {}
    /\ nextSeq = 1
    /\ offsets = << >>
    /\ file = << >>
    /\ late = 0

----------------------------------------------------------------------------
(* ByteBudget *)

Admits(b) == used = 0 \/ b <= IF used < Limit THEN Limit - used ELSE 0

\* Mutant: the permit is dropped without notify_all.
ReleaseSilently(s) ==
    /\ used' = used - jobs[s].bytes
    /\ prod' = prod

\* Dropping the BytePermit of sequence s gives its bytes back and wakes the
\* producer if it waits in acquire.
Release(s) ==
    /\ used' = used - jobs[s].bytes
    /\ prod' = IF prod = "wait" THEN "acquire" ELSE prod

JobRxGone == \A w \in Workers : wpc[w] = "exit"
OutRxGone == writer \in {"discard", "ok", "err"}

----------------------------------------------------------------------------
(* The producer: slot allocation, send_cluster, shutdown_pipeline, drop *)

\* begin_chunked_item gives a streamed item a slot of its own.
ReserveStreamed ==
    /\ prod = "idle"
    /\ Len(cluster_offsets) < MaxClusters
    /\ Cardinality(streamed) < MaxStreamed
    /\ cluster_offsets' = Append(cluster_offsets, 0)
    /\ streamed' = streamed \cup {Len(cluster_offsets) + 1}
    /\ UNCHANGED <<prod, want, file_pos, owner, jobs, jobTx, used, jobQ,
                   workerVars, outQ, writerVars, late>>

\* flush_bucket reserves the slot, send_cluster starts to submit it.
AllocateSlot(b) ==
    /\ prod = "idle"
    /\ Len(cluster_offsets) < MaxClusters
    /\ cluster_offsets' = Append(cluster_offsets, 0)
    /\ want' = [idx |-> Len(cluster_offsets) + 1, bytes |-> b]

SendCluster(b) ==
    /\ owner = "pipeline"
    /\ AllocateSlot(b)
    /\ prod' = "acquire"
    /\ UNCHANGED <<streamed, file_pos, owner, jobs, jobTx, used, jobQ,
                   workerVars, outQ, writerVars, late>>

\* The first cluster starts the pipeline, which takes the File.
StartPipeline(b) ==
    /\ owner = "streamer"
    /\ AllocateSlot(b)
    /\ prod' = "acquire"
    /\ owner' = "pipeline"
    /\ jobTx' = TRUE
    /\ used' = 0
    /\ wpc' = [w \in Workers |-> "recv"]
    /\ writer' = "recv"
    /\ UNCHANGED <<streamed, file_pos, jobs, jobQ, wjob, encErr, outQ, pending,
                   nextSeq, offsets, file, late>>

\* The File went down with an earlier pipeline: `expect` panics.
StartPipelinePanics(b) ==
    /\ owner = "lost"
    /\ AllocateSlot(b)
    /\ prod' = "panicked"
    /\ UNCHANGED <<streamed, file_pos, owner, jobs, jobTx, used, jobQ,
                   workerVars, outQ, writerVars, late>>

AcquireWait ==
    /\ prod = "acquire"
    /\ ~Admits(want.bytes)
    /\ prod' = "wait"
    /\ UNCHANGED <<want, cluster_offsets, streamed, file_pos, owner, jobs,
                   jobTx, used, jobQ, workerVars, outQ, writerVars, late>>

\* acquire succeeds and the cluster gets the next sequence number.
Acquire ==
    /\ prod = "acquire"
    /\ Admits(want.bytes)
    /\ used' = used + want.bytes
    /\ jobs' = Append(jobs, want)
    /\ want' = NoJob
    /\ prod' = "send"
    /\ UNCHANGED <<cluster_offsets, streamed, file_pos, owner, jobTx,
                   jobQ, workerVars, outQ, writerVars, late>>

SendOk ==
    /\ prod = "send"
    /\ ~JobRxGone
    /\ Len(jobQ) < ChannelCap
    /\ jobQ' = Append(jobQ, Len(jobs))
    /\ prod' = "idle"
    /\ late' = late + IF OutRxGone THEN 1 ELSE 0
    /\ UNCHANGED <<want, cluster_offsets, streamed, file_pos, owner, jobs,
                   jobTx, used, workerVars, outQ, writerVars>>

\* Every worker is gone: the job and its permit come back in the SendError,
\* and send_cluster shuts the pipeline down to find out why.
SendFails ==
    /\ prod = "send"
    /\ JobRxGone
    /\ used' = used - jobs[Len(jobs)].bytes
    /\ jobTx' = FALSE
    /\ prod' = "joinSend"
    /\ UNCHANGED <<want, cluster_offsets, streamed, file_pos, owner, jobs,
                   jobQ, workerVars, outQ, writerVars, late>>

\* shutdown_pipeline closes the job channel ...  drain_streaming_tasks calls it
\* for finalize, which consumes the Streamer, and Streamer::drop does: the
\* producer makes no call after either.
CloseJobs(next) ==
    /\ prod = "idle"
    /\ owner = "pipeline"
    /\ jobTx' = FALSE
    /\ prod' = next
    /\ UNCHANGED <<want, cluster_offsets, streamed, file_pos, owner, jobs,
                   used, jobQ, workerVars, outQ, writerVars, late>>

Shutdown == CloseJobs("joinShutdown")
DropStreamer == CloseJobs("joinDrop")

AllJoined == JobRxGone /\ jobQ = << >> /\ writer \in {"ok", "err"}

\* send_cluster has only its error to return; else the Streamer is gone.
AfterJoin == IF prod = "joinSend" THEN "idle" ELSE "dropped"

\* The writer handed the File back: its offsets go into their slots.
JoinOk ==
    /\ prod \in {"joinSend", "joinShutdown", "joinDrop"}
    /\ AllJoined
    /\ writer = "ok"
    /\ owner' = "streamer"
    /\ file_pos' = file_pos + Len(offsets)
    /\ cluster_offsets' =
         [i \in DOMAIN cluster_offsets |->
            IF \E k \in DOMAIN offsets : offsets[k].idx = i
            THEN (CHOOSE o \in Range(offsets) : o.idx = i).pos
            ELSE cluster_offsets[i]]
    /\ prod' = AfterJoin
    /\ jobs' = << >>
    /\ encErr' = {}
    /\ writer' = "none"
    /\ nextSeq' = 1
    /\ offsets' = << >>
    /\ UNCHANGED <<want, streamed, jobTx, used, jobQ, wpc, wjob, outQ, pending,
                   file, late>>

\* The writer failed and dropped the File: the caller gets the error.
JoinErr ==
    /\ prod \in {"joinSend", "joinShutdown", "joinDrop"}
    /\ AllJoined
    /\ writer = "err"
    /\ owner' = "lost"
    /\ prod' = AfterJoin
    /\ UNCHANGED <<want, cluster_offsets, streamed, file_pos, jobs, jobTx,
                   used, jobQ, workerVars, outQ, writerVars, late>>

----------------------------------------------------------------------------
(* The workers *)

WorkerRecv(w) ==
    /\ wpc[w] = "recv"
    /\ jobQ # << >>
    /\ jobQ' = Tail(jobQ)
    /\ wjob' = [wjob EXCEPT ![w] = Head(jobQ)]
    /\ wpc' = [wpc EXCEPT ![w] = "encode"]
    /\ UNCHANGED <<prodVars, jobs, jobTx, used, encErr, outQ, writerVars, late>>

\* encode_cluster succeeds, or fails or panics (the panic is caught).
Encode(w) ==
    /\ wpc[w] = "encode"
    /\ wpc' = [wpc EXCEPT ![w] = "send"]
    /\ encErr' \in {encErr, encErr \cup {wjob[w]}}
    /\ UNCHANGED <<prodVars, jobs, jobTx, used, jobQ, wjob, outQ, writerVars,
                   late>>

WorkerSend(w) ==
    /\ wpc[w] = "send"
    /\ ~OutRxGone
    /\ Len(outQ) < ChannelCap
    /\ outQ' = Append(outQ, wjob[w])
    /\ wpc' = [wpc EXCEPT ![w] = "recv"]
    /\ wjob' = [wjob EXCEPT ![w] = 0]
    /\ UNCHANGED <<prodVars, jobs, jobTx, used, jobQ, encErr, writerVars, late>>

\* Mutant: the failed send keeps its permit (a leaked reservation).
WorkerSendLeaks(w) ==
    /\ wpc[w] = "send"
    /\ OutRxGone
    /\ wpc' = [wpc EXCEPT ![w] = "exit"]
    /\ wjob' = [wjob EXCEPT ![w] = 0]
    /\ UNCHANGED <<prodVars, jobs, jobTx, used, jobQ, encErr, outQ, writerVars,
                   late>>

\* Mutant: the worker ignores that the writer is gone and takes more jobs.
WorkerKeepsGoing(w) ==
    /\ wpc[w] = "send"
    /\ OutRxGone
    /\ Release(wjob[w])
    /\ wpc' = [wpc EXCEPT ![w] = "recv"]
    /\ wjob' = [wjob EXCEPT ![w] = 0]
    /\ UNCHANGED <<want, cluster_offsets, streamed, file_pos, owner, jobs,
                   jobTx, jobQ, encErr, outQ, writerVars, late>>

\* The writer is gone: the permit is dropped with the SendError.
WorkerSendFails(w) ==
    /\ wpc[w] = "send"
    /\ OutRxGone
    /\ Release(wjob[w])
    /\ wpc' = [wpc EXCEPT ![w] = "exit"]
    /\ wjob' = [wjob EXCEPT ![w] = 0]
    /\ UNCHANGED <<want, cluster_offsets, streamed, file_pos, owner, jobs,
                   jobTx, jobQ, encErr, outQ, writerVars, late>>

\* The producer closed the channel and it is drained.
WorkerExit(w) ==
    /\ wpc[w] = "recv"
    /\ jobQ = << >>
    /\ ~jobTx
    /\ wpc' = [wpc EXCEPT ![w] = "exit"]
    /\ UNCHANGED <<prodVars, jobs, jobTx, used, jobQ, wjob, encErr, outQ,
                   writerVars, late>>

\* The last worker to exit drops the receiver and with it the queued jobs.
DiscardJob ==
    /\ JobRxGone
    /\ jobQ # << >>
    /\ Release(Head(jobQ))
    /\ jobQ' = Tail(jobQ)
    /\ UNCHANGED <<want, cluster_offsets, streamed, file_pos, owner, jobs,
                   jobTx, workerVars, outQ, writerVars, late>>

----------------------------------------------------------------------------
(* The ordered writer *)

WriterRecv ==
    /\ writer = "recv"
    /\ outQ # << >>
    /\ Head(outQ) \notin encErr
    /\ outQ' = Tail(outQ)
    /\ pending' = pending \cup {Head(outQ)}
    /\ writer' = "drain"
    /\ UNCHANGED <<prodVars, jobs, jobTx, used, jobQ, workerVars, nextSeq,
                   offsets, file, late>>

\* Mutant: the failed cluster is skipped, the ones after it are written.
WriterSkipsErr ==
    /\ writer = "recv"
    /\ outQ # << >>
    /\ Head(outQ) \in encErr
    /\ Head(outQ) = nextSeq
    /\ outQ' = Tail(outQ)
    /\ nextSeq' = nextSeq + 1
    /\ Release(Head(outQ))
    /\ writer' = "drain"
    /\ UNCHANGED <<want, cluster_offsets, streamed, file_pos, owner, jobs,
                   jobTx, jobQ, workerVars, pending, offsets, file, late>>

\* `encoded?` returns the encode error.
WriterRecvErr ==
    /\ writer = "recv"
    /\ outQ # << >>
    /\ Head(outQ) \in encErr
    /\ outQ' = Tail(outQ)
    /\ Release(Head(outQ))
    /\ writer' = "unwind"
    /\ UNCHANGED <<want, cluster_offsets, streamed, file_pos, owner, jobs,
                   jobTx, jobQ, workerVars, pending, nextSeq, offsets, file,
                   late>>

Pos == file_pos + nextSeq - 1

\* Mutant: clusters are appended as they complete.
WriteAnyCluster ==
    /\ writer = "drain"
    /\ \E s \in pending :
         /\ offsets' = Append(offsets, [idx |-> jobs[s].idx, pos |-> Pos])
         /\ file' = Append(file, jobs[s].idx)
         /\ pending' = pending \ {s}
         /\ Release(s)
    /\ nextSeq' = nextSeq + 1
    /\ UNCHANGED <<want, cluster_offsets, streamed, file_pos, owner, jobs,
                   jobTx, jobQ, workerVars, outQ, writer, late>>

WriteCluster ==
    /\ writer = "drain"
    /\ nextSeq \in pending
    /\ offsets' = Append(offsets, [idx |-> jobs[nextSeq].idx, pos |-> Pos])
    /\ file' = Append(file, jobs[nextSeq].idx)
    /\ pending' = pending \ {nextSeq}
    /\ nextSeq' = nextSeq + 1
    /\ Release(nextSeq)
    /\ UNCHANGED <<want, cluster_offsets, streamed, file_pos, owner, jobs,
                   jobTx, jobQ, workerVars, outQ, writer, late>>

\* write_all fails: the thread returns the error.
WriteFails ==
    /\ writer = "drain"
    /\ nextSeq \in pending
    /\ pending' = pending \ {nextSeq}
    /\ Release(nextSeq)
    /\ writer' = "unwind"
    /\ UNCHANGED <<want, cluster_offsets, streamed, file_pos, owner, jobs,
                   jobTx, jobQ, workerVars, outQ, nextSeq, offsets, file, late>>

WriterDrained ==
    /\ writer = "drain"
    /\ nextSeq \notin pending
    /\ writer' = "recv"
    /\ UNCHANGED <<prodVars, jobs, jobTx, used, jobQ, workerVars, outQ,
                   pending, nextSeq, offsets, file, late>>

\* Every worker has dropped its out_tx and the channel is drained.
WriterClosed ==
    /\ writer = "recv"
    /\ outQ = << >>
    /\ JobRxGone
    /\ writer' = IF pending = {} THEN "ok" ELSE "unwind"
    /\ UNCHANGED <<prodVars, jobs, jobTx, used, jobQ, workerVars, outQ,
                   pending, nextSeq, offsets, file, late>>

\* The thread returns an error: its locals are dropped one by one (pending
\* first), then the captured receiver with what is still queued.
UnwindPending ==
    /\ writer = "unwind"
    /\ \E s \in pending :
         /\ \A t \in pending : s <= t
         /\ Release(s)
         /\ pending' = pending \ {s}
    /\ UNCHANGED <<want, cluster_offsets, streamed, file_pos, owner, jobs,
                   jobTx, jobQ, workerVars, outQ, writer, nextSeq, offsets,
                   file, late>>

DropOutRx ==
    /\ writer = "unwind"
    /\ pending = {}
    /\ writer' = "discard"
    /\ UNCHANGED <<prodVars, jobs, jobTx, used, jobQ, workerVars, outQ,
                   pending, nextSeq, offsets, file, late>>

DiscardOut ==
    /\ writer = "discard"
    /\ outQ # << >>
    /\ Release(Head(outQ))
    /\ outQ' = Tail(outQ)
    /\ UNCHANGED <<want, cluster_offsets, streamed, file_pos, owner, jobs,
                   jobTx, jobQ, workerVars, writer, pending, nextSeq, offsets,
                   file, late>>

WriterReturnsErr ==
    /\ writer = "discard"
    /\ outQ = << >>
    /\ writer' = "err"
    /\ UNCHANGED <<prodVars, jobs, jobTx, used, jobQ, workerVars, outQ,
                   pending, nextSeq, offsets, file, late>>

----------------------------------------------------------------------------
\* Steps of a call that is under way; the calls themselves are the client's.
ProducerStep ==
    AcquireWait \/ Acquire \/ SendOk \/ SendFails \/ JoinOk \/ JoinErr

ProducerCall ==
    \/ ReserveStreamed
    \/ \E b \in Sizes : SendCluster(b) \/ StartPipeline(b) \/ StartPipelinePanics(b)
    \/ Shutdown
    \/ DropStreamer

WorkerStep(w) ==
    WorkerRecv(w) \/ Encode(w) \/ WorkerSend(w) \/ WorkerSendFails(w)
      \/ WorkerExit(w)

WriterStep ==
    \/ WriterRecv \/ WriterRecvErr \/ WriteCluster \/ WriteFails
    \/ WriterDrained \/ WriterClosed
    \/ UnwindPending \/ DropOutRx \/ DiscardOut \/ WriterReturnsErr

\* The client stops: it may leave an open pipeline alone, and nothing more
\* happens when the Streamer is consumed, after a panic or the last slot.
Quiescent ==
    /\ prod \in {"idle", "dropped", "panicked"}
    /\ UNCHANGED vars

Next ==
    \/ ProducerCall
    \/ ProducerStep
    \/ \E w \in Workers : WorkerStep(w)
    \/ DiscardJob
    \/ WriterStep
    \/ Quiescent

\* Threads run, encode_cluster and write_all return: each thread's next step
\* is eventually taken.  Nothing obliges the client to make another call.
Fairness ==
    /\ WF_vars(ProducerStep)
    /\ \A w \in Workers : WF_vars(WorkerStep(w))
    /\ WF_vars(DiscardJob)
    /\ WF_vars(WriterStep)

Spec == Init /\ [][Next]_vars

FairSpec == Spec /\ Fairness

----------------------------------------------------------------------------
(* Properties *)

\* Types: the unsigned counter of the budget never underflows, and channels
\* hold jobs that were sent.
TypeOK ==
    /\ prod \in ProdStates
    /\ want \in Job
    /\ cluster_offsets \in Seq(Nat)
    /\ streamed \subseteq Nat
    /\ file_pos \in Nat \ {0}
    /\ owner \in {"streamer", "pipeline", "lost"}
    /\ jobs \in Seq(Job)
    /\ jobTx \in BOOLEAN
    /\ used \in Nat
    /\ jobQ \in Seq(Nat) /\ Len(jobQ) <= ChannelCap
    /\ wpc \in [Workers -> {"recv", "encode", "send", "exit"}]
    /\ wjob \in [Workers -> Nat]
    /\ encErr \subseteq Nat
    /\ outQ \in Seq(Nat) /\ Len(outQ) <= ChannelCap
    /\ writer \in {"none", "recv", "drain", "unwind", "discard", "ok", "err"}
    /\ pending \subseteq Nat
    /\ nextSeq \in Nat \ {0}
    /\ offsets \in Seq([idx : Nat, pos : Nat])
    /\ file \in Seq(Nat)
    /\ late \in Nat

Working == {wjob[w] : w \in {x \in Workers : wpc[x] \in {"encode", "send"}}}

\* The sequences whose BytePermit has not been dropped.
Live == Range(jobQ) \cup Range(outQ) \cup pending \cup Working
          \cup (IF prod = "send" THEN {Len(jobs)} ELSE {})

\* One element for every byte that a live permit holds.
BytesOf(js, S) == UNION {{s} \X (1 .. js[s].bytes) : s \in S}
HeldBytes == BytesOf(jobs, Live)

\* ByteBudget.used is exactly the sum of the live permits, through every
\* send, failure, unwinding and discarded queue: no permit leaks, none is
\* given back twice.
BudgetExact == used = Cardinality(HeldBytes)

\* The bytes in flight stay within the limit, except that one cluster larger
\* than the limit may hold them all (the oversized job runs alone).
OversizedAlone == used > Limit => \E s \in Live : jobs[s].bytes = used

\* Every unfinished sequence is in exactly one place: a channel slot, a
\* worker's hands, the writer's map, or the producer's hands.
Placement ==
    /\ IsInjective(jobQ)
    /\ IsInjective(outQ)
    /\ \A v, w \in Workers :
         /\ wpc[v] \in {"encode", "send"}
         /\ wpc[w] \in {"encode", "send"}
         /\ wjob[v] = wjob[w]
         => v = w
    /\ Range(jobQ) \cap (Range(outQ) \cup pending \cup Working) = {}
    /\ Range(outQ) \cap (pending \cup Working) = {}
    /\ pending \cap Working = {}
    /\ Range(jobQ) \cup Range(outQ) \cup pending \cup Working
         \subseteq 1 .. (IF prod = "send" THEN Len(jobs) - 1 ELSE Len(jobs))
    /\ prod = "send" => Len(jobs) # 0

\* Who may still be running when the File is where.
Phases ==
    /\ owner = "streamer" <=> writer = "none"
    /\ owner = "lost" => writer = "err"
    /\ prod \in {"acquire", "wait", "send", "joinSend", "joinShutdown",
                 "joinDrop"} => owner = "pipeline"
    /\ owner # "pipeline" => JobRxGone /\ jobQ = << >>
    /\ writer \in {"none", "ok", "err"} => outQ = << >>
    /\ writer \in {"none", "discard", "ok", "err"} => pending = {}

\* The inductive invariant behind the budget.
BudgetInv ==
    /\ TypeOK
    /\ Placement
    /\ Phases
    /\ IsFiniteSet(HeldBytes)
    /\ BudgetExact
    /\ OversizedAlone

\* Once the pipeline is shut down, with or without an error, every
\* reservation has been given back.
AllReturned == owner # "pipeline" => used = 0 /\ Live = {}

\* The budget is exact, is exceeded by one cluster at most, and is given back.
BudgetKept == BudgetExact /\ OversizedAlone /\ AllReturned

\* When the File is back in the Streamer, every slot that went through the
\* pipeline has the offset at which that very cluster was written, and the
\* clusters lie in the file in submission order.
SealedComplete ==
    owner = "streamer" =>
      LET piped == DOMAIN cluster_offsets \ streamed IN
        /\ file_pos = Len(file) + 1
        /\ \A i \in piped :
             /\ cluster_offsets[i] \in DOMAIN file
             /\ file[cluster_offsets[i]] = i
        /\ \A i, j \in piped : i < j => cluster_offsets[i] < cluster_offsets[j]

\* The inductive invariant behind the order of the file, in three parts.
\* Where the slots are: a slot that went through an earlier pipeline points
\* at its cluster; the others are those of the jobs, in submission order, and
\* of the cluster that is being submitted.
Piped == DOMAIN cluster_offsets \ streamed
Sealed == {i \in Piped : cluster_offsets[i] # 0}
Submitted == {jobs[s].idx : s \in DOMAIN jobs}
Entering == IF prod \in {"acquire", "wait"} THEN {want.idx} ELSE {}

SlotsInv ==
    /\ Len(cluster_offsets) <= MaxClusters
    /\ streamed \subseteq DOMAIN cluster_offsets
    /\ owner = "lost" \/ Piped \subseteq Sealed \cup Submitted \cup Entering
    /\ Submitted \cup Entering \subseteq Piped \ Sealed
    /\ \A i \in Entering : i = Len(cluster_offsets) /\ i \notin Submitted
    /\ \A s, t \in DOMAIN jobs : s < t => jobs[s].idx < jobs[t].idx
    /\ \A i \in Sealed, j \in Submitted : i < j
    /\ \A i \in Sealed : /\ cluster_offsets[i] \in 1 .. (file_pos - 1)
                         /\ file[cluster_offsets[i]] = i
    /\ \A i, j \in Sealed : i < j => cluster_offsets[i] < cluster_offsets[j]
    /\ prod = "panicked" => owner = "lost"

\* What the writer has done: the clusters before nextSeq, one after another.
WrittenInv ==
    /\ Len(offsets) = nextSeq - 1
    /\ Len(offsets) <= Len(jobs)
    /\ Len(file) = file_pos - 1 + Len(offsets)
    /\ \A k \in DOMAIN offsets :
         /\ offsets[k] = [idx |-> jobs[k].idx, pos |-> file_pos + k - 1]
         /\ file[file_pos + k - 1] = jobs[k].idx
    /\ owner = "streamer" => jobs = << >>

\* A worker leaves only when the closed channel is drained, or when the
\* writer is gone.
Leaving ==
    /\ owner = "pipeline" /\ prod \in {"idle", "acquire", "wait", "send"} => jobTx
    /\ \A w \in Workers :
         owner = "pipeline" /\ wpc[w] = "exit" =>
           (jobQ = << >> /\ ~jobTx) \/ writer \in {"discard", "err"}
    /\ writer = "ok" => JobRxGone

\* So no job is lost unless the writer failed.
NothingLost ==
    writer \in {"recv", "drain", "ok"} => nextSeq .. Len(jobs) \subseteq Live

LogInv == SlotsInv /\ WrittenInv /\ Leaving /\ NothingLost

\* A dead writer is reported after at most one more cluster per worker and
\* one more channel-full of clusters.
FailureReportedSoon == late <= Cardinality(Workers) + ChannelCap

\* The inductive invariant behind it: a cluster accepted late is still in the
\* job channel or has cost a worker its last job.
Engaged == {w \in Workers : wpc[w] # "recv"}

LateInv ==
    /\ ~OutRxGone \/ writer = "ok" => late = 0
    /\ \/ late <= Len(jobQ) + Cardinality(Engaged)
       \/ JobRxGone /\ FailureReportedSoon

\* send_cluster, shutdown_pipeline and drop always return.
CallsReturn ==
    prod \in {"acquire", "wait", "send", "joinSend", "joinShutdown", "joinDrop"}
      ~> prod \in {"idle", "dropped", "panicked"}

\* The documented promise of the fallible API: no panic.
NeverPanics == prod # "panicked"

\* The pipeline is a sequential append-only log: what earlier pipelines have
\* sealed, then the jobs of this one.
Accepted == SubSeq(file, 1, file_pos - 1) \o [s \in DOMAIN jobs |-> jobs[s].idx]

Phase == IF owner = "streamer" THEN "sealed"
         ELSE IF writer \in {"unwind", "discard", "err"} THEN "failed"
         ELSE "open"

Log == INSTANCE ClusterLog WITH
         Cluster <- 1 .. MaxClusters,
         accepted <- Accepted,
         durable <- file,
         phase <- Phase

PipelineIsALog == Log!Spec
=============================================================================
