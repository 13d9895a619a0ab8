------------------------ MODULE EncodePipelineProofs ------------------------
(***************************************************************************)
(* For every pool of workers, every byte limit and every mix of cluster    *)
(* sizes: the byte budget of the encode pipeline is exact, the file has    *)
(* the clusters in submission order and every slot points at its own, a    *)
(* failure is reported in time, and the pipeline implements ClusterLog.    *)
(***************************************************************************)
EXTENDS EncodePipeline, CommonLemmas

----------------------------------------------------------------------------
(* Adding and removing a permit *)

\* A permit that is dropped gives back what it was acquired for.
LEMMA DropPermit ==
  ASSUME NEW js, NEW L, NEW s \in L, js[s].bytes \in Nat,
         IsFiniteSet(BytesOf(js, L))
  PROVE  /\ IsFiniteSet(BytesOf(js, L \ {s}))
         /\ Cardinality(BytesOf(js, L)) \in Nat
         /\ js[s].bytes <= Cardinality(BytesOf(js, L))
         /\ Cardinality(BytesOf(js, L \ {s})) =
              Cardinality(BytesOf(js, L)) - js[s].bytes
<1> DEFINE C == {s} \X (1 .. js[s].bytes)
<1>1. BytesOf(js, L \ {s}) = BytesOf(js, L) \ C
  BY DEF BytesOf
<1>2. C \subseteq BytesOf(js, L)
  BY DEF BytesOf
<1>3. Cardinality(C) = js[s].bytes
  BY ChunkSize
<1> HIDE DEF C
<1>4. /\ IsFiniteSet(BytesOf(js, L) \ C)
      /\ Cardinality(BytesOf(js, L)) \in Nat
      /\ Cardinality(C) <= Cardinality(BytesOf(js, L))
      /\ Cardinality(BytesOf(js, L) \ C) = Cardinality(BytesOf(js, L)) - Cardinality(C)
  BY <1>2, RemoveChunk
<1>5. QED BY <1>1, <1>3, <1>4

\* A permit that is acquired adds the bytes of its job.
LEMMA TakePermit ==
  ASSUME NEW js \in Seq(Job), NEW j \in Job, NEW L \in SUBSET (1 .. Len(js)),
         IsFiniteSet(BytesOf(js, L))
  PROVE  LET n == Len(js) + 1 IN
         /\ IsFiniteSet(BytesOf(Append(js, j), L \cup {n}))
         /\ Cardinality(BytesOf(Append(js, j), L \cup {n})) =
              Cardinality(BytesOf(js, L)) + j.bytes
<1> DEFINE n == Len(js) + 1
           C == {n} \X (1 .. j.bytes)
<1>1. /\ Len(js) \in Nat
      /\ Append(js, j)[n] = j
      /\ \A s \in L : Append(js, j)[s] = js[s]
  <2>1. Len(js) \in Nat
    BY LenProperties
  <2>2. /\ Append(js, j)[Len(js) + 1] = j
        /\ \A i \in 1 .. Len(js) : Append(js, j)[i] = js[i]
    BY AppendProperties
  <2>3. QED BY <2>1, <2>2
<1>2. BytesOf(Append(js, j), L \cup {n}) = BytesOf(js, L) \cup C
  BY <1>1 DEF BytesOf
<1>3. BytesOf(js, L) \cap C = {}
  BY <1>1 DEF BytesOf
<1>4. j.bytes \in Nat
  BY DEF Job
<1>5. IsFiniteSet(C) /\ Cardinality(C) = j.bytes
  BY <1>4, ChunkSize
<1> HIDE DEF C, n
<1>6. /\ IsFiniteSet(BytesOf(js, L) \cup C)
      /\ Cardinality(BytesOf(js, L) \cup C) = Cardinality(BytesOf(js, L)) + Cardinality(C)
  BY <1>3, <1>5, AddChunk
<1>7. QED
  BY <1>2, <1>5, <1>6 DEF n

----------------------------------------------------------------------------
(* The three ways in which a step may touch the budget *)

Account ==
    /\ used \in Nat
    /\ IsFiniteSet(HeldBytes)
    /\ BudgetExact
    /\ OversizedAlone

\* Steps that keep the live permits keep the account.
LEMMA AccountKept ==
  ASSUME Account, Live' = Live, jobs' = jobs, used' = used
  PROVE  Account'
BY DEF Account, HeldBytes, BytesOf, BudgetExact, OversizedAlone

\* A live permit belongs to a job that was sent.
LEMMA LiveJob ==
  ASSUME BudgetInv, NEW s \in Live
  PROVE  s \in 1 .. Len(jobs) /\ jobs[s] \in Job /\ jobs[s].bytes \in Nat
<1>1. Len(jobs) \in Nat
  BY DEF BudgetInv, TypeOK
<1>2. s \in 1 .. Len(jobs)
  BY <1>1 DEF BudgetInv, Placement, Live
<1>3. jobs[s] \in Job
  BY <1>2 DEF BudgetInv, TypeOK
<1>4. QED BY <1>2, <1>3 DEF Job

\* BytePermit::drop keeps the account.
LEMMA AccountReleased ==
  ASSUME BudgetInv, NEW s \in Live,
         Live' = Live \ {s}, jobs' = jobs, used' = used - jobs[s].bytes
  PROVE  Account'
<1>1. jobs[s].bytes \in Nat
  BY LiveJob
<1>2. IsFiniteSet(BytesOf(jobs, Live)) /\ used = Cardinality(BytesOf(jobs, Live))
  BY DEF BudgetInv, BudgetExact, HeldBytes
<1>3. /\ IsFiniteSet(BytesOf(jobs, Live \ {s}))
      /\ used \in Nat
      /\ jobs[s].bytes <= used
      /\ Cardinality(BytesOf(jobs, Live \ {s})) = used - jobs[s].bytes
  BY <1>1, <1>2, DropPermit
<1>4. used' \in Nat /\ IsFiniteSet(HeldBytes') /\ BudgetExact'
  BY <1>1, <1>3 DEF HeldBytes, BytesOf, BudgetExact
<1>5. OversizedAlone'
  <2>1. SUFFICES ASSUME used' > Limit
                 PROVE  \E t \in Live' : jobs'[t].bytes = used'
    BY DEF OversizedAlone
  <2>2. used > Limit
    BY <1>1, <1>3, <2>1, LimitAssumption
  <2>3. PICK t \in Live : jobs[t].bytes = used
    BY <2>2 DEF BudgetInv, OversizedAlone
  <2>4. t # s
    BY <1>1, <1>3, <2>1, <2>3, LimitAssumption
  <2>5. jobs[t].bytes <= used - jobs[s].bytes
    BY <1>3, <2>3, <2>4, DropPermit, LiveJob
  <2>6. jobs[s].bytes = 0
    BY <1>1, <1>3, <2>3, <2>5
  <2>7. QED BY <1>3, <2>3, <2>4, <2>6
<1>6. QED BY <1>4, <1>5 DEF Account

\* ByteBudget::acquire keeps the account.
LEMMA AccountAcquired ==
  ASSUME BudgetInv, Acquire,
         Live' = Live \cup {Len(jobs) + 1}
  PROVE  Account'
<1>1. want \in Job /\ want.bytes \in Nat /\ jobs \in Seq(Job) /\ used \in Nat
  BY DEF BudgetInv, TypeOK, Job
<1>2. Live \subseteq 1 .. Len(jobs)
  BY LiveJob
<1>3. IsFiniteSet(BytesOf(jobs, Live)) /\ used = Cardinality(BytesOf(jobs, Live))
  BY DEF BudgetInv, BudgetExact, HeldBytes
<1>4. /\ IsFiniteSet(BytesOf(Append(jobs, want), Live \cup {Len(jobs) + 1}))
      /\ Cardinality(BytesOf(Append(jobs, want), Live \cup {Len(jobs) + 1}))
           = used + want.bytes
  BY <1>1, <1>2, <1>3, TakePermit
<1>5. jobs' = Append(jobs, want) /\ used' = used + want.bytes /\ Admits(want.bytes)
  BY DEF Acquire
<1>6. used' \in Nat /\ IsFiniteSet(HeldBytes') /\ BudgetExact'
  <2>1. HeldBytes' = BytesOf(Append(jobs, want), Live \cup {Len(jobs) + 1})
    BY <1>5 DEF HeldBytes, BytesOf
  <2>2. QED BY <1>1, <1>4, <1>5, <2>1 DEF BudgetExact
<1>7. /\ Append(jobs, want)[Len(jobs) + 1] = want
      /\ \A s \in Live : Append(jobs, want)[s] = jobs[s]
  BY <1>1, <1>2, AppendProperties
<1>8. OversizedAlone'
  <2>1. SUFFICES ASSUME used' > Limit
                 PROVE  \E t \in Live' : jobs'[t].bytes = used'
    BY DEF OversizedAlone
  <2>2. CASE used = 0
    BY <1>1, <1>5, <1>7, <2>2
  <2>3. CASE used # 0
    <3>1. want.bytes = 0 /\ used > Limit
      BY <1>1, <1>5, <2>1, <2>3, LimitAssumption DEF Admits
    <3>2. PICK t \in Live : jobs[t].bytes = used
      BY <3>1 DEF BudgetInv, OversizedAlone
    <3>3. t \in Live' /\ jobs'[t].bytes = used
      BY <1>5, <1>7, <3>2
    <3>4. used' = used
      BY <1>1, <1>5, <3>1
    <3>5. QED BY <3>3, <3>4
  <2>4. QED BY <2>2, <2>3
<1>9. QED BY <1>6, <1>8 DEF Account

----------------------------------------------------------------------------
(* Where the sequences are *)

Busy(w) == wpc[w] \in {"encode", "send"}

\* The account as a part of the invariant.
LEMMA HasAccount ==
  ASSUME BudgetInv
  PROVE  Account
BY DEF BudgetInv, Account, TypeOK

\* Steps that move no sequence.
LEMMA NothingMoves ==
  ASSUME BudgetInv, UNCHANGED <<jobs, used, jobQ, outQ, pending, wjob>>,
         \A w \in Workers : (Busy(w)' <=> Busy(w)),
         (prod' = "send") <=> (prod = "send")
  PROVE  Placement' /\ Account'
<1>1. Working' = Working
  BY DEF Working, Busy
<1>2. Live' = Live
  BY <1>1 DEF Live
<1>3. Account'
  BY <1>2, HasAccount, AccountKept
<1>4. Placement'
  BY <1>1 DEF BudgetInv, Placement, Busy
<1>5. QED BY <1>3, <1>4

\* A worker that takes a job has its permit.
LEMMA WorkerTakes ==
  ASSUME TypeOK, NEW w \in Workers, NEW h \in Nat, ~Busy(w),
         wpc' = [wpc EXCEPT ![w] = "encode"], wjob' = [wjob EXCEPT ![w] = h]
  PROVE  Working' = Working \cup {h}
BY DEF Working, Busy, TypeOK

\* A worker that ends with a job has its permit no more.
LEMMA WorkerGives ==
  ASSUME TypeOK, Placement, NEW w \in Workers, Busy(w), NEW st,
         st \notin {"encode", "send"},
         wpc' = [wpc EXCEPT ![w] = st], wjob' = [wjob EXCEPT ![w] = 0]
  PROVE  Working' = Working \ {wjob[w]}
BY DEF Working, Busy, TypeOK, Placement

----------------------------------------------------------------------------
(* One lemma per action *)

\* Steps of the caller that move no permit.
LEMMA StepCalls ==
  ASSUME BudgetInv,
         \/ ReserveStreamed
         \/ \E b \in Sizes : SendCluster(b) \/ StartPipelinePanics(b)
         \/ AcquireWait \/ Shutdown \/ DropStreamer \/ JoinErr
  PROVE  BudgetInv'
<1>1. TypeOK'
  <2>1. /\ cluster_offsets \in Seq(Nat)
        /\ Len(cluster_offsets) \in Nat
        /\ Append(cluster_offsets, 0) \in Seq(Nat)
    BY LenProperties, AppendProperties DEF BudgetInv, TypeOK
  <2>2. CASE ReserveStreamed
    <3>1. cluster_offsets' \in Seq(Nat) /\ streamed' \subseteq Nat
      <4>1. streamed \subseteq Nat
        BY DEF BudgetInv, TypeOK
      <4>2. /\ cluster_offsets' = Append(cluster_offsets, 0)
            /\ streamed' = streamed \cup {Len(cluster_offsets) + 1}
        BY <2>2 DEF ReserveStreamed
      <4>3. Len(cluster_offsets) + 1 \in Nat
        BY <2>1
      <4>4. streamed' \subseteq Nat
        BY <4>1, <4>2, <4>3
      <4>5. QED BY <2>1, <4>2, <4>4
    <3>2. QED
      BY <2>2, <3>1 DEF BudgetInv, TypeOK, ReserveStreamed, workerVars, writerVars
  <2>3. ASSUME NEW b \in Sizes, SendCluster(b) \/ StartPipelinePanics(b)
        PROVE  TypeOK'
    <3>1. AllocateSlot(b)
      BY <2>3 DEF SendCluster, StartPipelinePanics
    <3>2. b \in Nat
      BY SizesAssumption
    <3>3. want' \in Job /\ cluster_offsets' \in Seq(Nat)
      BY <2>1, <3>1, <3>2 DEF AllocateSlot, Job
    <3>4. QED
      BY <2>3, <3>3 DEF BudgetInv, TypeOK, ProdStates, SendCluster,
         StartPipelinePanics, workerVars, writerVars
  <2>4. CASE AcquireWait \/ Shutdown \/ DropStreamer
    BY <2>4 DEF BudgetInv, TypeOK, ProdStates, AcquireWait, Shutdown,
       DropStreamer, CloseJobs, workerVars, writerVars
  <2>5. CASE JoinErr
    BY <2>5 DEF BudgetInv, TypeOK, ProdStates, JoinErr, AfterJoin, workerVars,
       writerVars
  <2>6. QED BY <2>2, <2>3, <2>4, <2>5
<1>2. Phases'
  BY DEF BudgetInv, TypeOK, Phases, ReserveStreamed, SendCluster,
     StartPipelinePanics, AllocateSlot, AcquireWait, Shutdown, DropStreamer,
     CloseJobs, JoinErr, AllJoined, AfterJoin, JobRxGone, workerVars, writerVars
<1>3. /\ UNCHANGED <<jobs, used, jobQ, outQ, pending, wjob, wpc>>
      /\ (prod' = "send") <=> (prod = "send")
  BY DEF ReserveStreamed, SendCluster, StartPipelinePanics, AllocateSlot,
     AcquireWait, Shutdown, DropStreamer, CloseJobs, JoinErr, AfterJoin,
     workerVars, writerVars
<1>4. \A w \in Workers : Busy(w)' <=> Busy(w)
  BY <1>3 DEF Busy
<1>5. Placement' /\ Account'
  BY <1>3, <1>4, NothingMoves
<1>6. QED BY <1>1, <1>2, <1>5 DEF BudgetInv, Account

\* Steps of the threads that move no permit.
LEMMA StepThreads ==
  ASSUME BudgetInv,
         \/ \E w \in Workers : Encode(w) \/ WorkerExit(w)
         \/ WriterDrained \/ WriterClosed \/ DropOutRx \/ WriterReturnsErr
  PROVE  BudgetInv'
<1>1. TypeOK'
  BY DEF BudgetInv, TypeOK, Encode, WorkerExit, WriterDrained, WriterClosed,
     DropOutRx, WriterReturnsErr, prodVars, workerVars, writerVars
<1>2. Phases'
  BY DEF BudgetInv, TypeOK, Phases, Encode, WorkerExit, WriterDrained,
     WriterClosed, DropOutRx, WriterReturnsErr, JobRxGone, prodVars, workerVars,
     writerVars
<1>3. /\ UNCHANGED <<jobs, used, jobQ, outQ, pending, wjob, prod>>
      /\ \A w \in Workers : (Busy(w)' <=> Busy(w))
  BY DEF BudgetInv, TypeOK, Encode, WorkerExit, WriterDrained, WriterClosed,
     DropOutRx, WriterReturnsErr, prodVars, workerVars, writerVars, Busy
<1>4. Placement' /\ Account'
  BY <1>3, NothingMoves
<1>5. QED BY <1>1, <1>2, <1>4 DEF BudgetInv, Account

\* start_pipeline begins with an unused budget.
LEMMA StepStartPipeline ==
  ASSUME BudgetInv, NEW b \in Sizes, StartPipeline(b)
  PROVE  BudgetInv'
<1>1. /\ JobRxGone /\ jobQ = << >> /\ outQ = << >> /\ pending = {}
      /\ prod = "idle" /\ owner = "streamer" /\ writer = "none"
  BY DEF BudgetInv, Phases, StartPipeline, AllocateSlot
<1>2. Working = {} /\ Live = {}
  BY <1>1, EmptyChannel DEF Working, Live, JobRxGone
<1>3. used = 0
  <2>1. HeldBytes = {}
    BY <1>2 DEF HeldBytes, BytesOf
  <2>2. QED BY <2>1, FS_EmptySet DEF BudgetInv, BudgetExact
<1>4. TypeOK'
  <2>1. cluster_offsets \in Seq(Nat) /\ Len(cluster_offsets) \in Nat /\ b \in Nat
    BY LenProperties, SizesAssumption DEF BudgetInv, TypeOK
  <2>2. AllocateSlot(b)
    BY DEF StartPipeline
  <2>3. want' \in Job /\ cluster_offsets' \in Seq(Nat)
    BY <2>1, <2>2, AppendProperties DEF AllocateSlot, Job
  <2>4. wpc' \in [Workers -> {"recv", "encode", "send", "exit"}]
    BY DEF StartPipeline
  <2>5. QED
    BY <2>3, <2>4 DEF BudgetInv, TypeOK, ProdStates, StartPipeline
<1>5. /\ UNCHANGED <<jobs, used, jobQ, outQ, pending, wjob>>
      /\ (prod' = "send") <=> (prod = "send")
      /\ \A w \in Workers : Busy(w)' <=> Busy(w)
  BY <1>1, <1>3 DEF StartPipeline, Busy, JobRxGone
<1>6. Phases'
  BY <1>1 DEF StartPipeline, Phases
<1>7. Placement' /\ Account'
  BY <1>5, NothingMoves
<1>8. QED BY <1>4, <1>6, <1>7 DEF BudgetInv, Account

\* shutdown_pipeline joins once all permits are gone.
LEMMA StepJoinOk ==
  ASSUME BudgetInv, JoinOk
  PROVE  BudgetInv'
<1>1. /\ JobRxGone /\ jobQ = << >> /\ outQ = << >> /\ pending = {}
      /\ prod \in {"joinSend", "joinShutdown", "joinDrop"} /\ writer = "ok"
      /\ UNCHANGED <<used, jobQ, outQ, pending, wjob, wpc>>
      /\ jobs' = << >> /\ writer' = "none" /\ owner' = "streamer"
      /\ prod' \in {"idle", "dropped"}
  BY DEF BudgetInv, Phases, JoinOk, AllJoined, AfterJoin
<1>2. Working = {} /\ Live = {}
  BY <1>1, EmptyChannel DEF Working, Live, JobRxGone
<1>3. Working' = {} /\ Live' = {}
  BY <1>1, EmptyChannel DEF Working, Live, JobRxGone
<1>4. HeldBytes = {} /\ HeldBytes' = {}
  BY <1>2, <1>3 DEF HeldBytes, BytesOf
<1>5. used = 0
  BY <1>4, FS_EmptySet DEF BudgetInv, BudgetExact
<1>6. Account'
  BY <1>1, <1>4, <1>5, FS_EmptySet, LimitAssumption
  DEF Account, BudgetExact, OversizedAlone
<1>7. Phases'
  BY <1>1 DEF Phases, JobRxGone
<1>8. Placement'
  BY <1>1, <1>3, EmptyChannel DEF Placement, JobRxGone
<1>9. TypeOK'
  <2>1. /\ cluster_offsets \in Seq(Nat) /\ file_pos \in Nat \ {0}
        /\ offsets \in Seq([idx : Nat, pos : Nat])
        /\ Len(cluster_offsets) \in Nat /\ Len(offsets) \in Nat
    BY LenProperties DEF BudgetInv, TypeOK
  <2>2. ASSUME NEW o \in Range(offsets) PROVE o.pos \in Nat
    <3>1. PICK k \in DOMAIN offsets : o = offsets[k]
      BY DEF Range
    <3>2. offsets[k] \in [idx : Nat, pos : Nat]
      BY <2>1, LenProperties, ElementOfSeq
    <3>3. QED BY <3>1, <3>2
  <2>3. cluster_offsets' \in Seq(Nat)
    <3>1. DOMAIN cluster_offsets = 1 .. Len(cluster_offsets)
      BY <2>1, LenProperties
    <3>2. \A i \in 1 .. Len(cluster_offsets) : cluster_offsets[i] \in Nat
      BY <2>1, ElementOfSeq
    <3>3. ASSUME NEW i \in 1 .. Len(cluster_offsets),
                 \E k \in DOMAIN offsets : offsets[k].idx = i
          PROVE  (CHOOSE o \in Range(offsets) : o.idx = i).pos \in Nat
      BY <2>2, <3>3 DEF Range
    <3>4. \A i \in 1 .. Len(cluster_offsets) : cluster_offsets'[i] \in Nat
      BY <3>1, <3>2, <3>3 DEF JoinOk
    <3>5. cluster_offsets' = [i \in 1 .. Len(cluster_offsets) |-> cluster_offsets'[i]]
      BY <3>1 DEF JoinOk
    <3>6. cluster_offsets' \in [1 .. Len(cluster_offsets) -> Nat]
      BY <3>4, <3>5
    <3>7. QED BY <2>1, <3>6, SeqDef
  <2>4. file_pos' \in Nat \ {0}
    BY <2>1 DEF JoinOk
  <2>5. QED
    BY <1>1, <2>3, <2>4, EmptyChannel DEF BudgetInv, TypeOK, ProdStates, JoinOk
<1>10. QED BY <1>6, <1>7, <1>8, <1>9 DEF BudgetInv, Account

\* The job goes into the channel with its permit.
LEMMA StepSendOk ==
  ASSUME BudgetInv, SendOk
  PROVE  BudgetInv'
<1>1. /\ jobs \in Seq(Job) /\ jobQ \in Seq(Nat) /\ Len(jobs) \in Nat
      /\ Len(jobs) # 0 /\ Len(jobs) \notin Range(jobQ)
      /\ Len(jobs) \notin Range(outQ) /\ Len(jobs) \notin pending
      /\ Len(jobs) \notin Working
  <2>1. jobs \in Seq(Job) /\ jobQ \in Seq(Nat) /\ Len(jobs) \in Nat
    BY LenProperties DEF BudgetInv, TypeOK
  <2>2. Len(jobs) \notin 1 .. (Len(jobs) - 1)
    BY <2>1
  <2>3. QED BY <2>1, <2>2 DEF BudgetInv, Placement, SendOk
<1>2. /\ jobQ' = Append(jobQ, Len(jobs))
      /\ jobQ' \in Seq(Nat)
      /\ Len(jobQ') = Len(jobQ) + 1
      /\ Range(jobQ') = Range(jobQ) \cup {Len(jobs)}
      /\ IsInjective(jobQ')
  BY <1>1, PutLast DEF SendOk, BudgetInv, Placement
<1>3. Working' = Working
  BY DEF SendOk, Working, workerVars
<1>4. /\ prod = "send" /\ prod' = "idle" /\ ~JobRxGone
      /\ UNCHANGED <<jobs, used, outQ, pending, wpc, wjob, writer, owner>>
  BY DEF SendOk, workerVars, writerVars
<1>5. Live' = Live
  BY <1>2, <1>3, <1>4 DEF Live
<1>6. Account'
  BY <1>4, <1>5, AccountKept, HasAccount
<1>7. Placement'
  <2>1. 1 .. (Len(jobs) - 1) \cup {Len(jobs)} \subseteq 1 .. Len(jobs)
    BY <1>1
  <2>2. QED BY <1>1, <1>2, <1>3, <1>4, <2>1 DEF BudgetInv, Placement
<1>8. Phases'
  BY <1>4 DEF BudgetInv, Phases, JobRxGone
<1>9. Len(jobQ') <= ChannelCap
  <2>1. Len(jobQ) \in Nat /\ Len(jobQ) < ChannelCap
    BY <1>1, LenProperties DEF SendOk
  <2>2. ChannelCap \in Nat
    BY WorkersAssumption, FS_CardinalityType DEF ChannelCap
  <2>3. QED BY <1>2, <2>1, <2>2
<1>10. late' \in Nat
  BY DEF BudgetInv, TypeOK, SendOk
<1>11. TypeOK'
  BY <1>2, <1>9, <1>10 DEF BudgetInv, TypeOK, ProdStates, SendOk, workerVars, writerVars
<1>12. QED BY <1>6, <1>7, <1>8, <1>11 DEF BudgetInv, Account

\* send_cluster acquires, at once or after waiting.
LEMMA StepAcquire ==
  ASSUME BudgetInv, Acquire
  PROVE  BudgetInv'
<1>1. /\ jobs \in Seq(Job) /\ Len(jobs) \in Nat /\ want \in Job
      /\ prod = "acquire" /\ prod' = "send" /\ jobs' = Append(jobs, want)
      /\ want' = NoJob
      /\ UNCHANGED <<jobQ, outQ, pending, wpc, wjob, writer, owner>>
  BY LenProperties DEF BudgetInv, TypeOK, Acquire, workerVars, writerVars
<1>2. jobs' \in Seq(Job) /\ Len(jobs') = Len(jobs) + 1
  BY <1>1, AppendProperties
<1>3. Working' = Working
  BY <1>1 DEF Working
<1>4. Live' = Live \cup {Len(jobs) + 1}
  BY <1>1, <1>2, <1>3 DEF Live
<1>5. Account'
  BY <1>4, AccountAcquired
<1>6. Placement'
  BY <1>1, <1>2, <1>3 DEF BudgetInv, Placement
<1>7. Phases'
  BY <1>1 DEF BudgetInv, Phases, JobRxGone
<1>8. want' \in Job
  BY <1>1 DEF NoJob, Job
<1>9. TypeOK'
  BY <1>1, <1>2, <1>5, <1>8 DEF BudgetInv, TypeOK, ProdStates, Acquire, Account,
     workerVars, writerVars
<1>10. QED BY <1>5, <1>6, <1>7, <1>9 DEF BudgetInv, Account

\* What dropping a permit does to the producer.
LEMMA ReleaseWakes ==
  ASSUME BudgetInv, NEW s, Release(s)
  PROVE  /\ prod' \in ProdStates
         /\ (prod' = "send") <=> (prod = "send")
         /\ prod' \in {"acquire", "wait", "send", "joinSend", "joinShutdown",
                      "joinDrop"} => owner = "pipeline"
         /\ used' = used - jobs[s].bytes
BY DEF Release, BudgetInv, TypeOK, Phases, ProdStates

\* A job that cannot be sent drops its permit.
LEMMA StepSendFails ==
  ASSUME BudgetInv, SendFails
  PROVE  BudgetInv'
<1> DEFINE s == Len(jobs)
<1>1. /\ jobs \in Seq(Job) /\ s \in Nat /\ s # 0
      /\ prod = "send" /\ prod' = "joinSend" /\ JobRxGone
      /\ used' = used - jobs[s].bytes
      /\ UNCHANGED <<jobs, jobQ, outQ, pending, wpc, wjob, writer, owner>>
  BY LenProperties DEF BudgetInv, TypeOK, Placement, SendFails, workerVars, writerVars
<1>2. Working' = Working
  BY <1>1 DEF Working
<1>3. s \notin 1 .. (s - 1) /\ 1 .. (s - 1) \subseteq 1 .. s
  BY <1>1
<1>4. Live' = Live \ {s} /\ s \in Live
  BY <1>1, <1>2, <1>3 DEF Live, BudgetInv, Placement
<1>5. Account'
  BY <1>1, <1>4, AccountReleased
<1>6. Placement'
  BY <1>1, <1>2, <1>3 DEF BudgetInv, Placement
<1>7. Phases'
  BY <1>1 DEF BudgetInv, Phases, JobRxGone
<1>8. TypeOK'
  BY <1>1, <1>5 DEF BudgetInv, TypeOK, ProdStates, SendFails, Account, workerVars,
     writerVars
<1>9. QED BY <1>5, <1>6, <1>7, <1>8 DEF BudgetInv, Account

\* A worker receives a job with its permit.
LEMMA StepWorkerRecv ==
  ASSUME BudgetInv, NEW w \in Workers, WorkerRecv(w)
  PROVE  BudgetInv'
<1> DEFINE h == Head(jobQ)
<1>1. /\ h \in Range(jobQ) /\ h \in Nat
      /\ jobQ' = Tail(jobQ) /\ jobQ' \in Seq(Nat)
      /\ Len(jobQ') = Len(jobQ) - 1
      /\ Range(jobQ') = Range(jobQ) \ {h}
      /\ IsInjective(jobQ')
  BY TakeHead DEF WorkerRecv, BudgetInv, TypeOK, Placement
<1>2. /\ wpc[w] = "recv"
      /\ wpc' = [wpc EXCEPT ![w] = "encode"] /\ wjob' = [wjob EXCEPT ![w] = h]
      /\ UNCHANGED <<jobs, used, outQ, pending, prod, writer, owner>>
  BY DEF WorkerRecv, prodVars, writerVars
<1> HIDE DEF h
<1>3. Working' = Working \cup {h}
  BY <1>1, <1>2, WorkerTakes DEF BudgetInv, Busy
<1>4. Live' = Live
  BY <1>1, <1>2, <1>3 DEF Live
<1>5. Account'
  BY <1>2, <1>4, AccountKept, HasAccount
<1>6. \A u, v \in Workers :
         /\ wpc'[u] \in {"encode", "send"}
         /\ wpc'[v] \in {"encode", "send"}
         /\ wjob'[u] = wjob'[v]
         => u = v
  <2>1. \A v \in Workers : wpc[v] \in {"encode", "send"} => wjob[v] # h
    BY <1>1 DEF BudgetInv, Placement, Working
  <2>2. QED BY <1>2, <2>1 DEF BudgetInv, Placement, TypeOK
<1>7. Placement'
  BY <1>1, <1>2, <1>3, <1>6 DEF BudgetInv, Placement
<1>8. owner = "pipeline"
  BY <1>2 DEF BudgetInv, Phases, JobRxGone
<1>9. Phases'
  BY <1>2, <1>8 DEF BudgetInv, Phases
<1>10. Len(jobQ') <= ChannelCap
  <2>1. Len(jobQ) \in Nat /\ ChannelCap \in Nat /\ Len(jobQ) <= ChannelCap
    BY LenProperties, WorkersAssumption, FS_CardinalityType
    DEF ChannelCap, BudgetInv, TypeOK
  <2>2. QED BY <1>1, <2>1
<1>11. TypeOK'
  BY <1>1, <1>2, <1>10 DEF BudgetInv, TypeOK, WorkerRecv, prodVars, writerVars
<1>12. QED BY <1>5, <1>7, <1>9, <1>11 DEF BudgetInv, Account

\* It sends the result with the permit.
LEMMA StepWorkerSend ==
  ASSUME BudgetInv, NEW w \in Workers, WorkerSend(w)
  PROVE  BudgetInv'
<1> DEFINE h == wjob[w]
<1>1. /\ wpc[w] = "send" /\ wpc' = [wpc EXCEPT ![w] = "recv"]
      /\ wjob' = [wjob EXCEPT ![w] = 0]
      /\ UNCHANGED <<jobs, used, jobQ, pending, prod, writer, owner>>
      /\ ~OutRxGone /\ Len(outQ) < ChannelCap /\ outQ' = Append(outQ, h)
  BY DEF WorkerSend, prodVars, writerVars
<1>2. h \in Nat /\ h \in Working
  BY <1>1 DEF BudgetInv, TypeOK, Working
<1>3. h \notin Range(outQ) /\ h \notin Range(jobQ) /\ h \notin pending
  BY <1>2 DEF BudgetInv, Placement
<1>4. /\ outQ' \in Seq(Nat)
      /\ Len(outQ') = Len(outQ) + 1
      /\ Range(outQ') = Range(outQ) \cup {h}
      /\ IsInjective(outQ')
  BY <1>1, <1>2, <1>3, PutLast DEF BudgetInv, TypeOK, Placement
<1>5. Working' = Working \ {h}
  BY <1>1, WorkerGives DEF BudgetInv, Busy
<1> HIDE DEF h
<1>6. Live' = Live
  BY <1>1, <1>2, <1>4, <1>5 DEF Live
<1>7. Account'
  BY <1>1, <1>6, AccountKept, HasAccount
<1>8. \A u, v \in Workers :
         /\ wpc'[u] \in {"encode", "send"}
         /\ wpc'[v] \in {"encode", "send"}
         /\ wjob'[u] = wjob'[v]
         => u = v
  BY <1>1 DEF BudgetInv, Placement, TypeOK
<1>9. Placement'
  BY <1>1, <1>2, <1>3, <1>4, <1>5, <1>8 DEF BudgetInv, Placement
<1>10. owner = "pipeline" /\ ~JobRxGone
  BY <1>1 DEF BudgetInv, Phases, JobRxGone
<1>11. Phases'
  BY <1>1, <1>10 DEF BudgetInv, Phases, OutRxGone
<1>12. Len(outQ') <= ChannelCap
  <2>1. Len(outQ) \in Nat /\ ChannelCap \in Nat
    BY LenProperties, WorkersAssumption, FS_CardinalityType
    DEF ChannelCap, BudgetInv, TypeOK
  <2>2. QED BY <1>1, <1>4, <2>1
<1>13. TypeOK'
  BY <1>1, <1>4, <1>12 DEF BudgetInv, TypeOK, WorkerSend, prodVars, writerVars
<1>14. QED BY <1>7, <1>9, <1>11, <1>13 DEF BudgetInv, Account

\* A result that cannot be sent drops its permit.
LEMMA StepWorkerSendFails ==
  ASSUME BudgetInv, NEW w \in Workers, WorkerSendFails(w)
  PROVE  BudgetInv'
<1> DEFINE h == wjob[w]
<1>1. /\ wpc[w] = "send" /\ wpc' = [wpc EXCEPT ![w] = "exit"]
      /\ wjob' = [wjob EXCEPT ![w] = 0]
      /\ UNCHANGED <<jobs, jobQ, outQ, pending, writer, owner>>
      /\ Release(h)
  BY DEF WorkerSendFails, writerVars
<1>2. h \in Nat /\ h \in Working
  BY <1>1 DEF BudgetInv, TypeOK, Working
<1>3. /\ h \notin Range(outQ) /\ h \notin Range(jobQ) /\ h \notin pending
      /\ prod = "send" => h # Len(jobs)
  <2>1. Len(jobs) \in Nat
    BY LenProperties DEF BudgetInv, TypeOK
  <2>2. QED BY <1>2, <2>1 DEF BudgetInv, Placement
<1>4. Working' = Working \ {h}
  BY <1>1, WorkerGives DEF BudgetInv, Busy
<1> HIDE DEF h
<1>5. /\ prod' \in ProdStates
      /\ (prod' = "send") <=> (prod = "send")
      /\ prod' \in {"acquire", "wait", "send", "joinSend", "joinShutdown",
                   "joinDrop"} => owner = "pipeline"
      /\ used' = used - jobs[h].bytes
  BY <1>1, ReleaseWakes
<1>6. Live' = Live \ {h} /\ h \in Live
  BY <1>1, <1>2, <1>3, <1>4, <1>5 DEF Live
<1>7. Account'
  BY <1>1, <1>5, <1>6, AccountReleased
<1>8. \A u, v \in Workers :
         /\ wpc'[u] \in {"encode", "send"}
         /\ wpc'[v] \in {"encode", "send"}
         /\ wjob'[u] = wjob'[v]
         => u = v
  BY <1>1 DEF BudgetInv, Placement, TypeOK
<1>9. Placement'
  BY <1>1, <1>4, <1>5, <1>8 DEF BudgetInv, Placement
<1>10. owner = "pipeline"
  BY <1>1 DEF BudgetInv, Phases, JobRxGone
<1>11. Phases'
  BY <1>1, <1>5, <1>10 DEF BudgetInv, Phases
<1>12. TypeOK'
  BY <1>1, <1>5, <1>7 DEF BudgetInv, TypeOK, WorkerSendFails, writerVars, Account
<1>13. QED BY <1>7, <1>9, <1>11, <1>12 DEF BudgetInv, Account

\* Jobs left in a closed channel drop their permits.
LEMMA StepDiscardJob ==
  ASSUME BudgetInv, DiscardJob
  PROVE  BudgetInv'
<1> DEFINE h == Head(jobQ)
<1>1. /\ h \in Range(jobQ) /\ h \in Nat
      /\ jobQ' = Tail(jobQ) /\ jobQ' \in Seq(Nat)
      /\ Len(jobQ') = Len(jobQ) - 1
      /\ Range(jobQ') = Range(jobQ) \ {h}
      /\ IsInjective(jobQ')
  BY TakeHead DEF DiscardJob, BudgetInv, TypeOK, Placement
<1>2. /\ JobRxGone /\ jobQ # << >> /\ Release(h)
      /\ UNCHANGED <<jobs, outQ, pending, wpc, wjob, writer, owner>>
  BY DEF DiscardJob, workerVars, writerVars
<1> HIDE DEF h
<1>3. /\ prod' \in ProdStates
      /\ (prod' = "send") <=> (prod = "send")
      /\ prod' \in {"acquire", "wait", "send", "joinSend", "joinShutdown",
                   "joinDrop"} => owner = "pipeline"
      /\ used' = used - jobs[h].bytes
  BY <1>2, ReleaseWakes
<1>4. Working' = Working
  BY <1>2 DEF Working
<1>5. /\ h \notin Range(outQ) /\ h \notin Working /\ h \notin pending
      /\ prod = "send" => h # Len(jobs)
  <2>1. Len(jobs) \in Nat
    BY LenProperties DEF BudgetInv, TypeOK
  <2>2. QED BY <1>1, <2>1 DEF BudgetInv, Placement
<1>6. Live' = Live \ {h} /\ h \in Live
  BY <1>1, <1>2, <1>3, <1>4, <1>5 DEF Live
<1>7. Account'
  BY <1>2, <1>3, <1>6, AccountReleased
<1>8. Placement'
  BY <1>1, <1>2, <1>3, <1>4 DEF BudgetInv, Placement
<1>9. owner = "pipeline"
  BY <1>2 DEF BudgetInv, Phases
<1>10. Phases'
  BY <1>2, <1>3, <1>9 DEF BudgetInv, Phases
<1>11. Len(jobQ') <= ChannelCap
  <2>1. Len(jobQ) \in Nat /\ ChannelCap \in Nat /\ Len(jobQ) <= ChannelCap
    BY LenProperties, WorkersAssumption, FS_CardinalityType
    DEF ChannelCap, BudgetInv, TypeOK
  <2>2. QED BY <1>1, <2>1
<1>12. TypeOK'
  BY <1>1, <1>3, <1>7, <1>11 DEF BudgetInv, TypeOK, DiscardJob, workerVars,
     writerVars, Account
<1>13. QED BY <1>7, <1>8, <1>10, <1>12 DEF BudgetInv, Account

\* The three steps that take a message from the channel of encoded clusters.
LEMMA OutTaken ==
  ASSUME BudgetInv, outQ # << >>, outQ' = Tail(outQ)
  PROVE  LET h == Head(outQ) IN
         /\ h \in Range(outQ) /\ h \in Nat
         /\ outQ' \in Seq(Nat)
         /\ Len(outQ') <= ChannelCap
         /\ Range(outQ') = Range(outQ) \ {h}
         /\ IsInjective(outQ')
         /\ h \notin Range(jobQ) /\ h \notin Working /\ h \notin pending
         /\ prod = "send" => h # Len(jobs)
         /\ h \in 1 .. Len(jobs)
<1> DEFINE h == Head(outQ)
<1>1. /\ h \in Range(outQ) /\ h \in Nat
      /\ outQ' \in Seq(Nat)
      /\ Len(outQ') = Len(outQ) - 1
      /\ Range(outQ') = Range(outQ) \ {h}
      /\ IsInjective(outQ')
  BY TakeHead DEF BudgetInv, TypeOK, Placement
<1>2. Len(outQ') <= ChannelCap
  <2>1. Len(outQ) \in Nat /\ ChannelCap \in Nat /\ Len(outQ) <= ChannelCap
    BY LenProperties, WorkersAssumption, FS_CardinalityType
    DEF ChannelCap, BudgetInv, TypeOK
  <2>2. QED BY <1>1, <2>1
<1>3. /\ h \notin Range(jobQ) /\ h \notin Working /\ h \notin pending
  BY <1>1 DEF BudgetInv, Placement
<1>4. (prod = "send" => h # Len(jobs)) /\ h \in 1 .. Len(jobs)
  <2>1. Len(jobs) \in Nat
    BY LenProperties DEF BudgetInv, TypeOK
  <2>2. QED BY <1>1, <2>1 DEF BudgetInv, Placement
<1>5. QED BY <1>1, <1>2, <1>3, <1>4

\* The writer receives a result with its permit.
LEMMA StepWriterRecv ==
  ASSUME BudgetInv, WriterRecv
  PROVE  BudgetInv'
<1> DEFINE h == Head(outQ)
<1>1. /\ outQ # << >> /\ outQ' = Tail(outQ) /\ pending' = pending \cup {h}
      /\ writer = "recv" /\ writer' = "drain"
      /\ UNCHANGED <<jobs, used, jobQ, wpc, wjob, prod, owner>>
  BY DEF WriterRecv, prodVars, workerVars
<1>2. /\ h \in Range(outQ) /\ h \in Nat
      /\ outQ' \in Seq(Nat)
      /\ Len(outQ') <= ChannelCap
      /\ Range(outQ') = Range(outQ) \ {h}
      /\ IsInjective(outQ')
      /\ h \notin Range(jobQ) /\ h \notin Working
  BY <1>1, OutTaken
<1> HIDE DEF h
<1>3. Working' = Working
  BY <1>1 DEF Working
<1>4. Live' = Live
  BY <1>1, <1>2, <1>3 DEF Live
<1>5. Account'
  BY <1>1, <1>4, AccountKept, HasAccount
<1>6. Placement'
  BY <1>1, <1>2, <1>3 DEF BudgetInv, Placement
<1>7. Phases'
  BY <1>1 DEF BudgetInv, Phases, JobRxGone
<1>8. TypeOK'
  BY <1>1, <1>2 DEF BudgetInv, TypeOK, WriterRecv, prodVars, workerVars
<1>9. QED BY <1>5, <1>6, <1>7, <1>8 DEF BudgetInv, Account

\* It drops the permit when the cluster is written or has failed.
LEMMA StepOutReleased ==
  ASSUME BudgetInv, WriterRecvErr \/ DiscardOut
  PROVE  BudgetInv'
<1> DEFINE h == Head(outQ)
<1>1. /\ outQ # << >> /\ outQ' = Tail(outQ) /\ Release(h)
      /\ writer \in {"recv", "discard"}
      /\ writer = "recv" => writer' = "unwind"
      /\ writer = "discard" => writer' = "discard"
      /\ UNCHANGED <<jobs, jobQ, pending, wpc, wjob, owner>>
  BY DEF WriterRecvErr, DiscardOut, workerVars
<1>2. /\ h \in Range(outQ)
      /\ outQ' \in Seq(Nat)
      /\ Len(outQ') <= ChannelCap
      /\ Range(outQ') = Range(outQ) \ {h}
      /\ IsInjective(outQ')
      /\ h \notin Range(jobQ) /\ h \notin Working /\ h \notin pending
      /\ prod = "send" => h # Len(jobs)
  BY <1>1, OutTaken
<1> HIDE DEF h
<1>3. /\ prod' \in ProdStates
      /\ (prod' = "send") <=> (prod = "send")
      /\ prod' \in {"acquire", "wait", "send", "joinSend", "joinShutdown",
                   "joinDrop"} => owner = "pipeline"
      /\ used' = used - jobs[h].bytes
  BY <1>1, ReleaseWakes
<1>4. Working' = Working
  BY <1>1 DEF Working
<1>5. Live' = Live \ {h} /\ h \in Live
  BY <1>1, <1>2, <1>3, <1>4 DEF Live
<1>6. Account'
  BY <1>1, <1>3, <1>5, AccountReleased
<1>7. Placement'
  BY <1>1, <1>2, <1>3, <1>4 DEF BudgetInv, Placement
<1>8. Phases'
  BY <1>1, <1>3 DEF BudgetInv, Phases, JobRxGone
<1>9. TypeOK'
  BY <1>1, <1>2, <1>3, <1>6 DEF BudgetInv, TypeOK, WriterRecvErr, DiscardOut,
     workerVars, Account
<1>10. QED BY <1>6, <1>7, <1>8, <1>9 DEF BudgetInv, Account

\* The three steps that take a cluster from the writer's map.
LEMMA StepPendingReleased ==
  ASSUME BudgetInv, WriteCluster \/ WriteFails \/ UnwindPending
  PROVE  BudgetInv'
<1>1. PICK h \in pending : Release(h) /\ pending' = pending \ {h}
  BY DEF WriteCluster, WriteFails, UnwindPending
<1>2. /\ writer \in {"drain", "unwind"} /\ writer' \in {"drain", "unwind"}
      /\ UNCHANGED <<jobs, jobQ, outQ, wpc, wjob, owner>>
  BY DEF WriteCluster, WriteFails, UnwindPending, workerVars
<1>3. /\ prod' \in ProdStates
      /\ (prod' = "send") <=> (prod = "send")
      /\ prod' \in {"acquire", "wait", "send", "joinSend", "joinShutdown",
                   "joinDrop"} => owner = "pipeline"
      /\ used' = used - jobs[h].bytes
  BY <1>1, ReleaseWakes
<1>4. /\ h \notin Range(outQ) /\ h \notin Working /\ h \notin Range(jobQ)
      /\ prod = "send" => h # Len(jobs)
      /\ h \in 1 .. Len(jobs)
  <2>1. Len(jobs) \in Nat
    BY LenProperties DEF BudgetInv, TypeOK
  <2>2. QED BY <1>1, <2>1 DEF BudgetInv, Placement
<1>5. Working' = Working
  BY <1>2 DEF Working
<1>6. Live' = Live \ {h} /\ h \in Live
  BY <1>1, <1>2, <1>3, <1>4, <1>5 DEF Live
<1>7. Account'
  BY <1>2, <1>3, <1>6, AccountReleased
<1>8. Placement'
  BY <1>1, <1>2, <1>3, <1>5 DEF BudgetInv, Placement
<1>9. Phases'
  BY <1>2, <1>3 DEF BudgetInv, Phases, JobRxGone
<1>10. nextSeq' \in Nat \ {0}
  BY DEF BudgetInv, TypeOK, WriteCluster, WriteFails, UnwindPending
<1>11. offsets' \in Seq([idx : Nat, pos : Nat]) /\ file' \in Seq(Nat)
  <2>1. CASE WriteCluster
    <3>1. jobs[nextSeq] \in Job
      <4>1. nextSeq \in pending
        BY <2>1 DEF WriteCluster
      <4>2. nextSeq \in Live
        BY <4>1 DEF Live
      <4>3. QED BY <4>2, LiveJob
    <3>2. Pos \in Nat
      BY DEF Pos, BudgetInv, TypeOK
    <3>3. /\ jobs[nextSeq].idx \in Nat
          /\ [idx |-> jobs[nextSeq].idx, pos |-> Pos] \in [idx : Nat, pos : Nat]
      BY <3>1, <3>2 DEF Job
    <3>4. offsets \in Seq([idx : Nat, pos : Nat]) /\ file \in Seq(Nat)
      BY DEF BudgetInv, TypeOK
    <3>5. QED BY <2>1, <3>3, <3>4, AppendProperties DEF WriteCluster
  <2>2. CASE WriteFails \/ UnwindPending
    BY <2>2 DEF BudgetInv, TypeOK, WriteFails, UnwindPending
  <2>3. QED BY <2>1, <2>2
<1>12. TypeOK'
  BY <1>1, <1>2, <1>3, <1>7, <1>10, <1>11 DEF BudgetInv, TypeOK, WriteCluster,
     WriteFails, UnwindPending, workerVars, Account
<1>13. QED BY <1>7, <1>8, <1>9, <1>12 DEF BudgetInv, Account

----------------------------------------------------------------------------
(* The invariant *)

\* No permit exists at first.
LEMMA BudgetInit == Init => BudgetInv
<1> SUFFICES ASSUME Init PROVE BudgetInv
  OBVIOUS
<1>1. TypeOK
  <2>1. ChannelCap \in Nat /\ Len(<< >>) = 0
    BY WorkersAssumption, FS_CardinalityType DEF ChannelCap
  <2>2. want \in Job
    BY DEF Init, NoJob, Job
  <2>3. /\ cluster_offsets \in Seq(Nat) /\ jobs \in Seq(Job)
        /\ jobQ \in Seq(Nat) /\ outQ \in Seq(Nat) /\ file \in Seq(Nat)
        /\ offsets \in Seq([idx : Nat, pos : Nat])
    BY EmptyChannel DEF Init
  <2>4. /\ wpc \in [Workers -> {"recv", "encode", "send", "exit"}]
        /\ wjob \in [Workers -> Nat]
    BY DEF Init
  <2>5. Len(jobQ) <= ChannelCap /\ Len(outQ) <= ChannelCap
    BY <2>1 DEF Init
  <2>6. /\ prod \in ProdStates /\ streamed \subseteq Nat /\ encErr \subseteq Nat
        /\ file_pos \in Nat \ {0} /\ nextSeq \in Nat \ {0}
        /\ used \in Nat /\ late \in Nat /\ pending \subseteq Nat
    BY SMT DEF Init, ProdStates
  <2>7. /\ owner \in {"streamer", "pipeline", "lost"}
        /\ writer \in {"none", "recv", "drain", "unwind", "discard", "ok", "err"}
    BY SMT DEF Init
  <2>8. jobTx \in BOOLEAN
    BY Zenon DEF Init
  <2>9. QED BY <2>2, <2>3, <2>4, <2>5, <2>6, <2>7, <2>8 DEF TypeOK
<1>2. Working = {} /\ Live = {}
  BY EmptyChannel DEF Init, Working, Live
<1>3. Placement
  BY <1>2, EmptyChannel DEF Init, Placement
<1>4. Phases
  BY DEF Init, Phases, JobRxGone
<1>5. HeldBytes = {}
  BY <1>2 DEF HeldBytes, BytesOf
<1>6. IsFiniteSet(HeldBytes) /\ BudgetExact /\ OversizedAlone
  BY <1>5, FS_EmptySet, LimitAssumption DEF Init, BudgetExact, OversizedAlone
<1>7. QED BY <1>1, <1>3, <1>4, <1>6 DEF BudgetInv

\* Every step keeps the invariant.
LEMMA BudgetNext == BudgetInv /\ [Next]_vars => BudgetInv'
<1> SUFFICES ASSUME BudgetInv, [Next]_vars PROVE BudgetInv'
  OBVIOUS
<1>1. CASE ProducerCall
  BY <1>1, StepCalls, StepStartPipeline DEF ProducerCall
<1>2. CASE ProducerStep
  BY <1>2, StepCalls, StepAcquire, StepSendOk, StepSendFails, StepJoinOk
  DEF ProducerStep
<1>3. CASE \E w \in Workers : WorkerStep(w)
  BY <1>3, StepThreads, StepWorkerRecv, StepWorkerSend, StepWorkerSendFails
  DEF WorkerStep
<1>4. CASE DiscardJob
  BY <1>4, StepDiscardJob
<1>5. CASE WriterStep
  BY <1>5, StepThreads, StepWriterRecv, StepOutReleased, StepPendingReleased
  DEF WriterStep
<1>6. CASE UNCHANGED vars
  <2>1. TypeOK'
    BY <1>6 DEF BudgetInv, TypeOK, vars, prodVars, workerVars, writerVars
  <2>2. Phases'
    BY <1>6 DEF BudgetInv, Phases, JobRxGone, vars, prodVars, workerVars, writerVars
  <2>3. UNCHANGED <<jobs, used, jobQ, outQ, pending, wjob, wpc, prod>>
    BY <1>6 DEF vars, prodVars, workerVars, writerVars
  <2>4. \A w \in Workers : Busy(w)' <=> Busy(w)
    BY <2>3 DEF Busy
  <2>5. Placement' /\ Account'
    BY <2>3, <2>4, NothingMoves
  <2>6. QED BY <2>1, <2>2, <2>5 DEF BudgetInv, Account
<1>7. QED BY <1>1, <1>2, <1>3, <1>4, <1>5, <1>6 DEF Next, Quiescent

\* The inductive invariant holds in every state: the types, where each job
\* is, and that the counter is the bytes of the live permits.
THEOREM BudgetInvariance == Spec => []BudgetInv
<1>1. QED BY BudgetInit, BudgetNext, PTL DEF Spec

\* Every variable keeps its type; in particular ByteBudget.used, an unsigned
\* counter in the code, never underflows.
THEOREM TypeCorrect == Spec => []TypeOK
<1>1. BudgetInv => TypeOK
  BY DEF BudgetInv
<1>2. QED BY <1>1, BudgetInvariance, PTL

\* ByteBudget.used is the sum of the bytes of the live permits.
THEOREM BudgetIsExact == Spec => []BudgetExact
<1>1. BudgetInv => BudgetExact
  BY DEF BudgetInv
<1>2. QED BY <1>1, BudgetInvariance, PTL

\* The budget is exceeded only by one oversized cluster that runs alone.
THEOREM OversizedRunsAlone == Spec => []OversizedAlone
<1>1. BudgetInv => OversizedAlone
  BY DEF BudgetInv
<1>2. QED BY <1>1, BudgetInvariance, PTL

\* A pipeline that was shut down, with or without an error, holds nothing.
THEOREM ShutdownReturnsEverything == Spec => []AllReturned
<1>1. BudgetInv => AllReturned
  <2>1. SUFFICES ASSUME BudgetInv, owner # "pipeline"
                 PROVE  used = 0 /\ Live = {}
    BY DEF AllReturned
  <2>2. JobRxGone /\ jobQ = << >> /\ outQ = << >> /\ pending = {} /\ prod # "send"
    BY <2>1 DEF BudgetInv, TypeOK, Phases
  <2>3. Live = {}
    BY <2>2, EmptyChannel DEF Live, Working, JobRxGone
  <2>4. HeldBytes = {}
    BY <2>3 DEF HeldBytes, BytesOf
  <2>5. QED BY <2>1, <2>3, <2>4, FS_EmptySet DEF BudgetInv, BudgetExact
<1>2. QED BY <1>1, BudgetInvariance, PTL

\* The budget is exact, is exceeded by one cluster at most, and is given back.
THEOREM BudgetIsKept == Spec => []BudgetKept
<1>1. BudgetExact /\ OversizedAlone /\ AllReturned => BudgetKept
  BY DEF BudgetKept
<1>2. QED
  BY <1>1, BudgetIsExact, OversizedRunsAlone, ShutdownReturnsEverything, PTL

----------------------------------------------------------------------------
(* The order of the file: the slots *)

\* The sequences of the invariant and their domains.
LEMMA LogTypes ==
  ASSUME BudgetInv
  PROVE  /\ jobs \in Seq(Job) /\ Len(jobs) \in Nat /\ DOMAIN jobs = 1 .. Len(jobs)
         /\ cluster_offsets \in Seq(Nat) /\ Len(cluster_offsets) \in Nat
         /\ DOMAIN cluster_offsets = 1 .. Len(cluster_offsets)
         /\ \A i \in DOMAIN cluster_offsets : cluster_offsets[i] \in Nat
         /\ file \in Seq(Nat) /\ Len(file) \in Nat /\ DOMAIN file = 1 .. Len(file)
         /\ Len(offsets) \in Nat /\ DOMAIN offsets = 1 .. Len(offsets)
         /\ file_pos \in Nat \ {0} /\ nextSeq \in Nat \ {0} /\ want \in Job
         /\ \A s \in DOMAIN jobs : jobs[s].idx \in Nat
<1>1. /\ jobs \in Seq(Job) /\ cluster_offsets \in Seq(Nat) /\ file \in Seq(Nat)
      /\ offsets \in Seq([idx : Nat, pos : Nat])
      /\ file_pos \in Nat \ {0} /\ nextSeq \in Nat \ {0} /\ want \in Job
  BY DEF BudgetInv, TypeOK
<1>2. \A s \in DOMAIN jobs : jobs[s].idx \in Nat
  <2>1. \A s \in DOMAIN jobs : jobs[s] \in Job
    BY <1>1, ElementOfSeq, LenProperties
  <2>2. QED BY <2>1 DEF Job
<1>3. \A i \in DOMAIN cluster_offsets : cluster_offsets[i] \in Nat
  BY <1>1, ElementOfSeq, LenProperties
<1>4. QED BY <1>1, <1>2, <1>3, LenProperties

\* Steps that leave slots, jobs and the sealed part of the file alone.
LEMMA SlotsKept ==
  ASSUME SlotsInv, BudgetInv,
         UNCHANGED <<cluster_offsets, streamed, jobs, file_pos, want>>,
         (prod' \in {"acquire", "wait"}) <=> (prod \in {"acquire", "wait"}),
         prod' = "panicked" => prod = "panicked",
         owner = "lost" => owner' = "lost",
         \A p \in 1 .. (file_pos - 1) : file'[p] = file[p]
  PROVE  SlotsInv'
<1>1. /\ Piped' = Piped /\ Sealed' = Sealed /\ Submitted' = Submitted
      /\ Entering' = Entering
  BY DEF Piped, Sealed, Submitted, Entering
<1>2. \A i \in Sealed : cluster_offsets[i] \in 1 .. (file_pos - 1)
  BY DEF SlotsInv
<1>3. QED BY <1>1, <1>2 DEF SlotsInv

\* A new slot for a cluster.
LEMMA SlotsAllocated ==
  ASSUME SlotsInv, BudgetInv, NEW b \in Nat, AllocateSlot(b),
         prod' \in {"acquire", "panicked"}, prod' = "panicked" => owner' = "lost",
         owner = "lost" => owner' = "lost",
         UNCHANGED <<streamed, jobs, file_pos, file>>
  PROVE  SlotsInv'
<1> DEFINE n == Len(cluster_offsets) + 1
<1>1. /\ cluster_offsets \in Seq(Nat) /\ Len(cluster_offsets) \in Nat
      /\ DOMAIN cluster_offsets = 1 .. Len(cluster_offsets)
      /\ MaxClusters \in Nat
  BY LogTypes, BoundsAssumption
<1>2. /\ prod = "idle" /\ Len(cluster_offsets) < MaxClusters
      /\ cluster_offsets' = Append(cluster_offsets, 0) /\ want'.idx = n
  BY DEF AllocateSlot
<1>3. /\ Len(cluster_offsets') = n /\ DOMAIN cluster_offsets' = 1 .. n
      /\ \A i \in 1 .. Len(cluster_offsets) : cluster_offsets'[i] = cluster_offsets[i]
      /\ cluster_offsets'[n] = 0 /\ n \notin 1 .. Len(cluster_offsets)
      /\ 1 .. n = 1 .. Len(cluster_offsets) \cup {n}
  BY <1>1, <1>2, AppendProperties
<1>4. n \notin streamed
  BY <1>1, <1>3 DEF SlotsInv
<1>5. Piped' = Piped \cup {n} /\ n \notin Piped
  BY <1>1, <1>3, <1>4 DEF Piped
<1>6. Sealed' = Sealed
  <2>1. \A i \in Piped : i \in 1 .. Len(cluster_offsets)
    BY <1>1 DEF Piped
  <2>2. QED BY <1>3, <1>5, <2>1 DEF Sealed
<1>7. /\ Submitted' = Submitted /\ Entering = {} /\ Entering' \subseteq {n}
      /\ owner' # "lost" => Entering' = {n}
  BY <1>2 DEF Submitted, Entering
<1>8. n \notin Submitted /\ n \notin Sealed
  BY <1>5 DEF SlotsInv, Sealed
<1>9. Len(cluster_offsets') <= MaxClusters /\ streamed' \subseteq DOMAIN cluster_offsets'
  BY <1>1, <1>2, <1>3 DEF SlotsInv
<1>10. owner' = "lost" \/ Piped' \subseteq Sealed' \cup Submitted' \cup Entering'
  BY <1>5, <1>6, <1>7 DEF SlotsInv
<1>11. Submitted' \cup Entering' \subseteq Piped' \ Sealed'
  BY <1>5, <1>6, <1>7, <1>8 DEF SlotsInv
<1>12. \A i \in Entering' : i = Len(cluster_offsets') /\ i \notin Submitted'
  BY <1>3, <1>7, <1>8
<1>13. \A i \in Sealed' : /\ cluster_offsets'[i] = cluster_offsets[i]
                          /\ cluster_offsets'[i] \in 1 .. (file_pos' - 1)
                          /\ file'[cluster_offsets'[i]] = i
  <2>1. \A i \in Sealed : i \in 1 .. Len(cluster_offsets)
    BY <1>1 DEF Sealed, Piped
  <2>2. QED BY <1>3, <1>6, <2>1 DEF SlotsInv
<1>14. \A i, j \in Sealed' : i < j => cluster_offsets'[i] < cluster_offsets'[j]
  BY <1>6, <1>13 DEF SlotsInv
<1>15. prod' = "panicked" => owner' = "lost"
  OBVIOUS
<1> HIDE DEF n
<1>16. QED
  BY <1>6, <1>7, <1>9, <1>10, <1>11, <1>12, <1>13, <1>14 DEF SlotsInv

\* A new slot for a streamed item.
LEMMA SlotsReserved ==
  ASSUME SlotsInv, BudgetInv, ReserveStreamed
  PROVE  SlotsInv'
<1> DEFINE n == Len(cluster_offsets) + 1
<1>1. /\ cluster_offsets \in Seq(Nat) /\ Len(cluster_offsets) \in Nat
      /\ DOMAIN cluster_offsets = 1 .. Len(cluster_offsets)
      /\ MaxClusters \in Nat
  BY LogTypes, BoundsAssumption
<1>2. /\ prod = "idle" /\ Len(cluster_offsets) < MaxClusters
      /\ cluster_offsets' = Append(cluster_offsets, 0)
      /\ streamed' = streamed \cup {n}
      /\ UNCHANGED <<prod, want, jobs, owner, file_pos, file>>
  BY DEF ReserveStreamed, writerVars
<1>3. /\ Len(cluster_offsets') = n /\ DOMAIN cluster_offsets' = 1 .. n
      /\ \A i \in 1 .. Len(cluster_offsets) : cluster_offsets'[i] = cluster_offsets[i]
      /\ n \notin 1 .. Len(cluster_offsets)
      /\ 1 .. n = 1 .. Len(cluster_offsets) \cup {n}
  BY <1>1, <1>2, AppendProperties
<1>4. Piped' = Piped
  BY <1>1, <1>2, <1>3 DEF Piped
<1>5. \A i \in Piped : cluster_offsets'[i] = cluster_offsets[i]
  BY <1>1, <1>3 DEF Piped
<1>6. Sealed' = Sealed
  BY <1>4, <1>5 DEF Sealed
<1>7. Submitted' = Submitted /\ Entering = {} /\ Entering' = {}
  BY <1>2 DEF Submitted, Entering
<1>8. Len(cluster_offsets') <= MaxClusters /\ streamed' \subseteq DOMAIN cluster_offsets'
  BY <1>1, <1>2, <1>3 DEF SlotsInv
<1>9. \A i \in Sealed' : /\ cluster_offsets'[i] = cluster_offsets[i]
                         /\ cluster_offsets'[i] \in 1 .. (file_pos' - 1)
                         /\ file'[cluster_offsets'[i]] = i
  BY <1>2, <1>5, <1>6 DEF SlotsInv, Sealed
<1> HIDE DEF n
<1>10. \A i, j \in Sealed' : i < j => cluster_offsets'[i] < cluster_offsets'[j]
  BY <1>6, <1>9 DEF SlotsInv
<1>11. QED
  BY <1>2, <1>4, <1>6, <1>7, <1>8, <1>9, <1>10 DEF SlotsInv

\* The cluster that entered becomes the last job.
LEMMA SlotsAcquired ==
  ASSUME SlotsInv, BudgetInv, Acquire
  PROVE  SlotsInv'
<1>1. /\ jobs \in Seq(Job) /\ Len(jobs) \in Nat /\ DOMAIN jobs = 1 .. Len(jobs)
      /\ want \in Job
  BY LogTypes
<1>2. /\ prod = "acquire" /\ prod' = "send" /\ jobs' = Append(jobs, want)
      /\ UNCHANGED <<cluster_offsets, streamed, file_pos, owner, file>>
  BY DEF Acquire, writerVars
<1>3. /\ DOMAIN jobs' = 1 .. (Len(jobs) + 1)
      /\ \A s \in 1 .. Len(jobs) : jobs'[s] = jobs[s]
      /\ jobs'[Len(jobs) + 1] = want
  BY <1>1, <1>2, AppendProperties
<1>4. Submitted' = Submitted \cup {want.idx} /\ Entering = {want.idx} /\ Entering' = {}
  BY <1>1, <1>2, <1>3 DEF Submitted, Entering
<1>5. Piped' = Piped /\ Sealed' = Sealed
  BY <1>2 DEF Piped, Sealed
<1>6. \A i \in Piped : i # want.idx => i < want.idx
  <2>1. want.idx = Len(cluster_offsets)
    BY <1>4 DEF SlotsInv
  <2>2. QED BY <2>1, LogTypes DEF Piped
<1>7. \A i \in Sealed' : \A j \in Submitted' : i < j
  <2>1. \A i \in Sealed : i \in Piped /\ i # want.idx
    BY <1>4 DEF SlotsInv, Sealed
  <2>2. QED BY <1>4, <1>5, <1>6, <2>1 DEF SlotsInv
<1>8. \A s, t \in DOMAIN jobs' : s < t => jobs'[s].idx < jobs'[t].idx
  <2>1. SUFFICES ASSUME NEW s \in 1 .. (Len(jobs) + 1), NEW t \in 1 .. (Len(jobs) + 1), s < t
                 PROVE  jobs'[s].idx < jobs'[t].idx
    BY <1>3
  <2>2. s \in 1 .. Len(jobs)
    BY <1>1, <2>1
  <2>3. CASE t \in 1 .. Len(jobs)
    BY <1>1, <1>3, <2>1, <2>2, <2>3 DEF SlotsInv
  <2>4. CASE t = Len(jobs) + 1
    <3>1. jobs[s].idx \in Submitted
      BY <1>1, <2>2 DEF Submitted
    <3>2. jobs[s].idx \in Piped /\ jobs[s].idx # want.idx
      BY <1>4, <3>1 DEF SlotsInv
    <3>3. QED BY <1>3, <1>6, <2>2, <2>4, <3>2
  <2>5. QED BY <1>1, <2>3, <2>4
<1>9. QED BY <1>2, <1>4, <1>5, <1>7, <1>8 DEF SlotsInv

\* The slots of the jobs grow with their sequence numbers.
LEMMA SubmittedInOrder ==
  ASSUME SlotsInv, BudgetInv, NEW s \in DOMAIN jobs, NEW t \in DOMAIN jobs
  PROVE  /\ jobs[s].idx = jobs[t].idx => s = t
         /\ jobs[s].idx < jobs[t].idx => s < t
<1>1. s \in Nat /\ t \in Nat /\ jobs[s].idx \in Nat /\ jobs[t].idx \in Nat
  BY LogTypes
<1>2. /\ s < t => jobs[s].idx < jobs[t].idx
      /\ t < s => jobs[t].idx < jobs[s].idx
  BY DEF SlotsInv
<1>3. QED BY <1>1, <1>2

\* The offsets of the writer are those of the jobs, one after another.
LEMMA WrittenAt ==
  ASSUME WrittenInv, NEW k \in DOMAIN offsets
  PROVE  /\ offsets[k].idx = jobs[k].idx
         /\ offsets[k].pos = file_pos + k - 1
         /\ file[file_pos + k - 1] = jobs[k].idx
<1>1. /\ offsets[k] = [idx |-> jobs[k].idx, pos |-> file_pos + k - 1]
      /\ file[file_pos + k - 1] = jobs[k].idx
  BY DEF WrittenInv
<1>2. QED BY <1>1

\* The join puts the offsets of the writer into the slots of the jobs.
LEMMA SlotsJoined ==
  ASSUME SlotsInv, WrittenInv, BudgetInv, JoinOk, Len(offsets) = Len(jobs)
  PROVE  SlotsInv'
<1>1. /\ Len(jobs) \in Nat /\ DOMAIN jobs = 1 .. Len(jobs)
      /\ file_pos \in Nat \ {0} /\ DOMAIN offsets = 1 .. Len(jobs)
      /\ \A i \in DOMAIN cluster_offsets : cluster_offsets[i] \in Nat
  BY LogTypes
<1>2. /\ prod' \in {"idle", "dropped"} /\ owner' = "streamer" /\ jobs' = << >>
      /\ owner = "pipeline" /\ prod \in {"joinSend", "joinShutdown", "joinDrop"}
      /\ file_pos' = file_pos + Len(jobs)
      /\ UNCHANGED <<streamed, file>>
  BY DEF JoinOk, AfterJoin, BudgetInv, Phases
<1>3. DOMAIN cluster_offsets' = DOMAIN cluster_offsets
      /\ Len(cluster_offsets') = Len(cluster_offsets)
  <2>1. DOMAIN cluster_offsets' = DOMAIN cluster_offsets
    BY DEF JoinOk
  <2>2. BudgetInv'
    BY StepJoinOk
  <2>3. /\ Len(cluster_offsets') \in Nat
        /\ DOMAIN cluster_offsets' = 1 .. Len(cluster_offsets')
    BY <2>2, LenProperties DEF BudgetInv, TypeOK
  <2>4. QED BY <2>1, <2>3, LogTypes
<1>4. ASSUME NEW s \in DOMAIN jobs
      PROVE  cluster_offsets'[jobs[s].idx] = file_pos + s - 1
  <2> DEFINE i == jobs[s].idx
  <2>1. i \in DOMAIN cluster_offsets
    BY DEF SlotsInv, Submitted, Piped
  <2>2. offsets[s].idx = i /\ offsets[s].pos = file_pos + s - 1
    BY <1>1, WrittenAt
  <2>3. ASSUME NEW o \in Range(offsets), o.idx = i PROVE o.pos = file_pos + s - 1
    <3>1. PICK k \in DOMAIN offsets : o = offsets[k]
      BY DEF Range
    <3>2. o.idx = jobs[k].idx /\ o.pos = file_pos + k - 1
      BY <3>1, WrittenAt
    <3>3. k = s
      <4>1. k \in DOMAIN jobs
        BY <1>1
      <4>2. QED BY <2>3, <3>2, <4>1, SubmittedInOrder
    <3>4. QED BY <3>2, <3>3
  <2>4. offsets[s] \in Range(offsets)
    BY <1>1 DEF Range
  <2>5. (CHOOSE o \in Range(offsets) : o.idx = i).pos = file_pos + s - 1
    BY <2>2, <2>3, <2>4
  <2>6. \E k \in DOMAIN offsets : offsets[k].idx = i
    BY <1>1, <2>2
  <2>7. QED BY <2>1, <2>5, <2>6 DEF JoinOk
<1>5. ASSUME NEW i \in DOMAIN cluster_offsets, i \notin Submitted
      PROVE  cluster_offsets'[i] = cluster_offsets[i]
  <2>1. ~ \E k \in DOMAIN offsets : offsets[k].idx = i
    BY <1>1, <1>5, WrittenAt DEF Submitted
  <2>2. QED BY <2>1 DEF JoinOk
<1>6. /\ Piped' = Piped /\ Submitted' = {} /\ Entering' = {} /\ Entering = {}
  BY <1>2, <1>3 DEF Piped, Submitted, Entering
<1>7. Sealed' = Sealed \cup Submitted
  <2>1. \A i \in Submitted : i \in Piped /\ cluster_offsets'[i] # 0
    BY <1>1, <1>4 DEF Submitted, SlotsInv
  <2>2. \A i \in Piped : i \notin Submitted => cluster_offsets'[i] = cluster_offsets[i]
    BY <1>5 DEF Piped
  <2>3. QED BY <1>6, <2>1, <2>2 DEF Sealed, SlotsInv
<1>8. Piped' \subseteq Sealed'
  BY <1>2, <1>6, <1>7 DEF SlotsInv
<1>9. ASSUME NEW i \in Sealed
      PROVE  /\ cluster_offsets'[i] = cluster_offsets[i]
             /\ cluster_offsets[i] \in 1 .. (file_pos - 1)
             /\ file[cluster_offsets[i]] = i
  BY <1>5 DEF SlotsInv, Sealed, Piped
<1>10. ASSUME NEW i \in Sealed'
       PROVE  /\ cluster_offsets'[i] \in 1 .. (file_pos' - 1)
              /\ file'[cluster_offsets'[i]] = i
  <2>1. CASE i \in Sealed
    BY <1>1, <1>2, <1>9, <2>1
  <2>2. CASE i \in Submitted
    <3>1. PICK s \in DOMAIN jobs : i = jobs[s].idx
      BY <2>2 DEF Submitted
    <3>2. file[file_pos + s - 1] = i
      BY <1>1, <3>1 DEF WrittenInv
    <3>3. cluster_offsets'[i] = file_pos + s - 1
      BY <1>4, <3>1
    <3>4. QED BY <1>1, <1>2, <3>2, <3>3
  <2>3. QED BY <1>7, <2>1, <2>2
<1>11. ASSUME NEW i \in Sealed', NEW j \in Sealed', i < j
       PROVE  cluster_offsets'[i] < cluster_offsets'[j]
  <2>1. CASE i \in Sealed /\ j \in Sealed
    BY <1>9, <1>11, <2>1 DEF SlotsInv
  <2>2. CASE i \in Sealed /\ j \in Submitted
    <3>1. PICK t \in DOMAIN jobs : j = jobs[t].idx
      BY <2>2 DEF Submitted
    <3>2. cluster_offsets'[j] = file_pos + t - 1
      BY <1>4, <3>1
    <3>3. cluster_offsets'[i] \in 1 .. (file_pos - 1)
      BY <1>9, <2>2
    <3>4. QED BY <1>1, <3>2, <3>3
  <2>3. CASE i \in Submitted /\ j \in Sealed
    <3>1. j < i
      BY <2>3 DEF SlotsInv
    <3>2. i \in Nat /\ j \in Nat
      BY <2>3, LogTypes DEF Submitted, Sealed, Piped
    <3>3. QED BY <1>11, <3>1, <3>2
  <2>4. CASE i \in Submitted /\ j \in Submitted
    <3>1. PICK s \in DOMAIN jobs : i = jobs[s].idx
      BY <2>4 DEF Submitted
    <3>2. PICK t \in DOMAIN jobs : j = jobs[t].idx
      BY <2>4 DEF Submitted
    <3>3. s < t
      BY <1>11, <3>1, <3>2, SubmittedInOrder
    <3>4. cluster_offsets'[i] = file_pos + s - 1 /\ cluster_offsets'[j] = file_pos + t - 1
      BY <1>4, <3>1, <3>2
    <3>5. QED BY <1>1, <3>3, <3>4
  <2>5. QED BY <1>7, <2>1, <2>2, <2>3, <2>4
<1>12. QED
  <2>1. Len(cluster_offsets') <= MaxClusters /\ streamed' \subseteq DOMAIN cluster_offsets'
    BY <1>2, <1>3 DEF SlotsInv
  <2>2. DOMAIN jobs' = {}
    BY <1>2
  <2>3. QED BY <1>2, <1>6, <1>8, <1>10, <1>11, <2>1, <2>2 DEF SlotsInv

----------------------------------------------------------------------------
(* The order of the file: what the writer has written *)

\* What the order of the file depends on is left alone by most steps.
LEMMA WrittenKept ==
  ASSUME WrittenInv, UNCHANGED <<offsets, nextSeq, jobs, file, file_pos>>,
         owner' = "streamer" => owner = "streamer"
  PROVE  WrittenInv'
BY DEF WrittenInv

\* A new job comes after those that are written.
LEMMA WrittenAcquired ==
  ASSUME WrittenInv, BudgetInv, Acquire
  PROVE  WrittenInv'
<1>1. /\ jobs \in Seq(Job) /\ Len(jobs) \in Nat /\ want \in Job
      /\ Len(offsets) \in Nat /\ DOMAIN offsets = 1 .. Len(offsets)
  BY LogTypes
<1>2. /\ jobs' = Append(jobs, want) /\ owner = "pipeline"
      /\ UNCHANGED <<offsets, nextSeq, file, file_pos, owner>>
  BY DEF Acquire, writerVars, BudgetInv, Phases
<1>3. /\ Len(jobs') = Len(jobs) + 1
      /\ \A s \in 1 .. Len(jobs) : jobs'[s] = jobs[s]
  BY <1>1, <1>2, AppendProperties
<1>4. Len(offsets) <= Len(jobs)
  BY DEF WrittenInv
<1>5. \A k \in DOMAIN offsets : jobs'[k] = jobs[k]
  BY <1>1, <1>3, <1>4
<1>6. QED BY <1>1, <1>2, <1>3, <1>4, <1>5 DEF WrittenInv

\* The writer appends the next cluster.
LEMMA WrittenWritten ==
  ASSUME WrittenInv, BudgetInv, WriteCluster
  PROVE  WrittenInv'
<1>1. /\ Len(jobs) \in Nat /\ DOMAIN jobs = 1 .. Len(jobs)
      /\ file \in Seq(Nat) /\ Len(file) \in Nat
      /\ Len(offsets) \in Nat /\ DOMAIN offsets = 1 .. Len(offsets)
      /\ offsets \in Seq([idx : Nat, pos : Nat])
      /\ file_pos \in Nat \ {0} /\ nextSeq \in Nat \ {0}
  BY LogTypes DEF BudgetInv, TypeOK
<1>2. /\ nextSeq \in pending /\ writer = "drain"
      /\ offsets' = Append(offsets, [idx |-> jobs[nextSeq].idx, pos |-> Pos])
      /\ file' = Append(file, jobs[nextSeq].idx)
      /\ nextSeq' = nextSeq + 1
      /\ UNCHANGED <<jobs, file_pos, owner>>
  BY DEF WriteCluster
<1>3. nextSeq \in 1 .. Len(jobs)
  <2>1. nextSeq \in Live
    BY <1>2 DEF Live
  <2>2. QED BY <2>1, LiveJob
<1>4. /\ Len(offsets) = nextSeq - 1 /\ Len(file) = file_pos - 1 + Len(offsets)
  BY DEF WrittenInv
<1>5. jobs[nextSeq].idx \in Nat /\ Pos \in Nat /\ Pos = file_pos + nextSeq - 1
  <2>1. jobs[nextSeq].idx \in Nat
    BY <1>3, LogTypes
  <2>2. Pos \in Nat /\ Pos = file_pos + nextSeq - 1
    BY <1>1 DEF Pos
  <2>3. QED BY <2>1, <2>2
<1>6. /\ Len(offsets') = nextSeq /\ DOMAIN offsets' = 1 .. nextSeq
      /\ offsets'[nextSeq] = [idx |-> jobs[nextSeq].idx, pos |-> Pos]
      /\ \A k \in 1 .. (nextSeq - 1) : offsets'[k] = offsets[k]
  BY <1>1, <1>2, <1>4, <1>5, AppendProperties
<1>7. /\ Len(file') = file_pos - 1 + nextSeq
      /\ file'[file_pos - 1 + nextSeq] = jobs[nextSeq].idx
      /\ \A p \in 1 .. (file_pos - 1 + nextSeq - 1) : file'[p] = file[p]
  BY <1>1, <1>2, <1>4, <1>5, AppendProperties
<1>8. ASSUME NEW k \in 1 .. nextSeq
      PROVE  /\ offsets'[k] = [idx |-> jobs[k].idx, pos |-> file_pos + k - 1]
             /\ file'[file_pos + k - 1] = jobs[k].idx
  <2>1. CASE k = nextSeq
    <3>1. file_pos + k - 1 = file_pos - 1 + nextSeq
      BY <1>1, <2>1
    <3>2. QED BY <1>5, <1>6, <1>7, <2>1, <3>1
  <2>2. CASE k \in 1 .. (nextSeq - 1)
    <3>1. file_pos + k - 1 \in 1 .. (file_pos - 1 + nextSeq - 1)
      BY <1>1, <2>2
    <3>2. k \in DOMAIN offsets
      BY <1>1, <1>4, <2>2
    <3>3. QED BY <1>6, <1>7, <2>2, <3>1, <3>2 DEF WrittenInv
  <2>3. QED BY <1>1, <2>1, <2>2
<1>9. owner # "streamer"
  BY <1>2 DEF BudgetInv, Phases
<1>10. QED
  <2>1. nextSeq = nextSeq' - 1 /\ nextSeq <= Len(jobs')
    BY <1>1, <1>2, <1>3
  <2>2. QED BY <1>2, <1>6, <1>7, <1>8, <1>9, <2>1 DEF WrittenInv

\* The join starts from nothing.
LEMMA WrittenJoined ==
  ASSUME WrittenInv, BudgetInv, JoinOk
  PROVE  WrittenInv'
<1>1. /\ jobs' = << >> /\ offsets' = << >> /\ nextSeq' = 1 /\ UNCHANGED file
      /\ file_pos' = file_pos + Len(offsets)
  BY DEF JoinOk
<1>2. /\ Len(<< >>) = 0 /\ DOMAIN << >> = {}
  OBVIOUS
<1>3. Len(offsets) \in Nat /\ file_pos \in Nat
  BY LogTypes
<1>4. Len(file') = file_pos' - 1 + 0
  BY <1>1, <1>3 DEF WrittenInv
<1>5. QED BY <1>1, <1>2, <1>4 DEF WrittenInv

----------------------------------------------------------------------------
(* No job is lost *)

\* When every worker is gone and a job is left, the writer has failed.
LEMMA LeftBehind ==
  ASSUME BudgetInv, Leaving, JobRxGone, owner = "pipeline", jobQ # << >> \/ jobTx
  PROVE  writer \in {"discard", "err"}
<1>1. PICK w \in Workers : TRUE
  BY WorkersAssumption
<1>2. wpc[w] = "exit"
  BY DEF JobRxGone
<1>3. QED BY <1>2 DEF Leaving

\* Once a worker may leave its loop early, that stays so until the pipeline is new.
LEMMA LeavingNext ==
  ASSUME BudgetInv, Leaving, [Next]_vars
  PROVE  Leaving'
<1>1. CASE ReserveStreamed \/ AcquireWait \/ Acquire \/ UNCHANGED vars
  BY <1>1 DEF Leaving, ReserveStreamed, AcquireWait, Acquire, JobRxGone, vars,
     prodVars, workerVars, writerVars
<1>2. ASSUME NEW b \in Sizes, SendCluster(b) PROVE Leaving'
  BY <1>2 DEF Leaving, SendCluster, AllocateSlot, JobRxGone, workerVars, writerVars
<1>3. ASSUME NEW b \in Sizes, StartPipeline(b) PROVE Leaving'
  BY <1>3 DEF Leaving, StartPipeline, JobRxGone
<1>4. ASSUME NEW b \in Sizes, StartPipelinePanics(b) PROVE Leaving'
  BY <1>4 DEF Leaving, StartPipelinePanics, JobRxGone, workerVars, writerVars
<1>5. CASE Shutdown \/ DropStreamer
  BY <1>5 DEF Leaving, Shutdown, DropStreamer, CloseJobs, JobRxGone, workerVars,
     writerVars
<1>6. CASE SendOk
  <2>1. /\ prod = "send" /\ prod' = "idle" /\ ~JobRxGone
        /\ UNCHANGED <<jobTx, owner, wpc, writer>>
    BY <1>6 DEF SendOk, workerVars, writerVars
  <2>2. owner = "pipeline" /\ jobTx
    BY <2>1 DEF BudgetInv, Phases, Leaving
  <2>3. QED BY <2>1, <2>2 DEF Leaving, JobRxGone
<1>7. CASE SendFails
  <2>1. prod = "send" /\ owner = "pipeline" /\ JobRxGone
    BY <1>7 DEF SendFails, BudgetInv, Phases
  <2>2. jobTx
    BY <2>1 DEF Leaving
  <2>3. writer \in {"discard", "err"}
    BY <2>1, <2>2, LeftBehind
  <2>4. QED BY <1>7, <2>1, <2>3 DEF Leaving, SendFails, JobRxGone, workerVars, writerVars
<1>8. CASE JoinOk
  BY <1>8 DEF Leaving, JoinOk
<1>9. CASE JoinErr
  BY <1>9 DEF Leaving, JoinErr, JobRxGone, workerVars, writerVars
<1>10. ASSUME NEW w \in Workers, WorkerRecv(w) PROVE Leaving'
  <2>1. /\ wpc[w] = "recv" /\ jobQ # << >>
        /\ wpc' = [wpc EXCEPT ![w] = "encode"]
        /\ UNCHANGED <<jobTx, owner, prod, writer>>
    BY <1>10 DEF WorkerRecv, prodVars, writerVars
  <2>2. ~JobRxGone
    BY <2>1 DEF JobRxGone
  <2>3. QED BY <2>1, <2>2 DEF Leaving, JobRxGone, BudgetInv, TypeOK
<1>11. ASSUME NEW w \in Workers, Encode(w) PROVE Leaving'
  BY <1>11 DEF Leaving, Encode, JobRxGone, BudgetInv, TypeOK, prodVars, writerVars
<1>12. ASSUME NEW w \in Workers, WorkerSend(w) PROVE Leaving'
  BY <1>12 DEF Leaving, WorkerSend, JobRxGone, BudgetInv, TypeOK, prodVars, writerVars
<1>13. ASSUME NEW w \in Workers, WorkerSendFails(w) PROVE Leaving'
  <2>1. /\ wpc[w] = "send" /\ writer \in {"discard", "ok", "err"}
        /\ wpc' = [wpc EXCEPT ![w] = "exit"]
        /\ UNCHANGED <<jobTx, owner, writer, jobQ>>
        /\ prod' \in {"idle", "acquire", "wait", "send"} =>
             prod \in {"idle", "acquire", "wait", "send"}
    BY <1>13 DEF WorkerSendFails, OutRxGone, Release, writerVars
  <2>2. writer \in {"discard", "err"}
    BY <2>1 DEF Leaving, JobRxGone
  <2>3. QED BY <2>1, <2>2 DEF Leaving, BudgetInv, TypeOK
<1>14. ASSUME NEW w \in Workers, WorkerExit(w) PROVE Leaving'
  BY <1>14 DEF Leaving, WorkerExit, JobRxGone, BudgetInv, TypeOK, prodVars, writerVars
<1>15. CASE DiscardJob
  <2>1. owner = "pipeline"
    BY <1>15 DEF DiscardJob, BudgetInv, Phases
  <2>2. writer \in {"discard", "err"}
    BY <1>15, <2>1, LeftBehind DEF DiscardJob
  <2>3. /\ UNCHANGED <<jobTx, owner, writer, wpc>>
        /\ prod' \in {"idle", "acquire", "wait", "send"} =>
             prod \in {"idle", "acquire", "wait", "send"}
    BY <1>15 DEF DiscardJob, Release, workerVars, writerVars
  <2>4. QED BY <2>2, <2>3 DEF Leaving
<1>16. CASE WriterRecv \/ WriterDrained \/ WriterClosed \/ DropOutRx \/ WriterReturnsErr
  BY <1>16 DEF Leaving, WriterRecv, WriterDrained, WriterClosed, DropOutRx,
     WriterReturnsErr, JobRxGone, prodVars, workerVars
<1>17. CASE WriterRecvErr \/ WriteCluster \/ WriteFails \/ UnwindPending \/ DiscardOut
  <2>1. /\ UNCHANGED <<jobTx, owner, jobQ, wpc>>
        /\ writer \in {"recv", "drain", "unwind"} \/ writer' = writer
        /\ writer' # "ok"
        /\ prod' \in {"idle", "acquire", "wait", "send"} =>
             prod \in {"idle", "acquire", "wait", "send"}
    BY <1>17 DEF WriterRecvErr, WriteCluster, WriteFails, UnwindPending,
       DiscardOut, Release, workerVars
  <2>2. QED BY <2>1 DEF Leaving
<1>18. QED
  BY <1>1, <1>2, <1>3, <1>4, <1>5, <1>6, <1>7, <1>8, <1>9, <1>10, <1>11, <1>12,
     <1>13, <1>14, <1>15, <1>16, <1>17
  DEF Next, ProducerCall, ProducerStep, WorkerStep, WriterStep, Quiescent

\* Moves between channels, hands and the writer's map keep every permit.
LEMMA LiveMoves ==
  ASSUME BudgetInv,
         \/ SendOk \/ WriterRecv
         \/ \E w \in Workers : WorkerRecv(w) \/ Encode(w) \/ WorkerSend(w) \/ WorkerExit(w)
  PROVE  Live \subseteq Live'
<1>1. CASE SendOk
  <2>1. /\ jobs \in Seq(Job) /\ jobQ \in Seq(Nat) /\ Len(jobs) \in Nat
        /\ prod = "send" /\ jobQ' = Append(jobQ, Len(jobs))
        /\ UNCHANGED <<outQ, pending, wpc, wjob>>
    BY <1>1, LogTypes DEF BudgetInv, TypeOK, SendOk, workerVars, writerVars
  <2>2. Range(jobQ') = Range(jobQ) \cup {Len(jobs)}
    <3>1. /\ Len(jobQ) \in Nat /\ DOMAIN jobQ = 1 .. Len(jobQ)
          /\ DOMAIN jobQ' = 1 .. (Len(jobQ) + 1)
          /\ jobQ'[Len(jobQ) + 1] = Len(jobs)
          /\ \A i \in 1 .. Len(jobQ) : jobQ'[i] = jobQ[i]
      BY <2>1, LenProperties, AppendProperties
    <3>2. QED BY <3>1 DEF Range
  <2>3. Working' = Working
    BY <2>1 DEF Working
  <2>4. QED BY <2>1, <2>2, <2>3 DEF Live
<1>2. CASE WriterRecv
  <2>1. /\ outQ # << >> /\ outQ' = Tail(outQ) /\ pending' = pending \cup {Head(outQ)}
        /\ UNCHANGED <<jobs, jobQ, wpc, wjob, prod>>
    BY <1>2 DEF WriterRecv, prodVars, workerVars
  <2>2. Range(outQ') = Range(outQ) \ {Head(outQ)}
    BY <2>1, OutTaken
  <2>3. Working' = Working
    BY <2>1 DEF Working
  <2>4. QED BY <2>1, <2>2, <2>3 DEF Live
<1>3. ASSUME NEW w \in Workers, WorkerRecv(w) PROVE Live \subseteq Live'
  <2>1. /\ Head(jobQ) \in Nat
        /\ Range(jobQ') = Range(jobQ) \ {Head(jobQ)}
    BY <1>3, TakeHead DEF WorkerRecv, BudgetInv, TypeOK, Placement
  <2>2. /\ wpc[w] = "recv"
        /\ wpc' = [wpc EXCEPT ![w] = "encode"]
        /\ wjob' = [wjob EXCEPT ![w] = Head(jobQ)]
        /\ UNCHANGED <<jobs, outQ, pending, prod>>
    BY <1>3 DEF WorkerRecv, prodVars, writerVars
  <2>3. Working' = Working \cup {Head(jobQ)}
    BY <2>1, <2>2, WorkerTakes DEF BudgetInv, Busy
  <2>4. QED BY <2>1, <2>2, <2>3 DEF Live
<1>4. ASSUME NEW w \in Workers, Encode(w) \/ WorkerExit(w) PROVE Live \subseteq Live'
  <2>1. /\ UNCHANGED <<jobs, jobQ, outQ, pending, prod, wjob>>
        /\ \A v \in Workers : Busy(v)' <=> Busy(v)
    BY <1>4 DEF Encode, WorkerExit, Busy, BudgetInv, TypeOK, prodVars, writerVars
  <2>2. Working' = Working
    BY <2>1 DEF Working, Busy
  <2>3. QED BY <2>1, <2>2 DEF Live
<1>5. ASSUME NEW w \in Workers, WorkerSend(w) PROVE Live \subseteq Live'
  <2>1. /\ wpc[w] = "send" /\ wpc' = [wpc EXCEPT ![w] = "recv"]
        /\ wjob' = [wjob EXCEPT ![w] = 0]
        /\ UNCHANGED <<jobs, jobQ, pending, prod>>
        /\ outQ' = Append(outQ, wjob[w]) /\ outQ \in Seq(Nat) /\ wjob[w] \in Nat
    BY <1>5 DEF WorkerSend, BudgetInv, TypeOK, prodVars, writerVars
  <2>2. wjob[w] \in Working
    BY <2>1 DEF Working
  <2>3. wjob[w] \notin Range(outQ) /\ IsInjective(outQ)
    BY <2>2 DEF BudgetInv, Placement
  <2>4. Range(outQ') = Range(outQ) \cup {wjob[w]}
    BY <2>1, <2>3, PutLast
  <2>5. Working' = Working \ {wjob[w]}
    BY <2>1, WorkerGives DEF BudgetInv, Busy
  <2>6. QED BY <2>1, <2>4, <2>5 DEF Live
<1>6. QED BY <1>1, <1>2, <1>3, <1>4, <1>5

\* Steps that take no permit.
LEMMA LiveStays ==
  ASSUME BudgetInv, UNCHANGED <<jobs, jobQ, outQ, pending, wjob, wpc>>,
         prod = "send" => prod' = "send"
  PROVE  Live \subseteq Live'
<1>1. Working' = Working
  BY DEF Working
<1>2. QED BY <1>1 DEF Live

\* A permit is dropped only for a cluster that is written, unless the writer
\* has failed.
LEMMA NothingLostNext ==
  ASSUME BudgetInv, WrittenInv, Leaving, NothingLost, [Next]_vars
  PROVE  NothingLost'
<1> USE DEF NothingLost
<1>1. ASSUME UNCHANGED <<jobs, nextSeq>>, Live \subseteq Live',
             writer' \in {"recv", "drain", "ok"} => writer \in {"recv", "drain", "ok"}
      PROVE  NothingLost'
  BY <1>1
<1>2. CASE \/ ReserveStreamed \/ AcquireWait \/ Shutdown \/ DropStreamer \/ JoinErr
           \/ \E b \in Sizes : SendCluster(b) \/ StartPipelinePanics(b)
           \/ UNCHANGED vars
  <2>1. /\ UNCHANGED <<jobs, jobQ, outQ, pending, wjob, wpc, nextSeq, writer>>
        /\ prod = "send" => prod' = "send"
    BY <1>2 DEF ReserveStreamed, AcquireWait, Shutdown, DropStreamer, CloseJobs,
       JoinErr, SendCluster, StartPipelinePanics, AllocateSlot, vars, prodVars,
       workerVars, writerVars
  <2>2. QED BY <1>1, <2>1, LiveStays
<1>3. ASSUME NEW b \in Sizes, StartPipeline(b) PROVE NothingLost'
  <2>1. owner = "streamer" /\ UNCHANGED <<jobs, nextSeq>>
    BY <1>3 DEF StartPipeline
  <2>2. jobs = << >> /\ Len(jobs) = 0
    BY <2>1 DEF WrittenInv
  <2>3. nextSeq .. 0 = {}
    BY LogTypes
  <2>4. QED BY <2>1, <2>2, <2>3
<1>4. CASE Acquire
  <2>1. /\ jobs \in Seq(Job) /\ Len(jobs) \in Nat /\ want \in Job /\ nextSeq \in Nat
    BY LogTypes
  <2>2. /\ prod = "acquire" /\ prod' = "send" /\ jobs' = Append(jobs, want)
        /\ UNCHANGED <<jobQ, outQ, pending, wpc, wjob, writer, nextSeq>>
    BY <1>4 DEF Acquire, workerVars, writerVars
  <2>3. Len(jobs') = Len(jobs) + 1
    BY <2>1, <2>2, AppendProperties
  <2>4. Working' = Working
    BY <2>2 DEF Working
  <2>5. Live' = Live \cup {Len(jobs) + 1}
    BY <2>2, <2>3, <2>4 DEF Live
  <2>6. nextSeq .. (Len(jobs) + 1) \subseteq nextSeq .. Len(jobs) \cup {Len(jobs) + 1}
    BY <2>1
  <2>7. QED BY <2>2, <2>3, <2>5, <2>6
<1>5. CASE \/ SendOk \/ WriterRecv
           \/ \E w \in Workers : WorkerRecv(w) \/ Encode(w) \/ WorkerSend(w) \/ WorkerExit(w)
  <2>1. /\ UNCHANGED <<jobs, nextSeq>>
        /\ writer' \in {"recv", "drain", "ok"} => writer \in {"recv", "drain", "ok"}
    BY <1>5 DEF SendOk, WriterRecv, WorkerRecv, Encode, WorkerSend, WorkerExit,
       prodVars, workerVars, writerVars
  <2>2. QED BY <1>1, <1>5, <2>1, LiveMoves
<1>6. CASE SendFails
  <2>1. prod = "send" /\ owner = "pipeline" /\ JobRxGone /\ UNCHANGED writer
    BY <1>6 DEF SendFails, BudgetInv, Phases, writerVars
  <2>2. writer \in {"discard", "err"}
    BY <2>1, LeftBehind DEF Leaving
  <2>3. QED BY <2>1, <2>2
<1>7. CASE JoinOk
  BY <1>7 DEF JoinOk
<1>8. ASSUME NEW w \in Workers, WorkerSendFails(w) PROVE NothingLost'
  <2>1. writer \in {"discard", "err"} /\ UNCHANGED writer
    BY <1>8 DEF WorkerSendFails, OutRxGone, Leaving, JobRxGone, writerVars
  <2>2. QED BY <2>1
<1>9. CASE DiscardJob
  <2>1. owner = "pipeline"
    BY <1>9 DEF DiscardJob, BudgetInv, Phases
  <2>2. writer \in {"discard", "err"} /\ UNCHANGED writer
    BY <1>9, <2>1, LeftBehind DEF DiscardJob, writerVars
  <2>3. QED BY <2>2
<1>10. CASE WriterDrained \/ WriterClosed
  <2>1. /\ UNCHANGED <<jobs, jobQ, outQ, pending, wjob, wpc, nextSeq, prod>>
        /\ writer \in {"recv", "drain"}
    BY <1>10 DEF WriterDrained, WriterClosed, prodVars, workerVars
  <2>2. QED BY <1>1, <2>1, LiveStays
<1>11. CASE WriterRecvErr \/ WriteFails \/ UnwindPending \/ DropOutRx \/ DiscardOut
            \/ WriterReturnsErr
  BY <1>11 DEF WriterRecvErr, WriteFails, UnwindPending, DropOutRx, DiscardOut,
     WriterReturnsErr
<1>12. CASE WriteCluster
  <2>1. /\ writer = "drain" /\ pending' = pending \ {nextSeq}
        /\ nextSeq' = nextSeq + 1
        /\ UNCHANGED <<jobs, jobQ, outQ, wpc, wjob>>
        /\ prod = "send" => prod' = "send"
    BY <1>12 DEF WriteCluster, Release, workerVars
  <2>2. Working' = Working
    BY <2>1 DEF Working
  <2>3. Live \ {nextSeq} \subseteq Live'
    BY <2>1, <2>2 DEF Live
  <2>4. nextSeq \in Nat /\ Len(jobs) \in Nat
    BY LogTypes
  <2>5. (nextSeq + 1) .. Len(jobs) \subseteq (nextSeq .. Len(jobs)) \ {nextSeq}
    BY <2>4
  <2>6. QED BY <2>1, <2>3, <2>5
<1>13. QED
  BY <1>2, <1>3, <1>4, <1>5, <1>6, <1>7, <1>8, <1>9, <1>10, <1>11, <1>12
  DEF Next, ProducerCall, ProducerStep, WorkerStep, WriterStep, Quiescent

----------------------------------------------------------------------------
(* The order of the file *)

\* Before the join, everything that was submitted has been written.
LEMMA AllWritten ==
  ASSUME BudgetInv, LogInv, JoinOk
  PROVE  Len(offsets) = Len(jobs)
<1>1. /\ writer = "ok" /\ JobRxGone /\ jobQ = << >> /\ outQ = << >> /\ pending = {}
      /\ prod # "send"
  BY DEF JoinOk, AllJoined, BudgetInv, Phases
<1>2. Live = {}
  BY <1>1, EmptyChannel DEF Live, Working, JobRxGone
<1>3. nextSeq .. Len(jobs) = {}
  BY <1>1, <1>2 DEF LogInv, NothingLost
<1>4. /\ nextSeq \in Nat /\ Len(jobs) \in Nat
      /\ Len(offsets) = nextSeq - 1 /\ Len(offsets) <= Len(jobs)
  BY LogTypes DEF LogInv, WrittenInv
<1>5. ~(nextSeq <= Len(jobs))
  BY <1>3, <1>4
<1>6. QED BY <1>4, <1>5

\* Every step keeps the account of slots: each is with one owner on its way to the file.
LEMMA SlotsNext ==
  ASSUME BudgetInv, LogInv, [Next]_vars
  PROVE  SlotsInv'
<1> USE DEF LogInv
<1>1. CASE ReserveStreamed
  BY <1>1, SlotsReserved
<1>2. ASSUME NEW b \in Sizes,
             SendCluster(b) \/ StartPipeline(b) \/ StartPipelinePanics(b)
      PROVE  SlotsInv'
  <2>1. /\ b \in Nat /\ AllocateSlot(b)
        /\ prod' \in {"acquire", "panicked"}
        /\ prod' = "panicked" => owner' = "lost"
        /\ owner = "lost" => owner' = "lost"
        /\ UNCHANGED <<streamed, jobs, file_pos, file>>
    BY <1>2, SizesAssumption DEF SendCluster, StartPipeline, StartPipelinePanics,
       writerVars
  <2>2. QED BY <2>1, SlotsAllocated
<1>3. CASE Acquire
  BY <1>3, SlotsAcquired
<1>4. CASE JoinOk
  BY <1>4, AllWritten, SlotsJoined
<1>5. CASE WriteCluster
  <2>1. /\ UNCHANGED <<cluster_offsets, streamed, jobs, file_pos, want, owner>>
        /\ file' = Append(file, jobs[nextSeq].idx)
        /\ prod' \in {"acquire", "wait"} <=> prod \in {"acquire", "wait"}
        /\ prod' = "panicked" => prod = "panicked"
    BY <1>5 DEF WriteCluster, Release
  <2>2. /\ file \in Seq(Nat) /\ Len(file) \in Nat /\ Len(offsets) \in Nat
        /\ file_pos \in Nat
    BY LogTypes
  <2>3. Len(file) = file_pos - 1 + Len(offsets)
    BY DEF WrittenInv
  <2>4. jobs[nextSeq].idx \in Nat
    <3>1. nextSeq \in Live
      BY <1>5 DEF WriteCluster, Live
    <3>2. QED BY <3>1, LiveJob DEF Job
  <2>5. \A p \in 1 .. (file_pos - 1) : p \in 1 .. Len(file)
    BY <2>2, <2>3
  <2>6. \A p \in 1 .. (file_pos - 1) : file'[p] = file[p]
    BY <2>1, <2>2, <2>4, <2>5, AppendProperties
  <2>7. QED BY <2>1, <2>6, SlotsKept
<1>6. ASSUME UNCHANGED <<cluster_offsets, streamed, jobs, file_pos, want, file>>,
             (prod' \in {"acquire", "wait"}) <=> (prod \in {"acquire", "wait"}),
             prod' = "panicked" => prod = "panicked",
             owner' \in {owner, "lost"}
      PROVE  SlotsInv'
  BY <1>6, SlotsKept
<1>7. CASE AcquireWait \/ Shutdown \/ DropStreamer \/ JoinErr \/ SendOk \/ SendFails
           \/ UNCHANGED vars
  BY <1>6, <1>7 DEF AcquireWait, Shutdown, DropStreamer, CloseJobs, JoinErr,
     AfterJoin, SendOk, SendFails, vars, prodVars, writerVars
<1>8. CASE DiscardJob \/ \E w \in Workers : WorkerStep(w)
  BY <1>6, <1>8 DEF DiscardJob, WorkerStep, WorkerRecv, Encode, WorkerSend,
     WorkerSendFails, WorkerExit, Release, prodVars, writerVars
<1>9. CASE \/ WriterRecv \/ WriterRecvErr \/ WriteFails \/ WriterDrained \/ WriterClosed
           \/ UnwindPending \/ DropOutRx \/ DiscardOut \/ WriterReturnsErr
  BY <1>6, <1>9 DEF WriterRecv, WriterRecvErr, WriteFails, WriterDrained,
     WriterClosed, UnwindPending, DropOutRx, DiscardOut, WriterReturnsErr,
     Release, prodVars
<1>10. QED
  BY <1>1, <1>2, <1>3, <1>4, <1>5, <1>7, <1>8, <1>9
  DEF Next, ProducerCall, ProducerStep, WriterStep, Quiescent

\* Every step keeps the file a prefix of what was submitted, in that order.
LEMMA WrittenNext ==
  ASSUME BudgetInv, WrittenInv, [Next]_vars
  PROVE  WrittenInv'
<1>1. CASE Acquire
  BY <1>1, WrittenAcquired
<1>2. CASE JoinOk
  BY <1>2, WrittenJoined
<1>3. CASE WriteCluster
  BY <1>3, WrittenWritten
<1>4. ASSUME UNCHANGED <<offsets, nextSeq, jobs, file, file_pos>>,
             owner' \in {owner, "pipeline", "lost"}
      PROVE  WrittenInv'
  BY <1>4, WrittenKept
<1>5. CASE \/ ReserveStreamed \/ AcquireWait \/ Shutdown \/ DropStreamer
           \/ JoinErr \/ SendOk \/ SendFails \/ UNCHANGED vars
           \/ \E b \in Sizes : SendCluster(b) \/ StartPipeline(b) \/ StartPipelinePanics(b)
  BY <1>4, <1>5 DEF ReserveStreamed, AcquireWait, Shutdown, DropStreamer,
     CloseJobs, JoinErr, SendOk, SendFails, SendCluster, StartPipeline,
     StartPipelinePanics, vars, prodVars, writerVars
<1>6. CASE DiscardJob \/ \E w \in Workers : WorkerStep(w)
  BY <1>4, <1>6 DEF DiscardJob, WorkerStep, WorkerRecv, Encode, WorkerSend,
     WorkerSendFails, WorkerExit, prodVars, writerVars
<1>7. CASE \/ WriterRecv \/ WriterRecvErr \/ WriteFails \/ WriterDrained \/ WriterClosed
           \/ UnwindPending \/ DropOutRx \/ DiscardOut \/ WriterReturnsErr
  BY <1>4, <1>7 DEF WriterRecv, WriterRecvErr, WriteFails, WriterDrained,
     WriterClosed, UnwindPending, DropOutRx, DiscardOut, WriterReturnsErr, prodVars
<1>8. QED
  BY <1>1, <1>2, <1>3, <1>5, <1>6, <1>7
  DEF Next, ProducerCall, ProducerStep, WriterStep, Quiescent

\* Before the first call there is no slot, no job and no file content.
LEMMA LogInit == Init => LogInv
<1> SUFFICES ASSUME Init PROVE LogInv
  OBVIOUS
<1>1. /\ cluster_offsets = << >> /\ jobs = << >> /\ offsets = << >> /\ file = << >>
      /\ Len(<< >>) = 0 /\ DOMAIN << >> = {} /\ streamed = {} /\ prod = "idle"
      /\ file_pos = 1 /\ nextSeq = 1 /\ owner = "streamer" /\ writer = "none"
  BY DEF Init
<1>2. Piped = {} /\ Sealed = {} /\ Submitted = {} /\ Entering = {}
  BY <1>1 DEF Piped, Sealed, Submitted, Entering
<1>3. SlotsInv
  BY <1>1, <1>2, BoundsAssumption DEF SlotsInv
<1>4. WrittenInv
  BY <1>1 DEF WrittenInv
<1>5. Leaving /\ NothingLost
  BY <1>1 DEF Leaving, NothingLost
<1>6. QED BY <1>3, <1>4, <1>5 DEF LogInv

\* The inductive invariant of the order: where every slot is, that the writer
\* has written the jobs before nextSeq one after another, and that no job is
\* lost while the writer lives.
THEOREM LogInvariance == Spec => []LogInv
<1>1. BudgetInv /\ LogInv /\ [Next]_vars => LogInv'
  BY SlotsNext, WrittenNext, LeavingNext, NothingLostNext DEF LogInv
<1>2. QED BY <1>1, LogInit, BudgetInvariance, PTL DEF Spec

\* When the File is back in the Streamer, every slot that went through the
\* pipeline has the position of its own cluster, in submission order.
THEOREM SealedIsComplete == Spec => []SealedComplete
<1>1. BudgetInv /\ LogInv => SealedComplete
  <2>1. SUFFICES ASSUME BudgetInv, LogInv, owner = "streamer"
                 PROVE  /\ file_pos = Len(file) + 1
                        /\ \A i \in Piped : /\ cluster_offsets[i] \in DOMAIN file
                                            /\ file[cluster_offsets[i]] = i
                        /\ \A i, j \in Piped : i < j =>
                             cluster_offsets[i] < cluster_offsets[j]
    BY DEF SealedComplete, Piped
  <2>2. jobs = << >> /\ Len(jobs) = 0 /\ DOMAIN jobs = {}
    BY <2>1 DEF LogInv, WrittenInv
  <2>3. Submitted = {} /\ Entering = {}
    BY <2>1, <2>2 DEF Submitted, Entering, BudgetInv, Phases
  <2>4. Piped \subseteq Sealed
    BY <2>1, <2>3 DEF LogInv, SlotsInv
  <2>5. /\ Len(file) \in Nat /\ DOMAIN file = 1 .. Len(file)
        /\ file_pos \in Nat \ {0} /\ Len(offsets) \in Nat
    BY <2>1, LogTypes
  <2>6. Len(offsets) <= 0 /\ Len(file) = file_pos - 1 + Len(offsets)
    BY <2>1, <2>2 DEF LogInv, WrittenInv
  <2>7. file_pos = Len(file) + 1 /\ 1 .. (file_pos - 1) = DOMAIN file
    BY <2>5, <2>6
  <2>8. \A i \in Sealed : /\ cluster_offsets[i] \in 1 .. (file_pos - 1)
                          /\ file[cluster_offsets[i]] = i
    BY <2>1 DEF LogInv, SlotsInv
  <2>9. \A i, j \in Sealed : i < j => cluster_offsets[i] < cluster_offsets[j]
    BY <2>1 DEF LogInv, SlotsInv
  <2>10. QED BY <2>4, <2>7, <2>8, <2>9
<1>2. QED BY <1>1, BudgetInvariance, LogInvariance, PTL

----------------------------------------------------------------------------
(* The clusters accepted after the writer has failed *)

\* The workers that have a job or have left.
LEMMA EngagedSize ==
  /\ IsFiniteSet(Engaged) /\ Cardinality(Engaged) \in Nat
  /\ Cardinality(Workers) \in Nat /\ Cardinality(Engaged) <= Cardinality(Workers)
<1>1. Engaged \subseteq Workers
  BY DEF Engaged
<1>2. IsFiniteSet(Engaged) /\ Cardinality(Engaged) <= Cardinality(Workers)
  BY <1>1, WorkersAssumption, FS_Subset
<1>3. QED BY <1>2, WorkersAssumption, FS_CardinalityType

\* A worker that takes a job after the writer has failed never takes another.
LEMMA EngagedGrows ==
  ASSUME BudgetInv, NEW w \in Workers, wpc[w] = "recv", NEW st, st # "recv",
         wpc' = [wpc EXCEPT ![w] = st]
  PROVE  Cardinality(Engaged') = Cardinality(Engaged) + 1
<1>1. Engaged' = Engaged \cup {w} /\ w \notin Engaged
  BY DEF Engaged, BudgetInv, TypeOK
<1>2. QED BY <1>1, EngagedSize, FS_AddElement

\* A worker that goes from one busy state to another stays engaged.
LEMMA EngagedKept ==
  ASSUME BudgetInv, NEW w \in Workers, wpc[w] # "recv", NEW st, st # "recv",
         wpc' = [wpc EXCEPT ![w] = st]
  PROVE  Engaged' = Engaged
BY DEF Engaged, BudgetInv, TypeOK

\* The bound, from the invariant.
LEMMA LateBound ==
  ASSUME BudgetInv, LateInv
  PROVE  FailureReportedSoon
<1>1. Len(jobQ) \in Nat /\ ChannelCap \in Nat /\ Len(jobQ) <= ChannelCap /\ late \in Nat
  BY LenProperties, EngagedSize DEF ChannelCap, BudgetInv, TypeOK
<1>2. CASE late <= Len(jobQ) + Cardinality(Engaged)
  BY <1>1, <1>2, EngagedSize DEF FailureReportedSoon
<1>3. QED BY <1>2 DEF LateInv

\* Every step keeps the bound on what is accepted after the failure: a job is
\* accepted late only if a place in the queue or a worker takes it.
LEMMA LateNext ==
  ASSUME BudgetInv, LogInv, LateInv, [Next]_vars
  PROVE  LateInv'
<1>1. /\ jobQ \in Seq(Nat) /\ Len(jobQ) \in Nat /\ late \in Nat
      /\ Cardinality(Engaged) \in Nat
  BY LenProperties, EngagedSize DEF BudgetInv, TypeOK
<1>2. ASSUME UNCHANGED <<late, jobQ, wpc>>,
             (OutRxGone /\ writer # "ok") => (OutRxGone /\ writer # "ok")'
      PROVE  LateInv'
  <2>1. Engaged' = Engaged
    BY <1>2 DEF Engaged
  <2>2. QED BY <1>2, <2>1 DEF LateInv, JobRxGone, FailureReportedSoon
<1>3. CASE \/ ReserveStreamed \/ AcquireWait \/ Acquire \/ Shutdown \/ DropStreamer
           \/ JoinErr \/ SendFails \/ UNCHANGED vars
           \/ \E b \in Sizes : SendCluster(b) \/ StartPipelinePanics(b)
  BY <1>2, <1>3 DEF ReserveStreamed, AcquireWait, Acquire, Shutdown, DropStreamer,
     CloseJobs, JoinErr, SendFails, SendCluster, StartPipelinePanics, vars,
     prodVars, workerVars, writerVars, OutRxGone
<1>4. CASE \/ WriterRecv \/ WriterRecvErr \/ WriteCluster \/ WriteFails
           \/ WriterDrained \/ WriterClosed \/ UnwindPending \/ DropOutRx
           \/ DiscardOut \/ WriterReturnsErr
  BY <1>2, <1>4 DEF WriterRecv, WriterRecvErr, WriteCluster, WriteFails,
     WriterDrained, WriterClosed, UnwindPending, DropOutRx, DiscardOut,
     WriterReturnsErr, prodVars, workerVars, OutRxGone
<1>5. ASSUME NEW b \in Sizes, StartPipeline(b) PROVE LateInv'
  <2>1. writer = "none" /\ late' = late /\ jobQ' = jobQ
    BY <1>5 DEF StartPipeline, BudgetInv, Phases
  <2>2. late = 0
    BY <2>1 DEF LateInv, OutRxGone
  <2>3. Cardinality(Engaged') \in Nat
    <3>1. Engaged' \subseteq Workers
      BY DEF Engaged
    <3>2. QED BY <3>1, WorkersAssumption, FS_Subset, FS_CardinalityType
  <2>4. QED BY <1>1, <2>1, <2>2, <2>3 DEF LateInv
<1>6. CASE JoinOk
  <2>1. writer = "ok" /\ UNCHANGED <<late, jobQ, wpc>>
    BY <1>6 DEF JoinOk
  <2>2. QED BY <1>2, <2>1
<1>7. CASE SendOk
  <2>1. /\ ~JobRxGone /\ jobQ' = Append(jobQ, Len(jobs)) /\ wpc' = wpc
        /\ late' = late + IF OutRxGone THEN 1 ELSE 0
        /\ writer' = writer
    BY <1>7 DEF SendOk, workerVars, writerVars
  <2>2. Len(jobQ') = Len(jobQ) + 1
    BY <1>1, <2>1, LogTypes, AppendProperties
  <2>3. Engaged' = Engaged
    BY <2>1 DEF Engaged
  <2>4. writer # "ok"
    BY <2>1 DEF LogInv, Leaving
  <2>5. late <= Len(jobQ) + Cardinality(Engaged)
    BY <2>1 DEF LateInv
  <2>6. late' <= Len(jobQ') + Cardinality(Engaged')
    BY <1>1, <2>1, <2>2, <2>3, <2>5
  <2>7. ~OutRxGone => late' = 0
    BY <2>1 DEF LateInv
  <2>8. QED BY <2>1, <2>4, <2>6, <2>7 DEF LateInv, OutRxGone
<1>8. ASSUME NEW w \in Workers, WorkerRecv(w) PROVE LateInv'
  <2>1. /\ wpc[w] = "recv" /\ jobQ # << >> /\ jobQ' = Tail(jobQ)
        /\ wpc' = [wpc EXCEPT ![w] = "encode"] /\ UNCHANGED <<late, writer>>
    BY <1>8 DEF WorkerRecv, writerVars
  <2>2. Len(jobQ') = Len(jobQ) - 1
    BY <2>1, TakeHead DEF BudgetInv, TypeOK, Placement
  <2>3. Cardinality(Engaged') = Cardinality(Engaged) + 1
    BY <2>1, EngagedGrows
  <2>4. late <= Len(jobQ) + Cardinality(Engaged)
    BY <2>1 DEF LateInv, JobRxGone
  <2>5. late' <= Len(jobQ') + Cardinality(Engaged')
    BY <1>1, <2>1, <2>2, <2>3, <2>4
  <2>6. QED BY <2>1, <2>5 DEF LateInv, OutRxGone
<1>9. ASSUME NEW w \in Workers, Encode(w) \/ WorkerSendFails(w) PROVE LateInv'
  <2>1. /\ wpc[w] \in {"encode", "send"} /\ ~JobRxGone
        /\ UNCHANGED <<late, writer, jobQ>>
        /\ \E st \in {"send", "exit"} : wpc' = [wpc EXCEPT ![w] = st]
    BY <1>9 DEF Encode, WorkerSendFails, JobRxGone, writerVars
  <2>2. Engaged' = Engaged
    BY <2>1, EngagedKept
  <2>3. late' <= Len(jobQ') + Cardinality(Engaged')
    BY <2>1, <2>2 DEF LateInv
  <2>4. QED BY <2>1, <2>3 DEF LateInv, OutRxGone
<1>10. ASSUME NEW w \in Workers, WorkerSend(w) PROVE LateInv'
  <2>1. /\ ~OutRxGone /\ UNCHANGED <<late, writer, jobQ>>
    BY <1>10 DEF WorkerSend, writerVars
  <2>2. late' = 0
    BY <2>1 DEF LateInv
  <2>3. Cardinality(Engaged') \in Nat
    <3>1. Engaged' \subseteq Workers
      BY DEF Engaged
    <3>2. QED BY <3>1, WorkersAssumption, FS_Subset, FS_CardinalityType
  <2>4. QED BY <1>1, <2>1, <2>2, <2>3 DEF LateInv
<1>11. ASSUME NEW w \in Workers, WorkerExit(w) PROVE LateInv'
  <2>1. /\ wpc[w] = "recv" /\ ~JobRxGone /\ UNCHANGED <<late, writer, jobQ>>
        /\ wpc' = [wpc EXCEPT ![w] = "exit"]
    BY <1>11 DEF WorkerExit, JobRxGone, writerVars
  <2>2. Cardinality(Engaged') = Cardinality(Engaged) + 1
    BY <2>1, EngagedGrows
  <2>3. late <= Len(jobQ) + Cardinality(Engaged)
    BY <2>1 DEF LateInv
  <2>4. late' <= Len(jobQ') + Cardinality(Engaged')
    BY <1>1, <2>1, <2>2, <2>3
  <2>5. QED BY <2>1, <2>4 DEF LateInv, OutRxGone
<1>12. CASE DiscardJob
  <2>1. JobRxGone /\ UNCHANGED <<late, writer, wpc>>
    BY <1>12 DEF DiscardJob, workerVars, writerVars
  <2>2. FailureReportedSoon
    BY LateBound
  <2>3. QED BY <2>1, <2>2 DEF LateInv, OutRxGone, JobRxGone, FailureReportedSoon
<1>13. QED
  BY <1>3, <1>4, <1>5, <1>6, <1>7, <1>8, <1>9, <1>10, <1>11, <1>12
  DEF Next, ProducerCall, ProducerStep, WorkerStep, WriterStep, Quiescent

\* A dead writer is reported after at most one more cluster per worker and one
\* more channel-full of clusters.
THEOREM FailureIsReportedSoon == Spec => []FailureReportedSoon
<1>1. Init => LateInv
  <2>1. SUFFICES ASSUME Init PROVE LateInv
    OBVIOUS
  <2>2. late = 0 /\ jobQ = << >> /\ Len(<< >>) = 0
    BY <2>1 DEF Init
  <2>3. QED BY <2>2, EngagedSize DEF LateInv
<1>2. BudgetInv /\ LogInv /\ LateInv /\ [Next]_vars => LateInv'
  BY LateNext
<1>3. Spec => []LateInv
  BY <1>1, <1>2, BudgetInvariance, LogInvariance, PTL DEF Spec
<1>4. BudgetInv /\ LateInv => FailureReportedSoon
  BY LateBound
<1>5. QED BY <1>3, <1>4, BudgetInvariance, PTL

----------------------------------------------------------------------------
(* The pipeline implements the log *)

\* The clusters of the jobs, in submission order.
JobClusters == [s \in DOMAIN jobs |-> jobs[s].idx]

\* What the log holds: the sealed part of the file, then the jobs.
LEMMA AcceptedAt ==
  ASSUME BudgetInv, WrittenInv
  PROVE  /\ SubSeq(file, 1, file_pos - 1) \in Seq(Nat)
         /\ Len(SubSeq(file, 1, file_pos - 1)) = file_pos - 1
         /\ \A p \in 1 .. (file_pos - 1) : SubSeq(file, 1, file_pos - 1)[p] = file[p]
         /\ JobClusters \in Seq(Nat) /\ Len(JobClusters) = Len(jobs)
         /\ Accepted \in Seq(Nat) /\ Len(Accepted) = file_pos - 1 + Len(jobs)
         /\ \A p \in 1 .. (file_pos - 1) : Accepted[p] = file[p]
         /\ \A s \in 1 .. Len(jobs) : Accepted[file_pos - 1 + s] = jobs[s].idx
<1> DEFINE b == file_pos - 1
           S == SubSeq(file, 1, b)
<1>1. /\ file \in Seq(Nat) /\ Len(file) \in Nat /\ DOMAIN file = 1 .. Len(file)
      /\ b \in Nat /\ Len(jobs) \in Nat /\ DOMAIN jobs = 1 .. Len(jobs)
      /\ Len(offsets) \in Nat
  BY LogTypes
<1>2. b <= Len(file)
  BY <1>1 DEF WrittenInv
<1>3. /\ S \in Seq(Nat) /\ Len(S) = b /\ \A p \in 1 .. b : S[p] = file[p]
  <2>1. S = [p \in 1 .. b |-> file[p]]
    BY <1>1, <1>2
  <2>2. \A p \in 1 .. b : file[p] \in Nat
    BY <1>1, <1>2, ElementOfSeq
  <2>3. QED BY <1>1, <2>1, <2>2
<1>4. JobClusters \in Seq(Nat) /\ Len(JobClusters) = Len(jobs)
      /\ \A s \in 1 .. Len(jobs) : JobClusters[s] = jobs[s].idx
  BY <1>1, LogTypes DEF JobClusters
<1>5. Accepted = S \o JobClusters
  BY DEF Accepted, JobClusters
<1> HIDE DEF S, b
<1>6. /\ Accepted \in Seq(Nat) /\ Len(Accepted) = b + Len(jobs)
      /\ \A p \in 1 .. b : Accepted[p] = S[p]
      /\ \A s \in 1 .. Len(jobs) : Accepted[b + s] = JobClusters[s]
  <2>1. Accepted \in Seq(Nat) /\ Len(Accepted) = b + Len(jobs)
    <3>1. S \o JobClusters \in Seq(Nat)
      BY <1>3, <1>4, ConcatProperties
    <3>2. Len(S \o JobClusters) = Len(S) + Len(JobClusters)
      BY <1>3, <1>4, ConcatProperties
    <3>3. QED BY <1>3, <1>4, <1>5, <3>1, <3>2
  <2>2. \A p \in 1 .. (b + Len(jobs)) :
          Accepted[p] = IF p <= b THEN S[p] ELSE JobClusters[p - b]
    BY <1>3, <1>4, <1>5, ConcatProperties
  <2>3. \A p \in 1 .. b : p \in 1 .. (b + Len(jobs)) /\ p <= b
    BY <1>1
  <2>4. \A s \in 1 .. Len(jobs) : /\ b + s \in 1 .. (b + Len(jobs))
                                  /\ ~(b + s <= b) /\ (b + s) - b = s
    BY <1>1
  <2>5. QED BY <2>1, <2>2, <2>3, <2>4
<1>7. QED BY <1>3, <1>4, <1>6 DEF b, S

\* acquire appends the cluster to the log.
LEMMA LogAccepts ==
  ASSUME BudgetInv, LogInv, Acquire
  PROVE  Log!Accept
<1>1. /\ jobs \in Seq(Job) /\ Len(jobs) \in Nat /\ DOMAIN jobs = 1 .. Len(jobs)
      /\ want \in Job /\ want.idx \in Nat
  BY LogTypes DEF Job
<1>2. /\ prod = "acquire" /\ owner = "pipeline" /\ jobs' = Append(jobs, want)
      /\ UNCHANGED <<file, file_pos, owner, writer>>
  BY DEF Acquire, BudgetInv, Phases, writerVars
<1>3. /\ Len(jobs') = Len(jobs) + 1 /\ DOMAIN jobs' = 1 .. (Len(jobs) + 1)
      /\ \A s \in 1 .. Len(jobs) : jobs'[s] = jobs[s]
      /\ jobs'[Len(jobs) + 1] = want
  BY <1>1, <1>2, AppendProperties
<1>4. JobClusters \in Seq(Nat) /\ Len(JobClusters) = Len(jobs)
      /\ SubSeq(file, 1, file_pos - 1) \in Seq(Nat)
  BY AcceptedAt DEF LogInv
<1>5. JobClusters' = Append(JobClusters, want.idx)
  <2>1. Append(JobClusters, want.idx)
          = [s \in 1 .. (Len(jobs) + 1) |->
               IF s = Len(jobs) + 1 THEN want.idx ELSE JobClusters[s]]
    BY <1>1, <1>4
  <2>2. \A s \in 1 .. (Len(jobs) + 1) :
          jobs'[s].idx = IF s = Len(jobs) + 1 THEN want.idx ELSE JobClusters[s]
    BY <1>1, <1>3 DEF JobClusters
  <2>3. QED BY <1>3, <2>1, <2>2 DEF JobClusters
<1>6. Accepted' = Append(Accepted, want.idx)
  <2> DEFINE front == SubSeq(file, 1, file_pos - 1)
             c == want.idx
  <2>1. Accepted' = front \o Append(JobClusters, c)
    BY <1>2, <1>5 DEF Accepted, JobClusters
  <2>2. Accepted = front \o JobClusters
    BY DEF Accepted, JobClusters
  <2>3. front \in Seq(Nat) /\ JobClusters \in Seq(Nat) /\ c \in Nat
    BY <1>1, <1>4
  <2> HIDE DEF front, c
  <2>4. front \o Append(JobClusters, c) = Append(front \o JobClusters, c)
    BY <2>3, ConcatAppend
  <2>5. Accepted' = Append(Accepted, c)
    BY <2>1, <2>2, <2>4
  <2>6. QED BY <2>5 DEF c
<1>7. Phase' = Phase /\ Phase \in {"open", "failed"}
  BY <1>2 DEF Phase
<1>8. want.idx \in 1 .. MaxClusters
  <2>1. want.idx \in Entering
    BY <1>2 DEF Entering
  <2>2. want.idx \in DOMAIN cluster_offsets /\ Len(cluster_offsets) <= MaxClusters
    BY <2>1 DEF LogInv, SlotsInv, Piped
  <2>3. QED BY <2>2, LogTypes, BoundsAssumption
<1>9. QED BY <1>2, <1>6, <1>7, <1>8 DEF Log!Accept

\* The writer appends the next cluster of the log.
LEMMA LogPersists ==
  ASSUME BudgetInv, LogInv, WriteCluster
  PROVE  Log!Persist
<1>1. /\ Len(jobs) \in Nat /\ file \in Seq(Nat) /\ Len(file) \in Nat
      /\ file_pos \in Nat \ {0} /\ nextSeq \in Nat \ {0}
  BY LogTypes
<1>2. /\ nextSeq \in pending /\ writer = "drain"
      /\ file' = Append(file, jobs[nextSeq].idx)
      /\ UNCHANGED <<jobs, file_pos, owner, writer>>
  BY DEF WriteCluster
<1>3. nextSeq \in 1 .. Len(jobs) /\ jobs[nextSeq].idx \in Nat
  <2>1. nextSeq \in Live
    BY <1>2 DEF Live
  <2>2. QED BY <2>1, LiveJob DEF Job
<1>4. Len(file) = file_pos - 1 + (nextSeq - 1)
  BY DEF LogInv, WrittenInv
<1>5. Len(Accepted) = file_pos - 1 + Len(jobs)
      /\ Accepted[file_pos - 1 + nextSeq] = jobs[nextSeq].idx
  BY <1>3, AcceptedAt DEF LogInv
<1>6. /\ Len(file) < Len(Accepted)
      /\ file' = Append(file, Accepted[Len(file) + 1])
  <2>1. Len(file) + 1 = file_pos - 1 + nextSeq
    BY <1>1, <1>4
  <2>2. QED BY <1>1, <1>2, <1>3, <1>4, <1>5, <2>1
<1>7. Accepted' = Accepted
  <2>1. SubSeq(file', 1, file_pos - 1) = SubSeq(file, 1, file_pos - 1)
    <3>1. file_pos - 1 \in Nat /\ file_pos - 1 <= Len(file)
      BY <1>1, <1>4
    <3>2. QED BY <1>1, <1>2, <1>3, <3>1
  <2>2. QED BY <1>2, <2>1 DEF Accepted
<1>8. Phase = "open" /\ Phase' = Phase
  <2>1. owner # "streamer"
    BY <1>2 DEF BudgetInv, Phases
  <2>2. QED BY <1>2, <2>1 DEF Phase
<1>9. QED BY <1>6, <1>7, <1>8 DEF Log!Persist

\* The join seals the log.
LEMMA LogSeals ==
  ASSUME BudgetInv, LogInv, JoinOk
  PROVE  Log!Seal
<1>1. /\ Len(jobs) \in Nat /\ file \in Seq(Nat) /\ Len(file) \in Nat
      /\ file_pos \in Nat \ {0} /\ DOMAIN file = 1 .. Len(file)
  BY LogTypes
<1>2. /\ jobs' = << >> /\ file_pos' = file_pos + Len(offsets)
      /\ owner' = "streamer" /\ writer = "ok" /\ UNCHANGED file
      /\ owner = "pipeline"
  BY DEF JoinOk, BudgetInv, Phases
<1>3. Len(offsets) = Len(jobs)
  BY AllWritten
<1>4. Len(file) = file_pos - 1 + Len(jobs) /\ file_pos' - 1 = Len(file)
  <2>1. Len(file) = file_pos - 1 + Len(jobs)
    BY <1>3 DEF LogInv, WrittenInv
  <2>2. QED BY <1>1, <1>2, <1>3, <2>1
<1>5. \A s \in 1 .. Len(jobs) : file[file_pos - 1 + s] = jobs[s].idx
  <2>1. SUFFICES ASSUME NEW s \in 1 .. Len(jobs)
                 PROVE  file[file_pos - 1 + s] = jobs[s].idx
    OBVIOUS
  <2>2. file[file_pos + s - 1] = jobs[s].idx
    BY <1>3, WrittenAt, LogTypes DEF LogInv
  <2>3. file_pos + s - 1 = file_pos - 1 + s
    BY <1>1
  <2>4. QED BY <2>2, <2>3
<1>6. Accepted = file
  <2>1. Accepted \in Seq(Nat) /\ Len(Accepted) = Len(file)
    BY <1>4, AcceptedAt DEF LogInv
  <2>2. ASSUME NEW p \in 1 .. Len(file) PROVE Accepted[p] = file[p]
    <3>1. CASE p \in 1 .. (file_pos - 1)
      BY <3>1, AcceptedAt DEF LogInv
    <3>2. CASE p \notin 1 .. (file_pos - 1)
      <4>1. p - (file_pos - 1) \in 1 .. Len(jobs)
            /\ file_pos - 1 + (p - (file_pos - 1)) = p
        BY <1>1, <1>4, <3>2
      <4>2. Accepted[file_pos - 1 + (p - (file_pos - 1))]
              = jobs[p - (file_pos - 1)].idx
        BY <4>1, AcceptedAt DEF LogInv
      <4>3. file[file_pos - 1 + (p - (file_pos - 1))] = jobs[p - (file_pos - 1)].idx
        BY <1>5, <4>1
      <4>4. QED BY <4>1, <4>2, <4>3
    <3>3. QED BY <3>1, <3>2
  <2>3. QED BY <1>1, <2>1, <2>2, SeqEqual
<1>7. Accepted' = file
  <2>1. JobClusters' = << >>
    BY <1>2 DEF JobClusters
  <2>2. Accepted' = SubSeq(file, 1, Len(file)) \o << >>
    BY <1>2, <1>4, <2>1 DEF Accepted, JobClusters
  <2>3. SubSeq(file, 1, Len(file)) = file
    BY <1>1
  <2>4. QED BY <1>1, <2>2, <2>3
<1>8. Phase = "open" /\ Phase' = "sealed"
  BY <1>2 DEF Phase
<1>9. QED BY <1>2, <1>6, <1>7, <1>8 DEF Log!Seal

\* The steps that the log does not see.
LEMMA LogStutters ==
  ASSUME UNCHANGED <<jobs, file, file_pos>>, Phase' = Phase
  PROVE  UNCHANGED <<Accepted, file, Phase>>
BY DEF Accepted

\* Every step of the pipeline is a step of the log or leaves the log alone.
LEMMA LogNext ==
  ASSUME BudgetInv, LogInv, [Next]_vars
  PROVE  Log!Next \/ UNCHANGED <<Accepted, file, Phase>>
<1>1. CASE Acquire
  BY <1>1, LogAccepts DEF Log!Next
<1>2. CASE WriteCluster
  BY <1>2, LogPersists DEF Log!Next
<1>3. CASE JoinOk
  BY <1>3, LogSeals DEF Log!Next
<1>4. ASSUME NEW b \in Sizes, StartPipeline(b)
      PROVE  Log!Next
  <2>1. /\ owner = "streamer" /\ owner' = "pipeline" /\ writer' = "recv"
        /\ UNCHANGED <<jobs, file, file_pos>>
    BY <1>4 DEF StartPipeline
  <2>2. Phase = "sealed" /\ Phase' = "open"
    BY <2>1 DEF Phase
  <2>3. UNCHANGED <<Accepted, file>>
    BY <2>1 DEF Accepted
  <2>4. Log!Reopen
    BY <2>2, <2>3 DEF Log!Reopen
  <2>5. QED BY <2>4 DEF Log!Next
<1>5. CASE WriterRecvErr \/ WriteFails \/ WriterClosed
  <2>1. /\ writer \in {"recv", "drain"} /\ writer' \in {"unwind", "ok"}
        /\ UNCHANGED <<jobs, file, file_pos, owner>>
    BY <1>5 DEF WriterRecvErr, WriteFails, WriterClosed, prodVars
  <2>2. owner # "streamer"
    BY <2>1 DEF BudgetInv, Phases
  <2>3. Phase = "open" /\ Phase' \in {"open", "failed"}
    BY <2>1, <2>2 DEF Phase
  <2>4. UNCHANGED <<Accepted, file>>
    BY <2>1 DEF Accepted
  <2>5. QED BY <2>3, <2>4 DEF Log!Next, Log!Fail
<1>6. ASSUME UNCHANGED <<jobs, file, file_pos, owner>>,
             \/ writer' = writer
             \/ writer \in {"recv", "drain"} /\ writer' \in {"recv", "drain"}
             \/ writer \in {"unwind", "discard"} /\ writer' \in {"discard", "err"}
      PROVE  UNCHANGED <<Accepted, file, Phase>>
  <2>1. Phase' = Phase
    BY <1>6 DEF Phase
  <2>2. QED BY <1>6, <2>1, LogStutters
<1>7. CASE JoinErr
  <2>1. /\ owner = "pipeline" /\ owner' = "lost" /\ writer = "err" /\ writer' = "err"
        /\ UNCHANGED <<jobs, file, file_pos>>
    BY <1>7 DEF JoinErr, writerVars, BudgetInv, Phases
  <2>2. Phase' = Phase
    BY <2>1 DEF Phase
  <2>3. QED BY <2>1, <2>2, LogStutters
<1>8. CASE \/ ReserveStreamed \/ AcquireWait \/ Shutdown \/ DropStreamer
           \/ SendOk \/ SendFails \/ UNCHANGED vars
           \/ \E b \in Sizes : SendCluster(b) \/ StartPipelinePanics(b)
  BY <1>6, <1>8 DEF ReserveStreamed, AcquireWait, Shutdown, DropStreamer,
     CloseJobs, SendOk, SendFails, SendCluster, StartPipelinePanics, vars,
     prodVars, writerVars
<1>9. CASE DiscardJob \/ \E w \in Workers : WorkerStep(w)
  BY <1>6, <1>9 DEF DiscardJob, WorkerStep, WorkerRecv, Encode, WorkerSend,
     WorkerSendFails, WorkerExit, prodVars, writerVars
<1>10. CASE \/ WriterRecv \/ WriterDrained \/ UnwindPending \/ DropOutRx
            \/ DiscardOut \/ WriterReturnsErr
  BY <1>6, <1>10 DEF WriterRecv, WriterDrained, UnwindPending, DropOutRx,
     DiscardOut, WriterReturnsErr, prodVars
<1>11. QED
  BY <1>1, <1>2, <1>3, <1>4, <1>5, <1>7, <1>8, <1>9, <1>10
  DEF Next, ProducerCall, ProducerStep, WriterStep, Quiescent

\* The pipeline implements the append-only log: clusters are accepted one at a
\* time, become durable one at a time in the order in which they were accepted,
\* a failure is permanent, and the File comes back only when everything that
\* was accepted is durable.
THEOREM PipelineImplementsLog == Spec => Log!SafeSpec
<1>1. Init => Log!Init
  <2>1. SUFFICES ASSUME Init PROVE Log!Init
    OBVIOUS
  <2>2. file = << >> /\ jobs = << >> /\ file_pos = 1 /\ owner = "streamer"
    BY <2>1 DEF Init
  <2>3. SubSeq(<< >>, 1, 0) = << >> /\ JobClusters = << >>
    BY <2>2 DEF JobClusters
  <2>4. Accepted = << >> \o << >>
    BY <2>2, <2>3 DEF Accepted, JobClusters
  <2>5. Accepted = << >> /\ Phase = "sealed"
    BY <2>2, <2>4 DEF Phase
  <2>6. QED BY <2>2, <2>5 DEF Log!Init
<1>2. BudgetInv /\ LogInv /\ [Next]_vars => [Log!Next]_(Log!logVars)
  BY LogNext DEF Log!logVars
<1>3. QED
  BY <1>1, <1>2, BudgetInvariance, LogInvariance, PTL DEF Spec, Log!SafeSpec
=============================================================================
