# Verification of zimru

zimru reads and writes ZIM archives: a Rust library (`src/archive.rs` for
reading, `src/writer.rs` for writing), a C ABI over it (`src/cffi/`) and
command-line tools (`src/bin/`). This directory holds TLA+ models of the parts
where the order of steps matters, TLC runs that check them on small instances,
and TLAPS proofs of their most important properties for every size.

Paths such as `src/writer.rs` are relative to the root of the repository.
`PROJECT.json` lists every run, the source lines behind every definition, the
hazards, and for every checked property a variant of the code (a `Mutant:`
definition in the module) that the property refutes.

## The system

    directory, archive             C program
           |                           |
    zimwriterfs, zimrecreate     zimru_creator_*
           |   \                       |
           |    index helper           |
           |    (a child per index)    |
           +-----------+---------------+
                       v
              Creator / Streamer --> encode pipeline --> output file
              (packing, chunked      (workers, writer      |
               items, finalize)       thread, budget)      |
                       |                                   v
                       +-- redirects, listing,        Archive (mmap)
                           file layout                     |
       +-----------+-----------+-----------+----------+----+------+
       path        title       redirects   cluster    extents,    zimsplit,
       lookup      lookup                  cache      blobs       zimdump

| component | state | operations | what is hard | what makes it correct |
|---|---|---|---|---|
| Creator and Streamer (`writer.rs`) | buffered items, redirects, metadata, key set; open buckets, cluster slots, dirents, MIME list, item in flight, scratch files | `add_*`, `start_writing`, `begin/chunk/end_chunked_item`, `finish_writing`, drop | a slot or blob number handed out before a failure; packing and streamed items interleave; threads end while `finish_writing` waits; a call refused half way | what was accepted can be read back; no placeholder offset survives; sizes are exact; scratch files are owned |
| Encode pipeline (`writer.rs`) | byte budget, two bounded channels, worker states, out-of-order map, file position | `send_cluster`, worker and writer loops, `shutdown_pipeline`, drop | completions out of order; encode and write failures; permits dropped in five places; channels full at both ends | budget exact; submission order in the file; every call returns |
| Redirects and listing of a build (`writer.rs`, finalize) | targets, marks, current walk | resolution, walk with eligibility marks, listing | shared chains, cycles entered anywhere, linear time | a cycle is refused exactly if there is one; the listing is exact |
| File layout and cluster extents (`writer.rs`, `header.rs`, `archive.rs`) | cluster pointers, tables, header, length of the file | the last writes of finalize; `open`, `cluster_slice_end`, `cluster_byte_range`, the checks | clusters land out of index order, tables lie between and after them; a kill between two writes; a file cut short | extents are disjoint and exact; an unfinished file is refused |
| Cluster bodies (`writer.rs`, `cluster.rs`) | offset table and blobs | `encode_cluster`, `Cluster::parse`, `blob_range`, `raw_blob_range`, `validate_raw_offsets` | the step from 32 to 64 bits; any bytes; two readers of one table | what was encoded reads back; the readers agree; nothing leaves its bounds |
| Cluster cache (`archive.rs`) | LRU map, byte account, budget, counters, a mutex | `load_cluster`, `set_cluster_cache_max_bytes` | lookup and insertion are two critical sections; oversized clusters | byte account exact; within budget; counters add up |
| Path lookup (`archive.rs`) | none but the search window | `entry_by_ns_path`, `namespace_range`, `entry_count_in_namespace`, `by_prefix`, `check_dirent_order` | boundaries of binary searches, equal keys, unsorted files | on what the check accepts, answers are exact |
| Title lookup (`archive.rs`) | the title listing | `entry_by_ns_title`, `title_prefix_range`, `check_title_index` | a listing may be partial, repeat or leave the directory | likewise, whether the listing is full or holds front articles only |
| Redirect following (`archive.rs`, `bin/zimcheck.rs`) | walk, hop counter, seen set, colours | `resolve`, `get_item`, `follow_loop`, `check_integrity` | loops, long chains, dangling targets, colours left behind | loops found exactly, in linear time, and in agreement with the writer |
| C API: creator (`cffi/creator.rs`) | a handle that is emptied by `write_to` and `finish_writing` | every `zimru_creator_*` call | calls after consumption; panics that cannot cross the border; what the answer says of the file | what the client was told is what is in the file |
| zimwriterfs, zimrecreate, index helper (`bin/`) | a temporary directory, a script of entries, children with two pipes and a thread each | `run`; `spawn`, `feed_*`, `finish`, drop | two processes that write to each other; any step fails with children running; kills | only a finished archive is published; nothing is left; indexes are complete; the run ends |
| zimdump dump (`bin/zimdump.rs`) | plan of collisions, directory tree, fallback table | three passes, the second one parallel | threads make directories under each other's files; links to what was moved | what was not reported is there, where the policy says; links lead |
| zimsplit (`bin/zimsplit.rs`) | plan, created paths, files | plan, look, create, copy, clean up | other programs at the same paths, failures, kills | parts are whole; nothing of others is touched |
| Archive summaries, C API: reader, format parsing, zimru, zimbench, other listings, zimcheck reports | none, or a `OnceLock` with a pure result | stateless loops and conversions | values | see "Not modelled" |

The Creator owns the Streamer and calls it on the client's thread; the Streamer
starts the pipeline with its first cluster and takes the file back when the
pipeline is shut down; chunked items above a threshold are compressed by one
thread each into a scratch file. The Archive is shared by any number of threads,
whose only mutable state in common is the cluster cache (the listing, the counts
and the sorted offsets are `OnceLock`s that always get the same value).

## Modules

Modules `MC*` only give TLC its instances; `Reader` puts five components side by
side, and modules `*Proofs` hold the theorems.

### ClusterLog, EncodePipeline (`src/writer.rs` 451-533, 1514-1722, 2254-2310)

`EncodePipeline` has one action per step of each thread: the producer
(`SendCluster`, `Acquire`/`AcquireWait`, `SendOk`/`SendFails`, the joins), the
workers (`WorkerRecv`, `Encode`, `WorkerSend`), the writer (`WriterRecv`,
`WriteCluster`, `WriteFails` and its unwinding). A permit lives in exactly one
place; dropping a channel drops what is queued, one permit at a time. Encode and
write failures may happen at every cluster, and the pipeline may be shut down or
dropped at any time. `finalize` and `drop` consume the Streamer, so that the
producer is done after either; only `send_cluster`, which shuts a pipeline down
whose writer is gone, returns to a client that may call again. A cluster is its
index and allocated size.

`ClusterLog` says what the pipeline is to the Streamer: a log that persists what
it accepted in the order in which it accepted it, until it fails, and is sealed
only when it is durable. `PipelineIsALog` checks the refinement (accepted: the
file up to the last seal, and the jobs since; durable: the file).

### StreamWriter (`src/writer.rs`, Creator, Streamer, finalize)

All public calls as actions, with the early returns and the order of their
checks: which state is changed before a call fails is what most properties are
about. `Flush` hands a bucket to the pipeline, which is abstracted to what
`EncodePipeline` shows: it lands what was sent in order, or fails and takes the
file along. A chunked item is routed by its size and compression: buffered,
raw scratch file, or streamed to an encoder thread (`tasks`). A thread and its
scratch file belong to the Streamer, whose drop joins it, until the drain takes
all of them (`Drain`, `DrainErr`), joins every one, and splices what they have
made; if the pipeline fails before that (`ShutdownFails`) they are left to the
drop (`Dropped`). A body is identified with its key, so "the right bytes" is "the right key in the right
blob"; lengths count where the code compares them. `Finalize` is the sequence
of finalize up to the tables.

### CreatorHandle (`src/cffi/creator.rs`)

`CreatorHandle` EXTENDS `StreamWriter`: each action is one `zimru_creator_*`
call, the call of the Creator in it and the answer. A call that the code runs on
the way out (`write_to`, `finish_writing`, `free`) takes the Creator out of the
handle first (`Running`). A panic of the
Creator ends the process (`Abort`); calls on a consumed handle answer false. A C
client cannot state an exact size, so its chunked items are all buffered and no
streaming-encode thread runs. `told`
and `warned` record what the client has heard.

### RedirectListing, RedirectFollow, RedirectArchive

`RedirectListing` (`src/writer.rs` 2480-2600) has steps 5 and 6 of finalize in
full: target lookup, the iterative walk with its chain and eligibility marks,
the listing. `RedirectFollow` (`src/archive.rs` 1487-1535, `src/bin/zimcheck.rs`
577-655, 1159-1180) has the three ways redirects are followed by readers: with a
limit of hops, with a set of what was seen, and with three colours over the whole
archive. Each turn of a loop is a step, and Init is any directory.
`RedirectArchive` composes them: what finalize has resolved is the graph that
readers follow, shifted to indices from 0; a directory that finalize refuses is
read too, as it may be another writer's.

### FileLayout (`src/writer.rs` 2602-2749, `src/header.rs`, `src/archive.rs`)

The writes after the last cluster in their order, with a kill between and within
any two of them (`Torn`, `CutShort` for a copy in part), and what a reader makes
of a header and cluster pointers: the sorted offsets, the boundary after a
cluster, its extent, the checks. A position stands for the bytes at it. Init is
the writer's placeholder or any header of another writer (`Claims`).

### ClusterBody (`src/cluster.rs`, `src/writer.rs` 2932-3045)

The offset table at the front of a cluster. `Encode` chooses the width as
`encode_cluster` does (streamed clusters take the same step), the reader's
operators do the arithmetic of `parse`, `blob_range` and `raw_blob_range` on any
table, with offsets truncated to their width.

### ClusterCache (`src/archive.rs` 40-125, 1204-1238)

Threads run `load_cluster` and `set_cluster_cache_max_bytes`. A critical section
of one step is one step; `evict_to_budget`, a loop under the lock, is one step
per eviction. Two threads may miss on the same cluster, parse it both, and put
it both. Lengths are arbitrary; parsing may fail.

### PathLookup, TitleLookup (`src/archive.rs`)

The searches as loops over a window, one turn a step, over any directory (and
any listing), sorted or not. Paths and titles are ranks in byte order; "starts
with p" is an interval of ranks that `PrefixEnd` gives, with 0xFF as the end of
it in `title_prefix_range`. What `check_dirent_order` or `valid_title_listing`
said of the file is a variable, so that "what was checked can be trusted" is an
invariant. Dirents that cannot be parsed are left out, indices out of the
directory are not.

`Reader` puts `PathLookup`, `TitleLookup`, `FileLayout`, `ClusterBody` and
`ClusterCache` side by side: they share no state, `part` says which of them a behaviour is of, and
the others stand still.

### IndexHelper, Packer (`src/bin/_index_helper.rs`, `zimwriterfs.rs`, `zimrecreate.rs`)

`IndexHelper` has the two pipes to each child as bounded queues, the child (which
may talk on its stderr whenever it has read, fail at any point, and leave its
pipes to a process of its own), the thread that drains its stderr, and the
parent's operations: probing by `try_wait`, writing, closing, killing, waiting,
joining. `Packer` EXTENDS it with `run` of both tools: from the check of the
destination to the rename, as a list of operations made from the entries, each of
which may fail; `?` is followed by the destructors in the order of the locals
(`Unwind`, `DropHelper`, `RemoveDir`). `remove_dir_all`, whose result the code
drops, may fail because a child still writes into the directory or by itself;
`stuck` remembers the latter. The child's program and its heirs are
external.

### ZimDump (`src/bin/zimdump.rs`)

Pass 1 plans collisions, pass 2 has threads that take clusters and write their
articles, pass 3 writes redirects as links. `fs` is the tree under `--dir`, with
a step for each directory that is made and for each rename; a path that turns out
to be taken falls back to `_exceptions/` (`fallback`), an error is logged
(`lost`). A path is a sequence of names.

### ZimSplit (`src/bin/zimsplit.rs`)

Several invocations with one prefix, other programs that create files, failures
of any file operation, kills. Byte i of the archive is the number i, so a part is
the sequence of the bytes copied into it, and "concatenating the parts gives the
archive" is stated as such.

## Runs

| run | question | bounds, and why they are enough |
|---|---|---|
| `pipeline_two_workers` | is the budget exact, are results landed in order, in every interleaving with every failure | two workers reorder; sizes below, at and above the limit; four clusters and a streamed slot: the slot lies before, between or behind what is reordered |
| `pipeline_live` | does every call return, is a dead writer noticed, does it implement `ClusterLog` | one worker, and more clusters than both channels hold |
| `pipeline_after_failure` | does the fallible API stay free of panics | violated, see findings; one worker and four clusters, of which one fails, one meets the dead writer, one is refused and one panics |
| `writer_items` | does any mix of plain, chunked and streamed items, pipeline errors, torn chunks and failing threads lose, swap, duplicate or miscount anything | three entries, two MIME types, lengths zero, small and above the target, a target of two: buckets open together, flush early and overflow, streamed slots come between them, chunks fit, fall short and overrun, and bodies have room for a torn chunk and its retry; builds with a failed `start_writing` are cut off here (`Started`) and left to the next two runs |
| `creator_handle` | is what a C client was told what is in the file; are entries that clients and finalize both may write refused in time; are aborts foretold | one path, one metadata name, the two reserved keys, room for two of three MIME types; every order of calls, on a live or a consumed handle |
| `writer_start_fails` | is buffered work intact after a failed `start_writing` | violated, see findings |
| `writer_torn_chunk` | does every body in the file have its declared size | violated, see findings |
| `redirects` | does the writer refuse exactly the cycles, in linear time; is the listing exact; do readers say what the graph is; do all five walks agree, and where not; do they end | all directories of four entries with a limit of two hops: a shared tail, a cycle with a tail, a self-loop, chains below, at and above the limit. `PageLast` leaves out the directories in which the main page's redirect is not the last entry: its key sorts behind all content |
| `reader` | lookups: are answers exact on what the checks accept; extents and blobs: is what was written what is read, and does nothing leave its bounds in any file; the cache: accounts and budget in every interleaving of loads and resizes | all directories of four entries in two namespaces: windows of even and odd length, equal keys, prefix and non-prefix paths; all listings of three indices: full, partial, repeated, out of range; all files of three clusters, headers and pointers up to position five; all bodies of up to four offsets where 32 bits stop at 5 and the decoder's limit is 11, so that one length more changes the width; three threads at a cache, clusters of 1 to 4 bytes with budgets of 0, 3 and 5: seven loads are enough for a race with evictions on both sides of it |
| `split` | is the plan sound and smallest; what competing invocations, failures and kills do | all sets of cluster offsets in four bytes, limits of one and three bytes, forced or not, at most three parts; two invocations and a stranger, a buffer smaller than a part |
| `dump` | is everything that was not reported in the dump; does the collision policy depend on scheduling; do links lead to where targets are | three entries among seven raw paths that collide (`a`, `a/b`, `a/b/c`, `b`), lose segments (`..`), have the name of the exceptions directory or the place in it that another would get; two clusters and two threads; a clean directory and one with directories of an earlier dump |
| `packer` | what is at the destination and left behind after any failure or kill; are indexes complete; does the run end | two entries of every kind, both tools, pipes with room for one document and one burst: the second write to either waits; a probe every second write |

Deadlock is checked except in `split`, `reader` and `dump`, where invocations
end; a client that stops calling is a step of its own in the other modules.

**Fairness.** `EncodePipeline`: each thread's next step, once possible, is taken;
`encode_cluster` and `write_all` return. Nothing obliges the client to call
again. `RedirectArchive`: a sequential loop goes on; no
reader is obliged to begin. `Packer`: the parent, the child and each drain thread
go on, and a process that holds the child's pipes exits at some time; without the
last, `RunEnds` does not hold of the code (`take_stderr` waits for the end of a
pipe that somebody else keeps open). For `ClusterCache` no liveness is claimed: a
`std::sync::Mutex` gives no fairness; nor for the lookups, the tools without
pipes and the layout, whose loops run over a window or a list that shrinks.

## Proofs

For any number of workers, clusters, entries, keys, threads, invocations and
children, any lengths, limits and capacities. Each safety invariant that a run
checks on a small instance is the property of a theorem, but for those named at
the end of this section.

* `EncodePipelineProofs`. `BudgetIsKept` and its parts: the counter is a number
  and the permits are in five places, so the inductive invariant `BudgetInv` adds
  `Placement` (each sequence is in one place only, which makes dropping it
  subtract it once) and `Phases` (which threads may still hold permits while the
  file is where it is: without it a sealed pipeline could have live ones). The bytes of
  the live permits are a set with one element per byte, and lemmas say how it
  grows and shrinks by one permit. `LogInvariance`, `SealedIsComplete`: on top of
  it, `LogInv` says that each slot has one owner on its way to the file
  (`SlotsInv`) and that the file is a prefix of what was submitted, in that order
  (`WrittenInv`), however the results arrive. `FailureIsReportedSoon`: a job that
  is accepted after the writer has failed takes a place in the queue or a worker
  that never takes another. `PipelineImplementsLog`: every step is a step of
  `ClusterLog` or leaves it alone (its safety part, `Log!SafeSpec`).
* `WriterProofs`. The invariant `WriterInv` of the Creator and the Streamer. Its
  core is `Sound`: two views of what was submitted, buckets, clusters and dirents
  on one side and the accepted entries on the other, agree after every outcome of
  every call, failures included; only while the pipeline is not lost are the
  dirents exactly those of the accepted entries (`Unique`), since a failure may
  leave the dirent of a refused item behind. `SlotsOwned` gives each slot of a
  streamed item one thread and each scratch file one owner, which holds across a
  drain that fails (`DrainErr`) because it joins every thread before it returns, `KeysKnown` and `KeysApart` say which keys are taken
  and why no two sources of entries meet in one, `AllPlaced`, `Assembled` and
  `Finished` carry the agreement through the order of finalize. From it follow
  `AcceptedReadsBack`, `ClustersAreExact`, `ScratchFilesAreOwned`,
  `BodiesAreExact`, `CounterIsExact` and `DuplicatesAreRefusedEarly`.
  `HandleImplementsWriter`: every behaviour of the C API is one of the writer, so
  that these hold of C programs; `HandleInv` adds that what was told is what was
  accepted, and that a lost pipeline was reported, for `ToldIsExact` and
  `AbortsAreForetold`.
* `RedirectArchiveProofs`. `WalkIsExact` and its parts, `MarksAgree`: the marked
  part of the graph is closed under redirects and has no cycle, and the current
  chain leads to the entry the walk is at; a cycle is a nonempty set of redirects
  none of which leaves it, which avoids recursion over paths. `ListingIsExact`
  then speaks of hops: they are functions on initial segments, which a lemma
  defines, and facts about them go by the least counterexample. `SoundIsExact`
  and `FollowIsExact` do the same for the readers' walks, any graph and any limit
  of hops, and `WriterAndReadersAgree` joins both sides: they agree about every
  directory, and what `resolve` and `get_item` refuse of a finished archive is a
  chain of more than `MAX_REDIRECTS` redirects, whose titles are in the listing. `ArchiveWrites` says that
  an archive with readers is written as the walk alone writes it.
* `ReaderProofs`. `DirectoryIsExact` and its parts: the invariant says of each
  search what is known outside of its window if the directory is sorted, and that
  the check has seen a sorted prefix, which neighbours give by transitivity.
  `ListingVerdictIsExact` and `TitlesAreExact` likewise over the listing
  (`TitleInv`), with what the scan has passed. `ExtentsAreApart` holds of any
  header and any pointers, by the definition of the boundary after an offset. For
  a file of this writer `LayoutInv` says that clusters tile the region in front
  of the tables, in the order of landing, so that the boundary after one is the
  start of the next or the first table, and which prefix of the file each stage
  has written: `FilesAreWholeOrRefused`. `BlobsAreExact`, from `BodyInv`: the
  offsets fit the width that was chosen, at both sides of the step to 64 bits,
  and what leaves the bounds of any body is refused.
  Of the cache (`AccountExact`, `EvictionIsExact`, `CountersAddUp`) `CacheInv` says
  who holds the lock where, that the order of use lists each cluster once, and
  that the saturating subtractions never saturate.
* `PackerProofs`. `CompletedOnly`, `RunsLeaveNothing`: the invariant `PackerInv`
  has three parts, that the destination is touched by the rename alone, after
  which nothing fails; that the run's own directory is none of those it found and
  remains only where `remove_dir_all` failed by itself;
  and where the run may be with children that are not collected. `Sane` says that
  a thread is joined only behind a child that was waited for, which is why the
  directory can be removed. `IndexesAreExact`, from `IndexInv`: while the run
  works each entry that is due is in exactly one of three places, still to be fed,
  in the pipe, or read; a child ends well only behind the end of its input, and
  only such a child has a blob. What the children do is arbitrary.
* `ZimSplitProofs`. `OthersAreKept`, `FailuresLeaveNothing`: `SplitInv` ties the
  paths that an invocation has noted to the files that are its own, in both
  directions: the first keeps the cleanup away from other files, the second leaves
  nothing out. `Apart` says what a step of one leaves alone, and gives the
  invariant of all others at once. `PlanIsExact`: cuts are at boundaries, and the
  greedy plan is the smallest, as any plan's k-th cut is no further than its own
  (`Greedy`); a refusal is forced. `PartsReassemble`: the bytes in the parts are
  those of the plan up to the cursor (`FillInv`).
* `ZimDumpProofs`. `EverythingIsDumped`, `PlacesArePlanned`, `LinksAreRight`, from
  `DumpInv`: an entry that is neither written nor lost still waits in a cluster or
  a queue (`Accounted`), a place names the entry whose file is there (`Files`), and
  only an entry's own thread writes to one of its two places (`Writes`), which under
  `Distinct` are not those of another, so what is published is never replaced. In
  a clean directory plan and place are the same for every entry (`AsPlanned`): the
  parents of one that is not exiled are no entry's place, so its rename finds
  nothing in its way, whatever the others have done. Links are exact (`Links`)
  because articles do not move once redirects are written, and in a clean
  directory redirects do not move either.
* `CommonLemmas`: channels without repetitions, sets with one element per byte,
  least and greatest elements of sets of numbers, functions defined by recursion
  on an initial segment, sets listed as sequences.

The proofs assume of the constants only what the modules `ASSUME`: at least one
worker and finitely many, positive limits, natural lengths, clusters of at least
one byte, a prefix interval that is not empty, content paths in a namespace of
their own, a free number for the temporary directory, names that are not used
twice, raw paths that are sequences of segments.

Model-checked only: everything temporal, as liveness under fairness is out of the
prover's reach (`CallsReturn`, the fair part of `PipelineIsALog`, `Answered`,
`RunEnds`); and the three properties of the findings, which do not
hold.

## Findings

* **A failed build panics** (`NeverPanics`): after an encode or write error the
  file is gone with the writer thread. One call returns the error, and the next
  `try_add_item` that flushes a cluster meets `expect("file present at pipeline start")`
  (`src/writer.rs:1562`), although it is documented for callers that cannot
  tolerate a panic. Of a C client it ends the process, as a panic cannot leave an
  `extern "C"` function; `AbortsForetold` shows that a call has answered false
  before.
* **A failed start loses work** (`StartKeepsWork`): `start_writing` takes the
  main path before it opens the file (`src/writer.rs:1111`).
* **A torn raw chunk changes the body** (`SizesExact`): a chunk whose write fails
  half way leaves bytes in the scratch file that are not counted
  (`src/writer.rs:1948`), and the item stays open; fed again and ended, it has a
  body longer than its declared size, although `src/writer.rs:765` calls the size
  an exact contract on every route. `BodiesExact` shows that this is the only
  way, and that the zstd route is safe from it.

Smaller disagreements, stated as exceptions of the properties or met on the way:

* `finalize` has no limit on a chain of redirects (`src/writer.rs:2541`) and lists
  the title of each of its entries; `resolve` and `get_item` answer
  `RedirectLoop` to a chain of more than `MAX_REDIRECTS` (`src/archive.rs:1493`,
  1512). zimcheck passes such an archive. `Agreement` says so: it is the one
  kind of title in the listing that a reader cannot follow.
* `namespace_range` saturates (`src/archive.rs:871`), so namespace 255 is always
  empty (the exception in `RangeExact`, a part of
  `DirectoryExact`), against the contract at
  `src/archive.rs:866`; no archive in use has this namespace.
* The writer encodes compressed payloads of any length, the decoders refuse those
  over `MAX_EXTENDED_CLUSTER_BYTES` (the exception in `RoundTrip`).
* zimdump: an entry whose path is `_exceptions` takes the place of the directory
  for exceptions (the hypothesis `Reserved`), two raw paths with one sanitized
  path share a file, as do an entry with a path in `_exceptions/` and one that is
  moved to that path (both in the hypothesis `Distinct`), and in a directory with an
  earlier dump a redirect that is moved at run time leaves the links to it behind
  (the exception in `LinksLead`).
* `IndexHelper::finish` says that on any error it returns no blobs
  (`src/bin/_index_helper.rs:320`); it returns those of the children that
  succeeded. Each of them is complete (`IndexExact`).
* `src/cffi/creator.rs:227` says that duplicate paths are not detected by the
  add; they are, by the Creator it calls (`DuplicatesRefusedEarly`).

## Not modelled

Bytes: parsing and serialising of the format, compression, MD5, UTF-8, escaping
of text. They have no order of steps, and their properties are about values that
tests and fuzzing reach. Archive summaries (counts, random entry, illustrations,
metadata), the reader's C API (pointer conversions around Archive calls), UUIDs,
errors, hints to the operating system, `zimru`, `zimbench`, the listings of
`zimdump` and the reports of `zimcheck` are stateless loops over the file.

Failures outside of the models: a thread that cannot be spawned, which panics in
the library; and the message about a new part in zimsplit
(`src/bin/zimsplit.rs:234`), which panics when stderr is closed, between the
creation of a part and noting its path, so that the part would be left behind.

In the modelled parts: the shift of indices by the listing's own entry
(`src/writer.rs:2445`), as the directories of `RedirectListing` are sorted ones
with that entry in its place; `peak_in_flight_bytes` and timings of the pipeline; the
strategies that choose a bucket by something else than MIME type; dirents that do
not parse (so that the effect of one on `by_prefix`, `src/archive.rs:952`, is
not covered); the bound on the walks of zimcheck over many long chains
(`src/bin/zimcheck.rs:638`), which only counts for larger graphs than TLC can
enumerate; in zimwriterfs and zimrecreate, which are modelled in part, MIME
detection, titles, the resolution of symbolic links and legacy namespaces; in
zimdump, the escaping of stubs, and systems without Unix file calls.

## Plan

Done, in this order: pipeline, writer, redirects and listing, cache, lookups,
redirects of a reader, zimsplit; then file layout, cluster bodies, the C handle,
the composition of redirects, zimdump, the packing tools and their helper; and
the proofs. What is left, most important first:

1. `WriterOnPipeline`: `StreamWriter` composed with `ClusterLog` in place of its
   own abstraction of the pipeline.
2. `ReadAfterWrite`: the files `StreamWriter` finishes as the directories of
   `PathLookup` and `TitleLookup`: what was accepted is found.
3. The rest of zimwriterfs: symbolic links that lead out of the directory or to
   each other.
