---------------------------- MODULE StreamWriter ----------------------------
(***************************************************************************)
(* The archive writer of src/writer.rs: Creator (buffered, then streaming) *)
(* and the Streamer it drives.  Items are packed into one open bucket per  *)
(* kind; a full bucket becomes a cluster and goes to the encode pipeline;  *)
(* a large chunked item gets a cluster and a scratch file of its own, which *)
(* a background thread completes and finalize splices in; finalize adds    *)
(* metadata, the Counter, redirects and the title listing, lands every     *)
(* cluster and writes the tables.                                          *)
(*                                                                         *)
(* Abstractions.  The body of an entry is identified with its key, so that *)
(* "the right bytes" is "the right key in the right blob"; its length      *)
(* counts only where the code compares lengths.  Clusters are numbered     *)
(* from 1, blobs from 1.  A bucket is chosen by MIME type (the ByMime      *)
(* strategy; the other strategies only choose other keys).  The encode     *)
(* pipeline is what EncodePipeline shows it to be: it lands what was sent  *)
(* in the order in which it was sent, or fails and takes the File with it. *)
(* Redirect resolution is the reference definition; RedirectListing has    *)
(* the algorithm.                                                          *)
(***************************************************************************)
EXTENDS Naturals, SequencesExt

CONSTANTS Paths,        \* content paths ("C" namespace) clients use
          OtherKeys,    \* keys of other namespaces clients give to items
          MetaNames,    \* metadata names clients use
          Mimes,        \* MIME types of items
          MimeCap,      \* distinct MIME types that fit the MIME list
          Sizes,        \* body lengths of items
          Target,       \* cluster_size_target
          Threshold,    \* streaming_encode_threshold
          ChunkSizes,   \* lengths of the chunks a client feeds
          MaxBody       \* bound: bytes fed to one chunked item

ASSUME TargetAssumption == Target \in Nat \ {0} /\ Threshold \in Nat
ASSUME MimeAssumption == MimeCap \in Nat /\ IsFiniteSet(Mimes)
ASSUME LengthAssumption == Sizes \cup ChunkSizes \subseteq Nat /\ MaxBody \in Nat

\* Keys and MIME types the writer uses of its own accord.
Counter == "M/Counter"
MainPage == "W/mainPage"
Listing == "X/listing/titleOrdered/v1"
MetaMime == "text/plain;charset=utf-8"
ListingMime == "application/octet-stream+zimlisting"

\* Content paths are in a namespace of their own.
ASSUME KeysAssumption ==
    Paths \cap (OtherKeys \cup MetaNames \cup {Counter, MainPage, Listing}) = {}

AllMimes == Mimes \cup {MetaMime}

VARIABLES
  mode,       \* "buffered" | "streaming" | "draining" | "dropping" | ended
  items,      \* Creator.items, empty once streaming
  redirs,     \* redirections, of the Creator and then of the Streamer
  metas,      \* metadata and illustrations, likewise
  main,       \* {} or {main_path}
  keys,       \* Creator.entry_keys
  s,          \* the Streamer: buckets, cluster slots, dirents, pipeline
  inflight,   \* {} or {the chunked item in flight}
  tasks,      \* slot -> state of its streaming-encode thread
  temps,      \* slots whose scratch file exists
  file,       \* the clusters in the finished file, in file order
  why,        \* why finish_writing failed, or that a call panicked
  accepted,   \* history: entries whose add returned Ok
  startFailed \* history: did a start_writing fail?

vars == <<mode, items, redirs, metas, main, keys, s, inflight, tasks, temps,
          file, why, accepted, startFailed>>

Ended == {"done", "failed"}

Bucket == [blobs |-> << >>, size |-> 0, pending |-> {}]

NewStreamer == [buckets |-> [m \in AllMimes |-> Bucket],
                mimes   |-> {},       \* interned MIME types
                slots   |-> << >>,    \* cluster_offsets, with the contents
                dirents |-> {},       \* committed article dirents
                pipe    |-> "off",    \* "off" | "on" | "lost" (with the File)
                sent    |-> << >>,    \* clusters submitted to the pipeline
                counted |-> {}]       \* what the generated Counter counts

Init ==
    /\ mode = "buffered"
    /\ items = << >>
    /\ redirs = {}
    /\ metas = << >>
    /\ main = {}
    /\ keys = {}
    /\ s = NewStreamer
    /\ inflight = {}
    /\ tasks = << >>
    /\ temps = {}
    /\ file = << >>
    /\ why = "none"
    /\ accepted = {}
    /\ startFailed = FALSE

----------------------------------------------------------------------------
(* Outcomes: a call of the code returns a new Streamer and a result.  Then  *)
(* is the `?` operator.                                                    *)

Ok(t) == {[s |-> t, res |-> "ok"]}
Fails(t, res) == {[s |-> t, res |-> res]}

Then(outcomes, F(_)) ==
    UNION {IF o.res = "ok" THEN F(o.s) ELSE {o} : o \in outcomes}

InternMime(t, m) ==
    IF m \in t.mimes \/ Cardinality(t.mimes) < MimeCap
    THEN Ok([t EXCEPT !.mimes = @ \cup {m}])
    ELSE Fails(t, "mime")

\* Mutant: the failure of the pipeline is noticed and not reported.
SendSilent(t, i) ==
    LET sent == [t EXCEPT !.pipe = "on", !.sent = Append(@, i)]
    IN IF t.pipe = "off" THEN Ok(sent)
       ELSE IF t.pipe = "on" THEN Ok(sent) \cup Ok([t EXCEPT !.pipe = "lost"])
       ELSE Fails(t, "panic")

\* send_cluster: the first one starts the pipeline; later ones may find that
\* it has failed; without the File it panics.
Send(t, i) ==
    LET sent == [t EXCEPT !.pipe = "on", !.sent = Append(@, i)]
    IN IF t.pipe = "off" THEN Ok(sent)
       ELSE IF t.pipe = "on" THEN Ok(sent) \cup Fails([t EXCEPT !.pipe = "lost"], "io")
       ELSE Fails(t, "panic")

\* Mutant: dirents are committed with the index before the slot is reserved,
\* counted from the clusters already sent.
FlushCountsSent(t, m) ==
    LET b == t.buckets[m]
        i == Len(t.slots) + 1
        slot == [blobs |-> b.blobs, size |-> b.size, body |-> b.size,
                 route |-> "pipe", torn |-> FALSE]
        commits == {[key |-> p.key, cluster |-> Len(t.sent) + 1, blob |-> p.blob]
                      : p \in b.pending}
    IN IF b.blobs = << >> THEN Ok(t)
       ELSE Send([t EXCEPT !.buckets[m] = Bucket,
                           !.slots = Append(@, slot),
                           !.dirents = @ \cup commits], i)

Flush(t, m) ==
    LET b == t.buckets[m]
        i == Len(t.slots) + 1
        slot == [blobs |-> b.blobs, size |-> b.size, body |-> b.size,
                 route |-> "pipe", torn |-> FALSE]
        commits == {[key |-> p.key, cluster |-> i, blob |-> p.blob] : p \in b.pending}
    IN IF b.blobs = << >> THEN Ok(t)
       ELSE Send([t EXCEPT !.buckets[m] = Bucket,
                           !.slots = Append(@, slot),
                           !.dirents = @ \cup commits], i)

\* Add the body to its bucket.
Put(t, it) ==
    LET b == t.buckets[it.mime]
    IN [t EXCEPT !.buckets[it.mime] =
         [blobs   |-> Append(b.blobs, it.key),
          size    |-> b.size + it.size,
          pending |-> b.pending \cup {[key |-> it.key, blob |-> Len(b.blobs) + 1]}]]

\* The item does not fit the bucket it belongs to.
NeedsFlush(t, it) ==
    LET b == t.buckets[it.mime]
    IN b.blobs # << >> /\ b.size + it.size > Target

MakeRoom(t, it) == IF NeedsFlush(t, it) THEN Flush(t, it.mime) ELSE Ok(t)

\* A bucket that reaches the target is full.
Place(t, it) ==
    LET u == Put(t, it)
    IN IF u.buckets[it.mime].size >= Target THEN Flush(u, it.mime) ELSE Ok(u)

\* Mutant: the item is in its bucket before its type is refused.
PushItemFirst(t, it) == Then(Place(t, it), LAMBDA u : InternMime(u, it.mime))

PushItem(t, it) ==
    Then(Then(InternMime(t, it.mime), LAMBDA u : MakeRoom(u, it)),
         LAMBDA u : Place(u, it))

PushAll(t, its) ==
    LET push[n \in 0 .. Len(its)] ==
          IF n = 0 THEN Ok(t) ELSE Then(push[n - 1], LAMBDA u : PushItem(u, its[n]))
    IN push[Len(its)]

----------------------------------------------------------------------------
(* The calls of Creator *)

Open == mode \in {"buffered", "streaming"}

\* A call that went through the Streamer ends with outcome o.  A panic
\* unwinds through the client and drops the Creator.
Returns(o) ==
    /\ s' = o.s
    /\ mode' = IF o.res = "panic" THEN "dropping" ELSE mode
    /\ why' = IF o.res = "panic" THEN "panic" ELSE why

\* try_add_item: the key is recorded when the item is in.
AddItem(it) ==
    /\ Open
    /\ it.key \notin keys
    /\ \/ /\ mode = "buffered"
          /\ items' = Append(items, it)
          /\ keys' = keys \cup {it.key}
          /\ accepted' = accepted \cup {it.key}
          /\ UNCHANGED <<mode, s, why>>
       \/ /\ mode = "streaming"
          /\ \E o \in PushItem(s, it) :
               /\ Returns(o)
               /\ keys' = IF o.res = "ok" THEN keys \cup {it.key} ELSE keys
               /\ accepted' = IF o.res = "ok" THEN accepted \cup {it.key}
                                              ELSE accepted
          /\ UNCHANGED items
    /\ UNCHANGED <<redirs, metas, main, inflight, tasks, temps, file, startFailed>>

AddRedirection(p, target) ==
    /\ Open
    /\ p \notin keys
    /\ keys' = keys \cup {p}
    /\ redirs' = redirs \cup {[key |-> p, target |-> target]}
    /\ accepted' = accepted \cup {p}
    /\ UNCHANGED <<mode, items, metas, main, s, inflight, tasks, temps, file,
                   why, startFailed>>

\* Metadata and illustrations: kept aside until finalize.
AddMetadata(name, n) ==
    /\ Open
    /\ name \notin keys
    /\ keys' = keys \cup {name}
    /\ metas' = Append(metas, [key |-> name, size |-> n, mime |-> MetaMime])
    /\ accepted' = accepted \cup {name}
    /\ UNCHANGED <<mode, items, redirs, main, s, inflight, tasks, temps, file,
                   why, startFailed>>

\* The key W/mainPage is recorded by the first call, later ones replace the path.
SetMainPath(p) ==
    /\ Open
    /\ main = {} => MainPage \notin keys
    /\ main' = {p}
    /\ keys' = keys \cup {MainPage}
    /\ accepted' = accepted \cup {MainPage}
    /\ UNCHANGED <<mode, items, redirs, metas, s, inflight, tasks, temps, file,
                   why, startFailed>>

StartWriting ==
    /\ mode = "buffered"
    /\ \E o \in PushAll(NewStreamer, items) :
         /\ o.res = "ok"
         /\ s' = o.s
    /\ mode' = "streaming"
    /\ items' = << >>
    /\ UNCHANGED <<redirs, metas, main, keys, inflight, tasks, temps, file, why,
                   accepted, startFailed>>

\* The File cannot be created: main_path was already taken out.
OpenFails ==
    /\ mode = "buffered"
    /\ main' = {}
    /\ startFailed' = TRUE
    /\ UNCHANGED <<mode, items, redirs, metas, keys, s, inflight, tasks, temps,
                   file, why, accepted>>

\* A buffered item cannot be pushed: the drain drops the others, the new
\* Streamer is dropped.
DrainFails ==
    /\ mode = "buffered"
    /\ \E o \in PushAll(NewStreamer, items) : o.res # "ok"
    /\ items' = << >>
    /\ main' = {}
    /\ startFailed' = TRUE
    /\ UNCHANGED <<mode, redirs, metas, keys, s, inflight, tasks, temps, file,
                   why, accepted>>

----------------------------------------------------------------------------
(* Chunked items *)

\* The exact size is an option: {} or {n}.
Routes(expected) ==
    IF \E n \in expected : n >= Threshold THEN {"zstd", "raw", "buffered"}
                                          ELSE {"buffered"}

CanBegin(it) == mode = "streaming" /\ inflight = {} /\ it.key \notin keys

\* Mutant: the key is left for end_chunked_item to record.
BeginBufferedNoKey(it, expected) ==
    /\ CanBegin(it)
    /\ inflight' = {[key |-> it.key, mime |-> it.mime, expected |-> expected,
                     route |-> "buffered", slot |-> 0, written |-> 0, body |-> 0,
                     torn |-> FALSE]}
    /\ UNCHANGED <<mode, items, redirs, metas, main, keys, s, tasks, temps, file,
                   why, accepted, startFailed>>

\* Buffered route (no size, a small one, or xz): the bytes are collected.
BeginBuffered(it, expected) ==
    /\ CanBegin(it)
    /\ inflight' = {[key |-> it.key, mime |-> it.mime, expected |-> expected,
                     route |-> "buffered", slot |-> 0, written |-> 0, body |-> 0,
                     torn |-> FALSE]}
    /\ keys' = keys \cup {it.key}
    /\ UNCHANGED <<mode, items, redirs, metas, main, s, tasks, temps, file, why,
                   accepted, startFailed>>

\* Streamed route: a cluster slot and a scratch file of its own.  The slot is
\* taken last, when nothing can fail any more.
BeginStreamed(it, expected, route) ==
    /\ CanBegin(it)
    /\ route \in Routes(expected) \ {"buffered"}
    /\ \E o \in InternMime(s, it.mime), n \in expected :
         LET i == Len(s.slots) + 1 IN
         /\ o.res = "ok"
         /\ s' = [o.s EXCEPT !.slots = Append(@,
                    [blobs |-> <<it.key>>, size |-> n, body |-> 0, route |-> route,
                     torn |-> FALSE])]
         /\ inflight' = {[key |-> it.key, mime |-> it.mime, expected |-> expected,
                          route |-> route, slot |-> i, written |-> 0, body |-> 0,
                          torn |-> FALSE]}
         /\ temps' = temps \cup {i}
    /\ keys' = keys \cup {it.key}
    /\ UNCHANGED <<mode, items, redirs, metas, main, tasks, file, why, accepted,
                   startFailed>>

\* Mutant: the slot is taken before the scratch file is created.
BeginStreamedKeepsSlot(it, expected) ==
    /\ CanBegin(it)
    /\ Routes(expected) # {"buffered"}
    /\ \E o \in InternMime(s, it.mime) :
         s' = [o.s EXCEPT !.slots = Append(@,
                 [blobs |-> <<it.key>>, size |-> 0, body |-> 0, route |-> "raw",
                  torn |-> FALSE])]
    /\ UNCHANGED <<mode, items, redirs, metas, main, keys, inflight, tasks,
                   temps, file, why, accepted, startFailed>>

\* The MIME list is full, or the scratch file cannot be created or written.
BeginStreamedFails(it, expected) ==
    /\ CanBegin(it)
    /\ Routes(expected) # {"buffered"}
    /\ \E o \in InternMime(s, it.mime) : s' = o.s
    /\ UNCHANGED <<mode, items, redirs, metas, main, keys, inflight, tasks,
                   temps, file, why, accepted, startFailed>>

\* A chunk that exceeds the expected size is refused without a trace.
Fits(f, n) == \A e \in f.expected : f.written + n <= e

Chunk(n) ==
    /\ mode = "streaming"
    /\ \E f \in inflight :
         /\ Fits(f, n)
         /\ f.body + n <= MaxBody
         /\ inflight' = {[f EXCEPT !.written = @ + n, !.body = @ + n]}
    /\ UNCHANGED <<mode, items, redirs, metas, main, keys, s, tasks, temps,
                   file, why, accepted, startFailed>>

\* write_all fails after j of the n bytes: the count is not advanced.
ChunkTorn(n, j) ==
    /\ mode = "streaming"
    /\ \E f \in inflight :
         /\ f.route # "buffered"
         /\ Fits(f, n)
         /\ j < n
         /\ f.body + j <= MaxBody
         /\ inflight' = {[f EXCEPT !.body = @ + j, !.torn = @ \/ j > 0]}
    /\ UNCHANGED <<mode, items, redirs, metas, main, keys, s, tasks, temps,
                   file, why, accepted, startFailed>>

\* A short item stays in flight, so that the caller can append and retry.
Complete(f) == \A e \in f.expected : f.written = e

EndBuffered ==
    /\ mode = "streaming"
    /\ \E f \in inflight :
         /\ f.route = "buffered"
         /\ Complete(f)
         /\ \E o \in PushItem(s, [key |-> f.key, size |-> f.written, mime |-> f.mime]) :
              /\ Returns(o)
              /\ accepted' = IF o.res = "ok" THEN accepted \cup {f.key} ELSE accepted
    /\ inflight' = {}
    /\ UNCHANGED <<items, redirs, metas, main, keys, tasks, temps, file,
                   startFailed>>

\* The dirent is committed and a thread completes the scratch file.
EndStreamed ==
    /\ mode = "streaming"
    /\ \E f \in inflight :
         /\ f.route # "buffered"
         /\ Complete(f)
         /\ s' = [s EXCEPT !.slots[f.slot].body = f.body,
                           !.slots[f.slot].torn = f.torn,
                           !.dirents = @ \cup {[key |-> f.key, cluster |-> f.slot,
                                                blob |-> 1]}]
         /\ tasks' = [i \in DOMAIN tasks \cup {f.slot} |->
                         IF i = f.slot THEN "running" ELSE tasks[i]]
         /\ accepted' = accepted \cup {f.key}
    /\ inflight' = {}
    /\ UNCHANGED <<mode, items, redirs, metas, main, keys, temps, file, why,
                   startFailed>>

\* Mutant: the size is not pledged to the encoder.
TaskDoneUnpledged(i) ==
    /\ tasks[i] = "running"
    /\ tasks' = [tasks EXCEPT ![i] = "done"]
    /\ UNCHANGED <<mode, items, redirs, metas, main, keys, s, inflight, temps,
                   file, why, accepted, startFailed>>

\* The thread ends.  A zstd frame that is not as long as it was pledged to
\* be cannot be finished.
TaskDone(i) ==
    /\ tasks[i] = "running"
    /\ s.slots[i].route = "zstd" => s.slots[i].body = s.slots[i].size
    /\ tasks' = [tasks EXCEPT ![i] = "done"]
    /\ UNCHANGED <<mode, items, redirs, metas, main, keys, s, inflight, temps,
                   file, why, accepted, startFailed>>

TaskFails(i) ==
    /\ tasks[i] = "running"
    /\ tasks' = [tasks EXCEPT ![i] = "failed"]
    /\ temps' = temps \ {i}
    /\ UNCHANGED <<mode, items, redirs, metas, main, keys, s, inflight, file,
                   why, accepted, startFailed>>

----------------------------------------------------------------------------
(* finalize *)

\* Mutant: only committed dirents are scanned.
ArticlesCommitted(t) == {d.key : d \in t.dirents}

\* Articles whose dirent is committed or waits in a bucket.
Articles(t) == {d.key : d \in t.dirents}
                 \cup {p.key : p \in UNION {t.buckets[m].pending : m \in AllMimes}}

\* The Counter is generated unless the client supplied one.
PushCounter(t) ==
    IF Counter \in Articles(t) THEN Ok(t)
    ELSE PushItem([t EXCEPT !.counted = Articles(t) \cap Paths],
                  [key |-> Counter, size |-> 1, mime |-> MetaMime])

FlushAll(t) ==
    LET order == SetToSeq(AllMimes)
        flush[n \in 0 .. Len(order)] ==
          IF n = 0 THEN Ok(t) ELSE Then(flush[n - 1], LAMBDA u : Flush(u, order[n]))
    IN flush[Len(order)]

MainRedirect == {[key |-> MainPage, target |-> p] : p \in main}

\* The sorted directory has two neighbours with the same key.
HasDuplicates(t, R) ==
    \/ \E d, e \in t.dirents : d # e /\ d.key = e.key
    \/ \E r \in R : \/ \E d \in t.dirents : d.key = r.key
                    \/ \E q \in R : q # r /\ q.key = r.key

Unresolved(t, R) ==
    \E r \in R : r.target \notin {d.key : d \in t.dirents} \cup {q.key : q \in R}

Cyclic(R) ==
    \E C \in SUBSET R : C # {} /\ \A r \in C : \E q \in C : q.key = r.target

\* Steps 3 to 5: the sorted directory and the redirects.
CheckDirectory(t, R) ==
    IF HasDuplicates(t, R) THEN Fails(t, "duplicate")
    ELSE IF Unresolved(t, R) \/ Cyclic(R) THEN Fails(t, "redirect")
    ELSE Ok(t)

ListingGiven(t) == \E d \in t.dirents : d.key = Listing

\* Step 6: the title listing, with a cluster of its own.
EmitListing(t) ==
    LET i == Len(t.slots) + 1
        slot == [blobs |-> <<Listing>>, size |-> 1, body |-> 1,
                 route |-> "pipe", torn |-> FALSE]
    IN IF ListingGiven(t) THEN Ok(t)
       ELSE Send([t EXCEPT !.slots = Append(@, slot),
                           !.dirents = @ \cup {[key |-> Listing, cluster |-> i,
                                                blob |-> 1]}], i)

PushListing(t, R) ==
    Then(Then(IF ListingGiven(t) THEN Ok(t) ELSE InternMime(t, ListingMime),
              LAMBDA u : CheckDirectory(u, R)),
         EmitListing)

\* Everything finalize does before it waits for the pipeline and the threads.
Assemble(t) ==
    LET R == redirs \cup MainRedirect
    IN Then(Then(Then(PushAll(t, metas), PushCounter), FlushAll),
            LAMBDA u : PushListing(u, R))

FinishWriting ==
    /\ mode = "streaming"
    /\ inflight = {}
    /\ \E o \in Assemble(s) :
         /\ s' = o.s
         /\ mode' = IF o.res = "ok" THEN "draining" ELSE "dropping"
         /\ why' = o.res
    /\ metas' = << >>
    /\ redirs' = redirs \cup MainRedirect
    /\ UNCHANGED <<items, main, keys, inflight, tasks, temps, file, accepted,
                   startFailed>>

\* finalize refuses while a chunked item is in flight.
FinishInFlight ==
    /\ mode = "streaming"
    /\ inflight # {}
    /\ mode' = "dropping"
    /\ why' = "inflight"
    /\ UNCHANGED <<items, redirs, metas, main, keys, s, inflight, tasks, temps,
                   file, accepted, startFailed>>

Joined == \A i \in DOMAIN tasks : tasks[i] # "running"

\* The streamed clusters follow those of the pipeline, in index order.
Streamed == CHOOSE q \in [1 .. Cardinality(DOMAIN tasks) -> DOMAIN tasks] :
              \A i, j \in DOMAIN q : i < j => q[i] < q[j]

\* The slot whose scratch file the item in flight owns.
FlightSlots == {f.slot : f \in {g \in inflight : g.route # "buffered"}}

\* The pipeline failed after its last cluster was sent.  The threads are not
\* joined here: the Streamer still has them when it is dropped.
ShutdownFails ==
    /\ mode = "draining"
    /\ s.pipe = "on"
    /\ mode' = "dropping"
    /\ why' = "io"
    /\ UNCHANGED <<items, redirs, metas, main, keys, s, inflight, tasks, temps,
                   file, accepted, startFailed>>

\* drain_streaming_tasks takes every thread from the Streamer, joins it, and
\* splices and deletes its scratch file; then the tables, the header and the
\* checksum.  (tasks stays, as a record of what was joined.)
Drain ==
    /\ mode = "draining"
    /\ Joined
    /\ s.pipe # "lost"
    /\ \A i \in DOMAIN tasks : tasks[i] = "done"
    /\ mode' = "done"
    /\ file' = s.sent \o Streamed
    /\ temps' = temps \ DOMAIN tasks
    /\ UNCHANGED <<items, redirs, metas, main, keys, s, inflight, tasks, why,
                   accepted, startFailed>>

\* A thread, a splice or a write failed; or the File is gone and nothing was
\* sent since: file_mut panics.
DrainErrors ==
    {e \in {"io", "panic"} :
       IF e = "io" THEN s.pipe = "lost" => DOMAIN tasks # {}
       ELSE s.pipe = "lost" /\ \A i \in DOMAIN tasks : tasks[i] = "done"}

\* Mutant: the first failed thread is the end of the loop, the others are let
\* go.
DrainErrAtOnce ==
    /\ mode = "draining"
    /\ Joined \/ \E i \in DOMAIN tasks : tasks[i] = "failed"
    /\ mode' = "dropping"
    /\ why' \in DrainErrors
    /\ tasks' = << >>
    /\ temps' = temps \ {i \in DOMAIN tasks : tasks[i] = "done"}
    /\ UNCHANGED <<items, redirs, metas, main, keys, s, inflight, file, accepted,
                   startFailed>>

\* Every thread is joined before the error is returned: they are not the
\* Streamer's any more, and nobody else would.
DrainErr ==
    /\ mode = "draining"
    /\ Joined
    /\ mode' = "dropping"
    /\ why' \in DrainErrors
    /\ tasks' = << >>
    /\ temps' = temps \ DOMAIN tasks
    /\ UNCHANGED <<items, redirs, metas, main, keys, s, inflight, file, accepted,
                   startFailed>>

\* The client gives up (finish_writing before start_writing does the same).
DropCreator ==
    /\ Open
    /\ mode' = "dropping"
    /\ UNCHANGED <<items, redirs, metas, main, keys, s, inflight, tasks, temps,
                   file, why, accepted, startFailed>>

\* Streamer::drop drops the item in flight and joins the threads that are
\* still its own; each scratch file goes with its owner.
Dropped ==
    /\ mode = "dropping"
    /\ Joined
    /\ mode' = "failed"
    /\ inflight' = {}
    /\ temps' = temps \ (FlightSlots \cup DOMAIN tasks)
    /\ UNCHANGED <<items, redirs, metas, main, keys, s, tasks, file, why,
                   accepted, startFailed>>

----------------------------------------------------------------------------
Item == [key : Paths \cup OtherKeys, size : Sizes, mime : Mimes]

Expected == {{}} \cup {{n} : n \in Sizes}

ChunkedCall ==
    \/ \E k \in Paths \cup OtherKeys, m \in Mimes, e \in Expected :
         LET it == [key |-> k, mime |-> m] IN
         \/ BeginBuffered(it, e)
         \/ \E r \in {"zstd", "raw"} : BeginStreamed(it, e, r)
         \/ BeginStreamedFails(it, e)
    \/ \E n \in ChunkSizes : Chunk(n) \/ \E j \in 0 .. n : ChunkTorn(n, j)
    \/ EndBuffered
    \/ EndStreamed

Call ==
    \/ \E it \in Item : AddItem(it)
    \/ \E p, t \in Paths : AddRedirection(p, t)
    \/ \E name \in MetaNames, n \in Sizes : AddMetadata(name, n)
    \/ \E p \in Paths : SetMainPath(p)
    \/ StartWriting \/ OpenFails \/ DrainFails
    \/ ChunkedCall
    \/ FinishWriting \/ FinishInFlight
    \/ DropCreator

Task(i) == TaskDone(i) \/ TaskFails(i)

Finalize == ShutdownFails \/ Drain \/ DrainErr \/ Dropped

\* The client may stop calling.
Idle == (Open \/ mode \in Ended) /\ UNCHANGED vars

Next ==
    \/ Call
    \/ \E i \in DOMAIN tasks : Task(i)
    \/ Finalize
    \/ Idle

Spec == Init /\ [][Next]_vars

----------------------------------------------------------------------------
(* Properties *)

AllKeys == Paths \cup OtherKeys \cup MetaNames \cup {Counter, MainPage, Listing}

\* What a reader of the finished file finds under key k is the entry k.
InArchive(k) ==
    \/ \E d \in s.dirents :
         /\ d.key = k
         /\ d.cluster \in Range(file)
         /\ d.blob \in DOMAIN s.slots[d.cluster].blobs
         /\ s.slots[d.cluster].blobs[d.blob] = k
    \/ \E r \in redirs : r.key = k

\* Every entry whose add returned Ok before a successful finish_writing is in
\* the file, under its key and with its own bytes, whatever mix of buffered,
\* packed, chunked and streamed calls and refused calls came before.
ReadBack == mode = "done" /\ ~startFailed => \A k \in accepted : InArchive(k)

\* The changelog's promise for a start_writing that fails: the buffered work
\* is intact, so a later success has all of it.
StartKeepsWork == mode = "done" => \A k \in accepted : InArchive(k)

\* No cluster slot of a finished file keeps its placeholder offset 0, none is
\* written twice, and every blob belongs to exactly one entry.
EverySlotWritten ==
    mode = "done" =>
      /\ IsInjective(file)
      /\ Range(file) = DOMAIN s.slots
      /\ \A i \in DOMAIN s.slots : \A b \in DOMAIN s.slots[i].blobs :
           Cardinality({d \in s.dirents : d.cluster = i /\ d.blob = b}) = 1

\* Duplicate keys are refused by the call that adds them: finalize, which
\* would throw the whole build away, never meets one (unless the build was
\* lost before, with the pipeline's File).
DuplicatesRefusedEarly == why = "duplicate" => s.pipe = "lost"

\* The packer keeps its memory promise: an open bucket is below the target,
\* and a cluster exceeds it only if one item does.
ClusterSizes ==
    /\ \A m \in AllMimes : s.buckets[m].size < Target
    /\ \A i \in Range(s.sent) :
         s.slots[i].size > Target => Len(s.slots[i].blobs) = 1

\* Clusters are packed as promised and all of them reach the file.
ClustersExact == EverySlotWritten /\ ClusterSizes

\* A scratch file exists exactly as long as somebody owns it: the item in
\* flight or a thread that somebody will join.  None outlives the build,
\* whether threads fail, the drain gives up among them or the writer is
\* dropped (writer.rs:2100).
ScratchFilesOwned ==
    temps = IF mode \in Ended THEN {}
            ELSE FlightSlots \cup {i \in DOMAIN tasks : tasks[i] # "failed"}

\* A chunk whose write failed half way leaves bytes that the length check does
\* not know of (writer.rs:1948).  Whatever is torn, retried and completed, a
\* body of the wrong length gets into a finished file on the raw route only;
\* the zstd frame is pledged to its size and refuses it.
BodiesExact ==
    mode = "done" =>
      \A i \in DOMAIN tasks : \/ s.slots[i].body = s.slots[i].size
                              \/ s.slots[i].route = "raw" /\ s.slots[i].torn

\* "`Some(size)` is an exact contract on every route, not a hint"
\* (writer.rs:765): the raw route included.
SizesExact ==
    mode = "done" => \A i \in DOMAIN tasks : s.slots[i].body = s.slots[i].size

\* The generated Counter counts every content article of the file, those
\* that were still in open buckets when it was generated included.
CounterExact ==
    mode = "done" /\ Counter \notin accepted =>
      s.counted = {d.key : d \in s.dirents} \cap Paths
=============================================================================
