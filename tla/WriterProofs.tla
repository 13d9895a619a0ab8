---------------------------- MODULE WriterProofs ----------------------------
(***************************************************************************)
(* Theorems of StreamWriter and of CreatorHandle.                           *)
(*                                                                         *)
(* An operation of the Streamer has a set of outcomes, in many of which it  *)
(* failed half way.  What every outcome keeps is Sound: the buckets, the     *)
(* cluster slots, the dirents and the submissions say the same, whether the *)
(* last call went well or not.  What a failure may leave behind (the dirent  *)
(* of an item that was refused, a key twice) it leaves only in a build       *)
(* whose pipeline is lost, which no finish_writing completes.               *)
(***************************************************************************)
EXTENDS CreatorHandle, CommonLemmas

----------------------------------------------------------------------------
(* What a Streamer is *)

Results == {"ok", "mime", "io", "panic", "duplicate", "redirect"}

SlotType == [blobs : Seq(AllKeys), size : Nat, body : Nat,
             route : {"pipe", "raw", "zstd"}, torn : BOOLEAN]

BucketType == [blobs : Seq(AllKeys), size : Nat,
               pending : SUBSET [key : AllKeys, blob : Nat]]

DirentType == [key : AllKeys, cluster : Nat, blob : Nat]

StreamerType == [buckets : [AllMimes -> BucketType],
                 mimes   : SUBSET (AllMimes \cup {ListingMime}),
                 slots   : Seq(SlotType),
                 dirents : SUBSET DirentType,
                 pipe    : {"off", "on", "lost"},
                 sent    : Seq(Nat),
                 counted : SUBSET Paths]

Outcome == [s : StreamerType, res : Results]

IsOutcome(o) == o = [s |-> o.s, res |-> o.res]

ItemType == [key : AllKeys, size : Nat, mime : AllMimes]

PipeSlots(t) == {i \in DOMAIN t.slots : t.slots[i].route = "pipe"}

Dirent(t, i, b) == [key |-> t.slots[i].blobs[b], cluster |-> i, blob |-> b]

\* Two views of each thing agree.
BucketsExact(t) ==
    \A m \in AllMimes :
      t.buckets[m].pending = {[key |-> t.buckets[m].blobs[j], blob |-> j]
                                : j \in DOMAIN t.buckets[m].blobs}

DirentsExact(t) ==
    /\ \A d \in t.dirents :
         /\ d.cluster \in DOMAIN t.slots
         /\ d.blob \in DOMAIN t.slots[d.cluster].blobs
         /\ d.key = t.slots[d.cluster].blobs[d.blob]
    /\ \A i \in PipeSlots(t) : \A b \in DOMAIN t.slots[i].blobs :
         Dirent(t, i, b) \in t.dirents

SentExact(t) ==
    /\ IsInjective(t.sent)
    /\ Range(t.sent) \subseteq PipeSlots(t)
    /\ t.pipe # "lost" => Range(t.sent) = PipeSlots(t)

\* The cluster, or the bucket, is over the target only with a single blob.
Packed(c) == c.size > Target => Len(c.blobs) = 1

Sound(t) ==
    /\ t \in StreamerType
    /\ BucketsExact(t)
    /\ DirentsExact(t)
    /\ SentExact(t)
    /\ \A i \in PipeSlots(t) : Packed(t.slots[i])

Small(t) == \A m \in AllMimes : t.buckets[m].size < Target

Empty(t) == \A m \in AllMimes : t.buckets[m].blobs = << >>

\* No key is there twice.
Unique(t) ==
    /\ \A d, e \in t.dirents : d.key = e.key => d = e
    /\ \A m, n \in AllMimes :
         \A j \in DOMAIN t.buckets[m].blobs, k \in DOMAIN t.buckets[n].blobs :
           t.buckets[m].blobs[j] = t.buckets[n].blobs[k] => m = n /\ j = k
    /\ \A d \in t.dirents, m \in AllMimes : \A j \in DOMAIN t.buckets[m].blobs :
         d.key # t.buckets[m].blobs[j]

\* What was there stays, and what is new went to the pipeline.
Grows(t, u) ==
    /\ DOMAIN t.slots \subseteq DOMAIN u.slots
    /\ \A i \in DOMAIN t.slots : u.slots[i] = t.slots[i]
    /\ \A i \in DOMAIN u.slots \ DOMAIN t.slots : u.slots[i].route = "pipe"
    /\ t.dirents \subseteq u.dirents
    /\ t.pipe = "lost" => u.pipe = "lost"

\* The outcome of adding entries with the keys K to t.
Added(t, o, K) ==
    /\ IsOutcome(o)
    /\ Sound(o.s)
    /\ Small(o.s)
    /\ Grows(t, o.s)
    /\ o.s.counted = t.counted
    /\ Articles(t) \subseteq Articles(o.s)
    /\ Articles(o.s) \subseteq Articles(t) \cup K
    /\ o.res \in {"ok", "mime", "io", "panic"}
    /\ o.res = "ok" => /\ Articles(o.s) = Articles(t) \cup K
                       /\ t.pipe # "lost" => o.s.pipe # "lost"
    /\ o.res = "panic" => t.pipe = "lost"

----------------------------------------------------------------------------
(* The inductive invariant *)

Names(q) == {q[i].key : i \in DOMAIN q}

Distinct(q) == \A i, j \in DOMAIN q : q[i].key = q[j].key => i = j

RedirectKeys == {r.key : r \in redirs}

MainKeys == {MainPage : p \in main}

FlightType == [key : AllKeys, mime : AllMimes, expected : SUBSET Nat,
               route : {"buffered", "raw", "zstd"}, slot : Nat, written : Nat,
               body : Nat, torn : BOOLEAN]

WriterTypes ==
    /\ mode \in {"buffered", "streaming", "draining", "dropping"} \cup Ended
    /\ items \in Seq(ItemType)
    /\ metas \in Seq(ItemType)
    /\ redirs \subseteq [key : Paths \cup {MainPage}, target : Paths]
    /\ main \subseteq Paths
    /\ \A p, q \in main : p = q
    /\ accepted \subseteq keys
    /\ keys \subseteq AllKeys
    /\ inflight \subseteq FlightType
    /\ \A f, g \in inflight : f = g
    /\ tasks \in [DOMAIN tasks -> {"running", "done", "failed"}]
    /\ mode = "buffered" => s = NewStreamer /\ inflight = {} /\ DOMAIN tasks = {}
    /\ mode # "buffered" /\ mode \notin {"dropping", "failed"} => items = << >>
    /\ mode \in {"draining", "done"} => inflight = {}

StreamedSlots == {i \in DOMAIN s.slots : s.slots[i].route # "pipe"}

\* A streamed slot is that of the item in flight or of a thread, until the
\* build is given up.
SlotsOwned ==
    /\ DOMAIN tasks \cup FlightSlots \subseteq StreamedSlots
    /\ mode \notin {"dropping", "failed"} =>
         StreamedSlots \subseteq DOMAIN tasks \cup FlightSlots
    /\ FlightSlots \cap DOMAIN tasks = {}

\* Streamed bodies have the lengths that were promised, save torn raw ones.
BodyAsCounted ==
    \A f \in inflight : f.route # "buffered" =>
      /\ f.slot \in DOMAIN s.slots
      /\ s.slots[f.slot].route = f.route
      /\ s.slots[f.slot].blobs = <<f.key>>
      /\ f.expected = {s.slots[f.slot].size}
      /\ f.torn \/ f.body = f.written

TasksExact ==
    \A i \in DOMAIN tasks :
      /\ Len(s.slots[i].blobs) = 1
      /\ Dirent(s, i, 1) \in s.dirents
      /\ s.slots[i].torn \/ s.slots[i].body = s.slots[i].size
      /\ tasks[i] = "done" /\ s.slots[i].route = "zstd" =>
           s.slots[i].body = s.slots[i].size

\* Every entry is from an add, and the item in flight is not yet.
Working == mode \in {"buffered", "streaming"} /\ s.pipe # "lost"

KeysKnown ==
    /\ mode \in {"buffered", "streaming"} =>
         /\ Names(items) \cup Names(metas) \cup RedirectKeys \cup MainKeys \subseteq accepted
         /\ MainPage \notin RedirectKeys
    /\ Working => Articles(s) \subseteq accepted
    /\ \A f \in inflight : f.key \in keys \ accepted

KeysApart ==
    Working =>
      /\ Unique(s)
      /\ Distinct(items) /\ Distinct(metas)
      /\ \A q, r \in redirs : q.key = r.key => q = r
      /\ Articles(s) \cap (Names(metas) \cup RedirectKeys \cup MainKeys) = {}
      /\ Names(items) \cap (Names(metas) \cup RedirectKeys \cup MainKeys) = {}
      /\ Names(metas) \cap (RedirectKeys \cup MainKeys) = {}

\* What was accepted is kept somewhere.
AllPlaced ==
    mode \in {"buffered", "streaming"} /\ ~startFailed =>
      accepted \subseteq Articles(s) \cup Names(items) \cup Names(metas)
                           \cup RedirectKeys \cup MainKeys

Assembled ==
    mode \in {"draining", "done"} =>
      /\ Empty(s)
      /\ {Counter, Listing} \subseteq Articles(s)
      /\ ~startFailed => accepted \subseteq Articles(s) \cup RedirectKeys
      /\ RedirectKeys \subseteq accepted
      /\ s.pipe # "lost" =>
           /\ Articles(s) \subseteq accepted \cup {Counter, Listing}
           /\ Counter \notin accepted => s.counted = Articles(s) \cap Paths

Finished ==
    mode = "done" =>
      /\ s.pipe # "lost"
      /\ \A i \in DOMAIN tasks : tasks[i] = "done"
      /\ file = s.sent \o Streamed

WriterInv ==
    /\ WriterTypes
    /\ Sound(s)
    /\ Small(s)
    /\ SlotsOwned
    /\ BodyAsCounted
    /\ TasksExact
    /\ ScratchFilesOwned
    /\ KeysKnown
    /\ KeysApart
    /\ AllPlaced
    /\ Assembled
    /\ Finished
    /\ DuplicatesRefusedEarly

\* The failure of the pipeline has been reported by the time a panic is near.
HandleInv ==
    /\ WriterInv
    /\ told = accepted
    /\ mode \in {"buffered", "streaming"} => why = "none"
    /\ s.pipe = "lost" /\ mode \in {"buffered", "streaming", "draining"} => warned
    /\ why = "panic" => warned
    /\ AbortsForetold

----------------------------------------------------------------------------
(* The operations of the Streamer *)

\* The keys of the writer are keys, and no content paths.
LEMMA KeyFacts ==
  /\ {Counter, MainPage, Listing} \subseteq AllKeys \ Paths
  /\ Paths \cup MetaNames \cup OtherKeys \subseteq AllKeys
  /\ Paths \cap MetaNames = {}
  /\ MetaMime \in AllMimes
  /\ Counter # MainPage /\ Counter # Listing /\ MainPage # Listing
BY KeysAssumption DEF AllKeys, AllMimes, Counter, MainPage, Listing

\* t and u differ in the MIME list only.
Alike(t, u) ==
    /\ u \in StreamerType
    /\ u.buckets = t.buckets
    /\ u.slots = t.slots
    /\ u.dirents = t.dirents
    /\ u.pipe = t.pipe
    /\ u.sent = t.sent
    /\ u.counted = t.counted

\* Interning a MIME type disturbs nothing else.
LEMMA AlikeKeeps ==
  ASSUME NEW t \in StreamerType, NEW u, Alike(t, u)
  PROVE  /\ Sound(t) => Sound(u)
         /\ Small(t) => Small(u)
         /\ Empty(t) => Empty(u)
         /\ Unique(t) => Unique(u)
         /\ Articles(u) = Articles(t)
         /\ Grows(t, u)
<1>1. Sound(t) => Sound(u)
  BY DEF Alike, Sound, BucketsExact, DirentsExact, SentExact, PipeSlots, Dirent
<1>2. (Small(t) => Small(u)) /\ (Empty(t) => Empty(u)) /\ (Unique(t) => Unique(u))
  BY DEF Alike, Small, Empty, Unique
<1>3. Articles(u) = Articles(t)
  BY DEF Alike, Articles
<1>4. Grows(t, u)
  BY DEF Alike, Grows
<1>5. QED BY <1>1, <1>2, <1>3, <1>4

\* intern_mime gives the Streamer back with at most one more MIME type.
LEMMA Interned ==
  ASSUME NEW t \in StreamerType, NEW m \in AllMimes \cup {ListingMime},
         NEW o \in InternMime(t, m)
  PROVE  IsOutcome(o) /\ Alike(t, o.s) /\ o.res \in {"ok", "mime"}
<1>1. CASE o = [s |-> [t EXCEPT !.mimes = @ \cup {m}], res |-> "ok"]
  BY <1>1 DEF Alike, StreamerType, IsOutcome
<1>2. CASE o = [s |-> t, res |-> "mime"]
  BY <1>2 DEF Alike, IsOutcome
<1>3. QED BY <1>1, <1>2 DEF InternMime, Ok, Fails

\* Whatever Send does, it does to pipe and sent.
LEMMA SentOrNot ==
  ASSUME NEW t \in StreamerType, NEW i \in Nat, NEW o \in Send(t, i)
  PROVE  /\ IsOutcome(o)
         /\ o.s \in StreamerType
         /\ o.s.buckets = t.buckets
         /\ o.s.slots = t.slots
         /\ o.s.dirents = t.dirents
         /\ o.s.counted = t.counted
         /\ \/ /\ o.res = "ok" /\ t.pipe # "lost" /\ o.s.pipe # "lost"
               /\ o.s.sent = Append(t.sent, i)
            \/ /\ o.res = "io" /\ o.s.pipe = "lost" /\ o.s.sent = t.sent
            \/ /\ o.res = "panic" /\ t.pipe = "lost" /\ o.s.pipe = "lost"
               /\ o.s.sent = t.sent
<1>1. CASE /\ t.pipe # "lost"
           /\ o = [s |-> [t EXCEPT !.pipe = "on", !.sent = Append(@, i)], res |-> "ok"]
  <2>1. Append(t.sent, i) \in Seq(Nat)
    BY DEF StreamerType
  <2>2. QED BY <1>1, <2>1 DEF StreamerType, IsOutcome
<1>2. CASE o = [s |-> [t EXCEPT !.pipe = "lost"], res |-> "io"]
  BY <1>2 DEF StreamerType, IsOutcome
<1>3. CASE t.pipe = "lost" /\ o = [s |-> t, res |-> "panic"]
  BY <1>3 DEF IsOutcome
<1>4. t.pipe \in {"off", "on", "lost"}
  BY DEF StreamerType
<1>5. QED BY <1>1, <1>2, <1>3, <1>4 DEF Send, Ok, Fails

\* A new cluster, with its dirents, is handed to the pipeline.
LEMMA Committed ==
  ASSUME NEW t, Sound(t), NEW u \in StreamerType, BucketsExact(u),
         NEW slot \in SlotType, slot.route = "pipe", Packed(slot),
         u.slots = Append(t.slots, slot),
         u.dirents = t.dirents
           \cup {[key |-> slot.blobs[b], cluster |-> Len(t.slots) + 1, blob |-> b]
                   : b \in DOMAIN slot.blobs},
         u.pipe = t.pipe, u.sent = t.sent,
         NEW o \in Send(u, Len(t.slots) + 1)
  PROVE  /\ IsOutcome(o)
         /\ Sound(o.s)
         /\ Grows(t, o.s)
         /\ o.s.buckets = u.buckets /\ o.s.dirents = u.dirents /\ o.s.counted = u.counted
         /\ o.res \in {"ok", "io", "panic"}
         /\ o.res = "ok" => t.pipe # "lost" /\ o.s.pipe # "lost"
         /\ o.res # "ok" => o.s.pipe = "lost"
         /\ o.res = "panic" => t.pipe = "lost"
<1> DEFINE i == Len(t.slots) + 1
<1>1. t \in StreamerType /\ t.slots \in Seq(SlotType) /\ i \in Nat /\ i \notin DOMAIN t.slots
  BY DEF Sound, StreamerType
<1>2. /\ DOMAIN u.slots = DOMAIN t.slots \cup {i}
      /\ u.slots[i] = slot
      /\ \A k \in DOMAIN t.slots : u.slots[k] = t.slots[k]
  BY <1>1
<1>3. PipeSlots(u) = PipeSlots(t) \cup {i}
  BY <1>1, <1>2 DEF PipeSlots
<1>4. /\ IsOutcome(o)
      /\ o.s \in StreamerType
      /\ o.s.buckets = u.buckets
      /\ o.s.slots = u.slots
      /\ o.s.dirents = u.dirents
      /\ o.s.counted = u.counted
      /\ \/ /\ o.res = "ok" /\ u.pipe # "lost" /\ o.s.pipe # "lost"
            /\ o.s.sent = Append(u.sent, i)
         \/ /\ o.res = "io" /\ o.s.pipe = "lost" /\ o.s.sent = u.sent
         \/ /\ o.res = "panic" /\ u.pipe = "lost" /\ o.s.pipe = "lost"
            /\ o.s.sent = u.sent
  BY <1>1, SentOrNot
<1>5. PipeSlots(o.s) = PipeSlots(t) \cup {i}
  BY <1>3, <1>4 DEF PipeSlots
<1>6. BucketsExact(o.s)
  BY <1>4 DEF BucketsExact
<1>7. DirentsExact(o.s)
  <2>1. ASSUME NEW d \in o.s.dirents
        PROVE  /\ d.cluster \in DOMAIN u.slots
               /\ d.blob \in DOMAIN u.slots[d.cluster].blobs
               /\ d.key = u.slots[d.cluster].blobs[d.blob]
    <3>1. CASE d \in t.dirents
      BY <1>2, <3>1 DEF Sound, DirentsExact
    <3>2. CASE d \notin t.dirents
      BY <1>2, <1>4, <2>1, <3>2
    <3>3. QED BY <3>1, <3>2
  <2>2. ASSUME NEW k \in PipeSlots(o.s), NEW b \in DOMAIN u.slots[k].blobs
        PROVE  Dirent(u, k, b) \in u.dirents
    <3>1. CASE k = i
      BY <1>2, <2>2, <3>1 DEF Dirent
    <3>2. CASE k # i
      <4>1. k \in PipeSlots(t) /\ k \in DOMAIN t.slots
        BY <1>5, <3>2 DEF PipeSlots
      <4>2. Dirent(t, k, b) \in t.dirents
        BY <1>2, <2>2, <4>1 DEF Sound, DirentsExact
      <4>3. QED BY <1>2, <4>1, <4>2 DEF Dirent
    <3>3. QED BY <3>1, <3>2
  <2>3. QED BY <1>4, <2>1, <2>2 DEF DirentsExact, Dirent
<1>8. SentExact(o.s)
  <2>1. /\ t.sent \in Seq(Nat) /\ IsInjective(t.sent) /\ Range(t.sent) \subseteq PipeSlots(t)
        /\ t.pipe # "lost" => Range(t.sent) = PipeSlots(t)
    BY DEF Sound, SentExact, StreamerType
  <2>2. i \notin Range(t.sent)
    BY <1>1, <2>1 DEF PipeSlots
  <2>3. CASE o.res = "ok"
    <3>1. o.s.sent = Append(t.sent, i) /\ t.pipe # "lost"
      BY <1>4, <2>3
    <3>2. Range(o.s.sent) = Range(t.sent) \cup {i} /\ IsInjective(o.s.sent)
      BY <1>1, <2>1, <2>2, <3>1, PutLast
    <3>3. QED BY <1>5, <2>1, <3>1, <3>2 DEF SentExact
  <2>4. CASE o.res # "ok"
    BY <1>4, <1>5, <2>1, <2>4 DEF SentExact
  <2>5. QED BY <2>3, <2>4
<1>9. \A k \in PipeSlots(o.s) : Packed(o.s.slots[k])
  <2>1. \A k \in PipeSlots(t) : Packed(t.slots[k]) /\ k \in DOMAIN t.slots
    BY DEF Sound, PipeSlots
  <2>2. QED BY <1>2, <1>4, <1>5, <2>1
<1>10. Grows(t, o.s)
  BY <1>1, <1>2, <1>4 DEF Grows
<1>11. QED BY <1>4, <1>6, <1>7, <1>8, <1>9, <1>10 DEF Sound

\* The keys of the articles of t: in its dirents, or in a bucket.
LEMMA ArticlesAre ==
  ASSUME NEW t, BucketsExact(t), NEW k
  PROVE  k \in Articles(t) <=> \/ \E d \in t.dirents : d.key = k
                               \/ \E m \in AllMimes : \E j \in DOMAIN t.buckets[m].blobs :
                                    t.buckets[m].blobs[j] = k
<1>1. ASSUME NEW m \in AllMimes, NEW j \in DOMAIN t.buckets[m].blobs,
             t.buckets[m].blobs[j] = k
      PROVE  k \in Articles(t)
  <2>1. [key |-> k, blob |-> j] \in t.buckets[m].pending
    BY <1>1 DEF BucketsExact
  <2>2. \E p \in UNION {t.buckets[n].pending : n \in AllMimes} : p.key = k
    BY <2>1
  <2>3. QED BY <2>2 DEF Articles
<1>2. ASSUME NEW m \in AllMimes, NEW p \in t.buckets[m].pending, p.key = k
      PROVE  \E j \in DOMAIN t.buckets[m].blobs : t.buckets[m].blobs[j] = k
  BY <1>2 DEF BucketsExact
<1>3. QED BY <1>1, <1>2 DEF Articles

\* Flush of a bucket: its blobs become a cluster with its dirents, and whether
\* or not the pipeline takes it no article is lost.
LEMMA Flushed ==
  ASSUME NEW t, Sound(t), NEW m \in AllMimes, Packed(t.buckets[m]), NEW o \in Flush(t, m)
  PROVE  /\ IsOutcome(o)
         /\ Sound(o.s)
         /\ Grows(t, o.s)
         /\ o.s.counted = t.counted
         /\ Articles(o.s) = Articles(t)
         /\ Unique(t) => Unique(o.s)
         /\ o.s.buckets[m].blobs = << >>
         /\ o.s.buckets[m] = Bucket \/ o.s = t
         /\ \A n \in AllMimes : n # m => o.s.buckets[n] = t.buckets[n]
         /\ o.res \in {"ok", "io", "panic"}
         /\ o.res = "ok" /\ t.pipe # "lost" => o.s.pipe # "lost"
         /\ o.res # "ok" => o.s.pipe = "lost"
         /\ o.res = "panic" => t.pipe = "lost"
<1> DEFINE b == t.buckets[m]
           i == Len(t.slots) + 1
           slot == [blobs |-> b.blobs, size |-> b.size, body |-> b.size,
                    route |-> "pipe", torn |-> FALSE]
           commits == {[key |-> p.key, cluster |-> i, blob |-> p.blob] : p \in b.pending}
           u == [t EXCEPT !.buckets[m] = Bucket, !.slots = Append(@, slot),
                          !.dirents = @ \cup commits]
<1>1. t \in StreamerType /\ b \in BucketType /\ i \in Nat
  BY DEF Sound, StreamerType
<1>2. CASE b.blobs = << >>
  <2>1. o = [s |-> t, res |-> "ok"]
    BY <1>2 DEF Flush, Ok
  <2>2. Grows(t, t)
    BY DEF Grows
  <2>3. QED BY <1>2, <2>1, <2>2 DEF IsOutcome
<1>3. CASE b.blobs # << >>
  <2>1. o \in Send(u, i)
    BY <1>3 DEF Flush
  <2>2. slot \in SlotType /\ slot.route = "pipe" /\ Packed(slot)
    BY <1>1 DEF SlotType, BucketType, Packed
  <2>3. b.pending = {[key |-> b.blobs[j], blob |-> j] : j \in DOMAIN b.blobs}
    BY DEF Sound, BucketsExact
  <2>4. commits = {[key |-> b.blobs[j], cluster |-> i, blob |-> j] : j \in DOMAIN b.blobs}
    <3>1. ASSUME NEW p \in b.pending
          PROVE  \E j \in DOMAIN b.blobs : p.key = b.blobs[j] /\ p.blob = j
      BY <2>3
    <3>2. ASSUME NEW j \in DOMAIN b.blobs
          PROVE  \E p \in b.pending : p.key = b.blobs[j] /\ p.blob = j
      <4>1. [key |-> b.blobs[j], blob |-> j] \in b.pending
        BY <2>3
      <4>2. QED BY <4>1
    <3> HIDE DEF b, i
    <3>3. QED BY <3>1, <3>2
  <2>5. u \in StreamerType
    <3>1. \A j \in DOMAIN b.blobs : b.blobs[j] \in AllKeys /\ j \in Nat
      BY <1>1 DEF BucketType
    <3>2. commits \subseteq DirentType
      BY <1>1, <2>4, <3>1 DEF DirentType
    <3>3. Bucket \in BucketType
      BY DEF Bucket, BucketType
    <3>4. Append(t.slots, slot) \in Seq(SlotType)
      BY <1>1, <2>2 DEF StreamerType
    <3>5. [t.buckets EXCEPT ![m] = Bucket] \in [AllMimes -> BucketType]
      BY <1>1, <3>3 DEF StreamerType
    <3>6. t.dirents \cup commits \in SUBSET DirentType
      BY <1>1, <3>2 DEF StreamerType
    <3> HIDE DEF commits, slot, i, b
    <3>7. QED BY <1>1, <3>4, <3>5, <3>6 DEF StreamerType
  <2>6. /\ u.slots = Append(t.slots, slot) /\ u.dirents = t.dirents \cup commits
        /\ u.pipe = t.pipe /\ u.sent = t.sent /\ u.counted = t.counted
        /\ u.buckets = [t.buckets EXCEPT ![m] = Bucket]
    <3> HIDE DEF commits, slot, i, b
    <3>1. QED BY <1>1 DEF StreamerType
  <2>7. /\ u.buckets[m] = Bucket
        /\ \A n \in AllMimes : n # m => u.buckets[n] = t.buckets[n]
    BY <1>1, <2>6 DEF StreamerType
  <2>8. Bucket.blobs = << >> /\ Bucket.pending = {} /\ DOMAIN Bucket.blobs = {}
    BY DEF Bucket
  <2>9. BucketsExact(u)
    <3>1. \A n \in AllMimes : n # m =>
            t.buckets[n].pending = {[key |-> t.buckets[n].blobs[j], blob |-> j]
                                      : j \in DOMAIN t.buckets[n].blobs}
      BY DEF Sound, BucketsExact
    <3> HIDE DEF u
    <3>2. QED BY <2>7, <2>8, <3>1 DEF BucketsExact
  <2>10. /\ IsOutcome(o)
         /\ Sound(o.s)
         /\ Grows(t, o.s)
         /\ o.s.buckets = u.buckets /\ o.s.dirents = u.dirents /\ o.s.counted = u.counted
         /\ o.res \in {"ok", "io", "panic"}
         /\ o.res = "ok" => t.pipe # "lost" /\ o.s.pipe # "lost"
         /\ o.res # "ok" => o.s.pipe = "lost"
         /\ o.res = "panic" => t.pipe = "lost"
    <3>1. \A x : u.dirents = t.dirents \cup x => u.dirents = t.dirents \cup x
      OBVIOUS
    <3>2. u.dirents = t.dirents
            \cup {[key |-> slot.blobs[j], cluster |-> Len(t.slots) + 1, blob |-> j]
                    : j \in DOMAIN slot.blobs}
      BY <2>4, <2>6
    <3> HIDE DEF u, commits, slot
    <3>3. QED BY <2>1, <2>2, <2>5, <2>6, <2>9, <3>2, Committed
  <2>11. \A d : d \in u.dirents <=>
              d \in t.dirents \/ \E j \in DOMAIN b.blobs :
                                   d = [key |-> b.blobs[j], cluster |-> i, blob |-> j]
    BY <2>4, <2>6
  <2>12. ASSUME NEW k PROVE k \in Articles(o.s) <=> k \in Articles(t)
    <3>1. k \in Articles(o.s) <=> \/ \E d \in u.dirents : d.key = k
                                  \/ \E n \in AllMimes : \E j \in DOMAIN u.buckets[n].blobs :
                                       u.buckets[n].blobs[j] = k
      <4> HIDE DEF u
      <4>1. BucketsExact(o.s)
        BY <2>10 DEF Sound
      <4>2. QED BY <2>10, <4>1, ArticlesAre
    <3>2. k \in Articles(t) <=> \/ \E d \in t.dirents : d.key = k
                                \/ \E n \in AllMimes : \E j \in DOMAIN t.buckets[n].blobs :
                                     t.buckets[n].blobs[j] = k
      BY ArticlesAre DEF Sound
    <3>3. (\E d \in u.dirents : d.key = k)
            <=> (\E d \in t.dirents : d.key = k) \/ \E j \in DOMAIN b.blobs : b.blobs[j] = k
      <4> HIDE DEF u, b, i
      <4>1. \A j \in DOMAIN b.blobs :
              [key |-> b.blobs[j], cluster |-> i, blob |-> j] \in u.dirents
        BY <2>11
      <4>2. \A j \in DOMAIN b.blobs : b.blobs[j] = k => \E d \in u.dirents : d.key = k
        BY <4>1
      <4>3. \A d \in u.dirents : d \notin t.dirents =>
              \E j \in DOMAIN b.blobs : d.key = b.blobs[j]
        BY <2>11
      <4>4. QED BY <2>11, <4>2, <4>3
    <3>4. (\E n \in AllMimes : \E j \in DOMAIN u.buckets[n].blobs : u.buckets[n].blobs[j] = k)
            <=> \E n \in AllMimes : n # m /\ \E j \in DOMAIN t.buckets[n].blobs :
                                               t.buckets[n].blobs[j] = k
      <4> HIDE DEF u
      <4>1. QED BY <2>7, <2>8
    <3> HIDE DEF u
    <3>5. QED BY <3>1, <3>2, <3>3, <3>4
  <2>13. ASSUME Unique(t) PROVE Unique(o.s)
    <3>1. \A d \in t.dirents : d.cluster # i
      BY <1>1 DEF Sound, DirentsExact, StreamerType
    <3>2. \A d, e \in u.dirents : d.key = e.key => d = e
      <4> HIDE DEF u, i
      <4>1. QED BY <2>11, <2>13 DEF Unique
    <3>3. \A n, q \in AllMimes :
           \A j \in DOMAIN u.buckets[n].blobs, k \in DOMAIN u.buckets[q].blobs :
             u.buckets[n].blobs[j] = u.buckets[q].blobs[k] => n = q /\ j = k
      <4> HIDE DEF u
      <4>1. QED BY <2>7, <2>8, <2>13 DEF Unique
    <3>4. \A d \in u.dirents, n \in AllMimes : \A j \in DOMAIN u.buckets[n].blobs :
            d.key # u.buckets[n].blobs[j]
      <4>1. \A d \in u.dirents, n \in AllMimes : n # m => \A j \in DOMAIN t.buckets[n].blobs :
              d.key # t.buckets[n].blobs[j]
        <5> HIDE DEF u, i
        <5>1. QED BY <2>11, <2>13 DEF Unique
      <4> HIDE DEF u
      <4>2. QED BY <2>7, <2>8, <4>1
    <3> HIDE DEF u
    <3>5. QED BY <2>10, <3>2, <3>3, <3>4 DEF Unique
  <2>14. Articles(o.s) = Articles(t)
    BY <2>12
  <2> HIDE DEF u
  <2>15. QED BY <2>6, <2>7, <2>8, <2>10, <2>13, <2>14
<1>4. QED BY <1>2, <1>3

\* Put adds one blob, and its pending dirent, to one bucket.
LEMMA PutIn ==
  ASSUME NEW t, Sound(t), NEW it \in ItemType
  PROVE  /\ Sound(Put(t, it))
         /\ Grows(t, Put(t, it))
         /\ Put(t, it).counted = t.counted
         /\ Put(t, it).pipe = t.pipe
         /\ Articles(Put(t, it)) = Articles(t) \cup {it.key}
         /\ Unique(t) /\ it.key \notin Articles(t) => Unique(Put(t, it))
         /\ \A n \in AllMimes : n # it.mime => Put(t, it).buckets[n] = t.buckets[n]
         /\ Put(t, it).buckets[it.mime].blobs = Append(t.buckets[it.mime].blobs, it.key)
         /\ Put(t, it).buckets[it.mime].size = t.buckets[it.mime].size + it.size
<1> DEFINE m == it.mime
           b == t.buckets[m]
           c == [blobs   |-> Append(b.blobs, it.key),
                 size    |-> b.size + it.size,
                 pending |-> b.pending \cup {[key |-> it.key, blob |-> Len(b.blobs) + 1]}]
           u == [t EXCEPT !.buckets[m] = c]
<1>1. /\ t \in StreamerType /\ m \in AllMimes /\ b \in BucketType
      /\ it.key \in AllKeys /\ it.size \in Nat
  BY DEF Sound, StreamerType, ItemType
<1>2. Put(t, it) = u
  BY DEF Put
<1>3. c \in BucketType
  <2>1. Append(b.blobs, it.key) \in Seq(AllKeys) /\ b.size + it.size \in Nat
    BY <1>1 DEF BucketType
  <2>2. [key |-> it.key, blob |-> Len(b.blobs) + 1] \in [key : AllKeys, blob : Nat]
    BY <1>1 DEF BucketType
  <2>3. c.pending \in SUBSET [key : AllKeys, blob : Nat]
    BY <1>1, <2>2 DEF BucketType
  <2> HIDE DEF b
  <2>4. QED BY <2>1, <2>3 DEF BucketType
<1>4. /\ u \in StreamerType
      /\ u.buckets = [t.buckets EXCEPT ![m] = c]
      /\ u.slots = t.slots /\ u.dirents = t.dirents /\ u.pipe = t.pipe
      /\ u.sent = t.sent /\ u.counted = t.counted
  <2> HIDE DEF c, m
  <2>1. [t.buckets EXCEPT ![m] = c] \in [AllMimes -> BucketType]
    BY <1>1, <1>3 DEF StreamerType
  <2>2. QED BY <1>1, <2>1 DEF StreamerType
<1>5. u.buckets[m] = c /\ \A n \in AllMimes : n # m => u.buckets[n] = t.buckets[n]
  <2> HIDE DEF c, m, u
  <2>1. QED BY <1>1, <1>4 DEF StreamerType
<1>6. /\ b.blobs \in Seq(AllKeys) /\ Len(b.blobs) \in Nat
      /\ DOMAIN c.blobs = DOMAIN b.blobs \cup {Len(b.blobs) + 1}
      /\ Len(b.blobs) + 1 \notin DOMAIN b.blobs
      /\ c.blobs[Len(b.blobs) + 1] = it.key
      /\ \A j \in DOMAIN b.blobs : c.blobs[j] = b.blobs[j]
  <2>1. b.blobs \in Seq(AllKeys) /\ it.key \in AllKeys /\ c.blobs = Append(b.blobs, it.key)
    BY <1>1 DEF BucketType
  <2> HIDE DEF b, c
  <2>2. QED BY <2>1
<1>7. BucketsExact(u)
  <2>1. b.pending = {[key |-> b.blobs[j], blob |-> j] : j \in DOMAIN b.blobs}
    BY <1>1 DEF Sound, BucketsExact
  <2>2. c.pending = {[key |-> c.blobs[j], blob |-> j] : j \in DOMAIN c.blobs}
    <3>1. c.pending = b.pending \cup {[key |-> it.key, blob |-> Len(b.blobs) + 1]}
      OBVIOUS
    <3> HIDE DEF b, c
    <3>2. QED BY <1>6, <2>1, <3>1
  <2>3. \A n \in AllMimes : n # m =>
          t.buckets[n].pending = {[key |-> t.buckets[n].blobs[j], blob |-> j]
                                    : j \in DOMAIN t.buckets[n].blobs}
    BY DEF Sound, BucketsExact
  <2> HIDE DEF c, m, u
  <2>4. QED BY <1>5, <2>2, <2>3 DEF BucketsExact
<1>8. Sound(u)
  <2> HIDE DEF u
  <2>1. PipeSlots(u) = PipeSlots(t)
    BY <1>4 DEF PipeSlots
  <2>2. DirentsExact(u)
    BY <1>4, <2>1 DEF Sound, DirentsExact, Dirent
  <2>3. SentExact(u)
    BY <1>4, <2>1 DEF Sound, SentExact
  <2>4. QED BY <1>4, <1>7, <2>1, <2>2, <2>3 DEF Sound
<1>9. Grows(t, u)
  <2> HIDE DEF u
  <2>1. QED BY <1>4 DEF Grows
<1>10. /\ (\E n \in AllMimes : \E j \in DOMAIN u.buckets[n].blobs : u.buckets[n].blobs[j] = it.key)
       /\ \A k : k # it.key =>
            ((\E n \in AllMimes : \E j \in DOMAIN u.buckets[n].blobs : u.buckets[n].blobs[j] = k)
               <=> \E n \in AllMimes : \E j \in DOMAIN t.buckets[n].blobs :
                     t.buckets[n].blobs[j] = k)
  <2>1. \E j \in DOMAIN c.blobs : c.blobs[j] = it.key
    <3> HIDE DEF b, c
    <3>1. QED BY <1>6
  <2>2. \A k : k # it.key => ((\E j \in DOMAIN c.blobs : c.blobs[j] = k)
                                <=> \E j \in DOMAIN b.blobs : b.blobs[j] = k)
    <3> HIDE DEF b, c
    <3>1. QED BY <1>6
  <2> HIDE DEF u, c, m
  <2>3. QED BY <1>1, <1>5, <2>1, <2>2
<1>11. Articles(u) = Articles(t) \cup {it.key}
  <2>1. ASSUME NEW k PROVE k \in Articles(u) <=> k \in Articles(t) \/ k = it.key
    <3>1. k \in Articles(u) <=> \/ \E d \in t.dirents : d.key = k
                                \/ \E n \in AllMimes : \E j \in DOMAIN u.buckets[n].blobs :
                                     u.buckets[n].blobs[j] = k
      <4> HIDE DEF u
      <4>1. k \in Articles(u) <=> \/ \E d \in u.dirents : d.key = k
                                  \/ \E n \in AllMimes : \E j \in DOMAIN u.buckets[n].blobs :
                                       u.buckets[n].blobs[j] = k
        BY ONLY <1>7, ArticlesAre
      <4>2. u.dirents = t.dirents
        BY <1>4
      <4>3. QED BY <4>1, <4>2
    <3>2. k \in Articles(t) <=> \/ \E d \in t.dirents : d.key = k
                                \/ \E n \in AllMimes : \E j \in DOMAIN t.buckets[n].blobs :
                                     t.buckets[n].blobs[j] = k
      BY ArticlesAre DEF Sound
    <3> HIDE DEF u
    <3>3. QED BY <1>10, <3>1, <3>2
  <2> HIDE DEF u
  <2>2. QED BY <2>1
<1>12. ASSUME Unique(t), it.key \notin Articles(t) PROVE Unique(u)
  <2>1. /\ \A d \in t.dirents : d.key # it.key
        /\ \A n \in AllMimes : \A j \in DOMAIN t.buckets[n].blobs :
             t.buckets[n].blobs[j] # it.key
    BY <1>12, ArticlesAre DEF Sound
  <2>2. \A n \in AllMimes : \A j \in DOMAIN u.buckets[n].blobs :
          \/ n = m /\ j = Len(b.blobs) + 1 /\ u.buckets[n].blobs[j] = it.key
          \/ j \in DOMAIN t.buckets[n].blobs /\ u.buckets[n].blobs[j] = t.buckets[n].blobs[j]
    <3>1. \A j \in DOMAIN c.blobs : \/ j = Len(b.blobs) + 1 /\ c.blobs[j] = it.key
                                    \/ j \in DOMAIN b.blobs /\ c.blobs[j] = b.blobs[j]
      <4> HIDE DEF b, c
      <4>1. QED BY <1>6
    <3> HIDE DEF u, c, m
    <3>2. QED BY <1>5, <3>1
  <2>3. \A d, e \in u.dirents : d.key = e.key => d = e
    <3> HIDE DEF u
    <3>1. QED BY <1>4, <1>12 DEF Unique
  <2>4. \A n, q \in AllMimes :
         \A j \in DOMAIN u.buckets[n].blobs, k \in DOMAIN u.buckets[q].blobs :
           u.buckets[n].blobs[j] = u.buckets[q].blobs[k] => n = q /\ j = k
    <3> HIDE DEF u, m, b
    <3>1. QED BY <1>12, <2>1, <2>2 DEF Unique
  <2>5. \A d \in u.dirents, n \in AllMimes : \A j \in DOMAIN u.buckets[n].blobs :
          d.key # u.buckets[n].blobs[j]
    <3> HIDE DEF u, m, b
    <3>1. QED BY <1>4, <1>12, <2>1, <2>2 DEF Unique
  <2> HIDE DEF u
  <2>6. QED BY <2>3, <2>4, <2>5 DEF Unique
<1>13. u.buckets[m].blobs = Append(b.blobs, it.key) /\ u.buckets[m].size = b.size + it.size
  <2>1. c.blobs = Append(b.blobs, it.key) /\ c.size = b.size + it.size
    OBVIOUS
  <2> HIDE DEF u, c, b
  <2>2. QED BY <1>5, <2>1
<1> HIDE DEF u
<1>14. QED BY <1>2, <1>4, <1>5, <1>8, <1>9, <1>11, <1>12, <1>13

\* Growth is transitive.
LEMMA GrowsOn ==
  ASSUME NEW t, NEW u, NEW v, Grows(t, u), Grows(u, v)
  PROVE  Grows(t, v)
<1>1. ASSUME NEW i \in DOMAIN v.slots \ DOMAIN t.slots PROVE v.slots[i].route = "pipe"
  <2>1. CASE i \in DOMAIN u.slots
    BY <1>1, <2>1 DEF Grows
  <2>2. CASE i \notin DOMAIN u.slots
    BY <1>1, <2>2 DEF Grows
  <2>3. QED BY <2>1, <2>2
<1>2. QED BY <1>1 DEF Grows

\* An item that fits its bucket, or has it for itself.
LEMMA Placed ==
  ASSUME NEW t, Sound(t), Small(t), NEW it \in ItemType, ~NeedsFlush(t, it),
         NEW o \in Place(t, it)
  PROVE  /\ Added(t, o, {it.key})
         /\ o.res # "ok" => o.s.pipe = "lost"
         /\ Unique(t) /\ it.key \notin Articles(t) => Unique(o.s)
<1> DEFINE u == Put(t, it)
           m == it.mime
<1>1. /\ Sound(u)
      /\ Grows(t, u)
      /\ u.counted = t.counted
      /\ u.pipe = t.pipe
      /\ Articles(u) = Articles(t) \cup {it.key}
      /\ Unique(t) /\ it.key \notin Articles(t) => Unique(u)
      /\ \A n \in AllMimes : n # m => u.buckets[n] = t.buckets[n]
      /\ u.buckets[m].blobs = Append(t.buckets[m].blobs, it.key)
      /\ u.buckets[m].size = t.buckets[m].size + it.size
  BY PutIn
<1>2. /\ t.buckets[m].blobs \in Seq(AllKeys) /\ t.buckets[m].size \in Nat
      /\ m \in AllMimes /\ it.size \in Nat /\ it.key \in AllKeys
  BY DEF Sound, StreamerType, BucketType, ItemType
<1>3. Target \in Nat /\ Target > 0
  BY TargetAssumption
<1>4. CASE u.buckets[m].size >= Target
  <2>1. o \in Flush(u, m)
    BY <1>4 DEF Place
  <2>2. Packed(u.buckets[m])
    <3>1. CASE t.buckets[m].blobs = << >>
      <4>1. Len(u.buckets[m].blobs) = 1
        BY <1>1, <1>2, <3>1
      <4>2. QED BY <4>1 DEF Packed
    <3>2. CASE t.buckets[m].blobs # << >>
      <4>1. ~(u.buckets[m].size > Target)
        BY <1>1, <3>2 DEF NeedsFlush
      <4>2. QED BY <4>1 DEF Packed
    <3>3. QED BY <3>1, <3>2
  <2> HIDE DEF u, m
  <2>3. /\ IsOutcome(o)
        /\ Sound(o.s)
        /\ Grows(u, o.s)
        /\ o.s.counted = u.counted
        /\ Articles(o.s) = Articles(u)
        /\ Unique(u) => Unique(o.s)
        /\ o.s.buckets[m].blobs = << >>
        /\ o.s.buckets[m] = Bucket \/ o.s = u
        /\ \A n \in AllMimes : n # m => o.s.buckets[n] = u.buckets[n]
        /\ o.res \in {"ok", "io", "panic"}
        /\ o.res = "ok" /\ u.pipe # "lost" => o.s.pipe # "lost"
        /\ o.res # "ok" => o.s.pipe = "lost"
        /\ o.res = "panic" => u.pipe = "lost"
    BY <1>1, <1>2, <2>1, <2>2, Flushed
  <2>4. o.s.buckets[m] = Bucket
    <3>1. u.buckets[m].blobs # << >>
      BY <1>1, <1>2
    <3>2. QED BY <2>3, <3>1
  <2>5. Small(o.s)
    <3>1. Bucket.size = 0
      BY DEF Bucket
    <3>2. QED BY <1>1, <1>3, <2>3, <2>4, <3>1 DEF Small
  <2>6. Grows(t, o.s)
    BY <1>1, <2>3, GrowsOn
  <2>7. QED BY <1>1, <2>3, <2>5, <2>6 DEF Added
<1>5. CASE ~(u.buckets[m].size >= Target)
  <2>1. o.s = u /\ o.res = "ok"
    BY <1>5 DEF Place, Ok
  <2> HIDE DEF u, m
  <2>2. Small(u)
    BY <1>1, <1>2, <1>3, <1>5 DEF Small
  <2>3. IsOutcome(o)
    BY <1>5 DEF Place, Ok, IsOutcome, u, m
  <2>4. QED BY <1>1, <2>1, <2>2, <2>3 DEF Added
<1>6. QED BY <1>4, <1>5

\* After MakeRoom the item fits its bucket, or has it for itself.
LEMMA RoomMade ==
  ASSUME NEW t, Sound(t), Small(t), NEW it \in ItemType, NEW o \in MakeRoom(t, it)
  PROVE  /\ IsOutcome(o)
         /\ Sound(o.s)
         /\ Small(o.s)
         /\ Grows(t, o.s)
         /\ o.s.counted = t.counted
         /\ Articles(o.s) = Articles(t)
         /\ Unique(t) => Unique(o.s)
         /\ o.res \in {"ok", "io", "panic"}
         /\ o.res = "ok" => ~NeedsFlush(o.s, it) /\ (t.pipe # "lost" => o.s.pipe # "lost")
         /\ o.res # "ok" => o.s.pipe = "lost"
         /\ o.res = "panic" => t.pipe = "lost"
<1>1. /\ it.mime \in AllMimes
      /\ Target \in Nat /\ Target > 0
      /\ \A m \in AllMimes : t.buckets[m].size \in Nat /\ t.buckets[m].size < Target
  BY TargetAssumption DEF Sound, Small, StreamerType, BucketType, ItemType
<1>2. CASE NeedsFlush(t, it)
  <2>1. o \in Flush(t, it.mime)
    BY <1>2 DEF MakeRoom
  <2>2. Packed(t.buckets[it.mime])
    BY <1>1 DEF Packed
  <2>3. /\ IsOutcome(o)
        /\ Sound(o.s)
        /\ Grows(t, o.s)
        /\ o.s.counted = t.counted
        /\ Articles(o.s) = Articles(t)
        /\ Unique(t) => Unique(o.s)
        /\ o.s.buckets[it.mime].blobs = << >>
        /\ o.s.buckets[it.mime] = Bucket \/ o.s = t
        /\ \A n \in AllMimes : n # it.mime => o.s.buckets[n] = t.buckets[n]
        /\ o.res \in {"ok", "io", "panic"}
        /\ o.res = "ok" /\ t.pipe # "lost" => o.s.pipe # "lost"
        /\ o.res # "ok" => o.s.pipe = "lost"
        /\ o.res = "panic" => t.pipe = "lost"
    BY <1>1, <2>1, <2>2, Flushed
  <2>4. Small(o.s)
    <3>1. Bucket.size = 0
      BY DEF Bucket
    <3>2. QED BY <1>1, <2>3, <3>1 DEF Small
  <2>5. ~NeedsFlush(o.s, it)
    BY <2>3 DEF NeedsFlush
  <2>6. QED BY <2>3, <2>4, <2>5
<1>3. CASE ~NeedsFlush(t, it)
  <2>1. o.s = t /\ o.res = "ok" /\ IsOutcome(o)
    BY <1>3 DEF MakeRoom, Ok, IsOutcome
  <2>2. Grows(t, t)
    BY DEF Grows
  <2>3. QED BY <1>3, <2>1, <2>2
<1>4. QED BY <1>2, <1>3

\* push_item adds its item, or is refused without a trace, or the pipeline
\* is lost.
LEMMA Pushed ==
  ASSUME NEW t, Sound(t), Small(t), NEW it \in ItemType, NEW o \in PushItem(t, it)
  PROVE  /\ Added(t, o, {it.key})
         /\ o.res # "ok" /\ o.s.pipe # "lost" => Articles(o.s) = Articles(t)
         /\ Unique(t) /\ it.key \notin Articles(t) => Unique(o.s)
<1>0. t \in StreamerType /\ it.mime \in AllMimes \cup {ListingMime}
  BY DEF Sound, ItemType
<1>1. PICK p \in Then(InternMime(t, it.mime), LAMBDA u : MakeRoom(u, it)) :
        IF p.res = "ok" THEN o \in Place(p.s, it) ELSE o = p
  BY DEF PushItem, Then
<1>2. PICK q \in InternMime(t, it.mime) :
        IF q.res = "ok" THEN p \in MakeRoom(q.s, it) ELSE p = q
  BY <1>1 DEF Then
<1>3. IsOutcome(q) /\ Alike(t, q.s) /\ q.res \in {"ok", "mime"}
  BY <1>0, <1>2, Interned
<1>4. /\ Sound(q.s) /\ Small(q.s) /\ Articles(q.s) = Articles(t) /\ Grows(t, q.s)
      /\ Unique(t) => Unique(q.s)
      /\ q.s.pipe = t.pipe /\ q.s.counted = t.counted
  BY <1>0, <1>3, AlikeKeeps DEF Alike
<1>5. CASE q.res # "ok"
  <2>1. o = q /\ q.res = "mime"
    BY <1>1, <1>2, <1>3, <1>5
  <2>2. QED BY <1>3, <1>4, <2>1 DEF Added
<1>6. CASE q.res = "ok"
  <2>1. /\ IsOutcome(p)
        /\ Sound(p.s)
        /\ Small(p.s)
        /\ Grows(q.s, p.s)
        /\ p.s.counted = q.s.counted
        /\ Articles(p.s) = Articles(q.s)
        /\ Unique(q.s) => Unique(p.s)
        /\ p.res \in {"ok", "io", "panic"}
        /\ p.res = "ok" => ~NeedsFlush(p.s, it) /\ (q.s.pipe # "lost" => p.s.pipe # "lost")
        /\ p.res # "ok" => p.s.pipe = "lost"
        /\ p.res = "panic" => q.s.pipe = "lost"
    BY <1>2, <1>4, <1>6, RoomMade
  <2>2. Grows(t, p.s)
    BY <1>4, <2>1, GrowsOn
  <2>3. CASE p.res # "ok"
    <3>1. o = p
      BY <1>1, <2>3
    <3>2. QED BY <1>4, <2>1, <2>2, <2>3, <3>1 DEF Added
  <2>4. CASE p.res = "ok"
    <3>1. /\ Added(p.s, o, {it.key})
          /\ o.res # "ok" => o.s.pipe = "lost"
          /\ Unique(p.s) /\ it.key \notin Articles(p.s) => Unique(o.s)
      BY <1>1, <2>1, <2>4, Placed
    <3>2. Grows(t, o.s)
      BY <2>2, <3>1, GrowsOn DEF Added
    <3>3. QED BY <1>4, <2>1, <2>4, <3>1, <3>2 DEF Added, Grows
  <2>5. QED BY <2>3, <2>4
<1>7. QED BY <1>5, <1>6

\* The outcomes that the next item is pushed from.
Kept == {o \in Outcome : Sound(o.s) /\ Small(o.s)}

\* The outcomes of one push are among those that the pushes before it allow.
LEMMA PushedKept ==
  ASSUME NEW t, Sound(t), Small(t), NEW it \in ItemType
  PROVE  PushItem(t, it) \subseteq Kept
<1>1. ASSUME NEW o \in PushItem(t, it) PROVE o \in Kept
  <2>1. IsOutcome(o) /\ Sound(o.s) /\ Small(o.s) /\ o.res \in Results
    BY Pushed DEF Added, Results
  <2>2. o.s \in StreamerType
    BY <2>1 DEF Sound
  <2>3. [s |-> o.s, res |-> o.res] \in Outcome
    BY <2>1, <2>2 DEF Outcome
  <2>4. QED BY <2>1, <2>3 DEF Kept, IsOutcome
<1>2. QED BY <1>1

\* The recursion of PushAll, unfolded.
PushSteps(f, t, its) ==
    /\ f[0] = Ok(t)
    /\ \A n \in 1 .. Len(its) : f[n] = Then(f[n - 1], LAMBDA u : PushItem(u, its[n]))
    /\ PushAll(t, its) = f[Len(its)]
    /\ \A n \in 0 .. Len(its) : f[n] \subseteq Kept

\* PushAll is the iteration of PushItem that its definition asks for.
LEMMA PushAllUnfolds ==
  ASSUME NEW t, Sound(t), Small(t), NEW its \in Seq(ItemType)
  PROVE  \E f : PushSteps(f, t, its)
<1> DEFINE S == SUBSET Kept
           onward(O, n) == Then(O, LAMBDA u : PushItem(u, its[n]))
           g == [n \in Nat |-> [O \in S |-> IF n \in DOMAIN its THEN onward(O, n) ELSE O]]
           N == Len(its)
           G == CHOOSE p : p = [n \in 0 .. Len(its) |-> IF n = 0 THEN Ok(t)
                                  ELSE Then(p[n - 1], LAMBDA u : PushItem(u, its[n]))]
<1>1. PushAll(t, its) = G[N]
  BY DEF PushAll
<1>2. N \in Nat /\ DOMAIN its = 1 .. N
  OBVIOUS
<1>3. Ok(t) \in S
  <2>1. [s |-> t, res |-> "ok"] \in Kept
    BY DEF Kept, Outcome, Results, Sound
  <2>2. QED BY <2>1 DEF Ok
<1>4. \A O \in S, n \in DOMAIN its : onward(O, n) \in S
  <2>1. ASSUME NEW O \in S, NEW n \in DOMAIN its, NEW o \in onward(O, n) PROVE o \in Kept
    <3>1. PICK p \in O : IF p.res = "ok" THEN o \in PushItem(p.s, its[n]) ELSE o = p
      BY <2>1 DEF Then
    <3>2. p \in Kept /\ Sound(p.s) /\ Small(p.s) /\ its[n] \in ItemType
      BY <3>1 DEF Kept
    <3>3. QED BY <3>1, <3>2, PushedKept
  <2>2. QED BY <2>1
<1>5. g \in [Nat -> [S -> S]]
  <2> HIDE DEF S, onward
  <2>1. QED BY <1>4
<1>6. PICK f : Iterates(f, S, Ok(t), g, N)
  <2> HIDE DEF S, g, N
  <2>1. QED BY <1>2, <1>3, <1>5, Iterated
<1>7. /\ f \in [0 .. N -> S]
      /\ \A n \in 0 .. N : f[n] = IF n = 0 THEN Ok(t) ELSE onward(f[n - 1], n)
  <2>1. /\ f \in [0 .. N -> S]
        /\ \A n \in 0 .. N : f[n] = IF n = 0 THEN Ok(t) ELSE g[n][f[n - 1]]
    BY <1>6 DEF Iterates
  <2>2. \A n \in 0 .. N : n # 0 => n \in DOMAIN its /\ n \in Nat /\ f[n - 1] \in S
    <3> HIDE DEF S, g
    <3>1. QED BY <1>2, <2>1
  <2>3. \A n \in DOMAIN its, O \in S : n \in Nat /\ g[n][O] = onward(O, n)
    <3> HIDE DEF S, onward
    <3>1. QED BY <1>2
  <2> HIDE DEF S, g, onward
  <2>4. QED BY <2>1, <2>2, <2>3
<1>8. f = [n \in 0 .. Len(its) |-> IF n = 0 THEN Ok(t)
                     ELSE Then(f[n - 1], LAMBDA u : PushItem(u, its[n]))]
  <2>1. f = [n \in 0 .. N |-> f[n]]
    BY <1>7
  <2>2. QED BY <1>7, <2>1
<1>9. G = [n \in 0 .. Len(its) |-> IF n = 0 THEN Ok(t)
                     ELSE Then(G[n - 1], LAMBDA u : PushItem(u, its[n]))]
  BY <1>8, Zenon
<1> DEFINE bad == {n \in 0 .. N : G[n] # f[n]}
<1> HIDE DEF G
<1>10. bad = {}
  <2>1. SUFFICES ASSUME bad # {} PROVE FALSE
    OBVIOUS
  <2>2. bad \in SUBSET Nat
    BY <1>2
  <2>3. PICK n \in bad : \A k \in bad : n <= k
    <3> HIDE DEF bad
    <3>1. QED BY <2>1, <2>2, MinOfNaturals
  <2>4. n # 0
    BY <1>2, <1>7, <1>9
  <2>5. n - 1 \in 0 .. N /\ n - 1 \notin bad /\ n \in 0 .. N
    BY <1>2, <2>3, <2>4
  <2>6. G[n - 1] = f[n - 1]
    BY <2>5
  <2>7. G[n] = f[n]
    BY <1>8, <1>9, <2>4, <2>5, <2>6
  <2>8. QED BY <2>3, <2>7
<1>11. G[N] = f[N]
  BY <1>2, <1>10
<1>12. /\ f[0] = Ok(t)
       /\ \A n \in 1 .. N : f[n] = Then(f[n - 1], LAMBDA u : PushItem(u, its[n]))
       /\ \A n \in 0 .. N : f[n] \subseteq Kept
  BY <1>2, <1>7
<1>13. QED BY <1>1, <1>11, <1>12 DEF PushSteps

\* start_writing and finalize push all of a sequence, up to the first failure.
LEMMA PushedAll ==
  ASSUME NEW t, Sound(t), Small(t), NEW its \in Seq(ItemType), NEW o \in PushAll(t, its)
  PROVE  /\ Added(t, o, Names(its))
         /\ Unique(t) /\ Distinct(its) /\ Names(its) \cap Articles(t) = {} => Unique(o.s)
<1> DEFINE N == Len(its)
           To(n) == {its[i].key : i \in 1 .. n}
           Fresh == Unique(t) /\ Distinct(its) /\ Names(its) \cap Articles(t) = {}
           Good(p, n) == Added(t, p, To(n)) /\ (Fresh => Unique(p.s))
<1>1. PICK f : PushSteps(f, t, its)
  BY PushAllUnfolds
<1>2. /\ f[0] = Ok(t)
      /\ \A n \in 1 .. N : f[n] = Then(f[n - 1], LAMBDA u : PushItem(u, its[n]))
      /\ PushAll(t, its) = f[N]
  BY <1>1 DEF PushSteps
<1>3. N \in Nat /\ DOMAIN its = 1 .. N
  OBVIOUS
<1> DEFINE bad == {n \in 0 .. N : ~(\A p \in f[n] : Good(p, n))}
<1>4. bad = {}
  <2>1. SUFFICES ASSUME bad # {} PROVE FALSE
    OBVIOUS
  <2>2. bad \in SUBSET Nat
    BY <1>3
  <2>3. PICK n \in bad : \A k \in bad : n <= k
    <3> HIDE DEF bad
    <3>1. QED BY <2>1, <2>2, MinOfNaturals
  <2>4. PICK p \in f[n] : ~Good(p, n)
    OBVIOUS
  <2>5. CASE n = 0
    <3>1. p = [s |-> t, res |-> "ok"]
      BY <1>2, <2>4, <2>5 DEF Ok
    <3>2. p.s = t /\ p.res = "ok" /\ IsOutcome(p)
      BY <3>1 DEF IsOutcome
    <3>3. Grows(t, t)
      BY DEF Grows
    <3>4. To(n) = {}
      BY <2>5
    <3> HIDE DEF To, Fresh
    <3>5. Added(t, p, To(n))
      BY <3>2, <3>3, <3>4 DEF Added
    <3>6. Fresh => Unique(p.s)
      BY <3>2 DEF Fresh
    <3>7. QED BY <2>4, <3>5, <3>6
  <2>6. CASE n # 0
    <3>1. n \in 1 .. N /\ n - 1 \in 0 .. N /\ ~(n <= n - 1) /\ n \in Nat
      BY <1>3, <2>6
    <3>2. PICK q \in f[n - 1] : IF q.res = "ok" THEN p \in PushItem(q.s, its[n]) ELSE p = q
      BY <1>2, <2>4, <3>1 DEF Then
    <3>3. Good(q, n - 1)
      BY <2>3, <3>1, <3>2
    <3>4. To(n) = To(n - 1) \cup {its[n].key}
      <4>1. 1 .. n = (1 .. (n - 1)) \cup {n}
        BY <3>1
      <4>2. QED BY <4>1
    <3>5. /\ To(n - 1) \subseteq Names(its)
          /\ its[n].key \in Names(its)
          /\ Distinct(its) => its[n].key \notin To(n - 1)
      BY <1>3, <3>1 DEF Names, Distinct
    <3>6. Added(t, q, To(n - 1)) /\ (Fresh => Unique(q.s))
      BY <3>3
    <3>7. its[n] \in ItemType
      BY <1>3, <3>1
    <3> HIDE DEF To, bad
    <3>8. CASE q.res # "ok"
      <4>1. p = q
        BY <3>2, <3>8
      <4>2. Added(t, p, To(n))
        BY <3>4, <3>6, <3>8, <4>1 DEF Added
      <4>3. QED BY <2>4, <3>6, <4>1, <4>2
    <3>9. CASE q.res = "ok"
      <4>1. Sound(q.s) /\ Small(q.s) /\ p \in PushItem(q.s, its[n])
        BY <3>2, <3>6, <3>9 DEF Added
      <4>2. /\ Added(q.s, p, {its[n].key})
            /\ Unique(q.s) /\ its[n].key \notin Articles(q.s) => Unique(p.s)
        BY <3>7, <4>1, Pushed
      <4>3. Grows(t, p.s)
        BY <3>6, <4>2, GrowsOn DEF Added
      <4>4. Added(t, p, To(n))
        BY <3>4, <3>6, <3>9, <4>2, <4>3 DEF Added
      <4>5. ASSUME Fresh PROVE Unique(p.s)
        <5>1. Articles(q.s) = Articles(t) \cup To(n - 1)
          BY <3>6, <3>9 DEF Added
        <5>2. its[n].key \notin Articles(q.s)
          BY <3>5, <4>5, <5>1
        <5>3. QED BY <3>6, <4>2, <4>5, <5>2
      <4>6. QED BY <2>4, <4>4, <4>5
    <3>10. QED BY <3>8, <3>9
  <2>7. QED BY <2>5, <2>6
<1>5. Good(o, N)
  <2>1. N \in 0 .. N /\ N \notin bad /\ o \in f[N]
    <3> HIDE DEF bad, N
    <3>1. QED BY <1>2, <1>3, <1>4
  <2> HIDE DEF N, Good
  <2>2. QED BY <2>1
<1>6. To(N) = Names(its)
  BY <1>3 DEF Names
<1> HIDE DEF To
<1>7. QED BY <1>5, <1>6

----------------------------------------------------------------------------
(* finalize *)

\* The recursion of FlushAll, unfolded.
FlushSteps(f, t) ==
    /\ f[0] = Ok(t)
    /\ \A n \in 1 .. Len(SetToSeq(AllMimes)) :
         f[n] = Then(f[n - 1], LAMBDA u : Flush(u, SetToSeq(AllMimes)[n]))
    /\ FlushAll(t) = f[Len(SetToSeq(AllMimes))]

\* finalize flushes the bucket of every MIME type.
LEMMA OrderOfMimes ==
  /\ Len(SetToSeq(AllMimes)) \in Nat
  /\ \A n \in 1 .. Len(SetToSeq(AllMimes)) : SetToSeq(AllMimes)[n] \in AllMimes
  /\ \A m \in AllMimes : \E n \in 1 .. Len(SetToSeq(AllMimes)) : SetToSeq(AllMimes)[n] = m
<1>1. IsFiniteSet(AllMimes)
  <2>1. IsFiniteSet(Mimes)
    BY MimeAssumption
  <2>2. QED BY <2>1, FS_AddElement DEF AllMimes
<1>2. /\ Cardinality(AllMimes) \in Nat
      /\ SetToSeq(AllMimes) \in [1 .. Cardinality(AllMimes) -> AllMimes]
      /\ \A x \in AllMimes : \E i \in 1 .. Cardinality(AllMimes) : SetToSeq(AllMimes)[i] = x
  BY <1>1, SetToSeqLists
<1>3. Len(SetToSeq(AllMimes)) = Cardinality(AllMimes)
  <2>1. SetToSeq(AllMimes) \in Seq(AllMimes)
    BY <1>2
  <2>2. DOMAIN SetToSeq(AllMimes) = 1 .. Cardinality(AllMimes)
    BY <1>2
  <2>3. QED BY <1>2, <2>1, <2>2
<1>4. QED BY <1>2, <1>3

\* A bucket is flushed below the target.
LEMMA FlushedKept ==
  ASSUME NEW t, Sound(t), Small(t), NEW m \in AllMimes, NEW o \in Flush(t, m)
  PROVE  /\ o \in Kept
         /\ Added(t, o, {})
         /\ Unique(t) => Unique(o.s)
         /\ o.s.buckets[m].blobs = << >>
         /\ \A n \in AllMimes : t.buckets[n].blobs = << >> => o.s.buckets[n].blobs = << >>
<1>1. /\ Target \in Nat /\ Target > 0 /\ t.buckets[m].size \in Nat
      /\ t.buckets[m].size < Target
  BY TargetAssumption DEF Sound, Small, StreamerType, BucketType
<1>2. Packed(t.buckets[m])
  BY <1>1 DEF Packed
<1>3. /\ IsOutcome(o)
      /\ Sound(o.s)
      /\ Grows(t, o.s)
      /\ o.s.counted = t.counted
      /\ Articles(o.s) = Articles(t)
      /\ Unique(t) => Unique(o.s)
      /\ o.s.buckets[m].blobs = << >>
      /\ o.s.buckets[m] = Bucket \/ o.s = t
      /\ \A n \in AllMimes : n # m => o.s.buckets[n] = t.buckets[n]
      /\ o.res \in {"ok", "io", "panic"}
      /\ o.res = "ok" /\ t.pipe # "lost" => o.s.pipe # "lost"
      /\ o.res # "ok" => o.s.pipe = "lost"
      /\ o.res = "panic" => t.pipe = "lost"
  BY <1>2, Flushed
<1>4. Small(o.s)
  <2>1. Bucket.size = 0
    BY DEF Bucket
  <2>2. QED BY <1>1, <1>3, <2>1 DEF Small
<1>5. o \in Kept
  <2>1. [s |-> o.s, res |-> o.res] \in Outcome
    BY <1>3 DEF Outcome, Results, Sound
  <2>2. QED BY <1>3, <1>4, <2>1 DEF Kept, IsOutcome
<1>6. Added(t, o, {})
  BY <1>3, <1>4 DEF Added
<1>7. QED BY <1>3, <1>5, <1>6

\* FlushAll is the iteration of Flush that its definition asks for.
LEMMA FlushAllUnfolds ==
  ASSUME NEW t, Sound(t), Small(t)
  PROVE  \E f : FlushSteps(f, t)
<1> DEFINE S == SUBSET Kept
           order == SetToSeq(AllMimes)
           N == Len(order)
           onward(O, n) == Then(O, LAMBDA u : Flush(u, order[n]))
           g == [n \in Nat |-> [O \in S |-> IF n \in 1 .. N THEN onward(O, n) ELSE O]]
           G == CHOOSE p : p = [n \in 0 .. Len(order) |-> IF n = 0 THEN Ok(t)
                                  ELSE Then(p[n - 1], LAMBDA u : Flush(u, order[n]))]
<1>1. FlushAll(t) = G[N]
  BY DEF FlushAll
<1>2. N \in Nat /\ \A n \in 1 .. N : order[n] \in AllMimes
  BY OrderOfMimes
<1>3. Ok(t) \in S
  <2>1. [s |-> t, res |-> "ok"] \in Kept
    BY DEF Kept, Outcome, Results, Sound
  <2>2. QED BY <2>1 DEF Ok
<1>4. \A O \in S, n \in 1 .. N : onward(O, n) \in S
  <2>1. ASSUME NEW O \in S, NEW n \in 1 .. N, NEW o \in onward(O, n) PROVE o \in Kept
    <3>1. PICK p \in O : IF p.res = "ok" THEN o \in Flush(p.s, order[n]) ELSE o = p
      BY <2>1 DEF Then
    <3>2. p \in Kept /\ Sound(p.s) /\ Small(p.s) /\ order[n] \in AllMimes
      BY <1>2, <3>1 DEF Kept
    <3> HIDE DEF order
    <3>3. QED BY <3>1, <3>2, FlushedKept
  <2>2. QED BY <2>1
<1>5. g \in [Nat -> [S -> S]]
  <2> HIDE DEF S, onward, N
  <2>1. QED BY <1>4
<1>6. PICK f : Iterates(f, S, Ok(t), g, N)
  <2> HIDE DEF S, g, N
  <2>1. QED BY <1>2, <1>3, <1>5, Iterated
<1>7. /\ f \in [0 .. N -> S]
      /\ \A n \in 0 .. N : f[n] = IF n = 0 THEN Ok(t) ELSE onward(f[n - 1], n)
  <2>1. /\ f \in [0 .. N -> S]
        /\ \A n \in 0 .. N : f[n] = IF n = 0 THEN Ok(t) ELSE g[n][f[n - 1]]
    BY <1>6 DEF Iterates
  <2>2. \A n \in 0 .. N : n # 0 => n \in 1 .. N /\ n \in Nat /\ f[n - 1] \in S
    <3> HIDE DEF S, g, N
    <3>1. QED BY <1>2, <2>1
  <2>3. \A n \in 1 .. N, O \in S : n \in Nat /\ g[n][O] = onward(O, n)
    <3> HIDE DEF S, onward, N
    <3>1. QED BY <1>2
  <2> HIDE DEF S, g, onward, N
  <2>4. QED BY <2>1, <2>2, <2>3
<1>8. f = [n \in 0 .. Len(order) |-> IF n = 0 THEN Ok(t)
                     ELSE Then(f[n - 1], LAMBDA u : Flush(u, order[n]))]
  <2>1. f = [n \in 0 .. N |-> f[n]]
    BY <1>7
  <2>2. QED BY <1>7, <2>1
<1>9. G = [n \in 0 .. Len(order) |-> IF n = 0 THEN Ok(t)
                     ELSE Then(G[n - 1], LAMBDA u : Flush(u, order[n]))]
  BY <1>8, Zenon
<1> DEFINE bad == {n \in 0 .. N : G[n] # f[n]}
<1> HIDE DEF G
<1>10. bad = {}
  <2>1. SUFFICES ASSUME bad # {} PROVE FALSE
    OBVIOUS
  <2>2. bad \in SUBSET Nat
    BY <1>2
  <2>3. PICK n \in bad : \A k \in bad : n <= k
    <3> HIDE DEF bad
    <3>1. QED BY <2>1, <2>2, MinOfNaturals
  <2>4. n # 0
    BY <1>2, <1>7, <1>9
  <2>5. n - 1 \in 0 .. N /\ n - 1 \notin bad /\ n \in 0 .. N
    BY <1>2, <2>3, <2>4
  <2>6. G[n - 1] = f[n - 1]
    BY <2>5
  <2>7. G[n] = f[n]
    BY <1>8, <1>9, <2>4, <2>5, <2>6
  <2>8. QED BY <2>3, <2>7
<1>11. G[N] = f[N]
  BY <1>2, <1>10
<1>12. /\ f[0] = Ok(t)
       /\ \A n \in 1 .. N : f[n] = Then(f[n - 1], LAMBDA u : Flush(u, order[n]))
  BY <1>2, <1>7
<1>13. QED BY <1>1, <1>11, <1>12 DEF FlushSteps

\* flush_all_buckets leaves every bucket empty, unless it fails.
LEMMA FlushedAll ==
  ASSUME NEW t, Sound(t), Small(t), NEW o \in FlushAll(t)
  PROVE  /\ Added(t, o, {})
         /\ Unique(t) => Unique(o.s)
         /\ o.res = "ok" => Empty(o.s)
<1> DEFINE order == SetToSeq(AllMimes)
           N == Len(order)
           Good(p, n) == /\ Added(t, p, {})
                         /\ Unique(t) => Unique(p.s)
                         /\ p.res = "ok" => \A i \in 1 .. n : p.s.buckets[order[i]].blobs = << >>
<1>1. PICK f : FlushSteps(f, t)
  BY FlushAllUnfolds
<1>2. /\ f[0] = Ok(t)
      /\ \A n \in 1 .. N : f[n] = Then(f[n - 1], LAMBDA u : Flush(u, order[n]))
      /\ FlushAll(t) = f[N]
  BY <1>1 DEF FlushSteps
<1>3. /\ N \in Nat
      /\ \A n \in 1 .. N : order[n] \in AllMimes
      /\ \A m \in AllMimes : \E n \in 1 .. N : order[n] = m
  BY OrderOfMimes
<1> DEFINE bad == {n \in 0 .. N : ~(\A p \in f[n] : Good(p, n))}
<1>4. bad = {}
  <2>1. SUFFICES ASSUME bad # {} PROVE FALSE
    OBVIOUS
  <2>2. bad \in SUBSET Nat
    BY <1>3
  <2>3. PICK n \in bad : \A k \in bad : n <= k
    <3> HIDE DEF bad
    <3>1. QED BY <2>1, <2>2, MinOfNaturals
  <2>4. PICK p \in f[n] : ~Good(p, n)
    OBVIOUS
  <2>5. CASE n = 0
    <3>1. p = [s |-> t, res |-> "ok"]
      BY <1>2, <2>4, <2>5 DEF Ok
    <3>2. p.s = t /\ p.res = "ok" /\ IsOutcome(p)
      BY <3>1 DEF IsOutcome
    <3>3. Grows(t, t)
      BY DEF Grows
    <3>4. Added(t, p, {})
      BY <3>2, <3>3 DEF Added
    <3>5. 1 .. n = {}
      BY <2>5
    <3> HIDE DEF order, N, bad
    <3>6. QED BY <2>4, <3>2, <3>4, <3>5
  <2>6. CASE n # 0
    <3>1. n \in 1 .. N /\ n - 1 \in 0 .. N /\ ~(n <= n - 1) /\ n \in Nat
      BY <1>3, <2>6
    <3>2. PICK q \in f[n - 1] : IF q.res = "ok" THEN p \in Flush(q.s, order[n]) ELSE p = q
      BY <1>2, <2>4, <3>1 DEF Then
    <3>3. Good(q, n - 1)
      BY <2>3, <3>1, <3>2
    <3>4. order[n] \in AllMimes
      BY <1>3, <3>1
    <3>5. /\ Added(t, q, {})
          /\ Unique(t) => Unique(q.s)
          /\ q.res = "ok" => \A i \in 1 .. n - 1 : q.s.buckets[order[i]].blobs = << >>
      BY <3>3
    <3> HIDE DEF bad, order, N
    <3>6. CASE q.res # "ok"
      <4>1. p = q
        BY <3>2, <3>6
      <4>2. QED BY <2>4, <3>5, <3>6, <4>1
    <3>7. CASE q.res = "ok"
      <4>1. Sound(q.s) /\ Small(q.s) /\ p \in Flush(q.s, order[n])
        BY <3>2, <3>5, <3>7 DEF Added
      <4>2. /\ Added(q.s, p, {})
            /\ Unique(q.s) => Unique(p.s)
            /\ p.s.buckets[order[n]].blobs = << >>
            /\ \A m \in AllMimes : q.s.buckets[m].blobs = << >> => p.s.buckets[m].blobs = << >>
        BY <3>4, <4>1, FlushedKept
      <4>3. Grows(t, p.s)
        BY <3>5, <4>2, GrowsOn DEF Added
      <4>4. Added(t, p, {})
        BY <3>5, <3>7, <4>2, <4>3 DEF Added
      <4>5. ASSUME NEW i \in 1 .. n PROVE p.s.buckets[order[i]].blobs = << >>
        <5>1. CASE i = n
          BY <4>2, <5>1
        <5>2. CASE i # n
          <6>1. i \in 1 .. n - 1 /\ i \in 1 .. N
            BY <1>3, <3>1, <5>2
          <6>2. order[i] \in AllMimes /\ q.s.buckets[order[i]].blobs = << >>
            BY <1>3, <3>5, <3>7, <6>1
          <6>3. QED BY <4>2, <6>2
        <5>3. QED BY <5>1, <5>2
      <4>6. QED BY <2>4, <3>5, <4>2, <4>4, <4>5
    <3>8. QED BY <3>6, <3>7
  <2>7. QED BY <2>5, <2>6
<1>5. Good(o, N)
  <2>1. N \in 0 .. N /\ N \notin bad /\ o \in f[N]
    <3> HIDE DEF bad, N
    <3>1. QED BY <1>2, <1>3, <1>4
  <2> HIDE DEF N, Good
  <2>2. QED BY <2>1
<1>6. o.res = "ok" => Empty(o.s)
  <2> HIDE DEF order, N
  <2>1. QED BY <1>3, <1>5 DEF Empty
<1> HIDE DEF order, N
<1>7. QED BY <1>5, <1>6

\* An entry of finalize itself that is counted before it is there.
LEMMA CounterPushed ==
  ASSUME NEW t, Sound(t), Small(t), NEW o \in PushCounter(t)
  PROVE  /\ IsOutcome(o)
         /\ Sound(o.s)
         /\ Small(o.s)
         /\ Grows(t, o.s)
         /\ o.res \in {"ok", "mime", "io", "panic"}
         /\ o.res = "ok" => /\ Articles(o.s) = Articles(t) \cup {Counter}
                            /\ t.pipe # "lost" => o.s.pipe # "lost"
                            /\ Counter \notin Articles(t) => o.s.counted = Articles(t) \cap Paths
         /\ o.res = "panic" => t.pipe = "lost"
         /\ Unique(t) => Unique(o.s)
<1>1. CASE Counter \in Articles(t)
  <2>1. o.s = t /\ o.res = "ok" /\ IsOutcome(o)
    BY <1>1 DEF PushCounter, Ok, IsOutcome
  <2>2. Grows(t, t)
    BY DEF Grows
  <2>3. QED BY <1>1, <2>1, <2>2
<1>2. CASE Counter \notin Articles(t)
  <2> DEFINE u == [t EXCEPT !.counted = Articles(t) \cap Paths]
             it == [key |-> Counter, size |-> 1, mime |-> MetaMime]
  <2>1. o \in PushItem(u, it)
    BY <1>2 DEF PushCounter
  <2>2. it \in ItemType /\ it.key = Counter
    BY KeyFacts DEF ItemType
  <2>3. /\ u \in StreamerType
        /\ u.buckets = t.buckets /\ u.slots = t.slots /\ u.dirents = t.dirents
        /\ u.pipe = t.pipe /\ u.sent = t.sent
        /\ u.counted = Articles(t) \cap Paths
    <3>1. t \in StreamerType /\ Articles(t) \cap Paths \in SUBSET Paths
      BY DEF Sound
    <3>2. QED BY <3>1 DEF StreamerType
  <2> HIDE DEF u, it
  <2>4. Sound(u)
    BY <2>3 DEF Sound, BucketsExact, DirentsExact, SentExact, PipeSlots, Dirent
  <2>5. Small(u) /\ (Unique(t) => Unique(u))
    BY <2>3 DEF Small, Unique
  <2>6. Articles(u) = Articles(t)
    BY <2>3 DEF Articles
  <2>7. Grows(t, u)
    BY <2>3 DEF Grows
  <2>8. /\ Added(u, o, {it.key})
        /\ Unique(u) /\ it.key \notin Articles(u) => Unique(o.s)
    BY <2>1, <2>2, <2>4, <2>5, Pushed
  <2>9. Grows(t, o.s)
    BY <2>7, <2>8, GrowsOn DEF Added
  <2>10. QED BY <1>2, <2>2, <2>3, <2>5, <2>6, <2>8, <2>9 DEF Added
<1>3. QED BY <1>1, <1>2

\* The title listing becomes a cluster of its own, unless the client gave one.
LEMMA ListingEmitted ==
  ASSUME NEW t, Sound(t), Small(t), NEW o \in EmitListing(t)
  PROVE  /\ Sound(o.s)
         /\ Small(o.s)
         /\ Grows(t, o.s)
         /\ o.s.buckets = t.buckets
         /\ o.s.counted = t.counted
         /\ o.res \in {"ok", "io", "panic"}
         /\ o.res = "ok" => /\ Articles(o.s) = Articles(t) \cup {Listing}
                            /\ t.pipe # "lost" => o.s.pipe # "lost"
         /\ o.res = "panic" => t.pipe = "lost"
<1>1. CASE ListingGiven(t)
  <2>1. o.s = t /\ o.res = "ok"
    BY <1>1 DEF EmitListing, Ok
  <2>2. Grows(t, t)
    BY DEF Grows
  <2>3. Listing \in Articles(t)
    BY <1>1 DEF ListingGiven, Articles
  <2>4. QED BY <2>1, <2>2, <2>3
<1>2. CASE ~ListingGiven(t)
  <2> DEFINE i == Len(t.slots) + 1
             slot == [blobs |-> <<Listing>>, size |-> 1, body |-> 1,
                      route |-> "pipe", torn |-> FALSE]
             d == [key |-> Listing, cluster |-> i, blob |-> 1]
             u == [t EXCEPT !.slots = Append(@, slot), !.dirents = @ \cup {d}]
  <2>1. o \in Send(u, i)
    BY <1>2 DEF EmitListing
  <2>2. t \in StreamerType /\ i \in Nat /\ Listing \in AllKeys
    BY KeyFacts DEF Sound, StreamerType
  <2>3. slot \in SlotType /\ slot.route = "pipe" /\ slot.blobs = <<Listing>>
    <3>1. <<Listing>> \in Seq(AllKeys)
      BY <2>2
    <3>2. QED BY <3>1 DEF SlotType
  <2>4. Packed(slot)
    BY DEF Packed
  <2>5. {[key |-> slot.blobs[b], cluster |-> i, blob |-> b] : b \in DOMAIN slot.blobs} = {d}
    <3>1. DOMAIN slot.blobs = {1} /\ slot.blobs[1] = Listing
      BY <2>3
    <3> HIDE DEF slot, i
    <3>2. QED BY <3>1
  <2>6. d \in DirentType
    BY <2>2 DEF DirentType
  <2>7. /\ u \in StreamerType
        /\ u.slots = Append(t.slots, slot) /\ u.dirents = t.dirents \cup {d}
        /\ u.pipe = t.pipe /\ u.sent = t.sent /\ u.counted = t.counted
        /\ u.buckets = t.buckets
    <3> HIDE DEF slot, d, i
    <3>1. Append(t.slots, slot) \in Seq(SlotType)
      BY <2>2, <2>3 DEF StreamerType
    <3>2. t.dirents \cup {d} \in SUBSET DirentType
      BY <2>2, <2>6 DEF StreamerType
    <3>3. QED BY <2>2, <3>1, <3>2 DEF StreamerType
  <2> HIDE DEF u
  <2>8. BucketsExact(u)
    BY <2>7 DEF Sound, BucketsExact
  <2>9. /\ Sound(o.s)
        /\ Grows(t, o.s)
        /\ o.s.buckets = u.buckets /\ o.s.dirents = u.dirents /\ o.s.counted = u.counted
        /\ o.res \in {"ok", "io", "panic"}
        /\ o.res = "ok" => t.pipe # "lost" /\ o.s.pipe # "lost"
        /\ o.res = "panic" => t.pipe = "lost"
    <3>1. u.dirents = t.dirents
            \cup {[key |-> slot.blobs[b], cluster |-> Len(t.slots) + 1, blob |-> b]
                    : b \in DOMAIN slot.blobs}
      BY <2>5, <2>7
    <3> HIDE DEF slot, d
    <3>2. QED BY <2>1, <2>3, <2>4, <2>7, <2>8, <3>1, Committed
  <2>10. Small(o.s)
    BY <2>7, <2>9 DEF Small
  <2>11. Articles(o.s) = Articles(t) \cup {Listing}
    <3>1. d.key = Listing
      OBVIOUS
    <3> HIDE DEF d
    <3>2. QED BY <2>7, <2>9, <3>1 DEF Articles
  <2>12. QED BY <2>7, <2>9, <2>10, <2>11
<1>3. QED BY <1>1, <1>2

\* Steps 3 to 6 of finalize: the directory is checked, then the listing added.
LEMMA ListingPushed ==
  ASSUME NEW t, Sound(t), Small(t), Empty(t), NEW R, NEW o \in PushListing(t, R)
  PROVE  /\ Sound(o.s)
         /\ Small(o.s)
         /\ Grows(t, o.s)
         /\ o.res \in Results
         /\ o.res = "ok" => /\ Empty(o.s)
                            /\ Articles(o.s) = Articles(t) \cup {Listing}
                            /\ o.s.counted = t.counted
                            /\ t.pipe # "lost" => o.s.pipe # "lost"
         /\ o.res = "panic" => t.pipe = "lost"
         /\ o.res = "duplicate" => HasDuplicates(t, R)
<1> DEFINE X == IF ListingGiven(t) THEN Ok(t) ELSE InternMime(t, ListingMime)
<1>0. t \in StreamerType
  BY DEF Sound
<1>1. PICK p \in Then(X, LAMBDA u : CheckDirectory(u, R)) :
        IF p.res = "ok" THEN o \in EmitListing(p.s) ELSE o = p
  BY DEF PushListing, Then
<1>2. PICK q \in X : IF q.res = "ok" THEN p \in CheckDirectory(q.s, R) ELSE p = q
  BY <1>1 DEF Then
<1>3. Alike(t, q.s) /\ q.res \in {"ok", "mime"}
  <2>1. CASE ListingGiven(t)
    BY <1>0, <1>2, <2>1 DEF Ok, Alike
  <2>2. CASE ~ListingGiven(t)
    BY <1>0, <1>2, <2>2, Interned
  <2>3. QED BY <2>1, <2>2
<1>4. /\ Sound(q.s) /\ Small(q.s) /\ Empty(q.s)
      /\ Articles(q.s) = Articles(t)
      /\ Grows(t, q.s)
      /\ q.s.pipe = t.pipe /\ q.s.counted = t.counted /\ q.s.dirents = t.dirents
  BY <1>0, <1>3, AlikeKeeps DEF Alike
<1>5. CASE q.res # "ok"
  <2>1. o = q /\ q.res = "mime"
    BY <1>1, <1>2, <1>3, <1>5
  <2>2. QED BY <1>4, <2>1 DEF Results
<1>6. CASE q.res = "ok"
  <2>1. p.s = q.s /\ p.res \in {"ok", "duplicate", "redirect"}
        /\ (p.res = "duplicate" => HasDuplicates(q.s, R))
    <3>1. p \in CheckDirectory(q.s, R)
      BY <1>2, <1>6
    <3> HIDE DEF X
    <3>2. CASE HasDuplicates(q.s, R)
      <4>1. p = [s |-> q.s, res |-> "duplicate"]
        BY <3>1, <3>2 DEF CheckDirectory, Fails
      <4>2. QED BY <3>2, <4>1
    <3>3. CASE ~HasDuplicates(q.s, R) /\ (Unresolved(q.s, R) \/ Cyclic(R))
      <4>1. p = [s |-> q.s, res |-> "redirect"]
        BY <3>1, <3>3 DEF CheckDirectory, Fails
      <4>2. QED BY <4>1
    <3>4. CASE ~HasDuplicates(q.s, R) /\ ~(Unresolved(q.s, R) \/ Cyclic(R))
      <4>1. p = [s |-> q.s, res |-> "ok"]
        BY <3>1, <3>4 DEF CheckDirectory, Ok
      <4>2. QED BY <4>1
    <3>5. QED BY <3>2, <3>3, <3>4
  <2>2. CASE p.res # "ok"
    <3>1. o = p
      BY <1>1, <2>2
    <3>2. p.res = "duplicate" => HasDuplicates(t, R)
      BY <1>4, <2>1 DEF HasDuplicates
    <3>3. QED BY <1>4, <2>1, <2>2, <3>1, <3>2 DEF Results
  <2>3. CASE p.res = "ok"
    <3>1. o \in EmitListing(q.s)
      BY <1>1, <2>1, <2>3
    <3>2. /\ Sound(o.s)
          /\ Small(o.s)
          /\ Grows(q.s, o.s)
          /\ o.s.buckets = q.s.buckets
          /\ o.s.counted = q.s.counted
          /\ o.res \in {"ok", "io", "panic"}
          /\ o.res = "ok" => /\ Articles(o.s) = Articles(q.s) \cup {Listing}
                             /\ q.s.pipe # "lost" => o.s.pipe # "lost"
          /\ o.res = "panic" => q.s.pipe = "lost"
      BY <1>4, <3>1, ListingEmitted
    <3>3. Grows(t, o.s)
      BY <1>4, <3>2, GrowsOn
    <3>4. Empty(o.s)
      BY <1>4, <3>2 DEF Empty
    <3>5. QED BY <1>4, <3>2, <3>3, <3>4 DEF Results
  <2>4. QED BY <2>2, <2>3
<1>7. QED BY <1>5, <1>6

\* The keys of metadata and redirects, new and told apart from all others.
Apart(t, its, R) ==
    /\ Unique(t)
    /\ Distinct(its)
    /\ Names(its) \cap Articles(t) = {}
    /\ \A q, r \in R : q.key = r.key => q = r
    /\ \A r \in R : r.key \notin Articles(t) \cup Names(its) \cup {Counter}

\* Keys told apart make a directory without duplicates.
LEMMA NoDuplicates ==
  ASSUME NEW t, Sound(t), Unique(t), NEW R,
         \A q, r \in R : q.key = r.key => q = r,
         \A r \in R : r.key \notin Articles(t)
  PROVE  ~HasDuplicates(t, R)
<1>1. \A d \in t.dirents : d.key \in Articles(t)
  BY DEF Articles
<1>2. QED BY <1>1 DEF HasDuplicates, Unique

\* All of finalize, up to what it waits for.
LEMMA Assembles ==
  ASSUME Sound(s), Small(s), metas \in Seq(ItemType), NEW o \in Assemble(s)
  PROVE  /\ Sound(o.s)
         /\ Small(o.s)
         /\ Grows(s, o.s)
         /\ o.res \in Results
         /\ o.res = "ok" =>
              /\ Empty(o.s)
              /\ Articles(o.s) = Articles(s) \cup Names(metas) \cup {Counter, Listing}
              /\ s.pipe # "lost" => o.s.pipe # "lost"
              /\ Counter \notin Articles(s) \cup Names(metas) =>
                   o.s.counted = (Articles(s) \cup Names(metas)) \cap Paths
         /\ o.res = "panic" => s.pipe = "lost"
         /\ Apart(s, metas, redirs \cup MainRedirect) => o.res # "duplicate"
<1> DEFINE R == redirs \cup MainRedirect
           A1 == PushAll(s, metas)
           A2 == Then(A1, PushCounter)
           A3 == Then(A2, FlushAll)
<1>1. PICK p3 \in A3 : IF p3.res = "ok" THEN o \in PushListing(p3.s, R) ELSE o = p3
  BY DEF Assemble, Then
<1>2. PICK p2 \in A2 : IF p2.res = "ok" THEN p3 \in FlushAll(p2.s) ELSE p3 = p2
  BY <1>1 DEF Then
<1>3. PICK p1 \in A1 : IF p1.res = "ok" THEN p2 \in PushCounter(p1.s) ELSE p2 = p1
  BY <1>2 DEF Then
<1> HIDE DEF R
<1>4. /\ Added(s, p1, Names(metas))
      /\ Unique(s) /\ Distinct(metas) /\ Names(metas) \cap Articles(s) = {} => Unique(p1.s)
  BY <1>3, PushedAll
<1>5. CASE p1.res # "ok"
  <2>1. o = p1
    BY <1>1, <1>2, <1>3, <1>5
  <2>2. QED BY <1>4, <1>5, <2>1 DEF Added, Results
<1>6. CASE p1.res = "ok"
  <2>1. /\ Sound(p1.s) /\ Small(p1.s) /\ Grows(s, p1.s)
        /\ Articles(p1.s) = Articles(s) \cup Names(metas)
        /\ s.pipe # "lost" => p1.s.pipe # "lost"
    BY <1>4, <1>6 DEF Added
  <2>2. /\ Sound(p2.s)
        /\ Small(p2.s)
        /\ Grows(p1.s, p2.s)
        /\ p2.res \in {"ok", "mime", "io", "panic"}
        /\ p2.res = "ok" => /\ Articles(p2.s) = Articles(p1.s) \cup {Counter}
                            /\ p1.s.pipe # "lost" => p2.s.pipe # "lost"
                            /\ Counter \notin Articles(p1.s) =>
                                 p2.s.counted = Articles(p1.s) \cap Paths
        /\ p2.res = "panic" => p1.s.pipe = "lost"
        /\ Unique(p1.s) => Unique(p2.s)
    BY <1>3, <1>6, <2>1, CounterPushed
  <2>3. Grows(s, p2.s)
    BY <2>1, <2>2, GrowsOn
  <2>4. CASE p2.res # "ok"
    <3>1. o = p2
      BY <1>1, <1>2, <2>4
    <3>2. QED BY <2>1, <2>2, <2>3, <2>4, <3>1 DEF Results
  <2>5. CASE p2.res = "ok"
    <3>1. /\ Added(p2.s, p3, {})
          /\ Unique(p2.s) => Unique(p3.s)
          /\ p3.res = "ok" => Empty(p3.s)
      BY <1>2, <2>2, <2>5, FlushedAll
    <3>2. Grows(s, p3.s)
      BY <2>3, <3>1, GrowsOn DEF Added
    <3>3. CASE p3.res # "ok"
      <4>1. o = p3
        BY <1>1, <3>3
      <4>2. QED BY <2>1, <2>2, <2>5, <3>1, <3>2, <3>3, <4>1 DEF Added, Results
    <3>4. CASE p3.res = "ok"
      <4>1. /\ Sound(p3.s) /\ Small(p3.s) /\ Empty(p3.s)
            /\ Articles(p3.s) = Articles(s) \cup Names(metas) \cup {Counter}
            /\ s.pipe # "lost" => p3.s.pipe # "lost"
            /\ p3.s.counted = p2.s.counted
        BY <2>1, <2>2, <2>5, <3>1, <3>4 DEF Added
      <4>2. /\ Sound(o.s)
            /\ Small(o.s)
            /\ Grows(p3.s, o.s)
            /\ o.res \in Results
            /\ o.res = "ok" => /\ Empty(o.s)
                               /\ Articles(o.s) = Articles(p3.s) \cup {Listing}
                               /\ o.s.counted = p3.s.counted
                               /\ p3.s.pipe # "lost" => o.s.pipe # "lost"
            /\ o.res = "panic" => p3.s.pipe = "lost"
            /\ o.res = "duplicate" => HasDuplicates(p3.s, R)
        BY <1>1, <3>4, <4>1, ListingPushed
      <4>3. Grows(s, o.s)
        BY <3>2, <4>2, GrowsOn
      <4>4. ASSUME Apart(s, metas, R) PROVE o.res # "duplicate"
        <5>1. Unique(p3.s)
          BY <1>4, <2>2, <3>1, <4>4 DEF Apart
        <5>2. ~HasDuplicates(p3.s, R)
          BY <4>1, <4>4, <5>1, NoDuplicates DEF Apart
        <5>3. QED BY <4>2, <5>2
      <4>5. QED BY <2>1, <2>2, <2>5, <4>1, <4>2, <4>3, <4>4 DEF R
    <3>5. QED BY <3>3, <3>4
  <2>6. QED BY <2>4, <2>5
<1>7. QED BY <1>5, <1>6

----------------------------------------------------------------------------
(* The parts of the invariant that most steps leave alone *)

StreamedFlights == {f \in inflight : f.route # "buffered"}

\* The streamed items, when the Streamer only grows.
LEMMA OwnersKept ==
  ASSUME SlotsOwned, BodyAsCounted, TasksExact, ScratchFilesOwned,
         Grows(s, s'), StreamedFlights' = StreamedFlights, tasks' = tasks,
         temps' = temps, mode \notin Ended, mode' \notin Ended,
         mode = "dropping" => mode' = "dropping"
  PROVE  SlotsOwned' /\ BodyAsCounted' /\ TasksExact' /\ ScratchFilesOwned'
<1>1. FlightSlots' = FlightSlots
  BY DEF FlightSlots, StreamedFlights
<1>2. StreamedSlots' = StreamedSlots
  BY DEF StreamedSlots, Grows
<1>3. SlotsOwned'
  BY <1>1, <1>2 DEF SlotsOwned, Ended
<1>4. BodyAsCounted'
  <2>1. \A f \in inflight' : f.route # "buffered" => f \in inflight
    BY DEF StreamedFlights
  <2>2. QED BY <2>1 DEF BodyAsCounted, Grows
<1>5. TasksExact'
  <2>1. \A i \in DOMAIN tasks : i \in DOMAIN s.slots
    BY DEF SlotsOwned, StreamedSlots
  <2>2. QED BY <2>1 DEF TasksExact, Grows, Dirent
<1>6. ScratchFilesOwned'
  BY <1>1 DEF ScratchFilesOwned, FlightSlots
<1>7. QED BY <1>3, <1>4, <1>5, <1>6

\* The entries with the keys K, and no others, become articles.
LEMMA KeysKept ==
  ASSUME KeysKnown, KeysApart, AllPlaced,
         mode \in {"buffered", "streaming"}, mode' \in {mode, "dropping"},
         UNCHANGED <<items, redirs, metas, main, startFailed>>,
         s.pipe = "lost" => s'.pipe = "lost", Articles(s) \subseteq Articles(s'),
         NEW K, K \cap accepted = {}, accepted' = accepted \cup K,
         K \subseteq Articles(s'),
         s'.pipe # "lost" => /\ Articles(s') \subseteq Articles(s) \cup K
                             /\ Unique(s) => Unique(s'),
         \A f \in inflight' : f.key \in keys' \ accepted'
  PROVE  KeysKnown' /\ KeysApart' /\ AllPlaced'
<1>1. /\ Names(items)' = Names(items) /\ Names(metas)' = Names(metas)
      /\ Distinct(items)' = Distinct(items) /\ Distinct(metas)' = Distinct(metas)
      /\ RedirectKeys' = RedirectKeys /\ MainKeys' = MainKeys
  BY DEF Names, Distinct, RedirectKeys, MainKeys
<1>2. Working' => Working /\ s'.pipe # "lost"
  BY DEF Working
<1>3. Names(items) \cup Names(metas) \cup RedirectKeys \cup MainKeys \subseteq accepted
      /\ MainPage \notin RedirectKeys
  BY DEF KeysKnown
<1>4. Articles(s)' = Articles(s')
  BY DEF Articles
<1>5. KeysKnown'
  BY <1>1, <1>2, <1>3, <1>4 DEF KeysKnown
<1>6. KeysApart'
  <2>1. Unique(s') = Unique(s)'
    BY DEF Unique
  <2>2. QED BY <1>1, <1>2, <1>3, <1>4, <2>1 DEF KeysApart
<1>7. AllPlaced'
  BY <1>1, <1>4 DEF AllPlaced
<1>8. QED BY <1>5, <1>6, <1>7

\* Before finalize nothing is assembled.
LEMMA NotYetAssembled ==
  ASSUME DuplicatesRefusedEarly, s.pipe = "lost" => s'.pipe = "lost",
         mode' \notin {"draining", "done"},
         why' = why \/ why' # "duplicate" \/ s'.pipe = "lost"
  PROVE  Assembled' /\ Finished' /\ DuplicatesRefusedEarly'
BY DEF Assembled, Finished, DuplicatesRefusedEarly

\* After an end nothing is left to keep of the keys.
LEMMA NoMoreCalls ==
  ASSUME KeysKnown, mode' \notin {"buffered", "streaming"}, inflight' \subseteq inflight,
         keys' = keys, accepted' = accepted
  PROVE  KeysKnown' /\ KeysApart' /\ AllPlaced'
BY DEF KeysKnown, KeysApart, AllPlaced, Working

\* Nothing happens to the Streamer.
LEMMA SameStreamer ==
  ASSUME s' = s
  PROVE  /\ Sound(s)' <=> Sound(s)
         /\ Small(s)' <=> Small(s)
         /\ Grows(s, s')
         /\ Articles(s') = Articles(s)
         /\ Unique(s') <=> Unique(s)
BY DEF Grows, Sound, BucketsExact, DirentsExact, SentExact, PipeSlots, Dirent, Small

\* The Streamer that start_writing makes.
LEMMA FreshStreamer ==
  /\ Sound(NewStreamer) /\ Small(NewStreamer) /\ Empty(NewStreamer) /\ Unique(NewStreamer)
  /\ Articles(NewStreamer) = {}
  /\ NewStreamer.pipe = "off" /\ NewStreamer.slots = << >> /\ NewStreamer.sent = << >>
<1> DEFINE t == NewStreamer
<1>1. /\ t.buckets = [m \in AllMimes |-> Bucket] /\ t.mimes = {} /\ t.slots = << >>
      /\ t.dirents = {} /\ t.pipe = "off" /\ t.sent = << >> /\ t.counted = {}
  BY DEF NewStreamer
<1>2. /\ Bucket.blobs = << >> /\ Bucket.size = 0 /\ Bucket.pending = {}
      /\ DOMAIN Bucket.blobs = {} /\ Bucket \in BucketType
  BY DEF Bucket, BucketType
<1>3. /\ t.slots \in Seq(SlotType) /\ t.sent \in Seq(Nat)
      /\ DOMAIN t.slots = {} /\ Range(t.sent) = {} /\ IsInjective(t.sent)
  BY <1>1, EmptyChannel
<1>4. t \in StreamerType
  BY <1>2, <1>3 DEF StreamerType, NewStreamer
<1> HIDE DEF t
<1>5. PipeSlots(t) = {}
  BY <1>3 DEF PipeSlots
<1>6. BucketsExact(t)
  BY <1>1, <1>2 DEF BucketsExact
<1>7. DirentsExact(t) /\ SentExact(t)
  BY <1>1, <1>3, <1>5 DEF DirentsExact, SentExact
<1>8. Small(t) /\ Empty(t) /\ Unique(t)
  BY <1>1, <1>2, TargetAssumption DEF Small, Empty, Unique
<1>9. Articles(t) = {}
  BY <1>1, <1>2 DEF Articles
<1>10. QED BY <1>1, <1>4, <1>5, <1>6, <1>7, <1>8, <1>9 DEF Sound, t

\* The invariant holds of a new Creator.
LEMMA InitWriter == Init => WriterInv
<1> SUFFICES ASSUME Init PROVE WriterInv
  OBVIOUS
<1>1. /\ Names(items) = {} /\ Names(metas) = {} /\ RedirectKeys = {} /\ MainKeys = {}
      /\ Distinct(items) /\ Distinct(metas)
  BY DEF Init, Names, RedirectKeys, MainKeys, Distinct
<1>2. WriterTypes
  <2>1. << >> \in Seq(ItemType)
    OBVIOUS
  <2>2. QED BY <2>1 DEF Init, WriterTypes, Ended
<1>3. Sound(s) /\ Small(s) /\ Unique(s) /\ Articles(s) = {} /\ s.slots = << >>
  BY FreshStreamer DEF Init
<1>4. SlotsOwned /\ BodyAsCounted /\ TasksExact /\ ScratchFilesOwned
  BY <1>3 DEF Init, SlotsOwned, BodyAsCounted, TasksExact, ScratchFilesOwned,
              StreamedSlots, FlightSlots, Ended
<1>5. KeysKnown /\ KeysApart /\ AllPlaced
  BY <1>1, <1>3 DEF Init, KeysKnown, KeysApart, AllPlaced
<1>6. Assembled /\ Finished /\ DuplicatesRefusedEarly
  BY DEF Init, Assembled, Finished, DuplicatesRefusedEarly
<1>7. QED BY <1>2, <1>3, <1>4, <1>5, <1>6 DEF WriterInv

\* A new key is nowhere yet.
LEMMA NewKey ==
  ASSUME WriterTypes, KeysKnown, mode \in {"buffered", "streaming"}, NEW k, k \notin accepted
  PROVE  /\ k \notin Names(items) /\ k \notin Names(metas)
         /\ k \notin RedirectKeys /\ k \notin MainKeys
         /\ Working => k \notin Articles(s)
BY DEF KeysKnown

\* One more entry at the end.
LEMMA NamesAppend ==
  ASSUME NEW S, NEW q \in Seq(S), NEW it \in S
  PROVE  /\ Append(q, it) \in Seq(S)
         /\ Names(Append(q, it)) = Names(q) \cup {it.key}
         /\ Distinct(q) /\ it.key \notin Names(q) => Distinct(Append(q, it))
<1>1. /\ Append(q, it) \in Seq(S)
      /\ DOMAIN Append(q, it) = DOMAIN q \cup {Len(q) + 1}
      /\ Append(q, it)[Len(q) + 1] = it
      /\ \A i \in DOMAIN q : Append(q, it)[i] = q[i]
  OBVIOUS
<1>2. QED BY <1>1 DEF Names, Distinct

\* What clients add are items.
LEMMA ItemsTyped ==
  /\ Item \subseteq ItemType
  /\ MetaNames \subseteq AllKeys
  /\ \A k \in AllKeys, n \in Nat, m \in AllMimes : [key |-> k, size |-> n, mime |-> m] \in ItemType
BY KeyFacts, LengthAssumption DEF Item, ItemType, AllKeys, AllMimes

----------------------------------------------------------------------------
(* One lemma per action *)

\* The item of a call that ends in the Streamer: o is its outcome.
LEMMA ItemPushed ==
  ASSUME WriterInv, mode = "streaming", NEW it \in ItemType, NEW o \in PushItem(s, it),
         Returns(o), it.key \notin accepted, o.res = "ok" => it.key \in keys',
         keys \subseteq keys', keys' \subseteq AllKeys,
         accepted' = IF o.res = "ok" THEN accepted \cup {it.key} ELSE accepted,
         UNCHANGED <<items, redirs, metas, main, tasks, temps, file, startFailed>>,
         StreamedFlights' = StreamedFlights, inflight' \subseteq inflight,
         \A f \in inflight' : f.key # it.key
  PROVE  WriterInv'
<1>1. /\ Sound(s) /\ Small(s) /\ s' = o.s
      /\ mode' = IF o.res = "panic" THEN "dropping" ELSE mode
      /\ why' = IF o.res = "panic" THEN "panic" ELSE why
  BY DEF WriterInv, Returns
<1>2. /\ Added(s, o, {it.key})
      /\ o.res # "ok" /\ o.s.pipe # "lost" => Articles(o.s) = Articles(s)
      /\ Unique(s) /\ it.key \notin Articles(s) => Unique(o.s)
  BY <1>1, Pushed
<1>3. /\ Sound(s') /\ Small(s') /\ Grows(s, s')
      /\ Articles(s) \subseteq Articles(s')
      /\ Articles(s') \subseteq Articles(s) \cup {it.key}
      /\ o.res = "ok" => Articles(s') = Articles(s) \cup {it.key}
      /\ o.res # "ok" /\ s'.pipe # "lost" => Articles(s') = Articles(s)
      /\ Unique(s) /\ it.key \notin Articles(s) => Unique(s')
  BY <1>1, <1>2 DEF Added
<1>4. mode' \in {"streaming", "dropping"}
  BY <1>1
<1>5. WriterTypes'
  BY <1>4 DEF WriterInv, WriterTypes
<1>6. SlotsOwned' /\ BodyAsCounted' /\ TasksExact' /\ ScratchFilesOwned'
  BY <1>3, <1>4, OwnersKept DEF WriterInv, Ended
<1>7. KeysKnown' /\ KeysApart' /\ AllPlaced'
  <2>1. s'.pipe # "lost" => (Unique(s) => Unique(s'))
    <3>1. s'.pipe # "lost" => Working
      BY <1>3 DEF Working, Grows
    <3>2. QED BY <1>3, <3>1, NewKey DEF WriterInv
  <2>2. \A f \in inflight' : f.key \in keys' \ accepted'
    BY DEF WriterInv, KeysKnown
  <2>3. CASE o.res = "ok"
    <3>1. /\ accepted' = accepted \cup {it.key} /\ {it.key} \cap accepted = {}
          /\ {it.key} \subseteq Articles(s')
          /\ s.pipe = "lost" => s'.pipe = "lost"
      BY <1>3, <2>3 DEF Grows
    <3>2. QED BY <1>3, <1>4, <2>1, <2>2, <3>1, KeysKept DEF WriterInv
  <2>4. CASE o.res # "ok"
    <3>1. /\ accepted' = accepted \cup {} /\ {} \cap accepted = {} /\ {} \subseteq Articles(s')
          /\ s'.pipe # "lost" => Articles(s') \subseteq Articles(s) \cup {}
          /\ s.pipe = "lost" => s'.pipe = "lost"
      BY <1>3, <2>4 DEF Grows
    <3>2. QED BY <1>3, <1>4, <2>1, <2>2, <3>1, KeysKept DEF WriterInv
  <2>5. QED BY <2>3, <2>4
<1>8. Assembled' /\ Finished' /\ DuplicatesRefusedEarly'
  BY <1>1, <1>3, <1>4, NotYetAssembled DEF WriterInv, Grows
<1>9. Sound(s)' /\ Small(s)'
  <2>1. (Sound(s)' <=> Sound(s')) /\ (Small(s)' <=> Small(s'))
    BY DEF Sound, Small
  <2>2. QED BY <1>3, <2>1
<1>10. QED BY <1>5, <1>6, <1>7, <1>8, <1>9 DEF WriterInv

\* try_add_item, buffered or packed.
LEMMA ItemAdded ==
  ASSUME WriterInv, NEW it \in Item, AddItem(it)
  PROVE  WriterInv'
<1>1. it \in ItemType /\ it.key \notin keys /\ accepted \subseteq keys /\ it.key \in AllKeys
  BY ItemsTyped DEF AddItem, WriterInv, WriterTypes, ItemType
<1>2. CASE mode = "streaming"
  <2>1. PICK o \in PushItem(s, it) :
          /\ Returns(o)
          /\ keys' = IF o.res = "ok" THEN keys \cup {it.key} ELSE keys
          /\ accepted' = IF o.res = "ok" THEN accepted \cup {it.key} ELSE accepted
    BY <1>2 DEF AddItem
  <2>2. \A f \in inflight : f.key # it.key
    BY <1>1 DEF WriterInv, KeysKnown
  <2>3. /\ it.key \notin accepted
        /\ o.res = "ok" => it.key \in keys'
        /\ keys \subseteq keys' /\ keys' \subseteq AllKeys
    BY <1>1, <2>1 DEF WriterInv, WriterTypes
  <2>4. UNCHANGED <<items, redirs, metas, main, inflight, tasks, temps, file, startFailed>>
    BY <1>2 DEF AddItem
  <2>5. StreamedFlights' = StreamedFlights /\ inflight' \subseteq inflight
        /\ \A f \in inflight' : f.key # it.key
    BY <2>2, <2>4 DEF StreamedFlights
  <2>6. QED BY <1>1, <1>2, <2>1, <2>3, <2>4, <2>5, ItemPushed
<1>3. CASE mode = "buffered"
  <2>1. /\ items' = Append(items, it)
        /\ keys' = keys \cup {it.key}
        /\ accepted' = accepted \cup {it.key}
        /\ UNCHANGED <<mode, s, why, redirs, metas, main, inflight, tasks, temps, file,
                       startFailed>>
    BY <1>3 DEF AddItem
  <2>2. /\ items' \in Seq(ItemType)
        /\ Names(items)' = Names(items) \cup {it.key}
        /\ Distinct(items) /\ it.key \notin Names(items) => Distinct(items)'
    <3>1. items \in Seq(ItemType)
      BY DEF WriterInv, WriterTypes
    <3>2. Names(items)' = Names(items') /\ Distinct(items)' = Distinct(items')
      BY DEF Names, Distinct
    <3>3. QED BY <1>1, <2>1, <3>1, <3>2, NamesAppend
  <2>3. WriterTypes'
    BY <1>1, <1>3, <2>1, <2>2 DEF WriterInv, WriterTypes, Ended
  <2>4. Sound(s)' /\ Small(s)' /\ Grows(s, s') /\ Articles(s)' = Articles(s)
        /\ (Unique(s)' <=> Unique(s)) /\ Working' = Working
    BY <2>1, SameStreamer DEF WriterInv, Articles, Unique, Working
  <2>5. SlotsOwned' /\ BodyAsCounted' /\ TasksExact' /\ ScratchFilesOwned'
    BY <1>3, <2>1, <2>4, OwnersKept DEF WriterInv, Ended, StreamedFlights
  <2>6. /\ Names(metas)' = Names(metas) /\ Distinct(metas)' = Distinct(metas)
        /\ RedirectKeys' = RedirectKeys /\ MainKeys' = MainKeys
    BY <2>1 DEF Names, Distinct, RedirectKeys, MainKeys
  <2>7. /\ it.key \notin Names(items) /\ it.key \notin Names(metas)
        /\ it.key \notin RedirectKeys /\ it.key \notin MainKeys
    BY <1>1, <1>3, NewKey DEF WriterInv
  <2>8. KeysKnown'
    BY <1>1, <2>1, <2>2, <2>4, <2>6 DEF WriterInv, KeysKnown, Working
  <2>9. KeysApart'
    BY <1>1, <2>1, <2>2, <2>4, <2>6, <2>7 DEF WriterInv, KeysApart
  <2>10. AllPlaced'
    BY <2>1, <2>2, <2>4, <2>6 DEF WriterInv, AllPlaced
  <2>11. Assembled' /\ Finished' /\ DuplicatesRefusedEarly'
    BY <1>3, <2>1, <2>4, NotYetAssembled DEF WriterInv, Grows
  <2>12. QED BY <2>3, <2>4, <2>5, <2>8, <2>9, <2>10, <2>11 DEF WriterInv
<1>4. QED BY <1>2, <1>3 DEF AddItem

\* A call that neither begins nor ends a streamed item nor finishes.
LEMMA RestKept ==
  ASSUME WriterInv, mode \notin Ended, mode' \in {"buffered", "streaming", "dropping"},
         mode = "dropping" => mode' = "dropping",
         Sound(s'), Small(s'), Grows(s, s'), why' = why \/ why' # "duplicate",
         StreamedFlights' = StreamedFlights, UNCHANGED <<tasks, temps>>,
         WriterTypes', KeysKnown', KeysApart', AllPlaced'
  PROVE  WriterInv'
<1>1. SlotsOwned' /\ BodyAsCounted' /\ TasksExact' /\ ScratchFilesOwned'
  BY OwnersKept DEF WriterInv, Ended
<1>2. Assembled' /\ Finished' /\ DuplicatesRefusedEarly'
  BY NotYetAssembled DEF WriterInv, Grows
<1>3. Sound(s)' /\ Small(s)'
  BY DEF Sound, Small
<1>4. QED BY <1>1, <1>2, <1>3 DEF WriterInv

\* A call that leaves the Streamer and its items alone.
LEMMA CreatorOnly ==
  ASSUME WriterInv, mode \in {"buffered", "streaming"}, mode' = mode,
         UNCHANGED <<s, inflight, tasks, temps, why>>,
         WriterTypes', KeysKnown', KeysApart', AllPlaced'
  PROVE  WriterInv'
<1>1. Sound(s') /\ Small(s') /\ Grows(s, s')
  BY SameStreamer DEF WriterInv, Sound, Small
<1>2. StreamedFlights' = StreamedFlights
  BY DEF StreamedFlights
<1>3. QED BY <1>1, <1>2, RestKept DEF Ended

\* add_redirection, add_alias.
LEMMA RedirectionAdded ==
  ASSUME WriterInv, NEW p \in Paths, NEW target \in Paths, AddRedirection(p, target)
  PROVE  WriterInv'
<1>1. /\ mode \in {"buffered", "streaming"}
      /\ p \notin keys /\ accepted \subseteq keys /\ p \in AllKeys /\ p # MainPage
      /\ keys' = keys \cup {p} /\ accepted' = accepted \cup {p}
      /\ redirs' = redirs \cup {[key |-> p, target |-> target]}
      /\ UNCHANGED <<mode, items, metas, main, s, inflight, tasks, temps, file, why, startFailed>>
  BY KeyFacts DEF AddRedirection, Open, WriterInv, WriterTypes
<1>2. /\ RedirectKeys' = RedirectKeys \cup {p}
      /\ Names(items)' = Names(items) /\ Names(metas)' = Names(metas) /\ MainKeys' = MainKeys
      /\ Distinct(items)' = Distinct(items) /\ Distinct(metas)' = Distinct(metas)
      /\ Articles(s)' = Articles(s) /\ Unique(s)' = Unique(s) /\ Working' = Working
  <2>1. RedirectKeys' = RedirectKeys \cup {p}
    <3> DEFINE r == [key |-> p, target |-> target]
    <3>1. r.key = p /\ redirs' = redirs \cup {r}
      BY <1>1
    <3> HIDE DEF r
    <3>2. QED BY <3>1 DEF RedirectKeys
  <2>2. QED BY <1>1, <2>1 DEF Names, Distinct, MainKeys, Articles, Unique, Working
<1>3. /\ p \notin Names(items) /\ p \notin Names(metas)
      /\ p \notin RedirectKeys /\ p \notin MainKeys
      /\ Working => p \notin Articles(s)
  BY <1>1, NewKey DEF WriterInv
<1>4. WriterTypes'
  BY <1>1 DEF WriterInv, WriterTypes
<1>5. KeysKnown'
  BY <1>1, <1>2 DEF WriterInv, KeysKnown
<1>6. KeysApart'
  <2>1. \A r \in redirs : r.key # p
    BY <1>3 DEF RedirectKeys
  <2>2. Working => \A q, r \in redirs' : q.key = r.key => q = r
    BY <1>1, <2>1 DEF WriterInv, KeysApart
  <2>3. QED BY <1>2, <1>3, <2>2 DEF WriterInv, KeysApart
<1>7. AllPlaced'
  BY <1>1, <1>2 DEF WriterInv, AllPlaced
<1>8. QED BY <1>1, <1>4, <1>5, <1>6, <1>7, CreatorOnly

\* add_metadata, add_illustration.
LEMMA MetadataAdded ==
  ASSUME WriterInv, NEW name \in MetaNames, NEW n \in Sizes, AddMetadata(name, n)
  PROVE  WriterInv'
<1> DEFINE it == [key |-> name, size |-> n, mime |-> MetaMime]
<1>1. /\ mode \in {"buffered", "streaming"}
      /\ name \notin keys /\ accepted \subseteq keys /\ name \in AllKeys
      /\ keys' = keys \cup {name} /\ accepted' = accepted \cup {name}
      /\ metas' = Append(metas, it)
      /\ UNCHANGED <<mode, items, redirs, main, s, inflight, tasks, temps, file, why, startFailed>>
  BY KeyFacts DEF AddMetadata, Open, WriterInv, WriterTypes
<1>2. it \in ItemType /\ it.key = name
  BY <1>1, KeyFacts, ItemsTyped, LengthAssumption
<1> HIDE DEF it
<1>3. /\ metas' \in Seq(ItemType)
      /\ Names(metas)' = Names(metas) \cup {name}
      /\ Distinct(metas) /\ name \notin Names(metas) => Distinct(metas)'
  <2>1. Names(metas)' = Names(metas') /\ Distinct(metas)' = Distinct(metas')
    BY DEF Names, Distinct
  <2>2. metas \in Seq(ItemType)
    BY DEF WriterInv, WriterTypes
  <2>3. QED BY <1>1, <1>2, <2>1, <2>2, NamesAppend
<1>4. /\ RedirectKeys' = RedirectKeys
      /\ Names(items)' = Names(items) /\ MainKeys' = MainKeys
      /\ Distinct(items)' = Distinct(items)
      /\ Articles(s)' = Articles(s) /\ Unique(s)' = Unique(s) /\ Working' = Working
  BY <1>1 DEF RedirectKeys, Names, Distinct, MainKeys, Articles, Unique, Working
<1>5. /\ name \notin Names(items) /\ name \notin Names(metas)
      /\ name \notin RedirectKeys /\ name \notin MainKeys
      /\ Working => name \notin Articles(s)
  BY <1>1, NewKey DEF WriterInv
<1>6. WriterTypes'
  BY <1>1, <1>3 DEF WriterInv, WriterTypes
<1>7. KeysKnown'
  BY <1>1, <1>3, <1>4 DEF WriterInv, KeysKnown
<1>8. KeysApart'
  BY <1>1, <1>3, <1>4, <1>5 DEF WriterInv, KeysApart
<1>9. AllPlaced'
  BY <1>1, <1>3, <1>4 DEF WriterInv, AllPlaced
<1>10. QED BY <1>1, <1>6, <1>7, <1>8, <1>9, CreatorOnly

\* set_main_path, the first and the later ones.
LEMMA MainPathSet ==
  ASSUME WriterInv, NEW p \in Paths, SetMainPath(p)
  PROVE  WriterInv'
<1>1. /\ mode \in {"buffered", "streaming"}
      /\ main = {} => MainPage \notin keys
      /\ accepted \subseteq keys
      /\ main' = {p} /\ keys' = keys \cup {MainPage} /\ accepted' = accepted \cup {MainPage}
      /\ UNCHANGED <<mode, items, redirs, metas, s, inflight, tasks, temps, file, why, startFailed>>
  BY DEF SetMainPath, Open, WriterInv, WriterTypes
<1>2. /\ MainKeys' = {MainPage}
      /\ Names(items)' = Names(items) /\ Names(metas)' = Names(metas)
      /\ RedirectKeys' = RedirectKeys
      /\ Distinct(items)' = Distinct(items) /\ Distinct(metas)' = Distinct(metas)
      /\ Articles(s)' = Articles(s) /\ Unique(s)' = Unique(s) /\ Working' = Working
  BY <1>1 DEF RedirectKeys, Names, Distinct, MainKeys, Articles, Unique, Working
<1>3. WriterTypes'
  BY <1>1, KeyFacts DEF WriterInv, WriterTypes
<1>4. main # {} => MainKeys = {MainPage}
  BY DEF MainKeys
<1>5. KeysKnown'
  <2>1. main = {} => \A f \in inflight : f.key # MainPage
    BY <1>1 DEF WriterInv, KeysKnown
  <2>2. main # {} => MainPage \in accepted
    BY <1>1, <1>4 DEF WriterInv, KeysKnown
  <2>3. QED BY <1>1, <1>2, <2>1, <2>2 DEF WriterInv, KeysKnown
<1>6. KeysApart'
  <2>1. main = {} => /\ MainPage \notin Names(items) /\ MainPage \notin Names(metas)
                     /\ MainPage \notin RedirectKeys
                     /\ Working => MainPage \notin Articles(s)
    BY <1>1, NewKey DEF WriterInv
  <2>2. QED BY <1>1, <1>2, <1>4, <2>1 DEF WriterInv, KeysApart
<1>7. AllPlaced'
  <2>1. MainKeys \subseteq {MainPage}
    BY DEF MainKeys
  <2>2. QED BY <1>1, <1>2, <2>1 DEF WriterInv, AllPlaced
<1>8. QED BY <1>1, <1>3, <1>5, <1>6, <1>7, CreatorOnly

\* start_writing: every buffered item is in the Streamer.
LEMMA WritingStarted ==
  ASSUME WriterInv, StartWriting
  PROVE  WriterInv'
<1>1. /\ mode = "buffered" /\ mode' = "streaming" /\ items' = << >>
      /\ UNCHANGED <<redirs, metas, main, keys, inflight, tasks, temps, file, why,
                     accepted, startFailed>>
  BY DEF StartWriting
<1>2. s = NewStreamer /\ inflight = {} /\ items \in Seq(ItemType)
  BY <1>1 DEF WriterInv, WriterTypes
<1>3. PICK o \in PushAll(s, items) : o.res = "ok" /\ s' = o.s
  BY <1>2 DEF StartWriting
<1>4. /\ Sound(s) /\ Small(s) /\ Unique(s) /\ Articles(s) = {} /\ s.pipe = "off"
  BY <1>2, FreshStreamer
<1>5. /\ Added(s, o, Names(items))
      /\ Unique(s) /\ Distinct(items) /\ Names(items) \cap Articles(s) = {} => Unique(o.s)
  BY <1>2, <1>4, PushedAll
<1>6. /\ Sound(s') /\ Small(s') /\ Grows(s, s')
      /\ Articles(s') = Names(items)
  BY <1>3, <1>4, <1>5 DEF Added
<1>7. Working /\ Distinct(items) /\ Unique(s')
  <2>1. Working
    BY <1>1, <1>4 DEF Working
  <2>2. QED BY <1>3, <1>4, <1>5, <2>1 DEF WriterInv, KeysApart
<1>8. /\ Names(items)' = {} /\ Distinct(items)'
      /\ Names(metas)' = Names(metas) /\ Distinct(metas)' = Distinct(metas)
      /\ RedirectKeys' = RedirectKeys /\ MainKeys' = MainKeys
      /\ Articles(s)' = Articles(s') /\ Unique(s)' = Unique(s')
  BY <1>1 DEF Names, Distinct, RedirectKeys, MainKeys, Articles, Unique
<1>9. WriterTypes'
  <2>1. << >> \in Seq(ItemType)
    OBVIOUS
  <2>2. QED BY <1>1, <2>1 DEF WriterInv, WriterTypes
<1>10. KeysKnown'
  BY <1>1, <1>2, <1>6, <1>8 DEF WriterInv, KeysKnown
<1>11. KeysApart'
  BY <1>1, <1>6, <1>7, <1>8 DEF WriterInv, KeysApart
<1>12. AllPlaced'
  BY <1>1, <1>4, <1>6, <1>8 DEF WriterInv, AllPlaced
<1>13. StreamedFlights' = StreamedFlights
  BY <1>1 DEF StreamedFlights
<1>14. QED BY <1>1, <1>6, <1>9, <1>10, <1>11, <1>12, <1>13, RestKept DEF Ended

\* A start_writing that fails loses main_path, and perhaps the items.
LEMMA StartFailed ==
  ASSUME WriterInv, OpenFails \/ DrainFails
  PROVE  WriterInv'
<1>1. /\ mode = "buffered" /\ main' = {} /\ items' \in {items, << >>} /\ startFailed'
      /\ UNCHANGED <<mode, redirs, metas, keys, s, inflight, tasks, temps, file, why, accepted>>
  BY DEF OpenFails, DrainFails
<1>2. /\ Names(items)' \subseteq Names(items) /\ (Distinct(items) => Distinct(items)')
      /\ Names(metas)' = Names(metas) /\ Distinct(metas)' = Distinct(metas)
      /\ RedirectKeys' = RedirectKeys /\ MainKeys' = {}
      /\ Articles(s)' = Articles(s) /\ Unique(s)' = Unique(s) /\ Working' = Working
  BY <1>1 DEF RedirectKeys, Names, Distinct, MainKeys, Articles, Unique, Working
<1>3. WriterTypes'
  <2>1. << >> \in Seq(ItemType)
    OBVIOUS
  <2>2. QED BY <1>1, <2>1 DEF WriterInv, WriterTypes, Ended
<1>4. KeysKnown'
  BY <1>1, <1>2 DEF WriterInv, KeysKnown
<1>5. KeysApart'
  BY <1>1, <1>2 DEF WriterInv, KeysApart
<1>6. AllPlaced'
  BY <1>1 DEF AllPlaced
<1>7. QED BY <1>1, <1>3, <1>4, <1>5, <1>6, CreatorOnly

\* Nothing is accepted or added meanwhile: an item begins or goes on.
LEMMA ItemInProgress ==
  ASSUME WriterInv, mode = "streaming",
         Sound(s'), Small(s'), s.pipe = "lost" => s'.pipe = "lost",
         Articles(s') = Articles(s), Unique(s) => Unique(s'),
         UNCHANGED <<mode, items, redirs, metas, main, tasks, file, why, accepted, startFailed>>,
         keys \subseteq keys', keys' \subseteq AllKeys,
         inflight' \subseteq FlightType, \A f, g \in inflight' : f = g,
         \A f \in inflight' : f.key \in keys' \ accepted
  PROVE  /\ WriterTypes' /\ Sound(s)' /\ Small(s)'
         /\ KeysKnown' /\ KeysApart' /\ AllPlaced'
         /\ Assembled' /\ Finished' /\ DuplicatesRefusedEarly'
<1>1. WriterTypes'
  BY DEF WriterInv, WriterTypes
<1>2. KeysKnown' /\ KeysApart' /\ AllPlaced'
  <2>1. /\ accepted' = accepted \cup {} /\ {} \cap accepted = {} /\ {} \subseteq Articles(s')
        /\ Articles(s') \subseteq Articles(s) \cup {}
        /\ \A f \in inflight' : f.key \in keys' \ accepted'
    OBVIOUS
  <2>2. QED BY <2>1, KeysKept DEF WriterInv
<1>3. Assembled' /\ Finished' /\ DuplicatesRefusedEarly'
  BY NotYetAssembled DEF WriterInv
<1>4. Sound(s)' /\ Small(s)'
  BY DEF Sound, Small
<1>5. QED BY <1>1, <1>2, <1>3, <1>4

\* An exact size is given or it is not.
LEMMA ExpectedIs ==
  ASSUME NEW e \in Expected
  PROVE  e \subseteq Nat /\ \A n \in e : e = {n}
BY LengthAssumption DEF Expected

\* begin_chunked_item on the buffered route.
LEMMA BufferedBegun ==
  ASSUME WriterInv, NEW k \in Paths \cup OtherKeys, NEW m \in Mimes, NEW e \in Expected,
         BeginBuffered([key |-> k, mime |-> m], e)
  PROVE  WriterInv'
<1> DEFINE f == [key |-> k, mime |-> m, expected |-> e, route |-> "buffered", slot |-> 0,
                 written |-> 0, body |-> 0, torn |-> FALSE]
<1>1. /\ mode = "streaming" /\ inflight = {} /\ k \notin keys
      /\ inflight' = {f} /\ keys' = keys \cup {k}
      /\ UNCHANGED <<mode, items, redirs, metas, main, s, tasks, temps, file, why,
                     accepted, startFailed>>
  BY DEF BeginBuffered, CanBegin
<1>2. f \in FlightType /\ f.key = k /\ f.route = "buffered"
  BY KeyFacts, ExpectedIs DEF FlightType, AllMimes
<1> HIDE DEF f
<1>3. Sound(s') /\ Small(s') /\ Grows(s, s') /\ Articles(s') = Articles(s)
      /\ (Unique(s) => Unique(s'))
  BY <1>1, SameStreamer DEF WriterInv, Sound, Small
<1>4. k \notin accepted /\ keys \subseteq AllKeys /\ k \in AllKeys
  BY <1>1, KeyFacts DEF WriterInv, WriterTypes
<1>5. /\ WriterTypes' /\ Sound(s)' /\ Small(s)'
      /\ KeysKnown' /\ KeysApart' /\ AllPlaced'
      /\ Assembled' /\ Finished' /\ DuplicatesRefusedEarly'
  <2>1. inflight' \subseteq FlightType /\ \A g, h \in inflight' : g = h
    BY <1>1, <1>2
  <2>2. \A g \in inflight' : g.key \in keys' \ accepted
    BY <1>1, <1>2, <1>4
  <2>3. keys \subseteq keys' /\ keys' \subseteq AllKeys
    BY <1>1, <1>4
  <2>4. QED BY <1>1, <1>3, <2>1, <2>2, <2>3, ItemInProgress DEF Grows
<1>6. StreamedFlights' = StreamedFlights
  BY <1>1, <1>2 DEF StreamedFlights
<1>7. SlotsOwned' /\ BodyAsCounted' /\ TasksExact' /\ ScratchFilesOwned'
  BY <1>1, <1>3, <1>6, OwnersKept DEF WriterInv, Ended
<1>8. QED BY <1>5, <1>7 DEF WriterInv

\* begin_chunked_item that fails on the streamed route.
LEMMA StreamedNotBegun ==
  ASSUME WriterInv, NEW k \in Paths \cup OtherKeys, NEW m \in Mimes, NEW e \in Expected,
         BeginStreamedFails([key |-> k, mime |-> m], e)
  PROVE  WriterInv'
<1>1. PICK o \in InternMime(s, m) : s' = o.s
  BY DEF BeginStreamedFails
<1>2. /\ mode = "streaming"
      /\ UNCHANGED <<mode, items, redirs, metas, main, keys, inflight, tasks, temps, file,
                     why, accepted, startFailed>>
  BY DEF BeginStreamedFails, CanBegin
<1>3. Alike(s, s') /\ s \in StreamerType
  BY <1>1, Interned DEF WriterInv, Sound, AllMimes
<1>4. Sound(s') /\ Small(s') /\ Grows(s, s') /\ Articles(s') = Articles(s)
      /\ (Unique(s) => Unique(s'))
  BY <1>3, AlikeKeeps DEF WriterInv
<1>5. /\ WriterTypes' /\ Sound(s)' /\ Small(s)'
      /\ KeysKnown' /\ KeysApart' /\ AllPlaced'
      /\ Assembled' /\ Finished' /\ DuplicatesRefusedEarly'
  <2>1. inflight' \subseteq FlightType /\ \A g, h \in inflight' : g = h
    BY <1>2 DEF WriterInv, WriterTypes
  <2>2. \A g \in inflight' : g.key \in keys' \ accepted
    BY <1>2 DEF WriterInv, KeysKnown
  <2>3. keys \subseteq keys' /\ keys' \subseteq AllKeys
    BY <1>2 DEF WriterInv, WriterTypes
  <2>4. QED BY <1>2, <1>4, <2>1, <2>2, <2>3, ItemInProgress DEF Grows
<1>6. StreamedFlights' = StreamedFlights
  BY <1>2 DEF StreamedFlights
<1>7. SlotsOwned' /\ BodyAsCounted' /\ TasksExact' /\ ScratchFilesOwned'
  BY <1>2, <1>4, <1>6, OwnersKept DEF WriterInv, Ended
<1>8. QED BY <1>5, <1>7 DEF WriterInv

\* A slot of its own for a streamed item.
LEMMA SlotTaken ==
  ASSUME NEW t, Sound(t), Small(t), NEW slot \in SlotType, slot.route # "pipe",
         NEW u, u = [t EXCEPT !.slots = Append(@, slot)]
  PROVE  /\ Sound(u) /\ Small(u)
         /\ Articles(u) = Articles(t)
         /\ Unique(t) => Unique(u)
         /\ u.pipe = t.pipe /\ u.dirents = t.dirents
         /\ DOMAIN u.slots = DOMAIN t.slots \cup {Len(t.slots) + 1}
         /\ Len(t.slots) + 1 \in Nat \ DOMAIN t.slots
         /\ u.slots[Len(t.slots) + 1] = slot
         /\ \A k \in DOMAIN t.slots : u.slots[k] = t.slots[k]
<1> DEFINE i == Len(t.slots) + 1
<1>1. t \in StreamerType /\ t.slots \in Seq(SlotType) /\ i \in Nat /\ i \notin DOMAIN t.slots
  BY DEF Sound, StreamerType
<1>2. /\ u \in StreamerType
      /\ u.buckets = t.buckets /\ u.dirents = t.dirents /\ u.pipe = t.pipe
      /\ u.sent = t.sent /\ u.slots = Append(t.slots, slot)
  <2>1. Append(t.slots, slot) \in Seq(SlotType)
    BY <1>1
  <2>2. QED BY <1>1, <2>1 DEF StreamerType
<1>3. /\ DOMAIN u.slots = DOMAIN t.slots \cup {i}
      /\ u.slots[i] = slot
      /\ \A k \in DOMAIN t.slots : u.slots[k] = t.slots[k]
  BY <1>1, <1>2
<1>4. PipeSlots(u) = PipeSlots(t)
  BY <1>1, <1>3 DEF PipeSlots
<1>5. Sound(u)
  <2>1. BucketsExact(u)
    BY <1>2 DEF Sound, BucketsExact
  <2>2. DirentsExact(u)
    <3>1. \A d \in u.dirents :
            /\ d.cluster \in DOMAIN t.slots
            /\ d.blob \in DOMAIN t.slots[d.cluster].blobs
            /\ d.key = t.slots[d.cluster].blobs[d.blob]
      BY <1>2 DEF Sound, DirentsExact
    <3>2. \A k \in PipeSlots(t) : k \in DOMAIN t.slots /\ \A b \in DOMAIN t.slots[k].blobs :
            Dirent(t, k, b) \in t.dirents
      BY DEF Sound, DirentsExact, PipeSlots
    <3>3. QED BY <1>2, <1>3, <1>4, <3>1, <3>2 DEF DirentsExact, Dirent
  <2>3. SentExact(u)
    BY <1>2, <1>4 DEF Sound, SentExact
  <2>4. \A k \in PipeSlots(u) : Packed(u.slots[k])
    <3>1. \A k \in PipeSlots(t) : Packed(t.slots[k]) /\ k \in DOMAIN t.slots
      BY DEF Sound, PipeSlots
    <3>2. QED BY <1>3, <1>4, <3>1
  <2>5. QED BY <1>2, <2>1, <2>2, <2>3, <2>4 DEF Sound
<1>6. Small(u) /\ Articles(u) = Articles(t) /\ (Unique(t) => Unique(u))
  BY <1>2 DEF Small, Articles, Unique
<1>7. QED BY <1>1, <1>2, <1>3, <1>5, <1>6

\* begin_chunked_item on the streamed route: a slot, a scratch file, an owner.
LEMMA StreamedBegun ==
  ASSUME WriterInv, NEW k \in Paths \cup OtherKeys, NEW m \in Mimes, NEW e \in Expected,
         NEW r \in {"zstd", "raw"}, BeginStreamed([key |-> k, mime |-> m], e, r)
  PROVE  WriterInv'
<1> DEFINE i == Len(s.slots) + 1
           f == [key |-> k, mime |-> m, expected |-> e, route |-> r, slot |-> i,
                 written |-> 0, body |-> 0, torn |-> FALSE]
<1>1. PICK o \in InternMime(s, m), n \in e :
        /\ s' = [o.s EXCEPT !.slots = Append(@,
                    [blobs |-> <<k>>, size |-> n, body |-> 0, route |-> r, torn |-> FALSE])]
        /\ inflight' = {f}
        /\ temps' = temps \cup {i}
  BY DEF BeginStreamed
<1> DEFINE slot == [blobs |-> <<k>>, size |-> n, body |-> 0, route |-> r, torn |-> FALSE]
<1>2. /\ mode = "streaming" /\ inflight = {} /\ k \notin keys
      /\ keys' = keys \cup {k}
      /\ UNCHANGED <<mode, items, redirs, metas, main, tasks, file, why, accepted, startFailed>>
  BY DEF BeginStreamed, CanBegin
<1>3. e = {n} /\ n \in Nat /\ k \in AllKeys /\ m \in AllMimes
  BY <1>1, ExpectedIs, KeyFacts DEF AllMimes
<1>4. slot \in SlotType /\ slot.route = r /\ slot.size = n /\ slot.body = 0
      /\ slot.blobs = <<k>>
  <2>1. <<k>> \in Seq(AllKeys)
    BY <1>3
  <2>2. QED BY <1>3, <2>1 DEF SlotType
<1>5. Sound(s) /\ Small(s) /\ s \in StreamerType /\ s.slots \in Seq(SlotType) /\ i \in Nat
  BY DEF WriterInv, Sound, StreamerType
<1>6. f \in FlightType /\ f.key = k /\ f.route = r /\ f.slot = i /\ f.expected = {n}
      /\ f.body = f.written
  BY <1>3, <1>5 DEF FlightType
<1>7. Alike(s, o.s)
  BY <1>3, <1>5, Interned
<1>8. /\ Sound(o.s) /\ Small(o.s) /\ Articles(o.s) = Articles(s) /\ (Unique(s) => Unique(o.s))
      /\ o.s.slots = s.slots /\ o.s.pipe = s.pipe /\ o.s.dirents = s.dirents
  BY <1>5, <1>7, AlikeKeeps DEF Alike
<1>9. s' = [o.s EXCEPT !.slots = Append(@, slot)]
  BY <1>1
<1> HIDE DEF f, slot
<1>10. /\ Sound(s') /\ Small(s')
       /\ Articles(s') = Articles(s)
       /\ Unique(s) => Unique(s')
       /\ s'.pipe = s.pipe /\ s'.dirents = s.dirents
       /\ DOMAIN s'.slots = DOMAIN s.slots \cup {i}
       /\ i \notin DOMAIN s.slots
       /\ s'.slots[i] = slot
       /\ \A j \in DOMAIN s.slots : s'.slots[j] = s.slots[j]
  BY <1>4, <1>8, <1>9, SlotTaken
<1>11. /\ WriterTypes' /\ Sound(s)' /\ Small(s)'
       /\ KeysKnown' /\ KeysApart' /\ AllPlaced'
       /\ Assembled' /\ Finished' /\ DuplicatesRefusedEarly'
  <2>1. inflight' \subseteq FlightType /\ \A g, h \in inflight' : g = h
    BY <1>1, <1>6
  <2>2. k \notin accepted /\ keys \subseteq keys' /\ keys' \subseteq AllKeys
    BY <1>2, <1>3 DEF WriterInv, WriterTypes
  <2>3. \A g \in inflight' : g.key \in keys' \ accepted
    BY <1>1, <1>2, <1>6, <2>2
  <2>4. QED BY <1>2, <1>10, <2>1, <2>2, <2>3, ItemInProgress
<1>12. FlightSlots = {} /\ FlightSlots' = {i}
  BY <1>1, <1>2, <1>6 DEF FlightSlots
<1>13. StreamedSlots' = StreamedSlots \cup {i}
  BY <1>4, <1>10 DEF StreamedSlots
<1>14. DOMAIN tasks \subseteq DOMAIN s.slots
  BY DEF WriterInv, SlotsOwned, StreamedSlots
<1>15. SlotsOwned'
  BY <1>2, <1>10, <1>12, <1>13, <1>14 DEF WriterInv, SlotsOwned
<1>16. BodyAsCounted'
  BY <1>1, <1>4, <1>6, <1>10 DEF BodyAsCounted
<1>17. TasksExact'
  BY <1>2, <1>10, <1>14 DEF WriterInv, TasksExact, Dirent
<1>18. ScratchFilesOwned'
  BY <1>1, <1>2, <1>12 DEF WriterInv, ScratchFilesOwned, FlightSlots, Ended
<1>19. QED BY <1>11, <1>15, <1>16, <1>17, <1>18 DEF WriterInv

\* The item in flight grows; its counts agree unless a write was torn.
LEMMA FlightGoesOn ==
  ASSUME WriterInv, mode = "streaming", NEW f \in inflight, NEW g \in FlightType,
         inflight' = {g}, g.key = f.key, g.route = f.route, g.slot = f.slot,
         g.expected = f.expected,
         f.route # "buffered" => g.torn \/ g.body = g.written,
         UNCHANGED <<mode, items, redirs, metas, main, keys, s, tasks, temps, file, why,
                     accepted, startFailed>>
  PROVE  WriterInv'
<1>1. inflight = {f}
  BY DEF WriterInv, WriterTypes
<1>2. Sound(s') /\ Small(s') /\ Articles(s') = Articles(s) /\ (Unique(s) => Unique(s'))
  BY SameStreamer DEF WriterInv, Sound, Small
<1>3. /\ WriterTypes' /\ Sound(s)' /\ Small(s)'
      /\ KeysKnown' /\ KeysApart' /\ AllPlaced'
      /\ Assembled' /\ Finished' /\ DuplicatesRefusedEarly'
  <2>1. inflight' \subseteq FlightType /\ \A p, q \in inflight' : p = q
    OBVIOUS
  <2>2. \A h \in inflight' : h.key \in keys' \ accepted
    BY DEF WriterInv, KeysKnown
  <2>3. keys \subseteq keys' /\ keys' \subseteq AllKeys
    BY DEF WriterInv, WriterTypes
  <2>4. QED BY <1>2, <2>1, <2>2, <2>3, ItemInProgress
<1>4. FlightSlots' = FlightSlots /\ StreamedSlots' = StreamedSlots
  BY <1>1 DEF FlightSlots, StreamedSlots
<1>5. SlotsOwned' /\ TasksExact'
  BY <1>4 DEF WriterInv, SlotsOwned, TasksExact, Dirent
<1>6. BodyAsCounted'
  BY DEF WriterInv, BodyAsCounted
<1>7. ScratchFilesOwned'
  BY <1>4 DEF WriterInv, ScratchFilesOwned, FlightSlots
<1>8. QED BY <1>3, <1>5, <1>6, <1>7 DEF WriterInv

\* A chunk, whole or torn.
LEMMA ChunkWritten ==
  ASSUME WriterInv, NEW n \in ChunkSizes, Chunk(n) \/ \E j \in 0 .. n : ChunkTorn(n, j)
  PROVE  WriterInv'
<1>1. n \in Nat
  BY LengthAssumption
<1>2. inflight \subseteq FlightType
  BY DEF WriterInv, WriterTypes
<1>3. CASE Chunk(n)
  <2>1. PICK f \in inflight : inflight' = {[f EXCEPT !.written = @ + n, !.body = @ + n]}
    BY <1>3 DEF Chunk
  <2> DEFINE g == [f EXCEPT !.written = @ + n, !.body = @ + n]
  <2>2. /\ g \in FlightType /\ g.key = f.key /\ g.route = f.route /\ g.slot = f.slot
        /\ g.expected = f.expected /\ g.torn = f.torn
        /\ f.body = f.written => g.body = g.written
    <3>1. f \in FlightType /\ f.written + n \in Nat /\ f.body + n \in Nat
      BY <1>1, <1>2 DEF FlightType
    <3>2. g.written = f.written + n /\ g.body = f.body + n
      BY <3>1 DEF FlightType
    <3>3. g \in FlightType
      BY <3>1 DEF FlightType
    <3>4. g.key = f.key /\ g.route = f.route /\ g.slot = f.slot /\ g.expected = f.expected
          /\ g.torn = f.torn
      BY <3>1 DEF FlightType
    <3> HIDE DEF g
    <3>5. QED BY <3>2, <3>3, <3>4
  <2>3. inflight' = {g}
    BY <2>1
  <2>4. /\ mode = "streaming"
        /\ UNCHANGED <<mode, items, redirs, metas, main, keys, s, tasks, temps, file, why,
                       accepted, startFailed>>
    BY <1>3 DEF Chunk
  <2>5. f.route # "buffered" => f.torn \/ f.body = f.written
    BY DEF WriterInv, BodyAsCounted
  <2> HIDE DEF g
  <2>6. QED BY <2>2, <2>3, <2>4, <2>5, FlightGoesOn
<1>4. CASE \E j \in 0 .. n : ChunkTorn(n, j)
  <2>1. PICK j \in 0 .. n : ChunkTorn(n, j)
    BY <1>4
  <2>2. PICK f \in inflight : inflight' = {[f EXCEPT !.body = @ + j, !.torn = @ \/ j > 0]}
    BY <2>1 DEF ChunkTorn
  <2> DEFINE g == [f EXCEPT !.body = @ + j, !.torn = @ \/ j > 0]
  <2>3. /\ g \in FlightType /\ g.key = f.key /\ g.route = f.route /\ g.slot = f.slot
        /\ g.expected = f.expected
        /\ f.torn \/ f.body = f.written => g.torn \/ g.body = g.written
    <3>1. f \in FlightType /\ j \in Nat /\ f.body + j \in Nat /\ f.body \in Nat
          /\ (f.torn \/ j > 0) \in BOOLEAN
      BY <1>1, <1>2 DEF FlightType
    <3>2. g.written = f.written /\ g.body = f.body + j /\ g.torn = (f.torn \/ j > 0)
      BY <3>1 DEF FlightType
    <3>3. g \in FlightType
      BY <3>1 DEF FlightType
    <3>4. g.key = f.key /\ g.route = f.route /\ g.slot = f.slot /\ g.expected = f.expected
      BY <3>1 DEF FlightType
    <3>5. ~(j > 0) => f.body + j = f.body
      BY <3>1
    <3> HIDE DEF g
    <3>6. QED BY <3>2, <3>3, <3>4, <3>5
  <2>4. inflight' = {g}
    BY <2>2
  <2>5. /\ mode = "streaming"
        /\ UNCHANGED <<mode, items, redirs, metas, main, keys, s, tasks, temps, file, why,
                       accepted, startFailed>>
    BY <2>1 DEF ChunkTorn
  <2>6. f.route # "buffered" => f.torn \/ f.body = f.written
    BY DEF WriterInv, BodyAsCounted
  <2> HIDE DEF g
  <2>7. QED BY <2>3, <2>4, <2>5, <2>6, FlightGoesOn
<1>5. QED BY <1>3, <1>4

\* end_chunked_item of a buffered item: it is in, or it is gone.
LEMMA BufferedEnded ==
  ASSUME WriterInv, EndBuffered
  PROVE  WriterInv'
<1>1. PICK f \in inflight :
        /\ f.route = "buffered"
        /\ \E o \in PushItem(s, [key |-> f.key, size |-> f.written, mime |-> f.mime]) :
             /\ Returns(o)
             /\ accepted' = IF o.res = "ok" THEN accepted \cup {f.key} ELSE accepted
  BY DEF EndBuffered
<1> DEFINE it == [key |-> f.key, size |-> f.written, mime |-> f.mime]
<1>2. PICK o \in PushItem(s, it) :
        /\ Returns(o)
        /\ accepted' = IF o.res = "ok" THEN accepted \cup {f.key} ELSE accepted
  BY <1>1
<1>3. /\ mode = "streaming" /\ inflight' = {}
      /\ UNCHANGED <<items, redirs, metas, main, keys, tasks, temps, file, startFailed>>
  BY DEF EndBuffered
<1>4. inflight = {f} /\ f \in FlightType /\ f.key \in keys \ accepted /\ keys \subseteq AllKeys
  BY DEF WriterInv, WriterTypes, KeysKnown
<1>5. it \in ItemType /\ it.key = f.key
  BY <1>4 DEF FlightType, ItemType
<1>6. StreamedFlights' = StreamedFlights
  BY <1>1, <1>3, <1>4 DEF StreamedFlights
<1> HIDE DEF it
<1>7. /\ it.key \notin accepted /\ it.key \in keys' /\ keys \subseteq keys'
      /\ keys' \subseteq AllKeys /\ inflight' \subseteq inflight
      /\ \A g \in inflight' : g.key # it.key
      /\ accepted' = IF o.res = "ok" THEN accepted \cup {it.key} ELSE accepted
  BY <1>2, <1>3, <1>4, <1>5
<1>8. QED BY <1>2, <1>3, <1>5, <1>6, <1>7, ItemPushed

\* The streamed item f is complete: its dirent, and the lengths it came to.
LEMMA FlightCommitted ==
  ASSUME WriterInv, NEW f \in inflight, f.route # "buffered",
         s' = [s EXCEPT !.slots[f.slot].body = f.body,
                        !.slots[f.slot].torn = f.torn,
                        !.dirents = @ \cup {[key |-> f.key, cluster |-> f.slot, blob |-> 1]}]
  PROVE  /\ Sound(s') /\ Small(s')
         /\ s'.pipe = s.pipe
         /\ DOMAIN s'.slots = DOMAIN s.slots
         /\ \A i \in DOMAIN s.slots : i # f.slot => s'.slots[i] = s.slots[i]
         /\ s'.slots[f.slot].body = f.body /\ s'.slots[f.slot].torn = f.torn
         /\ s'.slots[f.slot].blobs = <<f.key>>
         /\ s'.slots[f.slot].size = s.slots[f.slot].size
         /\ s'.slots[f.slot].route = s.slots[f.slot].route
         /\ s'.dirents = s.dirents \cup {[key |-> f.key, cluster |-> f.slot, blob |-> 1]}
         /\ Articles(s') = Articles(s) \cup {f.key}
         /\ Unique(s) /\ f.key \notin Articles(s) => Unique(s')
<1> DEFINE i == f.slot
           d == [key |-> f.key, cluster |-> f.slot, blob |-> 1]
           c == [s.slots[i] EXCEPT !.body = f.body, !.torn = f.torn]
<1>1. /\ s \in StreamerType /\ s.slots \in Seq(SlotType) /\ f \in FlightType
      /\ i \in DOMAIN s.slots /\ s.slots[i] \in SlotType
      /\ s.slots[i].route = f.route /\ s.slots[i].route # "pipe"
      /\ s.slots[i].blobs = <<f.key>>
  BY DEF WriterInv, WriterTypes, Sound, StreamerType, BodyAsCounted, FlightType
<1>2. c \in SlotType /\ c.body = f.body /\ c.torn = f.torn /\ c.blobs = <<f.key>>
      /\ c.size = s.slots[i].size /\ c.route = s.slots[i].route
  BY <1>1 DEF SlotType, FlightType
<1>3. d \in DirentType /\ d.key = f.key /\ d.cluster = i /\ d.blob = 1 /\ i \in Nat
  BY <1>1 DEF DirentType, FlightType
<1>4. /\ s'.slots = [s.slots EXCEPT ![i] = c]
      /\ s'.dirents = s.dirents \cup {d}
      /\ s' = [s EXCEPT !.slots = [s.slots EXCEPT ![i] = c], !.dirents = s.dirents \cup {d}]
  BY <1>1 DEF StreamerType, SlotType
<1> HIDE DEF c, d, i
<1>5. /\ [s.slots EXCEPT ![i] = c] \in Seq(SlotType)
      /\ DOMAIN s'.slots = DOMAIN s.slots
      /\ s'.slots[i] = c
      /\ \A j \in DOMAIN s.slots : j # i => s'.slots[j] = s.slots[j]
  <2> DEFINE q == s.slots
             r == [q EXCEPT ![i] = c]
  <2>1. q \in Seq(SlotType) /\ i \in 1 .. Len(q) /\ c \in SlotType
    BY <1>1, <1>2
  <2>2. s'.slots = r
    BY <1>4
  <2> HIDE DEF q
  <2>3. /\ r \in Seq(SlotType) /\ Len(r) = Len(q)
        /\ \A j \in 1 .. Len(q) : r[j] = IF j = i THEN c ELSE q[j]
    BY <2>1, ExceptSeq
  <2> HIDE DEF r
  <2>4. /\ r \in Seq(SlotType) /\ DOMAIN r = DOMAIN q /\ r[i] = c
        /\ \A j \in DOMAIN q : j # i => r[j] = q[j]
    BY <2>1, <2>3
  <2>5. QED BY <2>2, <2>4 DEF q, r
<1>6. /\ s' \in StreamerType
      /\ s'.buckets = s.buckets /\ s'.pipe = s.pipe /\ s'.sent = s.sent
  BY <1>1, <1>3, <1>4, <1>5 DEF StreamerType
<1>7. PipeSlots(s') = PipeSlots(s) /\ i \notin PipeSlots(s)
  BY <1>1, <1>2, <1>5 DEF PipeSlots
<1>8. Sound(s')
  <2>1. BucketsExact(s')
    BY <1>6 DEF WriterInv, Sound, BucketsExact
  <2>2. DirentsExact(s')
    <3>1. ASSUME NEW e \in s'.dirents
          PROVE  /\ e.cluster \in DOMAIN s'.slots
                 /\ e.blob \in DOMAIN s'.slots[e.cluster].blobs
                 /\ e.key = s'.slots[e.cluster].blobs[e.blob]
      <4>1. CASE e = d
        BY <1>1, <1>2, <1>3, <1>5, <4>1
      <4>2. CASE e \in s.dirents
        <5>1. /\ e.cluster \in DOMAIN s.slots
              /\ e.blob \in DOMAIN s.slots[e.cluster].blobs
              /\ e.key = s.slots[e.cluster].blobs[e.blob]
          BY <4>2 DEF WriterInv, Sound, DirentsExact
        <5>2. QED BY <1>1, <1>2, <1>5, <5>1
      <4>3. QED BY <1>4, <4>1, <4>2
    <3>2. \A j \in PipeSlots(s) : j # i /\ j \in DOMAIN s.slots
            /\ \A b \in DOMAIN s.slots[j].blobs : Dirent(s, j, b) \in s.dirents
      BY <1>7 DEF WriterInv, Sound, DirentsExact, PipeSlots
    <3>3. QED BY <1>4, <1>5, <1>7, <3>1, <3>2 DEF DirentsExact, Dirent
  <2>3. SentExact(s')
    BY <1>6, <1>7 DEF WriterInv, Sound, SentExact
  <2>4. \A j \in PipeSlots(s') : Packed(s'.slots[j])
    <3>1. \A j \in PipeSlots(s) : Packed(s.slots[j]) /\ j \in DOMAIN s.slots
      BY DEF WriterInv, Sound, PipeSlots
    <3>2. QED BY <1>5, <1>7, <3>1
  <2>5. QED BY <1>6, <2>1, <2>2, <2>3, <2>4 DEF Sound
<1>9. Small(s')
  BY <1>6 DEF WriterInv, Small
<1>10. Articles(s') = Articles(s) \cup {f.key}
  BY <1>3, <1>4, <1>6 DEF Articles
<1>11. ASSUME Unique(s), f.key \notin Articles(s) PROVE Unique(s')
  <2>1. /\ \A e \in s.dirents : e.key # f.key
        /\ \A n \in AllMimes : \A j \in DOMAIN s.buckets[n].blobs :
             s.buckets[n].blobs[j] # f.key
    BY <1>11, ArticlesAre DEF WriterInv, Sound
  <2>2. QED BY <1>3, <1>4, <1>6, <1>11, <2>1 DEF Unique
<1>12. QED BY <1>2, <1>4, <1>5, <1>6, <1>8, <1>9, <1>10, <1>11 DEF d, i

\* end_chunked_item of a streamed item: its thread owns the scratch file now.
LEMMA StreamedEnded ==
  ASSUME WriterInv, EndStreamed
  PROVE  WriterInv'
<1>1. PICK f \in inflight :
        /\ f.route # "buffered"
        /\ Complete(f)
        /\ s' = [s EXCEPT !.slots[f.slot].body = f.body,
                          !.slots[f.slot].torn = f.torn,
                          !.dirents = @ \cup {[key |-> f.key, cluster |-> f.slot, blob |-> 1]}]
        /\ tasks' = [i \in DOMAIN tasks \cup {f.slot} |->
                        IF i = f.slot THEN "running" ELSE tasks[i]]
        /\ accepted' = accepted \cup {f.key}
  BY DEF EndStreamed
<1>2. /\ mode = "streaming" /\ inflight' = {}
      /\ UNCHANGED <<mode, items, redirs, metas, main, keys, temps, file, why, startFailed>>
  BY DEF EndStreamed
<1>3. inflight = {f} /\ f \in FlightType /\ f.key \in keys \ accepted
  BY DEF WriterInv, WriterTypes, KeysKnown
<1>4. /\ Sound(s') /\ Small(s')
      /\ s'.pipe = s.pipe
      /\ DOMAIN s'.slots = DOMAIN s.slots
      /\ \A i \in DOMAIN s.slots : i # f.slot => s'.slots[i] = s.slots[i]
      /\ s'.slots[f.slot].body = f.body /\ s'.slots[f.slot].torn = f.torn
      /\ s'.slots[f.slot].blobs = <<f.key>>
      /\ s'.slots[f.slot].size = s.slots[f.slot].size
      /\ s'.slots[f.slot].route = s.slots[f.slot].route
      /\ s'.dirents = s.dirents \cup {[key |-> f.key, cluster |-> f.slot, blob |-> 1]}
      /\ Articles(s') = Articles(s) \cup {f.key}
      /\ Unique(s) /\ f.key \notin Articles(s) => Unique(s')
  BY <1>1, FlightCommitted
<1>5. /\ f.slot \in DOMAIN s.slots /\ f.expected = {s.slots[f.slot].size}
      /\ f.torn \/ f.body = f.written
  BY <1>1 DEF WriterInv, BodyAsCounted
<1>6. f.torn \/ f.body = s.slots[f.slot].size
  BY <1>1, <1>5 DEF Complete
<1>7. FlightSlots = {f.slot} /\ FlightSlots' = {}
  BY <1>1, <1>2, <1>3 DEF FlightSlots
<1>8. StreamedSlots' = StreamedSlots
  BY <1>4 DEF StreamedSlots
<1>9. /\ DOMAIN tasks' = DOMAIN tasks \cup {f.slot} /\ f.slot \notin DOMAIN tasks
      /\ tasks'[f.slot] = "running"
      /\ \A i \in DOMAIN tasks : tasks'[i] = tasks[i]
      /\ DOMAIN tasks \subseteq DOMAIN s.slots
  BY <1>1, <1>7 DEF WriterInv, SlotsOwned, StreamedSlots
<1>10. SlotsOwned'
  BY <1>2, <1>7, <1>8, <1>9 DEF WriterInv, SlotsOwned
<1>11. BodyAsCounted'
  BY <1>2 DEF BodyAsCounted
<1>12. TasksExact'
  <2>1. ASSUME NEW i \in DOMAIN tasks
        PROVE  /\ Len(s'.slots[i].blobs) = 1
               /\ Dirent(s', i, 1) \in s'.dirents
               /\ s'.slots[i].torn \/ s'.slots[i].body = s'.slots[i].size
               /\ tasks'[i] = "done" /\ s'.slots[i].route = "zstd" =>
                    s'.slots[i].body = s'.slots[i].size
    <3>1. s'.slots[i] = s.slots[i] /\ tasks'[i] = tasks[i]
      BY <1>4, <1>9
    <3>2. Dirent(s', i, 1) = Dirent(s, i, 1)
      BY <3>1 DEF Dirent
    <3>3. QED BY <1>4, <3>1, <3>2 DEF WriterInv, TasksExact
  <2>2. Len(s'.slots[f.slot].blobs) = 1 /\ Dirent(s', f.slot, 1) \in s'.dirents
    BY <1>4 DEF Dirent
  <2>3. s'.slots[f.slot].torn \/ s'.slots[f.slot].body = s'.slots[f.slot].size
    BY <1>4, <1>6
  <2>4. Dirent(s, f.slot, 1)' = Dirent(s', f.slot, 1)
        /\ \A i \in DOMAIN tasks : Dirent(s, i, 1)' = Dirent(s', i, 1)
    BY DEF Dirent
  <2>5. \A i \in DOMAIN tasks' : i \in DOMAIN tasks \/ i = f.slot
    BY <1>9
  <2>6. QED BY <1>9, <2>1, <2>2, <2>3, <2>4, <2>5 DEF TasksExact, Dirent
<1>13. ScratchFilesOwned'
  <2>1. tasks'[f.slot] # "failed"
    BY <1>9
  <2>2. {i \in DOMAIN tasks' : tasks'[i] # "failed"}
          = {i \in DOMAIN tasks : tasks[i] # "failed"} \cup {f.slot}
    BY <1>9, <2>1
  <2>3. temps' = FlightSlots \cup {i \in DOMAIN tasks : tasks[i] # "failed"}
    BY <1>2 DEF WriterInv, ScratchFilesOwned, FlightSlots, Ended
  <2>4. mode' \notin Ended
    BY <1>2 DEF Ended
  <2>5. QED BY <1>7, <2>2, <2>3, <2>4 DEF ScratchFilesOwned, FlightSlots
<1>14. WriterTypes'
  <2>1. tasks' \in [DOMAIN tasks' -> {"running", "done", "failed"}]
    BY <1>1 DEF WriterInv, WriterTypes
  <2>2. QED BY <1>1, <1>2, <1>3, <2>1 DEF WriterInv, WriterTypes, Ended
<1>15. KeysKnown' /\ KeysApart' /\ AllPlaced'
  <2>1. s'.pipe # "lost" => (Unique(s) => Unique(s'))
    <3>1. s'.pipe # "lost" => Working
      BY <1>2, <1>4 DEF Working
    <3>2. QED BY <1>2, <1>3, <1>4, <3>1, NewKey DEF WriterInv
  <2>2. \A g \in inflight' : g.key \in keys' \ accepted'
    BY <1>2
  <2>3. /\ {f.key} \cap accepted = {} /\ {f.key} \subseteq Articles(s')
        /\ Articles(s) \subseteq Articles(s')
        /\ s.pipe = "lost" => s'.pipe = "lost"
    BY <1>3, <1>4
  <2>4. QED BY <1>1, <1>2, <1>4, <2>1, <2>2, <2>3, KeysKept DEF WriterInv
<1>16. Assembled' /\ Finished' /\ DuplicatesRefusedEarly'
  BY <1>2, <1>4, NotYetAssembled DEF WriterInv
<1>17. Sound(s)' /\ Small(s)'
  BY <1>4 DEF Sound, Small
<1>18. QED BY <1>10, <1>11, <1>12, <1>13, <1>14, <1>15, <1>16, <1>17 DEF WriterInv

\* The keys, when only threads move.
LEMMA KeysSame ==
  ASSUME KeysKnown, KeysApart, AllPlaced, Assembled,
         UNCHANGED <<mode, items, redirs, metas, main, keys, s, inflight, accepted, startFailed>>
  PROVE  KeysKnown' /\ KeysApart' /\ AllPlaced' /\ Assembled'
<1>1. /\ Names(items)' = Names(items) /\ Names(metas)' = Names(metas)
      /\ RedirectKeys' = RedirectKeys /\ MainKeys' = MainKeys
      /\ Distinct(items)' = Distinct(items) /\ Distinct(metas)' = Distinct(metas)
      /\ Articles(s)' = Articles(s) /\ Unique(s)' = Unique(s) /\ Empty(s)' = Empty(s)
      /\ Working' = Working
  BY DEF RedirectKeys, Names, Distinct, MainKeys, Articles, Unique, Empty, Working
<1>2. KeysKnown'
  BY <1>1 DEF KeysKnown
<1>3. KeysApart'
  BY <1>1 DEF KeysApart
<1>4. AllPlaced' /\ Assembled'
  BY <1>1 DEF AllPlaced, Assembled
<1>5. QED BY <1>2, <1>3, <1>4

\* A streaming-encode thread ends one way or the other.
LEMMA ThreadEnded ==
  ASSUME WriterInv, NEW i \in DOMAIN tasks, TaskDone(i) \/ TaskFails(i)
  PROVE  WriterInv'
<1>1. /\ tasks[i] = "running"
      /\ UNCHANGED <<mode, items, redirs, metas, main, keys, s, inflight, file, why,
                     accepted, startFailed>>
  BY DEF TaskDone, TaskFails
<1>2. PICK x \in {"done", "failed"} :
        /\ tasks' = [tasks EXCEPT ![i] = x]
        /\ temps' = IF x = "failed" THEN temps \ {i} ELSE temps
        /\ x = "done" /\ s.slots[i].route = "zstd" => s.slots[i].body = s.slots[i].size
  BY DEF TaskDone, TaskFails
<1>3. tasks \in [DOMAIN tasks -> {"running", "done", "failed"}]
  BY DEF WriterInv, WriterTypes
<1>4. /\ DOMAIN tasks' = DOMAIN tasks
      /\ tasks'[i] = x
      /\ \A j \in DOMAIN tasks : j # i => tasks'[j] = tasks[j]
      /\ tasks' \in [DOMAIN tasks -> {"running", "done", "failed"}]
  BY <1>2, <1>3
<1>5. WriterTypes'
  BY <1>1, <1>4 DEF WriterInv, WriterTypes
<1>6. Sound(s)' /\ Small(s)'
  BY <1>1, SameStreamer DEF WriterInv
<1>7. KeysKnown' /\ KeysApart' /\ AllPlaced' /\ Assembled'
  BY <1>1, KeysSame DEF WriterInv
<1>8. mode # "done"
  BY <1>1 DEF WriterInv, Finished
<1>9. Finished' /\ DuplicatesRefusedEarly'
  BY <1>1, <1>8 DEF WriterInv, Finished, DuplicatesRefusedEarly
<1>10. FlightSlots' = FlightSlots /\ StreamedSlots' = StreamedSlots
  BY <1>1 DEF FlightSlots, StreamedSlots
<1>11. SlotsOwned' /\ BodyAsCounted'
  BY <1>1, <1>4, <1>10 DEF WriterInv, SlotsOwned, BodyAsCounted
<1>12. TasksExact'
  BY <1>1, <1>2, <1>4 DEF WriterInv, TasksExact, Dirent
<1>13. ScratchFilesOwned'
  <2>1. CASE mode \in Ended
    BY <1>1, <1>2, <2>1 DEF WriterInv, ScratchFilesOwned
  <2>2. CASE mode \notin Ended
    <3>1. temps = FlightSlots \cup {j \in DOMAIN tasks : tasks[j] # "failed"}
      BY <2>2 DEF WriterInv, ScratchFilesOwned, FlightSlots
    <3>2. i \notin FlightSlots
      BY DEF WriterInv, SlotsOwned
    <3>3. {j \in DOMAIN tasks' : tasks'[j] # "failed"}
            = IF x = "failed" THEN {j \in DOMAIN tasks : tasks[j] # "failed"} \ {i}
                              ELSE {j \in DOMAIN tasks : tasks[j] # "failed"}
      BY <1>1, <1>2, <1>4
    <3>4. temps' = FlightSlots \cup {j \in DOMAIN tasks' : tasks'[j] # "failed"}
      BY <1>2, <3>1, <3>2, <3>3
    <3>5. QED BY <1>1, <1>10, <2>2, <3>4 DEF ScratchFilesOwned, FlightSlots
  <2>3. QED BY <2>1, <2>2
<1>14. QED BY <1>5, <1>6, <1>7, <1>9, <1>11, <1>12, <1>13 DEF WriterInv

\* finalize, up to what it waits for.
LEMMA WritingFinished ==
  ASSUME WriterInv, FinishWriting
  PROVE  WriterInv'
<1>1. PICK o \in Assemble(s) :
        /\ s' = o.s
        /\ mode' = IF o.res = "ok" THEN "draining" ELSE "dropping"
        /\ why' = o.res
  BY DEF FinishWriting
<1>2. /\ mode = "streaming" /\ inflight = {} /\ metas' = << >>
      /\ redirs' = redirs \cup MainRedirect
      /\ UNCHANGED <<items, main, keys, inflight, tasks, temps, file, accepted, startFailed>>
  BY DEF FinishWriting
<1>3. /\ Sound(s) /\ Small(s) /\ metas \in Seq(ItemType) /\ main \subseteq Paths
      /\ \A p, q \in main : p = q
      /\ redirs \subseteq [key : Paths \cup {MainPage}, target : Paths] /\ items = << >>
  BY <1>2 DEF WriterInv, WriterTypes, Ended
<1>4. /\ Sound(o.s)
      /\ Small(o.s)
      /\ Grows(s, o.s)
      /\ o.res \in Results
      /\ o.res = "ok" =>
           /\ Empty(o.s)
           /\ Articles(o.s) = Articles(s) \cup Names(metas) \cup {Counter, Listing}
           /\ s.pipe # "lost" => o.s.pipe # "lost"
           /\ Counter \notin Articles(s) \cup Names(metas) =>
                o.s.counted = (Articles(s) \cup Names(metas)) \cap Paths
      /\ o.res = "panic" => s.pipe = "lost"
      /\ Apart(s, metas, redirs \cup MainRedirect) => o.res # "duplicate"
  BY <1>1, <1>3, Assembles
<1>5. mode' \in {"draining", "dropping"}
  BY <1>1
<1>6. RedirectKeys' = RedirectKeys \cup MainKeys
  <2>1. {r.key : r \in MainRedirect} = MainKeys
    <3>1. \A r \in MainRedirect : r.key = MainPage
      BY DEF MainRedirect
    <3>2. ASSUME NEW p \in main PROVE \E r \in MainRedirect : r.key = MainPage
      <4>1. [key |-> MainPage, target |-> p] \in MainRedirect
        BY DEF MainRedirect
      <4>2. QED BY <4>1
    <3>3. MainRedirect # {} => main # {}
      BY DEF MainRedirect
    <3>4. QED BY <3>1, <3>2, <3>3 DEF MainKeys
  <2>2. QED BY <1>2, <2>1 DEF RedirectKeys
<1>7. /\ Names(metas) \cup RedirectKeys \cup MainKeys \subseteq accepted
      /\ MainPage \notin RedirectKeys
      /\ Working => Articles(s) \subseteq accepted
  BY <1>2 DEF WriterInv, KeysKnown
<1>8. RedirectKeys \subseteq Paths
  BY <1>3, <1>7 DEF RedirectKeys
<1>9. WriterTypes'
  <2>1. MainRedirect \subseteq [key : Paths \cup {MainPage}, target : Paths]
    BY <1>3 DEF MainRedirect
  <2>2. << >> \in Seq(ItemType)
    OBVIOUS
  <2>3. QED BY <1>2, <1>3, <1>5, <2>1, <2>2 DEF WriterInv, WriterTypes, Ended
<1>10. Sound(s)' /\ Small(s)' /\ Grows(s, s')
  BY <1>1, <1>4 DEF Sound, Small
<1>11. SlotsOwned' /\ BodyAsCounted' /\ TasksExact' /\ ScratchFilesOwned'
  <2>1. StreamedFlights' = StreamedFlights
    BY <1>2 DEF StreamedFlights
  <2>2. QED BY <1>2, <1>5, <1>10, <2>1, OwnersKept DEF WriterInv, Ended
<1>12. KeysKnown' /\ KeysApart' /\ AllPlaced'
  BY <1>2, <1>5, NoMoreCalls DEF WriterInv
<1>13. Assembled'
  <2>1. SUFFICES ASSUME o.res = "ok" PROVE Assembled'
    BY <1>1 DEF Assembled
  <2>2. /\ Empty(s') /\ Articles(s') = Articles(s) \cup Names(metas) \cup {Counter, Listing}
        /\ s'.pipe # "lost" => s.pipe # "lost"
    BY <1>1, <1>4, <1>10, <2>1 DEF Grows
  <2>3. ~startFailed => accepted \subseteq Articles(s') \cup RedirectKeys'
    <3>1. Names(items) = {}
      BY <1>3 DEF Names
    <3>2. QED BY <1>2, <1>6, <2>2, <3>1 DEF WriterInv, AllPlaced
  <2>4. s'.pipe # "lost" => Working
    BY <1>2, <2>2 DEF Working
  <2>5. s'.pipe # "lost" /\ Counter \notin accepted => s'.counted = Articles(s') \cap Paths
    <3>1. Counter \notin Paths /\ Listing \notin Paths
      BY KeyFacts
    <3>2. QED BY <1>1, <1>4, <1>7, <2>1, <2>2, <2>4, <3>1
  <2>6. Articles(s)' = Articles(s') /\ Empty(s)' = Empty(s')
    BY DEF Articles, Empty
  <2>7. QED BY <1>2, <1>6, <1>7, <2>2, <2>3, <2>4, <2>5, <2>6 DEF Assembled
<1>14. Finished'
  BY <1>5 DEF Finished
<1>15. DuplicatesRefusedEarly'
  <2>1. CASE s.pipe = "lost"
    BY <1>10, <2>1 DEF Grows, DuplicatesRefusedEarly
  <2>2. CASE s.pipe # "lost"
    <3>1. Working
      BY <1>2, <2>2 DEF Working
    <3>2. /\ Unique(s) /\ Distinct(metas)
          /\ \A q, r \in redirs : q.key = r.key => q = r
          /\ Articles(s) \cap (Names(metas) \cup RedirectKeys \cup MainKeys) = {}
          /\ Names(metas) \cap (RedirectKeys \cup MainKeys) = {}
      BY <3>1 DEF WriterInv, KeysApart
    <3>3. \A r \in MainRedirect : r.key = MainPage
      BY DEF MainRedirect
    <3>4. \A q, r \in MainRedirect : q = r
      BY <1>3 DEF MainRedirect
    <3>5. \A r \in redirs : r.key \in RedirectKeys
      BY DEF RedirectKeys
    <3>6. \A r \in MainRedirect : r.key \in MainKeys
      BY <3>3 DEF MainRedirect, MainKeys
    <3>7. Apart(s, metas, redirs \cup MainRedirect)
      <4>1. \A q, r \in redirs \cup MainRedirect : q.key = r.key => q = r
        BY <1>7, <3>2, <3>3, <3>4, <3>5
      <4>2. \A r \in redirs \cup MainRedirect : r.key # Counter
        BY <1>8, <3>3, <3>5, KeyFacts
      <4>3. \A r \in redirs \cup MainRedirect : r.key \notin Articles(s) \cup Names(metas)
        BY <3>2, <3>5, <3>6
      <4>4. QED BY <3>2, <4>1, <4>2, <4>3 DEF Apart
    <3>8. QED BY <1>1, <1>4, <3>7 DEF DuplicatesRefusedEarly
  <2>3. QED BY <2>1, <2>2
<1>16. QED BY <1>9, <1>10, <1>11, <1>12, <1>13, <1>14, <1>15 DEF WriterInv

\* The build is given up.
LEMMA GivenUp ==
  ASSUME WriterInv, FinishInFlight \/ ShutdownFails \/ DropCreator
  PROVE  WriterInv'
<1>1. /\ mode \notin Ended /\ mode' = "dropping"
      /\ why' = why \/ why' # "duplicate"
      /\ UNCHANGED <<items, redirs, metas, main, keys, s, inflight, tasks, temps, file,
                     accepted, startFailed>>
  BY DEF FinishInFlight, ShutdownFails, DropCreator, Open, Ended
<1>2. Sound(s') /\ Small(s') /\ Grows(s, s')
  BY <1>1, SameStreamer DEF WriterInv, Sound, Small
<1>3. StreamedFlights' = StreamedFlights
  BY <1>1 DEF StreamedFlights
<1>4. WriterTypes'
  BY <1>1 DEF WriterInv, WriterTypes
<1>5. KeysKnown' /\ KeysApart' /\ AllPlaced'
  BY <1>1, NoMoreCalls DEF WriterInv
<1>6. QED BY <1>1, <1>2, <1>3, <1>4, <1>5, RestKept

\* The drain fails: the threads it took have been joined, their files are
\* gone.
LEMMA DrainFailed ==
  ASSUME WriterInv, DrainErr
  PROVE  WriterInv'
<1>1. /\ mode = "draining" /\ mode' = "dropping"
      /\ why' # "duplicate"
      /\ tasks' = << >> /\ temps' = temps \ DOMAIN tasks
      /\ UNCHANGED <<items, redirs, metas, main, keys, s, inflight, file, accepted,
                     startFailed>>
  BY DEF DrainErr, DrainErrors
<1>2. inflight = {} /\ FlightSlots = {} /\ FlightSlots' = {}
  BY <1>1 DEF WriterInv, WriterTypes, FlightSlots
<1>3. DOMAIN tasks' = {}
  BY <1>1
<1>4. WriterTypes'
  BY <1>1, <1>2, <1>3 DEF WriterInv, WriterTypes, Ended
<1>5. Sound(s)' /\ Small(s)'
  BY <1>1, SameStreamer DEF WriterInv
<1>6. SlotsOwned' /\ BodyAsCounted' /\ TasksExact'
  BY <1>1, <1>2, <1>3 DEF SlotsOwned, BodyAsCounted, TasksExact
<1>7. ScratchFilesOwned'
  <2>1. temps \subseteq DOMAIN tasks
    BY <1>1, <1>2 DEF WriterInv, ScratchFilesOwned, Ended
  <2>2. QED BY <1>1, <1>2, <1>3, <2>1 DEF ScratchFilesOwned
<1>8. KeysKnown' /\ KeysApart' /\ AllPlaced'
  BY <1>1, NoMoreCalls DEF WriterInv, Ended
<1>9. Assembled' /\ Finished' /\ DuplicatesRefusedEarly'
  BY <1>1 DEF Assembled, Finished, DuplicatesRefusedEarly
<1>10. QED BY <1>4, <1>5, <1>6, <1>7, <1>8, <1>9 DEF WriterInv

\* The end, good or bad.
LEMMA BuildEnded ==
  ASSUME WriterInv, Drain \/ Dropped
  PROVE  WriterInv'
<1>1. /\ mode \in {"draining", "dropping"} /\ mode' \in Ended
      /\ inflight' \subseteq inflight
      /\ UNCHANGED <<items, redirs, metas, main, keys, s, tasks, why, accepted, startFailed>>
      /\ mode' = "done" => mode = "draining" /\ inflight' = inflight
      /\ mode' = "failed" => inflight' = {}
  BY DEF Drain, Dropped, Ended
<1>2. WriterTypes'
  BY <1>1 DEF WriterInv, WriterTypes, Ended
<1>3. Sound(s)' /\ Small(s)'
  BY <1>1, SameStreamer DEF WriterInv
<1>4. StreamedSlots' = StreamedSlots /\ FlightSlots' \subseteq FlightSlots
      /\ (mode' = "done" => FlightSlots' = FlightSlots)
  BY <1>1 DEF StreamedSlots, FlightSlots
<1>5. SlotsOwned'
  BY <1>1, <1>4 DEF WriterInv, SlotsOwned, Ended
<1>6. BodyAsCounted' /\ TasksExact'
  BY <1>1 DEF WriterInv, BodyAsCounted, TasksExact, Dirent
<1>7. ScratchFilesOwned'
  <2>1. temps \subseteq FlightSlots \cup DOMAIN tasks
    BY <1>1 DEF WriterInv, ScratchFilesOwned, Ended
  <2>2. Drain => FlightSlots = {}
    BY DEF Drain, WriterInv, WriterTypes, FlightSlots
  <2>3. temps' = {}
    BY <2>1, <2>2 DEF Drain, Dropped
  <2>4. QED BY <1>1, <2>3 DEF ScratchFilesOwned
<1>8. KeysKnown' /\ KeysApart' /\ AllPlaced'
  BY <1>1, NoMoreCalls DEF WriterInv, Ended
<1>9. Assembled'
  <2>1. mode' = "done" => mode = "draining"
    BY <1>1
  <2>2. QED BY <1>1, <2>1 DEF WriterInv, Assembled, Articles, Empty, RedirectKeys, Ended
<1>10. Finished'
  <2>1. SUFFICES ASSUME mode' = "done" PROVE Finished'
    BY DEF Finished
  <2>2. Drain
    BY <2>1 DEF Dropped
  <2>3. Streamed' = Streamed
    BY <1>1 DEF Streamed
  <2>4. QED BY <1>1, <2>2, <2>3 DEF Drain, Finished
<1>11. DuplicatesRefusedEarly'
  BY <1>1 DEF WriterInv, DuplicatesRefusedEarly
<1>12. QED BY <1>2, <1>3, <1>5, <1>6, <1>7, <1>8, <1>9, <1>10, <1>11 DEF WriterInv

\* The invariant is inductive.
LEMMA NextWriter == WriterInv /\ [Next]_vars => WriterInv'
<1> SUFFICES ASSUME WriterInv, [Next]_vars PROVE WriterInv'
  OBVIOUS
<1>1. CASE \E it \in Item : AddItem(it)
  BY <1>1, ItemAdded
<1>2. CASE \E p, t \in Paths : AddRedirection(p, t)
  BY <1>2, RedirectionAdded
<1>3. CASE \E name \in MetaNames, n \in Sizes : AddMetadata(name, n)
  BY <1>3, MetadataAdded
<1>4. CASE \E p \in Paths : SetMainPath(p)
  BY <1>4, MainPathSet
<1>5. CASE StartWriting \/ OpenFails \/ DrainFails
  BY <1>5, WritingStarted, StartFailed
<1>6. CASE ChunkedCall
  <2>1. ASSUME NEW k \in Paths \cup OtherKeys, NEW m \in Mimes, NEW e \in Expected,
               \/ BeginBuffered([key |-> k, mime |-> m], e)
               \/ \E r \in {"zstd", "raw"} : BeginStreamed([key |-> k, mime |-> m], e, r)
               \/ BeginStreamedFails([key |-> k, mime |-> m], e)
        PROVE  WriterInv'
    BY <2>1, BufferedBegun, StreamedBegun, StreamedNotBegun
  <2>2. ASSUME NEW n \in ChunkSizes, Chunk(n) \/ \E j \in 0 .. n : ChunkTorn(n, j)
        PROVE  WriterInv'
    BY <2>2, ChunkWritten
  <2>3. QED BY <1>6, <2>1, <2>2, BufferedEnded, StreamedEnded DEF ChunkedCall
<1>7. CASE FinishWriting
  BY <1>7, WritingFinished
<1>8. CASE FinishInFlight \/ ShutdownFails \/ DrainErr \/ DropCreator
  BY <1>8, GivenUp, DrainFailed
<1>9. CASE \E i \in DOMAIN tasks : Task(i)
  BY <1>9, ThreadEnded DEF Task
<1>10. CASE Drain \/ Dropped
  BY <1>10, BuildEnded
<1>11. CASE UNCHANGED vars
  <2>1. Sound(s)' /\ Small(s)'
    BY <1>11, SameStreamer DEF WriterInv, vars
  <2>2. WriterTypes' /\ SlotsOwned' /\ BodyAsCounted' /\ TasksExact' /\ ScratchFilesOwned'
    BY <1>11 DEF WriterInv, vars, WriterTypes, SlotsOwned, BodyAsCounted, TasksExact,
                 ScratchFilesOwned, StreamedSlots, FlightSlots, Dirent
  <2>3. KeysKnown' /\ KeysApart' /\ AllPlaced' /\ Assembled'
    BY <1>11, KeysSame DEF WriterInv, vars
  <2>4. Finished' /\ DuplicatesRefusedEarly'
    BY <1>11 DEF WriterInv, vars, Finished, DuplicatesRefusedEarly, Streamed
  <2>5. QED BY <2>1, <2>2, <2>3, <2>4 DEF WriterInv
<1>12. QED
  BY <1>1, <1>2, <1>3, <1>4, <1>5, <1>6, <1>7, <1>8, <1>9, <1>10, <1>11
     DEF Next, Call, Finalize, Idle

----------------------------------------------------------------------------
(* The theorems of StreamWriter *)

\* In every state of the writer the Streamer's views of its entries agree,
\* every streamed cluster has an owner, and every entry whose add returned Ok
\* is somewhere: the invariant that the theorems below rest on.
THEOREM WriterInvariance == Spec => []WriterInv
<1>1. Init => WriterInv
  BY InitWriter
<1>2. WriterInv /\ [Next]_vars => WriterInv'
  BY NextWriter
<1>3. QED BY <1>1, <1>2, PTL DEF Spec

\* A scratch file of a streamed item exists exactly as long as the item is in
\* flight or its thread has not failed; none is left when the build ends.
THEOREM ScratchFilesAreOwned == Spec => []ScratchFilesOwned
<1>1. WriterInv => ScratchFilesOwned
  BY DEF WriterInv
<1>2. QED BY <1>1, WriterInvariance, PTL

\* Keys are refused when they are added: finalize meets a duplicate only if
\* the pipeline was lost before.
THEOREM DuplicatesAreRefusedEarly == Spec => []DuplicatesRefusedEarly
<1>1. WriterInv => DuplicatesRefusedEarly
  BY DEF WriterInv
<1>2. QED BY <1>1, WriterInvariance, PTL

\* The finished file has every cluster slot once.
LEMMA FileExact ==
  ASSUME WriterInv, mode = "done"
  PROVE  IsInjective(file) /\ Range(file) = DOMAIN s.slots
<1>1. /\ s \in StreamerType /\ s.slots \in Seq(SlotType) /\ s.sent \in Seq(Nat)
      /\ IsInjective(s.sent) /\ Range(s.sent) = PipeSlots(s)
      /\ file = s.sent \o Streamed
  BY DEF WriterInv, Sound, StreamerType, SentExact, Finished
<1>2. DOMAIN tasks = StreamedSlots
  BY DEF WriterInv, WriterTypes, SlotsOwned, FlightSlots
<1>3. DOMAIN tasks \in SUBSET (1 .. Len(s.slots)) /\ Len(s.slots) \in Nat
      /\ DOMAIN s.slots = 1 .. Len(s.slots)
  BY <1>1, <1>2 DEF StreamedSlots
<1>4. Streamed \in Seq(DOMAIN tasks) /\ IsInjective(Streamed) /\ Range(Streamed) = DOMAIN tasks
  <2>1. \E q : IsAscending(q, DOMAIN tasks)
    BY <1>3, AscendingExists
  <2>2. IsAscending(Streamed, DOMAIN tasks)
    BY <2>1 DEF Streamed, IsAscending
  <2>3. QED BY <1>3, <2>2, AscendingLists
<1>5. PipeSlots(s) \cap DOMAIN tasks = {} /\ PipeSlots(s) \cup DOMAIN tasks = DOMAIN s.slots
  BY <1>2 DEF PipeSlots, StreamedSlots
<1>6. /\ IsInjective(s.sent \o Streamed)
      /\ Range(s.sent \o Streamed) = Range(s.sent) \cup Range(Streamed)
  <2> DEFINE p == s.sent
             q == Streamed
             n == Len(p)
             r == p \o q
  <2>1. p \in Seq(Nat) /\ q \in Seq(Nat) /\ IsInjective(p) /\ IsInjective(q)
        /\ Range(p) \cap Range(q) = {}
    BY <1>1, <1>3, <1>4, <1>5
  <2> HIDE DEF p, q
  <2>2. /\ n \in Nat /\ Len(q) \in Nat /\ DOMAIN p = 1 .. n /\ DOMAIN q = 1 .. Len(q)
        /\ DOMAIN r = 1 .. n + Len(q)
        /\ \A i \in 1 .. n : r[i] = p[i]
        /\ \A i \in 1 .. Len(q) : r[n + i] = q[i]
    BY <2>1
  <2>3. \A i \in DOMAIN r : \/ i \in 1 .. n /\ r[i] = p[i]
                            \/ i - n \in 1 .. Len(q) /\ r[i] = q[i - n] /\ i > n
    <3>1. ASSUME NEW i \in DOMAIN r, i > n
          PROVE  i - n \in 1 .. Len(q) /\ r[i] = q[i - n]
      <4>1. i - n \in 1 .. Len(q) /\ n + (i - n) = i
        BY <2>2, <3>1
      <4> HIDE DEF r, n
      <4>2. QED BY <2>2, <4>1
    <3> HIDE DEF r
    <3>2. QED BY <2>2, <3>1
  <2> HIDE DEF r, n
  <2>4. Range(r) = Range(p) \cup Range(q)
    <3>1. \A i \in 1 .. n : i \in DOMAIN r
      BY <2>2
    <3>2. \A i \in 1 .. Len(q) : n + i \in DOMAIN r
      BY <2>2
    <3>3. \A x \in Range(r) : x \in Range(p) \cup Range(q)
      BY <2>2, <2>3 DEF Range
    <3>4. \A x \in Range(p) : x \in Range(r)
      BY <2>2, <3>1 DEF Range
    <3>5. \A x \in Range(q) : x \in Range(r)
      BY <2>2, <3>2 DEF Range
    <3>6. QED BY <3>3, <3>4, <3>5
  <2>5. IsInjective(r)
    <3>1. SUFFICES ASSUME NEW i \in DOMAIN r, NEW j \in DOMAIN r, r[i] = r[j] PROVE i = j
      BY DEF IsInjective
    <3>2. CASE i \in 1 .. n /\ r[i] = p[i] /\ j \in 1 .. n /\ r[j] = p[j]
      BY <2>1, <2>2, <3>1, <3>2 DEF IsInjective
    <3>3. CASE /\ i - n \in 1 .. Len(q) /\ r[i] = q[i - n]
               /\ j - n \in 1 .. Len(q) /\ r[j] = q[j - n]
      <4>1. i - n = j - n
        BY <2>1, <2>2, <3>1, <3>3 DEF IsInjective
      <4>2. QED BY <2>2, <4>1
    <3>4. ASSUME NEW a \in 1 .. n, NEW b \in 1 .. Len(q) PROVE p[a] # q[b]
      BY <2>1, <2>2 DEF Range
    <3>5. QED BY <2>3, <3>1, <3>2, <3>3, <3>4
  <2>6. QED BY <2>4, <2>5 DEF r, p, q
<1>7. QED BY <1>1, <1>4, <1>5, <1>6

\* Every blob of every slot has one dirent.
LEMMA BlobsHaveOneDirent ==
  ASSUME WriterInv, mode = "done", NEW i \in DOMAIN s.slots, NEW b \in DOMAIN s.slots[i].blobs
  PROVE  {d \in s.dirents : d.cluster = i /\ d.blob = b} = {Dirent(s, i, b)}
<1>1. s.dirents \subseteq DirentType /\ s.slots \in Seq(SlotType)
  BY DEF WriterInv, Sound, StreamerType
<1>2. Dirent(s, i, b) \in s.dirents
  <2>1. CASE i \in PipeSlots(s)
    BY <2>1 DEF WriterInv, Sound, DirentsExact
  <2>2. CASE i \notin PipeSlots(s)
    <3>1. i \in DOMAIN tasks
      BY <2>2 DEF WriterInv, WriterTypes, SlotsOwned, FlightSlots, StreamedSlots, PipeSlots
    <3>2. Len(s.slots[i].blobs) = 1 /\ Dirent(s, i, 1) \in s.dirents
      BY <3>1 DEF WriterInv, TasksExact
    <3>3. s.slots[i].blobs \in Seq(AllKeys)
      <4>1. s.slots[i] \in SlotType
        BY <1>1
      <4>2. QED BY <4>1 DEF SlotType
    <3>4. b = 1
      BY <3>2, <3>3
    <3>5. QED BY <3>2, <3>4
  <2>3. QED BY <2>1, <2>2
<1>3. ASSUME NEW d \in s.dirents, d.cluster = i, d.blob = b PROVE d = Dirent(s, i, b)
  <2>1. d.key = s.slots[i].blobs[b]
    BY <1>3 DEF WriterInv, Sound, DirentsExact
  <2>2. d = [key |-> d.key, cluster |-> d.cluster, blob |-> d.blob]
    BY <1>1 DEF DirentType
  <2>3. QED BY <1>3, <2>1, <2>2 DEF Dirent
<1>4. Dirent(s, i, b).cluster = i /\ Dirent(s, i, b).blob = b
  BY DEF Dirent
<1>5. QED BY <1>2, <1>3, <1>4

\* Every cluster slot that was handed out is in the finished file, once, with
\* one dirent per blob; and none holds more than the target unless it is for
\* a single item.
THEOREM ClustersAreExact == Spec => []ClustersExact
<1>1. WriterInv => EverySlotWritten
  <2>1. SUFFICES ASSUME WriterInv, mode = "done" PROVE EverySlotWritten
    BY DEF EverySlotWritten
  <2>2. ASSUME NEW i \in DOMAIN s.slots, NEW b \in DOMAIN s.slots[i].blobs
        PROVE  Cardinality({d \in s.dirents : d.cluster = i /\ d.blob = b}) = 1
    <3>1. {d \in s.dirents : d.cluster = i /\ d.blob = b} = {Dirent(s, i, b)}
      BY <2>1, BlobsHaveOneDirent
    <3>2. Cardinality({Dirent(s, i, b)}) = 1
      BY FS_Singleton
    <3>3. QED BY <3>1, <3>2
  <2>3. QED BY <2>1, <2>2, FileExact DEF EverySlotWritten
<1>2. WriterInv => ClusterSizes
  <2>1. SUFFICES ASSUME WriterInv PROVE ClusterSizes
    OBVIOUS
  <2>2. \A m \in AllMimes : s.buckets[m].size < Target
    BY <2>1 DEF WriterInv, Small
  <2>3. \A i \in Range(s.sent) : Packed(s.slots[i])
    BY <2>1 DEF WriterInv, Sound, SentExact
  <2>4. QED BY <2>2, <2>3 DEF Packed, ClusterSizes
<1>3. QED BY <1>1, <1>2, WriterInvariance, PTL DEF ClustersExact

\* A streamed body that is in a finished file has the length its dirent was
\* promised, except a raw one of which a write was torn.
THEOREM BodiesAreExact == Spec => []BodiesExact
<1>1. WriterInv => BodiesExact
  <2>1. SUFFICES ASSUME WriterInv, mode = "done", NEW i \in DOMAIN tasks
                 PROVE  \/ s.slots[i].body = s.slots[i].size
                        \/ s.slots[i].route = "raw" /\ s.slots[i].torn
    BY DEF BodiesExact
  <2>2. i \in DOMAIN s.slots /\ s.slots[i].route # "pipe" /\ s.slots \in Seq(SlotType)
    BY <2>1 DEF WriterInv, SlotsOwned, StreamedSlots, Sound, StreamerType
  <2>3. s.slots[i].route \in {"raw", "zstd"}
    <3>1. s.slots[i] \in SlotType
      BY <2>2
    <3>2. QED BY <2>2, <3>1 DEF SlotType
  <2>4. tasks[i] = "done"
    BY <2>1 DEF WriterInv, Finished
  <2>5. QED BY <2>1, <2>3, <2>4 DEF WriterInv, TasksExact
<1>2. QED BY <1>1, WriterInvariance, PTL

\* When the build is done the articles are the dirents, ...
LEMMA DoneArticles ==
  ASSUME WriterInv, mode = "done"
  PROVE  /\ Articles(s) = {d.key : d \in s.dirents}
         /\ \A k : InArchive(k) <=> k \in Articles(s) \cup RedirectKeys
<1>1. Empty(s) /\ BucketsExact(s)
  BY DEF WriterInv, Assembled, Sound
<1>2. Articles(s) = {d.key : d \in s.dirents}
  <2>1. \A m \in AllMimes : s.buckets[m].pending = {}
    BY <1>1 DEF Empty, BucketsExact
  <2>2. QED BY <2>1 DEF Articles
<1>3. ASSUME NEW k PROVE InArchive(k) <=> k \in Articles(s) \cup RedirectKeys
  <2>1. ASSUME NEW d \in s.dirents, d.key = k
        PROVE  /\ d.cluster \in Range(file)
               /\ d.blob \in DOMAIN s.slots[d.cluster].blobs
               /\ s.slots[d.cluster].blobs[d.blob] = k
    BY <2>1, FileExact DEF WriterInv, Sound, DirentsExact
  <2>2. QED BY <1>2, <2>1 DEF InArchive, RedirectKeys
<1>4. QED BY <1>2, <1>3

\* Every entry whose add returned Ok is in the finished file under its key,
\* with its own body, whatever calls were refused and whatever mixture of
\* buffered, packed and streamed items it was added among.
THEOREM AcceptedReadsBack == Spec => []ReadBack
<1>1. WriterInv => ReadBack
  BY DoneArticles DEF WriterInv, Assembled, ReadBack
<1>2. QED BY <1>1, WriterInvariance, PTL

\* The generated Counter counts the content articles of the finished file.
THEOREM CounterIsExact == Spec => []CounterExact
<1>1. WriterInv => CounterExact
  BY DoneArticles DEF WriterInv, Finished, Assembled, CounterExact
<1>2. QED BY <1>1, WriterInvariance, PTL

----------------------------------------------------------------------------
(* The theorems of CreatorHandle *)

\* Every step of the handle is a step of the writer, or leaves it alone.
LEMMA HandleStep == [HandleNext]_all => [Next]_vars
<1> SUFFICES ASSUME [HandleNext]_all PROVE [Next]_vars
  OBVIOUS
<1>1. CASE ClientCall
  <2>1. CASE \E it \in Item : CallAddItem(it)
    BY <2>1 DEF CallAddItem, Next, Call
  <2>2. CASE \E p, t \in Paths : CallAddRedirection(p, t)
    BY <2>2 DEF CallAddRedirection, Next, Call
  <2>3. CASE \E name \in MetaNames, n \in Sizes : CallAddMetadata(name, n)
    BY <2>3 DEF CallAddMetadata, Next, Call
  <2>4. CASE \E p \in Paths : CallSetMainPath(p)
    BY <2>4 DEF CallSetMainPath, Next, Call
  <2>5. CASE CallStartWriting
    BY <2>5 DEF CallStartWriting, Next, Call
  <2>6. CASE \E k \in Paths \cup OtherKeys, m \in Mimes : CallBeginItem([key |-> k, mime |-> m])
    <3>1. {} \in Expected
      BY DEF Expected
    <3>2. PICK k \in Paths \cup OtherKeys, m \in Mimes : BeginBuffered([key |-> k, mime |-> m], {})
      BY <2>6 DEF CallBeginItem
    <3>3. ChunkedCall
      BY <3>1, <3>2 DEF ChunkedCall
    <3>4. QED BY <3>3 DEF Next, Call
  <2>7. CASE \E n \in ChunkSizes : CallItemChunk(n)
    BY <2>7 DEF CallItemChunk, Next, Call, ChunkedCall
  <2>8. CASE CallEndItem
    BY <2>8 DEF CallEndItem, Next, Call, ChunkedCall
  <2>9. CASE CallWithoutEffect \/ CallFinishWriting \/ CallWriteTo \/ CallFree
    BY <2>9 DEF CallWithoutEffect, CallFinishWriting, CallWriteTo, CallFree, Take
  <2>10. QED
    BY <1>1, <2>1, <2>2, <2>3, <2>4, <2>5, <2>6, <2>7, <2>8, <2>9 DEF ClientCall
<1>2. CASE Running
  BY <1>2 DEF Running, WriteStarts, WriteCannotStart, Finishing, Dropping, Return,
              Next, Call, Finalize
<1>3. CASE UNCHANGED all
  BY <1>3 DEF all
<1>4. QED BY <1>1, <1>2, <1>3 DEF HandleNext, Over

\* The writer that a C program drives is the writer of StreamWriter: what
\* holds of every client's builds holds of those of the C API.
THEOREM HandleImplementsWriter == HandleSpec => Spec
<1>1. HandleInit => Init
  BY DEF HandleInit
<1>2. QED BY <1>1, HandleStep, PTL DEF HandleSpec, Spec

\* What is left of the invariant, besides WriterInv.
Reported ==
    /\ told = accepted
    /\ mode \in {"buffered", "streaming"} => why = "none"
    /\ s.pipe = "lost" /\ mode \in {"buffered", "streaming", "draining"} => warned
    /\ why = "panic" => warned
    /\ AbortsForetold

\* A call that ended in the Streamer with outcome o, and its answer.
LEMMA PushAnswered ==
  ASSUME HandleInv, mode = "streaming", NEW it \in ItemType, NEW o \in PushItem(s, it),
         Returns(o), it.key \notin accepted,
         accepted' = IF o.res = "ok" THEN accepted \cup {it.key} ELSE accepted,
         handle = "live", AnswerOrAbort(o.res = "ok", {it.key})
  PROVE  Reported'
<1>1. Sound(s) /\ Small(s) /\ why = "none" /\ told = accepted /\ (s.pipe = "lost" => warned)
  BY DEF HandleInv, WriterInv
<1>2. Added(s, o, {it.key})
  BY <1>1, Pushed
<1>3. /\ o.res = "panic" => s.pipe = "lost"
      /\ o.res = "ok" /\ s.pipe # "lost" => o.s.pipe # "lost"
  BY <1>2 DEF Added
<1>4. /\ s' = o.s
      /\ mode' = IF o.res = "panic" THEN "dropping" ELSE mode
      /\ why' = IF o.res = "panic" THEN "panic" ELSE why
  BY DEF Returns
<1>5. CASE o.res = "panic"
  <2>1. handle' = "aborted" /\ told' = told /\ warned' = warned
    BY <1>4, <1>5 DEF AnswerOrAbort, Abort
  <2>2. warned /\ accepted' = accepted
    BY <1>1, <1>3, <1>5
  <2>3. QED BY <1>1, <1>4, <1>5, <2>1, <2>2 DEF Reported, AbortsForetold
<1>6. CASE o.res # "panic"
  <2>1. /\ told' = IF o.res = "ok" THEN told \cup {it.key} ELSE told
        /\ warned' = (warned \/ (o.res # "ok" /\ s'.pipe = "lost"))
        /\ handle' = handle /\ why' = "none" /\ mode' = mode
    BY <1>1, <1>4, <1>6 DEF AnswerOrAbort, Answer
  <2>2. told' = accepted'
    BY <1>1, <2>1
  <2>3. s'.pipe = "lost" => warned'
    BY <1>1, <1>3, <1>4, <2>1
  <2>4. QED BY <2>1, <2>2, <2>3 DEF Reported, AbortsForetold
<1>7. QED BY <1>5, <1>6

\* A call that is answered and does not reach the pipeline.
LEMMA CallAnswered ==
  ASSUME HandleInv, s'.pipe = "lost" => s.pipe = "lost", handle = "live",
         mode \in {"buffered", "streaming"}, why' = why,
         NEW yes \in BOOLEAN, NEW K, accepted' = IF yes THEN accepted \cup K ELSE accepted,
         Answer(yes, K)
  PROVE  Reported'
BY DEF HandleInv, Answer, Reported, AbortsForetold

\* A step of a call that takes the Creator, or of none.
LEMMA NothingTold ==
  ASSUME HandleInv, UNCHANGED <<accepted, told, warned>>,
         mode' \in {"buffered", "streaming"} => why' = "none",
         mode' \in {"buffered", "streaming", "draining"} /\ s'.pipe = "lost" => warned,
         why' = "panic" => warned,
         handle' = "aborted" => warned
  PROVE  Reported'
BY DEF HandleInv, Reported, AbortsForetold

\* A start_writing, or one that fails, never leaves a lost pipeline.
LEMMA StartedOnPipe ==
  ASSUME WriterInv, StartWriting \/ OpenFails \/ DrainFails
  PROVE  s'.pipe # "lost"
<1>1. s = NewStreamer /\ items \in Seq(ItemType) /\ s.pipe = "off" /\ Sound(s) /\ Small(s)
  BY FreshStreamer DEF WriterInv, WriterTypes, StartWriting, OpenFails, DrainFails
<1>2. CASE StartWriting
  <2>1. PICK o \in PushAll(s, items) : o.res = "ok" /\ s' = o.s
    BY <1>1, <1>2 DEF StartWriting
  <2>2. Added(s, o, Names(items))
    BY <1>1, PushedAll
  <2>3. QED BY <1>1, <2>1, <2>2 DEF Added
<1>3. CASE OpenFails \/ DrainFails
  BY <1>1, <1>3 DEF OpenFails, DrainFails
<1>4. QED BY <1>2, <1>3

\* The invariant of the handle is inductive.
LEMMA NextHandle == HandleInv /\ [HandleNext]_all => HandleInv'
<1> SUFFICES ASSUME HandleInv, [HandleNext]_all PROVE Reported'
  <2>1. WriterInv /\ [HandleNext]_all => WriterInv'
    BY HandleStep, NextWriter
  <2>2. QED BY <2>1 DEF HandleInv, Reported, AbortsForetold
<1>0. /\ WriterInv /\ Sound(s) /\ Small(s) /\ told = accepted /\ accepted \subseteq keys
      /\ mode \in {"buffered", "streaming"} => why = "none"
      /\ s.pipe = "lost" /\ mode \in {"buffered", "streaming", "draining"} => warned
      /\ why = "panic" => warned
      /\ handle = "aborted" => warned
  BY DEF HandleInv, WriterInv, WriterTypes, AbortsForetold
<1>1. ASSUME NEW it \in Item, CallAddItem(it) PROVE Reported'
  <2>1. AddItem(it) /\ handle = "live" /\ AnswerOrAbort(it.key \in keys', {it.key})
        /\ it.key \notin keys /\ it \in ItemType
    BY <1>1, ItemsTyped DEF CallAddItem, Live, AddItem
  <2>2. CASE mode = "streaming"
    <3>1. PICK o \in PushItem(s, it) :
            /\ Returns(o)
            /\ keys' = IF o.res = "ok" THEN keys \cup {it.key} ELSE keys
            /\ accepted' = IF o.res = "ok" THEN accepted \cup {it.key} ELSE accepted
      BY <2>1, <2>2 DEF AddItem
    <3>2. (it.key \in keys' <=> o.res = "ok") /\ it.key \notin accepted
      BY <1>0, <2>1, <3>1
    <3>3. AnswerOrAbort(o.res = "ok", {it.key})
      BY <2>1, <3>2 DEF AnswerOrAbort, Answer
    <3>4. QED BY <2>1, <2>2, <3>1, <3>2, <3>3, PushAnswered
  <2>3. CASE mode = "buffered"
    <3>1. /\ keys' = keys \cup {it.key} /\ accepted' = accepted \cup {it.key}
          /\ s' = s /\ why' = why /\ why = "none"
      BY <1>0, <2>1, <2>3 DEF AddItem
    <3>2. Answer(it.key \in keys', {it.key})
      BY <2>1, <3>1 DEF AnswerOrAbort
    <3>3. it.key \in keys'
      BY <3>1
    <3>4. QED BY <2>1, <2>3, <3>1, <3>2, <3>3, CallAnswered
  <2>4. QED BY <2>1, <2>2, <2>3 DEF AddItem
<1>2. ASSUME NEW p \in Paths, NEW t \in Paths, CallAddRedirection(p, t) PROVE Reported'
  BY <1>2, CallAnswered DEF CallAddRedirection, AddRedirection, Live, Open
<1>3. ASSUME NEW name \in MetaNames, NEW n \in Sizes, CallAddMetadata(name, n) PROVE Reported'
  BY <1>3, CallAnswered DEF CallAddMetadata, AddMetadata, Live, Open
<1>4. ASSUME NEW p \in Paths, CallSetMainPath(p) PROVE Reported'
  BY <1>4, CallAnswered DEF CallSetMainPath, SetMainPath, Live, Open
<1>5. ASSUME CallStartWriting PROVE Reported'
  <2>1. CASE StartWriting /\ Answer(TRUE, {})
    <3>1. s'.pipe # "lost"
      BY <1>0, <2>1, StartedOnPipe
    <3>2. mode = "buffered" /\ why' = why /\ accepted' = accepted \cup {} /\ handle = "live"
      BY <1>5, <2>1 DEF StartWriting, CallStartWriting, Live
    <3>3. QED BY <2>1, <3>1, <3>2, CallAnswered
  <2>2. CASE (OpenFails \/ DrainFails) /\ Answer(FALSE, {})
    <3>1. mode = "buffered" /\ why' = why /\ accepted' = accepted /\ s' = s /\ handle = "live"
      BY <1>5, <2>2 DEF OpenFails, DrainFails, CallStartWriting, Live
    <3>2. QED BY <2>2, <3>1, CallAnswered
  <2>3. QED BY <1>5, <2>1, <2>2 DEF CallStartWriting
<1>6. ASSUME NEW k \in Paths \cup OtherKeys, NEW m \in Mimes, CallBeginItem([key |-> k, mime |-> m])
      PROVE  Reported'
  <2>1. /\ mode = "streaming" /\ why' = why /\ s' = s /\ accepted' = accepted \cup {}
        /\ handle = "live" /\ Answer(TRUE, {})
    BY <1>6 DEF CallBeginItem, BeginBuffered, CanBegin, Live
  <2>2. QED BY <2>1, CallAnswered
<1>7. ASSUME NEW n \in ChunkSizes, CallItemChunk(n) PROVE Reported'
  <2>1. /\ mode = "streaming" /\ why' = why /\ s' = s /\ accepted' = accepted \cup {}
        /\ handle = "live" /\ Answer(TRUE, {})
    BY <1>7 DEF CallItemChunk, Chunk, Live
  <2>2. QED BY <2>1, CallAnswered
<1>8. ASSUME CallEndItem PROVE Reported'
  <2>1. handle = "live" /\ mode = "streaming" /\ EndBuffered
    BY <1>8 DEF CallEndItem, Live, EndBuffered
  <2>2. PICK f \in inflight : AnswerOrAbort(f.key \in accepted', {f.key})
    BY <1>8 DEF CallEndItem
  <2>3. inflight = {f} /\ f \in FlightType /\ f.key \notin accepted
    BY <1>0 DEF WriterInv, WriterTypes, KeysKnown
  <2> DEFINE it == [key |-> f.key, size |-> f.written, mime |-> f.mime]
  <2>4. PICK o \in PushItem(s, it) :
          /\ Returns(o)
          /\ accepted' = IF o.res = "ok" THEN accepted \cup {f.key} ELSE accepted
    BY <2>1, <2>3 DEF EndBuffered
  <2>5. it \in ItemType /\ it.key = f.key
    BY <2>3 DEF FlightType, ItemType
  <2> HIDE DEF it
  <2>6. f.key \in accepted' <=> o.res = "ok"
    BY <2>3, <2>4
  <2>7. AnswerOrAbort(o.res = "ok", {it.key})
    BY <2>2, <2>5, <2>6 DEF AnswerOrAbort, Answer
  <2>8. QED BY <2>1, <2>3, <2>4, <2>5, <2>7, PushAnswered
<1>9. ASSUME CallWithoutEffect \/ CallFinishWriting \/ CallWriteTo \/ CallFree PROVE Reported'
  <2>1. UNCHANGED <<vars, told, warned>> /\ (handle' = "aborted" => handle = "aborted")
    BY <1>9 DEF CallWithoutEffect, CallFinishWriting, CallWriteTo, CallFree, Take
  <2>2. QED BY <1>0, <2>1, NothingTold DEF vars
<1>10. ASSUME WriteStarts \/ WriteCannotStart PROVE Reported'
  <2>1. StartWriting \/ OpenFails \/ DrainFails
    BY <1>10 DEF WriteStarts, WriteCannotStart
  <2>2. s'.pipe # "lost"
    BY <1>0, <2>1, StartedOnPipe
  <2>3. mode = "buffered" /\ why' = why /\ accepted' = accepted
        /\ UNCHANGED <<handle, told, warned>>
    BY <1>10 DEF WriteStarts, WriteCannotStart, StartWriting, OpenFails, DrainFails
  <2>4. QED BY <1>0, <2>2, <2>3, NothingTold
<1>11. ASSUME Finishing PROVE Reported'
  <2>1. /\ accepted' = accepted /\ told' = told /\ warned' = warned
        /\ handle' = "aborted" => why' = "panic" \/ handle = "aborted"
    BY <1>11 DEF Finishing, FinishWriting, FinishInFlight, Finalize, ShutdownFails,
                 Drain, DrainErr, Dropped, Abort, hvars
  <2>2. /\ mode' \notin {"buffered", "streaming"}
        /\ mode' = "draining" /\ s'.pipe = "lost" => warned
        /\ why' = "panic" => warned
    <3>1. CASE FinishWriting
      <4>1. PICK o \in Assemble(s) :
              /\ s' = o.s
              /\ mode' = IF o.res = "ok" THEN "draining" ELSE "dropping"
              /\ why' = o.res
        BY <3>1 DEF FinishWriting
      <4>2. mode = "streaming" /\ metas \in Seq(ItemType)
        BY <1>0, <3>1 DEF FinishWriting, WriterInv, WriterTypes
      <4>3. /\ o.res = "ok" => (s.pipe # "lost" => o.s.pipe # "lost")
            /\ o.res = "panic" => s.pipe = "lost"
        BY <1>0, <4>2, Assembles
      <4>4. QED BY <1>0, <4>1, <4>2, <4>3
    <3>2. CASE FinishInFlight \/ ShutdownFails
      BY <3>2 DEF FinishInFlight, ShutdownFails
    <3>3. CASE Drain \/ Dropped
      BY <1>0, <3>3 DEF Drain, Dropped
    <3>4. CASE DrainErr
      <4>1. mode = "draining" /\ mode' = "dropping" /\ why' \in DrainErrors
        BY <3>4 DEF DrainErr
      <4>2. why' = "panic" => s.pipe = "lost"
        BY <4>1 DEF DrainErrors
      <4>3. QED BY <1>0, <4>1, <4>2
    <3>5. QED BY <1>11, <3>1, <3>2, <3>3, <3>4 DEF Finishing, Finalize
  <2>3. QED BY <1>0, <2>1, <2>2, NothingTold
<1>12. ASSUME Dropping PROVE Reported'
  <2>1. /\ mode' \in {"dropping", "failed"} /\ why' = why /\ s' = s /\ accepted' = accepted
        /\ UNCHANGED hvars
    BY <1>12 DEF Dropping, DropCreator, Dropped
  <2>2. QED BY <1>0, <2>1, NothingTold DEF hvars
<1>13. ASSUME Return \/ UNCHANGED all PROVE Reported'
  <2>1. UNCHANGED <<vars, handle, told, warned>>
    BY <1>13 DEF Return, all, hvars
  <2>2. QED BY <1>0, <2>1, NothingTold DEF vars
<1>14. CASE ClientCall
  BY <1>1, <1>2, <1>3, <1>4, <1>5, <1>6, <1>7, <1>8, <1>9, <1>14 DEF ClientCall
<1>15. CASE Running
  BY <1>10, <1>11, <1>12, <1>13, <1>15 DEF Running
<1>16. QED BY <1>13, <1>14, <1>15 DEF HandleNext, Over

\* In every state of the C API what was told is what was accepted, and nobody
\* is near a panic who has not been warned.
THEOREM HandleInvariance == HandleSpec => []HandleInv
<1>1. HandleInit => HandleInv
  <2>1. HandleInit => WriterInv /\ s.pipe = "off"
    BY InitWriter, FreshStreamer DEF HandleInit, Init
  <2>2. QED BY <2>1 DEF HandleInit, Init, HandleInv, AbortsForetold
<1>2. HandleInv /\ [HandleNext]_all => HandleInv'
  BY NextHandle
<1>3. QED BY <1>1, <1>2, PTL DEF HandleSpec

\* An entry is in the finished archive exactly if the call that was to add it
\* answered true, or finalize generates it.
THEOREM ToldIsExact == HandleSpec => []ToldExact
<1>1. HandleInv => ToldExact
  <2>1. SUFFICES ASSUME HandleInv, mode = "done", ~startFailed, NEW k \in AllKeys
                 PROVE  InArchive(k) <=> k \in told \cup {Counter, Listing}
    BY DEF ToldExact
  <2>2. WriterInv /\ told = accepted
    BY <2>1 DEF HandleInv
  <2>3. InArchive(k) <=> k \in Articles(s) \cup RedirectKeys
    BY <2>1, <2>2, DoneArticles
  <2>4. s.pipe # "lost"
    BY <2>1, <2>2 DEF WriterInv, Finished
  <2>5. Articles(s) \cup RedirectKeys = accepted \cup {Counter, Listing}
    BY <2>1, <2>2, <2>4 DEF WriterInv, Assembled
  <2>6. QED BY <2>2, <2>3, <2>5
<1>2. QED BY <1>1, HandleInvariance, PTL

\* The process is ended by a panic only after some call has answered false
\* since the pipeline failed.
THEOREM AbortsAreForetold == HandleSpec => []AbortsForetold
<1>1. HandleInv => AbortsForetold
  BY DEF HandleInv
<1>2. QED BY <1>1, HandleInvariance, PTL
=============================================================================
