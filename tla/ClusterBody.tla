----------------------------- MODULE ClusterBody -----------------------------
(***************************************************************************)
(* The inside of a cluster: encode_cluster (src/writer.rs) puts a table of   *)
(* offsets before the blobs, of 32 or of 64 bits each; Cluster::parse and    *)
(* blob_range read it from a copy, validate_raw_offsets and raw_blob_range   *)
(* in place in the file (src/cluster.rs).                                   *)
(* A reader may be given any bytes.  A compressed payload is the payload, if *)
(* it is not longer than the decoders allow.                                *)
(***************************************************************************)
EXTENDS Integers, Sequences, SequencesExt

CONSTANTS W32, W64,   \* width of an offset: 4 or 8 bytes
          Top32,      \* u32::MAX
          Limit64,    \* MAX_EXTENDED_CLUSTER_BYTES
          MaxWords,   \* bound: offsets that fit in the body of any cluster
          BlobLens,   \* lengths of blobs given to the writer
          MaxBlobs    \* bound: how many

VARIABLES
  lens,     \* the lengths of the blobs to be encoded
  body,     \* {} or {the body: compressed, width of its offsets, length, offsets}
  asked,    \* was Cluster::parse called?
  parsed    \* what it returned: {} or {blob_count}

vars == <<lens, body, asked, parsed>>

Width(ext) == IF ext THEN W64 ELSE W32

\* Any bytes: the offsets that a reader may take from them, with values up to
\* one past the end.
Bodies ==
    UNION {UNION {[packed : BOOLEAN, ext : {x}, len : {n},
                   word : [0 .. n \div Width(x) - 1 -> 0 .. n + 1]]
                    : n \in 0 .. (MaxWords + 1) * Width(x) - 1} : x \in BOOLEAN}

Init ==
    /\ asked = FALSE
    /\ parsed = {}
    /\ \/ lens \in BoundedSeq(BlobLens, MaxBlobs) /\ body = {}
       \/ lens = << >> /\ \E b \in Bodies : body = {b}

----------------------------------------------------------------------------
(* Encoding *)

\* Where the blobs end, from the end of the table on.
Ends(s) ==
    LET end[i \in 0 .. Len(s)] == IF i = 0 THEN 0 ELSE end[i - 1] + s[i]
    IN end

Sum(s) == Ends(s)[Len(s)]

\* Mutant: the table itself is not counted.
ExtendedBlobsOnly(s) == Sum(s) > Top32

\* 4-byte offsets unless the total would overflow u32.
Extended(s) == (Len(s) + 1) * W32 + Sum(s) > Top32

\* push_offset: `as u32`
Stored(x, ext) == IF ext THEN x ELSE x % (Top32 + 1)

Encoded(s, packed) ==
    LET ext == Extended(s)
        table == (Len(s) + 1) * Width(ext)
    IN [packed |-> packed, ext |-> ext, len |-> table + Sum(s),
        word |-> [i \in 0 .. Len(s) |-> Stored(table + Ends(s)[i], ext)]]

\* encode_cluster, and the header of a streamed cluster with its one blob.
Encode(packed) ==
    /\ body = {}
    /\ body' = {Encoded(lens, packed)}
    /\ UNCHANGED <<lens, asked, parsed>>

----------------------------------------------------------------------------
(* Reading.  An answer is a set: empty for an error. *)

ReadOff(b, i) == IF (i + 1) * Width(b.ext) <= b.len THEN {b.word[i]} ELSE {}

OffsetCount(b) ==
    LET w == Width(b.ext)
    IN {first \div w - 1 : first \in
          {f \in ReadOff(b, 0) : f >= w /\ f % w = 0 /\ f <= b.len}}

\* The table is in order, from its own end to at most the end of the body.
ValidateOffsets(b) ==
    {n \in OffsetCount(b) :
       \A i \in 1 .. n : \E next \in ReadOff(b, i) :
         /\ \A prev \in ReadOff(b, i - 1) : prev <= next
         /\ next <= b.len}

Limit(b) == IF b.ext THEN Limit64 ELSE Top32

\* decode_zstd, decode_xz
Decodes(b) == b.packed => b.len <= Limit(b)

ParseBody(b) == IF Decodes(b) THEN ValidateOffsets(b) ELSE {}

\* blob_range and raw_blob_range, of a body with n blobs.
RangeIn(b, n, i) ==
    {r \in {[from |-> f, to |-> t] : f \in ReadOff(b, i), t \in ReadOff(b, i + 1)} :
       /\ (n + 1) * Width(b.ext) <= r.from
       /\ r.from <= r.to
       /\ r.to <= b.len}

BlobRange(b, n, i) == IF i < n THEN RangeIn(b, n, i) ELSE {}

\* In place: only the count and the two offsets are looked at.
RawBlobRange(b, i) ==
    IF b.packed THEN {} ELSE UNION {BlobRange(b, n, i) : n \in OffsetCount(b)}

Parse ==
    /\ ~asked
    /\ asked' = TRUE
    /\ \E b \in body : parsed' = ParseBody(b)
    /\ UNCHANGED <<lens, body>>

Next == (\E packed \in BOOLEAN : Encode(packed)) \/ Parse

Spec == Init /\ [][Next]_vars

----------------------------------------------------------------------------
(* Properties *)

\* A cluster that parses has every one of its blobs, one after the other,
\* after the table.  The answer in place is the answer from the copy.
ReadSound(b) ==
    \A n \in parsed : \A i \in 0 .. n :
      /\ i < n => BlobRange(b, n, i) # {}
      /\ i + 1 < n => \A r \in BlobRange(b, n, i), q \in BlobRange(b, n, i + 1) :
                        r.to = q.from
      /\ ~b.packed => RawBlobRange(b, i) = BlobRange(b, n, i)

\* On bytes that do not parse, the answer in place is still inside the body.
InPlaceSound(b) ==
    \A i \in 0 .. b.len : \A r \in RawBlobRange(b, i) :
      Width(b.ext) * (i + 2) <= r.from /\ r.from <= r.to /\ r.to <= b.len

\* What the writer encodes, raw or not, reads back as blobs of the lengths
\* they had, on either side of the step to 64-bit offsets, except that no
\* reader takes a compressed payload over MAX_EXTENDED_CLUSTER_BYTES.
RoundTrip(b) ==
    \/ b.packed /\ b.len > Limit64 /\ parsed = {}
    \/ /\ parsed = {Len(lens)}
       /\ \A i \in DOMAIN lens :
            \E r \in BlobRange(b, Len(lens), i - 1) : r.to - r.from = lens[i]

\* validate_cluster and every read of a blob agree on every cluster, and on
\* those of the writer they say what was written.
BlobsExact ==
    asked => \A b \in body :
      ReadSound(b) /\ InPlaceSound(b) /\ (lens # << >> => RoundTrip(b))
=============================================================================
