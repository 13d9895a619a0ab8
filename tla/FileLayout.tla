----------------------------- MODULE FileLayout -----------------------------
(***************************************************************************)
(* Where things are in an archive file.  Streamer writes zeros where the    *)
(* header and the MIME list will be, then clusters as they land, and        *)
(* finalize the pointer tables and dirents, the MIME list, the header and   *)
(* the checksum (src/writer.rs); Archive finds out where a cluster ends     *)
(* (src/archive.rs).                                                       *)
(*                                                                         *)
(* The process may be killed at any point, so that every state is a file    *)
(* that a reader may find.  A file of another writer may have any layout.   *)
(* Positions count in units of eight bytes.                                *)
(***************************************************************************)
EXTENDS Integers, FiniteSetsExt

CONSTANTS ClusterCount, \* cluster_count
          Lengths,      \* encoded lengths of clusters
          Dirents,      \* entry_count; even, so that the title table fits the unit
          DirentLen,    \* length of an encoded dirent
          Reserved,     \* header and MIME_LIST_RESERVE
          MaxPos        \* bound: positions in a foreign file

\* What the code guarantees of them.  A cluster has at least its info byte.
ASSUME SizeAssumption ==
    /\ {ClusterCount, Dirents, DirentLen, MaxPos} \subseteq Nat
    /\ Lengths \subseteq Nat \ {0}
    /\ Reserved \in Nat \ {0}

Cluster == 1 .. ClusterCount
Md5Len == 2
None == [url |-> 0, title |-> 0, cluster |-> 0, dirents |-> 0, checksum |-> 0]

VARIABLES
  stage,    \* what is written next: "clusters" | "tables" | "mimes" | "header" |
            \*   "digest"; then "sealed"; or "torn" | "cut" | "foreign"
  ptrs,     \* index -> cluster offset (cluster_offsets, later in the file)
  size,     \* history: index -> bytes written for the cluster
  eof,      \* length of the file
  layout,   \* the positions finalize has computed
  head      \* {} while the header is zeros, or {the positions in the header}

fileVars == <<stage, ptrs, size, eof, layout, head>>

\* Positions a header may claim.
Claims == {[url |-> u, title |-> u, cluster |-> c, dirents |-> 0, checksum |-> k]
             : u, c, k \in 0 .. MaxPos}

\* Streamer::open, or any file.
FileInit ==
    /\ size = << >>
    /\ layout = None
    /\ \/ /\ stage = "clusters"
          /\ ptrs = << >>
          /\ eof = Reserved
          /\ head = {}
       \/ /\ stage = "foreign"
          /\ ptrs \in [Cluster -> 0 .. MaxPos]
          /\ eof \in 0 .. MaxPos
          /\ \E h \in Claims : head = {h}

----------------------------------------------------------------------------
(* Streamer *)

With(f, i, x) == [j \in DOMAIN f \cup {i} |-> IF j = i THEN x ELSE f[j]]

\* A cluster of the pipeline, or a streamed one that is spliced in, lands at
\* file_pos, whatever its index.
Land(i, n) ==
    /\ stage = "clusters"
    /\ i \notin DOMAIN ptrs
    /\ ptrs' = With(ptrs, i, eof)
    /\ size' = With(size, i, n)
    /\ eof' = eof + n
    /\ UNCHANGED <<stage, layout, head>>

\* Step 7: the positions that follow from the end of the clusters.
LayoutFrom(end) ==
    LET title == end + Dirents
        cluster == title + Dirents \div 2
        dirents == cluster + ClusterCount
    IN [url |-> end, title |-> title, cluster |-> cluster, dirents |-> dirents,
        checksum |-> dirents + DirentLen * Dirents]

PlanTables ==
    /\ stage = "clusters"
    /\ DOMAIN ptrs = Cluster
    /\ stage' = "tables"
    /\ layout' = LayoutFrom(eof)
    /\ UNCHANGED <<ptrs, size, eof, head>>

\* The URL, title and cluster tables and the dirents, in one write.
WriteTables ==
    /\ stage = "tables"
    /\ stage' = "mimes"
    /\ eof' = layout.checksum
    /\ UNCHANGED <<ptrs, size, layout, head>>

WriteMimes ==
    /\ stage = "mimes"
    /\ stage' = "header"
    /\ UNCHANGED <<ptrs, size, eof, layout, head>>

WriteHeader ==
    /\ stage = "header"
    /\ stage' = "digest"
    /\ head' = {layout}
    /\ UNCHANGED <<ptrs, size, eof, layout>>

WriteDigest ==
    /\ stage = "digest"
    /\ stage' = "sealed"
    /\ eof' = eof + Md5Len
    /\ UNCHANGED <<ptrs, size, layout, head>>

\* The process ends within one of the two writes that extend the file.
Torn ==
    /\ \/ stage = "tables" /\ eof' \in eof .. layout.checksum - 1
       \/ stage = "digest" /\ eof' \in eof .. eof + Md5Len - 1
    /\ stage' = "torn"
    /\ UNCHANGED <<ptrs, size, layout, head>>

\* A finished archive is copied in part.
CutShort(n) ==
    /\ stage = "sealed"
    /\ n < eof
    /\ stage' = "cut"
    /\ eof' = n
    /\ UNCHANGED <<ptrs, size, layout, head>>

FileNext ==
    \/ \E i \in Cluster, n \in Lengths : Land(i, n)
    \/ PlanTables
    \/ WriteTables \/ WriteMimes \/ WriteHeader \/ WriteDigest
    \/ Torn
    \/ \E n \in Reserved .. eof : CutShort(n)

FileSpec == FileInit /\ [][FileNext]_fileVars

----------------------------------------------------------------------------
(* Archive.  An answer is a set: empty for an error. *)

\* pointer_table, for the cluster pointers.
HasTable(h) == h.cluster + ClusterCount <= eof

\* cluster_region_boundary_after
EndOfData(h) == IF h.checksum # 0 /\ h.checksum < eof THEN h.checksum ELSE eof

BoundaryAfter(h, start) ==
    LET after == {p \in {h.url, h.title, h.cluster, EndOfData(h)} : p > start}
    IN IF after = {} THEN EndOfData(h) ELSE Min(after)

\* Mutant: a cluster ends where the next in the table begins.
SliceEndByIndex(h, start) ==
    LET following == {ptrs[i] : i \in {j \in Cluster : j > 1 /\ ptrs[j - 1] = start}}
    IN Min({BoundaryAfter(h, start)} \cup following)

\* Mutant: nothing but clusters is looked at.
SliceEndNoTables(h, start) ==
    LET next == {ptrs[i] : i \in {j \in Cluster : ptrs[j] > start}}
    IN IF next = {} THEN EndOfData(h) ELSE Min(next)

\* cluster_slice_end: the next cluster in file order, or the next table.
SliceEnd(h, start) ==
    Min({BoundaryAfter(h, start)} \cup {ptrs[i] : i \in {j \in Cluster : ptrs[j] > start}})

\* cluster_byte_range
ByteRange(h, i) ==
    LET start == ptrs[i]  end == SliceEnd(h, start)
    IN IF HasTable(h) /\ start < end /\ end <= eof
       THEN {[from |-> start, to |-> end]} ELSE {}

\* check_dirent_ptrs and check_cluster_ptrs
CheckDirentPtrs(h) ==
    /\ h.url + Dirents <= eof
    /\ \A d \in 1 .. Dirents : h.dirents + d * DirentLen <= eof

CheckClusterPtrs(h) == HasTable(h) /\ \A i \in Cluster : ptrs[i] < eof

\* check, of a file of this writer: the digest is the last that is written,
\* so that it matches if it is there.
ChecksumMatches(h) == h.checksum # 0 /\ h.checksum + Md5Len <= eof

----------------------------------------------------------------------------
(* Properties *)

\* However clusters landed and wherever the build was killed or the file cut:
\* a file that opens has the whole of every cluster under its own index, or
\* refuses it; what finalize is done with passes its own verification and
\* reads back whole; and the checksum passes on finished archives only.
WholeOrRefused ==
    stage # "foreign" => \A h \in head :
      /\ \A i \in Cluster : \A r \in ByteRange(h, i) :
           r = [from |-> ptrs[i], to |-> ptrs[i] + size[i]]
      /\ stage \in {"digest", "sealed", "torn"} =>
           /\ CheckDirentPtrs(h) /\ CheckClusterPtrs(h)
           /\ \A i \in Cluster : ByteRange(h, i) # {}
      /\ stage = "sealed" <=> ChecksumMatches(h)

\* In any file, whatever its header and its pointers claim, the bytes of two
\* clusters never overlap and no table lies among them.
ExtentsApart ==
    \A h \in head : \A i \in Cluster : \A r \in ByteRange(h, i) :
      /\ \A j \in Cluster : \A q \in ByteRange(h, j) :
           r = q \/ r.to <= q.from \/ q.to <= r.from
      /\ \A p \in {h.url, h.title, h.cluster} : p <= r.from \/ r.to <= p
      /\ h.checksum # 0 /\ r.from < h.checksum => r.to <= h.checksum
=============================================================================
