------------------------------- MODULE Reader -------------------------------
(***************************************************************************)
(* What a reader relies on: the lookups by path and by title, the extents   *)
(* of clusters in the file, the blobs in a cluster, and the cache of        *)
(* clusters.                                                               *)
(* These share no state, so that a behaviour is one of any one of them: Init *)
(* chooses which, and the others stand still.                               *)
(***************************************************************************)
EXTENDS PathLookup, FileLayout, ClusterCache, Sequences

CONSTANTS
  TitleN, MaxNs, Content, MaxTitle, TitlePrefixEnd,             \* TitleLookup
  W32, W64, Top32, Limit64, MaxWords, BlobLens, MaxBlobs        \* ClusterBody

ASSUME TitleAssumption ==
    /\ {TitleN, MaxNs, MaxTitle} \subseteq Nat
    /\ TitlePrefixEnd \in [0 .. MaxTitle -> 1 .. MaxTitle + 1]

ASSUME BodyAssumption ==
    /\ {W32, W64} \subseteq Nat \ {0}
    /\ {Top32, Limit64, MaxWords, MaxBlobs} \subseteq Nat
    /\ BlobLens \subseteq Nat

VARIABLES
  part,                                        \* which one takes steps
  listing, subset, seen, at,                   \* TitleLookup, with those of PathLookup
  lens, body, asked, parsed                    \* ClusterBody

Titles == INSTANCE TitleLookup WITH N <- TitleN, PrefixEnd <- TitlePrefixEnd
Body == INSTANCE ClusterBody

lookup == <<dir, checked, op, key, lo, hi, first, past, answer>>
titles == <<listing, subset, seen, at>>
cluster == <<lens, body, asked, parsed>>

NoLookup ==
    /\ dir = << >> /\ checked = "no" /\ op = "idle" /\ key = 0
    /\ lo = 0 /\ hi = 0 /\ first = 0 /\ past = 0 /\ answer = "none"
NoTitles == listing = << >> /\ subset = FALSE /\ seen = {} /\ at = 0
NoFile ==
    /\ stage = "none" /\ ptrs = << >> /\ size = << >>
    /\ eof = 0 /\ layout = 0 /\ head = {}
NoBody == lens = << >> /\ body = {} /\ asked = FALSE /\ parsed = {}
NoCache == CacheInit /\ max = Min(Budgets)

ReaderInit ==
    \/ part = "paths" /\ Init /\ NoTitles /\ NoFile /\ NoBody /\ NoCache
    \/ part = "titles" /\ Titles!Init /\ NoFile /\ NoBody /\ NoCache
    \/ part = "file" /\ NoLookup /\ NoTitles /\ FileInit /\ NoBody /\ NoCache
    \/ part = "cluster" /\ NoLookup /\ NoTitles /\ NoFile /\ Body!Init /\ NoCache
    \/ part = "cache" /\ NoLookup /\ NoTitles /\ NoFile /\ NoBody /\ CacheInit

ByPath ==
    /\ part = "paths"
    /\ UNCHANGED <<part, titles, fileVars, cluster, cacheVars>>
    /\ Next

ByTitle ==
    /\ part = "titles"
    /\ UNCHANGED <<part, fileVars, cluster, cacheVars>>
    /\ Titles!Next

InFile ==
    /\ part = "file"
    /\ UNCHANGED <<part, lookup, titles, cluster, cacheVars>>
    /\ FileNext

InCluster ==
    /\ part = "cluster"
    /\ UNCHANGED <<part, lookup, titles, fileVars, cacheVars>>
    /\ Body!Next

InCache ==
    /\ part = "cache"
    /\ UNCHANGED <<part, lookup, titles, fileVars, cluster>>
    /\ CacheNext

ReaderNext == ByPath \/ ByTitle \/ InFile \/ InCluster \/ InCache

readerVars == <<part, lookup, titles, fileVars, cluster, cacheVars>>

ReaderSpec == ReaderInit /\ [][ReaderNext]_readerVars

----------------------------------------------------------------------------
(* Properties *)

\* valid_title_listing accepts a listing, full or of front articles only,
\* exactly when it is valid.
ListingVerdictExact == part = "titles" => Titles!VerdictExact

\* On a listing it accepts, entry_by_ns_title and title_prefix_range are
\* exact.
TitlesExact == part = "titles" => Titles!TitleExact /\ Titles!RangeExact

\* validate_cluster and the reads of blobs agree, and read back what
\* encode_cluster wrote.
BlobsExact == part = "cluster" => Body!BlobsExact
=============================================================================
