---------------------------- MODULE ClusterCache ----------------------------
(***************************************************************************)
(* The cache of decompressed clusters that all clones of an Archive share   *)
(* (src/archive.rs): ClusterByteCache, an LRU bounded by bytes, behind a     *)
(* mutex, and Archive::load_cluster, which looks a cluster up, parses it     *)
(* without the mutex if it is not there, and puts it in.  Between the two    *)
(* critical sections other threads may have put the same cluster in.        *)
(*                                                                         *)
(* get is one step: the mutex is free before and after it.  put and resize   *)
(* hold the mutex (holder) over the turns of their eviction loop.           *)
(***************************************************************************)
EXTENDS Naturals, FiniteSets, SequencesExt

CONSTANTS Threads,      \* threads that read through the Archive
          Clusters,     \* clusters of the file
          Length,       \* payload length of each, decompressed
          Broken,       \* clusters that do not parse
          Budgets,      \* values of set_cluster_cache_max_bytes
          NoCluster,    \* a thread that wants none
          NoThread,     \* nobody holds the mutex
          MaxLoads      \* bound: calls of load_cluster

ASSUME LengthAssumption == Length \in [Clusters -> Nat]
ASSUME BudgetAssumption == Budgets \subseteq Nat /\ Budgets # {}
ASSUME NoneAssumption == NoCluster \notin Clusters /\ NoThread \notin Threads
ASSUME ThreadsAssumption == IsFiniteSet(Threads) /\ MaxLoads \in Nat

VARIABLES
  lru,        \* the cached clusters, least recently used first
  max,        \* max_bytes
  bytes,      \* current_bytes
  hits, misses, evictions,
  holder,     \* who holds the mutex over several steps
  pc,         \* thread -> "idle" | "get" | "parse" | "put" | "evict"
  want,       \* thread -> the cluster it loads
  loads,      \* history: calls of load_cluster
  wasted      \* history: parses whose result was not a new entry

cacheVars == <<lru, max, bytes, hits, misses, evictions, holder, pc, want, loads, wasted>>

CacheInit ==
    /\ lru = << >>
    /\ max \in Budgets
    /\ bytes = 0
    /\ hits = 0
    /\ misses = 0
    /\ evictions = 0
    /\ holder = NoThread
    /\ pc = [t \in Threads |-> "idle"]
    /\ want = [t \in Threads |-> NoCluster]
    /\ loads = 0
    /\ wasted = 0

Cached == Range(lru)

Goto(t, label, i) ==
    /\ pc' = [pc EXCEPT ![t] = label]
    /\ want' = [want EXCEPT ![t] = i]

\* saturating_sub
Minus(a, b) == IF a >= b THEN a - b ELSE 0

\* A cluster is in the order of use at most once.
Without(q, i) ==
    IF i \in Range(q) THEN RemoveAt(q, CHOOSE p \in DOMAIN q : q[p] = i) ELSE q

----------------------------------------------------------------------------
Load(t, i) ==
    /\ pc[t] = "idle"
    /\ loads < MaxLoads
    /\ Goto(t, "get", i)
    /\ loads' = loads + 1
    /\ UNCHANGED <<lru, max, bytes, hits, misses, evictions, holder, wasted>>

\* get: a hit makes the cluster the most recently used one.
Hit(t) ==
    /\ pc[t] = "get"
    /\ holder = NoThread
    /\ want[t] \in Cached
    /\ lru' = Append(Without(lru, want[t]), want[t])
    /\ hits' = hits + 1
    /\ Goto(t, "idle", NoCluster)
    /\ UNCHANGED <<max, bytes, misses, evictions, holder, loads, wasted>>

Miss(t) ==
    /\ pc[t] = "get"
    /\ holder = NoThread
    /\ want[t] \notin Cached
    /\ misses' = misses + 1
    /\ Goto(t, "parse", want[t])
    /\ UNCHANGED <<lru, max, bytes, hits, evictions, holder, loads, wasted>>

Parse(t) ==
    /\ pc[t] = "parse"
    /\ want[t] \notin Broken
    /\ Goto(t, "put", want[t])
    /\ UNCHANGED <<lru, max, bytes, hits, misses, evictions, holder, loads, wasted>>

\* The error goes to the caller; nothing is cached.
ParseFails(t) ==
    /\ pc[t] = "parse"
    /\ want[t] \in Broken
    /\ Goto(t, "idle", NoCluster)
    /\ wasted' = wasted + 1
    /\ UNCHANGED <<lru, max, bytes, hits, misses, evictions, holder, loads>>

\* Mutant: what another thread put in meanwhile is replaced without notice.
PutForgetsPrevious(t) ==
    /\ pc[t] = "put"
    /\ holder = NoThread
    /\ holder' = t
    /\ lru' = Append(Without(lru, want[t]), want[t])
    /\ bytes' = bytes + Length[want[t]]
    /\ wasted' = IF want[t] \in Cached THEN wasted + 1 ELSE wasted
    /\ Goto(t, "evict", want[t])
    /\ UNCHANGED <<max, hits, misses, evictions, loads>>

\* put: the payload of an entry it replaces no longer counts.
Put(t) ==
    /\ pc[t] = "put"
    /\ holder = NoThread
    /\ holder' = t
    /\ LET i == want[t]
           rest == IF i \in Cached THEN Minus(bytes, Length[i]) ELSE bytes
       IN /\ lru' = Append(Without(lru, i), i)
          /\ bytes' = rest + Length[i]
          /\ wasted' = IF i \in Cached THEN wasted + 1 ELSE wasted
          /\ Goto(t, "evict", i)
    /\ UNCHANGED <<max, hits, misses, evictions, loads>>

\* Mutant: resize leaves the eviction to the next put.
ResizeLazily(t, b) ==
    /\ pc[t] = "idle"
    /\ holder = NoThread
    /\ max' = b
    /\ UNCHANGED <<lru, bytes, hits, misses, evictions, holder, pc, want, loads,
                   wasted>>

\* set_cluster_cache_max_bytes
Resize(t, b) ==
    /\ pc[t] = "idle"
    /\ holder = NoThread
    /\ holder' = t
    /\ max' = b
    /\ Goto(t, "evict", NoCluster)
    /\ UNCHANGED <<lru, bytes, hits, misses, evictions, loads, wasted>>

OverBudget == bytes > max /\ Len(lru) > 1

\* Mutant: evictions are not counted.
EvictUncounted(t) ==
    /\ pc[t] = "evict"
    /\ OverBudget
    /\ lru' = Tail(lru)
    /\ bytes' = Minus(bytes, Length[Head(lru)])
    /\ UNCHANGED <<max, hits, misses, evictions, holder, pc, want, loads, wasted>>

\* evict_to_budget: one turn of the loop.
Evict(t) ==
    /\ pc[t] = "evict"
    /\ OverBudget
    /\ lru' = Tail(lru)
    /\ bytes' = Minus(bytes, Length[Head(lru)])
    /\ evictions' = evictions + 1
    /\ UNCHANGED <<max, hits, misses, holder, pc, want, loads, wasted>>

Unlock(t) ==
    /\ pc[t] = "evict"
    /\ ~OverBudget
    /\ holder' = NoThread
    /\ Goto(t, "idle", NoCluster)
    /\ UNCHANGED <<lru, max, bytes, hits, misses, evictions, loads, wasted>>

Idle == (\A t \in Threads : pc[t] = "idle") /\ UNCHANGED cacheVars

LoadStep(t) ==
    Hit(t) \/ Miss(t) \/ Parse(t) \/ ParseFails(t) \/ Put(t) \/ Evict(t) \/ Unlock(t)

CacheNext ==
    \/ \E t \in Threads : \/ \E i \in Clusters : Load(t, i)
                          \/ \E b \in Budgets : Resize(t, b)
                          \/ LoadStep(t)
    \/ Idle

CacheSpec == CacheInit /\ [][CacheNext]_cacheVars

----------------------------------------------------------------------------
(* Properties *)

\* Types; a thread that looks up, parses or puts wants a cluster, and the
\* mutex is held over several steps by evict_to_budget alone, never over a
\* parse (src/archive.rs:1217-1220).
CacheTypes ==
    /\ lru \in Seq(Clusters)
    /\ max \in Nat
    /\ bytes \in Nat
    /\ hits \in Nat /\ misses \in Nat /\ evictions \in Nat
    /\ holder \in Threads \cup {NoThread}
    /\ pc \in [Threads -> {"idle", "get", "parse", "put", "evict"}]
    /\ want \in [Threads -> Clusters \cup {NoCluster}]
    /\ loads \in Nat /\ wasted \in Nat
    /\ \A t \in Threads : pc[t] \in {"get", "parse", "put"} => want[t] \in Clusters
    /\ \A t \in Threads : pc[t] = "evict" <=> holder = t

\* The bytes of the payloads the cache keeps alive.
Payload(A) == UNION {{i} \X (1 .. Length[i]) : i \in A}
Resident == Payload(Cached)

\* current_bytes is exactly the length of the cached payloads: two threads
\* that parse the same cluster at once are not counted twice, and the
\* saturating subtraction never hides an error.
BytesExact == IsInjective(lru) /\ bytes = Cardinality(Resident)

\* Outside the critical sections the cache is within its budget, whatever was
\* put in or resized, unless one oversized cluster is alone in it.
WithinBudget == holder = NoThread => bytes <= max \/ Len(lru) = 1

\* What was just put in survives its own eviction loop: an oversized cluster
\* does not "lock the cache into a permanent miss" (src/archive.rs:52).
JustPutStays ==
    \A t \in Threads :
      pc[t] = "evict" /\ want[t] # NoCluster => lru # << >> /\ Last(lru) = want[t]

\* Eviction goes as far as the budget asks and no further.
EvictionExact == WithinBudget /\ JustPutStays

\* Threads between a miss and the end of its parse or its turn to put.
Loading == {t \in Threads : pc[t] \in {"parse", "put"}}

\* The counters the cache reports add up: every miss is an entry, an
\* eviction, a parse that came to nothing or one still under way.
StatsAddUp ==
    misses = Len(lru) + evictions + wasted
             + Cardinality(Loading)
=============================================================================
