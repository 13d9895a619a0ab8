----------------------------- MODULE PathLookup -----------------------------
(***************************************************************************)
(* The lookups of src/archive.rs over the directory, which is meant to be   *)
(* sorted by (namespace, path): entry_by_ns_path, namespace_range and       *)
(* by_prefix, and check_dirent_order, which says whether it is sorted.      *)
(* Init takes any directory, sorted or not: an archive is what the file     *)
(* holds.  Each turn of a loop is a step.                                   *)
(*                                                                         *)
(* A path is its rank in byte order; the paths that start with p are those   *)
(* from p on and below PrefixEnd[p].                                        *)
(***************************************************************************)
EXTENDS Integers

CONSTANTS N,          \* entry_count
          TopNs,      \* the largest namespace byte, 255
          MaxPath,    \* paths are 0 .. MaxPath
          PrefixEnd   \* path -> where the paths that start with it end

ASSUME CountAssumption == N \in Nat /\ TopNs \in Nat /\ MaxPath \in Nat
ASSUME PrefixAssumption ==
    /\ PrefixEnd \in [0 .. MaxPath -> 1 .. MaxPath + 1]
    /\ \A p \in 0 .. MaxPath : p < PrefixEnd[p]

Index == 0 .. N - 1
Key == [ns : 0 .. TopNs, path : 0 .. MaxPath]

VARIABLES
  dir,          \* index -> the key of its dirent
  checked,      \* what check_dirent_order said: "no" | "sorted" | "unsorted"
  op,           \* "idle" | "order" | "find" | "lower" | "upper" | "prefix" | "walk"
  key,          \* what is looked for
  lo, hi,       \* the search window
  first, past,  \* the answer: the entries first .. past - 1
  answer        \* "none" | "found" | "missing" | "range" | "listed"

vars == <<dir, checked, op, key, lo, hi, first, past, answer>>

Init ==
    /\ dir \in [Index -> Key]
    /\ checked = "no"
    /\ op = "idle"
    /\ key = [ns |-> 0, path |-> 0]
    /\ lo = 0 /\ hi = 0
    /\ first = 0 /\ past = 0
    /\ answer = "none"

Before(a, b) == a.ns < b.ns \/ (a.ns = b.ns /\ a.path < b.path)

StartsWith(a, p) == a.ns = p.ns /\ p.path <= a.path /\ a.path < PrefixEnd[p.path]

\* u8::saturating_add(1)
NextNs(ns) == IF ns = TopNs THEN ns ELSE ns + 1

Mid == lo + (hi - lo) \div 2

----------------------------------------------------------------------------
Ask(o, k) ==
    /\ op = "idle"
    /\ op' = o
    /\ key' = k
    /\ lo' = 0 /\ hi' = N
    /\ first' = 0 /\ past' = 0
    /\ answer' = "none"
    /\ UNCHANGED <<dir, checked>>

Answer(a, f, p) ==
    /\ op' = "idle"
    /\ answer' = a
    /\ first' = f
    /\ past' = p

\* One turn of a binary search.

Left ==
    /\ hi' = Mid
    /\ UNCHANGED <<dir, checked, op, key, lo, first, past, answer>>

Right ==
    /\ lo' = Mid + 1
    /\ UNCHANGED <<dir, checked, op, key, hi, first, past, answer>>

----------------------------------------------------------------------------
(* check_dirent_order *)

CheckNext ==
    /\ op = "order" /\ lo < N
    /\ lo > 0 => ~Before(dir[lo], dir[lo - 1])
    /\ lo' = lo + 1
    /\ UNCHANGED <<dir, checked, op, key, hi, first, past, answer>>

CheckRefuses ==
    /\ op = "order" /\ lo < N
    /\ lo > 0 /\ Before(dir[lo], dir[lo - 1])
    /\ checked' = "unsorted"
    /\ op' = "idle"
    /\ UNCHANGED <<dir, key, lo, hi, first, past, answer>>

CheckPasses ==
    /\ op = "order" /\ lo >= N
    /\ checked' = "sorted"
    /\ op' = "idle"
    /\ UNCHANGED <<dir, key, lo, hi, first, past, answer>>

----------------------------------------------------------------------------
(* entry_by_ns_path *)

FindLeft == op = "find" /\ lo < hi /\ Before(key, dir[Mid]) /\ Left

FindRight == op = "find" /\ lo < hi /\ Before(dir[Mid], key) /\ Right

FindHit ==
    /\ op = "find" /\ lo < hi
    /\ dir[Mid] = key
    /\ Answer("found", Mid, Mid + 1)
    /\ UNCHANGED <<dir, checked, key, lo, hi>>

\* Mutant: a window of one entry is not searched.
FindMissEarly ==
    /\ op = "find" /\ lo + 1 >= hi
    /\ Answer("missing", lo, lo)
    /\ UNCHANGED <<dir, checked, key, lo, hi>>

FindMiss ==
    /\ op = "find" /\ lo >= hi
    /\ Answer("missing", lo, lo)
    /\ UNCHANGED <<dir, checked, key, lo, hi>>

----------------------------------------------------------------------------
(* lower_bound_ns, twice: namespace_range and entry_count_in_namespace *)

Searched == IF op = "lower" THEN key.ns ELSE NextNs(key.ns)

NsRight == op \in {"lower", "upper"} /\ lo < hi /\ dir[Mid].ns < Searched /\ Right

NsLeft == op \in {"lower", "upper"} /\ lo < hi /\ dir[Mid].ns >= Searched /\ Left

LowerDone ==
    /\ op = "lower" /\ lo >= hi
    /\ op' = "upper"
    /\ first' = lo
    /\ lo' = 0 /\ hi' = N
    /\ UNCHANGED <<dir, checked, key, past, answer>>

UpperDone ==
    /\ op = "upper" /\ lo >= hi
    /\ Answer("range", first, lo)
    /\ UNCHANGED <<dir, checked, key, lo, hi>>

----------------------------------------------------------------------------
(* by_prefix and PrefixIter::next *)

PrefixRight == op = "prefix" /\ lo < hi /\ Before(dir[Mid], key) /\ Right

PrefixLeft == op = "prefix" /\ lo < hi /\ ~Before(dir[Mid], key) /\ Left

PrefixStart ==
    /\ op = "prefix" /\ lo >= hi
    /\ op' = "walk"
    /\ first' = lo /\ past' = lo
    /\ UNCHANGED <<dir, checked, key, lo, hi, answer>>

Yield ==
    /\ op = "walk" /\ past < N
    /\ StartsWith(dir[past], key)
    /\ past' = past + 1
    /\ UNCHANGED <<dir, checked, op, key, lo, hi, first, answer>>

WalkEnds ==
    /\ op = "walk"
    /\ past < N => ~StartsWith(dir[past], key)
    /\ Answer("listed", first, past)
    /\ UNCHANGED <<dir, checked, key, lo, hi>>

----------------------------------------------------------------------------
Check == CheckNext \/ CheckRefuses \/ CheckPasses
Find == FindLeft \/ FindRight \/ FindHit \/ FindMiss
NsRange == NsLeft \/ NsRight \/ LowerDone \/ UpperDone
Prefix == PrefixLeft \/ PrefixRight \/ PrefixStart \/ Yield \/ WalkEnds

Work == Check \/ Find \/ NsRange \/ Prefix

Next ==
    \/ \E o \in {"order", "find", "lower", "prefix"}, k \in Key : Ask(o, k)
    \/ Work

Spec == Init /\ [][Next]_vars

----------------------------------------------------------------------------
(* Properties *)

\* Types; the search window never leaves the directory.
TypeOK ==
    /\ dir \in [Index -> Key]
    /\ checked \in {"no", "sorted", "unsorted"}
    /\ op \in {"idle", "order", "find", "lower", "upper", "prefix", "walk"}
    /\ key \in Key
    /\ lo \in 0 .. N /\ hi \in 0 .. N /\ lo <= hi
    /\ first \in 0 .. N /\ past \in 0 .. N
    /\ answer \in {"none", "found", "missing", "range", "listed"}

\* check_dirent_order compares neighbours only, but what it says is about
\* any two entries.
VerdictExact ==
    LET Sorted == \A i, j \in Index : i < j => ~Before(dir[j], dir[i])
    IN (checked = "sorted" => Sorted) /\ (checked = "unsorted" => ~Sorted)

\* Once check_dirent_order has passed, entry_by_ns_path misses an entry only
\* if there is none, equal keys or not: "a `false` here would silently break
\* every path lookup" (src/archive.rs:1290).
LookupExact ==
    checked = "sorted" =>
      /\ answer = "found" => dir[first] = key
      /\ answer = "missing" => \A i \in Index : dir[i] # key

\* "Entries `start..end` in URL-pointer order are exactly the ones in
\* `namespace`" (src/archive.rs:867), except of namespace 255, whose range is
\* always empty.
RangeExact ==
    checked = "sorted" /\ answer = "range" /\ key.ns < TopNs =>
      \A i \in Index : dir[i].ns = key.ns <=> first <= i /\ i < past

\* Then by_prefix lists exactly the entries that start with the prefix.
PrefixExact ==
    checked = "sorted" /\ answer = "listed" =>
      \A i \in Index : StartsWith(dir[i], key) <=> first <= i /\ i < past

\* check_dirent_order decides whether a directory is sorted, and on one that
\* is, the lookups by path, by namespace and by prefix answer exactly.
DirectoryExact == VerdictExact /\ LookupExact /\ RangeExact /\ PrefixExact
=============================================================================
