----------------------------- MODULE TitleLookup -----------------------------
(***************************************************************************)
(* The title lookups of src/archive.rs: entry_by_ns_title and               *)
(* title_prefix_range search the title listing of the archive, which is the *)
(* full table or only the front articles (titleOrdered/v1), and             *)
(* valid_title_listing says whether a listing is fit for that.              *)
(* Init takes any directory and any listing a file may hold.                *)
(*                                                                         *)
(* A title is its rank in byte order; the titles that start with p are those *)
(* from p on and below PrefixEnd[p].                                        *)
(***************************************************************************)
EXTENDS Integers, Sequences

CONSTANTS N,          \* entry_count
          MaxNs,      \* namespaces are 0 .. MaxNs
          Content,    \* the content namespace, C
          MaxTitle,   \* titles are 0 .. MaxTitle
          PrefixEnd   \* title -> where the titles that start with it end

Index == 0 .. N - 1
Key == [ns : 0 .. MaxNs, title : 0 .. MaxTitle]

\* N stands for any index past the directory.  named_title_listing refuses a
\* listing that is longer than the directory.
Listing == UNION {[1 .. n -> 0 .. N] : n \in 0 .. N}

VARIABLES
  dir,          \* index -> namespace and title of its dirent
  listing,      \* the title listing: indices
  subset,       \* it is the v1 listing
  checked,      \* what valid_title_listing said: "no" | "valid" | "invalid"
  op,           \* "idle" | "check" | "find" | "scan" | "from" | "to"
  key,          \* what is looked for
  lo, hi,       \* the search window, positions before which and from which on
  seen,         \* check: indices met
  first, past,  \* the answer: positions first + 1 .. past of the listing
  at,           \* the answer: index of the entry
  answer        \* "none" | "found" | "missing" | "error" | "range"

vars == <<dir, listing, subset, checked, op, key, lo, hi, seen, first, past, at, answer>>

Init ==
    /\ dir \in [Index -> Key]
    /\ listing \in Listing
    /\ subset \in BOOLEAN
    /\ checked = "no"
    /\ op = "idle"
    /\ key = [ns |-> 0, title |-> 0]
    /\ lo = 0 /\ hi = 0
    /\ seen = {}
    /\ first = 0 /\ past = 0
    /\ at = 0
    /\ answer = "none"

Before(a, b) == a.ns < b.ns \/ (a.ns = b.ns /\ a.title < b.title)

\* Below every title that starts with the prefix followed by 0xFF.
BeforeEnd(a, p) == a.ns < p.ns \/ (a.ns = p.ns /\ a.title < PrefixEnd[p.title])

Mid == lo + (hi - lo) \div 2

\* The listing is indexed from 0 in the code.
Listed(i) == listing[i + 1]
InFile(i) == Listed(i) < N
MidKey == dir[Listed(Mid)]

----------------------------------------------------------------------------
Ask(o, k) ==
    /\ op = "idle"
    /\ op' = o
    /\ key' = k
    /\ lo' = 0 /\ hi' = Len(listing)
    /\ seen' = {}
    /\ first' = 0 /\ past' = 0 /\ at' = 0
    /\ answer' = "none"
    /\ UNCHANGED <<dir, listing, subset, checked>>

Say(a, i) ==
    /\ op' = "idle"
    /\ answer' = a
    /\ at' = i
    /\ UNCHANGED <<dir, listing, subset, checked, key, lo, hi, seen, first, past>>

Left ==
    /\ hi' = Mid
    /\ UNCHANGED <<dir, listing, subset, checked, op, key, lo, seen, first, past, at,
                   answer>>

Right ==
    /\ lo' = Mid + 1
    /\ UNCHANGED <<dir, listing, subset, checked, op, key, hi, seen, first, past, at,
                   answer>>

\* url_pointer: an index past the directory is an error of the lookup.
Fails ==
    /\ op \in {"find", "from", "to"} /\ lo < hi
    /\ ~InFile(Mid)
    /\ Say("error", 0)

----------------------------------------------------------------------------
(* valid_title_listing *)

Verdict(v) ==
    /\ checked' = v
    /\ op' = "idle"
    /\ UNCHANGED <<dir, listing, subset, key, lo, hi, seen, first, past, at, answer>>

WrongLength == ~subset /\ Len(listing) # N

\* Mutant: an index may be listed twice.
FitsTwice ==
    /\ InFile(lo)
    /\ subset => dir[Listed(lo)].ns = Content
    /\ lo > 0 => ~Before(dir[Listed(lo)], dir[Listed(lo - 1)])

Fits ==
    /\ InFile(lo)
    /\ Listed(lo) \notin seen
    /\ subset => dir[Listed(lo)].ns = Content
    /\ lo > 0 => ~Before(dir[Listed(lo)], dir[Listed(lo - 1)])

CheckEntry ==
    /\ op = "check" /\ ~WrongLength /\ lo < hi
    /\ Fits
    /\ lo' = lo + 1
    /\ seen' = seen \cup {Listed(lo)}
    /\ UNCHANGED <<dir, listing, subset, checked, op, key, hi, first, past, at, answer>>

CheckRefuses ==
    /\ op = "check"
    /\ WrongLength \/ (lo < hi /\ ~Fits)
    /\ Verdict("invalid")

CheckPasses == op = "check" /\ ~WrongLength /\ lo >= hi /\ Verdict("valid")

----------------------------------------------------------------------------
(* entry_by_ns_title *)

FindLeft ==
    op = "find" /\ lo < hi /\ InFile(Mid) /\ Before(key, MidKey) /\ Left

FindRight ==
    op = "find" /\ lo < hi /\ InFile(Mid) /\ Before(MidKey, key) /\ Right

FindHit ==
    /\ op = "find" /\ lo < hi /\ InFile(Mid) /\ MidKey = key
    /\ Say("found", Listed(Mid))

\* Mutant: a listing of content is taken for authoritative.
AuthoritativeContent == Len(listing) = N \/ (subset /\ key.ns = Content)

\* A listing of all entries makes a miss authoritative.
Authoritative == Len(listing) = N

FindMiss ==
    /\ op = "find" /\ lo >= hi
    /\ Authoritative
    /\ Say("missing", 0)

\* Entries left out of the listing are found by a scan of the directory.
FindScans ==
    /\ op = "find" /\ lo >= hi
    /\ ~Authoritative
    /\ op' = "scan"
    /\ lo' = 0 /\ hi' = N
    /\ UNCHANGED <<dir, listing, subset, checked, key, seen, first, past, at, answer>>

ScanOn ==
    /\ op = "scan" /\ lo < hi /\ dir[lo] # key
    /\ lo' = lo + 1
    /\ UNCHANGED <<dir, listing, subset, checked, op, key, hi, seen, first, past, at,
                   answer>>

ScanHit == op = "scan" /\ lo < hi /\ dir[lo] = key /\ Say("found", lo)

ScanMiss == op = "scan" /\ lo >= hi /\ Say("missing", 0)

----------------------------------------------------------------------------
(* title_prefix_range: lower_bound_in_title_listing, twice *)

Below(a) == IF op = "from" THEN Before(a, key) ELSE BeforeEnd(a, key)

RangeRight ==
    op \in {"from", "to"} /\ lo < hi /\ InFile(Mid) /\ Below(MidKey) /\ Right

RangeLeft ==
    op \in {"from", "to"} /\ lo < hi /\ InFile(Mid) /\ ~Below(MidKey) /\ Left

FromDone ==
    /\ op = "from" /\ lo >= hi
    /\ op' = "to"
    /\ first' = lo
    /\ lo' = 0 /\ hi' = Len(listing)
    /\ UNCHANGED <<dir, listing, subset, checked, key, seen, past, at, answer>>

ToDone ==
    /\ op = "to" /\ lo >= hi
    /\ op' = "idle"
    /\ past' = lo
    /\ answer' = "range"
    /\ UNCHANGED <<dir, listing, subset, checked, key, lo, hi, seen, first, at>>

----------------------------------------------------------------------------
Check == CheckEntry \/ CheckRefuses \/ CheckPasses
Find == FindLeft \/ FindRight \/ FindHit \/ FindMiss \/ FindScans
Scan == ScanOn \/ ScanHit \/ ScanMiss
PrefixRange == RangeLeft \/ RangeRight \/ FromDone \/ ToDone

Work == Check \/ Find \/ Scan \/ PrefixRange \/ Fails

Next ==
    \/ \E o \in {"check", "find", "from"}, k \in Key : Ask(o, k)
    \/ Work

Spec == Init /\ [][Next]_vars

----------------------------------------------------------------------------
(* Properties *)

Positions == 0 .. Len(listing) - 1

\* "the header and v0 tables must be full permutations of the URL indices,
\* while v1 is a unique C-namespace subset. All tables must be title-sorted"
\* (src/archive.rs:1312): what the single pass accepts is exactly that.
Valid ==
    /\ \A i \in Positions : InFile(i)
    /\ \A i, j \in Positions : i # j => Listed(i) # Listed(j)
    /\ \A i, j \in Positions : i < j => ~Before(dir[Listed(j)], dir[Listed(i)])
    /\ IF subset THEN \A i \in Positions : dir[Listed(i)].ns = Content
                 ELSE {Listed(i) : i \in Positions} = Index

\* check_title_index accepts a listing exactly when it is valid.
VerdictExact == (checked = "valid" => Valid) /\ (checked = "invalid" => ~Valid)

\* On a listing that was accepted, front articles only or full, a title is
\* found in any namespace if there is such an entry, and no lookup fails for
\* an index of the listing.
TitleExact ==
    checked = "valid" =>
      /\ answer # "error"
      /\ answer = "found" => dir[at] = key
      /\ answer = "missing" => \A i \in Index : dir[i] # key

\* On a listing that was accepted title_prefix_range is exactly the positions
\* whose titles start with the prefix, as one range.
RangeExact ==
    checked = "valid" /\ answer = "range" =>
      \A i \in Positions :
        LET k == dir[Listed(i)]
        IN (k.ns = key.ns /\ key.title <= k.title /\ k.title < PrefixEnd[key.title])
             <=> first <= i /\ i < past
=============================================================================
