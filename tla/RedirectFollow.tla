--------------------------- MODULE RedirectFollow ---------------------------
(***************************************************************************)
(* Following redirects in an archive: Entry::resolve and get_item of         *)
(* src/archive.rs with their limit of hops, follow_loop of src/bin/zimcheck  *)
(* .rs with its set of entries seen, and the linear three-colour walk of     *)
(* check_integrity there, which has no limit.                               *)
(* Init takes any graph: an archive is what the file holds.                 *)
(***************************************************************************)
EXTENDS Integers, FiniteSets

CONSTANTS N,             \* entry_count
          MaxRedirects   \* MAX_REDIRECTS, 16

Index == 0 .. N - 1

\* Not a redirect.  N stands for any target past the directory.
Article == -1

VARIABLES
  target,   \* index -> redirect_index, or Article
  sound,    \* what check_integrity said: "no" | "ok" | "loop" | "index"
  op,       \* "idle" | "resolve" | "item" | "follow" | "scan" | "next" |
            \*   "mark" | "finish"
  key,      \* the entry asked for
  cur,      \* the entry the walk is at
  hops,     \* resolve: redirects followed
  seen,     \* follow_loop: redirects followed
  visited,  \* check_integrity: 0 new, 1 on the path, 2 done
  start,    \* check_integrity: the entry being scanned, or walked from
  answer    \* "none" | "entry" | "loop" | "index" | "not an item"

vars == <<target, sound, op, key, cur, hops, seen, visited, start, answer>>
walk == <<key, cur, hops, seen, answer>>
check == <<sound, visited, start>>

Init ==
    /\ target \in [Index -> Article .. N]
    /\ sound = "no"
    /\ op = "idle"
    /\ key = 0 /\ cur = 0
    /\ hops = 0
    /\ seen = {}
    /\ visited = [i \in Index |-> 0]
    /\ start = 0
    /\ answer = "none"

IsRedirect(i) == target[i] # Article
Dangles(i) == target[i] = N

----------------------------------------------------------------------------
Ask(o, k) ==
    /\ op = "idle"
    /\ op' = o
    /\ key' = k /\ cur' = k
    /\ hops' = 0
    /\ seen' = {}
    /\ answer' = "none"
    /\ UNCHANGED <<target, check>>

Say(a) ==
    /\ op' = "idle"
    /\ answer' = a
    /\ UNCHANGED <<target, key, cur, hops, seen, check>>

\* The end of the chain, whoever follows it.
Arrives ==
    /\ op \in {"resolve", "item", "follow"}
    /\ ~IsRedirect(cur)
    /\ Say("entry")

(* resolve, and get_item with follow *)

Hop ==
    /\ op = "resolve" /\ IsRedirect(cur)
    /\ hops < MaxRedirects /\ ~Dangles(cur)
    /\ hops' = hops + 1
    /\ cur' = target[cur]
    /\ UNCHANGED <<target, op, key, seen, answer, check>>

HopDangles ==
    /\ op = "resolve" /\ IsRedirect(cur)
    /\ hops < MaxRedirects /\ Dangles(cur)
    /\ Say("index")

HopLimit ==
    /\ op = "resolve" /\ IsRedirect(cur)
    /\ hops >= MaxRedirects
    /\ Say("loop")

\* get_item(false)
NotAnItem == op = "item" /\ IsRedirect(cur) /\ Say("not an item")

(* follow_loop *)

\* Mutant: what was seen is forgotten.
FollowForgets ==
    /\ op = "follow" /\ IsRedirect(cur)
    /\ cur \notin seen /\ ~Dangles(cur)
    /\ seen' = {cur}
    /\ cur' = target[cur]
    /\ UNCHANGED <<target, op, key, hops, answer, check>>

Follow ==
    /\ op = "follow" /\ IsRedirect(cur)
    /\ cur \notin seen /\ ~Dangles(cur)
    /\ seen' = seen \cup {cur}
    /\ cur' = target[cur]
    /\ UNCHANGED <<target, op, key, hops, answer, check>>

FollowDangles ==
    /\ op = "follow" /\ IsRedirect(cur)
    /\ cur \notin seen /\ Dangles(cur)
    /\ Say("index")

\* Mutant: the limit of resolve is taken for a loop.
FollowLimit ==
    /\ op = "follow" /\ IsRedirect(cur)
    /\ cur \in seen \/ Cardinality(seen) >= MaxRedirects
    /\ Say("loop")

FollowLoop ==
    /\ op = "follow" /\ IsRedirect(cur)
    /\ cur \in seen
    /\ Say("loop")

----------------------------------------------------------------------------
(* check_integrity *)

AskIntegrity ==
    /\ op = "idle"
    /\ op' = "scan"
    /\ visited' = [i \in Index |-> 0]
    /\ start' = 0
    /\ hops' = 0
    /\ seen' = {}
    /\ answer' = "none"
    /\ UNCHANGED <<target, sound, key, cur>>

Verdict(v) ==
    /\ sound' = v
    /\ op' = "idle"
    /\ UNCHANGED <<target, walk, visited, start>>

\* Every dirent is parsed, and every target looked at, before any walk.
Scan ==
    /\ op = "scan" /\ start < N /\ ~Dangles(start)
    /\ start' = start + 1
    /\ UNCHANGED <<target, sound, op, walk, visited>>

ScanRefuses == op = "scan" /\ start < N /\ Dangles(start) /\ Verdict("index")

ScanDone ==
    /\ op = "scan" /\ start >= N
    /\ op' = "next"
    /\ start' = 0
    /\ UNCHANGED <<target, sound, walk, visited>>

Skip ==
    /\ op = "next" /\ start < N /\ visited[start] # 0
    /\ start' = start + 1
    /\ UNCHANGED <<target, sound, op, walk, visited>>

Start ==
    /\ op = "next" /\ start < N /\ visited[start] = 0
    /\ op' = "mark"
    /\ cur' = start
    /\ UNCHANGED <<target, sound, key, hops, seen, answer, visited, start>>

Passes == op = "next" /\ start >= N /\ Verdict("ok")

\* The colouring of one entry; the walk goes on with its target, if it has
\* one, and ends in the op given otherwise.
Colour(c, then) ==
    /\ visited' = [visited EXCEPT ![cur] = c]
    /\ IF IsRedirect(cur)
       THEN op' = op /\ cur' = target[cur] /\ start' = start
       ELSE /\ op' = then
            /\ cur' = IF then = "finish" THEN start ELSE cur
            /\ start' = IF then = "finish" THEN start ELSE start + 1
    /\ UNCHANGED <<target, sound, key, hops, seen, answer>>

Mark == op = "mark" /\ visited[cur] = 0 /\ Colour(1, "finish")

MarkLoop == op = "mark" /\ visited[cur] = 1 /\ Verdict("loop")

\* The walk has met an earlier one.
MarkKnown ==
    /\ op = "mark" /\ visited[cur] = 2
    /\ op' = "finish"
    /\ cur' = start
    /\ UNCHANGED <<target, sound, key, hops, seen, answer, visited, start>>

\* Mutant: only the first entry of the walk is done.
FinishFirst ==
    /\ op = "finish" /\ visited[cur] = 1
    /\ visited' = [visited EXCEPT ![cur] = 2]
    /\ op' = "next"
    /\ start' = start + 1
    /\ UNCHANGED <<target, sound, walk>>

Finish == op = "finish" /\ visited[cur] = 1 /\ Colour(2, "next")

FinishDone ==
    /\ op = "finish" /\ visited[cur] # 1
    /\ op' = "next"
    /\ start' = start + 1
    /\ UNCHANGED <<target, sound, walk, visited>>

----------------------------------------------------------------------------
Resolve == Hop \/ HopDangles \/ HopLimit \/ NotAnItem
FollowAll == Follow \/ FollowDangles \/ FollowLoop
Integrity ==
    \/ Scan \/ ScanRefuses \/ ScanDone
    \/ Skip \/ Start \/ Passes
    \/ Mark \/ MarkLoop \/ MarkKnown
    \/ Finish \/ FinishDone

Work == Arrives \/ Resolve \/ FollowAll \/ Integrity

Next ==
    \/ \E o \in {"resolve", "item", "follow"}, k \in Index : Ask(o, k)
    \/ AskIntegrity
    \/ Work

Spec == Init /\ [][Next]_vars

\* The loops run to their end: nothing in them waits.
FairSpec == Spec /\ WF_vars(Work)

----------------------------------------------------------------------------
(* Properties *)

\* The entries of S all redirect within S: there is a loop among them.
Trapped(S) == \A i \in S : target[i] \in S

Loops == \E S \in SUBSET Index : S # {} /\ Trapped(S)

\* check_integrity passes exactly the archives whose redirects all end at an
\* article, however long the chains, and says what is wrong with the others.
SoundExact ==
    /\ sound = "ok" => ~Loops /\ \A i \in Index : ~Dangles(i)
    /\ sound = "loop" => Loops
    /\ sound = "index" => \E i \in Index : Dangles(i)

\* The walk from key is at the end of that many redirects.
Chain(n, end) ==
    \E w \in [0 .. n -> Index] :
      /\ w[0] = key /\ w[n] = end
      /\ \A k \in 0 .. n - 1 : w[k + 1] = target[w[k]]

\* follow_loop reports a loop exactly for the entries that lead into one.
\* resolve arrives at the end of the chain, over MAX_REDIRECTS redirects at
\* most, and gives up only on a chain with more or one into nowhere, which no
\* archive has that check_integrity passed.
FollowExact ==
    op = "idle" /\ answer \in {"entry", "loop", "index"} =>
      LET trapped == \E S \in SUBSET Index : key \in S /\ Trapped(S)
      IN /\ answer = "entry" => ~IsRedirect(cur) /\ ~trapped
         /\ answer = "index" => Dangles(cur) /\ ~trapped /\ sound # "ok"
         /\ answer = "loop" =>
              IF seen = {} THEN Chain(MaxRedirects, cur) /\ IsRedirect(cur)
                           ELSE trapped

\* Every call ends, on any graph.
Answered == op # "idle" ~> op = "idle"
=============================================================================
