-------------------------- MODULE RedirectListing --------------------------
(***************************************************************************)
(* Steps 5 and 6 of Streamer::finalize (src/writer.rs): redirect targets    *)
(* are resolved to indices of the sorted directory, and one walk over the   *)
(* redirect chains finds cycles and decides which entries the title listing *)
(* shows.  The walk remembers in eligibility[] what it has learned, so that *)
(* chains that share a tail are not walked twice.                           *)
(*                                                                         *)
(* The directory is an input: every set of N entries, with every choice of  *)
(* targets, is an initial state.                                            *)
(***************************************************************************)
EXTENDS Naturals, Sequences, FiniteSets, Functions

CONSTANT N              \* entries in the directory, numbered from 1

ASSUME NAssumption == N \in Nat

Entries == 1 .. N

\* "html" and "other" are articles; "page" is the W/mainPage redirect.
Kinds == {"html", "other", "redirect", "page"}

VARIABLES
  kind,       \* what each entry is
  target,     \* resolved_index of a redirect; 0: the key was not found
  pc,         \* "resolve" | "walk" | "done" | "missing" | "cycle"
  start,      \* the entry whose eligibility is being decided
  current,    \* the entry the walk has reached
  chain,      \* the redirects between them
  mark,       \* eligibility: 0 unknown, 1 on the chain, 2 no, 3 yes
  listing,    \* the entries of the title listing
  steps       \* history: turns of the inner loop

vars == <<kind, target, pc, start, current, chain, mark, listing, steps>>

Redirects == {i \in Entries : kind[i] \in {"redirect", "page"}}

\* A target is a content path, so nothing redirects to W/mainPage.
Init ==
    /\ kind \in [Entries -> Kinds]
    /\ target \in [Entries -> 0 .. N]
    /\ \A i, j \in Entries : kind[i] = "page" /\ kind[j] = "page" => i = j
    /\ \A i \in Entries : kind[i] \in {"html", "other"} => target[i] = 0
    /\ \A i \in Entries : target[i] # 0 => kind[target[i]] # "page"
    /\ pc = "resolve"
    /\ start = 1
    /\ current = 1
    /\ chain = << >>
    /\ mark = [i \in Entries |-> 0]
    /\ listing = {}
    /\ steps = 0

\* Step 5: every redirect must have a target.
Resolve ==
    /\ pc = "resolve"
    /\ pc' = IF \E i \in Redirects : target[i] = 0 THEN "missing" ELSE "walk"
    /\ UNCHANGED <<kind, target, start, current, chain, mark, listing, steps>>

\* Mutant: only the last entry reached is settled.
SettleLast(m, onChain) ==
    /\ mark' = IF onChain = << >> THEN mark
               ELSE [mark EXCEPT ![onChain[Len(onChain)]] = m]
    /\ chain' = << >>
    /\ start' = start + 1
    /\ current' = start + 1

\* chain.drain(..), and on to the next entry.
Settle(m, onChain) ==
    /\ mark' = [i \in Entries |-> IF i \in Range(onChain) THEN m ELSE mark[i]]
    /\ chain' = << >>
    /\ start' = start + 1
    /\ current' = start + 1

\* The walk meets its own chain.
Cycle ==
    /\ pc = "walk"
    /\ start <= N
    /\ mark[current] = 1
    /\ pc' = "cycle"
    /\ steps' = steps + 1
    /\ UNCHANGED <<kind, target, start, current, chain, mark, listing>>

\* Mutant: a chain that joins an earlier one is taken for eligible.
KnownEligible ==
    /\ pc = "walk"
    /\ start <= N
    /\ mark[current] \in {2, 3}
    /\ Settle(3, chain)
    /\ steps' = steps + 1
    /\ UNCHANGED <<kind, target, pc, listing>>

\* The walk meets an entry that was decided before.
Known ==
    /\ pc = "walk"
    /\ start <= N
    /\ mark[current] \in {2, 3}
    /\ Settle(mark[current], chain)
    /\ steps' = steps + 1
    /\ UNCHANGED <<kind, target, pc, listing>>

\* The walk meets an article.
Article ==
    /\ pc = "walk"
    /\ start <= N
    /\ mark[current] = 0
    /\ current \notin Redirects
    /\ Settle(IF kind[current] = "html" THEN 3 ELSE 2, Append(chain, current))
    /\ steps' = steps + 1
    /\ UNCHANGED <<kind, target, pc, listing>>

\* The walk meets a redirect and follows it.
Follow ==
    /\ pc = "walk"
    /\ start <= N
    /\ mark[current] = 0
    /\ current \in Redirects
    /\ mark' = [mark EXCEPT ![current] = 1]
    /\ chain' = Append(chain, current)
    /\ current' = target[current]
    /\ steps' = steps + 1
    /\ UNCHANGED <<kind, target, pc, start, listing>>

\* Mutant: the main page redirect is listed as well.
ListMainPage ==
    /\ pc = "walk"
    /\ start > N
    /\ pc' = "done"
    /\ listing' = {i \in Entries : mark[i] = 3}
    /\ UNCHANGED <<kind, target, start, current, chain, mark, steps>>

\* The listing holds the eligible entries of the content namespace.
List ==
    /\ pc = "walk"
    /\ start > N
    /\ pc' = "done"
    /\ listing' = {i \in Entries : kind[i] # "page" /\ mark[i] = 3}
    /\ UNCHANGED <<kind, target, start, current, chain, mark, steps>>

Ended == pc \in {"done", "missing", "cycle"} /\ UNCHANGED vars

Next == Resolve \/ Cycle \/ Known \/ Article \/ Follow \/ List \/ Ended

Spec == Init /\ [][Next]_vars

FairSpec == Spec /\ WF_vars(Next)

----------------------------------------------------------------------------
(* Properties *)

\* Types; the walk never leaves the entries.
TypeOK ==
    /\ kind \in [Entries -> Kinds]
    /\ target \in [Entries -> 0 .. N]
    /\ pc \in {"resolve", "walk", "done", "missing", "cycle"}
    /\ start \in 1 .. N + 1
    /\ current \in 1 .. N + 1
    /\ chain \in Seq(Entries)
    /\ mark \in [Entries -> 0 .. 3]
    /\ listing \subseteq Entries
    /\ steps \in Nat

\* A nonempty set of redirects that no redirect leaves: a cycle and what
\* leads into it.
Closed(C) == C # {} /\ \A i \in C : target[i] \in C

HasCycle == \E C \in SUBSET Redirects : Closed(C)

\* A build is refused for a redirect cycle exactly if there is one, however
\* chains join and wherever the walk enters them.
CycleExact ==
    /\ pc = "cycle" => HasCycle
    /\ pc = "done" => ~HasCycle

\* The entry a chain of redirects ends at, hop by hop: Hop[n][i] is where n
\* hops from i lead.
Hop[n \in 0 .. N] ==
    IF n = 0 THEN [i \in Entries |-> i]
    ELSE [i \in Entries |-> LET j == Hop[n - 1][i]
                            IN IF j \in Redirects THEN target[j] ELSE j]

\* The title listing of a finished archive shows the HTML articles of the
\* content namespace and the redirects whose chain ends at one, nothing else.
ListingExact ==
    pc = "done" =>
      listing = {i \in Entries : kind[i] # "page" /\ kind[Hop[N][i]] = "html"}

\* What the walk has decided agrees along every redirect: a redirect is
\* eligible exactly if its target is, an article if it is HTML.
Agrees ==
    \A i \in Entries : mark[i] \in {2, 3} =>
      IF i \in Redirects THEN mark[target[i]] = mark[i]
      ELSE mark[i] = 3 <=> kind[i] = "html"

\* The walk is linear in the size of the directory, though chains are long
\* and shared: "without quadratic walks" (src/writer.rs:2533).
LinearWalk == steps <= 2 * N

\* The walk finds the cycles there are, in linear time.
WalkExact == CycleExact /\ LinearWalk
=============================================================================
