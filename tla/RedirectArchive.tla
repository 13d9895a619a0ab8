-------------------------- MODULE RedirectArchive --------------------------
(***************************************************************************)
(* The redirects of one directory, from the writer to its readers:          *)
(* Streamer::finalize resolves and walks them (RedirectListing), then       *)
(* readers follow them and zimcheck judges them (RedirectFollow).           *)
(*                                                                         *)
(* A directory the writer refuses may still be in the file of another        *)
(* writer, so the readers go on with it.  Entries count from 1 for the       *)
(* writer and from 0 for the readers.                                       *)
(***************************************************************************)
EXTENDS RedirectListing, Integers

CONSTANT MaxRedirects    \* MAX_REDIRECTS, 16

ASSUME MaxRedirectsAssumption == MaxRedirects \in Nat

VARIABLES sound, op, key, cur, hops, seen, visited, scanned, answer

written == vars
read == <<sound, op, key, cur, hops, seen, visited, scanned, answer>>

\* The directory as it is stored: a target that was not found is past its end.
Stored ==
    [i \in 0 .. N - 1 |->
       IF i + 1 \notin Redirects THEN -1
       ELSE IF target[i + 1] = 0 THEN N ELSE target[i + 1] - 1]

F == INSTANCE RedirectFollow WITH target <- Stored, start <- scanned

ArchiveInit == Init /\ F!Init

Finalized == pc \in {"done", "missing", "cycle"}

Finalize ==
    /\ Next
    /\ UNCHANGED read

Read ==
    /\ Finalized
    /\ UNCHANGED written
    /\ F!Next

Answering ==
    /\ UNCHANGED written
    /\ F!Work

ArchiveNext == Finalize \/ Read

\* The loops of finalize and of the readers run to their end: nothing in them
\* waits.
ArchiveSpec ==
    /\ ArchiveInit
    /\ [][ArchiveNext]_<<written, read>>
    /\ WF_written(Finalize)
    /\ WF_read(Answering)

----------------------------------------------------------------------------
(* Properties *)

\* check_integrity passes exactly the archives whose redirects all end at an
\* article, however long the chains, and says what is wrong with the others.
SoundExact == F!SoundExact

\* follow_loop and resolve say of every entry what its chain of redirects is,
\* resolve within MAX_REDIRECTS.
FollowExact == F!FollowExact

\* Where writer and readers agree, though each walks the graph in its own way,
\* with marks, a set, a counter or colours, and where they do not.  zimcheck
\* passes what finalize has accepted and refuses what finalize refuses; no
\* redirect of a finished archive leads nowhere.  A reader that arrives at the
\* end of a chain finds HTML there exactly if the title is in the listing.
\* Only resolve and get_item may not arrive, and only on a chain of more than
\* MAX_REDIRECTS redirects: it is listed for the article at its end all the
\* same, as finalize has no limit (src/writer.rs:2541), and the reader of that
\* title gets RedirectLoop (src/archive.rs:1493, 1512).
Agreement ==
    /\ pc = "done" => sound \in {"no", "ok"} /\ answer # "index"
    /\ pc = "cycle" => sound \in {"no", "loop"}
    /\ pc = "missing" => sound \in {"no", "index"}
    /\ pc = "done" /\ op = "idle" /\ answer = "entry" =>
         (key + 1 \in listing
            <=> kind[key + 1] # "page" /\ kind[cur + 1] = "html")
    /\ pc = "done" /\ op = "idle" /\ answer = "loop" =>
         /\ seen = {}
         /\ F!Chain(MaxRedirects, cur) /\ F!IsRedirect(cur)
         /\ key + 1 \in listing
              <=> kind[key + 1] # "page" /\ kind[Hop[N][key + 1]] = "html"

\* finalize comes to a verdict on every directory, and every call of a reader
\* ends on any graph.
Answered ==
    /\ <>Finalized
    /\ op # "idle" ~> op = "idle"
=============================================================================
