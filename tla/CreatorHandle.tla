---------------------------- MODULE CreatorHandle ----------------------------
(***************************************************************************)
(* The writer as a C program sees it: the zimru_creator_* functions of      *)
(* src/cffi/creator.rs, each of which wraps a call of Creator (StreamWriter *)
(* has those) and answers true or false.  The handle owns the Creator until *)
(* write_to or finish_writing takes it out; a panic of the Creator cannot   *)
(* leave an extern "C" function and ends the process.                       *)
(*                                                                         *)
(* A C client cannot state an exact size (size_hint is dropped), so that    *)
(* its chunked items are all buffered and no thread is ever to be joined.   *)
(***************************************************************************)
EXTENDS StreamWriter

VARIABLES
  handle,   \* "live" | "consumed" (inner is None) | "freed" | "aborted"
  call,     \* the call that is still running:
            \*   "none" | "write" | "finish" | "drop"
  ret,      \* what the last call answered: "none" | "true" | "false"
  told,     \* history: keys whose add was answered with true
  warned    \* history: a call answered false since the pipeline failed

hvars == <<handle, call, ret, told, warned>>
all == <<vars, hvars>>

HandleInit ==
    /\ Init
    /\ handle = "live"          \* zimru_creator_new
    /\ call = "none"
    /\ ret = "none"
    /\ told = {}
    /\ warned = FALSE

\* inner_mut finds a Creator.
Live == handle = "live" /\ call = "none"

\* The call returns; ks are the keys it was to add.
Answer(yes, ks) ==
    /\ ret' = IF yes THEN "true" ELSE "false"
    /\ told' = IF yes THEN told \cup ks ELSE told
    /\ warned' = (warned \/ (~yes /\ s'.pipe = "lost"))
    /\ UNCHANGED <<handle, call>>

Abort ==
    /\ handle' = "aborted"
    /\ call' = "none"
    /\ UNCHANGED <<ret, told, warned>>

AnswerOrAbort(yes, ks) ==
    IF why' = "panic" THEN Abort ELSE Answer(yes, ks)

----------------------------------------------------------------------------
(* Calls that return at once *)

\* add_item, add_item_in_namespace
CallAddItem(it) ==
    /\ Live
    /\ AddItem(it)
    /\ AnswerOrAbort(it.key \in keys', {it.key})

\* add_redirection, add_alias
CallAddRedirection(p, target) ==
    Live /\ AddRedirection(p, target) /\ Answer(TRUE, {p})

\* add_metadata, add_illustration
CallAddMetadata(name, n) ==
    Live /\ AddMetadata(name, n) /\ Answer(TRUE, {name})

CallSetMainPath(p) == Live /\ SetMainPath(p) /\ Answer(TRUE, {MainPage})

CallStartWriting ==
    /\ Live
    /\ \/ StartWriting /\ Answer(TRUE, {})
       \/ (OpenFails \/ DrainFails) /\ Answer(FALSE, {})

CallBeginItem(it) == Live /\ BeginBuffered(it, {}) /\ Answer(TRUE, {})

CallItemChunk(n) == Live /\ Chunk(n) /\ Answer(TRUE, {})

\* The item is in, or it is gone.
CallEndItem ==
    /\ Live
    /\ EndBuffered
    /\ \E f \in inflight : AnswerOrAbort(f.key \in accepted', {f.key})

\* Calls that are answered before the Creator is touched.  In every state
\* there are some that are refused: any call on a consumed handle, the key of
\* an entry that is there, start_writing twice, finish_writing or an item call
\* before it, begin_item with an item in flight, an argument that is NULL or
\* not UTF-8.  An empty chunk is answered with true, whatever the handle.
CallWithoutEffect ==
    /\ handle \in {"live", "consumed"}
    /\ call = "none"
    /\ ret' \in {"true", "false"}
    /\ UNCHANGED <<vars, handle, call, told, warned>>

----------------------------------------------------------------------------
(* Calls that take the Creator *)

Take(c) ==
    /\ Live
    /\ handle' = "consumed"
    /\ call' = c
    /\ UNCHANGED <<vars, ret, told, warned>>

\* finish_writing looks before it takes.
CallFinishWriting == mode = "streaming" /\ Take("finish")

\* write_to takes the Creator, started or not.
CallWriteTo == Take(IF mode = "streaming" THEN "finish" ELSE "write")

CallFree ==
    /\ handle \in {"live", "consumed"}
    /\ call = "none"
    /\ handle' = "freed"
    /\ call' = IF handle = "live" THEN "drop" ELSE "none"
    /\ UNCHANGED <<vars, ret, told, warned>>

\* Creator::write_to on buffered work: start_writing, then as finish_writing.
WriteStarts ==
    /\ call = "write"
    /\ StartWriting
    /\ call' = "finish"
    /\ UNCHANGED <<handle, ret, told, warned>>

\* It consumes the Creator, also when it cannot start.
WriteCannotStart ==
    /\ call = "write"
    /\ OpenFails \/ DrainFails
    /\ call' = "drop"
    /\ UNCHANGED <<handle, ret, told, warned>>

Finishing ==
    /\ call = "finish"
    /\ FinishWriting \/ FinishInFlight \/ Finalize
    /\ IF why' = "panic" THEN Abort ELSE UNCHANGED hvars

Dropping ==
    /\ call = "drop"
    /\ DropCreator \/ Dropped
    /\ UNCHANGED hvars

Return ==
    /\ call \in {"finish", "drop"}
    /\ mode \in Ended
    /\ call' = "none"
    /\ ret' = IF mode = "done" THEN "true" ELSE "false"
    /\ UNCHANGED <<vars, handle, told, warned>>

----------------------------------------------------------------------------
ClientCall ==
    \/ \E it \in Item : CallAddItem(it)
    \/ \E p, t \in Paths : CallAddRedirection(p, t)
    \/ \E name \in MetaNames, n \in Sizes : CallAddMetadata(name, n)
    \/ \E p \in Paths : CallSetMainPath(p)
    \/ CallStartWriting
    \/ \E k \in Paths \cup OtherKeys, m \in Mimes : CallBeginItem([key |-> k, mime |-> m])
    \/ \E n \in ChunkSizes : CallItemChunk(n)
    \/ CallEndItem
    \/ CallWithoutEffect
    \/ CallFinishWriting \/ CallWriteTo \/ CallFree

Running == WriteStarts \/ WriteCannotStart \/ Finishing \/ Dropping \/ Return

\* The client is done, or its process is.
Over == handle \in {"freed", "aborted"} /\ call = "none" /\ UNCHANGED all

HandleNext == ClientCall \/ Running \/ Over

HandleSpec == HandleInit /\ [][HandleNext]_all

----------------------------------------------------------------------------
(* Properties *)

\* What the C client was told is what is in the file: an entry is in the
\* finished archive exactly if the call that was to add it (end_item of a
\* chunked one) answered true, or finalize generates it, whatever calls were
\* refused or failed on the way.
ToldExact ==
    mode = "done" /\ ~startFailed =>
      \A k \in AllKeys : InArchive(k) <=> k \in told \cup {Counter, Listing}

\* The process is never ended out of the blue: "maps it onto the documented
\* `false` + `*err` contract" (src/cffi/creator.rs:277).  Only a client that
\* goes on after a call has reported the failure of the pipeline is aborted.
AbortsForetold == handle = "aborted" => warned
=============================================================================
