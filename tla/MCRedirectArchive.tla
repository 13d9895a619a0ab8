-------------------------- MODULE MCRedirectArchive --------------------------
(* Instance of RedirectArchive for TLC. *)
EXTENDS RedirectArchive

\* W/mainPage sorts behind the content.
PageLast == \A i \in Entries : kind[i] = "page" => i = N
=============================================================================
