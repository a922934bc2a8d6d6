----------------------------- MODULE ExportStore -----------------------------
(***************************************************************************)
(* What the exported session of an account promises to the commands that   *)
(* use it, without the way it is done: a save replaces it at once by a     *)
(* whole session, a delete removes it, and nothing else touches it - until *)
(* two saves have been under way at once, after which nothing is promised. *)
(* SessionExport implements this specification.                            *)
(***************************************************************************)
CONSTANTS
  Whole,     \* the sessions that are saved
  NoExport   \* there is no exported session

VARIABLES
  export,    \* the exported session, or NoExport
  apart      \* no two saves have been under way at once

storeVars == <<export, apart>>

Init ==
  /\ export = NoExport
  /\ apart = TRUE

Save(session) == session \in Whole /\ export' = session

Delete == export' = NoExport

\* A save begins while another one is under way: from here on the export may be
\* anything.
Mix == apart' = FALSE

Next ==
  \/ /\ (\E session \in Whole : Save(session)) \/ Delete
     /\ UNCHANGED apart
  \/ Mix

Spec == Init /\ [][Next]_storeVars
=============================================================================
