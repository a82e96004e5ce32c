---------------------------- MODULE MCSwldTapi ----------------------------
(* Small instances of the server: the commands and the bound of each run.  *)
EXTENDS SwldTapi

SessionCommands == {"open_context", "close_context", "open_session",
                    "close_session", "invoke"}

\* Regions are registered while few handles are issued: no handler looks at the
\* region list and at a session.
Bound == mgen = 0 \/ gen <= 3
=============================================================================
