---------------------------- MODULE TeeSessions ----------------------------
(***************************************************************************)
(* What the secure world promises a client about handles, without tables,  *)
(* slots or lists: a session belongs to the one context it was opened      *)
(* with, only that context ends it, a context is there for as long as it   *)
(* has sessions, and a handle is never issued twice.  A session whose TApp *)
(* failed to start is a session too: nobody was told its handle.           *)
(***************************************************************************)
CONSTANT Handle  \* everything a handle can be

VARIABLES
  contexts,  \* handles of the open contexts
  sessions,  \* pairs <<session handle, handle of its context>>
  issued     \* every handle ever issued

tvars == <<contexts, sessions, issued>>

Init ==
  /\ contexts = {}
  /\ sessions = {}
  /\ issued = {}

\* SKTEEC_OpenContext answered with the fresh handle ch.
OpenContext(ch) ==
  /\ ch \notin issued
  /\ issued' = issued \cup {ch}
  /\ contexts' = contexts \cup {ch}
  /\ UNCHANGED sessions

\* SKTEEC_CloseContext: only a context without sessions goes away.
CloseContext(ch) ==
  /\ ch \in contexts
  /\ \A p \in sessions : p[2] # ch
  /\ contexts' = contexts \ {ch}
  /\ UNCHANGED <<sessions, issued>>

\* SKTEEC_OpenSession in the open context ch.
OpenSession(ch, sh) ==
  /\ ch \in contexts
  /\ sh \notin issued
  /\ issued' = issued \cup {sh}
  /\ sessions' = sessions \cup {<<sh, ch>>}
  /\ UNCHANGED contexts

\* SKTEEC_CloseSession through the context the session was opened with.
CloseSession(ch, sh) ==
  /\ <<sh, ch>> \in sessions
  /\ sessions' = sessions \ {<<sh, ch>>}
  /\ UNCHANGED <<contexts, issued>>

Next ==
  \/ \E ch \in Handle : OpenContext(ch)
  \/ \E ch \in contexts : CloseContext(ch)
  \/ \E ch \in contexts, sh \in Handle : OpenSession(ch, sh)
  \/ \E p \in sessions : CloseSession(p[2], p[1])

Spec == Init /\ [][Next]_tvars
=============================================================================
