------------------------------ MODULE Exchange ------------------------------
(***************************************************************************)
(* What the channel between the worlds promises: the server has one        *)
(* request at a time, and its answer goes to the process that asked before *)
(* the server takes another request.  A call can also fail at any time.    *)
(***************************************************************************)
CONSTANT Client

VARIABLE phase  \* phase[p]: where the call of p is

Init == phase = [p \in Client |-> "idle"]

\* p enters sk_nwld_platform_comm_proc.
Ask(p) == phase[p] = "idle" /\ phase' = [phase EXCEPT ![p] = "asked"]

\* The server handles the request of p, with no answer on the way.
Serve(p) ==
  /\ phase[p] = "asked"
  /\ \A q \in Client : phase[q] # "served"
  /\ phase' = [phase EXCEPT ![p] = "served"]

\* p has its answer.
Return(p) == phase[p] = "served" /\ phase' = [phase EXCEPT ![p] = "idle"]

\* p gives up or is gone.
Fail(p) == phase[p] # "idle" /\ phase' = [phase EXCEPT ![p] = "idle"]

Next == \E p \in Client : Ask(p) \/ Serve(p) \/ Return(p) \/ Fail(p)

Spec == Init /\ [][Next]_phase
=============================================================================
