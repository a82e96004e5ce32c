---------------------------- MODULE MCTapiSystem ----------------------------
(* Small instances of the whole system.                                    *)
EXTENDS TapiSystem, TLC

Symmetry == Permutations(Client)

SessionCommands == {"open_context", "close_context", "open_session",
                    "close_session", "invoke", "bad_header"}
AllCommands     == SessionCommands \cup {"register", "unregister", "disconnect"}

\* Bounds of the run on everything.  Three handles; a fourth for two clients that
\* have a context and a session each; once an answer about a handle is lost, two,
\* a third for two clients with one context each; and one with a region, a server
\* that stopped or a client of another context id.
Foreign(p)    == \E i \in 1..MaxIds : ids[p][i].cid \notin {SrvId, Drv!None}
HasContext(p) == proc[p] = "running" /\ {k \in 1..MaxConns : conn[p][k].used} = {1}
HasSession(p) == HasContext(p) /\ slot[p][1][1] # Drv!None

Bound ==
  /\ gen > 3 => \A p \in Client : HasSession(p)
  /\ torn # {} => gen <= 2 \/ (gen = 3 /\ \A p \in Client : HasContext(p))
  /\ mgen > 0 \/ srv # "running" \/ (\E p \in Client : Foreign(p)) => gen <= 1
=============================================================================
