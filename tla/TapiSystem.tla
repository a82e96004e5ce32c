----------------------------- MODULE TapiSystem -----------------------------
(***************************************************************************)
(* The whole path of a request: client processes with their drivers        *)
(* (NwldTapi), the device or socket between the worlds, and the server     *)
(* (SwldTapi).  sk_nwld_platform_comm_proc locks the device, writes the    *)
(* request, waits for the answer and unlocks, so there is at most one      *)
(* request in the server and one answer on the way.                        *)
(*                                                                         *)
(* The channel is that lock and that answer here; how requests and answers *)
(* are cut into fields is the subject of TapiComm.                         *)
(***************************************************************************)
EXTENDS Naturals, FiniteSets

CONSTANTS
  Client, ContextId, MaxIds, MaxConns, MaxSlots, Logging, MaxCount,
  MaxContexts, MaxSessions, MaxHandles, MaxRegions,
  SrvId,     \* the context id sk_swld_tapi_init was given
  Commands,  \* the requests clients make in this instance
  Faults     \* what goes wrong in this instance, see AllFaults

\* A channel that does not open, an exchange that fails before the server has
\* the request or after, a process that is killed, a server whose receive
\* fails (over TCP, because the client of its one connection is gone).
AllFaults == {"open", "request", "answer", "die", "stop"}

ASSUME SystemAssumption ==
  /\ {MaxIds, MaxConns, MaxSlots, MaxCount} \subseteq Nat \ {0}
  /\ {MaxContexts, MaxSessions, MaxHandles} \subseteq Nat \ {0}
  /\ MaxRegions \in Nat
  /\ Logging \in BOOLEAN
  /\ Commands \subseteq {"open_context", "close_context", "open_session", "close_session",
                         "invoke", "register", "unregister", "check", "bad_header", "disconnect"}
  /\ Faults \subseteq AllFaults
  /\ "bad_header" \in Commands   \* a caller may name any context id
  /\ "stop" \in Faults => "disconnect" \in Commands
  /\ "nobody" \notin Client

VARIABLES
  proc, ids, numIds, conn, numConns, slot, call,  \* the drivers, see NwldTapi
  srv, cactive, chandle, cstart, cnum, numC,      \* the server, see SwldTapi
  sactive, shandle, snext, sprev, tapp, numS, owner,
  mhead, mnext, mprev, mcount, mlive, mgen,
  gen, resp, givenC, givenS,
  chan, \* the answer on the way to the process that holds the lock, or Quiet
  torn  \* history: the handles opened or closed in an answer that got lost

Drv == INSTANCE NwldTapi WITH Handle <- 1..MaxHandles, Region <- 1..MaxRegions
Srv == INSTANCE SwldTapi

drvVars == <<proc, ids, numIds, conn, numConns, slot, call>>
srvVars == <<srv, cactive, chandle, cstart, cnum, numC, sactive, shandle, snext,
             sprev, tapp, numS, owner, mhead, mnext, mprev, mcount, mlive, mgen,
             gen, resp, givenC, givenS>>
vars    == <<drvVars, srvVars, chan, torn>>

Channel == INSTANCE Exchange WITH
  phase <- [p \in Client |-> IF ~Drv!Waiting(p) THEN "idle"
                             ELSE IF chan.to = p THEN "served" ELSE "asked"]

Quiet == [to |-> "nobody", cmd |-> "none", ok |-> FALSE, h |-> Drv!None]

Init == Drv!Init /\ Srv!Init /\ chan = Quiet /\ torn = {}

-----------------------------------------------------------------------------

\* Bound of the model: every open_context or open_session on the way can still
\* be given a handle.
Opening == {p \in Client : call[p].cmd \in {"open_context", "open_session"}}
HandlesLeft == gen + Cardinality(Opening) < MaxHandles

\* A client calls the driver, with any connection and session number.
Request(p) ==
  /\ \/ /\ "open_context" \in Commands
        /\ HandlesLeft
        /\ \E cid \in ContextId, ok \in (IF "open" \in Faults THEN BOOLEAN ELSE {TRUE}) :
             Drv!OpenContext(p, cid, ok)
     \/ \E cmd \in Drv!ContextCommands \cap Commands, k \in 1..MaxConns :
          /\ cmd = "open_session" => HandlesLeft
          /\ cmd # "unregister"
          /\ Drv!ContextRequest(p, cmd, k, Drv!None)
     \/ \E k \in 1..MaxConns, m \in 1..mgen :
          /\ "unregister" \in Commands
          /\ Drv!ContextRequest(p, "unregister", k, m)
     \/ \E cmd \in Drv!SessionCommands \cap Commands, k \in 1..MaxConns, j \in 1..MaxSlots :
          Drv!SessionRequest(p, cmd, k, j)
  /\ UNCHANGED <<srvVars, chan, torn>>

\* A bug: the two handles are swapped.
ContextOfSlot(p) == slot[p][call[p].k][1]

\* A bug: the session handle comes from the first slot.
SessionOfFirst(p) == slot[p][call[p].k][1]

\* The handles process p puts into its request.
ContextOf(p) == conn[p][call[p].k].ctx
SessionOf(p) == slot[p][call[p].k][call[p].j]

\* sk_swld_tapi_process on the request of process p.
Process(p) ==
  LET cmd == call[p].cmd IN
  \/ ids[p][call[p].id].cid # SrvId /\ Srv!BadHeader
  \/ /\ ids[p][call[p].id].cid = SrvId
     /\ \/ cmd = "open_context" /\ Srv!OpenContext(TRUE)
        \/ cmd = "close_context" /\ Srv!CloseContext(ContextOf(p))
        \/ /\ cmd = "open_session"
           /\ \E out \in Srv!LoadOutcome : Srv!OpenSession(ContextOf(p), out)
        \/ cmd = "close_session" /\ Srv!CloseSession(ContextOf(p), SessionOf(p))
        \/ /\ cmd = "invoke"
           /\ \E st \in {"SUCCESS", "TAPP_CALL", "TAPP_TIMEOUT"} :
                Srv!InvokeCommand(ContextOf(p), SessionOf(p), st)
        \/ /\ cmd = "register"
           /\ \E ok \in BOOLEAN : Srv!RegisterMemory(ContextOf(p), ok)
        \/ /\ cmd = "unregister"
           /\ \E ok \in BOOLEAN : Srv!UnregisterMemory(ContextOf(p), call[p].j, ok)

\* A bug: the device is not locked.
ServeUnlocked(p) ==
  /\ Drv!Waiting(p)
  /\ chan.to # p
  /\ Process(p)
  /\ chan' = IF srv' = "running"
             THEN [to |-> p, cmd |-> resp'.cmd, ok |-> resp'.status = "SUCCESS",
                   h |-> IF resp'.cmd = "open_context" THEN resp'.ch ELSE resp'.sh]
             ELSE Quiet
  /\ UNCHANGED <<drvVars, torn>>

\* Process p gets the lock and writes its request; the server handles it and
\* answers, unless it stopped.
Serve(p) ==
  /\ Drv!Waiting(p)
  /\ chan = Quiet
  /\ Process(p)
  /\ chan' = IF srv' = "running"
             THEN [to |-> p, cmd |-> resp'.cmd, ok |-> resp'.status = "SUCCESS",
                   h |-> IF resp'.cmd = "open_context" THEN resp'.ch ELSE resp'.sh]
             ELSE Quiet
  /\ UNCHANGED <<drvVars, torn>>

\* A bug: the status in the answer is not looked at.
DeliverUnchecked(p) ==
  /\ chan.to = p
  /\ Drv!Receive(p, chan.cmd, TRUE, chan.h)
  /\ chan' = Quiet
  /\ UNCHANGED <<srvVars, torn>>

\* The process reads its answer and unlocks the device.
Deliver(p) ==
  /\ chan.to = p
  /\ Drv!Receive(p, chan.cmd, chan.ok, chan.h)
  /\ chan' = Quiet
  /\ UNCHANGED <<srvVars, torn>>

-----------------------------------------------------------------------------
(* What goes wrong.                                                        *)

\* A bug: a client gives up although the server has its request.
ExchangeFailsLate(p) ==
  /\ "request" \in Faults
  /\ Drv!ExchangeFails(p)
  /\ UNCHANGED <<srvVars, chan, torn>>

\* The handle that the answer on the way to process p reports open or closed.
Changed(p) ==
  IF chan.to # p \/ ~chan.ok THEN {}
  ELSE CASE chan.cmd \in {"open_context", "open_session"} -> {chan.h}
         [] chan.cmd = "close_context" -> {ContextOf(p)}
         [] chan.cmd = "close_session" -> {SessionOf(p)}
         [] OTHER -> {}

\* comm_proc fails: before the server has the request, because the server is
\* gone, or in the middle of the answer.
ExchangeFails(p) ==
  /\ \/ chan.to # p /\ ("request" \in Faults \/ srv # "running")
     \/ chan.to = p /\ "answer" \in Faults
  /\ Drv!ExchangeFails(p)
  /\ chan' = IF chan.to = p THEN Quiet ELSE chan
  /\ torn' = torn \cup Changed(p)
  /\ UNCHANGED srvVars

Die(p) ==
  /\ "die" \in Faults
  /\ Drv!Die(p)
  /\ chan' = IF chan.to = p THEN Quiet ELSE chan
  /\ UNCHANGED <<srvVars, torn>>

\* The server leaves its loop; an answer it wrote before can still be read.
ServerStops ==
  /\ "stop" \in Faults
  /\ Srv!Disconnect
  /\ UNCHANGED <<drvVars, chan, torn>>

Next ==
  \/ \E p \in Client :
       Request(p) \/ Serve(p) \/ Deliver(p) \/ ExchangeFails(p) \/ Die(p)
  \/ ServerStops

Spec == Init /\ [][Next]_vars
-----------------------------------------------------------------------------
(* Properties.                                                             *)

\* The server has closed what process p asked it to close, and p does not know
\* yet.
ClosedAt(p, cmd) == chan.to = p /\ call[p].cmd = cmd

ContextHeld(p, k) ==
  /\ proc[p] = "running"
  /\ conn[p][k].used
  /\ conn[p][k].ctx \notin torn
  /\ ~(ClosedAt(p, "close_context") /\ call[p].k = k)

SessionHeld(p, k, j) ==
  /\ ContextHeld(p, k)
  /\ slot[p][k][j] \notin torn \cup {Drv!None}
  /\ ~(ClosedAt(p, "close_session") /\ call[p].k = k /\ call[p].j = j)

\* tapi.c:726 and its like assert that a context or a session a client names
\* is active, tapi.c:759 that there is a context to count down: a handle of a
\* freed slot, which the search still finds, never comes out of a driver.
HandlesSentAreActive == srv \notin {"assert_active", "assert_count"}

\* What a driver holds, the server has: each connection in use stands for an
\* active context, each session slot in use for a session of that context
\* whose TApp is up.  Both sides update their tables, on either side of the
\* exchange, and the server's are shared with the other processes.  A lost answer
\* costs what it was about and nothing else.
DriverAgreesWithServer ==
  HandlesSentAreActive => \A p \in Client, k \in 1..MaxConns :
    /\ ContextHeld(p, k) => conn[p][k].ctx \in Srv!OpenContexts
    /\ \A j \in 1..MaxSlots : SessionHeld(p, k, j) =>
         \E s \in Srv!Sess : /\ sactive[s] /\ tapp[s] = "up"
                             /\ shandle[s] = slot[p][k][j]
                             /\ owner[s] = conn[p][k].ctx

\* No two connections of any processes share a context, and no two slots share
\* a session: a process cannot reach or close what another one opened.
NothingShared ==
  \A p, q \in Client, k, n \in 1..MaxConns :
    ContextHeld(p, k) /\ ContextHeld(q, n) =>
      /\ conn[p][k].ctx = conn[q][n].ctx => p = q /\ k = n
      /\ \A j, i \in 1..MaxSlots :
           /\ SessionHeld(p, k, j) /\ SessionHeld(q, n, i)
           /\ slot[p][k][j] = slot[q][n][i]
           => p = q /\ k = n /\ j = i

\* The answer on the way is the answer to what its receiver asked.
AnswerFitsRequest ==
  chan # Quiet => /\ chan.to \in Client
                  /\ Drv!Waiting(chan.to)
                  /\ call[chan.to].cmd = chan.cmd

HandlesSent(p) ==
  CASE call[p].cmd \in Drv!ContextCommands -> {ContextOf(p)}
    [] call[p].cmd \in Drv!SessionCommands -> {ContextOf(p), SessionOf(p)}
    [] OTHER -> {}

\* No driver sends such a handle on its own: the request that trips the assertion
\* on it names a context or a session whose close the server answered and the
\* client did not hear of.  The count of contexts can be closed below 0 by another
\* client then, for a close that is tried again is counted twice when sessions kept
\* the context in its slot.
OnlyTornClosesAssert ==
  [][srv = "running" =>
       /\ srv' = "assert_active" =>
            \E p \in Client : Serve(p) /\ HandlesSent(p) \cap torn # {}
       /\ srv' = "assert_count" => torn # {}]_vars

\* The server sees only requests SwldTapi allows for, in particular only
\* handles clients were given, so what is proved of SwldTapi holds here.
\* The stutter of Srv!Spec is tried first.
ServerSpec == Srv!Init /\ [][UNCHANGED srvVars \/ Srv!Next]_srvVars

\* The drivers see only answers NwldTapi allows for.
DriverSpec == Drv!Init /\ [][UNCHANGED drvVars \/ Drv!Next]_drvVars

\* The channel here keeps the promise of Exchange, which TapiComm shows of the
\* fields the platforms write and read.
ExchangeSpec == Channel!Spec
=============================================================================
