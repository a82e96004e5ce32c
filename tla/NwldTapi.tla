------------------------------ MODULE NwldTapi ------------------------------
(***************************************************************************)
(* The normal world driver (nwld/sk_drv_nwld_tapi.c) as the ioctl layer of *)
(* the platforms calls it: the context ids it has a channel for, the       *)
(* connections (a server context each) and the sessions of a connection.   *)
(* The driver is linked into every client process, so each variable is a   *)
(* function of the process.                                                *)
(*                                                                         *)
(* A handler is two actions: what it does before the exchange with the     *)
(* server, and what it does with the answer.  The process waits in between *)
(* and other processes go on.  TAIDs, operations and the contents of       *)
(* memory regions are left out.                                            *)
(***************************************************************************)
EXTENDS Naturals, FiniteSets

CONSTANTS
  Client,     \* the processes
  ContextId,  \* the context ids callers name
  MaxIds,     \* SK_TAPI_MAX_CONTEXT_IDS
  MaxConns,   \* max_connections of sk_nwld_tapi_init
  MaxSlots,   \* max_sessions of sk_nwld_tapi_init
  Handle,     \* the handles the server can answer
  Region,     \* the memory ids a caller can name
  Logging,    \* the build logs errors (it does unless SYSV_NO_LOG is defined)
  MaxCount    \* bound of the model: the highest context_id_cnt

ASSUME DriverAssumption ==
  /\ MaxIds \in Nat \ {0}
  /\ MaxConns \in Nat \ {0}
  /\ MaxSlots \in Nat \ {0}
  /\ MaxCount \in Nat \ {0}
  /\ Handle \subseteq Nat \ {0}
  /\ Region \subseteq Nat
  /\ Logging \in BOOLEAN

None  == 0   \* the bytes of a slot that is not used
Ids   == 1..MaxIds
Conns == 1..MaxConns
Slots == 1..MaxSlots

VARIABLES
  proc,      \* proc[p]: what became of the process
  ids,       \* ids[p][i]: info[i], with the state of its channel
  numIds,    \* num_context_id
  conn,      \* conn[p][k]: clist[k]
  numConns,  \* num_connections
  slot,      \* slot[p][k][j]: the handle in clist[k].s[j], None if not used
  call       \* call[p]: the request the process waits for, or NoCall

tables == <<ids, numIds, conn, numConns, slot>>
dvars  == <<proc, tables, call>>

FreeId   == [used |-> FALSE, cid |-> None, cnt |-> 0, open |-> FALSE]
FreeConn == [used |-> FALSE, id |-> None, ctx |-> None, table |-> FALSE, num |-> 0]
NoCall   == [cmd |-> "none", id |-> None, k |-> None, j |-> None]

\* sk_nwld_tapi_init: the one session table goes to the first connection.
Init ==
  /\ proc     = [p \in Client |-> "running"]
  /\ ids      = [p \in Client |-> [i \in Ids |-> FreeId]]
  /\ numIds   = [p \in Client |-> 0]
  /\ conn     = [p \in Client |-> [k \in Conns |-> [FreeConn EXCEPT !.table = (k = 1)]]]
  /\ numConns = [p \in Client |-> 0]
  /\ slot     = [p \in Client |-> [k \in Conns |-> [j \in Slots |-> None]]]
  /\ call     = [p \in Client |-> NoCall]

-----------------------------------------------------------------------------
(* How a handler ends, and where it waits.                                 *)

Idle(p)    == proc[p] = "running" /\ call[p] = NoCall
Waiting(p) == proc[p] = "running" /\ call[p] # NoCall

Exchange(p, cmd, i, k, j) ==
  /\ call' = [call EXCEPT ![p] = [cmd |-> cmd, id |-> i, k |-> k, j |-> j]]
  /\ UNCHANGED proc

Return(p) == call' = [call EXCEPT ![p] = NoCall] /\ UNCHANGED proc

\* The handler returns an error: sk_nwld_platform_tapi_ioctl_proc logs it
\* through a null tapi, and the process dies of that.
GiveUp(p) ==
  /\ call' = [call EXCEPT ![p] = NoCall]
  /\ proc' = [proc EXCEPT ![p] = IF Logging THEN "crashed" ELSE "running"]

-----------------------------------------------------------------------------
(* Before the exchange.                                                    *)

\* i is the first used context id slot that holds cid.
FindId(p, cid, i) ==
  /\ i \in Ids
  /\ ids[p][i].used /\ ids[p][i].cid = cid
  /\ \A n \in Ids : n < i => ~(ids[p][n].used /\ ids[p][n].cid = cid)

NewId(p, cid) == \A i \in Ids : ~(ids[p][i].used /\ ids[p][i].cid = cid)

FirstFreeId(p, i) ==
  /\ i \in Ids
  /\ ~ids[p][i].used
  /\ \A n \in Ids : n < i => ids[p][n].used

\* sk_nwld_tapi_open_context up to the exchange.  ok: the platform opens the
\* channel of a new context id.  The count and the slot are taken first and
\* stay taken when that fails, or when a channel that is not open is used.
OpenContext(p, cid, ok) ==
  /\ Idle(p)
  /\ \/ \E i \in Ids :
          /\ FindId(p, cid, i)
          /\ ids[p][i].cnt < MaxCount
          /\ ids' = [ids EXCEPT ![p][i].cnt = @ + 1]
          /\ \/ ids[p][i].open /\ Exchange(p, "open_context", i, None, None)
             \/ ~ids[p][i].open /\ GiveUp(p)
          /\ UNCHANGED numIds
     \/ /\ NewId(p, cid)
        /\ numIds[p] < MaxIds
        /\ \E i \in Ids :
             /\ FirstFreeId(p, i)
             /\ ids' = [ids EXCEPT ![p][i] =
                  [used |-> TRUE, cid |-> cid, cnt |-> @.cnt + 1, open |-> ok]]
             /\ \/ ok /\ Exchange(p, "open_context", i, None, None)
                \/ ~ok /\ GiveUp(p)
        /\ numIds' = [numIds EXCEPT ![p] = @ + 1]
     \/ /\ NewId(p, cid)
        /\ numIds[p] >= MaxIds
        /\ GiveUp(p)
        /\ UNCHANGED <<ids, numIds>>
  /\ UNCHANGED <<conn, numConns, slot>>

UsedConn(p, k) == k \in Conns /\ conn[p][k].used

\* The requests on a context: sk_nwld_tapi_close_context, _open_session,
\* _register_memory and _unregister_memory up to the exchange.  m is the
\* memory id in the last one.
ContextRequest(p, cmd, k, m) ==
  /\ Idle(p)
  /\ \/ UsedConn(p, k) /\ Exchange(p, cmd, conn[p][k].id, k, m)
     \/ ~UsedConn(p, k) /\ GiveUp(p)
  /\ UNCHANGED tables

\* A bug: the used byte of the slot is not looked at.
AnySlot(p, k, j) == UsedConn(p, k) /\ j \in Slots /\ conn[p][k].table

\* max_sessions goes with the session table.
UsedSlot(p, k, j) ==
  /\ UsedConn(p, k)
  /\ j \in Slots /\ conn[p][k].table
  /\ slot[p][k][j] # None

\* The requests on a session: sk_nwld_tapi_close_session and _invoke_command
\* up to the exchange.
SessionRequest(p, cmd, k, j) ==
  /\ Idle(p)
  /\ \/ UsedSlot(p, k, j) /\ Exchange(p, cmd, conn[p][k].id, k, j)
     \/ ~UsedSlot(p, k, j) /\ GiveUp(p)
  /\ UNCHANGED tables

-----------------------------------------------------------------------------
(* After the exchange.                                                     *)

FirstFreeConn(p, k) ==
  /\ k \in Conns
  /\ ~conn[p][k].used
  /\ \A n \in Conns : n < k => conn[p][n].used

\* The server opened the context h.  The search for a free connection comes
\* last: when there is none, the context stays open in the server.
ContextOpened(p, h) ==
  /\ \/ /\ \A k \in Conns : conn[p][k].used
        /\ GiveUp(p)
        /\ UNCHANGED <<conn, numConns>>
     \/ /\ \E k \in Conns :
             /\ FirstFreeConn(p, k)
             /\ conn' = [conn EXCEPT ![p][k] =
                  [@ EXCEPT !.used = TRUE, !.id = call[p].id, !.ctx = h]]
        /\ numConns' = [numConns EXCEPT ![p] = @ + 1]
        /\ Return(p)
  /\ UNCHANGED <<ids, numIds, slot>>

\* A bug: the channel is shut as soon as one of its connections goes.
ReleaseIdAlways(p, i) ==
  /\ ids' = [ids EXCEPT ![p][i] = [FreeId EXCEPT !.cnt = ids[p][i].cnt - 1]]
  /\ numIds' = [numIds EXCEPT ![p] = @ - 1]

\* A bug: num_context_id is not counted down.
ReleaseIdUncounted(p, i) ==
  /\ ids' = [ids EXCEPT ![p][i] =
       IF @.cnt = 1 THEN FreeId ELSE [@ EXCEPT !.cnt = ids[p][i].cnt - 1]]
  /\ UNCHANGED numIds

\* A bug: the slot of the context id is freed and not zeroed.
ReleaseIdNotZeroed(p, i) ==
  /\ ids' = [ids EXCEPT ![p][i] =
       IF @.cnt = 1 THEN [@ EXCEPT !.used = FALSE, !.open = FALSE]
       ELSE [@ EXCEPT !.cnt = ids[p][i].cnt - 1]]
  /\ numIds' = [numIds EXCEPT ![p] = IF ids[p][i].cnt = 1 THEN @ - 1 ELSE @]

\* The count of a context id goes down; its channel is shut (which never
\* fails) and its slot is free when nobody is left.
ReleaseId(p, i) ==
  /\ ids' = [ids EXCEPT ![p][i] =
       IF @.cnt = 1 THEN FreeId ELSE [@ EXCEPT !.cnt = ids[p][i].cnt - 1]]
  /\ numIds' = [numIds EXCEPT ![p] = IF ids[p][i].cnt = 1 THEN @ - 1 ELSE @]

\* The server closed the context of connection k.  The connection is zeroed,
\* the pointer to its session table with it.
ContextClosed(p, k) ==
  /\ ReleaseId(p, conn[p][k].id)
  /\ numConns' = [numConns EXCEPT ![p] = @ - 1]
  /\ conn' = [conn EXCEPT ![p][k] = FreeConn]
  /\ slot' = [slot EXCEPT ![p][k] = [j \in Slots |-> None]]
  /\ Return(p)

FirstFreeSlot(p, k, j) ==
  /\ j \in Slots
  /\ slot[p][k][j] = None
  /\ \A n \in Slots : n < j => slot[p][k][n] # None

\* The server opened the session h.  A connection that lost its table fails an
\* assertion; with a full table the session stays open in the server.
SessionOpened(p, k, h) ==
  /\ \/ /\ ~conn[p][k].table
        /\ proc' = [proc EXCEPT ![p] = "no_table"]
        /\ call' = [call EXCEPT ![p] = NoCall]
        /\ UNCHANGED <<conn, slot>>
     \/ /\ conn[p][k].table
        /\ \A j \in Slots : slot[p][k][j] # None
        /\ GiveUp(p)
        /\ UNCHANGED <<conn, slot>>
     \/ /\ conn[p][k].table
        /\ \E j \in Slots :
             /\ FirstFreeSlot(p, k, j)
             /\ slot' = [slot EXCEPT ![p][k][j] = h]
        /\ conn' = [conn EXCEPT ![p][k].num = @ + 1]
        /\ Return(p)
  /\ UNCHANGED <<ids, numIds, numConns>>

\* A bug: the slot stays in use.
SessionClosedKeepSlot(p, k, j) ==
  /\ conn' = [conn EXCEPT ![p][k].num = @ - 1]
  /\ Return(p)
  /\ UNCHANGED <<ids, numIds, numConns, slot>>

\* The server closed the session in slot j.
SessionClosed(p, k, j) ==
  /\ conn' = [conn EXCEPT ![p][k].num = @ - 1]
  /\ slot' = [slot EXCEPT ![p][k][j] = None]
  /\ Return(p)
  /\ UNCHANGED <<ids, numIds, numConns>>

\* The answer to process p: the command it names, whether its status is
\* success, and the handle in it.  The platforms' open_memory and close_memory
\* do nothing and never fail.
Receive(p, cmd, ok, h) ==
  /\ Waiting(p)
  /\ \/ /\ cmd # call[p].cmd \/ ~ok
        /\ GiveUp(p)
        /\ UNCHANGED tables
     \/ /\ cmd = call[p].cmd
        /\ ok
        /\ \/ cmd = "open_context"  /\ ContextOpened(p, h)
           \/ cmd = "close_context" /\ ContextClosed(p, call[p].k)
           \/ cmd = "open_session"  /\ SessionOpened(p, call[p].k, h)
           \/ cmd = "close_session" /\ SessionClosed(p, call[p].k, call[p].j)
           \/ /\ cmd \in {"invoke", "register", "unregister"}
              /\ Return(p)
              /\ UNCHANGED tables

\* sk_nwld_platform_comm_proc or the unpacking of its answer fails.  What the
\* server did is done.
ExchangeFails(p) == Waiting(p) /\ GiveUp(p) /\ UNCHANGED tables

\* The process is killed, with a request on the way or not.
Die(p) ==
  /\ proc[p] = "running"
  /\ proc' = [proc EXCEPT ![p] = "crashed"]
  /\ call' = [call EXCEPT ![p] = NoCall]
  /\ UNCHANGED tables

ContextCommands == {"close_context", "open_session", "register", "unregister"}
SessionCommands == {"close_session", "invoke"}

\* The caller keeps connection and slot numbers and may use any, its own or not.
Request(p) ==
  \/ \E cid \in ContextId, ok \in BOOLEAN : OpenContext(p, cid, ok)
  \/ \E cmd \in ContextCommands \ {"unregister"}, k \in 1..(MaxConns + 1) :
       ContextRequest(p, cmd, k, None)
  \/ \E k \in 1..(MaxConns + 1), m \in Region : ContextRequest(p, "unregister", k, m)
  \/ \E cmd \in SessionCommands, k \in 1..(MaxConns + 1), j \in 1..(MaxSlots + 1) :
       SessionRequest(p, cmd, k, j)

Answer(p) ==
  \/ \E cmd \in {"open_context", "system"} \cup ContextCommands \cup SessionCommands,
        ok \in BOOLEAN, h \in Handle : Receive(p, cmd, ok, h)
  \/ ExchangeFails(p)

Next == \E p \in Client :
          \/ Idle(p) /\ Request(p)
          \/ Waiting(p) /\ Answer(p)
          \/ Die(p)

Spec == Init /\ [][Next]_dvars
-----------------------------------------------------------------------------
(* Properties.                                                             *)

CallNames == {"none", "open_context"} \cup ContextCommands \cup SessionCommands

UsedIds(p)      == {i \in Ids : ids[p][i].used}
UsedConns(p)    == {k \in Conns : conn[p][k].used}
UsedSlots(p, k) == {j \in Slots : slot[p][k][j] # None}
ConnsOn(p, i)   == {k \in UsedConns(p) : conn[p][k].id = i}

\* The three counters the handlers assert on and refuse by agree with the
\* tables they count, so no SYSV_ASSERT on a counter of sk_drv_nwld_tapi.c
\* fails (lines 266, 553, 561, 844) and no slot is refused while one is free.
CountersMatchTables ==
  \A p \in Client :
    /\ numIds[p] = Cardinality(UsedIds(p))
    /\ numConns[p] = Cardinality(UsedConns(p))
    /\ \A k \in Conns : conn[p][k].num = Cardinality(UsedSlots(p, k))

\* The context id in use is unique: each id has one channel and one count.
IdsDistinct(p) ==
  \A i, n \in UsedIds(p) : ids[p][i].cid = ids[p][n].cid => i = n

\* A connection in use is on a context id in use whose channel is open, and
\* that id's count covers its connections and the open_context on the way:
\* closing one connection never shuts the channel under another (line 534
\* counts down what line 264 or 307 counted up in a call that may have failed).
ChannelOutlivesConnections ==
  \A p \in Client :
    /\ IdsDistinct(p)
    /\ \A k \in UsedConns(p) : conn[p][k].id \in UsedIds(p) /\ ids[p][conn[p][k].id].open
    /\ \A i \in Ids :
         Cardinality(ConnsOn(p, i))
           + (IF call[p].cmd = "open_context" /\ call[p].id = i THEN 1 ELSE 0)
         <= ids[p][i].cnt

\* A process waits only for a request on an object that is still in its
\* tables, so what it does with the answer reaches what it asked about.
WaitsOnLiveObject ==
  \A p \in Client : Waiting(p) =>
    /\ ids[p][call[p].id].used /\ ids[p][call[p].id].open
    /\ call[p].cmd # "open_context" =>
         call[p].k \in UsedConns(p) /\ conn[p][call[p].k].id = call[p].id
    /\ call[p].cmd \in SessionCommands => call[p].j \in UsedSlots(p, call[p].k)

\* sk_drv_nwld_tapi.c:91 asserts that the connection a session was opened on
\* has a session table (a RELEASE build, which has no assertions, returns an
\* error here and leaves the session open in the server).
SessionTableThere == \A p \in Client : proc[p] # "no_table"
=============================================================================
