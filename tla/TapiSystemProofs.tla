-------------------------- MODULE TapiSystemProofs --------------------------
(***************************************************************************)
(* Proofs about the whole system, for every number of clients, tables and  *)
(* handles.  What is proved of the driver and of the server by themselves  *)
(* is used here: the system is shown to run both as their specifications   *)
(* say, and their invariants are then invariants of the system.            *)
(***************************************************************************)
EXTENDS TapiSystem, FiniteSetTheorems, TLAPS

DrvP == INSTANCE NwldTapiProofs WITH Handle <- 1..MaxHandles, Region <- 1..MaxRegions
SrvP == INSTANCE SwldTapiProofs

None  == Drv!None
Conns == 1..MaxConns
Slots == 1..MaxSlots

\* A good answer to cmd is on the way to process p.
Good(p, cmd) == chan.to = p /\ chan.ok /\ chan.cmd = cmd

\* A process waits for the answer on the way, and a good one to an open holds
\* a handle that was given out.
OnWay ==
  chan # Quiet =>
    /\ chan.to \in Client /\ Drv!Waiting(chan.to) /\ call[chan.to].cmd = chan.cmd
    /\ chan.ok \in BOOLEAN
    /\ chan.ok /\ chan.cmd = "open_context" => chan.h \in givenC
    /\ chan.ok /\ chan.cmd = "open_session" => chan.h \in givenS

\* What a process holds and asks is what it was given, and a connection that is
\* not in use holds nothing.
Given(p) ==
  /\ \A k \in Conns :
       /\ conn[p][k].used => conn[p][k].ctx \in givenC
       /\ \A j \in Slots : slot[p][k][j] # None => conn[p][k].used /\ slot[p][k][j] \in givenS
  /\ call[p].cmd \in Commands \cup {"none"}
  /\ call[p].cmd = "unregister" => call[p].j \in 1..mgen

\* No handle is in two places, be their processes alive or not.
Distinct ==
  /\ \A p, q \in Client, k, n \in Conns :
       /\ conn[p][k].used /\ conn[q][n].used /\ conn[p][k].ctx = conn[q][n].ctx
            => p = q /\ k = n
       /\ \A j, i \in Slots :
            slot[p][k][j] # None /\ slot[p][k][j] = slot[q][n][i] => p = q /\ k = n /\ j = i
  /\ \A p, q \in Client, k \in Conns :
       /\ Good(p, "open_context") /\ conn[q][k].used => conn[q][k].ctx # chan.h
       /\ Good(p, "open_session") => \A j \in Slots : slot[q][k][j] # chan.h

\* As ContextHeld and SessionHeld, but for a close that was refused.
HasContext(p, k) ==
  /\ proc[p] = "running" /\ conn[p][k].used /\ conn[p][k].ctx \notin torn
  /\ ~(Good(p, "close_context") /\ call[p].k = k)

HasSession(p, k, j) ==
  /\ HasContext(p, k) /\ slot[p][k][j] \notin torn \cup {None}
  /\ ~(Good(p, "close_session") /\ call[p].k = k /\ call[p].j = j)

\* What a process has, the server has, and so it is with a good answer.
Agree ==
  \A p \in Client :
    /\ \A k \in Conns :
         /\ HasContext(p, k) => conn[p][k].ctx \in SrvP!OpenContexts
         /\ \A j \in Slots : HasSession(p, k, j) =>
              <<slot[p][k][j], conn[p][k].ctx>> \in SrvP!UpSessions
    /\ Good(p, "open_context") => chan.h \in SrvP!OpenContexts
    /\ Good(p, "open_session") => <<chan.h, ContextOf(p)>> \in SrvP!UpSessions

\* The contexts the server counts for a process that runs.
Counted ==
  {h \in givenC :
     \E p \in Client :
       \/ Good(p, "open_context") /\ h = chan.h
       \/ \E k \in Conns : /\ proc[p] = "running" /\ conn[p][k].used /\ conn[p][k].ctx = h
                           /\ ~(Good(p, "close_context") /\ call[p].k = k)}

\* What relates the two sides.
Matched ==
  /\ OnWay
  /\ \A p \in Client : Given(p)
  /\ Distinct
  /\ HandlesSentAreActive => Agree
  /\ torn = {} => Cardinality(Counted) <= numC

SysInv == DrvP!IInv /\ SrvP!IInv /\ gen <= MaxHandles /\ Matched

-----------------------------------------------------------------------------
(* The parts: what their proofs assume of the constants, and that a step   *)
(* of the specification proved about is a step of the one the system uses. *)

LEMMA Parameters == DrvP!DriverAssumption /\ SrvP!BoundsAssumption
BY SystemAssumption DEF DrvP!DriverAssumption, SrvP!BoundsAssumption, SrvP!AllCommands

LEMMA SameServer ==
  /\ Srv!Init <=> SrvP!Init
  /\ Srv!Next => SrvP!Next
  /\ \A same : Srv!OpenContext(same) => SrvP!OpenContext(same)
  /\ \A ch : Srv!CloseContext(ch) => SrvP!CloseContext(ch)
  /\ \A ch, out : Srv!OpenSession(ch, out) => SrvP!OpenSession(ch, out)
  /\ \A ch, sh : Srv!CloseSession(ch, sh) => SrvP!CloseSession(ch, sh)
  /\ \A ch, sh, st : Srv!InvokeCommand(ch, sh, st) => SrvP!InvokeCommand(ch, sh, st)
  /\ \A ch, ok : Srv!RegisterMemory(ch, ok) => SrvP!RegisterMemory(ch, ok)
  /\ \A ch, m, ok : Srv!UnregisterMemory(ch, m, ok) => SrvP!UnregisterMemory(ch, m, ok)
  /\ Srv!BadHeader => SrvP!BadHeader
  /\ Srv!Disconnect => SrvP!Disconnect
  /\ Srv!LoadOutcome = SrvP!LoadOutcome
  /\ Srv!OpenContexts = SrvP!OpenContexts
<1> USE DEF Srv!None, SrvP!None, Srv!Ctx, SrvP!Ctx, Srv!Sess, SrvP!Sess, Srv!Region, SrvP!Region,
            Srv!Reply, SrvP!Reply, Srv!Answer, SrvP!Answer, Srv!Stop, SrvP!Stop,
            Srv!NoAnswer, SrvP!NoAnswer, Srv!Unchanged, SrvP!Unchanged,
            Srv!Refuse, SrvP!Refuse, Srv!StopAsIs, SrvP!StopAsIs,
            Srv!cvars, SrvP!cvars, Srv!svars, SrvP!svars, Srv!mvars, SrvP!mvars,
            Srv!gvars, SrvP!gvars, Srv!Unknown, SrvP!Unknown, Srv!FindHandle, SrvP!FindHandle,
            Srv!FirstFree, SrvP!FirstFree, Srv!NextHandle, SrvP!NextHandle,
            Srv!Attached, SrvP!Attached, Srv!MAttached, SrvP!MAttached
<1>1. Srv!Init <=> SrvP!Init
  BY DEF Srv!Init, SrvP!Init
<1>2. \A same : Srv!OpenContext(same) => SrvP!OpenContext(same)
  BY DEF Srv!OpenContext, SrvP!OpenContext
<1>3. \A ch : Srv!CloseContext(ch) => SrvP!CloseContext(ch)
  BY DEF Srv!CloseContext, SrvP!CloseContext, Srv!RemoveContext, SrvP!RemoveContext
<1>4. \A ch, out : Srv!OpenSession(ch, out) => SrvP!OpenSession(ch, out)
  BY DEF Srv!OpenSession, SrvP!OpenSession, Srv!AppendSession, SrvP!AppendSession
<1>5. \A cmd, ch, sh : Srv!NotFound(cmd, ch, sh) => SrvP!NotFound(cmd, ch, sh)
  BY DEF Srv!NotFound, SrvP!NotFound
<1>6. \A ch, sh, c, s : Srv!Found(ch, sh, c, s) => SrvP!Found(ch, sh, c, s)
  BY DEF Srv!Found, SrvP!Found
<1>7. \A c, s : Srv!RemoveSession(c, s) => SrvP!RemoveSession(c, s)
  BY DEF Srv!RemoveSession, SrvP!RemoveSession, Srv!UnlinkSession, SrvP!UnlinkSession
<1>8. \A ch, sh : Srv!CloseSession(ch, sh) => SrvP!CloseSession(ch, sh)
  BY <1>5, <1>6, <1>7 DEF Srv!CloseSession, SrvP!CloseSession
<1>9. \A ch, sh, st : Srv!InvokeCommand(ch, sh, st) => SrvP!InvokeCommand(ch, sh, st)
  BY <1>5, <1>6 DEF Srv!InvokeCommand, SrvP!InvokeCommand
<1>10. \A ch, ok : Srv!RegisterMemory(ch, ok) => SrvP!RegisterMemory(ch, ok)
  BY DEF Srv!RegisterMemory, SrvP!RegisterMemory
<1>11. \A ch, m, ok : Srv!UnregisterMemory(ch, m, ok) => SrvP!UnregisterMemory(ch, m, ok)
  BY DEF Srv!UnregisterMemory, SrvP!UnregisterMemory, Srv!UnlinkRegion, SrvP!UnlinkRegion
<1>12. (Srv!BadHeader => SrvP!BadHeader) /\ (Srv!Disconnect => SrvP!Disconnect)
  BY DEF Srv!BadHeader, SrvP!BadHeader, Srv!Disconnect, SrvP!Disconnect
<1>13. Srv!LoadOutcome = SrvP!LoadOutcome /\ Srv!OpenContexts = SrvP!OpenContexts
  BY DEF Srv!LoadOutcome, SrvP!LoadOutcome, Srv!OpenContexts, SrvP!OpenContexts
<1>14. Srv!Check => SrvP!Check
  BY DEF Srv!Check, SrvP!Check
<1>15. Srv!Next => SrvP!Next
  BY <1>2, <1>3, <1>4, <1>8, <1>9, <1>10, <1>11, <1>12, <1>13, <1>14 DEF Srv!Next, SrvP!Next
<1> QED
  BY <1>1, <1>2, <1>3, <1>4, <1>8, <1>9, <1>10, <1>11, <1>12, <1>13, <1>15

LEMMA SameDriver ==
  /\ Drv!Init <=> DrvP!Init
  /\ Drv!Next => DrvP!Next
<1> USE DEF Drv!None, DrvP!None, Drv!Ids, DrvP!Ids, Drv!Conns, DrvP!Conns, Drv!Slots, DrvP!Slots,
            Drv!FreeId, DrvP!FreeId, Drv!FreeConn, DrvP!FreeConn, Drv!NoCall, DrvP!NoCall,
            Drv!Idle, DrvP!Idle, Drv!Waiting, DrvP!Waiting, Drv!Exchange, DrvP!Exchange,
            Drv!Return, DrvP!Return, Drv!GiveUp, DrvP!GiveUp, Drv!tables, DrvP!tables,
            Drv!UsedConn, DrvP!UsedConn, Drv!UsedSlot, DrvP!UsedSlot,
            Drv!ContextCommands, DrvP!ContextCommands, Drv!SessionCommands, DrvP!SessionCommands
<1>1. Drv!Init <=> DrvP!Init
  BY DEF Drv!Init, DrvP!Init
<1>2. \A p, cid, ok : Drv!OpenContext(p, cid, ok) => DrvP!OpenContext(p, cid, ok)
  BY SMTT(20) DEF Drv!OpenContext, DrvP!OpenContext, Drv!FindId, DrvP!FindId, Drv!NewId, DrvP!NewId,
         Drv!FirstFreeId, DrvP!FirstFreeId
<1>3. \A p, cmd, k, m : Drv!ContextRequest(p, cmd, k, m) => DrvP!ContextRequest(p, cmd, k, m)
  BY DEF Drv!ContextRequest, DrvP!ContextRequest
<1>4. \A p, cmd, k, j : Drv!SessionRequest(p, cmd, k, j) => DrvP!SessionRequest(p, cmd, k, j)
  BY DEF Drv!SessionRequest, DrvP!SessionRequest
<1>5. \A p : Drv!Request(p) => DrvP!Request(p)
  BY <1>2, <1>3, <1>4 DEF Drv!Request, DrvP!Request
<1>6. \A p, h : Drv!ContextOpened(p, h) => DrvP!ContextOpened(p, h)
  BY DEF Drv!ContextOpened, DrvP!ContextOpened, Drv!FirstFreeConn, DrvP!FirstFreeConn
<1>7. \A p, k : Drv!ContextClosed(p, k) => DrvP!ContextClosed(p, k)
  BY DEF Drv!ContextClosed, DrvP!ContextClosed, Drv!ReleaseId, DrvP!ReleaseId
<1>8. \A p, k, h : Drv!SessionOpened(p, k, h) => DrvP!SessionOpened(p, k, h)
  BY DEF Drv!SessionOpened, DrvP!SessionOpened, Drv!FirstFreeSlot, DrvP!FirstFreeSlot
<1>9. \A p, k, j : Drv!SessionClosed(p, k, j) => DrvP!SessionClosed(p, k, j)
  BY DEF Drv!SessionClosed, DrvP!SessionClosed
<1>10. \A p, cmd, ok, h : Drv!Receive(p, cmd, ok, h) => DrvP!Receive(p, cmd, ok, h)
  BY <1>6, <1>7, <1>8, <1>9 DEF Drv!Receive, DrvP!Receive
<1>11. \A p : Drv!Answer(p) => DrvP!Answer(p)
  BY <1>10 DEF Drv!Answer, DrvP!Answer, Drv!ExchangeFails, DrvP!ExchangeFails
<1>12. \A p : Drv!Die(p) => DrvP!Die(p)
  BY DEF Drv!Die, DrvP!Die
<1> QED
  BY <1>1, <1>5, <1>11, <1>12 DEF Drv!Next, DrvP!Next

-----------------------------------------------------------------------------
(* The drivers and the server run as their specifications say.             *)

\* The types of the drivers' tables.
LEMMA DriverTypes ==
  ASSUME DrvP!IInv
  PROVE  /\ proc \in [Client -> {"running", "crashed", "no_table"}]
         /\ conn \in [Client -> [Conns -> DrvP!ConnRow]]
         /\ slot \in [Client -> [Conns -> [Slots -> (1..MaxHandles) \cup {None}]]]
         /\ call \in [Client -> DrvP!CallRow]
BY DEF DrvP!IInv, DrvP!Typed, DrvP!Conns, DrvP!Slots, DrvP!None, Drv!None, Conns, Slots, None

\* What a process that waits has asked about is in its tables.
LEMMA WaitsOnLive ==
  ASSUME DrvP!IInv, NEW p \in Client, Drv!Waiting(p)
  PROVE  /\ call[p].cmd \in {"open_context"} \cup Drv!ContextCommands \cup Drv!SessionCommands
         /\ call[p].cmd # "open_context" => call[p].k \in Conns /\ conn[p][call[p].k].used
         /\ call[p].cmd \in Drv!SessionCommands =>
              call[p].j \in Slots /\ slot[p][call[p].k][call[p].j] # None
<1>1. DrvP!Waiting(p) /\ call[p] # DrvP!NoCall
  BY DEF Drv!Waiting, DrvP!Waiting, Drv!NoCall, DrvP!NoCall, Drv!None, DrvP!None
<1>2. DrvP!Live(p) /\ DrvP!Called(p) /\ call[p] \in DrvP!CallRow
  BY DriverTypes DEF DrvP!IInv, DrvP!DriverInv
<1>3. call[p].cmd \in DrvP!CallNames /\ call[p].cmd # "none"
  BY <1>1, <1>2 DEF DrvP!Called, DrvP!CallRow
<1> QED
  BY <1>1, <1>2, <1>3
  DEF DrvP!Live, DrvP!UsedConns, DrvP!UsedSlots, DrvP!Conns, DrvP!Slots, DrvP!CallNames,
      Drv!ContextCommands, DrvP!ContextCommands, Drv!SessionCommands, DrvP!SessionCommands,
      DrvP!None, Drv!None, Conns, Slots, None

\* What a process that waits has put into its request.
LEMMA AsksWithGiven ==
  ASSUME DrvP!IInv, NEW p \in Client, Given(p), Drv!Waiting(p)
  PROVE  /\ call[p].cmd \in Commands
         /\ call[p].cmd # "open_context" => ContextOf(p) \in givenC
         /\ call[p].cmd \in Drv!SessionCommands => SessionOf(p) \in givenS
         /\ call[p].cmd = "unregister" => call[p].j \in 1..mgen
BY WaitsOnLive DEF Given, ContextOf, SessionOf, Drv!ContextCommands, Drv!SessionCommands

\* The requests the server gets are those SwldTapi allows for.
LEMMA ServesAsSpecified ==
  ASSUME DrvP!IInv, NEW p \in Client, Given(p), Drv!Waiting(p), Process(p)
  PROVE  Srv!Next
<1>1. CASE Srv!BadHeader
  BY <1>1, SystemAssumption DEF Srv!Next
<1>2. CASE call[p].cmd = "open_context" /\ Srv!OpenContext(TRUE)
  BY <1>2, AsksWithGiven DEF Srv!Next
<1>3. CASE call[p].cmd = "close_context" /\ Srv!CloseContext(ContextOf(p))
  BY <1>3, AsksWithGiven DEF Srv!Next
<1>4. CASE call[p].cmd = "open_session" /\ \E out \in Srv!LoadOutcome : Srv!OpenSession(ContextOf(p), out)
  BY <1>4, AsksWithGiven DEF Srv!Next
<1>5. CASE call[p].cmd = "close_session" /\ Srv!CloseSession(ContextOf(p), SessionOf(p))
  BY <1>5, AsksWithGiven DEF Srv!Next, Drv!SessionCommands
<1>6. CASE call[p].cmd = "invoke"
           /\ \E st \in {"SUCCESS", "TAPP_CALL", "TAPP_TIMEOUT"} :
                Srv!InvokeCommand(ContextOf(p), SessionOf(p), st)
  BY <1>6, AsksWithGiven DEF Srv!Next, Drv!SessionCommands
<1>7. CASE call[p].cmd = "register" /\ \E ok \in BOOLEAN : Srv!RegisterMemory(ContextOf(p), ok)
  BY <1>7, AsksWithGiven DEF Srv!Next
<1>8. CASE call[p].cmd = "unregister"
           /\ \E ok \in BOOLEAN : Srv!UnregisterMemory(ContextOf(p), call[p].j, ok)
  BY <1>8, AsksWithGiven DEF Srv!Next
<1> QED
  BY <1>1, <1>2, <1>3, <1>4, <1>5, <1>6, <1>7, <1>8 DEF Process

LEMMA RequestsAsSpecified ==
  ASSUME SrvP!IInv, NEW p \in Client, Request(p)
  PROVE  Drv!Next
<1>1. mgen \in 0..MaxRegions
  BY DEF SrvP!IInv, SrvP!TypeMemory
<1>2. Drv!Idle(p)
  BY DEF Request, Drv!OpenContext, Drv!ContextRequest, Drv!SessionRequest
<1>3. Conns \subseteq 1..(MaxConns + 1) /\ Slots \subseteq 1..(MaxSlots + 1)
      /\ 1..mgen \subseteq 1..MaxRegions
  BY <1>1, SystemAssumption DEF Conns, Slots
<1>4. Drv!Request(p)
  <2>1. CASE \E cid \in ContextId, ok \in BOOLEAN : Drv!OpenContext(p, cid, ok)
    BY <2>1 DEF Drv!Request
  <2>2. CASE \E cmd \in Drv!ContextCommands, k \in Conns :
               cmd # "unregister" /\ Drv!ContextRequest(p, cmd, k, Drv!None)
    BY <1>3, <2>2 DEF Drv!Request
  <2>3. CASE \E k \in Conns, m \in 1..mgen : Drv!ContextRequest(p, "unregister", k, m)
    BY <1>3, <2>3 DEF Drv!Request
  <2>4. CASE \E cmd \in Drv!SessionCommands, k \in Conns, j \in Slots :
               Drv!SessionRequest(p, cmd, k, j)
    BY <1>3, <2>4 DEF Drv!Request
  <2> QED
    BY <2>1, <2>2, <2>3, <2>4 DEF Request, Conns, Slots
<1> QED
  BY <1>2, <1>4 DEF Drv!Next

\* The answers the drivers get are those NwldTapi allows for.  The handle in an
\* answer that is not a good one to an open is not looked at.
LEMMA AnswersAsSpecified ==
  ASSUME DrvP!IInv, SrvP!IInv, gen <= MaxHandles, OnWay, NEW p \in Client, Deliver(p)
  PROVE  Drv!Next
<1>1. Drv!Waiting(p) /\ Drv!Receive(p, chan.cmd, chan.ok, chan.h) /\ chan.to = p
  BY DEF Deliver, Drv!Receive
<1>2. chan # Quiet
  BY <1>1, SystemAssumption DEF Quiet
<1>3. chan.ok \in BOOLEAN /\ chan.cmd = call[p].cmd
  BY <1>1, <1>2 DEF OnWay
<1>4. chan.cmd \in {"open_context", "system"} \cup Drv!ContextCommands \cup Drv!SessionCommands
  BY <1>1, <1>3, WaitsOnLive
<1>5. 1 \in 1..MaxHandles
  BY SystemAssumption
<1>6. givenC \subseteq 1..MaxHandles /\ givenS \subseteq 1..MaxHandles
  BY SystemAssumption
  DEF SrvP!IInv, SrvP!TablesInv, SrvP!HandlesDrawn, SrvP!TypeTables
<1>7. \E h \in 1..MaxHandles : Drv!Receive(p, chan.cmd, chan.ok, h)
  <2>1. CASE chan.ok /\ chan.cmd \in {"open_context", "open_session"}
    BY <1>1, <1>2, <1>6, <2>1 DEF OnWay
  <2>2. CASE ~(chan.ok /\ chan.cmd \in {"open_context", "open_session"})
    <3>1. Drv!Receive(p, chan.cmd, chan.ok, 1)
      BY <1>1, <2>2 DEF Drv!Receive
    <3> QED
      BY <1>5, <3>1
  <2> QED
    BY <2>1, <2>2
<1>8. Drv!Answer(p)
  BY <1>3, <1>4, <1>7 DEF Drv!Answer
<1> QED
  BY <1>1, <1>8 DEF Drv!Next

\* A step of the system is a step of each part, or the part does nothing.
LEMMA DriverSteps ==
  ASSUME DrvP!IInv, SrvP!IInv, gen <= MaxHandles, OnWay, [Next]_vars
  PROVE  UNCHANGED drvVars \/ Drv!Next
<1>1. ASSUME NEW p \in Client, ExchangeFails(p) PROVE Drv!Next
  BY <1>1 DEF ExchangeFails, Drv!ExchangeFails, Drv!Answer, Drv!Next
<1>2. ASSUME NEW p \in Client, Die(p) PROVE Drv!Next
  BY <1>2 DEF Die, Drv!Next
<1> QED
  BY <1>1, <1>2, RequestsAsSpecified, AnswersAsSpecified DEF Next, Serve, ServerStops, vars

LEMMA ServerSteps ==
  ASSUME DrvP!IInv, \A p \in Client : Given(p), [Next]_vars
  PROVE  UNCHANGED srvVars \/ Srv!Next
<1>1. ASSUME NEW p \in Client, Serve(p) PROVE Srv!Next
  BY <1>1, ServesAsSpecified DEF Serve
<1>2. ASSUME ServerStops PROVE Srv!Next
  BY <1>2, SystemAssumption DEF ServerStops, Srv!Next
<1> QED
  BY <1>1, <1>2 DEF Next, Request, Deliver, ExchangeFails, Die, vars

\* So what their proofs show of each part by itself goes on holding.
LEMMA PartsKeep ==
  ASSUME DrvP!IInv, SrvP!IInv, gen <= MaxHandles, OnWay, \A p \in Client : Given(p), [Next]_vars
  PROVE  DrvP!IInv' /\ SrvP!IInv'
<1>1. [DrvP!Next]_(DrvP!dvars)
  BY DriverSteps, SameDriver DEF drvVars, DrvP!dvars, DrvP!tables
<1>2. [SrvP!Next]_(SrvP!vars)
  BY ServerSteps, SameServer
  DEF srvVars, SrvP!vars, SrvP!cvars, SrvP!svars, SrvP!mvars, SrvP!gvars
<1> QED
  BY <1>1, <1>2, Parameters, DrvP!NextKeeps, SrvP!NextKeeps

-----------------------------------------------------------------------------
(* Steps that neither open nor close anything.                             *)

\* What is counted was given out, and that is finite.
LEMMA CountedFinite ==
  ASSUME SrvP!IInv
  PROVE  IsFiniteSet(Counted) /\ Cardinality(Counted) \in Nat
<1>1. gen \in Nat /\ givenC \subseteq 1..gen
  BY DEF SrvP!IInv, SrvP!TablesInv, SrvP!TypeTables, SrvP!HandlesDrawn
<1>2. IsFiniteSet(1..gen)
  BY <1>1, FS_Interval
<1>3. Counted \subseteq 1..gen
  BY <1>1 DEF Counted
<1> QED
  BY <1>2, <1>3, FS_Subset, FS_CardinalityType

\* A good answer is on the way to a process that waits for it.
LEMMA GoodIsAwaited ==
  ASSUME OnWay, NEW p \in Client, NEW cmd, Good(p, cmd)
  PROVE  chan # Quiet /\ Drv!Waiting(p) /\ call[p].cmd = cmd
BY DEF OnWay, Good, Quiet

LEMMA NobodyIsNoClient == Quiet.to \notin Client
BY SystemAssumption DEF Quiet

\* Fewer things held and on the way, the same things in the server.
LEMMA LessKeeps ==
  ASSUME Matched, SrvP!IInv, SrvP!IInv',
         HandlesSentAreActive' => /\ HandlesSentAreActive
                                  /\ SrvP!OpenContexts \subseteq SrvP!OpenContexts'
                                  /\ SrvP!UpSessions \subseteq SrvP!UpSessions',
         numC' = numC, torn \subseteq torn',
         UNCHANGED <<conn, slot>>,
         \A p \in Client, k \in Conns :
           /\ HasContext(p, k)' => HasContext(p, k)
           /\ \A j \in Slots : HasSession(p, k, j)' => HasSession(p, k, j),
         \A p \in Client, cmd \in {"open_context", "open_session"} :
           Good(p, cmd)' => Good(p, cmd) /\ chan'.h = chan.h /\ call'[p] = call[p],
         torn' = {} => Counted' \subseteq Counted
  PROVE  /\ Distinct' /\ (HandlesSentAreActive => Agree)'
         /\ (torn = {} => Cardinality(Counted) <= numC)'
<1>1. Distinct'
  BY DEF Matched, Distinct
<1>2. ASSUME HandlesSentAreActive' PROVE Agree'
  <2>1. /\ Agree
        /\ SrvP!OpenContexts \subseteq SrvP!OpenContexts' /\ SrvP!UpSessions \subseteq SrvP!UpSessions'
    BY <1>2 DEF Matched
  <2>2. ASSUME NEW p \in Client, Good(p, "open_context")' PROVE chan'.h \in SrvP!OpenContexts'
    BY <2>1, <2>2 DEF Agree
  <2>3. ASSUME NEW p \in Client, Good(p, "open_session")'
        PROVE  <<chan'.h, ContextOf(p)'>> \in SrvP!UpSessions'
    <3>1. ContextOf(p)' = ContextOf(p) /\ chan'.h = chan.h /\ Good(p, "open_session")
      BY <2>3 DEF ContextOf
    <3> QED
      BY <2>1, <3>1 DEF Agree
  <2> QED
    BY <2>1, <2>2, <2>3 DEF Agree
<1>3. ASSUME torn' = {} PROVE Cardinality(Counted') <= numC'
  <2>1. Cardinality(Counted) <= numC /\ Counted' \subseteq Counted
    BY <1>3 DEF Matched
  <2>2. Cardinality(Counted') <= Cardinality(Counted)
    BY <2>1, CountedFinite, FS_Subset
  <2>3. Cardinality(Counted) \in Nat /\ Cardinality(Counted') \in Nat
    BY CountedFinite, <2>1, FS_Subset, FS_CardinalityType
  <2>4. numC \in Nat
    BY DEF SrvP!IInv, SrvP!TablesInv, SrvP!TypeTables
  <2> QED
    BY <2>1, <2>2, <2>3, <2>4
<1> QED
  BY <1>1, <1>2, <1>3

\* Process p makes a request, or it is told nothing new, gives up or is gone: a
\* close it does not hear of tears what it closed.
Fades(p) ==
  /\ UNCHANGED <<conn, slot, srvVars>>
  /\ \A q \in Client \ {p} : proc'[q] = proc[q] /\ call'[q] = call[q]
  /\ proc[p] = "running" /\ torn \subseteq torn'
  /\ call'[p].cmd \in Commands \cup {"none"} /\ (call'[p].cmd = "unregister" => call'[p].j \in 1..mgen)
  /\ \/ chan' = chan /\ chan.to # p
     \/ /\ chan' = Quiet /\ chan.to = p
        /\ proc'[p] = "running" /\ Good(p, "close_context") => ContextOf(p) \in torn'
        /\ proc'[p] = "running" /\ Good(p, "close_session") => SessionOf(p) \in torn'

LEMMA FadesKeeps ==
  ASSUME Matched, SrvP!IInv, SrvP!IInv', NEW p \in Client, Fades(p)
  PROVE  Matched'
<1>1. /\ SrvP!OpenContexts' = SrvP!OpenContexts /\ SrvP!UpSessions' = SrvP!UpSessions
      /\ numC' = numC /\ givenC' = givenC /\ givenS' = givenS /\ mgen' = mgen
      /\ HandlesSentAreActive' = HandlesSentAreActive
  BY DEF Fades, srvVars, SrvP!OpenContexts, SrvP!UpSessions, HandlesSentAreActive
<1>2. OnWay'
  <2>1. CASE chan' = Quiet
    BY <2>1 DEF OnWay, Quiet
  <2>2. CASE chan' = chan /\ chan.to # p
    BY <1>1, <2>2 DEF Fades, OnWay, Matched, Quiet, Drv!Waiting, Drv!None
  <2> QED
    BY <2>1, <2>2 DEF Fades
<1>3. \A q \in Client : Given(q)'
  BY <1>1 DEF Fades, Given, Matched
<1>4. \A q \in Client : \A cmd : Good(q, cmd)' => Good(q, cmd) /\ chan'.h = chan.h /\ call'[q] = call[q]
  BY NobodyIsNoClient DEF Fades, Good
<1>5. ASSUME NEW q \in Client, NEW k \in Conns
      PROVE  /\ HasContext(q, k)' => HasContext(q, k)
             /\ \A j \in Slots : HasSession(q, k, j)' => HasSession(q, k, j)
  <2>1. CASE q # p
    <3>1. proc'[q] = proc[q] /\ call'[q] = call[q] /\ (chan'.to = q <=> chan.to = q)
          /\ (chan.to = q => chan' = chan)
      BY <2>1, NobodyIsNoClient DEF Fades
    <3> QED
      BY <3>1 DEF Fades, HasContext, HasSession, Good
  <2>2. CASE q = p
    <3>1. proc'[q] = "running" => proc[q] = "running"
      BY <2>2 DEF Fades
    <3>2. CASE chan.to # p
      BY <2>2, <3>1, <3>2 DEF Fades, HasContext, HasSession, Good
    <3>3. CASE chan.to = p
      BY <2>2, <3>1, <3>3 DEF Fades, HasContext, HasSession, ContextOf, SessionOf
    <3> QED
      BY <3>2, <3>3
  <2> QED
    BY <2>1, <2>2
<1>6. ASSUME torn' = {} PROVE Counted' \subseteq Counted
  <2>1. ASSUME NEW q \in Client, NEW k \in Conns,
               proc'[q] = "running", ~(Good(q, "close_context")' /\ call'[q].k = k)
        PROVE  proc[q] = "running" /\ ~(Good(q, "close_context") /\ call[q].k = k)
    <3>1. CASE q # p
      BY <2>1, <3>1, NobodyIsNoClient DEF Fades, Good
    <3>2. CASE q = p
      BY <1>6, <2>1, <3>2 DEF Fades, Good
    <3> QED
      BY <3>1, <3>2
  <2> QED
    BY <1>1, <1>4, <2>1 DEF Fades, Counted
<1>7. torn \subseteq torn' /\ UNCHANGED <<conn, slot>>
  BY DEF Fades
<1> QED
  BY <1>1, <1>2, <1>3, <1>4, <1>5, <1>6, <1>7, LessKeeps DEF Matched

LEMMA RequestFades ==
  ASSUME DrvP!IInv, Matched, NEW p \in Client, Request(p)
  PROVE  Fades(p)
<1> USE DEF Drv!Exchange, Drv!GiveUp, Drv!NoCall, Drv!None
<1>1. proc[p] = "running" /\ call[p] = Drv!NoCall
  BY DEF Request, Drv!OpenContext, Drv!ContextRequest, Drv!SessionRequest, Drv!Idle
<1>2. chan' = chan /\ chan.to # p /\ torn' = torn /\ UNCHANGED srvVars
  BY <1>1, NobodyIsNoClient DEF Request, Matched, OnWay, Drv!Waiting, Quiet
<1>3. call \in [Client -> DrvP!CallRow] /\ proc \in [Client -> {"running", "crashed", "no_table"}]
  BY DriverTypes
<1>4. UNCHANGED <<conn, slot>>
  BY DEF Request, Drv!OpenContext, Drv!ContextRequest, Drv!SessionRequest, Drv!tables
<1>5. ASSUME NEW cmd, NEW i, NEW k, NEW j, cmd \in Commands, cmd = "unregister" => j \in 1..mgen,
             Drv!Exchange(p, cmd, i, k, j)
      PROVE  /\ \A q \in Client \ {p} : proc'[q] = proc[q] /\ call'[q] = call[q]
             /\ call'[p].cmd \in Commands \cup {"none"}
             /\ call'[p].cmd = "unregister" => call'[p].j \in 1..mgen
  BY <1>3, <1>5
<1>6. ASSUME Drv!GiveUp(p)
      PROVE  /\ \A q \in Client \ {p} : proc'[q] = proc[q] /\ call'[q] = call[q]
             /\ call'[p].cmd \in Commands \cup {"none"}
             /\ call'[p].cmd = "unregister" => call'[p].j \in 1..mgen
  BY <1>3, <1>6
<1>7. \/ Drv!GiveUp(p)
      \/ \E cmd \in Commands : \E i, k, j :
           (cmd = "unregister" => j \in 1..mgen) /\ Drv!Exchange(p, cmd, i, k, j)
  <2>1. ASSUME "open_context" \in Commands, NEW cid, NEW ok, Drv!OpenContext(p, cid, ok)
        PROVE  \/ Drv!GiveUp(p)
               \/ \E i : "open_context" \in Commands /\ Drv!Exchange(p, "open_context", i, 0, 0)
    BY <2>1 DEF Drv!OpenContext
  <2>2. ASSUME NEW cmd \in Commands, NEW k, NEW m, Drv!ContextRequest(p, cmd, k, m)
        PROVE  Drv!GiveUp(p) \/ \E i : Drv!Exchange(p, cmd, i, k, m)
    BY <2>2 DEF Drv!ContextRequest
  <2>3. ASSUME NEW cmd \in Drv!SessionCommands \cap Commands, NEW k, NEW j,
               Drv!SessionRequest(p, cmd, k, j)
        PROVE  cmd # "unregister" /\ (Drv!GiveUp(p) \/ \E i : Drv!Exchange(p, cmd, i, k, j))
    BY <2>3 DEF Drv!SessionRequest, Drv!SessionCommands
  <2>4. CASE \E cid \in ContextId, ok \in BOOLEAN :
               "open_context" \in Commands /\ Drv!OpenContext(p, cid, ok)
    BY <2>1, <2>4
  <2>5. CASE \E cmd \in Drv!ContextCommands \cap Commands, k \in 1..MaxConns :
               cmd # "unregister" /\ Drv!ContextRequest(p, cmd, k, Drv!None)
    BY <2>2, <2>5
  <2>6. CASE \E k \in 1..MaxConns, m \in 1..mgen :
               "unregister" \in Commands /\ Drv!ContextRequest(p, "unregister", k, m)
    BY <2>2, <2>6
  <2>7. CASE \E cmd \in Drv!SessionCommands \cap Commands, k \in 1..MaxConns, j \in 1..MaxSlots :
               Drv!SessionRequest(p, cmd, k, j)
    BY <2>3, <2>7
  <2> QED
    BY <2>4, <2>5, <2>6, <2>7 DEF Request
<1>8. /\ \A q \in Client \ {p} : proc'[q] = proc[q] /\ call'[q] = call[q]
      /\ call'[p].cmd \in Commands \cup {"none"}
      /\ call'[p].cmd = "unregister" => call'[p].j \in 1..mgen
  BY <1>5, <1>6, <1>7
<1> QED
  BY <1>1, <1>2, <1>4, <1>8 DEF Fades

LEMMA GivesUp ==
  ASSUME DrvP!IInv, NEW p \in Client, Drv!GiveUp(p) \/ Drv!Return(p) \/ Drv!Die(p),
         proc[p] = "running"
  PROVE  /\ \A q \in Client \ {p} : proc'[q] = proc[q] /\ call'[q] = call[q]
         /\ call'[p].cmd \in Commands \cup {"none"}
         /\ call'[p].cmd = "unregister" => call'[p].j \in 1..mgen
         /\ Drv!Die(p) => proc'[p] # "running"
BY DriverTypes DEF Drv!GiveUp, Drv!Return, Drv!Die, Drv!NoCall

LEMMA FailureFades ==
  ASSUME DrvP!IInv, Matched, NEW p \in Client, ExchangeFails(p)
  PROVE  Fades(p)
<1>1. proc[p] = "running" /\ Drv!GiveUp(p) /\ UNCHANGED <<conn, slot>>
  BY DEF ExchangeFails, Drv!ExchangeFails, Drv!Waiting, Drv!tables
<1>2. torn' = torn \cup Changed(p) /\ UNCHANGED srvVars /\ torn \subseteq torn'
      /\ chan' = IF chan.to = p THEN Quiet ELSE chan
  BY DEF ExchangeFails
<1>3. Good(p, "close_context") => ContextOf(p) \in torn'
  BY <1>2 DEF Changed, Good
<1>4. Good(p, "close_session") => SessionOf(p) \in torn'
  BY <1>2 DEF Changed, Good
<1> QED
  BY <1>1, <1>2, <1>3, <1>4, GivesUp DEF Fades

LEMMA DeathFades ==
  ASSUME DrvP!IInv, Matched, NEW p \in Client, Die(p)
  PROVE  Fades(p)
<1>1. /\ proc[p] = "running" /\ Drv!Die(p) /\ UNCHANGED <<conn, slot, srvVars, torn>>
      /\ chan' = IF chan.to = p THEN Quiet ELSE chan
  BY DEF Die, Drv!Die, Drv!tables
<1> QED
  BY <1>1, GivesUp DEF Fades

-----------------------------------------------------------------------------
(* A good answer is delivered.                                             *)

OtherConns(p, k) == \A q \in Client, n \in Conns : q # p \/ n # k => conn'[q][n] = conn[q][n]

SameConns == \A q \in Client, n \in Conns :
               conn'[q][n].used = conn[q][n].used /\ conn'[q][n].ctx = conn[q][n].ctx

\* In each the process takes what it was given, or drops what it asked to close.
ContextTaken(p, k) ==
  /\ Good(p, "open_context")
  /\ ~conn[p][k].used /\ conn'[p][k].used /\ conn'[p][k].ctx = chan.h
  /\ OtherConns(p, k) /\ slot' = slot

ContextDropped(p, k) ==
  /\ Good(p, "close_context") /\ call[p].k = k
  /\ ~conn'[p][k].used /\ \A j \in Slots : slot'[p][k][j] = None
  /\ OtherConns(p, k)
  /\ \A q \in Client, n \in Conns : q # p \/ n # k => slot'[q][n] = slot[q][n]

SessionTaken(p, k, j) ==
  /\ Good(p, "open_session") /\ call[p].k = k /\ conn[p][k].used
  /\ slot[p][k][j] = None /\ slot'[p][k][j] = chan.h
  /\ SameConns
  /\ \A q \in Client, n \in Conns, i \in Slots :
       q # p \/ n # k \/ i # j => slot'[q][n][i] = slot[q][n][i]

SessionDropped(p, k, j) ==
  /\ Good(p, "close_session") /\ call[p].k = k /\ call[p].j = j
  /\ slot'[p][k][j] = None
  /\ SameConns
  /\ \A q \in Client, n \in Conns, i \in Slots :
       q # p \/ n # k \/ i # j => slot'[q][n][i] = slot[q][n][i]

Delivered(p) ==
  /\ UNCHANGED <<srvVars, torn, proc>> /\ chan' = Quiet /\ chan.to = p
  /\ call' = [call EXCEPT ![p] = Drv!NoCall]
  /\ \E k \in Conns :
       \/ ContextTaken(p, k) \/ ContextDropped(p, k)
       \/ \E j \in Slots : SessionTaken(p, k, j) \/ SessionDropped(p, k, j)

LEMMA DeliverySeen ==
  ASSUME DrvP!IInv, Matched, NEW p \in Client, Deliver(p)
  PROVE  Fades(p) \/ Delivered(p)
<1> USE DEF None, Drv!None
<1>1. /\ chan.to = p /\ proc[p] = "running" /\ Drv!Waiting(p)
      /\ Drv!Receive(p, chan.cmd, chan.ok, chan.h)
      /\ chan' = Quiet /\ UNCHANGED <<srvVars, torn>>
  BY DEF Deliver, Drv!Receive, Drv!Waiting
<1>2. chan.cmd = call[p].cmd /\ chan.ok \in BOOLEAN
  BY <1>1, NobodyIsNoClient DEF Matched, OnWay
<1>3. /\ conn \in [Client -> [Conns -> DrvP!ConnRow]]
      /\ slot \in [Client -> [Conns -> [Slots -> (1..MaxHandles) \cup {None}]]]
  BY DriverTypes
<1>4. ASSUME Drv!GiveUp(p) \/ Drv!Return(p), UNCHANGED <<conn, slot>>,
             ~Good(p, "close_context"), ~Good(p, "close_session")
      PROVE  Fades(p)
  BY <1>1, <1>4, GivesUp DEF Fades
<1>5. CASE ~chan.ok
  <2>1. Drv!GiveUp(p) /\ UNCHANGED <<conn, slot>>
    BY <1>1, <1>5 DEF Drv!Receive, Drv!tables
  <2> QED
    BY <1>4, <1>5, <2>1 DEF Good
<1>6. CASE chan.ok /\ chan.cmd = "open_context"
  <2>1. Drv!ContextOpened(p, chan.h) /\ Good(p, "open_context")
    BY <1>1, <1>2, <1>6 DEF Drv!Receive, Good
  <2>2. CASE Drv!GiveUp(p) /\ UNCHANGED <<conn, slot>>
    BY <1>4, <2>1, <2>2 DEF Good
  <2>3. CASE /\ \E k \in Drv!Conns :
                  /\ Drv!FirstFreeConn(p, k)
                  /\ conn' = [conn EXCEPT ![p][k] =
                       [@ EXCEPT !.used = TRUE, !.id = call[p].id, !.ctx = chan.h]]
             /\ Drv!Return(p)
    <3>1. PICK k \in Conns :
             /\ ~conn[p][k].used
             /\ conn' = [conn EXCEPT ![p][k] =
                  [@ EXCEPT !.used = TRUE, !.id = call[p].id, !.ctx = chan.h]]
      BY <2>3 DEF Drv!FirstFreeConn, Drv!Conns, Conns
    <3>2. conn[p][k] \in DrvP!ConnRow
      BY <1>3
    <3>3. conn'[p][k] = [conn[p][k] EXCEPT !.used = TRUE, !.id = call[p].id, !.ctx = chan.h]
      BY <1>3, <3>1
    <3>4. conn'[p][k].used /\ conn'[p][k].ctx = chan.h
      BY <3>2, <3>3 DEF DrvP!ConnRow
    <3>5. OtherConns(p, k)
      BY <1>3, <3>1 DEF OtherConns
    <3>6. ContextTaken(p, k)
      BY <2>1, <3>1, <3>4, <3>5 DEF ContextTaken, Drv!ContextOpened
    <3> QED
      BY <1>1, <2>3, <3>6 DEF Delivered, Drv!Return
  <2> QED
    BY <2>1, <2>2, <2>3 DEF Drv!ContextOpened
<1>7. CASE chan.ok /\ chan.cmd = "close_context"
  <2>1. PICK k \in Conns : k = call[p].k
    BY <1>1, <1>2, <1>7, WaitsOnLive
  <2>2. Drv!ContextClosed(p, k) /\ Good(p, "close_context")
    BY <1>1, <1>2, <1>7, <2>1 DEF Drv!Receive, Good
  <2>3. /\ conn' = [conn EXCEPT ![p][k] = Drv!FreeConn]
        /\ slot' = [slot EXCEPT ![p][k] = [j \in Slots |-> None]]
        /\ Drv!Return(p)
    BY <2>2 DEF Drv!ContextClosed, Drv!Slots, Slots
  <2>4. ~conn'[p][k].used /\ OtherConns(p, k)
    BY <1>3, <2>3 DEF Drv!FreeConn, OtherConns
  <2>5. /\ \A j \in Slots : slot'[p][k][j] = None
        /\ \A q \in Client, n \in Conns : q # p \/ n # k => slot'[q][n] = slot[q][n]
    BY <1>3, <2>3
  <2>6. ContextDropped(p, k)
    BY <2>1, <2>2, <2>4, <2>5 DEF ContextDropped
  <2> QED
    BY <1>1, <2>3, <2>6 DEF Delivered, Drv!Return
<1>8. CASE chan.ok /\ chan.cmd = "open_session"
  <2>1. PICK k \in Conns : k = call[p].k /\ conn[p][k].used
    BY <1>1, <1>2, <1>8, WaitsOnLive
  <2>2. Drv!SessionOpened(p, k, chan.h) /\ Good(p, "open_session")
    BY <1>1, <1>2, <1>8, <2>1 DEF Drv!Receive, Good
  <2>3. CASE Drv!GiveUp(p) /\ UNCHANGED <<conn, slot>>
    BY <1>4, <2>2, <2>3 DEF Good
  <2>4. CASE /\ proc' = [proc EXCEPT ![p] = "no_table"]
             /\ call' = [call EXCEPT ![p] = Drv!NoCall]
             /\ UNCHANGED <<conn, slot>>
    <3>1. /\ \A q \in Client \ {p} : proc'[q] = proc[q] /\ call'[q] = call[q]
          /\ call'[p] = Drv!NoCall
      BY <2>4, DriverTypes
    <3>2. call'[p].cmd = "none"
      BY <3>1 DEF Drv!NoCall
    <3> QED
      BY <1>1, <2>2, <2>4, <3>1, <3>2 DEF Fades, Good
  <2>5. CASE /\ \E j \in Drv!Slots : /\ Drv!FirstFreeSlot(p, k, j)
                                    /\ slot' = [slot EXCEPT ![p][k][j] = chan.h]
             /\ conn' = [conn EXCEPT ![p][k].num = @ + 1]
             /\ Drv!Return(p)
    <3>1. PICK j \in Slots : slot[p][k][j] = None /\ slot' = [slot EXCEPT ![p][k][j] = chan.h]
      BY <2>5 DEF Drv!FirstFreeSlot, Drv!Slots, Slots
    <3>2. SameConns
      BY <1>3, <2>5 DEF SameConns, DrvP!ConnRow
    <3>3. slot'[p][k][j] = chan.h
          /\ \A q \in Client, n \in Conns, i \in Slots :
               q # p \/ n # k \/ i # j => slot'[q][n][i] = slot[q][n][i]
      BY <1>3, <3>1
    <3>4. SessionTaken(p, k, j)
      BY <2>1, <2>2, <3>1, <3>2, <3>3 DEF SessionTaken
    <3> QED
      BY <1>1, <2>5, <3>4 DEF Delivered, Drv!Return
  <2> QED
    BY <2>2, <2>3, <2>4, <2>5 DEF Drv!SessionOpened
<1>9. CASE chan.ok /\ chan.cmd = "close_session"
  <2>1. PICK k \in Conns, j \in Slots : k = call[p].k /\ j = call[p].j
    BY <1>1, <1>2, <1>9, WaitsOnLive DEF Drv!SessionCommands
  <2>2. Drv!SessionClosed(p, k, j) /\ Good(p, "close_session")
    BY <1>1, <1>2, <1>9, <2>1 DEF Drv!Receive, Good
  <2>3. /\ conn' = [conn EXCEPT ![p][k].num = @ - 1]
        /\ slot' = [slot EXCEPT ![p][k][j] = None]
        /\ Drv!Return(p)
    BY <2>2 DEF Drv!SessionClosed
  <2>4. SameConns
    BY <1>3, <2>3 DEF SameConns, DrvP!ConnRow
  <2>5. slot'[p][k][j] = None
        /\ \A q \in Client, n \in Conns, i \in Slots :
             q # p \/ n # k \/ i # j => slot'[q][n][i] = slot[q][n][i]
    BY <1>3, <2>3
  <2>6. SessionDropped(p, k, j)
    BY <2>1, <2>2, <2>4, <2>5 DEF SessionDropped
  <2> QED
    BY <1>1, <2>3, <2>6 DEF Delivered, Drv!Return
<1>10. CASE chan.ok /\ chan.cmd \in {"invoke", "register", "unregister"}
  <2>1. Drv!Return(p) /\ UNCHANGED <<conn, slot>>
    BY <1>1, <1>2, <1>10 DEF Drv!Receive, Drv!tables
  <2> QED
    BY <1>4, <1>10, <2>1 DEF Good
<1> QED
  BY <1>1, <1>2, <1>5, <1>6, <1>7, <1>8, <1>9, <1>10 DEF Drv!Receive

\* After a delivery nothing is on the way, and the server is as it was.
LEMMA AfterDelivery ==
  ASSUME DrvP!IInv, Matched, NEW p \in Client, Delivered(p)
  PROVE  /\ SrvP!OpenContexts' = SrvP!OpenContexts /\ SrvP!UpSessions' = SrvP!UpSessions
         /\ numC' = numC /\ givenC' = givenC /\ givenS' = givenS /\ mgen' = mgen
         /\ torn' = torn /\ proc' = proc /\ (HandlesSentAreActive' <=> HandlesSentAreActive)
         /\ OnWay' /\ \A q, cmd : ~Good(q, cmd)'
         /\ call'[p] = Drv!NoCall /\ \A q \in Client \ {p} : call'[q] = call[q]
<1>1. chan' = Quiet /\ UNCHANGED <<srvVars, torn, proc>> /\ call' = [call EXCEPT ![p] = Drv!NoCall]
  BY DEF Delivered
<1> QED
  BY <1>1, DriverTypes
  DEF srvVars, SrvP!OpenContexts, SrvP!UpSessions, HandlesSentAreActive, OnWay, Good, Quiet

\* What is to be shown of a delivery, the server being as it was.
LEMMA DeliveryKeeps ==
  ASSUME Matched, SrvP!IInv, DrvP!IInv, NEW p \in Client, Delivered(p),
         \A q \in Client, k \in Conns :
           /\ conn'[q][k].used => conn'[q][k].ctx \in givenC
           /\ \A j \in Slots : slot'[q][k][j] # None => conn'[q][k].used /\ slot'[q][k][j] \in givenS,
         Distinct',
         Agree =>
           \A q \in Client, k \in Conns :
             /\ HasContext(q, k)' => conn'[q][k].ctx \in SrvP!OpenContexts
             /\ \A j \in Slots : HasSession(q, k, j)' =>
                  <<slot'[q][k][j], conn'[q][k].ctx>> \in SrvP!UpSessions,
         Counted' \subseteq Counted
  PROVE  Matched'
<1>1. \A q \in Client : Given(q)'
  BY AfterDelivery DEF Matched, Given, Drv!NoCall
<1>2. (HandlesSentAreActive => Agree)'
  BY AfterDelivery DEF Matched, Agree
<1>3. (torn = {} => Cardinality(Counted) <= numC)'
  <2>1. Cardinality(Counted') <= Cardinality(Counted)
    BY CountedFinite, FS_Subset
  <2>2. Cardinality(Counted) \in Nat /\ Cardinality(Counted') \in Nat /\ numC \in Nat
    BY CountedFinite, FS_Subset, FS_CardinalityType DEF SrvP!IInv, SrvP!TablesInv, SrvP!TypeTables
  <2> QED
    BY <2>1, <2>2, AfterDelivery DEF Matched
<1> QED
  BY <1>1, <1>2, <1>3, AfterDelivery DEF Matched

LEMMA ContextTakenKeeps ==
  ASSUME Matched, SrvP!IInv, DrvP!IInv, NEW p \in Client, Delivered(p), NEW k \in Conns, ContextTaken(p, k)
  PROVE  Matched'
<1>1. /\ conn'[p][k].used /\ conn'[p][k].ctx = chan.h /\ ~conn[p][k].used /\ slot' = slot
      /\ \A q \in Client, n \in Conns : q # p \/ n # k => conn'[q][n] = conn[q][n]
      /\ Good(p, "open_context")
  BY DEF ContextTaken, OtherConns
<1>2. chan.h \in givenC
  BY <1>1, GoodIsAwaited DEF Matched, OnWay, Good
<1>3. \A q \in Client, n \in Conns :
        /\ conn'[q][n].used => conn'[q][n].ctx \in givenC
        /\ \A j \in Slots : slot'[q][n][j] # None => conn'[q][n].used /\ slot'[q][n][j] \in givenS
  BY <1>1, <1>2 DEF Matched, Given
<1>4. Distinct'
  <2>1. ASSUME NEW q \in Client, NEW n \in Conns, conn[q][n].used PROVE conn[q][n].ctx # chan.h
    BY <1>1, <2>1 DEF Matched, Distinct
  <2>2. \A q, r \in Client, n, m \in Conns :
          conn'[q][n].used /\ conn'[r][m].used /\ conn'[q][n].ctx = conn'[r][m].ctx => q = r /\ n = m
    BY <1>1, <2>1 DEF Matched, Distinct
  <2>3. \A q, r \in Client, n, m \in Conns, j, i \in Slots :
          slot'[q][n][j] # None /\ slot'[q][n][j] = slot'[r][m][i] => q = r /\ n = m /\ j = i
    BY <1>1 DEF Matched, Distinct
  <2> QED
    BY <2>2, <2>3, AfterDelivery DEF Distinct
<1>5. ASSUME NEW q \in Client, NEW n \in Conns, q # p \/ n # k
      PROVE  /\ HasContext(q, n)' => HasContext(q, n)
             /\ \A j \in Slots : HasSession(q, n, j)' => HasSession(q, n, j)
  BY <1>1, <1>5, AfterDelivery DEF HasContext, HasSession, Good
<1>6. \A j \in Slots : ~HasSession(p, k, j)'
  BY <1>1 DEF Matched, Given, HasSession
<1>7. ASSUME Agree, NEW q \in Client, NEW n \in Conns
      PROVE  /\ HasContext(q, n)' => conn'[q][n].ctx \in SrvP!OpenContexts
             /\ \A j \in Slots : HasSession(q, n, j)' =>
                  <<slot'[q][n][j], conn'[q][n].ctx>> \in SrvP!UpSessions
  <2>1. CASE q = p /\ n = k
    BY <1>1, <1>6, <1>7, <2>1 DEF Agree
  <2>2. CASE q # p \/ n # k
    BY <1>1, <1>5, <1>7, <2>2 DEF Agree
  <2> QED
    BY <2>1, <2>2
<1>8. Counted' \subseteq Counted
  BY <1>1, AfterDelivery DEF Counted, Good
<1> QED
  BY <1>3, <1>4, <1>7, <1>8, DeliveryKeeps

LEMMA ContextDroppedKeeps ==
  ASSUME Matched, SrvP!IInv, DrvP!IInv, NEW p \in Client, Delivered(p), NEW k \in Conns, ContextDropped(p, k)
  PROVE  Matched'
<1>1. /\ ~conn'[p][k].used /\ \A j \in Slots : slot'[p][k][j] = None
      /\ \A q \in Client, n \in Conns : q # p \/ n # k =>
           conn'[q][n] = conn[q][n] /\ slot'[q][n] = slot[q][n]
      /\ Good(p, "close_context") /\ call[p].k = k
  BY DEF ContextDropped, OtherConns
<1>2. \A q \in Client, n \in Conns :
        /\ conn'[q][n].used => conn'[q][n].ctx \in givenC
        /\ \A j \in Slots : slot'[q][n][j] # None => conn'[q][n].used /\ slot'[q][n][j] \in givenS
  BY <1>1 DEF Matched, Given
<1>3. Distinct'
  BY <1>1, AfterDelivery DEF Matched, Distinct
<1>4. ASSUME NEW q \in Client, NEW n \in Conns
      PROVE  /\ HasContext(q, n)' => HasContext(q, n) /\ (q # p \/ n # k)
             /\ \A j \in Slots : HasSession(q, n, j)' => HasSession(q, n, j)
  BY <1>1, AfterDelivery DEF HasContext, HasSession, Good
<1>5. ASSUME Agree, NEW q \in Client, NEW n \in Conns
      PROVE  /\ HasContext(q, n)' => conn'[q][n].ctx \in SrvP!OpenContexts
             /\ \A j \in Slots : HasSession(q, n, j)' =>
                  <<slot'[q][n][j], conn'[q][n].ctx>> \in SrvP!UpSessions
  <2>1. HasContext(q, n)' => conn'[q][n] = conn[q][n] /\ slot'[q][n] = slot[q][n]
    BY <1>1, <1>4
  <2>2. \A j \in Slots : HasSession(q, n, j)' => HasContext(q, n)'
    BY DEF HasSession
  <2> QED
    BY <1>4, <1>5, <2>1, <2>2 DEF Agree
<1>6. Counted' \subseteq Counted
  BY <1>1, AfterDelivery DEF Counted, Good
<1> QED
  BY <1>2, <1>3, <1>5, <1>6, DeliveryKeeps

LEMMA SessionTakenKeeps ==
  ASSUME Matched, SrvP!IInv, DrvP!IInv, NEW p \in Client, Delivered(p),
         NEW k \in Conns, NEW j \in Slots, SessionTaken(p, k, j)
  PROVE  Matched'
<1>1. /\ conn[p][k].used /\ slot[p][k][j] = None /\ slot'[p][k][j] = chan.h
      /\ \A q \in Client, n \in Conns :
           conn'[q][n].used = conn[q][n].used /\ conn'[q][n].ctx = conn[q][n].ctx
      /\ \A q \in Client, n \in Conns, i \in Slots :
           q # p \/ n # k \/ i # j => slot'[q][n][i] = slot[q][n][i]
      /\ Good(p, "open_session") /\ call[p].k = k
  BY DEF SessionTaken, SameConns
<1>2. chan.h \in givenS
  BY <1>1, GoodIsAwaited DEF Matched, OnWay, Good
<1>3. \A q \in Client, n \in Conns :
        /\ conn'[q][n].used => conn'[q][n].ctx \in givenC
        /\ \A i \in Slots : slot'[q][n][i] # None => conn'[q][n].used /\ slot'[q][n][i] \in givenS
  BY <1>1, <1>2 DEF Matched, Given
<1>4. Distinct'
  <2>1. ASSUME NEW q \in Client, NEW n \in Conns, NEW i \in Slots PROVE slot[q][n][i] # chan.h
    BY <1>1 DEF Matched, Distinct
  <2>2. \A q, r \in Client, n, m \in Conns :
          conn'[q][n].used /\ conn'[r][m].used /\ conn'[q][n].ctx = conn'[r][m].ctx => q = r /\ n = m
    BY <1>1 DEF Matched, Distinct
  <2>3. \A q, r \in Client, n, m \in Conns, l, i \in Slots :
          slot'[q][n][l] # None /\ slot'[q][n][l] = slot'[r][m][i] => q = r /\ n = m /\ l = i
    BY <1>1, <2>1 DEF Matched, Distinct
  <2> QED
    BY <2>2, <2>3, AfterDelivery DEF Distinct
<1>5. ASSUME NEW q \in Client, NEW n \in Conns
      PROVE  /\ HasContext(q, n)' => HasContext(q, n)
             /\ \A i \in Slots : HasSession(q, n, i)' /\ (q # p \/ n # k \/ i # j) =>
                  HasSession(q, n, i) /\ slot'[q][n][i] = slot[q][n][i]
  BY <1>1, AfterDelivery DEF HasContext, HasSession, Good
<1>6. ASSUME Agree, NEW q \in Client, NEW n \in Conns
      PROVE  /\ HasContext(q, n)' => conn'[q][n].ctx \in SrvP!OpenContexts
             /\ \A i \in Slots : HasSession(q, n, i)' =>
                  <<slot'[q][n][i], conn'[q][n].ctx>> \in SrvP!UpSessions
  <2>1. <<chan.h, conn[p][k].ctx>> \in SrvP!UpSessions
    BY <1>1, <1>6 DEF Agree, ContextOf
  <2>2. HasContext(q, n)' => conn'[q][n].ctx \in SrvP!OpenContexts
    BY <1>1, <1>5, <1>6 DEF Agree
  <2>3. ASSUME NEW i \in Slots, HasSession(q, n, i)'
        PROVE  <<slot'[q][n][i], conn'[q][n].ctx>> \in SrvP!UpSessions
    <3>1. CASE q = p /\ n = k /\ i = j
      BY <1>1, <2>1, <3>1
    <3>2. CASE q # p \/ n # k \/ i # j
      BY ZenonT(30), <1>1, <1>5, <1>6, <2>3, <3>2 DEF Agree
    <3> QED
      BY <3>1, <3>2
  <2> QED
    BY <2>2, <2>3
<1>7. Counted' \subseteq Counted
  BY <1>1, AfterDelivery DEF Counted, Good
<1> QED
  BY <1>3, <1>4, <1>6, <1>7, DeliveryKeeps

LEMMA SessionDroppedKeeps ==
  ASSUME Matched, SrvP!IInv, DrvP!IInv, NEW p \in Client, Delivered(p),
         NEW k \in Conns, NEW j \in Slots, SessionDropped(p, k, j)
  PROVE  Matched'
<1>1. /\ slot'[p][k][j] = None
      /\ \A q \in Client, n \in Conns :
           conn'[q][n].used = conn[q][n].used /\ conn'[q][n].ctx = conn[q][n].ctx
      /\ \A q \in Client, n \in Conns, i \in Slots :
           q # p \/ n # k \/ i # j => slot'[q][n][i] = slot[q][n][i]
      /\ Good(p, "close_session") /\ call[p].k = k /\ call[p].j = j
  BY DEF SessionDropped, SameConns
<1>2. \A q \in Client, n \in Conns :
        /\ conn'[q][n].used => conn'[q][n].ctx \in givenC
        /\ \A i \in Slots : slot'[q][n][i] # None => conn'[q][n].used /\ slot'[q][n][i] \in givenS
  BY <1>1 DEF Matched, Given
<1>3. Distinct'
  BY <1>1, AfterDelivery DEF Matched, Distinct
<1>4. ASSUME NEW q \in Client, NEW n \in Conns
      PROVE  /\ HasContext(q, n)' => HasContext(q, n)
             /\ \A i \in Slots : HasSession(q, n, i)' =>
                  HasSession(q, n, i) /\ slot'[q][n][i] = slot[q][n][i]
  BY <1>1, AfterDelivery DEF HasContext, HasSession, Good
<1>5. ASSUME Agree, NEW q \in Client, NEW n \in Conns
      PROVE  /\ HasContext(q, n)' => conn'[q][n].ctx \in SrvP!OpenContexts
             /\ \A i \in Slots : HasSession(q, n, i)' =>
                  <<slot'[q][n][i], conn'[q][n].ctx>> \in SrvP!UpSessions
  BY ZenonT(30), <1>1, <1>4, <1>5 DEF Agree
<1>6. Counted' \subseteq Counted
  BY <1>1, AfterDelivery DEF Counted, Good
<1> QED
  BY <1>2, <1>3, <1>5, <1>6, DeliveryKeeps

LEMMA DeliverKeeps ==
  ASSUME DrvP!IInv, SrvP!IInv, SrvP!IInv', Matched, NEW p \in Client, Deliver(p)
  PROVE  Matched'
BY DeliverySeen, FadesKeeps, ContextTakenKeeps, ContextDroppedKeeps, SessionTakenKeeps,
   SessionDroppedKeeps DEF Delivered

-----------------------------------------------------------------------------
(* The server handles a request.                                           *)

\* With the lock free nothing good is on the way, and the only answer then is
\* the one to p.
LEMMA ServeSeen ==
  ASSUME NEW p \in Client, Serve(p)
  PROVE  /\ srv = "running" /\ HandlesSentAreActive
         /\ UNCHANGED <<proc, conn, slot, call, torn>> /\ proc[p] = "running" /\ Drv!Waiting(p)
         /\ \A q, cmd : ~Good(q, cmd)
         /\ chan' # Quiet => srv' = "running"
         /\ srv' = "running" => chan'.to = p /\ chan'.cmd = resp'.cmd /\ chan'.ok \in BOOLEAN
         /\ \A q \in Client : \A cmd : Good(q, cmd)' =>
              /\ q = p /\ srv' = "running" /\ resp'.cmd = cmd /\ resp'.status = "SUCCESS"
              /\ chan'.h = IF cmd = "open_context" THEN resp'.ch ELSE resp'.sh
<1>1. srv = "running"
  BY DEF Serve, Process, Srv!BadHeader, Srv!OpenContext, Srv!CloseContext, Srv!OpenSession,
         Srv!CloseSession, Srv!InvokeCommand, Srv!RegisterMemory, Srv!UnregisterMemory
<1>2. /\ chan = Quiet /\ Drv!Waiting(p) /\ UNCHANGED <<proc, conn, slot, call, torn>>
      /\ srv' = "running" =>
           chan' = [to |-> p, cmd |-> resp'.cmd, ok |-> resp'.status = "SUCCESS",
                    h |-> IF resp'.cmd = "open_context" THEN resp'.ch ELSE resp'.sh]
      /\ srv' # "running" => chan' = Quiet
  BY DEF Serve, drvVars
<1>3. srv' # "running" => \A q, cmd : ~Good(q, cmd)'
  BY <1>2 DEF Good, Quiet
<1>4. ASSUME srv' = "running"
      PROVE  /\ chan'.to = p /\ chan'.cmd = resp'.cmd /\ chan'.ok \in BOOLEAN
             /\ \A q, cmd : Good(q, cmd)' =>
                  /\ q = p /\ resp'.cmd = cmd /\ resp'.status = "SUCCESS"
                  /\ chan'.h = IF cmd = "open_context" THEN resp'.ch ELSE resp'.sh
  <2>1. /\ chan'.to = p /\ chan'.cmd = resp'.cmd /\ chan'.ok = (resp'.status = "SUCCESS")
        /\ chan'.h = IF resp'.cmd = "open_context" THEN resp'.ch ELSE resp'.sh
    BY <1>2, <1>4
  <2> QED
    BY <2>1 DEF Good
<1>5. HandlesSentAreActive /\ \A q, cmd : ~Good(q, cmd)
  BY <1>1, <1>2 DEF HandlesSentAreActive, Good, Quiet
<1> QED
  BY <1>1, <1>2, <1>3, <1>4, <1>5 DEF Drv!Waiting

LEMMA AnswerOnWay ==
  ASSUME NEW p \in Client, Serve(p),
         srv' = "running" =>
           /\ resp'.cmd = call[p].cmd
           /\ resp'.status = "SUCCESS" /\ resp'.cmd = "open_context" => resp'.ch \in givenC'
           /\ resp'.status = "SUCCESS" /\ resp'.cmd = "open_session" => resp'.sh \in givenS'
  PROVE  OnWay'
<1> SUFFICES ASSUME chan' # Quiet PROVE OnWay'
  BY DEF OnWay, Quiet
<1>1. srv' = "running" /\ chan'.to = p /\ chan'.cmd = resp'.cmd /\ chan'.ok \in BOOLEAN
      /\ proc' = proc /\ call' = call /\ Drv!Waiting(p)
  BY ServeSeen
<1>2. Drv!Waiting(p)'
  BY <1>1 DEF Drv!Waiting, Drv!NoCall, Drv!None
<1>3. ASSUME chan'.ok
      PROVE  /\ resp'.status = "SUCCESS"
             /\ chan'.h = IF chan'.cmd = "open_context" THEN resp'.ch ELSE resp'.sh
  BY <1>1, <1>3 DEF Serve
<1> QED
  BY <1>1, <1>2, <1>3 DEF OnWay, Drv!Waiting

\* The server has nothing to tell about a context or session it had, or has
\* become unusable.
LEMMA NothingToldKeeps ==
  ASSUME Matched, SrvP!IInv, SrvP!IInv', NEW p \in Client, Serve(p),
         srv' # "assert_count" =>
           SrvP!OpenContexts \subseteq SrvP!OpenContexts' /\ SrvP!UpSessions \subseteq SrvP!UpSessions',
         numC' = numC, givenC' = givenC, givenS \subseteq givenS', mgen' \in {mgen, mgen + 1},
         srv' = "running" =>
           /\ resp'.cmd = call[p].cmd
           /\ \/ resp'.status # "SUCCESS"
              \/ resp'.cmd \in {"invoke", "register", "unregister"}
  PROVE  Matched'
<1>1. \A q \in Client : \A cmd \in {"open_context", "open_session", "close_context", "close_session"} :
        ~Good(q, cmd) /\ ~Good(q, cmd)'
  BY ServeSeen
<1>2. HandlesSentAreActive' =>
        /\ HandlesSentAreActive
        /\ SrvP!OpenContexts \subseteq SrvP!OpenContexts' /\ SrvP!UpSessions \subseteq SrvP!UpSessions'
  BY ServeSeen DEF HandlesSentAreActive
<1>3. OnWay'
  BY AnswerOnWay
<1>4. mgen \in Nat
  BY DEF SrvP!IInv, SrvP!TypeMemory
<1>5. 1..mgen \subseteq 1..mgen'
  BY <1>4
<1>6. \A q \in Client : Given(q)'
  BY <1>5, ServeSeen DEF Matched, Given
<1>7. \A q \in Client, k \in Conns :
        /\ HasContext(q, k)' => HasContext(q, k)
        /\ \A j \in Slots : HasSession(q, k, j)' => HasSession(q, k, j)
  BY <1>1, ServeSeen DEF HasContext, HasSession
<1>8. Counted' \subseteq Counted
  BY <1>1, ServeSeen DEF Counted
<1> QED
  BY <1>1, <1>2, <1>3, <1>6, <1>7, <1>8, LessKeeps, ServeSeen DEF Matched

LEMMA ContextOpenedKeeps ==
  ASSUME Matched, SrvP!IInv, SrvP!IInv', NEW p \in Client, Serve(p), call[p].cmd = "open_context",
         gen' = gen + 1, numC' = numC + 1,
         SrvP!OpenContexts' = SrvP!OpenContexts \cup {gen + 1}, SrvP!UpSessions' = SrvP!UpSessions,
         givenC' = givenC \cup {gen + 1}, givenS' = givenS, mgen' = mgen,
         srv' = "running", resp'.cmd = "open_context", resp'.status = "SUCCESS", resp'.ch = gen + 1
  PROVE  Matched'
<1>0. gen \in Nat /\ numC \in Nat /\ givenC \subseteq 1..gen /\ givenS \subseteq 1..gen
  BY DEF SrvP!IInv, SrvP!TablesInv, SrvP!TypeTables, SrvP!HandlesDrawn
<1>1. \A q \in Client : \A cmd : Good(q, cmd)' => q = p /\ cmd = "open_context" /\ chan'.h = gen + 1
  BY ServeSeen
<1>2. OnWay'
  BY AnswerOnWay
<1>3. \A q \in Client : Given(q)'
  BY ServeSeen DEF Matched, Given
<1>4. Distinct'
  <2>1. \A q \in Client, k \in Conns : conn[q][k].used => conn[q][k].ctx # gen + 1
    BY <1>0 DEF Matched, Given
  <2> QED
    BY <1>1, <2>1, ServeSeen DEF Matched, Distinct
<1>5. Agree'
  <2>1. \A q \in Client, k \in Conns :
          /\ HasContext(q, k)' => HasContext(q, k)
          /\ \A j \in Slots : HasSession(q, k, j)' => HasSession(q, k, j)
    BY ServeSeen DEF HasContext, HasSession
  <2>2. Agree
    BY ServeSeen DEF Matched
  <2>3. \A q \in Client : ~Good(q, "open_session")'
    BY <1>1
  <2>4. \A q \in Client : Good(q, "open_context")' => chan'.h \in SrvP!OpenContexts'
    BY <1>1
  <2> QED
    BY <2>1, <2>2, <2>3, <2>4, ServeSeen DEF Agree
<1>6. ASSUME torn' = {} PROVE Cardinality(Counted') <= numC'
  <2>1. Cardinality(Counted) <= numC
    BY <1>6, ServeSeen DEF Matched
  <2>2. Counted' \subseteq Counted \cup {gen + 1}
    BY <1>1, ServeSeen DEF Counted
  <2>3. IsFiniteSet(Counted) /\ gen + 1 \notin Counted
    BY <1>0, CountedFinite DEF Counted
  <2>4. IsFiniteSet(Counted \cup {gen + 1})
        /\ Cardinality(Counted \cup {gen + 1}) = Cardinality(Counted) + 1
    BY <2>3, FS_AddElement
  <2>5. Cardinality(Counted') <= Cardinality(Counted \cup {gen + 1})
    BY <2>2, <2>4, FS_Subset
  <2>6. Cardinality(Counted) \in Nat /\ Cardinality(Counted') \in Nat
    BY <2>2, <2>4, CountedFinite, FS_Subset, FS_CardinalityType
  <2> QED
    BY <1>0, <2>1, <2>4, <2>5, <2>6
<1> QED
  BY <1>2, <1>3, <1>4, <1>5, <1>6 DEF Matched

\* The context that goes is the one connection k was given, and no other
\* connection has it.
LEMMA ContextClosedKeeps ==
  ASSUME Matched, DrvP!IInv, SrvP!IInv, SrvP!IInv', NEW p \in Client, Serve(p),
         call[p].cmd = "close_context",
         NEW k \in Conns, k = call[p].k, conn[p][k].used,
         SrvP!OpenContexts \ {conn[p][k].ctx} \subseteq SrvP!OpenContexts',
         SrvP!UpSessions' = SrvP!UpSessions, numC > 0, numC' = numC - 1,
         givenC' = givenC, givenS' = givenS, mgen' = mgen,
         srv' = "running", resp'.cmd = "close_context", resp'.status = "SUCCESS"
  PROVE  Matched'
<1>1. /\ \A q \in Client : \A cmd : Good(q, cmd)' => q = p /\ cmd = "close_context"
      /\ Good(p, "close_context")'
  BY ServeSeen DEF Serve, Good
<1>2. OnWay'
  BY AnswerOnWay
<1>3. \A q \in Client : Given(q)'
  BY ServeSeen DEF Matched, Given
<1>4. Distinct'
  BY <1>1, ServeSeen DEF Matched, Distinct
<1>5. Agree'
  <2>1. \A q \in Client, n \in Conns :
          /\ HasContext(q, n)' => HasContext(q, n) /\ (q # p \/ n # k)
          /\ \A j \in Slots : HasSession(q, n, j)' => HasSession(q, n, j)
    BY <1>1, ServeSeen DEF HasContext, HasSession
  <2>2. Agree /\ \A q \in Client : ~Good(q, "open_context")' /\ ~Good(q, "open_session")'
    BY <1>1, ServeSeen DEF Matched
  <2>3. ASSUME NEW q \in Client, NEW n \in Conns, HasContext(q, n)'
        PROVE  conn[q][n].ctx \in SrvP!OpenContexts'
    <3>1. HasContext(q, n) /\ (q # p \/ n # k)
      BY <2>1, <2>3
    <3>2. conn[q][n].ctx # conn[p][k].ctx
      BY <3>1 DEF Matched, Distinct, HasContext
    <3> QED
      BY <2>2, <3>1, <3>2 DEF Agree
  <2> QED
    BY <2>1, <2>2, <2>3, ServeSeen DEF Agree
<1>6. ASSUME torn' = {} PROVE Cardinality(Counted') <= numC'
  <2>1. Cardinality(Counted) <= numC
    BY <1>6, ServeSeen DEF Matched
  <2>2. conn[p][k].ctx \in Counted
    BY ServeSeen DEF Counted, Matched, Given
  <2>3. Counted' \subseteq Counted \ {conn[p][k].ctx}
    <3>1. ASSUME NEW q \in Client, NEW n \in Conns, proc[q] = "running", conn[q][n].used,
                 ~(Good(q, "close_context")' /\ call[q].k = n)
          PROVE  conn[q][n].ctx # conn[p][k].ctx
      <4>1. q # p \/ n # k
        BY <1>1, <3>1
      <4> QED
        BY <3>1, <4>1 DEF Matched, Distinct
    <3> QED
      BY <1>1, <3>1, ServeSeen DEF Counted
  <2>4. IsFiniteSet(Counted \ {conn[p][k].ctx})
        /\ Cardinality(Counted \ {conn[p][k].ctx}) = Cardinality(Counted) - 1
    BY <2>2, CountedFinite, FS_RemoveElement
  <2>5. Cardinality(Counted') <= Cardinality(Counted \ {conn[p][k].ctx})
    BY <2>3, <2>4, FS_Subset
  <2>6. Cardinality(Counted) \in Nat /\ Cardinality(Counted') \in Nat
    BY <2>3, <2>4, CountedFinite, FS_Subset, FS_CardinalityType
  <2>7. numC \in Nat
    BY DEF SrvP!IInv, SrvP!TablesInv, SrvP!TypeTables
  <2> QED
    BY <2>1, <2>4, <2>5, <2>6, <2>7
<1> QED
  BY <1>2, <1>3, <1>4, <1>5, <1>6 DEF Matched

LEMMA SessionOpenedKeeps ==
  ASSUME Matched, SrvP!IInv, SrvP!IInv', NEW p \in Client, Serve(p), call[p].cmd = "open_session",
         gen' = gen + 1, numC' = numC, SrvP!OpenContexts' = SrvP!OpenContexts,
         SrvP!UpSessions \subseteq SrvP!UpSessions', <<gen + 1, ContextOf(p)>> \in SrvP!UpSessions',
         givenC' = givenC, givenS' = givenS \cup {gen + 1}, mgen' = mgen,
         srv' = "running", resp'.cmd = "open_session", resp'.status = "SUCCESS", resp'.sh = gen + 1
  PROVE  Matched'
<1>0. gen \in Nat /\ givenS \subseteq 1..gen
  BY DEF SrvP!IInv, SrvP!TablesInv, SrvP!TypeTables, SrvP!HandlesDrawn
<1>1. \A q \in Client : \A cmd : Good(q, cmd)' => q = p /\ cmd = "open_session" /\ chan'.h = gen + 1
  BY ServeSeen
<1>2. OnWay'
  BY AnswerOnWay
<1>3. \A q \in Client : Given(q)'
  BY ServeSeen DEF Matched, Given
<1>4. Distinct'
  <2>1. \A q \in Client, k \in Conns, j \in Slots : slot[q][k][j] # gen + 1
    BY <1>0 DEF Matched, Given, None, Drv!None
  <2> QED
    BY <1>1, <2>1, ServeSeen DEF Matched, Distinct
<1>5. Agree'
  <2>1. \A q \in Client, k \in Conns :
          /\ HasContext(q, k)' => HasContext(q, k)
          /\ \A j \in Slots : HasSession(q, k, j)' => HasSession(q, k, j)
    BY ServeSeen DEF HasContext, HasSession
  <2>2. Agree /\ \A q \in Client : ~Good(q, "open_context")'
    BY <1>1, ServeSeen DEF Matched
  <2>3. ASSUME NEW q \in Client, Good(q, "open_session")'
        PROVE  <<chan'.h, ContextOf(q)'>> \in SrvP!UpSessions'
    <3>1. ContextOf(q)' = ContextOf(p) /\ chan'.h = gen + 1
      BY <1>1, <2>3, ServeSeen DEF ContextOf
    <3> QED
      BY <3>1
  <2> QED
    BY <2>1, <2>2, <2>3, ServeSeen DEF Agree
<1>6. ASSUME torn' = {} PROVE Cardinality(Counted') <= numC'
  <2>1. Counted' = Counted
    BY <1>1, ServeSeen DEF Counted
  <2> QED
    BY <1>6, <2>1, ServeSeen DEF Matched
<1> QED
  BY <1>2, <1>3, <1>4, <1>5, <1>6 DEF Matched

LEMMA SessionClosedKeeps ==
  ASSUME Matched, SrvP!IInv, SrvP!IInv', NEW p \in Client, Serve(p), call[p].cmd = "close_session",
         NEW k \in Conns, k = call[p].k, NEW j \in Slots, j = call[p].j, slot[p][k][j] # None,
         SrvP!OpenContexts' = SrvP!OpenContexts, numC' = numC,
         SrvP!UpSessions \ {<<slot[p][k][j], conn[p][k].ctx>>} \subseteq SrvP!UpSessions',
         givenC' = givenC, givenS' = givenS, mgen' = mgen,
         srv' = "running", resp'.cmd = "close_session", resp'.status = "SUCCESS"
  PROVE  Matched'
<1>1. /\ \A q \in Client : \A cmd : Good(q, cmd)' => q = p /\ cmd = "close_session"
      /\ Good(p, "close_session")'
  BY ServeSeen DEF Serve, Good
<1>2. OnWay'
  BY AnswerOnWay
<1>3. \A q \in Client : Given(q)'
  BY ServeSeen DEF Matched, Given
<1>4. Distinct'
  BY <1>1, ServeSeen DEF Matched, Distinct
<1>5. Agree'
  <2>1. \A q \in Client, n \in Conns :
          /\ HasContext(q, n)' => HasContext(q, n)
          /\ \A i \in Slots : HasSession(q, n, i)' =>
               HasSession(q, n, i) /\ (q # p \/ n # k \/ i # j)
    BY <1>1, ServeSeen DEF HasContext, HasSession
  <2>2. Agree /\ \A q \in Client : ~Good(q, "open_context")' /\ ~Good(q, "open_session")'
    BY <1>1, ServeSeen DEF Matched
  <2>3. ASSUME NEW q \in Client, NEW n \in Conns, NEW i \in Slots, HasSession(q, n, i)'
        PROVE  <<slot[q][n][i], conn[q][n].ctx>> \in SrvP!UpSessions'
    <3>1. HasSession(q, n, i) /\ (q # p \/ n # k \/ i # j)
      BY <2>1, <2>3
    <3>2. slot[q][n][i] # slot[p][k][j]
      BY <3>1 DEF Matched, Distinct, HasSession
    <3>3. <<slot[q][n][i], conn[q][n].ctx>> \in SrvP!UpSessions
      BY <2>2, <3>1 DEF Agree
    <3> QED
      BY <3>2, <3>3
  <2> QED
    BY <2>1, <2>2, <2>3, ServeSeen DEF Agree
<1>6. ASSUME torn' = {} PROVE Cardinality(Counted') <= numC'
  <2>1. Counted' = Counted
    BY <1>1, ServeSeen DEF Counted
  <2> QED
    BY <1>6, <2>1, ServeSeen DEF Matched
<1> QED
  BY <1>2, <1>3, <1>4, <1>5, <1>6 DEF Matched

\* The context a process asks to close is open while the server runs, unless
\* its own close was answered once and the answer lost.
LEMMA NamesOpenOrTorn ==
  ASSUME DrvP!IInv, Matched, NEW p \in Client, Serve(p), call[p].cmd # "open_context"
  PROVE  /\ ContextOf(p) \in SrvP!OpenContexts \/ ContextOf(p) \in torn
         /\ call[p].cmd \in Drv!SessionCommands =>
              \/ {ContextOf(p), SessionOf(p)} \cap torn # {}
              \/ <<SessionOf(p), ContextOf(p)>> \in SrvP!UpSessions
<1>1. PICK k \in Conns : k = call[p].k /\ conn[p][k].used
  BY WaitsOnLive, ServeSeen
<1>2. ContextOf(p) \notin torn => HasContext(p, k)
  BY <1>1, ServeSeen DEF HasContext, ContextOf
<1>3. Agree
  BY ServeSeen DEF Matched
<1>4. ASSUME call[p].cmd \in Drv!SessionCommands, ContextOf(p) \notin torn, SessionOf(p) \notin torn
      PROVE  <<SessionOf(p), ContextOf(p)>> \in SrvP!UpSessions
  <2>1. PICK j \in Slots : j = call[p].j /\ slot[p][k][j] # None
    BY <1>1, <1>4, WaitsOnLive, ServeSeen
  <2>2. HasSession(p, k, j)
    BY <1>1, <1>2, <1>4, <2>1, ServeSeen DEF HasSession, SessionOf
  <2> QED
    BY <1>1, <1>3, <2>1, <2>2 DEF Agree, SessionOf, ContextOf
<1> QED
  BY <1>1, <1>2, <1>3, <1>4 DEF Agree, ContextOf

\* The requests one by one, as the server sees them.
LEMMA ServeKeeps ==
  ASSUME DrvP!IInv, SrvP!IInv, SrvP!IInv', Matched, NEW p \in Client, Serve(p)
  PROVE  Matched'
<1>1. Drv!Waiting(p) /\ Process(p) /\ Given(p) /\ SrvP!TablesInv /\ SrvP!TypeMemory
  BY ServeSeen DEF Serve, Matched, SrvP!IInv
<1>2. mgen \in Nat
  BY <1>1 DEF SrvP!TypeMemory
<1>3. ASSUME SrvP!Refused(call[p].cmd) PROVE Matched'
  BY <1>3, NothingToldKeeps DEF SrvP!Refused, SrvP!Kept
<1>4. CASE Srv!BadHeader
  <2>1. SrvP!BadHeader
    BY <1>4, SameServer
  <2>2. SrvP!Kept /\ mgen' \in {mgen, mgen + 1} /\ (srv' = "running" => resp'.cmd = "register")
        /\ SrvP!StopAsIs("returned")
    BY <1>1, <2>1, SrvP!MemorySeen, Parameters DEF SrvP!BadHeader
  <2>3. srv' = "returned"
    BY <2>2 DEF SrvP!StopAsIs, SrvP!Stop
  <2> QED
    BY <2>2, <2>3, NothingToldKeeps DEF SrvP!Kept
<1>5. CASE call[p].cmd = "open_context" /\ Srv!OpenContext(TRUE)
  <2>1. \/ SrvP!Refused("open_context") /\ srv' # "assert_active"
        \/ /\ gen' = gen + 1 /\ numC' = numC + 1
           /\ SrvP!OpenContexts' = SrvP!OpenContexts \cup {gen + 1} /\ SrvP!UpSessions' = SrvP!UpSessions
           /\ givenC' = givenC \cup {gen + 1} /\ givenS' = givenS /\ mgen' = mgen
           /\ SrvP!Reply("open_context", "SUCCESS", gen + 1, SrvP!None)
    BY <1>1, <1>5, SameServer, SrvP!OpenContextSeen, Parameters
  <2> QED
    BY <1>3, <1>5, <2>1, ContextOpenedKeeps DEF SrvP!Reply, SrvP!Answer
<1>6. CASE call[p].cmd = "close_context" /\ Srv!CloseContext(ContextOf(p))
  <2>1. ContextOf(p) \in givenC /\ SrvP!CloseContext(ContextOf(p))
    BY <1>1, <1>6, SameServer, AsksWithGiven
  <2>2. PICK ch \in givenC : ch = ContextOf(p)
    BY <2>1
  <2>3. PICK k \in Conns : k = call[p].k /\ conn[p][k].used
    BY <1>1, <1>6, WaitsOnLive
  <2>4. \/ SrvP!Refused("close_context")
        \/ /\ SrvP!OpenContexts \ {ch} \subseteq SrvP!OpenContexts'
           /\ SrvP!UpSessions' = SrvP!UpSessions
           /\ givenC' = givenC /\ givenS' = givenS /\ mgen' = mgen
           /\ \/ /\ numC > 0 /\ numC' = numC - 1
                 /\ SrvP!Reply("close_context", "SUCCESS", ch, SrvP!None)
              \/ numC' = numC /\ srv' = "assert_count"
    BY <1>1, <2>1, <2>2, SrvP!CloseContextSeen, Parameters
  <2>5. CASE SrvP!Refused("close_context")
    BY <1>3, <1>6, <2>5
  <2>6. CASE /\ SrvP!OpenContexts \ {ch} \subseteq SrvP!OpenContexts'
             /\ SrvP!UpSessions' = SrvP!UpSessions
             /\ givenC' = givenC /\ givenS' = givenS /\ mgen' = mgen
             /\ numC > 0 /\ numC' = numC - 1 /\ SrvP!Reply("close_context", "SUCCESS", ch, SrvP!None)
    <3>1. srv' = "running" /\ resp'.cmd = "close_context" /\ resp'.status = "SUCCESS"
      BY <2>6 DEF SrvP!Reply, SrvP!Answer
    <3>2. ch = conn[p][k].ctx
      BY <2>2, <2>3 DEF ContextOf
    <3> QED
      BY <1>6, <2>3, <2>6, <3>1, <3>2, ContextClosedKeeps
  <2>7. CASE givenC' = givenC /\ givenS' = givenS /\ mgen' = mgen /\ numC' = numC /\ srv' = "assert_count"
    BY <2>7, NothingToldKeeps
  <2> QED
    BY <2>4, <2>5, <2>6, <2>7
<1>7. ASSUME call[p].cmd = "open_session", NEW out \in Srv!LoadOutcome,
             Srv!OpenSession(ContextOf(p), out)
      PROVE  Matched'
  <2>1. ContextOf(p) \in givenC /\ SrvP!OpenSession(ContextOf(p), out) /\ out \in SrvP!LoadOutcome
    BY <1>1, <1>7, SameServer, AsksWithGiven
  <2>2. PICK ch \in givenC : ch = ContextOf(p)
    BY <2>1
  <2>3. \/ SrvP!Refused("open_session")
        \/ /\ gen' = gen + 1 /\ numC' = numC
           /\ SrvP!OpenContexts' = SrvP!OpenContexts /\ SrvP!UpSessions \subseteq SrvP!UpSessions'
           /\ givenC' = givenC /\ mgen' = mgen
           /\ srv' = "running" /\ resp'.cmd = "open_session"
           /\ \/ /\ resp'.status = "SUCCESS" /\ resp'.sh = gen + 1
                 /\ givenS' = givenS \cup {gen + 1} /\ <<gen + 1, ch>> \in SrvP!UpSessions'
              \/ resp'.status # "SUCCESS" /\ givenS' = givenS
    BY <1>1, <2>1, <2>2, SrvP!OpenSessionSeen, Parameters
  <2> QED
    BY <1>3, <1>7, <2>2, <2>3, SessionOpenedKeeps, NothingToldKeeps
<1>8. CASE call[p].cmd = "close_session" /\ Srv!CloseSession(ContextOf(p), SessionOf(p))
  <2>1. /\ ContextOf(p) \in givenC /\ SessionOf(p) \in givenS
        /\ SrvP!CloseSession(ContextOf(p), SessionOf(p))
    BY <1>1, <1>8, SameServer, AsksWithGiven DEF Drv!SessionCommands
  <2>2. PICK ch \in givenC, sh \in givenS : ch = ContextOf(p) /\ sh = SessionOf(p)
    BY <2>1
  <2>3. PICK k \in Conns, j \in Slots : k = call[p].k /\ j = call[p].j /\ slot[p][k][j] # None
    BY <1>1, <1>8, WaitsOnLive DEF Drv!SessionCommands
  <2>4. \/ SrvP!RefusedFor("close_session", ch, sh)
        \/ /\ SrvP!OpenContexts' = SrvP!OpenContexts
           /\ SrvP!UpSessions \ {<<sh, ch>>} \subseteq SrvP!UpSessions'
           /\ numC' = numC /\ givenC' = givenC /\ givenS' = givenS /\ mgen' = mgen
           /\ SrvP!Reply("close_session", "SUCCESS", ch, sh)
    BY <1>1, <2>1, <2>2, SrvP!CloseSessionSeen, Parameters
  <2>5. ch = conn[p][k].ctx /\ sh = slot[p][k][j]
    BY <2>2, <2>3 DEF ContextOf, SessionOf
  <2>6. CASE SrvP!RefusedFor("close_session", ch, sh)
    BY <1>3, <1>8, <2>6 DEF SrvP!RefusedFor
  <2>7. CASE /\ SrvP!OpenContexts' = SrvP!OpenContexts
             /\ SrvP!UpSessions \ {<<sh, ch>>} \subseteq SrvP!UpSessions'
             /\ numC' = numC /\ givenC' = givenC /\ givenS' = givenS /\ mgen' = mgen
             /\ SrvP!Reply("close_session", "SUCCESS", ch, sh)
    <3>1. srv' = "running" /\ resp'.cmd = "close_session" /\ resp'.status = "SUCCESS"
      BY <2>7 DEF SrvP!Reply, SrvP!Answer
    <3>2. SrvP!UpSessions \ {<<slot[p][k][j], conn[p][k].ctx>>} \subseteq SrvP!UpSessions'
      BY <2>5, <2>7
    <3> QED
      BY <1>8, <2>3, <2>7, <3>1, <3>2, SessionClosedKeeps
  <2> QED
    BY <2>4, <2>6, <2>7
<1>9. ASSUME call[p].cmd = "invoke", NEW st, Srv!InvokeCommand(ContextOf(p), SessionOf(p), st)
      PROVE  Matched'
  <2>1. /\ ContextOf(p) \in givenC /\ SessionOf(p) \in givenS
        /\ SrvP!InvokeCommand(ContextOf(p), SessionOf(p), st)
    BY <1>1, <1>9, SameServer, AsksWithGiven DEF Drv!SessionCommands
  <2>2. PICK ch \in givenC, sh \in givenS : ch = ContextOf(p) /\ sh = SessionOf(p)
    BY <2>1
  <2>3. \/ SrvP!RefusedFor("invoke", ch, sh)
        \/ SrvP!Kept /\ mgen' = mgen /\ SrvP!Reply("invoke", st, ch, sh)
    BY <1>1, <2>1, <2>2, SrvP!InvokeSeen, Parameters
  <2> QED
    BY <1>3, <1>9, <2>3, NothingToldKeeps
    DEF SrvP!Reply, SrvP!Answer, SrvP!RefusedFor, SrvP!Kept
<1>10. ASSUME NEW ok \in BOOLEAN,
              \/ call[p].cmd = "register" /\ Srv!RegisterMemory(ContextOf(p), ok)
              \/ call[p].cmd = "unregister" /\ Srv!UnregisterMemory(ContextOf(p), call[p].j, ok)
       PROVE  Matched'
  <2>1. \/ call[p].cmd = "register" /\ SrvP!RegisterMemory(ContextOf(p), ok)
        \/ call[p].cmd = "unregister" /\ SrvP!UnregisterMemory(ContextOf(p), call[p].j, ok)
    BY <1>10, SameServer
  <2>2. PICK ch, m, cmd : ch = ContextOf(p) /\ m = call[p].j /\ cmd = call[p].cmd
    OBVIOUS
  <2>3. /\ SrvP!Kept /\ mgen' \in {mgen, mgen + 1}
        /\ \/ srv' = "running" /\ resp'.cmd = cmd
           \/ srv' = "returned"
    BY <1>1, <2>1, <2>2, SrvP!MemorySeen, Parameters
  <2> QED
    BY <2>1, <2>2, <2>3, NothingToldKeeps DEF SrvP!Kept
<1> QED
  BY <1>1, <1>4, <1>5, <1>6, <1>7, <1>8, <1>9, <1>10 DEF Process

LEMMA StopKeeps ==
  ASSUME Matched, ServerStops
  PROVE  Matched'
<1>1. /\ srv' = "returned" /\ srv = "running"
      /\ UNCHANGED <<drvVars, chan, torn, cactive, chandle, sactive, shandle, tapp, owner,
                     numC, givenC, givenS, mgen>>
  BY DEF ServerStops, Srv!Disconnect, Srv!StopAsIs, Srv!Stop, Srv!Unchanged,
         Srv!cvars, Srv!svars, Srv!gvars, Srv!mvars
<1>2. /\ SrvP!OpenContexts' = SrvP!OpenContexts /\ SrvP!UpSessions' = SrvP!UpSessions
      /\ HandlesSentAreActive /\ (\A q, cmd : Good(q, cmd)' <=> Good(q, cmd))
  BY <1>1 DEF SrvP!OpenContexts, SrvP!UpSessions, HandlesSentAreActive, Good
<1>3. OnWay' /\ \A q \in Client : Given(q)'
  BY <1>1 DEF Matched, OnWay, Given, Drv!Waiting, drvVars
<1>4. Distinct'
  BY <1>1, <1>2 DEF Matched, Distinct, drvVars
<1>5. Agree'
  BY <1>1, <1>2 DEF Matched, Agree, HasContext, HasSession, ContextOf, drvVars
<1>6. Counted' = Counted
  BY <1>1, <1>2 DEF Counted, drvVars
<1> QED
  BY <1>1, <1>3, <1>4, <1>5, <1>6 DEF Matched

-----------------------------------------------------------------------------
(* The invariant of the system.                                            *)

LEMMA SystemStarts == Init => SysInv
<1> SUFFICES ASSUME Init PROVE SysInv
  OBVIOUS
<1>1. DrvP!IInv /\ SrvP!IInv
  BY SameDriver, SameServer, Parameters, DrvP!InitSatisfies, SrvP!InitKeeps DEF Init
<1>2. /\ conn = [p \in Client |-> [k \in Conns |-> [Drv!FreeConn EXCEPT !.table = (k = 1)]]]
      /\ slot = [p \in Client |-> [k \in Conns |-> [j \in Slots |-> None]]]
      /\ call = [p \in Client |-> Drv!NoCall]
      /\ gen = 0 /\ givenC = {} /\ numC = 0 /\ chan = Quiet
  BY DEF Init, Drv!Init, Srv!Init, Conns, Slots, None, Drv!Conns, Drv!Slots
<1>3. /\ \A p \in Client, k \in Conns : ~conn[p][k].used
      /\ \A p \in Client, k \in Conns, j \in Slots : slot[p][k][j] = None
      /\ \A p \in Client : call[p].cmd = "none"
      /\ \A p, cmd : ~Good(p, cmd)
  BY <1>2 DEF Drv!FreeConn, Drv!NoCall, Good, Quiet
<1>4. gen <= MaxHandles
  BY <1>2, SystemAssumption
<1>5. OnWay /\ \A p \in Client : Given(p)
  BY <1>2, <1>3 DEF OnWay, Given
<1>6. Distinct /\ Agree
  BY <1>3 DEF Distinct, Agree, HasContext, HasSession
<1>7. Counted = {}
  BY <1>2 DEF Counted
<1>8. Cardinality(Counted) <= numC
  BY <1>2, <1>7, FS_EmptySet
<1> QED
  BY <1>1, <1>4, <1>5, <1>6, <1>8 DEF SysInv, Matched

LEMMA SystemKeeps == SysInv /\ [Next]_vars => SysInv'
<1> SUFFICES ASSUME SysInv, [Next]_vars PROVE SysInv'
  OBVIOUS
<1>1. DrvP!IInv /\ SrvP!IInv /\ gen <= MaxHandles /\ Matched /\ OnWay /\ \A p \in Client : Given(p)
  BY DEF SysInv, Matched
<1>2. DrvP!IInv' /\ SrvP!IInv'
  BY <1>1, PartsKeep
<1>3. gen' <= MaxHandles
  <2>1. [SrvP!Next]_(SrvP!vars)
    BY <1>1, ServerSteps, SameServer
    DEF srvVars, SrvP!vars, SrvP!cvars, SrvP!svars, SrvP!mvars, SrvP!gvars
  <2>2. gen' = gen \/ (gen < MaxHandles /\ gen' = gen + 1)
    <3>1. \/ SrvP!ContextOpened \/ SrvP!ContextClosed \/ SrvP!SessionOpened \/ SrvP!SessionClosed
          \/ SrvP!TablesUntouched \/ UNCHANGED SrvP!vars
      BY <1>1, <2>1, SrvP!StepEffects, Parameters
    <3>2. CASE SrvP!ContextOpened \/ SrvP!SessionOpened
      BY <3>2 DEF SrvP!ContextOpened, SrvP!SessionOpened
    <3>3. CASE SrvP!ContextClosed \/ SrvP!SessionClosed \/ SrvP!TablesUntouched
      BY <3>3 DEF SrvP!ContextClosed, SrvP!SessionClosed, SrvP!TablesUntouched
    <3>4. CASE UNCHANGED SrvP!vars
      BY <3>4 DEF SrvP!vars, SrvP!gvars
    <3> QED
      BY <3>1, <3>2, <3>3, <3>4
  <2>3. gen \in Nat
    BY <1>1 DEF SrvP!IInv, SrvP!TablesInv, SrvP!TypeTables
  <2> QED
    BY <1>1, <2>2, <2>3, SystemAssumption
<1>4. Matched'
  <2>1. ASSUME NEW p \in Client, Request(p) \/ ExchangeFails(p) \/ Die(p) PROVE Matched'
    BY <1>1, <1>2, <2>1, RequestFades, FailureFades, DeathFades, FadesKeeps
  <2>2. ASSUME NEW p \in Client, Serve(p) PROVE Matched'
    BY <1>1, <1>2, <2>2, ServeKeeps
  <2>3. ASSUME NEW p \in Client, Deliver(p) PROVE Matched'
    BY <1>1, <1>2, <2>3, DeliverKeeps
  <2>4. CASE UNCHANGED vars
    <3>1. /\ SrvP!OpenContexts' = SrvP!OpenContexts /\ SrvP!UpSessions' = SrvP!UpSessions
          /\ (HandlesSentAreActive' <=> HandlesSentAreActive)
          /\ (\A q, cmd : Good(q, cmd)' <=> Good(q, cmd))
      BY <2>4 DEF vars, srvVars, SrvP!OpenContexts, SrvP!UpSessions, HandlesSentAreActive, Good
    <3>2. OnWay' /\ \A q \in Client : Given(q)'
      BY <1>1, <2>4 DEF OnWay, Given, Drv!Waiting, vars, drvVars, srvVars
    <3>3. Distinct'
      BY <1>1, <2>4, <3>1 DEF Matched, Distinct, vars, drvVars
    <3>4. (HandlesSentAreActive => Agree)'
      BY <1>1, <2>4, <3>1 DEF Matched, Agree, HasContext, HasSession, ContextOf, vars, drvVars
    <3>5. Counted' = Counted
      BY <2>4, <3>1 DEF Counted, vars, drvVars, srvVars
    <3> QED
      BY <1>1, <2>4, <3>2, <3>3, <3>4, <3>5 DEF Matched, vars, srvVars
  <2> QED
    BY <1>1, <2>1, <2>2, <2>3, <2>4, StopKeeps DEF Next
<1> QED
  BY <1>2, <1>3, <1>4 DEF SysInv

\* In every reachable state both parts are sound by themselves, and what each
\* driver holds, waits for and is about to be told is what the server has: the
\* invariant the properties of the whole path follow from.
THEOREM SystemInvariant == Spec => []SysInv
BY SystemStarts, SystemKeeps, PTL DEF Spec

\* The answer that comm_proc hands to a process is the answer to the request
\* that process wrote, however clients interleave, give up or die.
THEOREM AnswersCorrect == Spec => []AnswerFitsRequest
<1>1. SysInv => AnswerFitsRequest
  BY DEF SysInv, Matched, OnWay, AnswerFitsRequest
<1> QED
  BY <1>1, SystemInvariant, PTL

\* No context and no session is reachable through two connections or slots, of
\* one process or of two: the handles sk_drv_nwld_tapi.c files away are kept
\* apart from the moment the server answers them.
THEOREM HandlesApart == Spec => []NothingShared
<1>1. SysInv => NothingShared
  BY DEF SysInv, Matched, Distinct, NothingShared, ContextHeld, SessionHeld, Conns, Slots, None
<1> QED
  BY <1>1, SystemInvariant, PTL

\* As long as the server has not failed an assertion, each connection a driver
\* holds is an active context of the server, and each session slot a session of
\* that context whose TApp is up.
THEOREM DriverAgrees == Spec => []DriverAgreesWithServer
<1>1. ASSUME SysInv, HandlesSentAreActive, NEW p \in Client, NEW k \in 1..MaxConns
      PROVE  /\ ContextHeld(p, k) => conn[p][k].ctx \in Srv!OpenContexts
             /\ \A j \in 1..MaxSlots : SessionHeld(p, k, j) =>
                  \E s \in Srv!Sess : /\ sactive[s] /\ tapp[s] = "up"
                                      /\ shandle[s] = slot[p][k][j]
                                      /\ owner[s] = conn[p][k].ctx
  <2>1. Agree /\ OnWay
    BY <1>1 DEF SysInv, Matched
  <2>2. \A cmd : Good(p, cmd) => ClosedAt(p, cmd)
    BY <2>1, GoodIsAwaited DEF ClosedAt, Good
  <2>3. ContextHeld(p, k) => HasContext(p, k)
    BY <2>2 DEF ContextHeld, HasContext
  <2>4. \A j \in 1..MaxSlots : SessionHeld(p, k, j) => HasSession(p, k, j)
    BY <2>2, <2>3 DEF SessionHeld, HasSession, None
  <2>5. \A sh, ch : <<sh, ch>> \in SrvP!UpSessions =>
          \E s \in Srv!Sess : sactive[s] /\ tapp[s] = "up" /\ shandle[s] = sh /\ owner[s] = ch
    BY DEF SrvP!UpSessions, SrvP!Sess, Srv!Sess
  <2>6. ContextHeld(p, k) => conn[p][k].ctx \in Srv!OpenContexts
    BY <2>1, <2>3, SameServer DEF Agree, Conns
  <2>7. ASSUME NEW j \in 1..MaxSlots, SessionHeld(p, k, j)
        PROVE  \E s \in Srv!Sess : /\ sactive[s] /\ tapp[s] = "up"
                                  /\ shandle[s] = slot[p][k][j]
                                  /\ owner[s] = conn[p][k].ctx
    <3>1. <<slot[p][k][j], conn[p][k].ctx>> \in SrvP!UpSessions
      BY <2>1, <2>4, <2>7 DEF Agree, Conns, Slots
    <3> QED
      BY <2>5, <3>1
  <2> QED
    BY <2>6, <2>7
<1>2. SysInv => DriverAgreesWithServer
  BY <1>1 DEF DriverAgreesWithServer
<1> QED
  BY <1>2, SystemInvariant, PTL

\* The drivers, put on one channel and one server, run as NwldTapi says, so
\* what is proved of the driver holds in the system.
THEOREM RunsDrivers == Spec => DriverSpec
<1>1. Init => Drv!Init
  BY DEF Init
<1>2. SysInv /\ [Next]_vars => [UNCHANGED drvVars \/ Drv!Next]_drvVars
  BY DriverSteps DEF SysInv, Matched
<1> QED
  BY <1>1, <1>2, SystemInvariant, PTL DEF Spec, DriverSpec

\* The server gets only the requests SwldTapi allows for, with handles that
\* clients were given, so what is proved of the server holds in the system.
THEOREM RunsServer == Spec => ServerSpec
<1>1. Init => Srv!Init
  BY DEF Init
<1>2. SysInv /\ [Next]_vars => [UNCHANGED srvVars \/ Srv!Next]_srvVars
  BY ServerSteps DEF SysInv, Matched
<1> QED
  BY <1>1, <1>2, SystemInvariant, PTL DEF Spec, ServerSpec

-----------------------------------------------------------------------------
(* Steps: what trips the server's assertions, and the promise of Exchange. *)

\* An assertion on a handle fails only over one that a lost answer was about;
\* the one on the count only when there was a lost answer at all.
LEMMA AssertsOnTorn ==
  ASSUME SysInv, NEW p \in Client, Serve(p)
  PROVE  /\ srv' = "assert_active" => HandlesSent(p) \cap torn # {}
         /\ srv' = "assert_count" => torn # {}
<1>1. /\ DrvP!IInv /\ SrvP!IInv /\ Matched /\ Given(p) /\ SrvP!TablesInv /\ SrvP!TypeMemory
      /\ Drv!Waiting(p) /\ Process(p)
  BY ServeSeen DEF Serve, SysInv, Matched, SrvP!IInv
<1>2. CASE call[p].cmd = "open_context" /\ Srv!OpenContext(TRUE)
  <2>1. srv' \notin {"assert_active", "assert_count"}
    BY <1>1, <1>2, SameServer, SrvP!OpenContextSeen, Parameters DEF SrvP!Refused, SrvP!Reply
  <2> QED
    BY <2>1
<1>3. CASE call[p].cmd = "close_context" /\ Srv!CloseContext(ContextOf(p))
  <2>1. ContextOf(p) \in givenC /\ SrvP!CloseContext(ContextOf(p))
    BY <1>1, <1>3, SameServer, AsksWithGiven
  <2>2. PICK ch \in givenC : ch = ContextOf(p)
    BY <2>1
  <2>3. /\ srv' = "assert_active" => ch \notin SrvP!OpenContexts
        /\ srv' = "assert_count" => numC = 0
    BY <1>1, <2>1, <2>2, SrvP!CloseContextSeen, Parameters DEF SrvP!Refused, SrvP!Reply
  <2>4. ASSUME srv' = "assert_active" PROVE HandlesSent(p) \cap torn # {}
    <3>1. ContextOf(p) \in torn
      BY <1>1, <1>3, <2>2, <2>3, <2>4, NamesOpenOrTorn
    <3>2. HandlesSent(p) = {ContextOf(p)}
      BY <1>3 DEF HandlesSent, Drv!ContextCommands, Drv!SessionCommands
    <3> QED
      BY <3>1, <3>2
  <2>5. ASSUME srv' = "assert_count", torn = {} PROVE FALSE
    <3>1. PICK k \in Conns : k = call[p].k /\ conn[p][k].used
      BY <1>1, <1>3, WaitsOnLive
    <3>2. conn[p][k].ctx \in Counted
      BY <1>1, <3>1, ServeSeen DEF Counted, Given
    <3>3. Cardinality(Counted) <= 0 /\ Cardinality(Counted) \in Nat /\ IsFiniteSet(Counted)
      BY <1>1, <2>3, <2>5, CountedFinite DEF Matched
    <3>4. Counted = {}
      BY <3>3, FS_EmptySet
    <3> QED
      BY <3>2, <3>4
  <2> QED
    BY <2>4, <2>5
<1>4. ASSUME call[p].cmd = "open_session", NEW out \in Srv!LoadOutcome,
             Srv!OpenSession(ContextOf(p), out)
      PROVE  /\ srv' = "assert_active" => HandlesSent(p) \cap torn # {}
             /\ srv' # "assert_count"
  <2>1. ContextOf(p) \in givenC /\ SrvP!OpenSession(ContextOf(p), out) /\ out \in SrvP!LoadOutcome
    BY <1>1, <1>4, SameServer, AsksWithGiven
  <2>2. PICK ch \in givenC : ch = ContextOf(p)
    BY <2>1
  <2>3. (srv' = "assert_active" => ch \notin SrvP!OpenContexts) /\ srv' # "assert_count"
    BY <1>1, <2>1, <2>2, SrvP!OpenSessionSeen, Parameters DEF SrvP!Refused
  <2>4. HandlesSent(p) = {ContextOf(p)}
    BY <1>4 DEF HandlesSent, Drv!ContextCommands, Drv!SessionCommands
  <2>5. ContextOf(p) \in SrvP!OpenContexts \/ ContextOf(p) \in torn
    BY <1>1, <1>4, NamesOpenOrTorn
  <2> QED
    BY <2>2, <2>3, <2>4, <2>5
<1>5. ASSUME call[p].cmd \in Drv!SessionCommands, NEW ch \in givenC, NEW sh \in givenS,
             ch = ContextOf(p), sh = SessionOf(p), SrvP!RefusedFor(call[p].cmd, ch, sh)
      PROVE  /\ srv' = "assert_active" => HandlesSent(p) \cap torn # {}
             /\ srv' # "assert_count"
  <2>1. HandlesSent(p) = {ch, sh} /\ call[p].cmd # "open_context"
    BY <1>5 DEF HandlesSent, Drv!ContextCommands, Drv!SessionCommands
  <2>2. ch \in SrvP!OpenContexts \/ ch \in torn
    BY <1>1, <1>5, <2>1, NamesOpenOrTorn
  <2>3. {ch, sh} \cap torn # {} \/ <<sh, ch>> \in SrvP!UpSessions
    BY <1>1, <1>5, <2>1, NamesOpenOrTorn
  <2> QED
    BY <1>5, <2>1, <2>2, <2>3 DEF SrvP!RefusedFor, SrvP!Refused
<1>6. CASE call[p].cmd = "close_session" /\ Srv!CloseSession(ContextOf(p), SessionOf(p))
  <2>1. /\ ContextOf(p) \in givenC /\ SessionOf(p) \in givenS
        /\ SrvP!CloseSession(ContextOf(p), SessionOf(p))
    BY <1>1, <1>6, SameServer, AsksWithGiven DEF Drv!SessionCommands
  <2>2. PICK ch \in givenC, sh \in givenS : ch = ContextOf(p) /\ sh = SessionOf(p)
    BY <2>1
  <2>3. SrvP!RefusedFor("close_session", ch, sh) \/ SrvP!Reply("close_session", "SUCCESS", ch, sh)
    BY <1>1, <2>1, <2>2, SrvP!CloseSessionSeen, Parameters
  <2> QED
    BY <1>5, <1>6, <2>2, <2>3 DEF SrvP!Reply, Drv!SessionCommands
<1>7. ASSUME call[p].cmd = "invoke", NEW st, Srv!InvokeCommand(ContextOf(p), SessionOf(p), st)
      PROVE  /\ srv' = "assert_active" => HandlesSent(p) \cap torn # {}
             /\ srv' # "assert_count"
  <2>1. /\ ContextOf(p) \in givenC /\ SessionOf(p) \in givenS
        /\ SrvP!InvokeCommand(ContextOf(p), SessionOf(p), st)
    BY <1>1, <1>7, SameServer, AsksWithGiven DEF Drv!SessionCommands
  <2>2. PICK ch \in givenC, sh \in givenS : ch = ContextOf(p) /\ sh = SessionOf(p)
    BY <2>1
  <2>3. SrvP!RefusedFor("invoke", ch, sh) \/ SrvP!Reply("invoke", st, ch, sh)
    BY <1>1, <2>1, <2>2, SrvP!InvokeSeen, Parameters
  <2> QED
    BY <1>5, <1>7, <2>2, <2>3 DEF SrvP!Reply, Drv!SessionCommands
<1>8. ASSUME \/ Srv!BadHeader
             \/ \E ok \in BOOLEAN : \/ Srv!RegisterMemory(ContextOf(p), ok)
                                    \/ Srv!UnregisterMemory(ContextOf(p), call[p].j, ok)
      PROVE  srv' \notin {"assert_active", "assert_count"}
  BY <1>8 DEF Srv!BadHeader, Srv!RegisterMemory, Srv!UnregisterMemory, Srv!StopAsIs, Srv!Stop, Srv!Reply
<1> QED
  BY <1>1, <1>2, <1>3, <1>4, <1>6, <1>7, <1>8 DEF Process

\* tapi.c asserts on handles that clients send.  What the drivers send on their
\* own never trips these assertions: it takes an answer that was lost, about the
\* very handle that is sent or, for the count, about any.
THEOREM TornOnly == Spec => OnlyTornClosesAssert
<1>1. ASSUME SysInv, [Next]_vars, srv = "running"
      PROVE  /\ srv' = "assert_active" =>
                  \E p \in Client : Serve(p) /\ HandlesSent(p) \cap torn # {}
             /\ srv' = "assert_count" => torn # {}
  <2>1. CASE \E p \in Client : Serve(p)
    BY <1>1, <2>1, AssertsOnTorn
  <2>2. CASE ~\E p \in Client : Serve(p)
    <3>1. srv' = srv \/ srv' = "returned"
      BY <1>1, <2>2
      DEF Next, Request, Deliver, ExchangeFails, Die, ServerStops, srvVars, vars,
          Srv!Disconnect, Srv!StopAsIs, Srv!Stop
    <3> QED
      BY <1>1, <3>1
  <2> QED
    BY <2>1, <2>2
<1> QED
  BY <1>1, SystemInvariant, PTL DEF OnlyTornClosesAssert, Spec

\* Where the call of a process is, as Exchange sees it.
At(p) == IF ~Drv!Waiting(p) THEN "idle" ELSE IF chan.to = p THEN "served" ELSE "asked"
Phase == [p \in Client |-> At(p)]

LEMMA PhaseMoves ==
  ASSUME NEW p \in Client, \A q \in Client \ {p} : At(q)' = At(q)
  PROVE  Phase' = [Phase EXCEPT ![p] = At(p)']
BY DEF Phase

LEMMA OthersStay ==
  ASSUME NEW p \in Client, NEW q \in Client \ {p},
         proc'[q] = proc[q], call'[q] = call[q], chan'.to = q <=> chan.to = q
  PROVE  At(q)' = At(q)
BY DEF At, Drv!Waiting, Drv!NoCall, Drv!None

LEMMA ChannelSteps ==
  ASSUME SysInv, [Next]_vars
  PROVE  Channel!Next \/ Phase' = Phase
<1>1. /\ DrvP!IInv /\ Matched /\ OnWay
      /\ Phase = [p \in Client |-> IF ~Drv!Waiting(p) THEN "idle"
                                   ELSE IF chan.to = p THEN "served" ELSE "asked"]
  BY DEF SysInv, Matched, Phase, At
<1>2. \A p \in Client : Phase[p] = At(p)
  BY DEF Phase
<1>3. ASSUME NEW p \in Client, Fades(p)
      PROVE  Phase' = [Phase EXCEPT ![p] = At(p)']
  <2>1. \A q \in Client \ {p} :
          proc'[q] = proc[q] /\ call'[q] = call[q] /\ (chan'.to = q <=> chan.to = q)
    BY <1>3, NobodyIsNoClient DEF Fades
  <2> QED
    BY <2>1, OthersStay, PhaseMoves
<1>4. ASSUME NEW p \in Client, Phase' = [Phase EXCEPT ![p] = At(p)'], At(p)' = At(p)
      PROVE  Phase' = Phase
  BY <1>4 DEF Phase
<1>5. ASSUME NEW p \in Client, Request(p) PROVE Channel!Next \/ Phase' = Phase
  <2>1. Fades(p) /\ At(p) = "idle" /\ chan' = chan /\ chan.to # p
    <3>1. call[p] = Drv!NoCall /\ chan' = chan
      BY <1>5 DEF Request, Drv!OpenContext, Drv!ContextRequest, Drv!SessionRequest, Drv!Idle
    <3>2. ~Drv!Waiting(p)
      BY <3>1 DEF Drv!Waiting
    <3> QED
      BY <1>1, <1>5, <3>1, <3>2, RequestFades, NobodyIsNoClient DEF At, OnWay
  <2>2. At(p)' \in {"idle", "asked"}
    BY <2>1 DEF At
  <2>3. CASE At(p)' = "idle"
    BY <1>3, <1>4, <2>1, <2>3
  <2>4. CASE At(p)' = "asked"
    <3>1. Channel!Ask(p)
      BY <1>2, <1>3, <2>1, <2>4 DEF Channel!Ask, Phase, At
    <3> QED
      BY <3>1 DEF Channel!Next
  <2> QED
    BY <2>2, <2>3, <2>4
<1>6. ASSUME NEW p \in Client, Serve(p) PROVE Channel!Next \/ Phase' = Phase
  <2>1. /\ chan = Quiet /\ Drv!Waiting(p) /\ UNCHANGED <<proc, call>>
        /\ chan'.to = p \/ chan' = Quiet
    BY <1>6 DEF Serve, drvVars
  <2>2. \A q \in Client \ {p} : At(q)' = At(q)
    BY <2>1, NobodyIsNoClient, OthersStay
  <2>3. /\ At(p) = "asked" /\ \A q \in Client : At(q) # "served"
        /\ At(p)' = IF chan'.to = p THEN "served" ELSE "asked"
    BY <2>1, NobodyIsNoClient DEF At, Drv!Waiting, Drv!NoCall, Drv!None
  <2>4. Phase' = [Phase EXCEPT ![p] = At(p)']
    BY <2>2, PhaseMoves
  <2>5. CASE chan'.to # p
    BY <1>4, <2>3, <2>4, <2>5
  <2>6. CASE chan'.to = p
    <3>1. Channel!Serve(p)
      BY <1>2, <2>3, <2>4, <2>6 DEF Channel!Serve, Phase, At
    <3> QED
      BY <3>1 DEF Channel!Next
  <2> QED
    BY <2>5, <2>6
<1>7. ASSUME NEW p \in Client, Deliver(p) PROVE Channel!Next
  <2>1. chan.to = p /\ chan' = Quiet /\ Drv!Waiting(p) /\ (Fades(p) \/ Delivered(p))
    BY <1>1, <1>7, DeliverySeen DEF Deliver, Drv!Receive
  <2>2. \A q \in Client \ {p} : proc'[q] = proc[q] /\ call'[q] = call[q]
    BY <1>1, <2>1, AfterDelivery DEF Fades
  <2>3. \A q \in Client \ {p} : At(q)' = At(q)
    BY <2>1, <2>2, NobodyIsNoClient, OthersStay
  <2>4. ~Drv!Waiting(p)'
    <3>1. call' = [call EXCEPT ![p] = Drv!NoCall]
      BY <1>7 DEF Deliver, Drv!Receive, Drv!GiveUp, Drv!ContextOpened, Drv!ContextClosed,
                  Drv!SessionOpened, Drv!SessionClosed, Drv!Return
    <3>2. call'[p] = Drv!NoCall
      BY <1>1, <3>1, DriverTypes
    <3> QED
      BY <3>2 DEF Drv!Waiting, Drv!NoCall, Drv!None
  <2>5. At(p) = "served" /\ At(p)' = "idle"
    BY <2>1, <2>4 DEF At
  <2>6. Channel!Return(p)
    BY <1>2, <2>3, <2>5, PhaseMoves DEF Channel!Return, Phase, At
  <2> QED
    BY <2>6 DEF Channel!Next
<1>8. ASSUME NEW p \in Client, ExchangeFails(p) \/ Die(p) PROVE Channel!Next \/ Phase' = Phase
  <2>1. Fades(p)
    BY <1>1, <1>8, FailureFades, DeathFades
  <2>2. call'[p] = Drv!NoCall
    BY <1>1, <1>8, DriverTypes
    DEF ExchangeFails, Drv!ExchangeFails, Drv!GiveUp, Die, Drv!Die
  <2>3. At(p)' = "idle"
    BY <2>2 DEF At, Drv!Waiting, Drv!NoCall, Drv!None
  <2>4. CASE At(p) = "idle"
    BY <1>3, <1>4, <2>1, <2>3, <2>4
  <2>5. CASE At(p) # "idle"
    <3>1. Channel!Fail(p)
      BY <1>2, <1>3, <2>1, <2>3, <2>5 DEF Channel!Fail, Phase, At
    <3> QED
      BY <3>1 DEF Channel!Next
  <2> QED
    BY <2>4, <2>5
<1>9. CASE ServerStops \/ UNCHANGED vars
  <2>1. UNCHANGED <<proc, call, chan>>
    BY <1>9 DEF ServerStops, drvVars, vars
  <2> QED
    BY <2>1 DEF Phase, At, Drv!Waiting, Drv!NoCall, Drv!None
<1> QED
  BY <1>5, <1>6, <1>7, <1>8, <1>9 DEF Next

\* The lock of comm_proc, the request and the answer keep the promise of
\* Exchange: one request at a time in the server, and its answer to the process
\* that asked before the next.
THEOREM ChannelCorrect == Spec => ExchangeSpec
<1>1. Init => Channel!Init
  <2> SUFFICES ASSUME Init PROVE Channel!Init
    OBVIOUS
  <2>1. \A p \in Client : ~Drv!Waiting(p)
    BY DEF Init, Drv!Init, Drv!Waiting
  <2> QED
    BY <2>1 DEF Channel!Init
<1>2. SysInv /\ [Next]_vars => [Channel!Next]_Phase
  BY ChannelSteps
<1> QED
  BY <1>1, <1>2, SystemInvariant, PTL DEF Spec, ExchangeSpec, Channel!Spec, Phase, At
=============================================================================
