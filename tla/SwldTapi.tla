------------------------------ MODULE SwldTapi ------------------------------
(***************************************************************************)
(* The secure world server sk_swld_tapi (swld/tapi.c): the table of        *)
(* contexts, the table of sessions all contexts share, the session lists   *)
(* threaded through that table, the list of registered memory regions, and *)
(* the request handlers.  One action is one request, from the byte the     *)
(* dispatch loop receives to the answer it leaves in msend.                *)
(*                                                                         *)
(* Handles are 16 random bytes; they are numbers drawn from a counter      *)
(* here, so that "fresh" is explicit (two equal draws are not modelled),   *)
(* and 0 is the all-zero handle of a slot never used.  A memory region is  *)
(* the number of its registration.  TAIDs, PIDs, access times and          *)
(* operation buffers are left out.                                         *)
(***************************************************************************)
EXTENDS Naturals, FiniteSets

CONSTANTS
  MaxContexts,  \* SK_TAPI_MAX_CONNECTIONS_PER_CONTEXT, slots of ctable
  MaxSessions,  \* SK_TAPI_MAX_SESSIONS_PER_CONTEXT, slots of stable
  MaxHandles,   \* bound of the model: handles drawn from the generator
  MaxRegions,   \* bound of the model: memory regions ever registered
  Commands      \* the requests clients send in this instance

AllCommands == {"open_context", "close_context", "open_session",
                "close_session", "invoke", "register", "unregister",
                "check", "bad_header", "disconnect"}

ASSUME BoundsAssumption ==
  /\ MaxContexts \in Nat \ {0}
  /\ MaxSessions \in Nat \ {0}
  /\ MaxHandles \in Nat
  /\ MaxRegions \in Nat
  /\ Commands \subseteq AllCommands

None     == 0   \* the null pointer, and the all-zero handle
Ctx      == 1..MaxContexts
Sess     == 1..MaxSessions
Region   == 1..MaxRegions

VARIABLES
  srv,      \* what became of the dispatch loop, see Server
  cactive, chandle, cstart, cnum,        \* conn.ctable, one function per field
  sactive, shandle, snext, sprev, tapp,  \* conn.stable, one function per field
  numC,     \* conn.num_ctable_elements
  numS,     \* conn.num_stable_elements
  gen,      \* handles drawn from the generator so far
  mhead, mnext, mprev, mcount,  \* rmem: head, links, mem_region_count
  mlive,    \* the regions allocated and not freed
  mgen,     \* regions allocated so far
  resp,     \* the last request and the status answered to it
  owner,    \* history: the context handle that opened the session in a slot
  givenC, givenS  \* history: handles clients were given, stale ones included

cvars == <<cactive, chandle, cstart, cnum, numC>>
svars == <<sactive, shandle, snext, sprev, tapp, numS, owner>>
mvars == <<mhead, mnext, mprev, mcount, mlive, mgen>>
gvars == <<gen, givenC, givenS>>
vars  == <<srv, resp, cvars, svars, mvars, gvars>>

(***************************************************************************)
(* The loop runs, or dispatch returned an error, or a SYSV_ASSERT ended    *)
(* the process, or the code left the tables (undefined behaviour).         *)
(***************************************************************************)
Server == {"running", "returned", "assert_slot", "assert_active",
           "assert_count", "fault"}

Status == {"SUCCESS", "BAD_CONTEXT_ID", "OPEN_CONTEXT", "OPEN_SESSION",
           "CONTEXT_HANDLE_NOT_FOUND", "SESSION_HANDLE_NOT_FOUND",
           "TAPP_LOAD", "TAPP_CALL", "TAPP_TIMEOUT", "NONE"}

Answer(cmd, st, ch, sh) == [cmd |-> cmd, status |-> st, ch |-> ch, sh |-> sh]

NoAnswer == Answer("none", "NONE", None, None)

Init ==
  /\ srv = "running"
  /\ cactive = [c \in Ctx |-> FALSE]
  /\ chandle = [c \in Ctx |-> None]
  /\ cstart  = [c \in Ctx |-> None]
  /\ cnum    = [c \in Ctx |-> 0]
  /\ numC    = 0
  /\ sactive = [s \in Sess |-> FALSE]
  /\ shandle = [s \in Sess |-> None]
  /\ snext   = [s \in Sess |-> None]
  /\ sprev   = [s \in Sess |-> None]
  /\ tapp    = [s \in Sess |-> "none"]
  /\ numS    = 0
  /\ owner   = [s \in Sess |-> None]
  /\ gen     = 0
  /\ mhead   = None
  /\ mnext   = [m \in Region |-> None]
  /\ mprev   = [m \in Region |-> None]
  /\ mcount  = 0
  /\ mlive   = {}
  /\ mgen    = 0
  /\ resp    = NoAnswer
  /\ givenC  = {}
  /\ givenS  = {}

-----------------------------------------------------------------------------
(* Searches of the tables.                                                 *)

\* i is the first slot of the table whose active byte is 0.
FirstFree(active, Slots, i) ==
  /\ i \in Slots
  /\ ~active[i]
  /\ \A j \in Slots : j < i => active[j]

\* i is the first slot whose handle bytes are h, whether it is active or not.
FindHandle(handles, Slots, h, i) ==
  /\ i \in Slots
  /\ handles[i] = h
  /\ \A j \in Slots : j < i => handles[j] # h

Unknown(handles, Slots, h) == \A i \in Slots : handles[i] # h

\* The handle drawn next.  16 bytes of the generator are taken as fresh, which is
\* an assumption: the code never compares a draw with the tables.  A bug draws
\* with a short period.
ShortPeriod == 1 + (gen % 2)
NextHandle  == gen + 1

\* s is met by the walk "st = start; st != 0; st = st->next": it is in every
\* set that holds the start and is closed under next.
Attached(c, s) ==
  /\ s \in Sess
  /\ \A S \in SUBSET Sess :
       /\ cstart[c] # None => cstart[c] \in S
       /\ \A t \in S : snext[t] # None => snext[t] \in S
       => s \in S

-----------------------------------------------------------------------------
(* How a request ends.                                                     *)

Reply(cmd, st, ch, sh) == srv' = "running" /\ resp' = Answer(cmd, st, ch, sh)

\* No reply: dispatch leaves its loop, or the process dies.
Stop(how) ==
  /\ srv' = how
  /\ resp' = NoAnswer

Unchanged == UNCHANGED <<cvars, svars, mvars, gvars>>

Refuse(cmd, st, ch, sh) == Reply(cmd, st, ch, sh) /\ Unchanged
StopAsIs(how)           == Stop(how) /\ Unchanged

-----------------------------------------------------------------------------
(* Contexts.                                                               *)

\* sk_swld_tapi_open_context_nw.  sameId: the request names the context id
\* this server was given in sk_swld_tapi_init.
OpenContext(sameId) ==
  /\ srv = "running"
  /\ \/ /\ ~sameId
        /\ Refuse("open_context", "BAD_CONTEXT_ID", None, None)
     \/ /\ sameId
        /\ numC >= MaxContexts
        /\ Refuse("open_context", "OPEN_CONTEXT", None, None)
     \/ /\ sameId
        /\ numC < MaxContexts
        /\ \A c \in Ctx : cactive[c]
        /\ StopAsIs("assert_slot")
     \/ /\ sameId
        /\ numC < MaxContexts
        /\ gen < MaxHandles
        /\ \E c \in Ctx :
             /\ FirstFree(cactive, Ctx, c)
             /\ cactive' = [cactive EXCEPT ![c] = TRUE]
             /\ chandle' = [chandle EXCEPT ![c] = NextHandle]
             /\ UNCHANGED <<cstart, cnum>>
        /\ gen' = gen + 1
        /\ numC' = numC + 1
        /\ givenC' = givenC \cup {NextHandle}
        /\ Reply("open_context", "SUCCESS", NextHandle, None)
        /\ UNCHANGED <<svars, mvars, givenS>>

\* A bug: the context goes whether it has sessions or not.
RemoveContextAnyway(c) ==
  /\ cactive' = [cactive EXCEPT ![c] = FALSE]
  /\ cstart'  = [cstart EXCEPT ![c] = None]
  /\ cnum'    = [cnum EXCEPT ![c] = 0]

\* sk_swld_tapi_remove_context without force: a context with sessions is left
\* as it is, and the caller does not look at the error.
RemoveContext(c) ==
  IF cnum[c] > 0
  THEN UNCHANGED <<cactive, cstart, cnum>>
  ELSE /\ cactive' = [cactive EXCEPT ![c] = FALSE]
       /\ cstart'  = [cstart EXCEPT ![c] = None]
       /\ cnum'    = [cnum EXCEPT ![c] = 0]

\* sk_swld_tapi_close_context_nw.  The handle bytes stay in the table.
CloseContext(ch) ==
  /\ srv = "running"
  /\ \/ /\ Unknown(chandle, Ctx, ch)
        /\ Refuse("close_context", "CONTEXT_HANDLE_NOT_FOUND", ch, None)
     \/ \E c \in Ctx :
          /\ FindHandle(chandle, Ctx, ch, c)
          /\ \/ /\ ~cactive[c]
                /\ StopAsIs("assert_active")
             \/ /\ cactive[c]
                /\ RemoveContext(c)
                /\ UNCHANGED <<chandle, svars, mvars, gvars>>
                /\ \/ /\ numC > 0
                      /\ numC' = numC - 1
                      /\ Reply("close_context", "SUCCESS", ch, None)
                   \/ /\ numC = 0
                      /\ UNCHANGED numC
                      /\ Stop("assert_count")

-----------------------------------------------------------------------------
(* Sessions.                                                               *)

\* A bug: the new slot becomes the start and the others are dropped.
AppendSessionFirst(c, s) ==
  /\ cstart' = [cstart EXCEPT ![c] = s]
  /\ snext' = [snext EXCEPT ![s] = None]
  /\ sprev' = [sprev EXCEPT ![s] = None]

\* The tail of open_session_nw: the slot goes to the end of the context's
\* list; start and the last element are the only others touched.
AppendSession(c, s) ==
  \/ /\ cstart[c] = None
     /\ cstart' = [cstart EXCEPT ![c] = s]
     /\ snext' = [snext EXCEPT ![s] = None]
     /\ sprev' = [sprev EXCEPT ![s] = None]
  \/ /\ cstart[c] # None
     /\ \E t \in Sess :
          /\ Attached(c, t)
          /\ snext[t] = None
          /\ snext' = [snext EXCEPT ![s] = None, ![t] = s]
          /\ sprev' = [sprev EXCEPT ![s] = t]
     /\ UNCHANGED cstart

\* A bug: the error of sk_swld_platform_tapp_init is not looked at.
LoadUnchecked ==
  { [status |-> "SUCCESS",   tapp |-> "up"],
    [status |-> "TAPP_LOAD", tapp |-> "none"],
    [status |-> "SUCCESS",   tapp |-> "loaded"] }

\* tapp_load, then sk_swld_platform_tapp_init: the status answered and what
\* is left in the session's slot.
LoadOutcome ==
  { [status |-> "SUCCESS",      tapp |-> "up"],
    [status |-> "TAPP_LOAD",    tapp |-> "none"],
    [status |-> "TAPP_CALL",    tapp |-> "loaded"],
    [status |-> "TAPP_TIMEOUT", tapp |-> "loaded"] }

\* sk_swld_tapi_open_session_nw.  The slot is taken before the TApp is loaded,
\* and it stays taken when loading or initialising fails.
OpenSession(ch, out) ==
  /\ srv = "running"
  /\ \/ /\ Unknown(chandle, Ctx, ch)
        /\ Refuse("open_session", "CONTEXT_HANDLE_NOT_FOUND", ch, None)
     \/ \E c \in Ctx :
          /\ FindHandle(chandle, Ctx, ch, c)
          /\ \/ /\ ~cactive[c]
                /\ StopAsIs("assert_active")
             \/ /\ cactive[c]
                /\ cnum[c] >= MaxSessions
                /\ Refuse("open_session", "OPEN_SESSION", ch, None)
             \/ /\ cactive[c]
                /\ cnum[c] < MaxSessions
                /\ \A s \in Sess : sactive[s]
                /\ StopAsIs("fault")
             \/ /\ cactive[c]
                /\ cnum[c] < MaxSessions
                /\ gen < MaxHandles
                /\ \E s \in Sess :
                     /\ FirstFree(sactive, Sess, s)
                     /\ sactive' = [sactive EXCEPT ![s] = TRUE]
                     /\ shandle' = [shandle EXCEPT ![s] = NextHandle]
                     /\ owner'   = [owner EXCEPT ![s] = ch]
                     /\ tapp'    = [tapp EXCEPT ![s] = out.tapp]
                     /\ AppendSession(c, s)
                /\ cnum' = [cnum EXCEPT ![c] = @ + 1]
                /\ numS' = numS + 1
                /\ gen' = gen + 1
                /\ givenS' = IF out.status = "SUCCESS"
                             THEN givenS \cup {NextHandle} ELSE givenS
                /\ Reply("open_session", out.status, ch,
                         IF out.status = "SUCCESS" THEN NextHandle ELSE None)
                /\ UNCHANGED <<cactive, chandle, numC, mvars, givenC>>

\* The links of remove_session.
UnlinkSession(c, s) ==
  \/ /\ cstart[c] = s
     /\ cstart' = [cstart EXCEPT ![c] = snext[s]]
     /\ snext'  = [snext EXCEPT ![s] = None]
     /\ sprev'  = [t \in Sess |->
                     IF t = s \/ t = snext[s] THEN None ELSE sprev[t]]
  \/ /\ cstart[c] # s
     /\ UNCHANGED cstart
     /\ snext'  = [t \in Sess |-> IF t = s THEN None
                                  ELSE IF t = sprev[s] THEN snext[s]
                                  ELSE snext[t]]
     /\ sprev'  = [t \in Sess |-> IF t = s THEN None
                                  ELSE IF t = snext[s] THEN sprev[s]
                                  ELSE sprev[t]]

\* A bug: the next session keeps its prev.
RemoveSessionOneWay(c, s) ==
  /\ cstart' = [cstart EXCEPT ![c] = IF @ = s THEN snext[s] ELSE @]
  /\ snext'  = [t \in Sess |-> IF t = s THEN None
                               ELSE IF t = sprev[s] THEN snext[s] ELSE snext[t]]
  /\ sprev'  = [sprev EXCEPT ![s] = None]
  /\ sactive' = [sactive EXCEPT ![s] = FALSE]
  /\ cnum' = [cnum EXCEPT ![c] = @ - 1]
  /\ numS' = numS - 1

\* A bug: the sessions of the server are not counted down.
RemoveSessionUncounted(c, s) ==
  /\ UnlinkSession(c, s)
  /\ sactive' = [sactive EXCEPT ![s] = FALSE]
  /\ cnum' = [cnum EXCEPT ![c] = @ - 1]
  /\ UNCHANGED numS

\* A bug: the context keeps pointing at the session it lost.
RemoveSessionKeepStart(c, s) ==
  /\ sactive' = [sactive EXCEPT ![s] = FALSE]
  /\ cnum' = [cnum EXCEPT ![c] = @ - 1]
  /\ numS' = numS - 1
  /\ UNCHANGED <<cstart, snext, sprev>>

\* sk_swld_tapi_remove_session: unlink the slot, clear it, count down.
RemoveSession(c, s) ==
  /\ UnlinkSession(c, s)
  /\ sactive' = [sactive EXCEPT ![s] = FALSE]
  /\ cnum' = [cnum EXCEPT ![c] = @ - 1]
  /\ numS' = numS - 1

\* sk_swld_tapi_find_objects and the way its callers answer its errors.
NotFound(cmd, ch, sh) ==
  \/ /\ Unknown(chandle, Ctx, ch)
     /\ Refuse(cmd, "CONTEXT_HANDLE_NOT_FOUND", ch, sh)
  \/ \E c \in Ctx :
       /\ FindHandle(chandle, Ctx, ch, c)
       /\ \/ /\ ~cactive[c]
             /\ StopAsIs("assert_active")
          \/ /\ cactive[c]
             /\ Unknown(shandle, Sess, sh)
             /\ Refuse(cmd, "SESSION_HANDLE_NOT_FOUND", ch, sh)
          \/ /\ cactive[c]
             /\ \E s \in Sess :
                  /\ FindHandle(shandle, Sess, sh, s)
                  /\ \/ ~sactive[s] /\ StopAsIs("assert_active")
                     \/ /\ sactive[s]
                        /\ ~Attached(c, s)   \* SK_ERROR_VERIFY_FAILED
                        /\ StopAsIs("returned")

\* A bug: the walk that ties the session to the context is left out.
FoundAnywhere(ch, sh, c, s) ==
  /\ FindHandle(chandle, Ctx, ch, c)
  /\ FindHandle(shandle, Sess, sh, s)
  /\ cactive[c]
  /\ sactive[s]

\* sk_swld_tapi_find_objects succeeds with slots c and s.
Found(ch, sh, c, s) ==
  /\ FindHandle(chandle, Ctx, ch, c)
  /\ FindHandle(shandle, Sess, sh, s)
  /\ cactive[c]
  /\ sactive[s]
  /\ Attached(c, s)

\* sk_swld_tapi_close_session_nw.  Errors of tapp_close and tapp_unload are
\* only logged.
CloseSession(ch, sh) ==
  /\ srv = "running"
  /\ \/ NotFound("close_session", ch, sh)
     \/ \E c \in Ctx, s \in Sess :
          /\ Found(ch, sh, c, s)
          /\ RemoveSession(c, s)
          /\ tapp' = [tapp EXCEPT ![s] = "none"]
          /\ Reply("close_session", "SUCCESS", ch, sh)
          /\ UNCHANGED <<cactive, chandle, numC, shandle, owner, mvars, gvars>>

\* sk_swld_tapi_invoke_command_nw.  st is what sk_swld_platform_tapp_pull
\* made of the call.
InvokeCommand(ch, sh, st) ==
  /\ srv = "running"
  /\ \/ NotFound("invoke", ch, sh)
     \/ \E c \in Ctx, s \in Sess :
          /\ Found(ch, sh, c, s)
          /\ Refuse("invoke", st, ch, sh)

-----------------------------------------------------------------------------
(* Registered memory: one list for the server, in order of registration.   *)

MAttached(m) ==
  /\ m \in Region
  /\ \A S \in SUBSET Region :
       /\ mhead # None => mhead \in S
       /\ \A t \in S : mnext[t] # None => mnext[t] \in S
       => m \in S

\* sk_swld_tapi_register_memory_nw.  ok: both allocations succeed; there is no
\* answer when one fails, or when the context is unknown.  A closed context
\* whose handle is still in the table will do.
RegisterMemory(ch, ok) ==
  /\ srv = "running"
  /\ \/ /\ Unknown(chandle, Ctx, ch) \/ ~ok
        /\ StopAsIs("returned")
     \/ /\ ~Unknown(chandle, Ctx, ch)
        /\ ok
        /\ mgen < MaxRegions
        /\ \/ /\ mhead = None
              /\ mhead' = mgen + 1
              /\ UNCHANGED <<mnext, mprev>>
           \/ /\ mhead # None
              /\ \E t \in Region :
                   /\ MAttached(t)
                   /\ mnext[t] = None
                   /\ mnext' = [mnext EXCEPT ![t] = mgen + 1]
                   /\ mprev' = [mprev EXCEPT ![mgen + 1] = t]
              /\ UNCHANGED mhead
        /\ mgen' = mgen + 1
        /\ mlive' = mlive \cup {mgen + 1}
        /\ mcount' = mcount + 1
        /\ Reply("register", "SUCCESS", ch, mgen + 1)
        /\ UNCHANGED <<cvars, svars, gvars>>

\* A bug: the next region keeps its prev.
UnlinkRegionOneWay(m) ==
  /\ mhead' = IF mhead = m THEN mnext[m] ELSE mhead
  /\ mnext' = [t \in Region |->
                 IF mhead # m /\ t = mprev[m] THEN mnext[m] ELSE mnext[t]]
  /\ UNCHANGED mprev

\* The links of unregister_memory_nw; the node's own are left.
UnlinkRegion(m) ==
  \/ /\ mhead = m
     /\ mhead' = mnext[m]
     /\ mprev' = [t \in Region |-> IF t = mnext[m] THEN None ELSE mprev[t]]
     /\ UNCHANGED mnext
  \/ /\ mhead # m
     /\ mnext' = [t \in Region |-> IF t = mprev[m] THEN mnext[m] ELSE mnext[t]]
     /\ mprev' = [t \in Region |-> IF t = mnext[m] THEN mprev[m] ELSE mprev[t]]
     /\ UNCHANGED mhead

\* sk_swld_tapi_unregister_memory_nw.  ok: the platform frees the region; when
\* it does not, the node is off the list and leaked, and nothing is answered.
UnregisterMemory(ch, m, ok) ==
  /\ srv = "running"
  /\ \/ /\ Unknown(chandle, Ctx, ch) \/ ~MAttached(m)
        /\ StopAsIs("returned")
     \/ /\ ~Unknown(chandle, Ctx, ch)
        /\ MAttached(m)
        /\ UnlinkRegion(m)
        /\ mcount' = mcount - 1
        /\ mlive' = IF ok THEN mlive \ {m} ELSE mlive
        /\ \/ ok /\ Reply("unregister", "SUCCESS", ch, m)
           \/ ~ok /\ Stop("returned")
        /\ UNCHANGED <<mgen, cvars, svars, gvars>>

-----------------------------------------------------------------------------
(* The rest of sk_swld_tapi_dispatch and sk_swld_tapi_process.             *)

\* sk_swld_tapi_check_nw with the limits as shipped: a 32-bit difference is
\* never above 0xffffffff, so nothing expires; but the walk looks at its first
\* session before it tests that there is one.
Check ==
  /\ srv = "running"
  /\ \/ /\ \E c \in Ctx : cactive[c] /\ cstart[c] = None
        /\ StopAsIs("fault")
     \/ /\ \A c \in Ctx : cactive[c] => cstart[c] # None
        /\ Refuse("check", "SUCCESS", None, None)

\* A header with another context id or sm id or an unknown command: process
\* returns the error, and dispatch leaves its loop before it can answer.
BadHeader == srv = "running" /\ StopAsIs("returned")

\* tapi_recv_msg fails: the client is gone.
Disconnect == srv = "running" /\ StopAsIs("returned")

Next ==
  \/ "open_context" \in Commands /\ \E sameId \in BOOLEAN : OpenContext(sameId)
  \/ "close_context" \in Commands /\ \E ch \in givenC : CloseContext(ch)
  \/ "open_session" \in Commands
     /\ \E ch \in givenC, out \in LoadOutcome : OpenSession(ch, out)
  \/ "close_session" \in Commands
     /\ \E ch \in givenC, sh \in givenS : CloseSession(ch, sh)
  \/ "invoke" \in Commands
     /\ \E ch \in givenC, sh \in givenS,
           st \in {"SUCCESS", "TAPP_CALL", "TAPP_TIMEOUT"} :
          InvokeCommand(ch, sh, st)
  \/ "register" \in Commands
     /\ \E ch \in givenC, ok \in BOOLEAN : RegisterMemory(ch, ok)
  \/ "unregister" \in Commands
     /\ \E ch \in givenC, m \in 1..mgen, ok \in BOOLEAN :
          UnregisterMemory(ch, m, ok)
  \/ "check" \in Commands /\ Check
  \/ "bad_header" \in Commands /\ BadHeader
  \/ "disconnect" \in Commands /\ Disconnect

Spec == Init /\ [][Next]_vars
-----------------------------------------------------------------------------
(* Properties.                                                             *)

TypeServer ==
  /\ srv \in Server
  /\ resp \in [cmd : AllCommands \cup {"none"}, status : Status, ch : Nat, sh : Nat]

TypeTables ==
  /\ cactive \in [Ctx -> BOOLEAN]
  /\ chandle \in [Ctx -> Nat]
  /\ cstart \in [Ctx -> Sess \cup {None}]
  /\ cnum \in [Ctx -> Nat]
  /\ numC \in Nat
  /\ sactive \in [Sess -> BOOLEAN]
  /\ shandle \in [Sess -> Nat]
  /\ snext \in [Sess -> Sess \cup {None}]
  /\ sprev \in [Sess -> Sess \cup {None}]
  /\ tapp \in [Sess -> {"none", "loaded", "up"}]
  /\ numS \in Nat
  /\ owner \in [Sess -> Nat]
  /\ gen \in Nat
  /\ givenC \in SUBSET Nat
  /\ givenS \in SUBSET Nat

TypeMemory ==
  /\ mhead \in Region \cup {None}
  /\ mnext \in [Region -> Region \cup {None}]
  /\ mprev \in [Region -> Region \cup {None}]
  /\ mcount \in Nat
  /\ mlive \in SUBSET Region
  /\ mgen \in 0..MaxRegions

\* Every field keeps its type; the counters, unsigned in the code, are never
\* taken below 0.
TypeOK == TypeServer /\ TypeTables /\ TypeMemory

\* The sessions that were opened with the context in slot c and not closed.
Members(c) == {s \in Sess : sactive[s] /\ owner[s] = chandle[c]}

FreeSlotsEmpty ==
  /\ \A c \in Ctx : ~cactive[c] => cstart[c] = None /\ cnum[c] = 0
  /\ \A s \in Sess : ~sactive[s] => snext[s] = None /\ sprev[s] = None

StartsFirst ==
  \A c \in Ctx : cstart[c] # None =>
    cstart[c] \in Members(c) /\ sprev[cstart[c]] = None

SessionsOwned ==
  \A s \in Sess : sactive[s] =>
    \E c \in Ctx : /\ cactive[c]
                   /\ owner[s] = chandle[c]
                   /\ sprev[s] = None => cstart[c] = s

NextLinks ==
  \A s \in Sess : snext[s] # None =>
    /\ sactive[snext[s]]
    /\ owner[snext[s]] = owner[s]
    /\ sprev[snext[s]] = s
    /\ shandle[s] < shandle[snext[s]]

PrevLinks == \A s \in Sess : sprev[s] # None => snext[sprev[s]] = s

\* Every live session belongs to a context that is still active, and is linked
\* into that context's list and no other: next and prev mirror each other, the
\* list starts at start, and it runs in the order of opening (tapi.c links the
\* lists by hand in open_session_nw and remove_session).
ListsSound ==
  FreeSlotsEmpty /\ StartsFirst /\ SessionsOwned /\ NextLinks /\ PrevLinks

\* The walk find_objects makes from start meets every session of the context
\* and no session of another one, so a live session is never refused.
WalkFindsMembers ==
  \A c \in Ctx, s \in Sess : cactive[c] => (Attached(c, s) <=> s \in Members(c))

\* The counters the handlers decide on agree with the tables they count
\* (num_connected_sessions, num_stable_elements); num_ctable_elements is never
\* above the number of active contexts.
CountersMatchTables ==
  /\ \A c \in Ctx : cactive[c] => cnum[c] = Cardinality(Members(c))
  /\ numS = Cardinality({s \in Sess : sactive[s]})
  /\ numC <= Cardinality({c \in Ctx : cactive[c]})

\* What the handlers assert on the way: the table counts on entry (tapi.c:57,
\* 579, ...), a count to take a session from (167, 170) or to add one to (908,
\* 911), an empty list in a context about to go (215).
AssertionsHold ==
  /\ numC <= MaxContexts /\ numS <= MaxSessions
  /\ \A c \in Ctx : cnum[c] = 0 => cstart[c] = None
  /\ \A c \in Ctx, s \in Sess : cactive[c] /\ Attached(c, s) => cnum[c] > 0 /\ numS > 0
  /\ (\E s \in Sess : ~sactive[s]) =>
       numS < MaxSessions /\ \A c \in Ctx : cnum[c] < MaxSessions

\* A session whose handle a client holds has its TApp loaded and initialised,
\* and a slot that is free holds no TApp: invoke_command never calls into a
\* TApp that failed to start, and close_session leaks none.
TappFollowsSession ==
  \A s \in Sess : /\ sactive[s] /\ shandle[s] \in givenS => tapp[s] = "up"
                  /\ ~sactive[s] => tapp[s] = "none"

\* The session request just answered was carried out (TApp errors included).
CarriedOut(r) ==
  /\ r.cmd \in {"invoke", "close_session"}
  /\ r.status \in {"SUCCESS", "TAPP_CALL", "TAPP_TIMEOUT"}

\* A session is called or closed only by a request that names the context it
\* was opened with, and no step ends any other session.
OnlyOwnerTouchesSession ==
  [][/\ CarriedOut(resp') =>
          \E s \in Sess : /\ sactive[s]
                          /\ shandle[s] = resp'.sh
                          /\ owner[s] = resp'.ch
     /\ \A s \in Sess : sactive[s] /\ ~sactive'[s] =>
          /\ resp'.cmd = "close_session"
          /\ resp'.sh = shandle[s]
          /\ resp'.ch = owner[s]]_vars

\* While the server runs, the region list holds exactly the regions allocated
\* and not freed, linked both ways, and mem_region_count counts them.
MemoryListSound ==
  srv = "running" =>
    /\ \A m \in Region : MAttached(m) <=> m \in mlive
    /\ mcount = Cardinality(mlive)
    /\ \A m \in mlive : mnext[m] # None => mprev[mnext[m]] = m
    /\ mhead # None => mprev[mhead] = None

\* No two slots hold the same handle, live or stale.  This follows from fresh
\* draws and is no promise of the code's: the proofs need it to say which slot
\* the search by handle finds.
HandlesUnique ==
  /\ \A c, d \in Ctx : chandle[c] = chandle[d] /\ chandle[c] # None => c = d
  /\ \A s, t \in Sess : shandle[s] = shandle[t] /\ shandle[s] # None => s = t
  /\ \A c \in Ctx, s \in Sess : chandle[c] = shandle[s] => chandle[c] = None

\* Handles in the tables and in clients' hands were drawn before.
HandlesDrawn ==
  /\ \A c \in Ctx : chandle[c] <= gen /\ (cactive[c] => chandle[c] # None)
  /\ \A s \in Sess : shandle[s] <= gen /\ (sactive[s] => shandle[s] # None)
  /\ givenC \subseteq 1..gen
  /\ givenS \subseteq 1..gen

RegionLinks(m) ==
  /\ mprev[m] = None => mhead = m
  /\ mprev[m] # None => mprev[m] \in mlive /\ mnext[mprev[m]] = m
  /\ mnext[m] # None =>
       mnext[m] \in mlive /\ mprev[mnext[m]] = m /\ m < mnext[m]

\* The links of the region list, one region at a time: what a step of
\* MemoryListSound needs to know of the list before it.
MemoryLinks ==
  srv = "running" =>
    /\ mlive \subseteq 1..mgen
    /\ mcount = Cardinality(mlive)
    /\ mhead # None => mhead \in mlive /\ mprev[mhead] = None
    /\ \A m \in mlive : RegionLinks(m)
    /\ \A m \in Region : m > mgen => mnext[m] = None /\ mprev[m] = None

\* The inductive invariant: what every request may count on and leaves behind.
\* The lists are described link by link, in the order of handles, so that no
\* conjunct speaks of a whole walk.
TablesInv ==
  /\ TypeTables
  /\ HandlesDrawn
  /\ HandlesUnique
  /\ ListsSound
  /\ CountersMatchTables
  /\ TappFollowsSession

IInv == TypeServer /\ TablesInv /\ TypeMemory /\ MemoryLinks

OpenContexts == {chandle[c] : c \in {d \in Ctx : cactive[d]}}
OpenSessions == {<<shandle[s], owner[s]>> : s \in {t \in Sess : sactive[t]}}

Tee == INSTANCE TeeSessions WITH
         Handle   <- 1..MaxHandles,
         contexts <- OpenContexts,
         sessions <- OpenSessions,
         issued   <- 1..gen

\* The tables seen as contexts and sessions: the server keeps the promise of
\* TeeSessions to its clients.
TeeSpec == Tee!Spec

\* tapi.c:622 asserts that a free context slot was found, "should never occur
\* here".
ContextSlotFound == srv # "assert_slot"

\* tapi.c:854 says of stable "space is available now find a free spot".
SessionSlotFound == srv # "fault"
=============================================================================
