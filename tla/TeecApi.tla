------------------------------- MODULE TeecApi -------------------------------
(***************************************************************************)
(* The TEE client API (nwld/sk_teec_api.c) on top of the driver: the       *)
(* structures of the caller, and which connection and session of the       *)
(* driver a call through them reaches.                                     *)
(*                                                                         *)
(* A structure SKTEEC_Context holds the index of a connection, a structure *)
(* SKTEEC_Session that of a session and a pointer to the context's         *)
(* structure, which is read again at every call.  Opening zeroes the       *)
(* structure first, closing a context zeroes it last, closing a session    *)
(* leaves it as it was; index 0 is that of the first connection, 1 here.   *)
(*                                                                         *)
(* A caller passes any structure it ever passed to an open function.  What *)
(* it opened and has not closed is kept beside as history, and whether it  *)
(* ever used a structure outside of that.                                  *)
(***************************************************************************)
EXTENDS NwldTapi

CONSTANTS
  CtxStruct,   \* the caller's structures
  SessStruct

\* The structures are objects of two C types, and no object is at null.
ASSUME ApiAssumption ==
  /\ CtxStruct \cap SessStruct = {}
  /\ None \notin CtxStruct \cup SessStruct

VARIABLES
  ctx,     \* ctx[p][c]: the handle in the structure
  sess,    \* sess[p][s]: the handle and the context pointer
  pending, \* pending[p]: the structures of the call under way
  opened,  \* history: what the driver opened for a structure, see NotOpened
  careful, \* history: the caller used open structures only
  lost     \* history: lost[p][i]: opens of id i that failed after the count

avars == <<ctx, sess, pending, opened, careful, lost>>
vars  == <<dvars, avars>>

First     == 1
Zeroed    == [handle |-> First, context |-> None]
NotOpened == [conn |-> None, slot |-> None]
NoStruct  == [ctx |-> None, sess |-> None]

ApiInit ==
  /\ Init
  /\ ctx     = [p \in Client |-> [c \in CtxStruct |-> First]]
  /\ sess    = [p \in Client |-> [s \in SessStruct |-> Zeroed]]
  /\ pending = [p \in Client |-> NoStruct]
  /\ opened  = [p \in Client |-> [x \in CtxStruct \cup SessStruct |-> NotOpened]]
  /\ careful = [p \in Client |-> TRUE]
  /\ lost    = [p \in Client |-> [i \in Ids |-> 0]]

IsOpen(p, x) == opened[p][x] # NotOpened

\* An open context, or an open session whose context is open.
Usable(p, x) ==
  /\ IsOpen(p, x)
  /\ x \in SessStruct => IsOpen(p, sess[p][x].context)

Uses(p, ok) == careful' = [careful EXCEPT ![p] = @ /\ ok]

\* The history is kept as long as the caller is careful.
Remember(p, hist) ==
  opened' = [opened EXCEPT ![p] =
    IF careful'[p] THEN hist ELSE [x \in DOMAIN @ |-> NotOpened]]

\* The structures of the call, until the driver has answered it.
Pending(p, c, s) ==
  pending' = [pending EXCEPT ![p] =
    IF call'[p] = NoCall THEN NoStruct ELSE [ctx |-> c, sess |-> s]]

\* The driver counted an open of a context id, and it fails.
Lost(p, i) == lost' = [lost EXCEPT ![p][i] = IF ids'[p][i].used THEN @ + 1 ELSE @]

------------------------------------------------------------------------------
\* SKTEEC_OpenContext.
ApiOpenContext(p, c, cid, ok) ==
  /\ OpenContext(p, cid, ok)
  /\ ctx' = [ctx EXCEPT ![p][c] = First]
  /\ Uses(p, ~IsOpen(p, c))
  /\ Remember(p, [opened[p] EXCEPT ![c] = NotOpened])
  /\ Pending(p, c, None)
  /\ IF call'[p] # NoCall THEN UNCHANGED lost
     ELSE lost' = [lost EXCEPT ![p] = [i \in Ids |->
                     IF ids'[p][i].cnt > ids[p][i].cnt THEN @[i] + 1 ELSE @[i]]]
  /\ UNCHANGED sess

\* SKTEEC_CloseContext, SKTEEC_RegisterMemory, SKTEEC_AllocateSharedMemory and
\* SKTEEC_UnregisterMemory: a request on the connection in the structure.
ApiContextCall(p, cmd, c, m) ==
  /\ ContextRequest(p, cmd, ctx[p][c], m)
  /\ Uses(p, Usable(p, c))
  /\ Remember(p, opened[p])
  /\ Pending(p, c, None)
  /\ UNCHANGED <<ctx, sess, lost>>

\* SKTEEC_OpenSession.
ApiOpenSession(p, c, s) ==
  /\ ContextRequest(p, "open_session", ctx[p][c], None)
  /\ sess' = [sess EXCEPT ![p][s] = Zeroed]
  /\ Uses(p, Usable(p, c) /\ ~Usable(p, s))
  /\ Remember(p, [opened[p] EXCEPT ![s] = NotOpened])
  /\ Pending(p, c, s)
  /\ UNCHANGED <<ctx, lost>>

\* SKTEEC_CloseSession and SKTEEC_InvokeCommand: the connection is the one the
\* context's structure holds now.  Without a pointer to it the process dies.
ApiSessionCall(p, cmd, s) ==
  /\ sess[p][s].context # None
  /\ SessionRequest(p, cmd, ctx[p][sess[p][s].context], sess[p][s].handle)
  /\ Uses(p, Usable(p, s))
  /\ Remember(p, opened[p])
  /\ Pending(p, sess[p][s].context, s)
  /\ UNCHANGED <<ctx, sess, lost>>

NullContext(p, s) ==
  /\ Idle(p) /\ sess[p][s].context = None
  /\ proc' = [proc EXCEPT ![p] = "crashed"]
  /\ Uses(p, FALSE)
  /\ Remember(p, opened[p])
  /\ UNCHANGED <<tables, call, ctx, sess, pending, lost>>

------------------------------------------------------------------------------
\* The connection an answered open_context, the slot an answered open_session
\* was given.
NewConn(p)    == {k \in Conns : conn'[p][k].used /\ ~conn[p][k].used}
NewSlot(p, k) == {j \in Slots : slot'[p][k][j] # None /\ slot[p][k][j] = None}

\* A bug: the handle is not captured.
CapturedNot(j, c) == [handle |-> First, context |-> c]

\* What an answered open_session leaves in the session's structure.
Captured(j, c) == [handle |-> j, context |-> c]

\* The answer, or the error, gets to the function that waits for it.
ApiReturn(p, cmd, ok, h) ==
  LET c == pending[p].ctx
      s == pending[p].sess
      k == call[p].k
      good == ok /\ cmd = call[p].cmd
      keep == UNCHANGED <<ctx, sess, opened, lost>>
  IN /\ Receive(p, cmd, ok, h)
     /\ pending' = [pending EXCEPT ![p] = NoStruct]
     /\ UNCHANGED careful
     /\ CASE call[p].cmd = "open_context" ->
               /\ \/ /\ NewConn(p) = {}
                     /\ Lost(p, call[p].id)
                     /\ UNCHANGED <<ctx, opened>>
                  \/ \E n \in NewConn(p) :
                       /\ ctx' = [ctx EXCEPT ![p][c] = n]
                       /\ Remember(p, [opened[p] EXCEPT ![c] = [conn |-> n, slot |-> None]])
                       /\ UNCHANGED lost
               /\ UNCHANGED sess
          [] call[p].cmd = "open_session" ->
               \/ NewSlot(p, k) = {} /\ keep
               \/ \E j \in NewSlot(p, k) :
                    /\ sess' = [sess EXCEPT ![p][s] = Captured(j, c)]
                    /\ Remember(p, [opened[p] EXCEPT ![s] = [conn |-> k, slot |-> j]])
                    /\ UNCHANGED <<ctx, lost>>
          [] call[p].cmd = "close_context" /\ good ->
               /\ ctx' = [ctx EXCEPT ![p][c] = First]
               /\ opened' = [opened EXCEPT ![p] = [x \in DOMAIN @ |->
                    IF x = c \/ (x \in SessStruct /\ sess[p][x].context = c)
                    THEN NotOpened ELSE @[x]]]
               /\ lost' = [lost EXCEPT ![p] = [i \in Ids |->
                    IF ids'[p][i].used THEN @[i] ELSE 0]]
               /\ UNCHANGED sess
          [] call[p].cmd = "close_session" /\ good ->
               /\ opened' = [opened EXCEPT ![p][s] = NotOpened]
               /\ UNCHANGED <<ctx, sess, lost>>
          [] OTHER -> keep

\* The exchange fails; of an open the count is left.
ApiExchangeFails(p) ==
  /\ ExchangeFails(p)
  /\ pending' = [pending EXCEPT ![p] = NoStruct]
  /\ IF call[p].cmd = "open_context" THEN Lost(p, call[p].id) ELSE UNCHANGED lost
  /\ UNCHANGED <<ctx, sess, opened, careful>>

ApiNext ==
  \E p \in Client :
    \/ \E c \in CtxStruct, cid \in ContextId, ok \in BOOLEAN :
         ApiOpenContext(p, c, cid, ok)
    \/ \E c \in CtxStruct, cmd \in {"close_context", "register"} :
         ApiContextCall(p, cmd, c, None)
    \/ \E c \in CtxStruct, m \in Region : ApiContextCall(p, "unregister", c, m)
    \/ \E c \in CtxStruct, s \in SessStruct : ApiOpenSession(p, c, s)
    \/ \E s \in SessStruct, cmd \in SessionCommands : ApiSessionCall(p, cmd, s)
    \/ \E s \in SessStruct : NullContext(p, s)
    \/ \E cmd \in CallNames, ok \in BOOLEAN, h \in Handle : ApiReturn(p, cmd, ok, h)
    \/ ApiExchangeFails(p)

ApiSpec == ApiInit /\ [][ApiNext]_vars
------------------------------------------------------------------------------
(***************************************************************************)
(* Properties                                                              *)
(***************************************************************************)

OpenOf(p, structs) == {x \in structs : Usable(p, x)}

\* As long as a process uses what it opened, its structures and the driver's
\* tables tell the same: a structure names a connection or slot of its own,
\* and there is no connection and no session without a structure to close it
\* through, however calls failed (SKTEEC_CloseContext zeroes its structure,
\* SKTEEC_CloseSession does not, the driver zeroes connection and slots).
StructuresMatchTables ==
  \A p \in Client : careful[p] /\ proc[p] = "running" /\ call[p] = NoCall =>
    LET Place(s) == <<ctx[p][sess[p][s].context], sess[p][s].handle>>
        C == OpenOf(p, CtxStruct)
        S == OpenOf(p, SessStruct)
    IN /\ {ctx[p][c] : c \in C} = UsedConns(p)
       /\ \A c, d \in C : ctx[p][c] = ctx[p][d] => c = d
       /\ {Place(s) : s \in S} = {at \in Conns \X Slots : at[2] \in UsedSlots(p, at[1])}
       /\ \A s, t \in S : Place(s) = Place(t) => s = t

\* A session call of such a process goes to the connection and the slot that
\* were opened for the structure, although the connection is read through the
\* pointer to the context's structure.
CallsReachOwn ==
  \A p \in Client : careful[p] /\ call[p].cmd \in SessionCommands =>
    opened[p][pending[p].sess] = [conn |-> call[p].k, slot |-> call[p].j]

\* The count of a context id is that of its connections, of the open on its
\* way, and of the opens that failed since the id is in use, which are never
\* taken off again: with none of those an id whose last connection closed is
\* free (sk_drv_nwld_tapi.c lines 264, 307 and 534).
CountExplained ==
  \A p \in Client, i \in Ids :
    ids[p][i].cnt =
      Cardinality(ConnsOn(p, i)) + lost[p][i]
        + (IF call[p].cmd = "open_context" /\ call[p].id = i THEN 1 ELSE 0)
==============================================================================
