--------------------------- MODULE TeecApiProofs ---------------------------
(***************************************************************************)
(* Proofs about the TEE client API, for every number of processes,         *)
(* structures, connections and sessions: it drives the driver as the       *)
(* driver's specification says, it accounts for every count of a context   *)
(* id, and a careful process's structures and the tables tell the same.    *)
(***************************************************************************)
EXTENDS TeecApi, NwldTapiProofs

Opened == [conn : Conns \cup {None}, slot : Slots \cup {None}]
Struct == CtxStruct \cup SessStruct

ApiTyped ==
  /\ ctx     \in [Client -> [CtxStruct -> Conns]]
  /\ sess    \in [Client -> [SessStruct -> [handle : Slots, context : CtxStruct \cup {None}]]]
  /\ pending \in [Client -> [ctx : CtxStruct \cup {None}, sess : SessStruct \cup {None}]]
  /\ opened  \in [Client -> [Struct -> Opened]]
  /\ careful \in [Client -> BOOLEAN]
  /\ lost    \in [Client -> [Ids -> Nat]]

\* CountExplained for one process; the opens that failed are forgotten with the
\* id, which needs that an id that is not in use has none.
Explained(p) ==
  \A i \in Ids :
    /\ ids[p][i].cnt = Cardinality(ConnsOn(p, i)) + lost[p][i] + Opening(p, i)
    /\ ~ids[p][i].used => lost[p][i] = 0

Place(p, s) == <<ctx[p][sess[p][s].context], sess[p][s].handle>>

\* What is open for a careful process is what its structures name, ...
Named(p) ==
  /\ \A c \in CtxStruct : IsOpen(p, c) => opened[p][c] = [conn |-> ctx[p][c], slot |-> None]
  /\ \A s \in SessStruct : IsOpen(p, s) =>
       /\ sess[p][s].context \in CtxStruct
       /\ IsOpen(p, sess[p][s].context)
       /\ opened[p][s] = [conn |-> ctx[p][sess[p][s].context], slot |-> sess[p][s].handle]

\* ... no two name the same, ...
Apart(p) ==
  /\ \A c, d \in CtxStruct : IsOpen(p, c) /\ IsOpen(p, d) /\ ctx[p][c] = ctx[p][d] => c = d
  /\ \A s, t \in SessStruct :
       IsOpen(p, s) /\ IsOpen(p, t) /\ Place(p, s) = Place(p, t) => s = t

\* ... and they name what is in use in the driver's tables.
InTables(p) ==
  /\ \A c \in CtxStruct : IsOpen(p, c) => ctx[p][c] \in UsedConns(p)
  /\ \A k \in UsedConns(p) : \E c \in CtxStruct : IsOpen(p, c) /\ ctx[p][c] = k
  /\ \A s \in SessStruct : IsOpen(p, s) =>
       sess[p][s].handle \in UsedSlots(p, ctx[p][sess[p][s].context])
  /\ \A k \in Conns : \A j \in UsedSlots(p, k) :
       \E s \in SessStruct : IsOpen(p, s) /\ Place(p, s) = <<k, j>>

\* The structures a process waits with are those its call is about.
Asked(p) == call[p] # NoCall =>
  /\ call[p].cmd = "open_context" =>
       pending[p].ctx \in CtxStruct /\ ~IsOpen(p, pending[p].ctx)
  /\ call[p].cmd \in {"close_context", "open_session"} =>
       /\ pending[p].ctx \in CtxStruct /\ IsOpen(p, pending[p].ctx)
       /\ ctx[p][pending[p].ctx] = call[p].k
  /\ call[p].cmd = "open_session" =>
       pending[p].sess \in SessStruct /\ ~IsOpen(p, pending[p].sess)
  /\ call[p].cmd \in SessionCommands =>
       /\ pending[p].sess \in SessStruct
       /\ opened[p][pending[p].sess] = [conn |-> call[p].k, slot |-> call[p].j]

Careful(p) == careful[p] => Named(p) /\ Apart(p) /\ InTables(p) /\ Asked(p)

ApiInv == IInv /\ ApiTyped /\ \A p \in Client : Explained(p) /\ Careful(p)

\* What another process keeps.
ApiAlone(p) ==
  \A q \in Client \ {p} :
    /\ ctx'[q] = ctx[q] /\ sess'[q] = sess[q] /\ pending'[q] = pending[q]
    /\ opened'[q] = opened[q] /\ careful'[q] = careful[q] /\ lost'[q] = lost[q]

ApiKept(p) == ApiTyped' /\ ApiAlone(p) /\ Explained(p)' /\ Careful(p)'

-----------------------------------------------------------------------------
(* The API drives the driver.                                              *)

\* The numbers in the structures are ones the driver's caller may use.
LEMMA HandlesInRange ==
  ASSUME ApiTyped, NEW p \in Client
  PROVE  /\ \A c \in CtxStruct : ctx[p][c] \in Conns /\ ctx[p][c] \in 1..(MaxConns + 1)
         /\ \A s \in SessStruct : /\ sess[p][s].handle \in Slots
                                  /\ sess[p][s].handle \in 1..(MaxSlots + 1)
                                  /\ sess[p][s].context \in CtxStruct \cup {None}
<1>1. \A s \in SessStruct : sess[p][s] \in [handle : Slots, context : CtxStruct \cup {None}]
  BY DEF ApiTyped
<1>2. \A c \in CtxStruct : ctx[p][c] \in Conns
  BY DEF ApiTyped
<1>3. Conns \subseteq 1..(MaxConns + 1) /\ Slots \subseteq 1..(MaxSlots + 1)
  BY DriverAssumption DEF Conns, Slots
<1> QED
  BY <1>1, <1>2, <1>3

\* Every step of the API is a step of the driver or leaves it alone.
LEMMA StepsDrive ==
  ASSUME Typed, ApiTyped, [ApiNext]_vars
  PROVE  [Next]_dvars
<1>1. ASSUME NEW p \in Client, NEW c \in CtxStruct, NEW cid \in ContextId, NEW ok \in BOOLEAN,
             ApiOpenContext(p, c, cid, ok)
      PROVE  Next
  <2>1. OpenContext(p, cid, ok) /\ Idle(p)
    BY <1>1 DEF ApiOpenContext, OpenContext
  <2> QED
    BY <2>1 DEF Next, Request
<1>2. ASSUME NEW p \in Client, NEW c \in CtxStruct, NEW cmd \in {"close_context", "register"},
             ApiContextCall(p, cmd, c, None)
      PROVE  Next
  <2>1. ContextRequest(p, cmd, ctx[p][c], None) /\ Idle(p)
    BY <1>2 DEF ApiContextCall, ContextRequest
  <2>2. cmd \in ContextCommands \ {"unregister"}
    BY DEF ContextCommands
  <2> QED
    BY <2>1, <2>2, HandlesInRange DEF Next, Request
<1>3. ASSUME NEW p \in Client, NEW c \in CtxStruct, NEW m \in Region,
             ApiContextCall(p, "unregister", c, m)
      PROVE  Next
  <2>1. ContextRequest(p, "unregister", ctx[p][c], m) /\ Idle(p)
    BY <1>3 DEF ApiContextCall, ContextRequest
  <2> QED
    BY <2>1, HandlesInRange DEF Next, Request
<1>4. ASSUME NEW p \in Client, NEW c \in CtxStruct, NEW s \in SessStruct,
             ApiOpenSession(p, c, s)
      PROVE  Next
  <2>1. ContextRequest(p, "open_session", ctx[p][c], None) /\ Idle(p)
    BY <1>4 DEF ApiOpenSession, ContextRequest
  <2>2. "open_session" \in ContextCommands \ {"unregister"}
    BY DEF ContextCommands
  <2> QED
    BY <2>1, <2>2, HandlesInRange DEF Next, Request
<1>5. ASSUME NEW p \in Client, NEW s \in SessStruct, NEW cmd \in SessionCommands,
             ApiSessionCall(p, cmd, s)
      PROVE  Next
  <2>1. /\ SessionRequest(p, cmd, ctx[p][sess[p][s].context], sess[p][s].handle) /\ Idle(p)
        /\ sess[p][s].context # None
    BY <1>5 DEF ApiSessionCall, SessionRequest
  <2> QED
    BY <2>1, HandlesInRange DEF Next, Request
<1>6. ASSUME NEW p \in Client, NEW s \in SessStruct, NullContext(p, s)
      PROVE  Next \/ UNCHANGED dvars
  <2>1. proc[p] = "running" /\ call[p] = NoCall /\ UNCHANGED <<tables, call>>
        /\ proc' = [proc EXCEPT ![p] = "crashed"]
    BY <1>6 DEF NullContext, Idle
  <2>2. call' = [call EXCEPT ![p] = NoCall]
    BY <2>1 DEF Typed
  <2> QED
    BY <2>1, <2>2 DEF Next, Die
<1>7. ASSUME NEW p \in Client, NEW cmd \in CallNames, NEW ok \in BOOLEAN, NEW h \in Handle,
             ApiReturn(p, cmd, ok, h)
      PROVE  Next
  <2>1. Receive(p, cmd, ok, h) /\ Waiting(p)
    BY <1>7 DEF ApiReturn, Receive
  <2>2. CASE cmd # "none"
    <3>1. cmd \in {"open_context", "system"} \cup ContextCommands \cup SessionCommands
      BY <2>2 DEF CallNames
    <3> QED
      BY <2>1, <3>1 DEF Next, Answer
  <2>3. CASE cmd = "none"
    \* No request goes by this name: the answer is one that does not fit.
    <3>1. GiveUp(p) /\ UNCHANGED tables
      BY <2>1, <2>3 DEF Receive
    <3> QED
      BY <2>1, <3>1 DEF Next, Answer, ExchangeFails
  <2> QED
    BY <2>2, <2>3
<1>8. ASSUME NEW p \in Client, ApiExchangeFails(p)
      PROVE  Next
  BY <1>8 DEF ApiExchangeFails, ExchangeFails, Next, Answer
<1>9. CASE UNCHANGED vars
  BY <1>9 DEF vars
<1> QED
  BY <1>1, <1>2, <1>3, <1>4, <1>5, <1>6, <1>7, <1>8, <1>9 DEF ApiNext

-----------------------------------------------------------------------------
(* Parts of the steps.                                                     *)

\* Another process keeps what holds of it.
LEMMA ApiOthersKeep ==
  ASSUME NEW p \in Client, Alone(p), ApiAlone(p), NEW q \in Client \ {p},
         Explained(q), Careful(q)
  PROVE  Explained(q)' /\ Careful(q)'
<1>1. /\ ids'[q] = ids[q] /\ conn'[q] = conn[q] /\ slot'[q] = slot[q] /\ call'[q] = call[q]
      /\ ctx'[q] = ctx[q] /\ sess'[q] = sess[q] /\ pending'[q] = pending[q]
      /\ opened'[q] = opened[q] /\ careful'[q] = careful[q] /\ lost'[q] = lost[q]
  BY DEF Alone, ApiAlone
<1>2. /\ UsedConns(q)' = UsedConns(q)
      /\ \A k : UsedSlots(q, k)' = UsedSlots(q, k)
      /\ \A i \in Ids : ConnsOn(q, i)' = ConnsOn(q, i) /\ Opening(q, i)' = Opening(q, i)
      /\ \A x : IsOpen(q, x)' = IsOpen(q, x)
      /\ \A s : Place(q, s)' = Place(q, s)
  BY <1>1 DEF UsedConns, UsedSlots, ConnsOn, Opening, IsOpen, Place
<1>3. Explained(q)'
  BY <1>1, <1>2 DEF Explained
<1>4. (Named(q)' <=> Named(q)) /\ (Apart(q)' <=> Apart(q))
  BY <1>1, <1>2 DEF Named, Apart
<1>5. (InTables(q)' <=> InTables(q)) /\ (Asked(q)' <=> Asked(q))
  BY <1>1, <1>2 DEF InTables, Asked
<1> QED
  BY <1>1, <1>3, <1>4, <1>5 DEF Careful

\* Named, Apart and InTables speak of open structures and of the tables.
LEMMA StructuresSame ==
  ASSUME NEW p \in Client, Named(p), Apart(p), InTables(p),
         \A x \in Struct : opened'[p][x] = opened[p][x],
         \A c \in CtxStruct : IsOpen(p, c) => ctx'[p][c] = ctx[p][c],
         \A s \in SessStruct : IsOpen(p, s) => sess'[p][s] = sess[p][s],
         UsedConns(p)' = UsedConns(p),
         \A k \in Conns : UsedSlots(p, k)' = UsedSlots(p, k),
         \A c \in CtxStruct : ctx[p][c] \in Conns
  PROVE  Named(p)' /\ Apart(p)' /\ InTables(p)'
<1>1. \A x \in Struct : IsOpen(p, x)' <=> IsOpen(p, x)
  BY DEF IsOpen
<1>2. CtxStruct \subseteq Struct /\ SessStruct \subseteq Struct
  BY DEF Struct
<1>3. \A s \in SessStruct : IsOpen(p, s) =>
        /\ sess'[p][s] = sess[p][s]
        /\ sess[p][s].context \in CtxStruct /\ IsOpen(p, sess[p][s].context)
        /\ ctx'[p][sess[p][s].context] = ctx[p][sess[p][s].context]
        /\ Place(p, s)' = Place(p, s)
  <2>1. SUFFICES ASSUME NEW s \in SessStruct, IsOpen(p, s)
                 PROVE  /\ sess'[p][s] = sess[p][s]
                        /\ sess[p][s].context \in CtxStruct /\ IsOpen(p, sess[p][s].context)
                        /\ ctx'[p][sess[p][s].context] = ctx[p][sess[p][s].context]
                        /\ Place(p, s)' = Place(p, s)
    OBVIOUS
  <2>2. sess'[p][s] = sess[p][s] /\ sess[p][s].context \in CtxStruct /\ IsOpen(p, sess[p][s].context)
    BY <2>1 DEF Named
  <2>3. ctx'[p][sess[p][s].context] = ctx[p][sess[p][s].context]
    BY <2>2
  <2>4. Place(p, s)' = Place(p, s)
    BY <2>2, <2>3 DEF Place
  <2> QED
    BY <2>2, <2>3, <2>4
<1>4. Named(p)'
  BY <1>1, <1>2, <1>3 DEF Named
<1>5. Apart(p)'
  BY <1>1, <1>2, <1>3 DEF Apart
<1>6. InTables(p)'
  <2>1. \A c \in CtxStruct : IsOpen(p, c)' => ctx'[p][c] \in UsedConns(p)'
    BY <1>1, <1>2 DEF InTables
  <2>2. \A k \in UsedConns(p)' : \E c \in CtxStruct : IsOpen(p, c)' /\ ctx'[p][c] = k
    BY <1>1, <1>2 DEF InTables
  <2>3. \A s \in SessStruct : IsOpen(p, s)' =>
          (sess[p][s].handle \in UsedSlots(p, ctx[p][sess[p][s].context]))'
    <3>1. ASSUME NEW s \in SessStruct, IsOpen(p, s)'
          PROVE  (sess[p][s].handle \in UsedSlots(p, ctx[p][sess[p][s].context]))'
      <4>1. PICK k \in Conns : k = ctx[p][sess[p][s].context]
        BY <1>1, <1>2, <1>3, <3>1
      <4>2. sess[p][s].handle \in UsedSlots(p, k)'
        BY <1>1, <1>2, <3>1, <4>1 DEF InTables
      <4> QED
        BY <1>1, <1>2, <1>3, <3>1, <4>1, <4>2 DEF UsedSlots
    <3> QED
      BY <3>1
  <2>4. \A k \in Conns : \A j \in UsedSlots(p, k)' :
          \E s \in SessStruct : IsOpen(p, s)' /\ Place(p, s)' = <<k, j>>
    BY <1>1, <1>2, <1>3 DEF InTables
  <2> QED
    BY <2>1, <2>2, <2>3, <2>4 DEF InTables
<1> QED
  BY <1>4, <1>5, <1>6

\* The history of the caller's use.
LEMMA HistoryKept ==
  ASSUME ApiTyped, NEW p \in Client, NEW ok \in BOOLEAN, NEW hist \in [Struct -> Opened],
         Uses(p, ok), Remember(p, hist)
  PROVE  /\ opened' \in [Client -> [Struct -> Opened]] /\ careful' \in [Client -> BOOLEAN]
         /\ careful'[p] => careful[p] /\ ok /\ opened'[p] = hist
         /\ \A q \in Client \ {p} : opened'[q] = opened[q] /\ careful'[q] = careful[q]
<1>1. /\ careful' \in [Client -> BOOLEAN] /\ (careful'[p] => careful[p] /\ ok)
      /\ \A q \in Client \ {p} : careful'[q] = careful[q]
  BY DEF Uses, ApiTyped
<1>2. opened \in [Client -> [Struct -> Opened]] /\ DOMAIN opened[p] = Struct
  BY DEF ApiTyped
<1>3. [x \in Struct |-> NotOpened] \in [Struct -> Opened]
  BY DEF NotOpened, Opened, None
<1>4. opened' = [opened EXCEPT ![p] =
        IF careful'[p] THEN hist ELSE [x \in Struct |-> NotOpened]]
  BY <1>2 DEF Remember
<1> QED
  BY <1>1, <1>2, <1>3, <1>4

LEMMA PendingKept ==
  ASSUME ApiTyped, NEW p \in Client,
         NEW c \in CtxStruct \cup {None}, NEW s \in SessStruct \cup {None}, Pending(p, c, s)
  PROVE  /\ pending' \in [Client -> [ctx : CtxStruct \cup {None}, sess : SessStruct \cup {None}]]
         /\ call'[p] # NoCall => pending'[p].ctx = c /\ pending'[p].sess = s
         /\ \A q \in Client \ {p} : pending'[q] = pending[q]
<1>1. NoStruct \in [ctx : CtxStruct \cup {None}, sess : SessStruct \cup {None}]
  BY DEF NoStruct
<1> QED
  BY <1>1 DEF Pending, ApiTyped

\* Where no count of a context id changes, it is explained as before.
LEMMA ExplainedSame ==
  ASSUME IInv, NEW p \in Client, Explained(p), lost'[p] = lost[p], ids'[p] = ids[p],
         \A i \in Ids : ConnsOn(p, i)' = ConnsOn(p, i),
         call[p].cmd # "open_context", call'[p].cmd # "open_context"
  PROVE  Explained(p)'
<1>1. \A i \in Ids : Opening(p, i)' = 0 /\ Opening(p, i) = 0
  BY DEF Opening
<1> QED
  BY <1>1 DEF Explained

-----------------------------------------------------------------------------
(* The requests.                                                           *)

\* A request on a context or a session leaves the tables alone; what it asks
\* for is what its structures name.
LEMMA RequestOnStructures ==
  ASSUME IInv, ApiTyped, NEW p \in Client, Idle(p), Explained(p), Careful(p),
         NEW ok \in BOOLEAN, NEW hist \in [Struct -> Opened],
         NEW c \in CtxStruct \cup {None}, NEW s \in SessStruct \cup {None},
         UNCHANGED tables, UNCHANGED lost, UNCHANGED ctx,
         sess' \in [Client -> [SessStruct -> [handle : Slots, context : CtxStruct \cup {None}]]],
         \A q \in Client \ {p} : sess'[q] = sess[q],
         Uses(p, ok), Remember(p, hist), Pending(p, c, s),
         call'[p].cmd # "open_context",
         careful[p] /\ ok => \A x \in Struct : hist[x] = opened[p][x],
         careful[p] /\ ok => \A t \in SessStruct : IsOpen(p, t) => sess'[p][t] = sess[p][t],
         careful'[p] => Asked(p)'
  PROVE  ApiKept(p)
<1>1. /\ opened' \in [Client -> [Struct -> Opened]] /\ careful' \in [Client -> BOOLEAN]
      /\ careful'[p] => careful[p] /\ ok /\ opened'[p] = hist
      /\ \A q \in Client \ {p} : opened'[q] = opened[q] /\ careful'[q] = careful[q]
  BY HistoryKept
<1>2. /\ pending' \in [Client -> [ctx : CtxStruct \cup {None}, sess : SessStruct \cup {None}]]
      /\ \A q \in Client \ {p} : pending'[q] = pending[q]
  BY PendingKept
<1>3. ApiTyped'
  BY <1>1, <1>2 DEF ApiTyped
<1>4. ApiAlone(p)
  BY <1>1, <1>2 DEF ApiAlone
<1>5. Explained(p)'
  <2>1. call[p].cmd # "open_context"
    BY DEF Idle, NoCall
  <2> QED
    BY <2>1, TablesSame, ExplainedSame DEF tables
<1>6. ASSUME careful'[p]
      PROVE  Named(p)' /\ Apart(p)' /\ InTables(p)'
  <2>1. careful[p] /\ ok /\ \A x \in Struct : opened'[p][x] = opened[p][x]
    BY <1>1, <1>6
  <2>2. Named(p) /\ Apart(p) /\ InTables(p)
    BY <2>1 DEF Careful
  <2>3. \A x \in CtxStruct : ctx[p][x] \in Conns
    BY HandlesInRange
  <2> QED
    BY <2>1, <2>2, <2>3, TablesSame, StructuresSame
<1> QED
  BY <1>3, <1>4, <1>5, <1>6 DEF ApiKept, Careful

\* What is open for a careful process, and what its sessions point to.
LEMMA HistoryTyped ==
  ASSUME ApiTyped, NEW p \in Client
  PROVE  /\ opened[p] \in [Struct -> Opened] /\ NotOpened \in Opened
         /\ \A x \in Struct : [opened[p] EXCEPT ![x] = NotOpened] \in [Struct -> Opened]
         /\ CtxStruct \subseteq Struct /\ SessStruct \subseteq Struct
BY DEF ApiTyped, NotOpened, Opened, None, Struct

\* SKTEEC_CloseContext and the calls on memory.
LEMMA ContextCallKept ==
  ASSUME IInv, ApiTyped, NEW p \in Client, Explained(p), Careful(p),
         NEW cmd \in {"close_context", "register", "unregister"}, NEW c \in CtxStruct,
         NEW m, ApiContextCall(p, cmd, c, m)
  PROVE  ApiKept(p)
<1>1. /\ Idle(p) /\ UNCHANGED tables /\ UNCHANGED ctx /\ UNCHANGED sess /\ UNCHANGED lost
      /\ Uses(p, Usable(p, c)) /\ Remember(p, opened[p]) /\ Pending(p, c, None)
  BY DEF ApiContextCall, ContextRequest
<1>2. call'[p] # NoCall => call'[p].cmd = cmd /\ call'[p].k = ctx[p][c]
  BY DEF ApiContextCall, ContextRequest, Exchange, GiveUp, IInv, Typed
<1>3. call'[p].cmd # "open_context"
  BY <1>2 DEF NoCall
<1>4. Usable(p, c) \in BOOLEAN
  BY DEF Usable
<1>5. ASSUME careful'[p]
      PROVE  Asked(p)'
  <2>1. Usable(p, c) /\ opened'[p] = opened[p]
    BY <1>1, <1>4, <1>5, HistoryTyped, HistoryKept
  <2>2. IsOpen(p, c)'
    BY <2>1 DEF Usable, IsOpen
  <2>3. call'[p] # NoCall => pending'[p].ctx = c
    BY <1>1, PendingKept
  <2>4. call'[p] # NoCall =>
          /\ call'[p].cmd \notin {"open_context", "open_session"} \cup SessionCommands
          /\ pending'[p].ctx \in CtxStruct /\ (IsOpen(p, pending[p].ctx))'
          /\ ctx'[p][pending'[p].ctx] = call'[p].k
    BY <1>1, <1>2, <2>2, <2>3 DEF SessionCommands, IsOpen
  <2> QED
    BY <2>4 DEF Asked
<1>6. sess \in [Client -> [SessStruct -> [handle : Slots, context : CtxStruct \cup {None}]]]
  BY DEF ApiTyped
<1> QED
  BY <1>1, <1>3, <1>4, <1>5, <1>6, HistoryTyped, RequestOnStructures

\* SKTEEC_OpenSession up to the exchange.
LEMMA OpenSessionKept ==
  ASSUME IInv, ApiTyped, NEW p \in Client, Explained(p), Careful(p),
         NEW c \in CtxStruct, NEW s \in SessStruct, ApiOpenSession(p, c, s)
  PROVE  ApiKept(p)
<1> DEFINE hist == [opened[p] EXCEPT ![s] = NotOpened]
           ok   == Usable(p, c) /\ ~Usable(p, s)
<1>1. /\ Idle(p) /\ UNCHANGED tables /\ UNCHANGED ctx /\ UNCHANGED lost
      /\ sess' = [sess EXCEPT ![p][s] = Zeroed]
      /\ Uses(p, ok) /\ Remember(p, hist) /\ Pending(p, c, s)
  BY DEF ApiOpenSession, ContextRequest
<1>2. call'[p] # NoCall => call'[p].cmd = "open_session" /\ call'[p].k = ctx[p][c]
  BY DEF ApiOpenSession, ContextRequest, Exchange, GiveUp, IInv, Typed
<1>3. call'[p].cmd # "open_context"
  BY <1>2 DEF NoCall
<1>4. ok \in BOOLEAN /\ hist \in [Struct -> Opened]
  BY HistoryTyped
<1>5. /\ sess' \in [Client -> [SessStruct -> [handle : Slots, context : CtxStruct \cup {None}]]]
      /\ \A t \in SessStruct \ {s} : sess'[p][t] = sess[p][t]
      /\ \A q \in Client \ {p} : sess'[q] = sess[q]
  <2>1. Zeroed \in [handle : Slots, context : CtxStruct \cup {None}]
    BY DriverAssumption DEF Zeroed, First, Slots
  <2> QED
    BY <1>1, <2>1, TableEntry DEF ApiTyped
<1>6. careful[p] /\ ok => ~IsOpen(p, s) /\ opened[p][s] = NotOpened
  \* An open session's context is open.
  BY DEF Careful, Named, Usable, IsOpen
<1>7. careful[p] /\ ok => \A x \in Struct : hist[x] = opened[p][x]
  BY <1>6, HistoryTyped
<1>8. careful[p] /\ ok => \A t \in SessStruct : IsOpen(p, t) => sess'[p][t] = sess[p][t]
  BY <1>5, <1>6
<1>9. ASSUME careful'[p]
      PROVE  Asked(p)'
  <2>1. careful[p] /\ ok /\ opened'[p] = hist
    BY <1>1, <1>4, <1>9, HistoryKept
  <2>2. IsOpen(p, c)' /\ ~IsOpen(p, s)'
    <3>1. opened'[p][c] = opened[p][c] /\ opened'[p][s] = NotOpened
      BY <1>6, <1>7, <2>1, HistoryTyped
    <3> QED
      BY <2>1, <3>1 DEF Usable, IsOpen
  <2>3. call'[p] # NoCall => pending'[p].ctx = c /\ pending'[p].sess = s
    BY <1>1, PendingKept
  <2>4. call'[p] # NoCall =>
          /\ call'[p].cmd = "open_session" /\ "open_session" \notin SessionCommands
          /\ pending'[p].ctx \in CtxStruct /\ (IsOpen(p, pending[p].ctx))'
          /\ ctx'[p][pending'[p].ctx] = call'[p].k
          /\ pending'[p].sess \in SessStruct /\ ~(IsOpen(p, pending[p].sess))'
    BY <1>1, <1>2, <2>2, <2>3 DEF SessionCommands, IsOpen
  <2> QED
    BY <2>4 DEF Asked
<1> HIDE DEF hist, ok
<1> QED
  BY <1>1, <1>3, <1>4, <1>5, <1>7, <1>8, <1>9, RequestOnStructures

\* SKTEEC_CloseSession and SKTEEC_InvokeCommand up to the exchange.
LEMMA SessionCallKept ==
  ASSUME IInv, ApiTyped, NEW p \in Client, Explained(p), Careful(p),
         NEW cmd \in SessionCommands, NEW s \in SessStruct, ApiSessionCall(p, cmd, s)
  PROVE  ApiKept(p)
<1> DEFINE c == sess[p][s].context
           k == ctx[p][c]
           j == sess[p][s].handle
<1>1. /\ Idle(p) /\ UNCHANGED tables /\ UNCHANGED ctx /\ UNCHANGED sess /\ UNCHANGED lost
      /\ Uses(p, Usable(p, s)) /\ Remember(p, opened[p]) /\ Pending(p, c, s)
  BY DEF ApiSessionCall, SessionRequest
<1>2. call'[p] # NoCall => call'[p].cmd = cmd /\ call'[p].k = k /\ call'[p].j = j
  BY SMTT(20) DEF ApiSessionCall, SessionRequest, Exchange, GiveUp, IInv, Typed
<1>3. call'[p].cmd # "open_context"
  BY <1>2 DEF NoCall, SessionCommands
<1>4. Usable(p, s) \in BOOLEAN
  BY DEF Usable
<1>5. c \in CtxStruct \cup {None}
  BY HandlesInRange
<1>6. ASSUME careful'[p]
      PROVE  Asked(p)'
  <2>1. Usable(p, s) /\ careful[p] /\ opened'[p] = opened[p]
    BY <1>1, <1>4, <1>6, HistoryTyped, HistoryKept
  <2>2. opened[p][s] = [conn |-> k, slot |-> j]
    BY <2>1 DEF Careful, Named, Usable
  <2>3. call'[p] # NoCall => pending'[p].sess = s
    BY <1>1, <1>5, PendingKept
  <2>4. call'[p] # NoCall =>
          /\ call'[p].cmd \notin {"open_context", "open_session", "close_context"}
          /\ pending'[p].sess \in SessStruct
          /\ opened'[p][pending'[p].sess] = [conn |-> call'[p].k, slot |-> call'[p].j]
    BY <1>1, <1>2, <2>1, <2>2, <2>3 DEF SessionCommands
  <2> QED
    BY <2>4 DEF Asked
<1>7. sess \in [Client -> [SessStruct -> [handle : Slots, context : CtxStruct \cup {None}]]]
  BY DEF ApiTyped
<1> HIDE DEF c, k, j
<1> QED
  BY <1>1, <1>3, <1>4, <1>5, <1>6, <1>7, HistoryTyped, RequestOnStructures

\* A session call without a context to reach it through kills the process.
LEMMA NullContextKept ==
  ASSUME IInv, ApiTyped, NEW p \in Client, Explained(p), Careful(p),
         NEW s \in SessStruct, NullContext(p, s)
  PROVE  ApiKept(p)
<1>1. /\ Idle(p) /\ UNCHANGED <<tables, call, ctx, sess, pending, lost>>
      /\ Uses(p, FALSE) /\ Remember(p, opened[p])
  BY DEF NullContext
<1>2. /\ opened' \in [Client -> [Struct -> Opened]] /\ careful' \in [Client -> BOOLEAN]
      /\ ~careful'[p]
      /\ \A q \in Client \ {p} : opened'[q] = opened[q] /\ careful'[q] = careful[q]
  BY <1>1, HistoryTyped, HistoryKept
<1>3. ApiTyped' /\ ApiAlone(p)
  BY <1>1, <1>2 DEF ApiTyped, ApiAlone
<1>4. Explained(p)'
  <2>1. call[p].cmd # "open_context" /\ call'[p].cmd # "open_context"
    BY <1>1 DEF Idle, NoCall
  <2> QED
    BY <1>1, <2>1, TablesSame, ExplainedSame DEF tables
<1> QED
  BY <1>2, <1>3, <1>4 DEF ApiKept, Careful

\* SKTEEC_OpenContext up to the exchange.
LEMMA OpenContextKept ==
  ASSUME IInv, ApiTyped, NEW p \in Client, Explained(p), Careful(p),
         NEW c \in CtxStruct, NEW cid \in ContextId, NEW ok \in BOOLEAN,
         ApiOpenContext(p, c, cid, ok)
  PROVE  ApiKept(p)
<1> DEFINE hist == [opened[p] EXCEPT ![c] = NotOpened]
           use  == ~IsOpen(p, c)
<1>1. /\ Idle(p) /\ OpenContext(p, cid, ok) /\ UNCHANGED sess
      /\ ctx' = [ctx EXCEPT ![p][c] = First]
      /\ Uses(p, use) /\ Remember(p, hist) /\ Pending(p, c, None)
      /\ IF call'[p] # NoCall THEN UNCHANGED lost
         ELSE lost' = [lost EXCEPT ![p] = [i \in Ids |->
                         IF ids'[p][i].cnt > ids[p][i].cnt THEN lost[p][i] + 1 ELSE lost[p][i]]]
  BY DEF ApiOpenContext, OpenContext
<1>2. \/ UNCHANGED tables /\ call'[p] = NoCall
      \/ \E i \in Ids : CountsUp(p, i)
  BY <1>1, ContextAsked
<1>3. use \in BOOLEAN /\ hist \in [Struct -> Opened]
  BY HistoryTyped
<1>4. /\ opened' \in [Client -> [Struct -> Opened]] /\ careful' \in [Client -> BOOLEAN]
      /\ careful'[p] => careful[p] /\ use /\ opened'[p] = hist
      /\ \A q \in Client \ {p} : opened'[q] = opened[q] /\ careful'[q] = careful[q]
  <2> HIDE DEF hist, use
  <2> QED
    BY <1>1, <1>3, HistoryKept
<1>5. /\ pending' \in [Client -> [ctx : CtxStruct \cup {None}, sess : SessStruct \cup {None}]]
      /\ call'[p] # NoCall => pending'[p].ctx = c
      /\ \A q \in Client \ {p} : pending'[q] = pending[q]
  BY <1>1, PendingKept
<1>6. /\ ctx' \in [Client -> [CtxStruct -> Conns]]
      /\ \A d \in CtxStruct \ {c} : ctx'[p][d] = ctx[p][d]
      /\ \A q \in Client \ {p} : ctx'[q] = ctx[q]
  <2>1. First \in Conns
    BY DriverAssumption DEF First, Conns
  <2> QED
    BY <1>1, <2>1, TableEntry DEF ApiTyped
<1>7. /\ lost' \in [Client -> [Ids -> Nat]]
      /\ \A i \in Ids :
           lost'[p][i] = IF call'[p] = NoCall /\ ids'[p][i].cnt > ids[p][i].cnt
                         THEN lost[p][i] + 1 ELSE lost[p][i]
      /\ \A q \in Client \ {p} : lost'[q] = lost[q]
  <2>1. lost \in [Client -> [Ids -> Nat]]
    BY DEF ApiTyped
  <2>2. CASE call'[p] # NoCall
    BY <1>1, <2>1, <2>2
  <2>3. CASE call'[p] = NoCall
    <3> DEFINE row == [i \in Ids |-> IF ids'[p][i].cnt > ids[p][i].cnt
                                    THEN lost[p][i] + 1 ELSE lost[p][i]]
    <3>1. row \in [Ids -> Nat]
      BY <2>1
    <3>2. lost' = [lost EXCEPT ![p] = row]
      BY <1>1, <2>3
    <3>3. \A i \in Ids : row[i] = IF call'[p] = NoCall /\ ids'[p][i].cnt > ids[p][i].cnt
                                  THEN lost[p][i] + 1 ELSE lost[p][i]
      BY <2>3
    <3> HIDE DEF row
    <3> QED
      BY <2>1, <3>1, <3>2, <3>3
  <2> QED
    BY <2>2, <2>3
<1>8. ApiTyped' /\ ApiAlone(p)
  BY <1>1, <1>4, <1>5, <1>6, <1>7 DEF ApiTyped, ApiAlone
<1>9. Explained(p)'
  <2>1. CASE UNCHANGED tables /\ call'[p] = NoCall
    <3>1. ids'[p] = ids[p] /\ \A i \in Ids : ids[p][i].cnt \in Nat
      BY <2>1, CountsAreNumbers DEF tables, IInv
    <3>2. \A i \in Ids : lost'[p][i] = lost[p][i]
      BY <1>7, <3>1
    <3>3. \A i \in Ids : Opening(p, i) = 0 /\ Opening(p, i)' = 0
      BY <1>1, <2>1 DEF Idle, NoCall, Opening
    <3> QED
      BY <2>1, <3>1, <3>2, <3>3, TablesSame DEF Explained
  <2>2. ASSUME NEW i \in Ids, CountsUp(p, i)
        PROVE  Explained(p)'
    <3> SUFFICES ASSUME NEW n \in Ids
                 PROVE  /\ ids'[p][n].cnt = Cardinality(ConnsOn(p, n)') + lost'[p][n]
                                              + Opening(p, n)'
                        /\ ~ids'[p][n].used => lost'[p][n] = 0
      BY DEF Explained
    <3>1. /\ Cardinality(ConnsOn(p, n)) \in Nat /\ ids[p][n].cnt \in Nat /\ lost[p][n] \in Nat
          /\ ids[p][n].cnt = Cardinality(ConnsOn(p, n)) + lost[p][n] + Opening(p, n)
          /\ ~ids[p][n].used => lost[p][n] = 0
      BY CountsAreNumbers DEF IInv, Explained, ApiTyped
    <3>2. /\ ids'[p][n].cnt = IF n = i THEN ids[p][n].cnt + 1 ELSE ids[p][n].cnt
          /\ ConnsOn(p, n)' = ConnsOn(p, n)
          /\ ids'[p][n].used = (n = i \/ ids[p][n].used)
      BY <2>2 DEF CountsUp
    <3>3. Opening(p, n) = 0
      BY <1>1 DEF Idle, NoCall, Opening
    <3>4. CASE call'[p] = NoCall
      <4>1. Opening(p, n)' = 0
        BY <3>4 DEF Opening, NoCall
      <4>2. lost'[p][n] = IF n = i THEN lost[p][n] + 1 ELSE lost[p][n]
        BY <1>7, <3>1, <3>2, <3>4
      <4>3. ids'[p][n].cnt = Cardinality(ConnsOn(p, n)') + lost'[p][n] + Opening(p, n)'
        BY <3>1, <3>2, <3>3, <4>1, <4>2
      <4> QED
        BY <3>1, <3>2, <4>2, <4>3
    <3>5. CASE call'[p] = [cmd |-> "open_context", id |-> i, k |-> None, j |-> None]
      <4>1. Opening(p, n)' = IF n = i THEN 1 ELSE 0
        BY <3>5 DEF Opening
      <4>2. lost'[p][n] = lost[p][n]
        BY <1>7, <3>5 DEF NoCall
      <4>3. ids'[p][n].cnt = Cardinality(ConnsOn(p, n)') + lost'[p][n] + Opening(p, n)'
        BY <3>1, <3>2, <3>3, <4>1, <4>2
      <4> QED
        BY <3>1, <3>2, <4>2, <4>3
    <3> QED
      BY <2>2, <3>4, <3>5 DEF CountsUp
  <2> QED
    BY <1>2, <2>1, <2>2
<1>10. ASSUME careful'[p]
       PROVE  Named(p)' /\ Apart(p)' /\ InTables(p)' /\ Asked(p)'
  <2>1. /\ careful[p] /\ ~IsOpen(p, c) /\ opened'[p] = hist
        /\ \A x \in Struct : opened'[p][x] = opened[p][x]
    BY <1>4, <1>10, HistoryTyped DEF IsOpen
  <2>2. Named(p) /\ Apart(p) /\ InTables(p)
    BY <2>1 DEF Careful
  <2>3. \A d \in CtxStruct : ctx[p][d] \in Conns /\ (IsOpen(p, d) => ctx'[p][d] = ctx[p][d])
    BY <1>6, <2>1, HandlesInRange
  <2>4. UsedConns(p)' = UsedConns(p) /\ \A k \in Conns : UsedSlots(p, k)' = UsedSlots(p, k)
    BY <1>2, TablesSame DEF CountsUp
  <2>5. Named(p)' /\ Apart(p)' /\ InTables(p)'
    BY <1>1, <2>1, <2>2, <2>3, <2>4, StructuresSame
  <2>6. call'[p] # NoCall => call'[p].cmd = "open_context"
    BY <1>2 DEF CountsUp
  <2>7. call'[p] # NoCall => pending'[p].ctx \in CtxStruct /\ ~(IsOpen(p, pending[p].ctx))'
    BY <1>5, <2>1, HistoryTyped DEF IsOpen
  <2>8. Asked(p)'
    BY <2>6, <2>7 DEF Asked, SessionCommands
  <2> QED
    BY <2>5, <2>8
<1> QED
  BY <1>8, <1>9, <1>10 DEF ApiKept, Careful

-----------------------------------------------------------------------------
(* The answers.                                                            *)

\* The request failed: of an open_context the count is lost.
LEMMA FailureKept ==
  ASSUME IInv, ApiTyped, NEW p \in Client, Waiting(p), Explained(p), Careful(p),
         UNCHANGED tables, call'[p] = NoCall,
         IF call[p].cmd = "open_context" THEN Lost(p, call[p].id) ELSE UNCHANGED lost,
         pending' = [pending EXCEPT ![p] = NoStruct],
         UNCHANGED <<ctx, sess, opened, careful>>
  PROVE  ApiKept(p)
<1>1. PICK i \in Ids : i = call[p].id /\ ids[p][i].used
  BY DEF IInv, DriverInv, Called, Live, Waiting
<1>2. ids'[p] = ids[p]
  BY DEF tables
<1>3. /\ lost' \in [Client -> [Ids -> Nat]]
      /\ \A n \in Ids : lost'[p][n] = lost[p][n] + Opening(p, n)
      /\ \A q \in Client \ {p} : lost'[q] = lost[q]
  <2>1. lost \in [Client -> [Ids -> Nat]] /\ \A n \in Ids : lost[p][n] \in Nat
    BY DEF ApiTyped
  <2>2. CASE call[p].cmd = "open_context"
    <3>1. lost' = [lost EXCEPT ![p][i] = lost[p][i] + 1]
      BY <1>1, <1>2, <2>2 DEF Lost
    <3>2. lost[p][i] + 1 \in Nat
      BY <2>1
    <3>3. /\ lost' \in [Client -> [Ids -> Nat]]
          /\ lost'[p][i] = lost[p][i] + 1
          /\ \A n \in Ids \ {i} : lost'[p][n] = lost[p][n]
          /\ \A q \in Client \ {p} : lost'[q] = lost[q]
      BY <2>1, <3>1, <3>2, TableEntry
    <3>4. \A n \in Ids : Opening(p, n) = IF n = i THEN 1 ELSE 0
      BY <1>1, <2>2 DEF Opening
    <3> QED
      BY <2>1, <3>3, <3>4
  <2>3. CASE call[p].cmd # "open_context"
    BY <2>1, <2>3 DEF Opening
  <2> QED
    BY <2>2, <2>3
<1>4. /\ pending' \in [Client -> [ctx : CtxStruct \cup {None}, sess : SessStruct \cup {None}]]
      /\ \A q \in Client \ {p} : pending'[q] = pending[q]
  BY DEF ApiTyped, NoStruct
<1>5. ApiTyped' /\ ApiAlone(p)
  BY <1>3, <1>4 DEF ApiTyped, ApiAlone
<1>6. Explained(p)'
  <2> SUFFICES ASSUME NEW n \in Ids
               PROVE  /\ ids[p][n].cnt = Cardinality(ConnsOn(p, n)') + lost'[p][n] + Opening(p, n)'
                      /\ ~ids[p][n].used => lost'[p][n] = 0
    BY <1>2 DEF Explained
  <2>1. /\ Cardinality(ConnsOn(p, n)) \in Nat /\ lost[p][n] \in Nat
        /\ ids[p][n].cnt = Cardinality(ConnsOn(p, n)) + lost[p][n] + Opening(p, n)
        /\ ~ids[p][n].used => lost[p][n] = 0
    BY CountsAreNumbers DEF IInv, Explained, ApiTyped
  <2>2. ConnsOn(p, n)' = ConnsOn(p, n) /\ Opening(p, n)' = 0 /\ Opening(p, n) \in {0, 1}
    BY TablesSame DEF Opening, NoCall
  <2>3. ~ids[p][n].used => Opening(p, n) = 0
    BY <1>1 DEF Opening
  <2> QED
    BY <1>3, <2>1, <2>2, <2>3
<1>7. Careful(p)'
  <2> SUFFICES ASSUME careful[p]
               PROVE  Named(p)' /\ Apart(p)' /\ InTables(p)' /\ Asked(p)'
    BY DEF Careful
  <2>1. Named(p) /\ Apart(p) /\ InTables(p) /\ \A c \in CtxStruct : ctx[p][c] \in Conns
    BY HandlesInRange DEF Careful
  <2>2. Named(p)' /\ Apart(p)' /\ InTables(p)'
    BY <2>1, TablesSame, StructuresSame
  <2> QED
    BY <2>2 DEF Asked
<1> QED
  BY <1>5, <1>6, <1>7 DEF ApiKept

\* The driver's connection is put into the context's structure.
LEMMA ContextOpenedKept ==
  ASSUME IInv, ApiTyped, NEW p \in Client, Waiting(p), Explained(p), Careful(p),
         call[p].cmd = "open_context", NEW k, TakesConn(p, k), call'[p] = NoCall,
         NEW c, c = pending[p].ctx,
         ctx' = [ctx EXCEPT ![p][c] = k],
         Remember(p, [opened[p] EXCEPT ![c] = [conn |-> k, slot |-> None]]),
         pending' = [pending EXCEPT ![p] = NoStruct],
         UNCHANGED <<sess, careful, lost>>
  PROVE  ApiKept(p)
<1> DEFINE hist == [opened[p] EXCEPT ![c] = [conn |-> k, slot |-> None]]
<1>1. k \in Conns
  BY DEF TakesConn
<1>2. hist \in [Struct -> Opened] /\ Uses(p, TRUE)
  <2>1. [conn |-> k, slot |-> None] \in Opened
    BY <1>1 DEF Opened
  <2>2. hist \in [Struct -> Opened]
    BY <2>1, HistoryTyped
  <2>3. Uses(p, TRUE)
    BY DEF Uses, ApiTyped
  <2> QED
    BY <2>2, <2>3
<1>3. /\ opened' \in [Client -> [Struct -> Opened]]
      /\ careful[p] => opened'[p] = hist
      /\ \A q \in Client \ {p} : opened'[q] = opened[q]
  <2>1. Remember(p, hist)
    OBVIOUS
  <2> HIDE DEF hist
  <2> QED
    BY <1>2, <2>1, HistoryKept
<1>4. /\ pending' \in [Client -> [ctx : CtxStruct \cup {None}, sess : SessStruct \cup {None}]]
      /\ \A q \in Client \ {p} : pending'[q] = pending[q]
  BY DEF ApiTyped, NoStruct
<1>5. /\ ctx' \in [Client -> [CtxStruct -> Conns]]
      /\ \A q \in Client \ {p} : ctx'[q] = ctx[q]
      /\ \A d \in CtxStruct : ctx'[p][d] = IF d = c THEN k ELSE ctx[p][d]
  <2>1. ctx \in [Client -> [CtxStruct -> Conns]] /\ ctx[p] \in [CtxStruct -> Conns]
    BY DEF ApiTyped
  <2>2. /\ ctx'[p] = [ctx[p] EXCEPT ![c] = k]
        /\ \A q \in Client \ {p} : ctx'[q] = ctx[q]
    BY <2>1
  <2>3. ctx'[p] \in [CtxStruct -> Conns]
    BY <1>1, <2>1, <2>2
  <2> QED
    BY <2>1, <2>2, <2>3
<1>6. ApiTyped' /\ ApiAlone(p)
  BY <1>3, <1>4, <1>5 DEF ApiTyped, ApiAlone
<1>7. Explained(p)'
  <2> SUFFICES ASSUME NEW n \in Ids
               PROVE  /\ ids'[p][n].cnt = Cardinality(ConnsOn(p, n)') + lost[p][n] + Opening(p, n)'
                      /\ ~ids'[p][n].used => lost[p][n] = 0
    BY DEF Explained
  <2>1. /\ Cardinality(ConnsOn(p, n)) \in Nat /\ lost[p][n] \in Nat
        /\ ids[p][n].cnt = Cardinality(ConnsOn(p, n)) + lost[p][n] + Opening(p, n)
        /\ ~ids[p][n].used => lost[p][n] = 0
    BY CountsAreNumbers DEF IInv, Explained, ApiTyped
  <2>2. /\ ids'[p] = ids[p] /\ Opening(p, n)' = 0 /\ Opening(p, n) \in {0, 1}
        /\ Cardinality(ConnsOn(p, n)') = Cardinality(ConnsOn(p, n)) + Opening(p, n)
    BY DEF TakesConn, Opening, NoCall
  <2> QED
    BY <2>1, <2>2
<1>8. ASSUME careful[p]
      PROVE  Named(p)' /\ Apart(p)' /\ InTables(p)' /\ Asked(p)'
  <2>1. Named(p) /\ Apart(p) /\ InTables(p) /\ Asked(p)
    BY <1>8 DEF Careful
  <2>2. c \in CtxStruct /\ ~IsOpen(p, c) /\ c \notin SessStruct
    BY <2>1, ApiAssumption DEF Asked, Waiting
  <2>3. /\ opened'[p][c] = [conn |-> k, slot |-> None]
        /\ \A x \in Struct \ {c} : opened'[p][x] = opened[p][x]
    BY <1>3, <1>8, <2>2, HistoryTyped
  <2>4. /\ IsOpen(p, c)'
        /\ \A d \in CtxStruct \ {c} : (IsOpen(p, d)' <=> IsOpen(p, d)) /\ ctx'[p][d] = ctx[p][d]
        /\ \A s \in SessStruct : (IsOpen(p, s)' <=> IsOpen(p, s)) /\ sess'[p][s] = sess[p][s]
    <3>1. [conn |-> k, slot |-> None] # NotOpened
      BY <1>1, NullIsNoPosition DEF NotOpened
    <3> QED
      BY <1>5, <2>2, <2>3, <3>1 DEF IsOpen, Struct
  <2>5. \A s \in SessStruct : IsOpen(p, s) =>
          /\ sess[p][s].context \in CtxStruct \ {c} /\ IsOpen(p, sess[p][s].context)
          /\ ctx'[p][sess[p][s].context] = ctx[p][sess[p][s].context]
          /\ Place(p, s)' = Place(p, s)
    BY <1>5, <2>1, <2>2 DEF Named, Place
  <2>6. Named(p)'
    <3>1. \A d \in CtxStruct : IsOpen(p, d)' => opened'[p][d] = [conn |-> ctx'[p][d], slot |-> None]
      BY <1>5, <2>1, <2>2, <2>3, <2>4 DEF Named, Struct
    <3>2. \A s \in SessStruct : IsOpen(p, s)' =>
            /\ (IsOpen(p, sess[p][s].context))'
            /\ opened'[p][s] = [conn |-> ctx[p][sess[p][s].context], slot |-> sess[p][s].handle]
      <4>1. \A s \in SessStruct : opened'[p][s] = opened[p][s]
        BY <2>2, <2>3 DEF Struct
      <4> QED
        BY <2>1, <2>4, <2>5, <4>1 DEF Named, IsOpen
    <3> QED
      BY <2>4, <2>5, <3>1, <3>2 DEF Named
  <2>7. Apart(p)'
    <3>1. \A d \in CtxStruct \ {c} : IsOpen(p, d)' => ctx'[p][d] # k
      BY <2>1, <2>4 DEF InTables, TakesConn
    <3>2. \A d, e \in CtxStruct : IsOpen(p, d)' /\ IsOpen(p, e)' /\ ctx'[p][d] = ctx'[p][e] => d = e
      BY <1>5, <2>1, <2>2, <2>4, <3>1 DEF Apart
    <3>3. \A s, t \in SessStruct :
            IsOpen(p, s)' /\ IsOpen(p, t)' /\ Place(p, s)' = Place(p, t)' => s = t
      BY <2>1, <2>4, <2>5 DEF Apart
    <3> QED
      BY <3>2, <3>3 DEF Apart
  <2>8. InTables(p)'
    <3>1. \A d \in CtxStruct : IsOpen(p, d)' => ctx'[p][d] \in UsedConns(p)'
      BY <1>5, <2>1, <2>2, <2>4 DEF InTables, TakesConn
    <3>2. \A m \in UsedConns(p)' : \E d \in CtxStruct : IsOpen(p, d)' /\ ctx'[p][d] = m
      <4> SUFFICES ASSUME NEW m \in UsedConns(p)'
                   PROVE  \E d \in CtxStruct : IsOpen(p, d)' /\ ctx'[p][d] = m
        OBVIOUS
      <4>1. CASE m = k
        BY <1>5, <2>2, <2>4, <4>1
      <4>2. CASE m # k
        <5>1. PICK d \in CtxStruct : IsOpen(p, d) /\ ctx[p][d] = m
          BY <2>1, <4>2 DEF InTables, TakesConn
        <5> QED
          BY <2>2, <2>4, <5>1
      <4> QED
        BY <4>1, <4>2
    <3>3. \A s \in SessStruct : IsOpen(p, s)' =>
            (sess[p][s].handle \in UsedSlots(p, ctx[p][sess[p][s].context]))'
      <4> SUFFICES ASSUME NEW s \in SessStruct, IsOpen(p, s)'
                   PROVE  (sess[p][s].handle \in UsedSlots(p, ctx[p][sess[p][s].context]))'
        OBVIOUS
      <4>1. PICK m \in Conns : m = ctx[p][sess[p][s].context]
        BY <2>4, <2>5, HandlesInRange
      <4>2. sess[p][s].handle \in UsedSlots(p, m)'
        BY <2>1, <2>4, <4>1 DEF InTables, TakesConn
      <4> QED
        BY ZenonT(30), <2>4, <2>5, <4>1, <4>2 DEF UsedSlots
    <3>4. \A m \in Conns : \A j \in UsedSlots(p, m)' :
            \E s \in SessStruct : IsOpen(p, s)' /\ Place(p, s)' = <<m, j>>
      BY <2>1, <2>4, <2>5 DEF InTables, TakesConn
    <3> QED
      BY <3>1, <3>2, <3>3, <3>4 DEF InTables
  <2> QED
    BY <2>6, <2>7, <2>8 DEF Asked
<1> QED
  BY <1>6, <1>7, <1>8 DEF ApiKept, Careful

\* The driver's slot is put into the session's structure.
LEMMA SessionOpenedKept ==
  ASSUME IInv, ApiTyped, NEW p \in Client, Waiting(p), Explained(p), Careful(p),
         call[p].cmd = "open_session", NEW k, k = call[p].k,
         NEW j \in Slots \ UsedSlots(p, k), ChangesSlots(p, k, UsedSlots(p, k) \cup {j}),
         call'[p] = NoCall,
         NEW c, c = pending[p].ctx, NEW s, s = pending[p].sess,
         sess' = [sess EXCEPT ![p][s] = Captured(j, c)],
         Remember(p, [opened[p] EXCEPT ![s] = [conn |-> k, slot |-> j]]),
         pending' = [pending EXCEPT ![p] = NoStruct],
         UNCHANGED <<ctx, careful, lost>>
  PROVE  ApiKept(p)
<1> DEFINE hist == [opened[p] EXCEPT ![s] = [conn |-> k, slot |-> j]]
<1>1. k \in Conns /\ k \in UsedConns(p)
  BY DEF IInv, DriverInv, Live, UsedConns
<1>2. hist \in [Struct -> Opened] /\ Uses(p, TRUE)
  <2>1. [conn |-> k, slot |-> j] \in Opened
    BY <1>1 DEF Opened
  <2>2. hist \in [Struct -> Opened]
    BY <2>1, HistoryTyped
  <2>3. Uses(p, TRUE)
    BY DEF Uses, ApiTyped
  <2> QED
    BY <2>2, <2>3
<1>3. /\ opened' \in [Client -> [Struct -> Opened]]
      /\ careful[p] => opened'[p] = hist
      /\ \A q \in Client \ {p} : opened'[q] = opened[q]
  <2>1. Remember(p, hist)
    OBVIOUS
  <2> HIDE DEF hist
  <2> QED
    BY <1>2, <2>1, HistoryKept
<1>4. /\ pending' \in [Client -> [ctx : CtxStruct \cup {None}, sess : SessStruct \cup {None}]]
      /\ \A q \in Client \ {p} : pending'[q] = pending[q]
  BY DEF ApiTyped, NoStruct
<1> DEFINE Row == [handle : Slots, context : CtxStruct \cup {None}]
<1>5. /\ sess' \in [Client -> [SessStruct -> Row]]
      /\ \A q \in Client \ {p} : sess'[q] = sess[q]
      /\ \A t \in SessStruct : sess'[p][t] = IF t = s THEN Captured(j, c) ELSE sess[p][t]
  <2>1. sess \in [Client -> [SessStruct -> Row]] /\ sess[p] \in [SessStruct -> Row]
    BY DEF ApiTyped
  <2>2. Captured(j, c) \in Row
    <3>1. c \in CtxStruct \cup {None}
      BY DEF ApiTyped
    <3> QED
      BY <3>1 DEF Captured
  <2> HIDE DEF Row
  <2>3. /\ sess'[p] = [sess[p] EXCEPT ![s] = Captured(j, c)]
        /\ \A q \in Client \ {p} : sess'[q] = sess[q]
    BY <2>1
  <2>4. sess'[p] \in [SessStruct -> Row]
    BY <2>1, <2>2, <2>3
  <2> QED
    BY <2>1, <2>3, <2>4
<1>6. ApiTyped' /\ ApiAlone(p)
  BY <1>3, <1>4, <1>5 DEF ApiTyped, ApiAlone
<1>7. Explained(p)'
  BY ExplainedSame DEF ChangesSlots, NoCall
<1>8. ASSUME careful[p]
      PROVE  Named(p)' /\ Apart(p)' /\ InTables(p)' /\ Asked(p)'
  <2>1. Named(p) /\ Apart(p) /\ InTables(p) /\ Asked(p)
    BY <1>8 DEF Careful
  <2>2. /\ c \in CtxStruct /\ IsOpen(p, c) /\ ctx[p][c] = k
        /\ s \in SessStruct /\ ~IsOpen(p, s) /\ s \notin CtxStruct
    BY <2>1, ApiAssumption DEF Asked, Waiting
  <2>3. /\ opened'[p][s] = [conn |-> k, slot |-> j]
        /\ \A x \in Struct \ {s} : opened'[p][x] = opened[p][x]
    BY <1>3, <1>8, <2>2, HistoryTyped
  <2>4. sess'[p][s].handle = j /\ sess'[p][s].context = c
    BY <1>5, <2>2 DEF Captured
  <2>5. /\ IsOpen(p, s)' /\ Place(p, s)' = <<k, j>>
        /\ \A d \in CtxStruct : /\ IsOpen(p, d)' <=> IsOpen(p, d)
                                /\ opened'[p][d] = opened[p][d]
        /\ \A t \in SessStruct \ {s} :
             /\ IsOpen(p, t)' <=> IsOpen(p, t)
             /\ sess'[p][t] = sess[p][t] /\ opened'[p][t] = opened[p][t]
             /\ Place(p, t)' = Place(p, t)
    <3>1. [conn |-> k, slot |-> j] # NotOpened
      BY <1>1, NullIsNoPosition DEF NotOpened
    <3> QED
      BY <1>5, <2>2, <2>3, <2>4, <3>1 DEF IsOpen, Struct, Place
  <2>6. Named(p)'
    <3>1. \A d \in CtxStruct : IsOpen(p, d)' => opened'[p][d] = [conn |-> ctx[p][d], slot |-> None]
      BY <2>1, <2>5 DEF Named
    <3>2. ASSUME NEW t \in SessStruct, IsOpen(p, t)'
          PROVE  /\ sess'[p][t].context \in CtxStruct
                 /\ (IsOpen(p, sess[p][t].context))'
                 /\ opened'[p][t] = [conn |-> ctx[p][sess'[p][t].context],
                                     slot |-> sess'[p][t].handle]
      <4>1. CASE t = s
        BY SMTT(20), <2>2, <2>3, <2>4, <2>5, <4>1 DEF IsOpen
      <4>2. CASE t # s
        BY <2>1, <2>5, <3>2, <4>2 DEF Named, IsOpen
      <4> QED
        BY <4>1, <4>2
    <3> QED
      BY <3>1, <3>2 DEF Named
  <2>7. \A t \in SessStruct \ {s} : IsOpen(p, t) => Place(p, t) # <<k, j>>
    BY <1>1, <2>1 DEF InTables, Place
  <2>8. Apart(p)'
    <3>1. \A d, e \in CtxStruct : IsOpen(p, d)' /\ IsOpen(p, e)' /\ ctx[p][d] = ctx[p][e] => d = e
      BY <2>1, <2>5 DEF Apart
    <3>2. \A t, u \in SessStruct :
            IsOpen(p, t)' /\ IsOpen(p, u)' /\ Place(p, t)' = Place(p, u)' => t = u
      BY <2>1, <2>5, <2>7 DEF Apart
    <3> QED
      BY <3>1, <3>2 DEF Apart
  <2>9. InTables(p)'
    <3>1. \A d \in CtxStruct : IsOpen(p, d)' => ctx[p][d] \in UsedConns(p)'
      BY <2>1, <2>5 DEF InTables, ChangesSlots
    <3>2. \A m \in UsedConns(p)' : \E d \in CtxStruct : IsOpen(p, d)' /\ ctx[p][d] = m
      BY <2>1, <2>5 DEF InTables, ChangesSlots
    <3>3. \A t \in SessStruct : IsOpen(p, t)' =>
            (sess[p][t].handle \in UsedSlots(p, ctx[p][sess[p][t].context]))'
      <4> SUFFICES ASSUME NEW t \in SessStruct, IsOpen(p, t)'
                   PROVE  (sess[p][t].handle \in UsedSlots(p, ctx[p][sess[p][t].context]))'
        OBVIOUS
      <4>1. PICK m \in Conns : m = ctx[p][sess'[p][t].context]
        <5>1. sess'[p][t].context \in CtxStruct
          <6>1. CASE t = s
            BY <2>2, <2>4, <6>1
          <6>2. CASE t # s
            BY <2>1, <2>5, <6>2 DEF Named
          <6> QED
            BY <6>1, <6>2
        <5> QED
          BY <5>1, HandlesInRange
      <4>2. sess'[p][t].handle \in UsedSlots(p, m)'
        <5>1. CASE t = s
          BY <2>2, <2>4, <4>1, <5>1 DEF ChangesSlots
        <5>2. CASE t # s
          BY <2>1, <2>5, <4>1, <5>2 DEF InTables, ChangesSlots
        <5> QED
          BY <5>1, <5>2
      <4> QED
        BY <4>1, <4>2 DEF UsedSlots
    <3>4. ASSUME NEW m \in Conns, NEW n \in UsedSlots(p, m)'
          PROVE  \E t \in SessStruct : IsOpen(p, t)' /\ Place(p, t)' = <<m, n>>
      <4>1. CASE m = k /\ n = j
        BY <2>2, <2>5, <4>1
      <4>2. CASE ~(m = k /\ n = j)
        <5>1. n \in UsedSlots(p, m)
          BY <3>4, <4>2 DEF ChangesSlots
        <5>2. PICK t \in SessStruct : IsOpen(p, t) /\ Place(p, t) = <<m, n>>
          BY <2>1, <5>1 DEF InTables
        <5> QED
          BY <2>2, <2>5, <5>2
      <4> QED
        BY <4>1, <4>2
    <3> QED
      BY <3>1, <3>2, <3>3, <3>4 DEF InTables
  <2> QED
    BY <2>6, <2>8, <2>9 DEF Asked
<1> QED
  BY <1>6, <1>7, <1>8 DEF ApiKept, Careful

\* The context and the sessions on it are no longer open.
LEMMA ContextClosedKept ==
  ASSUME IInv, ApiTyped, NEW p \in Client, Waiting(p), Explained(p), Careful(p),
         call[p].cmd = "close_context", NEW k, k = call[p].k, FreesConn(p, k),
         call'[p] = NoCall,
         NEW c, c = pending[p].ctx,
         ctx' = [ctx EXCEPT ![p][c] = First],
         opened' = [opened EXCEPT ![p] = [x \in Struct |->
                      IF x = c \/ (x \in SessStruct /\ sess[p][x].context = c)
                      THEN NotOpened ELSE opened[p][x]]],
         lost' = [lost EXCEPT ![p] = [i \in Ids |->
                    IF ids'[p][i].used THEN lost[p][i] ELSE 0]],
         pending' = [pending EXCEPT ![p] = NoStruct],
         UNCHANGED <<sess, careful>>
  PROVE  ApiKept(p)
<1>1. k \in Conns /\ k \in UsedConns(p)
  BY DEF IInv, DriverInv, Live, UsedConns
<1>2. /\ opened' \in [Client -> [Struct -> Opened]]
      /\ \A q \in Client \ {p} : opened'[q] = opened[q]
      /\ \A x \in Struct : opened'[p][x] =
           IF x = c \/ (x \in SessStruct /\ sess[p][x].context = c)
           THEN NotOpened ELSE opened[p][x]
  <2> DEFINE row == [x \in Struct |-> IF x = c \/ (x \in SessStruct /\ sess[p][x].context = c)
                                    THEN NotOpened ELSE opened[p][x]]
  <2>1. row \in [Struct -> Opened]
    BY HistoryTyped
  <2>2. \A x \in Struct : row[x] = IF x = c \/ (x \in SessStruct /\ sess[p][x].context = c)
                                   THEN NotOpened ELSE opened[p][x]
    OBVIOUS
  <2>3. opened' = [opened EXCEPT ![p] = row]
    OBVIOUS
  <2>4. opened \in [Client -> [Struct -> Opened]]
    BY DEF ApiTyped
  <2> HIDE DEF row
  <2> QED
    BY <2>1, <2>2, <2>3, <2>4
<1>3. /\ lost' \in [Client -> [Ids -> Nat]]
      /\ \A q \in Client \ {p} : lost'[q] = lost[q]
      /\ \A i \in Ids : lost'[p][i] = IF ids'[p][i].used THEN lost[p][i] ELSE 0
  <2> DEFINE row == [i \in Ids |-> IF ids'[p][i].used THEN lost[p][i] ELSE 0]
  <2>1. row \in [Ids -> Nat]
    BY DEF ApiTyped
  <2>2. \A i \in Ids : row[i] = IF ids'[p][i].used THEN lost[p][i] ELSE 0
    OBVIOUS
  <2>3. lost' = [lost EXCEPT ![p] = row]
    OBVIOUS
  <2>4. lost \in [Client -> [Ids -> Nat]]
    BY DEF ApiTyped
  <2> HIDE DEF row
  <2> QED
    BY <2>1, <2>2, <2>3, <2>4
<1>4. /\ pending' \in [Client -> [ctx : CtxStruct \cup {None}, sess : SessStruct \cup {None}]]
      /\ \A q \in Client \ {p} : pending'[q] = pending[q]
  BY DEF ApiTyped, NoStruct
<1>5. /\ ctx' \in [Client -> [CtxStruct -> Conns]]
      /\ \A q \in Client \ {p} : ctx'[q] = ctx[q]
      /\ \A d \in CtxStruct \ {c} : ctx'[p][d] = ctx[p][d]
  <2>1. ctx \in [Client -> [CtxStruct -> Conns]] /\ ctx[p] \in [CtxStruct -> Conns]
    BY DEF ApiTyped
  <2>2. /\ ctx'[p] = [ctx[p] EXCEPT ![c] = First]
        /\ \A q \in Client \ {p} : ctx'[q] = ctx[q]
    BY <2>1
  <2>3. First \in Conns
    BY DriverAssumption DEF First, Conns
  <2>4. ctx'[p] \in [CtxStruct -> Conns]
    BY <2>1, <2>2, <2>3
  <2> QED
    BY <2>1, <2>2, <2>4
<1>6. ApiTyped' /\ ApiAlone(p)
  BY <1>2, <1>3, <1>4, <1>5 DEF ApiTyped, ApiAlone
<1>7. Explained(p)'
  <2> SUFFICES ASSUME NEW n \in Ids
               PROVE  /\ ids'[p][n].cnt = Cardinality(ConnsOn(p, n)') + lost'[p][n] + Opening(p, n)'
                      /\ ~ids'[p][n].used => lost'[p][n] = 0
    BY DEF Explained
  <2>1. /\ Cardinality(ConnsOn(p, n)) \in Nat /\ lost[p][n] \in Nat /\ ids[p][n].cnt \in Nat
        /\ ids[p][n].cnt = Cardinality(ConnsOn(p, n)) + lost[p][n] + Opening(p, n)
        /\ ~ids[p][n].used => lost[p][n] = 0
    BY CountsAreNumbers DEF IInv, Explained, ApiTyped
  <2>2. Opening(p, n)' = 0 /\ Opening(p, n) = 0
    BY DEF Opening, NoCall
  <2>3. PICK i \in Ids :
          /\ ids[p][i].used /\ Cardinality(ConnsOn(p, i)) >= 1
          /\ Cardinality(ConnsOn(p, i)') = Cardinality(ConnsOn(p, i)) - 1
          /\ ids[p][i].cnt = 1 => ids'[p][i] = FreeId
          /\ ids[p][i].cnt # 1 => ids'[p][i].used /\ ids'[p][i].cnt = ids[p][i].cnt - 1
          /\ \A m \in Ids \ {i} : ids'[p][m] = ids[p][m] /\ ConnsOn(p, m)' = ConnsOn(p, m)
    BY DEF FreesConn
  <2>4. lost'[p][n] = IF ids'[p][n].used THEN lost[p][n] ELSE 0
    BY <1>3
  <2>5. CASE n # i
    BY <2>1, <2>2, <2>3, <2>4, <2>5
  <2>6. CASE n = i /\ ids[p][i].cnt = 1
    <3>1. ids'[p][n].cnt = 0 /\ ~ids'[p][n].used
      BY <2>3, <2>6 DEF FreeId
    <3>2. Cardinality(ConnsOn(p, n)') = 0
      BY <2>1, <2>2, <2>3, <2>6
    <3> QED
      BY <2>2, <2>4, <3>1, <3>2
  <2>7. CASE n = i /\ ids[p][i].cnt # 1
    <3>1. Cardinality(ConnsOn(p, n)') = Cardinality(ConnsOn(p, n)) - 1
      BY <2>3, <2>7
    <3>2. ids'[p][n].used /\ ids'[p][n].cnt = ids[p][n].cnt - 1 /\ lost'[p][n] = lost[p][n]
      BY <2>3, <2>4, <2>7
    <3> QED
      BY <2>1, <2>2, <3>1, <3>2
  <2> QED
    BY <2>5, <2>6, <2>7
<1>8. ASSUME careful[p]
      PROVE  Named(p)' /\ Apart(p)' /\ InTables(p)' /\ Asked(p)'
  <2>1. Named(p) /\ Apart(p) /\ InTables(p) /\ Asked(p)
    BY <1>8 DEF Careful
  <2>2. c \in CtxStruct /\ IsOpen(p, c) /\ ctx[p][c] = k /\ c \notin SessStruct
    BY <2>1, ApiAssumption DEF Asked, Waiting
  <2>3. /\ \A d \in CtxStruct : IsOpen(p, d)' <=> IsOpen(p, d) /\ d # c
        /\ \A d \in CtxStruct : d # c => opened'[p][d] = opened[p][d]
        /\ \A t \in SessStruct : IsOpen(p, t)' <=> IsOpen(p, t) /\ sess[p][t].context # c
        /\ \A t \in SessStruct : IsOpen(p, t)' => opened'[p][t] = opened[p][t]
    <3>1. CtxStruct \cap SessStruct = {}
      BY ApiAssumption
    <3> QED
      BY <1>2, <2>2, <3>1 DEF IsOpen, Struct
  <2>4. \A t \in SessStruct : IsOpen(p, t)' =>
          /\ sess[p][t].context \in CtxStruct \ {c} /\ IsOpen(p, sess[p][t].context)
          /\ ctx'[p][sess[p][t].context] = ctx[p][sess[p][t].context]
          /\ ctx[p][sess[p][t].context] # k
          /\ Place(p, t)' = Place(p, t)
    <3> SUFFICES ASSUME NEW t \in SessStruct, IsOpen(p, t)'
                 PROVE  /\ sess[p][t].context \in CtxStruct \ {c}
                        /\ IsOpen(p, sess[p][t].context)
                        /\ ctx'[p][sess[p][t].context] = ctx[p][sess[p][t].context]
                        /\ ctx[p][sess[p][t].context] # k
                        /\ Place(p, t)' = Place(p, t)
      OBVIOUS
    <3>1. sess[p][t].context \in CtxStruct \ {c} /\ IsOpen(p, sess[p][t].context)
      BY <2>1, <2>3 DEF Named
    <3>2. ctx'[p][sess[p][t].context] = ctx[p][sess[p][t].context]
      BY <1>5, <3>1
    <3>3. ctx[p][sess[p][t].context] # k
      BY <2>1, <2>2, <3>1 DEF Apart
    <3> QED
      BY <3>1, <3>2, <3>3 DEF Place
  <2>5. Named(p)'
    <3>1. \A d \in CtxStruct : IsOpen(p, d)' => opened'[p][d] = [conn |-> ctx'[p][d], slot |-> None]
      BY <1>5, <2>1, <2>3 DEF Named
    <3>2. \A t \in SessStruct : IsOpen(p, t)' =>
            /\ (IsOpen(p, sess[p][t].context))'
            /\ opened'[p][t] = [conn |-> ctx[p][sess[p][t].context], slot |-> sess[p][t].handle]
      BY <2>1, <2>3, <2>4 DEF Named, IsOpen
    <3> QED
      BY ZenonT(30), <2>4, <3>1, <3>2 DEF Named
  <2>6. Apart(p)'
    <3>1. \A d, e \in CtxStruct : IsOpen(p, d)' /\ IsOpen(p, e)' /\ ctx'[p][d] = ctx'[p][e] => d = e
      BY <1>5, <2>1, <2>3 DEF Apart
    <3>2. \A t, u \in SessStruct :
            IsOpen(p, t)' /\ IsOpen(p, u)' /\ Place(p, t)' = Place(p, u)' => t = u
      BY <2>1, <2>3, <2>4 DEF Apart
    <3> QED
      BY <3>1, <3>2 DEF Apart
  <2>7. InTables(p)'
    <3>1. \A d \in CtxStruct : IsOpen(p, d)' => ctx'[p][d] \in UsedConns(p)'
      BY <1>5, <2>1, <2>2, <2>3 DEF InTables, Apart, FreesConn
    <3>2. ASSUME NEW m \in UsedConns(p)'
          PROVE  \E d \in CtxStruct : IsOpen(p, d)' /\ ctx'[p][d] = m
      <4>1. m \in UsedConns(p) /\ m # k
        BY <3>2 DEF FreesConn
      <4>2. PICK d \in CtxStruct : IsOpen(p, d) /\ ctx[p][d] = m
        BY <2>1, <4>1 DEF InTables
      <4> QED
        BY <1>5, <2>2, <2>3, <4>1, <4>2
    <3>3. \A t \in SessStruct : IsOpen(p, t)' =>
            (sess[p][t].handle \in UsedSlots(p, ctx[p][sess[p][t].context]))'
      <4> SUFFICES ASSUME NEW t \in SessStruct, IsOpen(p, t)'
                   PROVE  (sess[p][t].handle \in UsedSlots(p, ctx[p][sess[p][t].context]))'
        OBVIOUS
      <4>1. PICK m \in Conns \ {k} : m = ctx[p][sess[p][t].context]
        BY <2>4, HandlesInRange
      <4>2. sess[p][t].handle \in UsedSlots(p, m)'
        BY <2>1, <2>3, <4>1 DEF InTables, FreesConn
      <4> QED
        BY <2>4, <4>1, <4>2 DEF UsedSlots
    <3>4. ASSUME NEW m \in Conns, NEW n \in UsedSlots(p, m)'
          PROVE  \E t \in SessStruct : IsOpen(p, t)' /\ Place(p, t)' = <<m, n>>
      <4>1. m # k /\ n \in UsedSlots(p, m)
        BY <1>1, <3>4 DEF FreesConn
      <4>2. PICK t \in SessStruct : IsOpen(p, t) /\ Place(p, t) = <<m, n>>
        BY <2>1, <4>1 DEF InTables
      <4>3. sess[p][t].context # c
        BY <2>2, <4>1, <4>2 DEF Place
      <4> QED
        BY <2>3, <2>4, <4>2, <4>3
    <3> QED
      BY <3>1, <3>2, <3>3, <3>4 DEF InTables
  <2> QED
    BY <2>5, <2>6, <2>7 DEF Asked
<1> QED
  BY <1>6, <1>7, <1>8 DEF ApiKept, Careful

\* The session is no longer open; its structure stays as it is.
LEMMA SessionClosedKept ==
  ASSUME IInv, ApiTyped, NEW p \in Client, Waiting(p), Explained(p), Careful(p),
         call[p].cmd = "close_session", NEW k, k = call[p].k, NEW j, j = call[p].j,
         ChangesSlots(p, k, UsedSlots(p, k) \ {j}),
         call'[p] = NoCall,
         NEW s, s = pending[p].sess,
         opened' = [opened EXCEPT ![p][s] = NotOpened],
         pending' = [pending EXCEPT ![p] = NoStruct],
         UNCHANGED <<ctx, sess, careful, lost>>
  PROVE  ApiKept(p)
<1>1. k \in Conns /\ k \in UsedConns(p) /\ j \in Slots
  BY DEF IInv, DriverInv, Live, UsedConns, UsedSlots, SessionCommands
<1>2. /\ opened' \in [Client -> [Struct -> Opened]]
      /\ \A q \in Client \ {p} : opened'[q] = opened[q]
      /\ \A x \in Struct : opened'[p][x] = IF x = s THEN NotOpened ELSE opened[p][x]
  <2>1. opened \in [Client -> [Struct -> Opened]]
    BY DEF ApiTyped
  <2>2. /\ opened'[p] = [opened[p] EXCEPT ![s] = NotOpened]
        /\ \A q \in Client \ {p} : opened'[q] = opened[q]
    BY <2>1
  <2>3. opened[p] \in [Struct -> Opened] /\ NotOpened \in Opened
    BY HistoryTyped
  <2> DEFINE row == [x \in Struct |-> IF x = s THEN NotOpened ELSE opened[p][x]]
  <2>4. opened'[p] = row /\ row \in [Struct -> Opened]
    BY <2>2, <2>3
  <2> QED
    BY <2>1, <2>2, <2>3, <2>4
<1>3. /\ pending' \in [Client -> [ctx : CtxStruct \cup {None}, sess : SessStruct \cup {None}]]
      /\ \A q \in Client \ {p} : pending'[q] = pending[q]
  BY DEF ApiTyped, NoStruct
<1>4. ApiTyped' /\ ApiAlone(p)
  BY <1>2, <1>3 DEF ApiTyped, ApiAlone
<1>5. Explained(p)'
  BY ExplainedSame DEF ChangesSlots, NoCall
<1>6. ASSUME careful[p]
      PROVE  Named(p)' /\ Apart(p)' /\ InTables(p)' /\ Asked(p)'
  <2>1. Named(p) /\ Apart(p) /\ InTables(p) /\ Asked(p)
    BY <1>6 DEF Careful
  <2>2. s \in SessStruct /\ opened[p][s] = [conn |-> k, slot |-> j] /\ s \notin CtxStruct
    BY <2>1, ApiAssumption DEF Asked, Waiting, SessionCommands
  <2>3. IsOpen(p, s) /\ Place(p, s) = <<k, j>>
    <3>1. [conn |-> k, slot |-> j] # NotOpened
      BY <1>1, NullIsNoPosition DEF NotOpened
    <3>2. IsOpen(p, s)
      BY <2>2, <3>1 DEF IsOpen
    <3>3. opened[p][s] = [conn |-> ctx[p][sess[p][s].context], slot |-> sess[p][s].handle]
      BY <2>1, <2>2, <3>2 DEF Named
    <3>4. k = ctx[p][sess[p][s].context] /\ j = sess[p][s].handle
      BY <2>2, <3>3
    <3> QED
      BY <3>2, <3>4 DEF Place
  <2>4. /\ \A d \in CtxStruct : (IsOpen(p, d)' <=> IsOpen(p, d)) /\ opened'[p][d] = opened[p][d]
        /\ \A t \in SessStruct : /\ IsOpen(p, t)' <=> IsOpen(p, t) /\ t # s
                                 /\ IsOpen(p, t)' => opened'[p][t] = opened[p][t]
                                 /\ Place(p, t)' = Place(p, t)
    BY <1>2, <2>2 DEF IsOpen, Struct, Place
  <2>5. \A t \in SessStruct : IsOpen(p, t)' => Place(p, t) # <<k, j>>
    BY <2>1, <2>2, <2>3, <2>4 DEF Apart
  <2>6. Named(p)'
    <3>1. \A d \in CtxStruct : IsOpen(p, d)' => opened'[p][d] = [conn |-> ctx[p][d], slot |-> None]
      BY <2>1, <2>4 DEF Named
    <3>2. \A t \in SessStruct : IsOpen(p, t)' =>
            /\ sess[p][t].context \in CtxStruct
            /\ (IsOpen(p, sess[p][t].context))'
            /\ opened'[p][t] = [conn |-> ctx[p][sess[p][t].context], slot |-> sess[p][t].handle]
      BY <2>1, <2>4 DEF Named, IsOpen
    <3> QED
      BY <3>1, <3>2 DEF Named
  <2>7. Apart(p)'
    BY <2>1, <2>4 DEF Apart
  <2>8. InTables(p)'
    <3>1. \A d \in CtxStruct : IsOpen(p, d)' => ctx[p][d] \in UsedConns(p)'
      BY <2>1, <2>4 DEF InTables, ChangesSlots
    <3>2. \A m \in UsedConns(p)' : \E d \in CtxStruct : IsOpen(p, d)' /\ ctx[p][d] = m
      BY <2>1, <2>4 DEF InTables, ChangesSlots
    <3>3. \A t \in SessStruct : IsOpen(p, t)' =>
            (sess[p][t].handle \in UsedSlots(p, ctx[p][sess[p][t].context]))'
      <4> SUFFICES ASSUME NEW t \in SessStruct, IsOpen(p, t)'
                   PROVE  (sess[p][t].handle \in UsedSlots(p, ctx[p][sess[p][t].context]))'
        OBVIOUS
      <4>1. PICK m \in Conns : m = ctx[p][sess[p][t].context]
        BY <2>1, <2>4, HandlesInRange DEF Named
      <4>2. sess[p][t].handle \in UsedSlots(p, m)'
        <5>1. sess[p][t].handle \in UsedSlots(p, m) /\ <<m, sess[p][t].handle>> # <<k, j>>
          BY <2>1, <2>4, <2>5, <4>1 DEF InTables, Place
        <5> QED
          BY <5>1 DEF ChangesSlots
      <4> QED
        BY <4>1, <4>2 DEF UsedSlots
    <3>4. ASSUME NEW m \in Conns, NEW n \in UsedSlots(p, m)'
          PROVE  \E t \in SessStruct : IsOpen(p, t)' /\ Place(p, t)' = <<m, n>>
      <4>1. n \in UsedSlots(p, m) /\ <<m, n>> # <<k, j>>
        BY <3>4 DEF ChangesSlots
      <4>2. PICK t \in SessStruct : IsOpen(p, t) /\ Place(p, t) = <<m, n>>
        BY <2>1, <4>1 DEF InTables
      <4> QED
        BY <2>3, <2>4, <4>1, <4>2
    <3> QED
      BY <3>1, <3>2, <3>3, <3>4 DEF InTables
  <2> QED
    BY <2>6, <2>7, <2>8 DEF Asked
<1> QED
  BY <1>4, <1>5, <1>6 DEF ApiKept, Careful

\* What the driver's tables gained is what the API finds there.
LEMMA Gained ==
  ASSUME NEW p \in Client, NEW k
  PROVE  /\ NewConn(p) = UsedConns(p)' \ UsedConns(p)
         /\ NewSlot(p, k) = UsedSlots(p, k)' \ UsedSlots(p, k)
BY DEF NewConn, NewSlot, UsedConns, UsedSlots

\* The answer gets to the function that waits for it.
LEMMA ReturnKept ==
  ASSUME IInv, ApiTyped, NEW p \in Client, Explained(p), Careful(p),
         NEW cmd, NEW ok \in BOOLEAN, NEW h \in Handle, ApiReturn(p, cmd, ok, h)
  PROVE  ApiKept(p)
<1> DEFINE c == pending[p].ctx
           s == pending[p].sess
           good == ok /\ cmd = call[p].cmd
<1>1. /\ Receive(p, cmd, ok, h) /\ Waiting(p)
      /\ pending' = [pending EXCEPT ![p] = NoStruct] /\ careful' = careful
  BY DEF ApiReturn, Receive
<1>2. /\ call'[p] = NoCall
      /\ \/ /\ UNCHANGED tables
            /\ good => cmd \notin {"close_context", "close_session"}
         \/ call[p].cmd = "open_context" /\ \E n \in Conns : TakesConn(p, n)
         \/ /\ call[p].cmd = "open_session"
            /\ \E k \in UsedConns(p) : k = call[p].k /\ \E n \in Slots \ UsedSlots(p, k) :
                 ChangesSlots(p, k, UsedSlots(p, k) \cup {n})
         \/ /\ call[p].cmd = "close_context" /\ good
            /\ \E k \in UsedConns(p) : k = call[p].k /\ FreesConn(p, k)
         \/ /\ call[p].cmd = "close_session" /\ good
            /\ \E k \in UsedConns(p) : k = call[p].k /\ \E j \in UsedSlots(p, k) :
                 j = call[p].j /\ ChangesSlots(p, k, UsedSlots(p, k) \ {j})
  BY <1>1, Answered
<1>3. CASE call[p].cmd = "open_context"
  <2>1. /\ \/ NewConn(p) = {} /\ Lost(p, call[p].id) /\ UNCHANGED <<ctx, opened>>
           \/ \E n \in NewConn(p) :
                /\ ctx' = [ctx EXCEPT ![p][c] = n]
                /\ Remember(p, [opened[p] EXCEPT ![c] = [conn |-> n, slot |-> None]])
                /\ UNCHANGED lost
        /\ UNCHANGED sess
    BY <1>3 DEF ApiReturn
  <2>2. CASE UNCHANGED tables
    <3>1. NewConn(p) = {}
      BY <2>2, Gained, TablesSame
    <3> QED
      BY <1>1, <1>2, <1>3, <2>1, <2>2, <3>1, FailureKept
  <2>3. ASSUME NEW n \in Conns, TakesConn(p, n)
        PROVE  ApiKept(p)
    <3>1. NewConn(p) = {n}
      BY <2>3, Gained DEF TakesConn
    <3>2. /\ ctx' = [ctx EXCEPT ![p][c] = n]
          /\ Remember(p, [opened[p] EXCEPT ![c] = [conn |-> n, slot |-> None]])
          /\ UNCHANGED <<sess, careful, lost>>
      BY <1>1, <2>1, <3>1
    <3> QED
      BY <1>1, <1>2, <1>3, <2>3, <3>2, ContextOpenedKept
  <2> QED
    BY <1>2, <1>3, <2>2, <2>3
<1>4. CASE call[p].cmd = "open_session"
  <2>1. \/ NewSlot(p, call[p].k) = {} /\ UNCHANGED <<ctx, sess, opened, lost>>
        \/ \E n \in NewSlot(p, call[p].k) :
             /\ sess' = [sess EXCEPT ![p][s] = Captured(n, c)]
             /\ Remember(p, [opened[p] EXCEPT ![s] = [conn |-> call[p].k, slot |-> n]])
             /\ UNCHANGED <<ctx, lost>>
    BY <1>4 DEF ApiReturn
  <2>2. CASE UNCHANGED tables
    <3>1. NewSlot(p, call[p].k) = {}
      BY <2>2 DEF NewSlot, tables
    <3> QED
      BY <1>1, <1>2, <1>4, <2>1, <2>2, <3>1, FailureKept
  <2>3. ASSUME NEW k \in UsedConns(p), k = call[p].k, NEW n \in Slots \ UsedSlots(p, k),
               ChangesSlots(p, k, UsedSlots(p, k) \cup {n})
        PROVE  ApiKept(p)
    <3>1. NewSlot(p, k) = {n}
      BY <2>3, Gained DEF ChangesSlots
    <3>2. NewSlot(p, call[p].k) = {n}
      BY <2>3, <3>1 DEF NewSlot
    <3>3. /\ sess' = [sess EXCEPT ![p][s] = Captured(n, c)]
          /\ Remember(p, [opened[p] EXCEPT ![s] = [conn |-> k, slot |-> n]])
          /\ UNCHANGED <<ctx, careful, lost>>
      BY <1>1, <2>1, <2>3, <3>2
    <3> QED
      BY <1>1, <1>2, <1>4, <2>3, <3>3, SessionOpenedKept
  <2> QED
    BY <1>2, <1>4, <2>2, <2>3
<1>5. CASE call[p].cmd = "close_context" /\ good
  <2>1. /\ ctx' = [ctx EXCEPT ![p][c] = First]
        /\ opened' = [opened EXCEPT ![p] = [x \in DOMAIN opened[p] |->
             IF x = c \/ (x \in SessStruct /\ sess[p][x].context = c)
             THEN NotOpened ELSE opened[p][x]]]
        /\ lost' = [lost EXCEPT ![p] = [i \in Ids |->
             IF ids'[p][i].used THEN lost[p][i] ELSE 0]]
        /\ UNCHANGED sess
    BY <1>5 DEF ApiReturn
  <2>2. DOMAIN opened[p] = Struct
    BY DEF ApiTyped
  <2>3. PICK k \in UsedConns(p) : k = call[p].k /\ FreesConn(p, k)
    BY <1>2, <1>5
  <2> QED
    BY <1>1, <1>2, <1>5, <2>1, <2>2, <2>3, ContextClosedKept
<1>6. CASE call[p].cmd = "close_session" /\ good
  <2>1. opened' = [opened EXCEPT ![p][s] = NotOpened] /\ UNCHANGED <<ctx, sess, lost>>
    BY <1>6 DEF ApiReturn
  <2>2. PICK k \in UsedConns(p) : k = call[p].k /\ \E j \in UsedSlots(p, k) :
               j = call[p].j /\ ChangesSlots(p, k, UsedSlots(p, k) \ {j})
    BY <1>2, <1>6
  <2> QED
    BY <1>1, <1>2, <1>6, <2>1, <2>2, SessionClosedKept
<1>7. CASE /\ call[p].cmd \notin {"open_context", "open_session"}
           /\ good => call[p].cmd \notin {"close_context", "close_session"}
  <2>1. UNCHANGED <<ctx, sess, opened, lost>>
    BY <1>7 DEF ApiReturn
  <2>2. UNCHANGED tables
    BY <1>2, <1>7
  <2> QED
    BY <1>1, <1>2, <1>7, <2>1, <2>2, FailureKept
<1> QED
  BY <1>3, <1>4, <1>5, <1>6, <1>7

\* There is no answer.
LEMMA ExchangeFailsKept ==
  ASSUME IInv, ApiTyped, NEW p \in Client, Explained(p), Careful(p), ApiExchangeFails(p)
  PROVE  ApiKept(p)
<1>1. Waiting(p) /\ UNCHANGED tables /\ call'[p] = NoCall
  BY DEF ApiExchangeFails, ExchangeFails, GiveUp, IInv, Typed
<1> QED
  BY <1>1, FailureKept DEF ApiExchangeFails

-----------------------------------------------------------------------------
(* The invariant.                                                          *)

LEMMA ApiInitSatisfies == ApiInit => ApiInv
<1> SUFFICES ASSUME ApiInit
             PROVE  ApiInv
  OBVIOUS
<1>1. IInv
  BY InitSatisfies DEF ApiInit
<1>2. ApiTyped
  <2>1. First \in Conns /\ First \in Slots /\ NotOpened \in Opened
    BY DriverAssumption DEF First, Conns, Slots, NotOpened, Opened
  <2> QED
    BY <2>1 DEF ApiInit, ApiTyped, Zeroed, NoStruct, Struct
<1>3. ASSUME NEW p \in Client
      PROVE  Explained(p) /\ Careful(p)
  <2>1. /\ \A i \in Ids : ids[p][i] = FreeId /\ lost[p][i] = 0
        /\ \A k \in Conns : conn[p][k].used = FALSE /\ \A j \in Slots : slot[p][k][j] = None
        /\ call[p] = NoCall
        /\ \A x \in Struct : opened[p][x] = NotOpened
    BY DEF ApiInit, Init, FreeConn, Struct
  <2>2. /\ UsedConns(p) = {} /\ \A k \in Conns : UsedSlots(p, k) = {}
        /\ \A i \in Ids : ConnsOn(p, i) = {}
        /\ \A x \in Struct : ~IsOpen(p, x)
    BY <2>1 DEF UsedConns, UsedSlots, ConnsOn, IsOpen
  <2>3. Explained(p)
    <3>1. \A i \in Ids : Opening(p, i) = 0 /\ ids[p][i].cnt = 0 /\ lost[p][i] = 0
      BY <2>1 DEF Opening, NoCall, FreeId
    <3>2. \A i \in Ids : Cardinality(ConnsOn(p, i)) = 0
      BY <2>2, FS_EmptySet
    <3> QED
      BY <3>1, <3>2 DEF Explained
  <2>4. Named(p) /\ Apart(p) /\ InTables(p)
    BY <2>2 DEF Named, Apart, InTables, Struct
  <2> QED
    BY <2>1, <2>3, <2>4 DEF Careful, Asked
<1> QED
  BY <1>1, <1>2, <1>3 DEF ApiInv

LEMMA ApiNextKeeps == ApiInv /\ [ApiNext]_vars => ApiInv'
<1> SUFFICES ASSUME ApiInv, [ApiNext]_vars
             PROVE  ApiInv'
  OBVIOUS
<1>1. IInv /\ ApiTyped /\ \A p \in Client : Explained(p) /\ Careful(p)
  BY DEF ApiInv
<1>2. IInv'
  BY <1>1, StepsDrive, NextKeeps DEF IInv
<1>3. ASSUME NEW p \in Client, Alone(p), ApiKept(p)
      PROVE  ApiInv'
  BY <1>1, <1>2, <1>3, ApiOthersKeep DEF ApiInv, ApiKept
<1>4. ASSUME NEW p \in Client, NEW c \in CtxStruct, NEW cid \in ContextId, NEW ok \in BOOLEAN,
             ApiOpenContext(p, c, cid, ok)
      PROVE  ApiInv'
  BY <1>1, <1>3, <1>4, OpenContextKept, ContextAsked DEF ApiOpenContext, OpenContext
<1>5. ASSUME NEW p \in Client, NEW cmd \in {"close_context", "register", "unregister"},
             NEW c \in CtxStruct, NEW m \in Region \cup {None}, ApiContextCall(p, cmd, c, m),
             cmd # "unregister" => m = None, cmd = "unregister" => m \in Region
      PROVE  ApiInv'
  <2>1. Idle(p) /\ ContextRequest(p, cmd, ctx[p][c], m) /\ ctx[p][c] \in 1..(MaxConns + 1)
    BY <1>1, <1>5, HandlesInRange DEF ApiContextCall, ContextRequest
  <2>2. Request(p)
    BY <1>5, <2>1 DEF Request, ContextCommands
  <2> QED
    BY <1>1, <1>3, <1>5, <2>1, <2>2, ContextCallKept, RequestKeeps
<1>6. ASSUME NEW p \in Client, NEW c \in CtxStruct, NEW s \in SessStruct, ApiOpenSession(p, c, s)
      PROVE  ApiInv'
  <2>1. /\ Idle(p) /\ ContextRequest(p, "open_session", ctx[p][c], None)
        /\ ctx[p][c] \in 1..(MaxConns + 1)
    BY <1>1, <1>6, HandlesInRange DEF ApiOpenSession, ContextRequest
  <2>2. Request(p)
    BY <2>1 DEF Request, ContextCommands
  <2> QED
    BY <1>1, <1>3, <1>6, <2>1, <2>2, OpenSessionKept, RequestKeeps
<1>7. ASSUME NEW p \in Client, NEW s \in SessStruct, NEW cmd \in SessionCommands,
             ApiSessionCall(p, cmd, s)
      PROVE  ApiInv'
  <2>1. /\ SessionRequest(p, cmd, ctx[p][sess[p][s].context], sess[p][s].handle) /\ Idle(p)
        /\ sess[p][s].context # None
    BY <1>7 DEF ApiSessionCall, SessionRequest
  <2>2. Request(p)
    BY <1>1, <2>1, HandlesInRange DEF Request
  <2> QED
    BY <1>1, <1>3, <1>7, <2>1, <2>2, SessionCallKept, RequestKeeps
<1>8. ASSUME NEW p \in Client, NEW s \in SessStruct, NullContext(p, s)
      PROVE  ApiInv'
  <2>1. Alone(p)
    BY <1>1, <1>8 DEF NullContext, tables, Alone, IInv, Typed
  <2> QED
    BY <1>1, <1>3, <1>8, <2>1, NullContextKept
<1>9. ASSUME NEW p \in Client, NEW cmd \in CallNames, NEW ok \in BOOLEAN, NEW h \in Handle,
             ApiReturn(p, cmd, ok, h)
      PROVE  ApiInv'
  <2>1. Receive(p, cmd, ok, h) /\ Waiting(p)
    BY <1>9 DEF ApiReturn, Receive
  <2> QED
    BY <1>1, <1>3, <1>9, <2>1, ReturnKept, Answered
<1>10. ASSUME NEW p \in Client, ApiExchangeFails(p)
       PROVE  ApiInv'
  <2>1. Waiting(p) /\ Answer(p)
    BY <1>10 DEF ApiExchangeFails, ExchangeFails, Answer
  <2> QED
    BY <1>1, <1>3, <1>10, <2>1, ExchangeFailsKept, AnswerKeeps
<1>11. CASE UNCHANGED vars
  <2>1. ApiTyped'
    BY <1>1, <1>11 DEF ApiTyped, vars, avars
  <2>2. ASSUME NEW p \in Client
        PROVE  Explained(p)' /\ Careful(p)'
    <3>1. UNCHANGED tables /\ UNCHANGED <<call, ctx, sess, pending, opened, careful, lost>>
      BY <1>11 DEF vars, avars, dvars
    <3>2. /\ \A i \in Ids : ConnsOn(p, i)' = ConnsOn(p, i) /\ Opening(p, i)' = Opening(p, i)
          /\ UsedConns(p)' = UsedConns(p) /\ \A k : UsedSlots(p, k)' = UsedSlots(p, k)
          /\ \A x : IsOpen(p, x)' <=> IsOpen(p, x)
      BY <3>1, TablesSame DEF Opening, IsOpen
    <3>3. Explained(p)'
      BY <1>1, <3>1, <3>2 DEF Explained, tables
    <3>4. careful[p] => Named(p)' /\ Apart(p)' /\ InTables(p)'
      BY <1>1, <3>1, <3>2, HandlesInRange, StructuresSame DEF Careful
    <3>5. careful[p] => Asked(p)'
      BY <1>1, <3>1, <3>2 DEF Careful, Asked
    <3> QED
      BY <3>1, <3>3, <3>4, <3>5 DEF Careful
  <2> QED
    BY <1>2, <2>1, <2>2 DEF ApiInv
<1>12. CASE ApiNext
  <2>1. None \in Region \cup {None} /\ Region \subseteq Region \cup {None}
    OBVIOUS
  <2> QED
    BY <1>4, <1>5, <1>6, <1>7, <1>8, <1>9, <1>10, <1>12, <2>1 DEF ApiNext
<1> QED
  BY <1>11, <1>12

\* The inductive invariant of the API and the driver under it.
THEOREM ApiInvariant == ApiSpec => []ApiInv
BY ApiInitSatisfies, ApiNextKeeps, PTL DEF ApiSpec

\* Whatever a caller passes to the API, what reaches the driver is what the
\* driver's specification has a caller do: what is proved of the driver holds
\* under the API (sk_teec_api.c calls the ioctls and nothing else).
THEOREM ApiDrivesDriver == ApiSpec => Spec
<1>1. ApiInit => Init
  BY DEF ApiInit
<1>2. ApiInv /\ [ApiNext]_vars => [Next]_dvars
  BY StepsDrive DEF ApiInv, IInv
<1> QED
  BY <1>1, <1>2, ApiInvariant, PTL DEF ApiSpec, Spec

\* Every count of a context id is accounted for: by its connections, by the
\* open_context on its way and by the opens that failed after
\* sk_nwld_tapi_open_context had counted them and that nothing takes off again.
THEOREM CountsExplained == ApiSpec => []CountExplained
<1>1. ApiInv => CountExplained
  BY DEF ApiInv, Explained, Opening, CountExplained
<1> QED
  BY <1>1, ApiInvariant, PTL

\* SKTEEC_InvokeCommand and SKTEEC_CloseSession reach the session that was
\* opened for the structure, as long as the process uses what it has open.
THEOREM CallsReachTheirOwn == ApiSpec => []CallsReachOwn
<1>1. ApiInv => CallsReachOwn
  BY DEF ApiInv, Careful, Asked, CallsReachOwn, NoCall, SessionCommands
<1> QED
  BY <1>1, ApiInvariant, PTL

\* The structures of such a process and the driver's tables name the same
\* connections and sessions, each once, so nothing it opened is out of reach of
\* SKTEEC_CloseContext and SKTEEC_CloseSession.
THEOREM StructuresMatch == ApiSpec => []StructuresMatchTables
<1>1. ASSUME ApiInv
      PROVE  StructuresMatchTables
  <2> SUFFICES ASSUME NEW p \in Client, careful[p]
               PROVE  LET C == OpenOf(p, CtxStruct)
                          S == OpenOf(p, SessStruct)
                      IN /\ {ctx[p][c] : c \in C} = UsedConns(p)
                         /\ \A c, d \in C : ctx[p][c] = ctx[p][d] => c = d
                         /\ {Place(p, s) : s \in S}
                              = {at \in Conns \X Slots : at[2] \in UsedSlots(p, at[1])}
                         /\ \A s, t \in S : Place(p, s) = Place(p, t) => s = t
    BY DEF StructuresMatchTables, Place
  <2>1. Named(p) /\ Apart(p) /\ InTables(p)
    BY <1>1 DEF ApiInv, Careful
  <2>2. /\ OpenOf(p, CtxStruct) = {c \in CtxStruct : IsOpen(p, c)}
        /\ OpenOf(p, SessStruct) = {s \in SessStruct : IsOpen(p, s)}
    BY <2>1, ApiAssumption DEF OpenOf, Usable, Named
  <2>3. {ctx[p][c] : c \in OpenOf(p, CtxStruct)} = UsedConns(p)
    BY <2>1, <2>2 DEF InTables
  <2>4. \A c, d \in OpenOf(p, CtxStruct) : ctx[p][c] = ctx[p][d] => c = d
    BY <2>1, <2>2 DEF Apart
  <2>5. \A s, t \in OpenOf(p, SessStruct) : Place(p, s) = Place(p, t) => s = t
    BY <2>1, <2>2 DEF Apart
  <2>6. ASSUME NEW s \in OpenOf(p, SessStruct)
        PROVE  Place(p, s) \in {at \in Conns \X Slots : at[2] \in UsedSlots(p, at[1])}
    <3>1. /\ s \in SessStruct /\ sess[p][s].context \in CtxStruct
          /\ sess[p][s].handle \in UsedSlots(p, ctx[p][sess[p][s].context])
      BY <2>1, <2>2 DEF Named, InTables
    <3>2. ctx[p][sess[p][s].context] \in Conns /\ sess[p][s].handle \in Slots
      BY <1>1, <3>1, HandlesInRange DEF ApiInv
    <3> QED
      BY <3>1, <3>2 DEF Place
  <2>7. ASSUME NEW at \in Conns \X Slots, at[2] \in UsedSlots(p, at[1])
        PROVE  \E s \in OpenOf(p, SessStruct) : at = Place(p, s)
    <3>1. at = <<at[1], at[2]>> /\ at[1] \in Conns
      OBVIOUS
    <3> QED
      BY <2>1, <2>2, <2>7, <3>1 DEF InTables
  <2> QED
    BY <2>3, <2>4, <2>5, <2>6, <2>7
<1> QED
  BY <1>1, ApiInvariant, PTL
============================================================================
