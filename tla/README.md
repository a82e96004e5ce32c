# A formal model of the SK SDK

The SK SDK lets programs of the normal world (NWLD) call trusted applications
(TApps) in the secure world (SWLD). This directory holds TLA+ models of it, the
TLC runs that check them on small instances, and proofs that hold for every
size of table. All paths below are relative to the repository root.

## 1. Inventory

| component | code | state it keeps | operations | interacts with |
|---|---|---|---|---|
| TAPI server | `src/swld/tapi.c`, `my_tapi_handle_generator_plugin.c` | context table, session table shared by all contexts, session lists threaded through it, region list, counters | init, dispatch, open/close context, open/close session, invoke, register/unregister memory, check | receives from and answers to the channel; calls the TApp platform |
| TApp loading and calls | `src/swld/tapp.c`, `src/platform/*/swld/sk_tapp_swld_app_interface.c` | the TApp instance in a session's slot | load, init, pull (call), close, unload | called by the server's session handlers |
| NWLD driver | `src/nwld/sk_drv_nwld_tapi.c`, `src/platform/*/nwld/sk_drv_nwld_tapi_ioctl.c` | context ids and their counts, connections, their session tables | the client half of every server request | called by the client API; exchanges messages over the channel |
| TEE client API | `src/nwld/sk_teec_api.c` | none of its own: the index of a connection in the caller's context structure, the index of a session and a pointer to the context structure in the session structure | `SKTEEC_*` | calls the driver through the ioctl layer |
| channel | `src/platform/*/nwld/sk_drv_nwld_comm.c`, `src/platform/*/swld/sk_drv_server_comm.c` | socket or device, device lock | register, unregister, proc (send and receive), recv, send | between driver and server |
| message router | `src/swld/tapi_message_interface.c` | one buffer, the ids it has a context for, the functions it was given | init, process, end | an alternative to the server's own loop: between a channel and one or more servers, each for a context id |
| table of contents | `src/swld/tapp_toc*.c`, `tapp_manifest_pack.c` | TOC and its entries | search by TAID, pack, unpack | read by TApp loading |
| byte packing | `src/both/sk_tapi_byte_*.c`, `sysv_byte_packing.c` | none | pack, unpack of each message | server, driver and router |
| PRNG | `src/swld/my_rc4_prng.c` | RC4 permutation | init, read | handle generator |
| platform services | `src/platform/*/both`, timers, storage, memory | little | wrappers | everything |
| tools, demos | `src/tools`, `src/demos` | files | command lines | - |

The server is one thread: it receives a request, runs its handler to the end,
answers, and loops until something returns an error. Its clients are not: many
processes on the Fiasco platform, one socket on TCP. They share the server's
tables and hold handles that the server may have freed.

### What is hard

* The session lists of all contexts are threaded through one table by hand;
  sessions leave from the start, the middle and the end, in any order.
* Counters are kept apart from the tables they count, and guards look at the
  counters.
* Handles of freed slots stay in the linear handle tables and the search does
  not look whether the slot is in use.
* Some handlers fail half way: a TApp that does not load, a context that cannot
  go, a region that is not released.
* Half of the errors answer the client, the other half end the dispatch loop.
* Both sides keep tables of the same contexts and sessions and update them on
  either side of an exchange that can fail.
* The caller's structures hold indices into the driver's tables; closing zeroes
  some of them, and a zeroed index is that of the first connection.
* One buffer holds requests, answers and the remains of both, and a pack function
  takes the room it has from the variable it leaves its length in.

### What makes each component correct

* Server: lists, tables and counters agree; a session belongs to one context
  and only that context reaches it; a client that holds a session handle holds
  a TApp that runs; regions are on the list as long as they are allocated.
* Driver: a connection is open on a registered channel; counts agree with
  tables; a handle it sends is one the server knows.
* Channel: a reply answers the request it was sent for; both ends agree on every
  field of every message; a call comes back.
* TOC and TApp loading: a session gets the TApp it asked for or an error, and an
  error leaves nothing behind.
* Client API: a structure reaches what was opened for it, and nothing stays open
  without a structure to close it through.
* Router and packing: what one end packed is what the other end unpacks, or an
  error, whatever else is in the buffer.
* Generator: it stays a permutation and its states do not repeat early.

## 2. Modules

| module | what it is |
|---|---|
| `TeeSessions` | the abstract specification: contexts, sessions that belong to them, handles issued once |
| `SwldTapi` | the server in full |
| `NwldTapi` | the driver in full, for any number of client processes |
| `TeecApi` | the client API over the driver: extends `NwldTapi` with the caller's structures |
| `TapiSystem` | clients, drivers, the locked channel and the server composed |
| `Exchange` | the abstract specification of the channel: one request at a time, its answer to who asked |
| `TapiComm` | the exchange of a request and its answer field by field, on both platforms |
| `TapiPack` | pack and unpack of all messages, as operators |
| `TapiRouter` | one message end to end through the message router, over `TapiPack` |
| `TappToc` | the tool that builds the table of TApps, and loading a TApp through it |
| `Rc4Prng` | the generator of the handles |
| `MCSwldTapi`, `MCTapiSystem`, `MCTeecApi`, `MCTapiRouter`, `MCTappToc` | values for the constants of the runs |
| `SwldTapiProofs`, `NwldTapiProofs`, `Rc4PrngProofs`, `TappTocProofs` | the theorems about `SwldTapi`, `NwldTapi`, `Rc4Prng` and `TappToc` |
| `TeecApiProofs` | the theorems about `TeecApi`, on top of those about the driver |
| `TapiSystemProofs` | the theorems about `TapiSystem`, from those about its two parts |
| `TapiCommProofs` | the theorems about `TapiComm` |
| `TapiRouterProofs` | the theorems about `TapiPack` and `TapiRouter` |

`TapiSystem` takes `NwldTapi` and `SwldTapi` as instances over its own
variables; `SwldTapi` takes `TeeSessions` as an instance under a refinement
mapping. `TapiSystem` and `TapiComm` both take `Exchange` as an instance under a
mapping: the one atomic step in which `TapiSystem` lets the server handle a
request, and the fields `TapiComm` moves one by one, keep the same promise.

### 2.1 SwldTapi and the server

| in the model | in the code |
|---|---|
| `cactive`, `chandle`, `cstart`, `cnum` | `conn.ctable[i].active`, the bytes in `cthandles`, `start`, `num_sessions` |
| `sactive`, `shandle`, `snext`, `sprev`, `tapp` | `conn.stable[i].active`, the bytes in `sthandles`, `next`, `prev`, the state of the `tapp` object |
| `numC`, `numS` | `num_ctable_elements`, `num_stable_elements` |
| `mhead`, `mnext`, `mprev`, `mcount`, `mlive` | `rmem`, its links, `mem_region_count`, the regions allocated and not freed |
| `srv` | what became of the loop of `sk_swld_tapi_dispatch` |
| `resp` | the answer left in `msend` |
| `gen` | the draws from the handle generator |
| `owner`, `givenC`, `givenS` | history: who opened a session, which handles clients know |

An action is one request, from its header to its answer: the server is a single
thread and nothing else touches its tables. Pointers into the tables are slot
numbers, null is 0. A handle is a number from a counter: that sixteen bytes of the
generator are never drawn twice is an assumption, since the code does not compare a
draw with its tables. `HandlesUnique` follows from it and is a part of the proofs'
invariant, not a property any run checks. An action that ends the loop leaves a value in `srv`
which tells the ways apart: an error returned, an assertion on an active byte,
on a slot or on a count, a write past a table. After that nothing happens, which
is why the configurations turn the deadlock check off.

The inputs of the handlers are all handles clients were ever given, those of
closed contexts and sessions included, in any combination.

### 2.2 NwldTapi and the driver

| in the model | in the code |
|---|---|
| `ids[p][i]`: `used`, `cid`, `cnt`, `open` | `info[i]`: `used`, `context_id`, `context_id_cnt`, whether the platform's channel in `comm` was opened |
| `numIds`, `numConns` | `num_context_id`, `num_connections` |
| `conn[p][k]`: `used`, `id`, `ctx`, `table`, `num` | `clist[k]`: `used`, `context_id_index`, `context`, whether `s` is not null, `num_sessions` |
| `slot[p][k][j]` | `clist[k].s[j]`: the handle if `used`, else 0 |
| `call[p]` | where process `p` is: in no handler, or inside `sk_nwld_platform_comm_proc` for the request recorded |
| `proc[p]` | `p` runs, or died, or died of the missing session table |

The driver is linked into the client process, so its tables are per process. A
handler is an action before the exchange (`OpenContext`, `ContextRequest`,
`SessionRequest`) and one after it (`Receive`, `ExchangeFails`); the process is
blocked in between. A process has one thread in the driver: it has no locks, and
nothing in the SDK calls it from two.

Three things about the code that the model shows as they are:

* every error a handler returns is logged by `sk_nwld_platform_tapi_ioctl_proc`
  through a null pointer, on purpose (`sk_drv_nwld_tapi_ioctl.c`: "provoke
  SYSV_ERROR to crash"), so the client dies of it. `Logging` is FALSE for a
  build with `SYSV_NO_LOG`, where the caller gets the error;
* `sk_nwld_tapi_init` allocates a session table for the first connection only; a
  second one, where more are configured, has contexts and regions and no sessions;
* `SYSV_ASSERT` ends the process. In a `RELEASE` build it is empty; the one
  place that matters (a connection without a session table) then returns an
  error after the server has opened the session.

### 2.3 TeecApi and the client API

| in the model | in the code |
|---|---|
| `ctx[p][c]` | `SKTEEC_Context.handle`, the index of a connection |
| `sess[p][s]` | `SKTEEC_Session.handle`, the index of a session, and `SKTEEC_Session.context`, the pointer |
| `pending[p]` | the structures on the stack of the function that waits for the driver |
| `opened`, `careful`, `lost` | history: what was opened for each structure; whether the process only ever used what it had opened; the opens that failed after a context id was counted |

Each function is the driver's handler with what it does to the structures before
(`ApiOpenContext`, `ApiContextCall`, `ApiOpenSession`, `ApiSessionCall`) and after
(`ApiReturn`, `ApiExchangeFails`). A caller may pass any structure, also one that
was closed, or one whose context's structure was since opened again. A session
call reads the connection through the pointer to the context's structure, at the
time of the call; without that pointer the process dies (`NullContext`). Indices
are 1 higher than in the code; a zeroed structure therefore holds 1 (`First`).

### 2.4 TapiSystem and the channel

`Serve(p)` is: the process has the device lock, wrote its request, and the
server has run its handler. `Deliver(p)` is: the process read the answer and
unlocked. `chan` is the answer in between, and `chan # Quiet` is the lock held
after the server answered. A process that does not have the lock cannot reach
the server, so it makes no difference whether it waits in `flock` or already
has the lock and has not written yet.

Faults are switched on per run by `Faults`:

| fault | what it is |
|---|---|
| `open` | the device or socket of a new context id does not open |
| `request` | the exchange fails before the server has the request |
| `answer` | it fails after the server acted |
| `die` | a process ends at any point; the system releases its lock |
| `stop` | the server's receive fails and its loop ends. Over TCP the server has one connection and this is what a dying client causes |

`torn` remembers which handles an answer nobody heard of was about: the context or
session it opened or closed. `Changed(p)` names them; no action looks at it.

That an answer nobody reads is gone with the lock is taken for granted here: the
device is not in this repository.

### 2.5 TapiComm and the wire

| in the model | in the code |
|---|---|
| `locked` | the platform: Fiasco with `flock`, or TCP with one accepted connection and no lock |
| `at`, `op`, `out`, `due` | where a process is in `sk_nwld_platform_comm_proc`, its `op`, what it has still to write and to read |
| `lock` | who holds the device |
| `req`, `rep` | the bytes on the way in each direction |
| `sat`, `sparam` | where the dispatch loop is, `tObj->op` |
| `sout`, `sdue` | what `comm_send` has still to write, `comm_recv` to read |
| `sbuf` | the parameters with a buffer the server allocated |
| `speer` | history: whose request it is |

What is written in one call is a field. Readers know which field they expect and
derive from the ones they have read which come next; writers derive the same
from their operation. The code has this order four times, twice for each
platform. A reader that gets another field than the one it waits for is `lost`
and nothing is said of it after that.

A call of `sk_nwld_platform_comm_proc` on the locked device may fail (`ClientFails`)
where nothing of its message is left in the device (`NothingBehind`): `flock` or the
first write fails, or the last read gets a part of its field. Its early exits but that
of `flock` go to `DONE`, which unlocks the device; `CallReturns` is violated when one of
them does not (`ClientFailsLocked`). Elsewhere a failure would leave a part of a
message behind, and what the device then does is not in the repository.

Things worth knowing about the code which the model shows: parameters with IN and
with INOUT are treated alike, since the code only tests `SKTEEC_MEMREF_OUT`, so the
data of an INOUT parameter goes to the client and never to the server; sizes do
not change on the way, since `sk_swld_tapi_invoke_command_nw` hands the TApp a
copy of the operation.

### 2.6 TapiPack, TapiRouter and the messages

`TapiPack` has one definition for each pair of functions: the fields
`sk_tapi_*_pack` stores and those `sk_tapi_*_unpack` reads, for the request and for
the answer. `Pack` and `Unpack` run over such a list as the macros `STORE` and
`READ` do. Bytes are digits to the base `Base`, words have `WordSize` of them, an
`int` is the two's complement of a word, as the code's conversions make it.

| in the model | in the code |
|---|---|
| `msg`, `msg_size` | `intf->msg` and its size; what is behind `msg_size` is what was there before |
| `ids` | `intf->ids`, and whether `tapi_recv_msg_from_context` was given |
| `replies` | whether `tapi_send_msg` was given |
| `context` | the context the message was sent to |
| `at` | where `sk_swld_tapi_message_interface_process` is |
| `request`, `served`, `answer`, `accepted` | history: what the driver packed, what the handler got, what it answered, what the driver took for the answer |

The functions the router is given are not in the repository. Each may fail, and
one that receives may deliver only the first bytes of a message.

`sk_swld_tapi_message_interface_init` may fail at its last step, the allocation of
the buffer, and the interface is then not up. The room a server packs its answer into
is the whole buffer: every handler sets `msend_size` to the maximum before it packs.
An answer that did not fit would be a handler that fails.

What the model shows about the code: `pid` of an open_context request is a
field of the structure and is not packed; the functions of the system message know
only the type `SK_TAPI_SYSTEM`, and the one caller of its pack function
(`tapi.c:522`), in a branch that is never reached, names another, so that no
`system` answer is ever packed (the driver, which unpacks the answer it waits for
before it looks at the command, would refuse it for its length); a router without
`tapi_recv_msg_from_context` sends the request back as the answer, and for commands
whose request is at least as long as their answer the driver takes it for one
(`AcceptedAsAnswered` therefore speaks of contexts that can be received from).

### 2.7 TappToc

| in the model | in the code |
|---|---|
| `toc` | the tool's `buffer` and the file `toc.dat`, in words of four bytes at the positions of `sk_swld_tapp.h` |
| `left` | the tool's `buffer_size` |
| `db` | the file `db.dat`: TApp files one after another |
| `at`, `slot`, `taid`, `idx` | where `tapp_load` is, its arguments and `i` |
| `held` | open files and allocated memory |
| `tapp` | `arch_obj` of each session |

A step of `tapp_load` is a read; each can fail. The platform's loader is one step
that fails after any of its acquisitions. A TOC is one the tool builds or one
that came with the code: `src/demos/hello/toc.dat` is laid out as the header says,
which is `TocOf`.

### 2.8 Rc4Prng and the handles

`buf`, `x`, `y` are the fields of `prng`; `key`, `keylen`, `j` the locals of
`my_rc4_prng_ready` while its loop runs, which is a turn per step; `phase` says
which functions may be called next. The object comes from `malloc`, and so `buf`
and `y` start with anything. The two `main` functions pass 16 bytes of an array
they never wrote as entropy, so every entropy is possible and no property may
rest on its quality. `N` is 256 in the code.

## 3. Runs

Every name below is a run of `PROJECT.json`.

| run | bounds | checks |
|---|---|---|
| `sessions` | 2 contexts, 3 session slots, 5 handles, 3 regions, every request; `Bound`: regions only up to the third handle | `TypeOK`, `ListsSound`, `WalkFindsMembers`, `CountersMatchTables`, `AssertionsHold`, `TappFollowsSession`, `MemoryListSound`, `OnlyOwnerTouchesSession`, `TeeSpec` |
| `ctxslot`, `sessslot` | 2 contexts, 2 session slots | violated: section 6 |
| `client` | 1 process with 2 context and 2 session structures, 2 context ids, 2 connections of 2 sessions | `CountersMatchTables`, `ChannelOutlivesConnections`, `WaitsOnLiveObject`, `StructuresMatchTables`, `CallsReachOwn`, `CountExplained` |
| `reopen` | 1 process, 1 connection | violated: section 6 |
| `agree` | 2 processes, 2 connections of 2 sessions each, a foreign context id, every request, every fault, 4 handles, 1 region; `Bound` below | `DriverAgreesWithServer`, `NothingShared`, `AnswerFitsRequest`, `OnlyTornClosesAssert`, `ServerSpec`, `DriverSpec`, `ExchangeSpec` |
| `lostreply` | 2 processes, fault `answer` | violated: section 6 |
| `wire` | both platforms, 2 processes, operations of up to 2 parameters, streams of 2 fields; processes leave, die (TCP), calls of a client fail (Fiasco), the server's reads come short | `FramesKept`, `ExchangesApart`, `BuffersFreed`, `ExchangeSpec`, `CallReturns` |
| `messages` | base 4, words and handles of 2 bytes, buffers of 12; every command, 2 messages in a row, cut off at any byte, 4 ways to set the router up | `TypeOK`, `ServedAsSent`, `AcceptedAsAnswered` |
| `prng` | `N` = 4, any number of seeds of 0, 1 or 3 bytes, trimmed when the buffer is full, every entropy, any number of reads | `TypeOK`, `BufferIsPermutation`, `NeverShortCycle`, `ReadLosesNothing` |
| `load` | 3 TAIDs, 2 sizes, up to 4 TApps in a buffer for 3, 2 sessions | `LoadFindsOwn`, `NothingLeaked`, `ShippedFound` |
| `built` | as `load` | violated: section 6 |

Why the bounds are enough: three session slots have a first, a middle and a last
session of one list and room for a second list beside it; two contexts are needed
for sessions that do not belong together; five handles let slots be used again
after they were freed, so stale handles exist. Three regions leave the memory list
from every position, in every order. In the driver, two ids and two connections
are the least in which two connections share a channel and a third party does
not. One process is enough there, since processes touch nothing of each other's;
two are needed for the system, and the server treats them alike, which is why
`agree` may use symmetry; `client` may since nothing tells the structures, or
the context ids, apart. Two structures of each kind are what it takes to call
through a closed one while another is open.

Two runs also cut the state space by a constraint. In `sessions` no handler looks at
the region list and at a session, so regions need not come together with all
sessions: they are registered while up to three handles are drawn, which
include closed contexts. In `agree` three handles are drawn in any order; the fourth
once each client has a context and a session, for two sessions on both sides. After
an answer about a handle was lost, two handles remain, which let the other
client have a context beside the torn one, and a third when each client has
one context. A region, a stopped server and a foreign context id need no more
than one handle to meet all there is to meet: an open context. All of these cut
off later states only, and a step into a state cut off is still checked.

The names of all other bounds end up in guards: `MaxHandles`
(draws), `MaxRegions` (registrations), `MaxCount` (a context id's count, which
failed calls can push up without end), `MaxFiles` (TApps in a directory),
`Capacity` (fields in a stream),
`MaxCalls` (messages through the router). On the wire, two parameters give every pair of
kinds, in both orders, and a stream of two fields is shorter than every request
and most answers, so both ends meet a full and an empty one. In `messages` two
messages are enough for the first to leave its bytes under the second. The
longest request and answer there fill the buffer whole. `N` = 4 is checked
with all keys; the proofs do the 256. The TAIDs of `load` differ in
the first or in the last word only, tables have none to three of them, and the
tool is also given one TApp more than fit.

What the properties are about:

* **Lists** (`ListsSound`, `WalkFindsMembers`): `start`, `next` and `prev` of the
  tables are doubly linked lists, one for each context, of exactly its sessions,
  and the loop that looks a session up meets each of them once.
* **Counters** (`CountersMatchTables`, both modules; `AssertionsHold`): the
  counters the guards look at are the sizes of what they count (the server's
  count of contexts is only never above it: section 6, `ctxslot`).
* **Handles** (`OnlyOwnerTouchesSession`): a stale handle, or one
  of another context, never reaches a live session.
* **TApps** (`TappFollowsSession`): a client that was given a session has a
  TApp behind it until the session ends.
* **Channels** (`ChannelOutlivesConnections`, `CountExplained`): no channel is shut
  under a connection, whatever failed before; the count of a context id is
  that of its connections and of the opens that failed, which nobody takes off,
  and of nothing else.
* **Structures** (`StructuresMatchTables`, `CallsReachOwn`, `WaitsOnLiveObject`): a
  caller that uses what it opened reaches exactly that, and has a structure for
  everything that is open; a handler that waits for the server finds its
  connection and slot as it left them.
* **Both sides** (`DriverAgreesWithServer`, `NothingShared`): what a driver holds
  the server has, for that driver alone, whatever failed; a lost answer costs the
  context or session it was about and no other. The converse is false and nothing
  claims it: contexts and sessions are left in the server by clients that die
  and by handlers that fail after the exchange.
* **The server's assertions** (`OnlyTornClosesAssert`): a request that trips an
  assertion on a handle names one whose close was answered and not heard, and the
  count of contexts is never closed below 0 without such a close somewhere.
  `DriverAgreesWithServer` speaks of a server that has not asserted
  (`HandlesSentAreActive`): nobody reaches the tables of one that has.
* **Assumptions discharged** (`ServerSpec`, `DriverSpec`): each component
  specification assumes an environment; in the composition, the other component
  is that environment. So what holds of the parts alone holds in the system.
* **Wire** (`FramesKept`, `ExchangesApart`, `BuffersFreed`): both ends agree on
  the order and the number of fields for every operation, whatever the requests
  before; no two exchanges mix; no buffer outlives its request.
* **Messages** (`ServedAsSent`, `AcceptedAsAnswered`): fields arrive as they were
  packed, in the context they name, or not at all.
* **Generator** (`BufferIsPermutation`, `NeverShortCycle`, `ReadLosesNothing`): the
  state after the schedule is the first to come back, and not after the few
  bytes of RC4's short cycle.
* **Loading** (`LoadFindsOwn`, `NothingLeaked`, `ShippedFound`): table, database
  and manifests lead to the TApp that was asked for, and no failure leaves
  anything open or allocated.
* **Progress** (`CallReturns`): a process that calls `sk_nwld_platform_comm_proc` comes
  back from it, although both ends write into streams of bounded size before they
  read, and although the call before it, of another process, may have failed: every
  way out of it after `flock` gives the device back.

### Fairness

Only `CallReturns` needs it. `SF(Lock(p))`: `flock` grants the device to each
waiter in the end; weak fairness would not do, since others take it in between
and the action is disabled again and again. Weak fairness of `Write`, `Read`,
`Receive`, `Send`: a process that can go on writing or reading does; both ends
are blocked in a system call otherwise. Weak fairness of `Handle` also says that a
TApp that is called comes back, which `sk_swld_platform_tapp_pull` makes no effort to ensure (on
TCP and Fiasco the TApp runs in the server's thread). `ClientSeesEnd` and
`ServerSeesEnd`: TCP tells each end that the other is gone. No fairness is put on
clients making requests or on faults. A client of a Fiasco server whose loop ended
is left out of the promise: whether `read` then fails is the device's.

## 4. Proofs

`SwldTapiProofs` proves, for all sizes of the tables and any number of handles
and regions, from `BoundsAssumption` (tables have at least one slot, the
bounds are numbers, the requests are requests) alone:

| theorem | says |
|---|---|
| `Invariance` | `Spec => []IInv` |
| `TypeCorrect` | `TypeOK` |
| `ListsCorrect`, `CountersCorrect` | `ListsSound`, `CountersMatchTables` |
| `TappsCorrect` | `TappFollowsSession` |
| `WalkCorrect` | `WalkFindsMembers` |
| `AssertionsCorrect` | `AssertionsHold` |
| `MemoryListCorrect` | `MemoryListSound` |
| `SessionsBelong` | `OnlyOwnerTouchesSession` |
| `Implements` | `TeeSpec`: the server implements `TeeSessions` |

None of the properties is inductive alone. That a list loses exactly one
session when one is unlinked needs the links of its neighbours (`NextLinks`,
`PrevLinks`), that a slot that is not active carries no links
(`FreeSlotsEmpty`), that `start` is a session without predecessor
(`StartsFirst`), and that all sessions in a list have the owner of its context
(`SessionsOwned`); that a handle finds at most one slot (`HandlesUnique`) needs
that every handle anywhere was drawn before the next one (`HandlesDrawn`). `IInv` is the
conjunction, with `MemoryLinks` for the regions. The proof has a lemma for each
operation that disturbs the tables (`OpenContextKeeps`, `RemoveContextKeeps`,
`OpenSessionKeeps`, `RemoveSessionKeeps`, `RegisterMemoryKeeps`,
`UnregisterMemoryKeeps`), and one for all the others (`QuietKeeps`); `NextKeeps`
puts them together. The action property and the refinement go through
`StepEffects`, which says what a step can do to open contexts and sessions.
The refinement maps `contexts` to the handles of active contexts, `sessions` to
the pairs of an active session's handle and its owner, `issued` to the handles
drawn so far.

`Rc4PrngProofs` proves for every `N` of at least 2, the 256 of the code included,
and every amount of entropy (`SizeAssumption`, `SeedAssumption`):

| theorem | says |
|---|---|
| `TypeCorrect` | `TypeOK`: no index leaves the buffer or the key |
| `PermutationKept` | `BufferIsPermutation` |
| `ShortCycleAvoided` | `NeverShortCycle` |
| `ReadsInvertible` | `ReadLosesNothing` |

A turn of either loop exchanges two elements, and an exchange keeps a
permutation (`SwapKeepsPermutation`). The short cycle is closed backwards
(`ShortCycleClosed`): a read that ends in it began in it, so it is enough that the
generator starts outside, which it does because `x` and `y` start again from 0
after the schedule. A read can be undone because the exchange undoes itself
(`SwapTwice`) and the element that moved `y` is found again at the new `y`
(`ReadByteValues`).

`NwldTapiProofs` proves, for any number of processes, ids, connections and
sessions, with or without logging, from `DriverAssumption`:

| theorem | says |
|---|---|
| `DriverInvariant` | `Spec => []IInv` |
| `CountersCorrect` | `CountersMatchTables` |
| `ChannelsOutlive` | `ChannelOutlivesConnections` |
| `WaitsCorrect` | `WaitsOnLiveObject` |

A process changes its own tables only, so the invariant is one of a single
process (`DriverInv`) and `OthersKeep` deals with the rest once. What makes it
inductive is `Covered`: a context id's count is never below its connections
and the open that is on its way, which `sk_nwld_tapi_open_context` has counted
before the exchange. An id freed by one connection's close has then no other
connection on it. Each change of a table is a lemma (`IdTaken`, `CountTaken`,
`ConnTaken`, `ConnFreed`, `SessionTaken`, `SessionFreed`), used again for the
client API.

`TeecApiProofs` proves, for any number of structures too, from `ApiAssumption`
(context and session structures are objects of two types, none of them at null):

| theorem | says |
|---|---|
| `ApiInvariant` | `ApiSpec => []ApiInv` |
| `ApiDrivesDriver` | `ApiSpec => Spec`: the API makes no call that the driver is not specified for |
| `CountsExplained` | `CountExplained` |
| `CallsReachTheirOwn` | `CallsReachOwn` |
| `StructuresMatch` | `StructuresMatchTables` |

`ApiInv` adds to the driver's invariant that the count of an id is the sum in
`CountExplained` exactly, where an id not in use has no failed opens
(`Explained`), and for a process that only used what it had opened: that its
structures name what was opened for them (`Named`), that no two name the same
(`Apart`), that structures and tables are in bijection (`InTables`), and that the
structures on the stack of a call are those the call is about (`Asked`). `Asked`
is what the properties lack: without it an answer could be filed in another
structure than the one the request was read from.

`TapiSystemProofs` proves for any number of clients and every combination of
faults, from `SystemAssumption` (the types of the constants; a caller may name any
context id; no client has the name of nobody):

| theorem | says |
|---|---|
| `SystemInvariant` | `Spec => []SysInv` |
| `AnswersCorrect` | `AnswerFitsRequest` |
| `HandlesApart` | `NothingShared` |
| `DriverAgrees` | `DriverAgreesWithServer` |
| `RunsDrivers`, `RunsServer` | `DriverSpec`, `ServerSpec` |
| `TornOnly` | `OnlyTornClosesAssert` |
| `ChannelCorrect` | `ExchangeSpec` |

`SysInv` is the invariant of the drivers, that of the server, and `Matched`,
which relates them. The first two are not proved again: `NwldTapiProofs` and
`SwldTapiProofs` are instances there, a step of the system is shown to be a step
of each part or none (`SameDriver`, `SameServer`), and their lemmas apply.
`Matched` says that the answer on the way is for a process that waits for it
(`OnWay`), that processes only hold handles they were given (`Given`), each in
one place, the one on the way counted (`Distinct`), that what a living process
holds and no lost answer was about is open in the server (`Agree`), and, while no
answer was ever lost, that the server counts at least as many contexts as clients
hold (`Counted`), without which `num_ctable_elements` could not be shown to stay
above 0. `Serve` is taken apart by what the server's step lets a client see
(`ServeSeen`), `Deliver` by what the driver files (`DeliverySeen`).

`TappTocProofs` proves for any number of TApps and sessions, TAIDs and sizes, from
`TocAssumption` (a TAID is four words; a TApp is at least its manifest; the
buffer holds a header and is smaller than the modulus; the tool is not given the
TApp with which its `buffer_size` wraps):

| theorem | says |
|---|---|
| `NothingLeft` | `NothingLeaked` |
| `ShippedLoadsOwn` | `LoadFindsOwn` with a table laid out as `sk_swld_tapp.h` says |
| `LoadsOwn` | `LoadFindsOwn` with the tool's own tables too, if no TAID has a third word of 0 (`ThirdWords`) |
| `SearchComplete` | `ShippedFound` |

`HeldInv` says that the memory of loaded TApps is held and, during a load, the
table; it is inductive alone. `FoundInv` says that the table has an entry for each
file of the database, with its TAID, its size and its place (`Entries`), and that
a search passed by no entry of the TApp it looks for (`Searching`). That the
files lie one after another is a sum over the database (`Start`). Facts about it
are proved by induction: `Induction` says that a set of numbers with 0 and with the
successor of each member is `Nat`, proved from the least number of a set, and
`PlacesExist`, `StartNext` and `StartIncreases` use it. `LoadsOwn` needs its
hypothesis: the tool's broken entries (section 6, `built`) have the size, the
address and two zeros in the TAID's place, and a TAID of such words would match.
The TAIDs in the repository have no word of zeros.

`TapiCommProofs` proves, for any finite set of processes, any number of
parameters, any capacity of the streams and every combination of faults, from
`CommAssumption` (the types of the constants; no process has the name of nobody):

| theorem | says |
|---|---|
| `CommInvariant` | `Spec => []IInv` |
| `FramesCorrect` | `FramesKept` |
| `ExchangesCorrect` | `ExchangesApart` |
| `BuffersCorrect` | `BuffersFreed` |
| `ExchangeKept` | `ExchangeSpec`: the wire implements `Exchange` |

`IInv` says who is in an exchange (`Alone`) and in which of five states the
exchange is: none (`Resting`), a request on its way (`Asking`), handled
(`Handling`), an answer on its way (`Answering`), or the loop has ended (`Stopped`).
`Asking` and `Answering` put the stream and what is still to write together
into one sequence of fields and say that it is what the reader waits for. That
relation, `Expects` for requests and `Answers` for answers, is about constants
only, and a field read keeps it (`ReceiveOne`, `AnswerOne`): the reader's next
field is the first one of the sequence, and there is none to wait for exactly when
the sequence is at its end. These two lemmas are where the order of the fields
in the four functions is compared. They are the only ones that look at parameters:
from the k-th on, the fields and those waited for are two concatenations of which
the one skips a parameter when the other does (`NextBlock`), and the code's loops
come out as `FlattenSeq`, whose first element is taken off by `FlattenFirst`. `Stopped`
keeps no order: what the server did not read stays in the stream, and no one
begins another exchange behind it. Over TCP the one process may be gone with an
exchange under way (`Engaged`). The refinement goes through `Phase`; only `Handle`
makes an answer, and only for the process whose exchange it is.

`TapiRouterProofs` proves, for bytes of any base, words, handles and buffers of any
size, any contexts, setups, requests and answers, from these assumptions: a word
holds the numbers of the commands (`PackAssumption`); the constants have their
types (`RouterAssumption`); and what is asked and answered has the fields of its
message, each of its type in C (`MessageAssumption`):

| theorem | says |
|---|---|
| `UnpackRead` | what was packed is read back, field by field |
| `RouterInvariant` | `Spec => []IInv` |
| `TypeCorrect` | `TypeOK` |
| `ServedCorrect` | `ServedAsSent` |
| `AcceptedCorrect` | `AcceptedAsAnswered` |

`UnpackRead` is about the operators alone. It says that when the bytes that
arrived are the beginning of an image, and the list that is read is one the stored
list begins with, an `Unpack` that succeeds has the message's values. The header
alone is such a list, which is how the router and the server's dispatch read. The
parts of it: a word comes back from its bytes (`WordRead`, by the
remainders modulo the weights of the digits), an `int32_t` with its sign, since
it and its two's complement have the same bytes (`SameBytes`, `IntRead`); a field's
bytes lie between its places in both lists (`OffsetSame`, `FieldBytes`), and those
stored later leave them alone (`ImageKeeps`). That both sides have the same lists is
`ReadAsStored`, by comparing the eighteen functions; that a number stands for one
command is `CommandsDiffer`.

`IInv` says, of the one buffer requests and answers share, that what counts of it is
the beginning of the request until that is served (`RequestArrived`) and, when the
reply is sent, of the answer (`AnswerReturned`), except where nothing can be received
from the context; that the context is the first of the id (`RightContext`); and that
the answer is one to this request, packed (`AnswerPacked`). Without them
`ServedAsSent` and `AcceptedAsAnswered`, which speak of what was read long after the
bytes were overwritten, are not inductive. `TapiPack` writes the sums, the
concatenation and the digits as recursive functions, for the sake of these proofs.

Left to TLC: `CallReturns`, as liveness under fairness and `ENABLED` are out of the
prover's reach. The library's induction theorems take an operator as a parameter,
which the installed provers cannot instantiate, and tlapm has no SMT in a module
with a RECURSIVE operator, so sums, places and concatenations are recursive
functions and induction is over sets of numbers (`Induction`).

## 5. Plan

1. `TappToc` in place of `LoadOutcome`, so that the outcomes the server sees are
   the ones loading has.
2. Expiry in `sk_swld_tapi_check_nw` with small limits.
3. Calls of a client that fail, and a process that dies, in the middle of a message
   on the Fiasco device, if what the device keeps is settled.
4. The manifests of the TApps: packing and the file the tool writes.

## 6. What the runs found

* **`ctxslot`** - `close_context_nw` ignores that `sk_swld_tapi_remove_context`
  refuses a context with sessions, and counts it out. The count then admits a
  context for which no slot is free, and `tapi.c:622`, "should never occur
  here", occurs.
* **`sessslot`** - `open_session_nw` compares the sessions of one context with
  the size of the table all contexts share. The second context finds no slot
  and the one past the table is written.
* **`reopen`** - `sk_nwld_tapi_close_context` zeroes the connection together
  with the pointer to the session table allocated once in `init`. With the one
  connection the platforms configure, a client cannot open a session on the
  second context of its life: `sk_drv_nwld_tapi.c:91` asserts.
* **`lostreply`** - a close whose answer is lost can only be tried again, and
  then the handle is found in a freed slot and `tapi.c:726` (83 and 103 for
  sessions) asserts, where the code means to answer that the handle is
  unknown; the server is gone for every client. It is not always the client with
  the lost answer that pays: when sessions kept its context in its slot, each
  try counts `num_ctable_elements` down again, and then another client's close
  finds a count of 0 (`tapi.c:759`).
* **`built`** - `tapp_toc_add_entry` writes TAID, size and address of an entry
  through a pointer only the size moves: size and address overwrite the TAID, and
  `tapp_load` finds nothing. `src/demos/hello/mani/outdbtoc/toc.dat` is such a file,
  word for word what the model writes; `src/demos/hello/toc.dat` is a good one, and
  the Makefile of the demo no longer rebuilds it. The comment in
  `sk_swld_tapp.h` also gives the address four bytes and 16 reserved ones where the
  macros below it say 32 and 32.

Seen on the way and claimed by no run: `tapp_toc_remove_entry`, which nothing
calls, loses the last of three entries; the tool's `buffer_size` wraps once less
than an entry is left (390 TApps); a call that gives up in the middle of an answer
leaves the rest in the Fiasco device.

## 7. Not modelled, and why

* Expiry: with the limits as shipped nothing expires; `Check` has the rest of
  `sk_swld_tapi_check_nw`, the null session of an empty context included.
* `sk_nwld_tapi_end`: nothing calls it.
* Equal handles from two draws of the generator.
* The contents of operations, of shared memory and of TApps.
* What the handles drawn from the generator are: `SwldTapi` takes them as fresh, and
  `Rc4Prng` has the states of the generator and not the bytes XORed onto a handle.
* The self tests in `my_rc4_prng.c`.
* What a device does with the bytes of a process that gave up or died, and a
  second TCP connection, which the server never accepts.
* `tapp_toc.c`, which nothing calls; the manifest writer and the demos: batch
  programs over files.
