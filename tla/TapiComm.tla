------------------------------ MODULE TapiComm ------------------------------
(***************************************************************************)
(* The exchange of one request and its answer, field by field:             *)
(* sk_nwld_platform_comm_proc of both platforms, and the server's          *)
(* sk_swld_platform_comm_recv and _send with the loop of                   *)
(* sk_swld_tapi_dispatch around them.                                      *)
(*                                                                         *)
(* On Fiasco all client processes share one device and lock it for an      *)
(* exchange; over TCP the server accepts one connection of one process and *)
(* nothing is locked.  What a writer writes in one call is one field; the  *)
(* two streams keep the fields in order and hold a bounded number of them. *)
(* A writer knows what it writes.  A reader only knows what it expects,    *)
(* from what it has read so far: who wrote a field is a mark of the model. *)
(***************************************************************************)
EXTENDS Naturals, FiniteSets, SequencesExt

CONSTANTS
  Client,     \* the processes with the channel open; over TCP, those that try
  MaxParams,  \* SK_MAXIMUM_OPERATIONS
  Capacity,   \* bound of the model: the fields a stream holds
  Faults      \* what goes wrong in this instance, see AllFaults

\* A process ends outside of an exchange or within one, a call of a process on
\* the device fails, a read of the server gets only a part of the field.  What
\* the Fiasco device does with the fields of an exchange that broke off between
\* them is not in the repository, so there "die" is left out, and "client_fails"
\* is where no field of the exchange is in the device.
AllFaults == {"leave", "die", "client_fails", "server_short"}

ASSUME CommAssumption ==
  /\ MaxParams \in Nat
  /\ Capacity \in Nat \ {0}
  /\ Faults \subseteq AllFaults
  /\ IsFiniteSet(Client)
  /\ "nobody" \notin Client

\* A parameter of an operation: SKTEEC_MEMREF_OUT in its flag or not (IN and
\* INOUT are treated alike), and whether its memory_size is above 0.
Param     == [out : BOOLEAN, full : BOOLEAN]
ParamList == UNION {[1..n -> Param] : n \in 0..MaxParams}

\* Only invoke_command passes an operation.
Operation   == [given : BOOLEAN, param : ParamList]
NoOperation == [given |-> FALSE, param |-> <<>>]
Requests    == {op \in Operation : ~op.given => op = NoOperation}

VARIABLES
  locked,  \* TRUE: the Fiasco platform; FALSE: the TCP platform
  at,      \* at[p]: where process p is
  op,      \* op[p]: the operation it passed
  out,     \* out[p]: the fields it has still to write
  due,     \* due[p]: the fields it has still to read, as far as it knows
  lock,    \* the process flock gave the device to, or "nobody"
  req,     \* the stream to the server
  rep,     \* the stream to the clients
  sat,     \* where the server is
  sparam,  \* tObj->op, num_param of them
  sout, sdue,  \* the fields the server has still to write and to read
  speer,   \* history: whose request the server works on
  sbuf     \* the parameters the server holds a malloc'd buffer for

cvars == <<at, op, out, due, lock>>
svars == <<sat, sparam, sout, sdue, speer, sbuf>>
vars  == <<locked, cvars, req, rep, svars>>

-----------------------------------------------------------------------------
(* The order of the fields.  The writer's side gives the fields, the       *)
(* reader's side their kinds.                                              *)

Field(p, kind, i, o) == [from |-> p, kind |-> kind, i |-> i, op |-> o]
Due(kind, i)         == [kind |-> kind, i |-> i]

ToServer(x) == x.out /\ x.full
ToClient(x) == ~x.out

\* The data of the parameters a TApp reads.
RequestData(p, o) ==
  FlattenSeq([i \in 1..Len(o.param) |->
    IF ToServer(o.param[i]) THEN <<Field(p, "data", i, o)>> ELSE <<>>])

\* What comm_proc writes.
RequestFields(p, o) ==
  <<Field(p, "header", 0, o), Field(p, "message", 0, o), Field(p, "op_size", 0, o)>>
    \o IF o.given THEN <<Field(p, "op", 0, o)>> \o RequestData(p, o) ELSE <<>>

RequestDue == <<Due("header", 0), Due("message", 0), Due("op_size", 0)>>

\* A bug: comm_recv waits for the data of parameters without memory.
DataDueEven(params) ==
  FlattenSeq([i \in 1..Len(params) |-> IF params[i].out THEN <<Due("data", i)>> ELSE <<>>])

\* What comm_recv reads after the operation has come in.
DataDue(params) ==
  FlattenSeq([i \in 1..Len(params) |-> IF ToServer(params[i]) THEN <<Due("data", i)>> ELSE <<>>])

\* The size and the contents of the parameters a TApp fills in; of an empty
\* one, a write of no bytes.
ReplyData(p, o) ==
  FlattenSeq([i \in 1..Len(o.param) |->
    IF ~ToClient(o.param[i]) THEN <<>>
    ELSE IF o.param[i].full THEN <<Field(p, "size", i, o), Field(p, "data", i, o)>>
    ELSE <<Field(p, "size", i, o)>>])

\* What comm_send writes: over TCP it sends the operation again before the
\* data, unless it has no parameters.
ReplyFields(p, params) ==
  LET o == [given |-> Len(params) > 0, param |-> params]
  IN <<Field(p, "header", 0, o), Field(p, "message", 0, o)>>
       \o (IF locked THEN <<>>
           ELSE <<Field(p, "op_size", 0, o)>> \o IF o.given THEN <<Field(p, "op", 0, o)>> ELSE <<>>)
       \o ReplyData(p, o)

\* The sizes a client waits for: n of its own parameters.
SizesDue(o, n) ==
  FlattenSeq([i \in 1..Len(o.param) |->
    IF ToClient(o.param[i]) /\ i <= n THEN <<Due("size", i)>> ELSE <<>>])

\* What comm_proc reads, as far as it knows before it has the first field.
ReplyDue(o) ==
  <<Due("header", 0), Due("message", 0)>>
    \o IF locked THEN SizesDue(o, Len(o.param)) ELSE <<Due("op_size", 0)>>

\* The reader gets what it waits for.
Fits(stream, expected) ==
  Head(stream).kind = Head(expected).kind /\ Head(stream).i = Head(expected).i

-----------------------------------------------------------------------------
(* A client process in sk_nwld_platform_comm_proc.                         *)

\* The TCP server accepts one connection and never another one.
Init ==
  /\ locked \in BOOLEAN
  /\ \E connected \in SUBSET Client :
       /\ IF locked THEN connected = Client ELSE Cardinality(connected) = 1
       /\ at = [p \in Client |-> IF p \in connected THEN "idle" ELSE "gone"]
  /\ op   = [p \in Client |-> NoOperation]
  /\ out  = [p \in Client |-> <<>>]
  /\ due  = [p \in Client |-> <<>>]
  /\ lock = "nobody"
  /\ req  = <<>> /\ rep = <<>>
  /\ sat  = "recv"
  /\ sparam = <<>>
  /\ sout = <<>> /\ sdue = RequestDue
  /\ speer = "nobody"
  /\ sbuf = {}

Call(p, o) ==
  /\ at[p] = "idle"
  /\ at' = [at EXCEPT ![p] = "wait"]
  /\ op' = [op EXCEPT ![p] = o]
  /\ UNCHANGED <<locked, out, due, lock, req, rep, svars>>

\* flock on Fiasco; nothing to wait for over TCP.
Lock(p) ==
  /\ at[p] = "wait"
  /\ lock = "nobody"
  /\ lock' = IF locked THEN p ELSE lock
  /\ at'  = [at EXCEPT ![p] = "write"]
  /\ out' = [out EXCEPT ![p] = RequestFields(p, op[p])]
  /\ due' = [due EXCEPT ![p] = ReplyDue(op[p])]
  /\ UNCHANGED <<locked, op, req, rep, svars>>

\* A bug: the device is unlocked when the request is written.
WriteThenUnlock(p) ==
  /\ at[p] = "write"
  /\ Len(req) < Capacity
  /\ req' = Append(req, Head(out[p]))
  /\ out' = [out EXCEPT ![p] = Tail(@)]
  /\ at'  = [at EXCEPT ![p] = IF Len(out[p]) = 1 THEN "read" ELSE "write"]
  /\ lock' = IF Len(out[p]) = 1 THEN "nobody" ELSE lock
  /\ UNCHANGED <<locked, op, due, rep, svars>>

Write(p) ==
  /\ at[p] = "write"
  /\ Len(req) < Capacity
  /\ req' = Append(req, Head(out[p]))
  /\ out' = [out EXCEPT ![p] = Tail(@)]
  /\ at'  = [at EXCEPT ![p] = IF Len(out[p]) = 1 THEN "read" ELSE "write"]
  /\ UNCHANGED <<locked, op, due, lock, rep, svars>>

\* The call of p is over, and the device unlocked.
Leave(p, where) ==
  /\ at'  = [at EXCEPT ![p] = where]
  /\ out' = [out EXCEPT ![p] = <<>>]
  /\ due' = [due EXCEPT ![p] = <<>>]
  /\ op'  = [op EXCEPT ![p] = NoOperation]
  /\ lock' = IF lock = p THEN "nobody" ELSE lock

\* What a client that passed o reads after the field f, where it knew of rest.
DueAfter(o, f, rest) ==
  CASE f.kind = "size" /\ f.op.param[f.i].full -> <<Due("data", f.i)>> \o rest
    [] f.kind = "op_size" /\ f.op.given -> <<Due("op", 0)>>
    [] f.kind = "op" -> SizesDue(o, Len(f.op.param))
    [] OTHER -> rest

\* A field of the answer.  The bytes of a field that is not the one expected
\* mean nothing, and what follows is not modelled.
Read(p) ==
  /\ at[p] = "read"
  /\ rep # <<>>
  /\ rep' = Tail(rep)
  /\ \/ /\ Fits(rep, due[p])
        /\ LET next == DueAfter(op[p], Head(rep), Tail(due[p]))
           IN \/ next = <<>> /\ Leave(p, "idle")
              \/ /\ next # <<>>
                 /\ due' = [due EXCEPT ![p] = next]
                 /\ UNCHANGED <<at, op, out, lock>>
     \/ /\ ~Fits(rep, due[p])
        /\ Leave(p, "lost")
  /\ UNCHANGED <<locked, req, svars>>

-----------------------------------------------------------------------------
(* The server.                                                             *)

\* A bug: num_param is what it was.
StartKeepParams ==
  /\ sat' = "recv"
  /\ sdue' = RequestDue
  /\ UNCHANGED sparam

\* The top of the loop of sk_swld_tapi_dispatch.
Start ==
  /\ sat' = "recv"
  /\ sdue' = RequestDue
  /\ sparam' = <<>>

\* What comm_recv reads after the field f, where it knew of rest.
NextDue(f, rest) ==
  CASE f.kind = "op_size" /\ f.op.given -> <<Due("op", 0)>>
    [] f.kind = "op" -> DataDue(f.op.param)
    [] OTHER -> rest

\* comm_recv.  The buffers are allocated when the operation is there.
Receive ==
  /\ sat = "recv"
  /\ req # <<>>
  /\ req' = Tail(req)
  /\ speer' = Head(req).from
  /\ \/ /\ Fits(req, sdue)
        /\ LET f    == Head(req)
               next == NextDue(f, Tail(sdue))
           IN /\ sdue' = next
              /\ sparam' = IF f.kind = "op" THEN f.op.param ELSE sparam
              /\ sbuf' = IF f.kind = "op"
                         THEN {i \in 1..Len(f.op.param) : f.op.param[i].full} ELSE sbuf
              /\ sat' = IF next = <<>> THEN "handle" ELSE "recv"
     \/ /\ ~Fits(req, sdue)
        /\ sat' = "lost"
        /\ UNCHANGED <<sparam, sdue, sbuf>>
  /\ UNCHANGED <<locked, cvars, rep, sout>>

\* The dispatch loop ends, and its process with it.
EndServer ==
  /\ sat' = "ended"
  /\ sparam' = <<>> /\ sout' = <<>> /\ sdue' = <<>>
  /\ speer' = "nobody"
  /\ sbuf' = {}

\* sk_swld_tapi_process, which leaves tObj->op as it is (a TApp gets a copy).
\* An error ends the loop without an answer.
Handle ==
  /\ sat = "handle"
  /\ \/ /\ sat' = "send"
        /\ sout' = ReplyFields(speer, sparam)
        /\ UNCHANGED <<sparam, sdue, speer, sbuf>>
     \/ EndServer
  /\ UNCHANGED <<locked, cvars, req, rep>>

\* A bug: only the buffers that are sent are freed.
FreedSent(f) == IF f.kind = "size" THEN {f.i} ELSE {}

\* The buffers freed with the field f: the loop frees each parameter's when it
\* is past it.
Freed(f) ==
  IF Len(sout) = 1 THEN sbuf
  ELSE IF f.kind = "size" THEN {i \in sbuf : i < f.i} ELSE {}

\* comm_send, and back to the top of the dispatch loop.
Send ==
  /\ sat = "send"
  /\ Len(rep) < Capacity
  /\ rep' = Append(rep, Head(sout))
  /\ sout' = Tail(sout)
  /\ sbuf' = sbuf \ Freed(Head(sout))
  /\ \/ Len(sout) = 1 /\ Start
     \/ Len(sout) > 1 /\ UNCHANGED <<sat, sdue, sparam>>
  /\ UNCHANGED <<locked, cvars, req, speer>>

-----------------------------------------------------------------------------
(* What goes wrong.                                                        *)

\* A process ends, or closes its channel for good.  Its fields stay in the
\* device.
Gone(p) ==
  /\ \/ "leave" \in Faults /\ at[p] \in {"idle", "wait"}
     \/ "die" \in Faults /\ ~locked /\ at[p] \in {"write", "read"}
  /\ Leave(p, "gone")
  /\ UNCHANGED <<locked, req, rep, svars>>

\* Where comm_proc can give up with none of its fields left in the device, and
\* the answer's fields after it: flock fails, the first write does, or the last
\* read gets a part of its field.
NothingBehind(p) ==
  \/ at[p] = "wait" /\ rep' = rep
  \/ at[p] = "write" /\ out[p] = RequestFields(p, op[p]) /\ rep' = rep
  \/ /\ at[p] = "read" /\ rep # <<>> /\ Fits(rep, due[p])
     /\ DueAfter(op[p], Head(rep), Tail(due[p])) = <<>>
     /\ rep' = Tail(rep)

\* A bug: comm_proc returns at the failing call, past its DONE.
ClientFailsLocked(p) ==
  /\ "client_fails" \in Faults /\ locked
  /\ NothingBehind(p)
  /\ at'  = [at EXCEPT ![p] = "idle"]
  /\ out' = [out EXCEPT ![p] = <<>>]
  /\ due' = [due EXCEPT ![p] = <<>>]
  /\ op'  = [op EXCEPT ![p] = NoOperation]
  /\ UNCHANGED <<locked, lock, req, svars>>

\* A call of comm_proc on the Fiasco device fails.  All but a failing flock,
\* which leaves the lock to whom it is of, go to DONE, where it is given back.
ClientFails(p) ==
  /\ "client_fails" \in Faults /\ locked
  /\ NothingBehind(p)
  /\ Leave(p, "idle")
  /\ UNCHANGED <<locked, req, svars>>

\* A read of the server gets a part of the field, and its loop ends.
ServerShortRead ==
  /\ "server_short" \in Faults
  /\ sat = "recv" /\ req # <<>>
  /\ EndServer
  /\ UNCHANGED <<locked, cvars, req, rep>>

\* Over TCP each side sees that the other one is gone: recv gets nothing, send
\* fails or the process dies of the signal.
ServerSeesEnd ==
  /\ ~locked
  /\ \A p \in Client : at[p] = "gone"
  /\ (sat = "recv" /\ req = <<>>) \/ sat = "send"
  /\ EndServer
  /\ UNCHANGED <<locked, cvars, req, rep>>

ClientSeesEnd(p) ==
  /\ ~locked
  /\ sat = "ended"
  /\ \/ at[p] = "read" /\ rep = <<>> /\ Leave(p, "idle")
     \/ at[p] = "write" /\ \E where \in {"idle", "gone"} : Leave(p, where)
  /\ UNCHANGED <<locked, req, rep, svars>>

Next ==
  \/ \E p \in Client, o \in Requests : Call(p, o)
  \/ \E p \in Client : Lock(p) \/ Write(p) \/ Read(p)
  \/ Receive \/ Handle \/ Send
  \/ \E p \in Client : Gone(p) \/ ClientFails(p) \/ ClientSeesEnd(p)
  \/ ServerShortRead \/ ServerSeesEnd

Spec == Init /\ [][Next]_vars

\* The lock is granted again and again; both sides go on reading, handling and
\* writing.
Fairness ==
  /\ \A p \in Client : /\ SF_vars(Lock(p))
                       /\ WF_vars(Write(p)) /\ WF_vars(Read(p)) /\ WF_vars(ClientSeesEnd(p))
  /\ WF_vars(Receive) /\ WF_vars(Handle) /\ WF_vars(Send) /\ WF_vars(ServerSeesEnd)

FairSpec == Spec /\ Fairness
-----------------------------------------------------------------------------
(* Properties.                                                             *)

\* Each reader finds the field it waits for: the two sides of the wire, written
\* twice for two platforms, agree on the order and the number of fields for
\* every operation, whatever the requests before.
FramesKept == sat # "lost" /\ \A p \in Client : at[p] # "lost"

\* p is within an exchange.
Busy(p) == at[p] \in {"write", "read"}

\* Exchanges do not overlap: one process is in one, everything on the way is of
\* that exchange, and while the server runs the first field is written to empty
\* streams and a server that is back at the top of its loop.
ExchangesApart ==
  \A p \in Client : Busy(p) =>
    /\ \A q \in Client : Busy(q) => p = q
    /\ \A k \in 1..Len(req) : req[k].from = p
    /\ \A k \in 1..Len(rep) : rep[k].from = p
    /\ out[p] = RequestFields(p, op[p]) /\ sat # "ended" =>
         req = <<>> /\ rep = <<>> /\ sat = "recv" /\ sdue = RequestDue

\* A server that starts with a request has freed the buffers of all requests
\* before.
BuffersFreed == sat = "recv" /\ sdue = RequestDue => sbuf = {}

\* Every call comes back, whatever the capacity of the streams, unless the
\* server's loop ended on Fiasco.
CallReturns ==
  \A p \in Client : at[p] \in {"wait", "write", "read"} ~>
    (at[p] \notin {"wait", "write", "read"} \/ (locked /\ sat = "ended"))

\* The answer of p is being written or has been, and p has not read it all.
Served(p) == at[p] = "read" /\ (sat = "send" \/ rep # <<>>)

Abstract == INSTANCE Exchange WITH
  phase <- [p \in Client |-> IF at[p] \notin {"wait", "write", "read"} THEN "idle"
                             ELSE IF Served(p) THEN "served" ELSE "asked"]

\* Fields, streams and lock keep the promise of Exchange.
ExchangeSpec == Abstract!Spec
=============================================================================
