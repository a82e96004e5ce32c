----------------------------- MODULE TapiRouter ------------------------------
(***************************************************************************)
(* One message from end to end: a client's driver packs a request, the     *)
(* message interface (tapi_message_interface.c) receives it into its one   *)
(* buffer and passes it on to the context registered for its id, the       *)
(* server there unpacks it as its handlers do and packs the answer, and    *)
(* the way back.                                                           *)
(*                                                                         *)
(* The interface is given functions to reach the driver and the contexts.  *)
(* They are external: each may fail, and one that receives may be left     *)
(* with the first part of a message only.  Which of the optional ones are  *)
(* given is chosen when the interface is set up.                           *)
(***************************************************************************)
EXTENDS TapiPack, FiniteSets

CONSTANTS
  MaxIds,      \* SK_TAPI_MAX_CONTEXT_IDS
  MaxMsg,      \* max_msg_size, and the buffers of driver and server
  Requests,    \* what clients ask: records [cmd, msg]
  Answers,     \* what handlers answer with: the fields of any answer
  Setups,      \* what the interface is set up with: <<list of ids, replies>>
  MaxCalls     \* bound of the model: messages received in a run

ASSUME RouterAssumption ==
  /\ MaxIds \in Nat \ {0} /\ MaxMsg \in Nat \ {0} /\ MaxCalls \in Nat
  /\ Setups \subseteq Seq([id : Word, recv : BOOLEAN]) \X BOOLEAN
  /\ \A s \in Setups : Len(s[1]) \in 1..MaxIds

\* What is asked and answered are values of the types in C, under the number of
\* the command.  A handler leaves the header as it is.
ASSUME MessageAssumption ==
  /\ \A r \in Requests :
       /\ r.cmd \in Requestable /\ r.msg.cmd = Command[r.cmd]
       /\ HasFields(Header \o Stored[r.cmd].req, r.msg)
  /\ \A fields \in Answers :
       /\ {"context_id", "sm_id", "cmd"} \cap DOMAIN fields = {}
       /\ \A cmd \in Requestable : HasFields(Stored[cmd].resp, fields)

VARIABLES
  at,       \* where sk_swld_tapi_message_interface_process is, or "down"
  ids,      \* the registered contexts, each with recv: is its receive given
  replies,  \* is the driver's tapi_send_msg given
  msg,      \* the buffer, and what was in it before
  msg_size, \* how much of it counts
  context,  \* the position in ids the message was sent to
  request,  \* history: the request under way,
  served,   \*   what the server's handler got, or Failed,
  answer,   \*   what it answered, or Failed,
  accepted, \*   what the driver took for the answer, or Failed
  calls

vars == <<at, ids, replies, msg, msg_size, context,
          request, served, answer, accepted, calls>>

history == <<request, served, answer, accepted>>

Buffer == [1..MaxMsg -> Byte]

\* The first bytes of the buffer are overwritten, the others stay.
Overwritten(image) ==
  [i \in 1..MaxMsg |-> IF i <= Len(image) THEN image[i] ELSE msg[i]]

FirstPart(image, n) == SubSeq(image, 1, n)

NoRequest == [cmd |-> "none"]

Init ==
  /\ at = "down" /\ ids = <<>> /\ replies = FALSE
  /\ msg \in {[i \in 1..MaxMsg |-> b] : b \in {0, Base - 1}} /\ msg_size = 0
  /\ context = 0
  /\ request = NoRequest
  /\ served = Failed /\ answer = Failed /\ accepted = Failed
  /\ calls = 0

\* sk_swld_tapi_message_interface_init: the ids are not compared, one may be
\* registered twice.  The buffer comes last, and the interface is not up when it
\* cannot be allocated.
InterfaceInit(list, given) ==
  /\ at = "down"
  /\ Len(list) \in 1..MaxIds
  /\ ids' = list /\ replies' = given
  /\ context' = 0
  /\ request' = NoRequest
  /\ served' = Failed /\ answer' = Failed /\ accepted' = Failed
  /\ at' \in {"receive", "down"}
  /\ UNCHANGED <<msg, msg_size, calls>>

\* sk_swld_tapi_message_interface_end
InterfaceEnd ==
  /\ at = "receive"
  /\ at' = "down"
  /\ UNCHANGED <<ids, replies, msg, msg_size, context, history, calls>>

\* Any error ends the call of process; the next one starts over.
Failure ==
  /\ at' = "receive"
  /\ UNCHANGED <<ids, replies, msg, msg_size, context, history, calls>>

\* A driver packs a request, and n of its bytes are received.
Receive(r, n) ==
  LET packed == Pack(Stored[r.cmd].req, r.msg, MaxMsg)
  IN /\ at = "receive" /\ calls < MaxCalls
     /\ packed.ok /\ n <= Len(packed.image)
     /\ msg' = Overwritten(FirstPart(packed.image, n)) /\ msg_size' = n
     /\ request' = r
     /\ served' = Failed /\ answer' = Failed /\ accepted' = Failed
     /\ calls' = calls + 1
     /\ at' = "route"
     /\ UNCHANGED <<ids, replies, context>>

\* The positions whose id the message names.
Matching ==
  LET hdr == HeaderUnpack(msg, msg_size)
  IN {i \in 1..Len(ids) : hdr.ok /\ ids[i].id = hdr.msg.context_id}

\* The search stops at the first match.
FoundContext == CHOOSE i \in Matching : \A k \in Matching : i <= k

\* The header is short, the id unknown, or the send fails.
RouteFails == at = "route" /\ Failure

\* A bug: that nothing was found is not noticed.
RouteUnchecked ==
  /\ at = "route"
  /\ context' = IF Matching = {} THEN 0 ELSE FoundContext
  /\ at' = "serve"
  /\ UNCHANGED <<ids, replies, msg, msg_size, history, calls>>

\* tapi_send_msg_to_context
Route ==
  /\ at = "route" /\ Matching # {}
  /\ context' = FoundContext
  /\ at' = "serve"
  /\ UNCHANGED <<ids, replies, msg, msg_size, history, calls>>

\* What the server's handler of a command unpacks, if its number is that of a
\* request.  The server gets the buffer and the size as they are.
Delivered ==
  LET hdr  == HeaderUnpack(msg, msg_size)
      cmds == {c \in Requestable : Command[c] = hdr.msg.cmd}
  IN IF ~hdr.ok \/ cmds = {} THEN Failed
     ELSE Unpack(Expected[CHOOSE c \in cmds : TRUE].req, msg, msg_size)

CommandOf(m) == CHOOSE c \in Requestable : Command[c] = m.cmd

\* The server serves the request and packs an answer, in a field of the model
\* until it is received.  The room for it (msend_size) is the maximum: every handler
\* sets it so before it packs.  A handler that returns an error answers nothing.
Serve(fields) ==
  LET m      == Delivered.msg
      cmd    == CommandOf(m)
      values == [f \in DOMAIN fields \cup {"context_id", "sm_id", "cmd"} |->
                   IF f \in DOMAIN fields THEN fields[f] ELSE m[f]]
      packed == Pack(Stored[cmd].resp, values, MaxMsg)
  IN /\ at = "serve" /\ Delivered.ok /\ packed.ok
     /\ served' = Delivered
     /\ answer' = [ok |-> TRUE, cmd |-> cmd, msg |-> values, image |-> packed.image]
     /\ at' = "return"
     /\ UNCHANGED <<ids, replies, msg, msg_size, context, request, accepted, calls>>

\* The request does not unpack, the handler fails, or its answer does not fit.
ServeFails ==
  /\ at = "serve"
  /\ at' = "return"
  /\ UNCHANGED <<ids, replies, msg, msg_size, context, history, calls>>

\* A bug: the size stays that of the request.
ReturnOldSize(n) ==
  /\ at = "return" /\ ids[context].recv
  /\ answer.ok /\ n <= Len(answer.image)
  /\ msg' = Overwritten(FirstPart(answer.image, n)) /\ msg_size' = msg_size
  /\ at' = "reply"
  /\ UNCHANGED <<ids, replies, context, history, calls>>

\* tapi_recv_msg_from_context, if it is given: n bytes of the answer.
ReturnAnswer(n) ==
  /\ at = "return" /\ ids[context].recv
  /\ answer.ok /\ n <= Len(answer.image)
  /\ msg' = Overwritten(FirstPart(answer.image, n)) /\ msg_size' = n
  /\ at' = "reply"
  /\ UNCHANGED <<ids, replies, context, history, calls>>

\* It is not: the buffer still holds the request.
ReturnNothing ==
  /\ at = "return" /\ ~ids[context].recv
  /\ at' = "reply"
  /\ UNCHANGED <<ids, replies, msg, msg_size, context, history, calls>>

ReturnFails == at = "return" /\ ids[context].recv /\ Failure

\* What the driver makes of the bytes it gets: it unpacks the answer it waits
\* for, and then compares the command.
TakenAsAnswer ==
  LET got == Unpack(Expected[request.cmd].resp, msg, msg_size)
  IN IF got.ok /\ got.msg.cmd = Command[request.cmd] THEN got ELSE Failed

\* tapi_send_msg, if it is given.
Reply ==
  /\ at = "reply"
  /\ accepted' = IF replies THEN TakenAsAnswer ELSE Failed
  /\ at' = "receive"
  /\ UNCHANGED <<ids, replies, msg, msg_size, context,
                 request, served, answer, calls>>

ReplyFails == at = "reply" /\ replies /\ Failure

Next ==
  \/ \E s \in Setups : InterfaceInit(s[1], s[2])
  \/ InterfaceEnd
  \/ \E r \in Requests, n \in 0..MaxMsg : Receive(r, n)
  \/ RouteFails
  \/ Route
  \/ \E fields \in Answers : Serve(fields)
  \/ ServeFails
  \/ \E n \in 0..MaxMsg : ReturnAnswer(n)
  \/ ReturnNothing
  \/ ReturnFails
  \/ Reply
  \/ ReplyFails

Spec == Init /\ [][Next]_vars
------------------------------------------------------------------------------
(***************************************************************************)
(* Properties                                                              *)
(***************************************************************************)

TypeOK ==
  /\ at \in {"down", "receive", "route", "serve", "return", "reply"}
  /\ replies \in BOOLEAN /\ Len(ids) \in 0..MaxIds
  /\ msg \in Buffer /\ msg_size \in 0..MaxMsg
  /\ context \in 0..Len(ids) /\ (at \in {"serve", "return", "reply"} => context > 0)

\* A handler gets the fields its client's driver packed, all of them, whatever
\* part of the message arrived and whatever message was in the buffer before;
\* and gets them in a context of the id the client named, the first one
\* registered for it (sk_swld_tapi_message_interface_process, the unpack
\* functions).
ServedAsSent ==
  served.ok =>
    /\ served.msg.cmd = Command[request.cmd]
    /\ \A f \in DOMAIN served.msg : served.msg[f] = request.msg[f]
    /\ ids[context].id = request.msg.context_id
    /\ \A i \in 1..context - 1 : ids[i].id # request.msg.context_id

\* What a driver takes for the answer is the answer a handler of that context
\* gave to this request, field by field and with the sign of its status, if
\* the interface can receive from the context.  If it cannot, it sends the
\* request back, and a driver may take that for an answer.
AcceptedAsAnswered ==
  accepted.ok /\ ids[context].recv =>
    /\ answer.ok /\ answer.cmd = request.cmd
    /\ \A f \in DOMAIN accepted.msg : accepted.msg[f] = answer.msg[f]
==============================================================================
