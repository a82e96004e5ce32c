------------------------------ MODULE TapiPack -------------------------------
(***************************************************************************)
(* The byte image of the messages: sk_tapi_byte_pack.c and                 *)
(* sk_tapi_byte_unpack.c over sysv_byte_put and sysv_byte_get.             *)
(*                                                                         *)
(* Every command has one function to pack and one to unpack, all alike: a  *)
(* list of STORE or READ macros for requests, another one for answers.     *)
(* Here the two lists of a command are data, StoreList what the pack       *)
(* functions store and ReadList what the unpack functions read, and one    *)
(* Pack and one Unpack run over them.  A byte is a digit to base Base; the *)
(* model has fewer and shorter ones than the code.                         *)
(***************************************************************************)
EXTENDS Integers, Sequences

CONSTANTS
  Base,      \* 256
  WordSize,  \* 4: the bytes of an uint32_t or int32_t
  BufSize    \* 16: those of a handle, a TAID or the id of a region

\* What the digit at n counts for: Base ^ n.
Weight[n \in 0..WordSize] == IF n = 0 THEN 1 ELSE Base * Weight[n - 1]

ASSUME PackAssumption ==
  /\ Base \in Nat \ {0, 1} /\ WordSize \in Nat \ {0} /\ BufSize \in Nat \ {0}
  /\ Weight[WordSize] > 8    \* the numbers of the commands are words

Byte == 0..Base - 1
Word == 0..Weight[WordSize] - 1

\* An int32_t.
Int32 == -(Weight[WordSize] - Weight[WordSize] \div 2)..Weight[WordSize] \div 2 - 1

\* The numbers of the commands.
Command == [open_context |-> 0, close_context |-> 1, open_session |-> 2,
            close_session |-> 3, invoke_command |-> 4, register_memory |-> 5,
            unregister_memory |-> 6, check |-> 7, system |-> 8]

------------------------------------------------------------------------------
\* sysv_byte_put of an integer that fits: its last WordSize bytes, the high one
\* first.  A negative number is that of the two's complement.
PutWord(value) ==
  [i \in 1..WordSize |-> (value \div Weight[WordSize - i]) % Base]

\* sysv_byte_get: the accumulator has the width of a word.
GetWord(image) ==
  LET value[k \in 0..WordSize] ==
        IF k = 0 THEN 0 ELSE (value[k - 1] * Base + image[k]) % Weight[WordSize]
  IN value[WordSize]

\* The assignment of a word to an int32_t.
Signed(value) ==
  IF value >= Weight[WordSize] \div 2 THEN value - Weight[WordSize] ELSE value

------------------------------------------------------------------------------
word(name) == [name |-> name, kind |-> "word"]
int(name)  == [name |-> name, kind |-> "int"]
buf(name)  == [name |-> name, kind |-> "buf"]

Header == <<word("context_id"), word("sm_id"), word("cmd")>>

\* What the functions sk_tapi_open_context_pack and so on store behind the header,
\* of a request and of an answer.  Of open_context's request it is not pid, a field
\* of its structure.
\*
\* The system message has a type of its own, and neither function knows another
\* one: a caller that names the type of an answer, as the dispatch loop does in the
\* branch it never gets to (tapi.c:522), gets an error and a length of 0.
sys_tapi_pack ==
  [system |-> <<int("status")>>]
open_context_pack ==
  [req  |-> <<word("req_context_id")>>,
   resp |-> <<buf("context_handle"), int("status")>>]
close_context_pack ==
  [req  |-> <<buf("context_handle")>>,
   resp |-> <<int("status")>>]
open_session_pack ==
  [req  |-> <<buf("context_handle"), buf("taid")>>,
   resp |-> <<buf("session_handle"), int("status")>>]
close_session_pack ==
  [req  |-> <<buf("context_handle"), buf("session_handle")>>,
   resp |-> <<int("status")>>]
invoke_command_pack ==
  [req  |-> <<buf("context_handle"), buf("session_handle"), word("req_cmd")>>,
   resp |-> <<int("status")>>]
register_memory_pack ==
  [req  |-> <<buf("context_handle"), word("memory_size"), word("flag"), word("addr")>>,
   resp |-> <<word("addr"), buf("memory_id"), int("status")>>]
unregister_memory_pack ==
  [req  |-> <<buf("context_handle"), buf("memory_id")>>,
   resp |-> <<int("status")>>]
check_pack ==
  [req  |-> <<>>,
   resp |-> <<int("status")>>]

Stored ==
  [system            |-> sys_tapi_pack,
   open_context      |-> open_context_pack,
   close_context     |-> close_context_pack,
   open_session      |-> open_session_pack,
   close_session     |-> close_session_pack,
   invoke_command    |-> invoke_command_pack,
   register_memory   |-> register_memory_pack,
   unregister_memory |-> unregister_memory_pack,
   check             |-> check_pack]

\* What the unpack functions read behind it.
sys_tapi_unpack ==
  [system |-> <<int("status")>>]
open_context_unpack ==
  [req  |-> <<word("req_context_id")>>,
   resp |-> <<buf("context_handle"), int("status")>>]
close_context_unpack ==
  [req  |-> <<buf("context_handle")>>,
   resp |-> <<int("status")>>]
open_session_unpack ==
  [req  |-> <<buf("context_handle"), buf("taid")>>,
   resp |-> <<buf("session_handle"), int("status")>>]
close_session_unpack ==
  [req  |-> <<buf("context_handle"), buf("session_handle")>>,
   resp |-> <<int("status")>>]
invoke_command_unpack ==
  [req  |-> <<buf("context_handle"), buf("session_handle"), word("req_cmd")>>,
   resp |-> <<int("status")>>]
register_memory_unpack ==
  [req  |-> <<buf("context_handle"), word("memory_size"), word("flag"), word("addr")>>,
   resp |-> <<word("addr"), buf("memory_id"), int("status")>>]
unregister_memory_unpack ==
  [req  |-> <<buf("context_handle"), buf("memory_id")>>,
   resp |-> <<int("status")>>]
check_unpack ==
  [req  |-> <<>>,
   resp |-> <<int("status")>>]

Expected ==
  [system            |-> sys_tapi_unpack,
   open_context      |-> open_context_unpack,
   close_context     |-> close_context_unpack,
   open_session      |-> open_session_unpack,
   close_session     |-> close_session_unpack,
   invoke_command    |-> invoke_command_unpack,
   register_memory   |-> register_memory_unpack,
   unregister_memory |-> unregister_memory_unpack,
   check             |-> check_unpack]

Requestable == DOMAIN Stored \ {"system"}

Size(field) == IF field.kind = "buf" THEN BufSize ELSE WordSize

\* The bytes of the first i fields of a list.
Offset(list, i) ==
  LET size[k \in 0..Len(list)] == IF k = 0 THEN 0 ELSE size[k - 1] + Size(list[k])
  IN size[i]

SizeOf(list) == Offset(list, Len(list))

------------------------------------------------------------------------------
Failed == [ok |-> FALSE]

\* The message has the fields, each with a value of its type in C.
HasType(field, value) ==
  CASE field.kind = "buf"  -> value \in [1..BufSize -> Byte]
    [] field.kind = "word" -> value \in Word
    [] field.kind = "int"  -> value \in Int32

HasFields(list, msg) ==
  \A i \in 1..Len(list) :
    list[i].name \in DOMAIN msg /\ HasType(list[i], msg[list[i].name])

\* STORE and STOREBUF of one field.
Bytes(field, msg) ==
  IF field.kind = "buf" THEN msg[field.name] ELSE PutWord(msg[field.name])

\* Those of the first i fields of a list, one behind the other.
Image(list, msg, i) ==
  LET image[k \in 0..Len(list)] ==
        IF k = 0 THEN <<>> ELSE image[k - 1] \o Bytes(list[k], msg)
  IN image[i]

\* Those of all, into a buffer of max bytes: *pack_len becomes the length of the
\* image, or stays what it was when one does not fit.
Pack(list, msg, max) ==
  LET all == Header \o list
  IN IF SizeOf(all) > max THEN Failed
     ELSE [ok |-> TRUE, image |-> Image(all, msg, Len(all))]

\* The i-th field of a list, from the bytes where it starts.
Value(list, i, image) ==
  LET at == SubSeq(image, Offset(list, i - 1) + 1, Offset(list, i))
  IN CASE list[i].kind = "buf"  -> at
       [] list[i].kind = "word" -> GetWord(at)
       [] list[i].kind = "int"  -> Signed(GetWord(at))

\* The fields of a list by their names.
Values(list, image) ==
  [name \in {list[i].name : i \in 1..Len(list)} |->
     Value(list, CHOOSE i \in 1..Len(list) : list[i].name = name, image)]

\* A bug: the length is not compared.
UnpackAny(list, image, len) ==
  [ok |-> TRUE, msg |-> Values(Header \o list, image)]

\* READ and READBUF from the first len bytes of a buffer.  What is behind them
\* is there and is not looked at.
Unpack(list, image, len) ==
  IF SizeOf(Header \o list) > len THEN Failed
  ELSE [ok |-> TRUE, msg |-> Values(Header \o list, image)]

\* sk_tapi_header_unpack
HeaderUnpack(image, len) == Unpack(<<>>, image, len)
==============================================================================
