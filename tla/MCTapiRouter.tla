---------------------------- MODULE MCTapiRouter -----------------------------
(***************************************************************************)
(* Values for TapiRouter: words and handles of two bytes, requests whose   *)
(* fields all differ, and four ways to set the interface up.               *)
(***************************************************************************)
EXTENDS TapiRouter

\* The fields of a request of any command, sent under a context id.
Ask(cmd, id) ==
  [cmd |-> cmd,
   msg |-> [context_id |-> id, sm_id |-> 13, cmd |-> Command[cmd],
            req_context_id |-> id, req_cmd |-> 6,
            context_handle |-> <<0, 1>>, session_handle |-> <<1, 2>>,
            taid |-> <<0, 0>>, memory_id |-> <<3, 0>>,
            memory_size |-> 9, flag |-> 0, addr |-> 0]]

\* Every command under the id 1, some also under the id 2 and under 3, which
\* nothing is registered for.
AllRequests ==
  {Ask(c, 1) : c \in Requestable}
    \cup {Ask(c, 2) : c \in {"open_session", "check"}} \cup {Ask("close_context", 3)}

AllAnswers ==
  {[context_handle |-> <<2, 3>>, session_handle |-> <<3, 1>>,
    addr |-> 11, memory_id |-> <<0, 2>>, status |-> s] : s \in {0, -2}}

\* Contexts registered apart, both under one id, without a way to receive from
\* the first, and without a way to answer the driver.
AllSetups ==
  LET c(id, recv) == [id |-> id, recv |-> recv]
  IN {<< <<c(1, TRUE), c(2, TRUE)>>, TRUE >>, << <<c(1, TRUE), c(1, FALSE)>>, TRUE >>,
      << <<c(1, FALSE), c(2, TRUE)>>, TRUE >>, << <<c(2, TRUE), c(1, TRUE)>>, FALSE >>}
==============================================================================
