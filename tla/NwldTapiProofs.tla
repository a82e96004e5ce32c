--------------------------- MODULE NwldTapiProofs ---------------------------
(***************************************************************************)
(* Proofs about the normal world driver, for every number of processes,    *)
(* context ids, connections and sessions.                                  *)
(*                                                                         *)
(* A process changes its own tables only, so the inductive invariant is    *)
(* one of a single process, and every action is looked at for the process  *)
(* that takes it.                                                          *)
(***************************************************************************)
EXTENDS NwldTapi, FiniteSetTheorems, TLAPS

IdRow   == [used : BOOLEAN, cid : ContextId \cup {None}, cnt : Nat, open : BOOLEAN]
ConnRow == [used : BOOLEAN, id : Ids \cup {None}, ctx : Handle \cup {None},
            table : BOOLEAN, num : Nat]
CallRow == [cmd : CallNames, id : Ids \cup {None}, k : Nat, j : Nat]

\* The tables of all processes; the counters are numbers because they count.
Typed ==
  /\ proc     \in [Client -> {"running", "crashed", "no_table"}]
  /\ ids      \in [Client -> [Ids -> IdRow]]
  /\ numIds   \in [Client -> Nat]
  /\ conn     \in [Client -> [Conns -> ConnRow]]
  /\ numConns \in [Client -> Nat]
  /\ slot     \in [Client -> [Conns -> [Slots -> Handle \cup {None}]]]
  /\ call     \in [Client -> CallRow]

\* The properties, for one process.
Counted(p) ==
  /\ numIds[p] = Cardinality(UsedIds(p))
  /\ numConns[p] = Cardinality(UsedConns(p))
  /\ \A k \in Conns : conn[p][k].num = Cardinality(UsedSlots(p, k))

Opening(p, i) == IF call[p].cmd = "open_context" /\ call[p].id = i THEN 1 ELSE 0

OnOpenChannels(p) ==
  \A k \in UsedConns(p) : conn[p][k].id \in UsedIds(p) /\ ids[p][conn[p][k].id].open

Covered(p) == \A i \in Ids : Cardinality(ConnsOn(p, i)) + Opening(p, i) <= ids[p][i].cnt

Live(p) == Waiting(p) =>
  /\ ids[p][call[p].id].used /\ ids[p][call[p].id].open
  /\ call[p].cmd # "open_context" =>
       call[p].k \in UsedConns(p) /\ conn[p][call[p].k].id = call[p].id
  /\ call[p].cmd \in SessionCommands => call[p].j \in UsedSlots(p, call[p].k)

\* A dead process waits for nothing, and one that waits has made a request.
Called(p) ==
  /\ proc[p] # "running" => call[p] = NoCall
  /\ call[p] # NoCall => call[p].cmd # "none" /\ call[p].id \in Ids

DriverInv(p) ==
  /\ Counted(p)
  /\ IdsDistinct(p)
  /\ OnOpenChannels(p)
  /\ Covered(p)
  /\ Live(p)
  /\ Called(p)

IInv == Typed /\ \A p \in Client : DriverInv(p)

\* What another process does.
Alone(p) ==
  \A q \in Client \ {p} :
    /\ proc'[q] = proc[q] /\ ids'[q] = ids[q] /\ numIds'[q] = numIds[q]
    /\ conn'[q] = conn[q] /\ numConns'[q] = numConns[q]
    /\ slot'[q] = slot[q] /\ call'[q] = call[q]

\* What an open_context and the answers do to what is in use.
CountsUp(p, i) ==
  /\ UsedConns(p)' = UsedConns(p)
  /\ \A k \in Conns : UsedSlots(p, k)' = UsedSlots(p, k)
  /\ \A n \in Ids :
       /\ ConnsOn(p, n)' = ConnsOn(p, n)
       /\ ids'[p][n].cnt = IF n = i THEN ids[p][n].cnt + 1 ELSE ids[p][n].cnt
       /\ ids'[p][n].used = (n = i \/ ids[p][n].used)
  /\ call'[p] \in {NoCall, [cmd |-> "open_context", id |-> i, k |-> None, j |-> None]}

TakesConn(p, k) ==
  /\ k \in Conns /\ k \notin UsedConns(p) /\ UsedConns(p)' = UsedConns(p) \cup {k}
  /\ \A n \in Conns : UsedSlots(p, n)' = UsedSlots(p, n)
  /\ ids'[p] = ids[p]
  /\ \A n \in Ids :
       Cardinality(ConnsOn(p, n)') = Cardinality(ConnsOn(p, n)) + Opening(p, n)

FreesConn(p, k) ==
  /\ UsedConns(p)' = UsedConns(p) \ {k}
  /\ UsedSlots(p, k)' = {} /\ \A n \in Conns \ {k} : UsedSlots(p, n)' = UsedSlots(p, n)
  /\ \E i \in Ids :
       /\ ids[p][i].used /\ Cardinality(ConnsOn(p, i)) >= 1
       /\ Cardinality(ConnsOn(p, i)') = Cardinality(ConnsOn(p, i)) - 1
       /\ ids[p][i].cnt = 1 => ids'[p][i] = FreeId
       /\ ids[p][i].cnt # 1 => ids'[p][i].used /\ ids'[p][i].cnt = ids[p][i].cnt - 1
       /\ \A n \in Ids \ {i} : ids'[p][n] = ids[p][n] /\ ConnsOn(p, n)' = ConnsOn(p, n)

ChangesSlots(p, k, used) ==
  /\ UsedConns(p)' = UsedConns(p)
  /\ UsedSlots(p, k)' = used /\ \A n \in Conns \ {k} : UsedSlots(p, n)' = UsedSlots(p, n)
  /\ ids'[p] = ids[p] /\ \A n \in Ids : ConnsOn(p, n)' = ConnsOn(p, n)

-----------------------------------------------------------------------------
(* Facts about the tables.                                                 *)

\* The tables are finite, so what is in use in them can be counted.
LEMMA TablesFinite ==
  ASSUME NEW p \in Client, NEW k \in Conns, NEW i \in Ids
  PROVE  /\ IsFiniteSet(UsedIds(p)) /\ Cardinality(UsedIds(p)) \in Nat
         /\ IsFiniteSet(UsedConns(p)) /\ Cardinality(UsedConns(p)) \in Nat
         /\ IsFiniteSet(UsedSlots(p, k)) /\ Cardinality(UsedSlots(p, k)) \in Nat
         /\ IsFiniteSet(ConnsOn(p, i)) /\ Cardinality(ConnsOn(p, i)) \in Nat
<1>1. IsFiniteSet(Ids) /\ IsFiniteSet(Conns) /\ IsFiniteSet(Slots)
  BY DriverAssumption, FS_Interval DEF Ids, Conns, Slots
<1>2. /\ UsedIds(p) \in SUBSET Ids /\ UsedConns(p) \in SUBSET Conns
      /\ UsedSlots(p, k) \in SUBSET Slots /\ ConnsOn(p, i) \in SUBSET Conns
  BY DEF UsedIds, UsedConns, UsedSlots, ConnsOn
<1> QED
  BY <1>1, <1>2, FS_Subset, FS_CardinalityType

\* Both sides of Covered are numbers.
LEMMA CountsAreNumbers ==
  ASSUME Typed, NEW p \in Client, NEW i \in Ids
  PROVE  Cardinality(ConnsOn(p, i)) \in Nat /\ ids[p][i].cnt \in Nat
<1>1. 1 \in Conns
  BY DriverAssumption DEF Conns
<1>2. ids[p][i] \in IdRow
  BY DEF Typed
<1> QED
  BY <1>1, <1>2, TablesFinite DEF IdRow

\* A set with one element more or less.
LEMMA OneMore ==
  ASSUME NEW S, IsFiniteSet(S), NEW x, x \notin S
  PROVE  Cardinality(S \cup {x}) = Cardinality(S) + 1
BY FS_AddElement

LEMMA OneLess ==
  ASSUME NEW S, IsFiniteSet(S), NEW x \in S
  PROVE  Cardinality(S \ {x}) = Cardinality(S) - 1 /\ Cardinality(S) >= 1
<1>1. Cardinality(S \ {x}) = Cardinality(S) - 1 /\ IsFiniteSet(S \ {x})
  BY FS_RemoveElement
<1>2. Cardinality(S) \in Nat /\ Cardinality(S \ {x}) \in Nat
  BY <1>1, FS_CardinalityType
<1> QED
  BY <1>1, <1>2

\* One entry of one process's table is set; TableCounter is the same for a counter.
LEMMA TableEntry ==
  ASSUME NEW K, NEW R, NEW f \in [Client -> [K -> R]], NEW p \in Client, NEW k \in K,
         NEW row \in R, NEW g, g = [f EXCEPT ![p][k] = row]
  PROVE  /\ g \in [Client -> [K -> R]]
         /\ g[p][k] = row
         /\ \A n \in K \ {k} : g[p][n] = f[p][n]
         /\ \A q \in Client \ {p} : g[q] = f[q]
<1>1. g[p] = [f[p] EXCEPT ![k] = row] /\ \A q \in Client \ {p} : g[q] = f[q]
  OBVIOUS
<1>2. f[p] \in [K -> R]
  OBVIOUS
<1>3. g[p] \in [K -> R] /\ g[p][k] = row /\ \A n \in K \ {k} : g[p][n] = f[p][n]
  BY <1>1, <1>2
<1> QED
  BY <1>1, <1>3

\* The same for a connection.
LEMMA ConnEntry ==
  ASSUME Typed, NEW p \in Client, NEW k \in Conns, NEW row \in ConnRow,
         conn' = [conn EXCEPT ![p][k] = row]
  PROVE  /\ conn' \in [Client -> [Conns -> ConnRow]]
         /\ conn'[p][k] = row
         /\ \A n \in Conns \ {k} : conn'[p][n] = conn[p][n]
         /\ \A q \in Client \ {p} : conn'[q] = conn[q]
<1>1. conn \in [Client -> [Conns -> ConnRow]]
  BY DEF Typed
<1> QED
  BY <1>1, TableEntry

LEMMA TableCounter ==
  ASSUME NEW R, NEW f \in [Client -> R], NEW p \in Client, NEW c \in R,
         NEW g, g = [f EXCEPT ![p] = c]
  PROVE  g \in [Client -> R] /\ g[p] = c /\ \A q \in Client \ {p} : g[q] = f[q]
OBVIOUS

\* Null is no position in a table.
LEMMA NullIsNoPosition == None \notin Ids /\ None \notin Conns /\ None \notin Slots
BY DEF None, Ids, Conns, Slots

\* What a process does leaves the others as they were.
LEMMA OthersKeep ==
  ASSUME NEW p \in Client, Alone(p), NEW q \in Client \ {p}, DriverInv(q)
  PROVE  DriverInv(q)'
<1>1. /\ proc'[q] = proc[q] /\ ids'[q] = ids[q] /\ numIds'[q] = numIds[q]
      /\ conn'[q] = conn[q] /\ numConns'[q] = numConns[q]
      /\ slot'[q] = slot[q] /\ call'[q] = call[q]
  BY DEF Alone
<1>2. /\ UsedIds(q)' = UsedIds(q) /\ UsedConns(q)' = UsedConns(q)
      /\ \A k \in Conns : UsedSlots(q, k)' = UsedSlots(q, k)
      /\ \A i \in Ids : ConnsOn(q, i)' = ConnsOn(q, i) /\ Opening(q, i)' = Opening(q, i)
  BY <1>1 DEF UsedIds, UsedConns, UsedSlots, ConnsOn, Opening
<1>3. Counted(q)' /\ IdsDistinct(q)' /\ OnOpenChannels(q)' /\ Covered(q)'
  BY <1>1, <1>2 DEF DriverInv, Counted, IdsDistinct, OnOpenChannels, Covered
<1>4. Live(q)' /\ Called(q)'
  BY <1>1, <1>2 DEF DriverInv, Live, Called, Waiting, UsedSlots
<1> QED
  BY <1>3, <1>4 DEF DriverInv

\* The tables stay, and so do the sets of what is in use.
LEMMA TablesSame ==
  ASSUME NEW p \in Client, UNCHANGED tables
  PROVE  /\ UsedIds(p)' = UsedIds(p) /\ UsedConns(p)' = UsedConns(p)
         /\ \A k : UsedSlots(p, k)' = UsedSlots(p, k)
         /\ \A i : ConnsOn(p, i)' = ConnsOn(p, i)
BY DEF tables, UsedIds, UsedConns, UsedSlots, ConnsOn

-----------------------------------------------------------------------------
(* The steps of a process.                                                 *)

\* A call that starts or ends is a call still.
LEMMA CallTyped ==
  ASSUME Typed, NEW p \in Client, NEW i \in Ids,
         \/ /\ proc' = proc
            /\ call' = [call EXCEPT ![p] =
                 [cmd |-> "open_context", id |-> i, k |-> None, j |-> None]]
         \/ /\ call' = [call EXCEPT ![p] = NoCall]
            /\ \E to \in {"running", "crashed", "no_table"} : proc' = [proc EXCEPT ![p] = to]
  PROVE  /\ call' \in [Client -> CallRow]
         /\ proc' \in [Client -> {"running", "crashed", "no_table"}]
<1>1. /\ [cmd |-> "open_context", id |-> i, k |-> None, j |-> None] \in CallRow
      /\ NoCall \in CallRow
  BY DEF CallRow, CallNames, NoCall, None
<1> QED
  BY <1>1 DEF Typed

\* A call ends and the tables are as they were: an error, an answer that
\* changes nothing, a killed process.
LEMMA CallEnds ==
  ASSUME IInv, NEW p \in Client,
         call' = [call EXCEPT ![p] = NoCall],
         proc' = proc \/ \E to \in {"running", "crashed", "no_table"} :
                           proc' = [proc EXCEPT ![p] = to],
         UNCHANGED tables
  PROVE  Typed' /\ DriverInv(p)' /\ Alone(p)
<1> USE DEF IInv
<1>1. Typed'
  BY DEF Typed, tables, NoCall, CallRow, CallNames, None
<1>2. Alone(p)
  BY DEF Alone, Typed, tables
<1>3. call'[p] = NoCall
  BY DEF Typed
<1>4. \A i \in Ids : Opening(p, i)' = 0 /\ Opening(p, i) \in {0, 1}
  BY <1>3 DEF Opening, NoCall
<1>5. Counted(p)' /\ IdsDistinct(p)' /\ OnOpenChannels(p)'
  BY TablesSame DEF DriverInv, Counted, IdsDistinct, OnOpenChannels, tables
<1>6. Covered(p)'
  <2> SUFFICES ASSUME NEW i \in Ids
               PROVE  Cardinality(ConnsOn(p, i)') + Opening(p, i)' <= ids'[p][i].cnt
    BY DEF Covered
  <2>1. Cardinality(ConnsOn(p, i)) \in Nat /\ ids[p][i].cnt \in Nat
    BY CountsAreNumbers
  <2> QED
    BY <1>4, <2>1, TablesSame DEF DriverInv, Covered, tables
<1>7. Live(p)' /\ Called(p)'
  BY <1>3 DEF Live, Called, Waiting
<1> QED
  BY <1>1, <1>2, <1>5, <1>6, <1>7 DEF DriverInv

\* A request on a context or a session goes out.
LEMMA CallStarts ==
  ASSUME IInv, NEW p \in Client, Idle(p),
         NEW cmd \in ContextCommands \cup SessionCommands,
         NEW k \in UsedConns(p), NEW j \in Nat,
         cmd \in SessionCommands => j \in UsedSlots(p, k),
         Exchange(p, cmd, conn[p][k].id, k, j),
         UNCHANGED tables
  PROVE  Typed' /\ DriverInv(p)' /\ Alone(p)
<1> USE DEF IInv
<1> DEFINE i == conn[p][k].id
<1>1. /\ k \in Conns /\ k \in Nat
      /\ i \in Ids /\ ids[p][i].used /\ ids[p][i].open
  BY DriverAssumption DEF UsedConns, Conns, DriverInv, OnOpenChannels, UsedIds
<1>2. call' = [call EXCEPT ![p] = [cmd |-> cmd, id |-> i, k |-> k, j |-> j]] /\ proc' = proc
  BY DEF Exchange
<1>3. cmd \in CallNames /\ cmd # "none" /\ cmd # "open_context"
  BY DEF CallNames, ContextCommands, SessionCommands
<1>4. Typed'
  BY <1>1, <1>2, <1>3 DEF Typed, tables, CallRow
<1>5. Alone(p)
  BY <1>2 DEF Alone, Typed, tables
<1>6. call'[p] = [cmd |-> cmd, id |-> i, k |-> k, j |-> j]
  BY <1>2 DEF Typed
<1>7. Counted(p)' /\ IdsDistinct(p)' /\ OnOpenChannels(p)'
  BY TablesSame DEF DriverInv, Counted, IdsDistinct, OnOpenChannels, tables
<1>8. Covered(p)'
  <2>1. \A n \in Ids : Opening(p, n)' = Opening(p, n)
    BY <1>3, <1>6 DEF Opening, Idle, NoCall
  <2> QED
    BY <2>1, TablesSame DEF DriverInv, Covered, tables
<1>9. Live(p)'
  BY <1>1, <1>6, TablesSame DEF Live, tables
<1>10. Called(p)'
  BY <1>1, <1>2, <1>3, <1>6 DEF Called, Idle
<1> QED
  BY <1>4, <1>5, <1>7, <1>8, <1>9, <1>10 DEF DriverInv

\* open_context takes a place in the count of an id that is in use.
LEMMA CountTaken ==
  ASSUME IInv, NEW p \in Client, Idle(p), NEW i \in UsedIds(p),
         ids' = [ids EXCEPT ![p][i].cnt = @ + 1],
         \/ ids[p][i].open /\ Exchange(p, "open_context", i, None, None)
         \/ ~ids[p][i].open /\ GiveUp(p),
         UNCHANGED <<numIds, conn, numConns, slot>>
  PROVE  Typed' /\ DriverInv(p)' /\ Alone(p) /\ CountsUp(p, i)
<1> USE DEF IInv
<1>1. i \in Ids
  BY DEF UsedIds
<1>2. ids[p] \in [Ids -> IdRow] /\ \A n \in Ids : ids[p][n] \in IdRow
  BY DEF Typed
<1>3. ids'[p] = [ids[p] EXCEPT ![i] = [ids[p][i] EXCEPT !.cnt = ids[p][i].cnt + 1]]
  BY <1>1 DEF Typed
<1>4. \A n \in Ids : /\ ids'[p][n].used = ids[p][n].used
                     /\ ids'[p][n].cid = ids[p][n].cid
                     /\ ids'[p][n].open = ids[p][n].open
                     /\ ids'[p][n].cnt = IF n = i THEN ids[p][n].cnt + 1 ELSE ids[p][n].cnt
                     /\ ids'[p][n] \in IdRow
  BY <1>2, <1>3 DEF IdRow
<1>5. \/ /\ ids[p][i].open /\ proc' = proc
         /\ call' = [call EXCEPT ![p] =
              [cmd |-> "open_context", id |-> i, k |-> None, j |-> None]]
      \/ /\ call' = [call EXCEPT ![p] = NoCall]
         /\ \E to \in {"running", "crashed", "no_table"} : proc' = [proc EXCEPT ![p] = to]
  BY DEF Exchange, GiveUp
<1>6. Typed'
  <2>1. ids'[p] \in [Ids -> IdRow]
    BY <1>2, <1>3, <1>4
  <2>2. ids' \in [Client -> [Ids -> IdRow]]
    BY <2>1 DEF Typed
  <2>3. call' \in [Client -> CallRow] /\ proc' \in [Client -> {"running", "crashed", "no_table"}]
    BY <1>1, <1>5, CallTyped
  <2> QED
    BY <2>2, <2>3 DEF Typed
<1>7. Alone(p)
  BY <1>5 DEF Alone, Typed
<1>8. /\ UsedIds(p)' = UsedIds(p) /\ UsedConns(p)' = UsedConns(p)
      /\ \A k \in Conns : UsedSlots(p, k)' = UsedSlots(p, k)
      /\ \A n \in Ids : ConnsOn(p, n)' = ConnsOn(p, n)
  BY <1>4 DEF UsedIds, UsedConns, UsedSlots, ConnsOn
<1>9. Counted(p)'
  BY <1>8 DEF DriverInv, Counted
<1>10. IdsDistinct(p)' /\ OnOpenChannels(p)'
  BY <1>4, <1>8 DEF DriverInv, IdsDistinct, OnOpenChannels, UsedIds
<1>11. Covered(p)'
  <2> SUFFICES ASSUME NEW n \in Ids
               PROVE  Cardinality(ConnsOn(p, n)') + Opening(p, n)' <= ids'[p][n].cnt
    BY DEF Covered
  <2>1. Cardinality(ConnsOn(p, n)) \in Nat /\ ids[p][n].cnt \in Nat
    BY CountsAreNumbers
  <2>2. Opening(p, n) = 0
    BY DEF Opening, Idle, NoCall
  <2>3. Opening(p, n)' \in {0, IF n = i THEN 1 ELSE 0}
    BY <1>5 DEF Opening, Typed, NoCall
  <2> QED
    BY <1>4, <1>8, <2>1, <2>2, <2>3 DEF DriverInv, Covered
<1>12. Live(p)' /\ Called(p)'
  <2>1. CASE call' = [call EXCEPT ![p] = NoCall]
    BY <2>1 DEF Live, Called, Waiting, Typed
  <2>2. CASE /\ ids[p][i].open /\ proc' = proc
             /\ call' = [call EXCEPT ![p] =
                  [cmd |-> "open_context", id |-> i, k |-> None, j |-> None]]
    BY <1>1, <1>4, <2>2 DEF Live, Called, Typed, Idle, SessionCommands, UsedIds
  <2> QED
    BY <1>5, <2>1, <2>2
<1>13. CountsUp(p, i)
  <2>1. ids[p][i].used = TRUE
    BY <1>1, <1>2 DEF UsedIds, IdRow
  <2>2. call'[p] \in {NoCall, [cmd |-> "open_context", id |-> i, k |-> None, j |-> None]}
    BY <1>5 DEF Typed
  <2>3. \A n \in Ids : ids'[p][n].used = (n = i \/ ids[p][n].used)
    <3>1. \A n \in Ids : ids[p][n].used \in BOOLEAN
      BY <1>2 DEF IdRow
    <3> QED
      BY <1>4, <2>1, <3>1
  <2> QED
    BY <1>4, <1>8, <2>2, <2>3 DEF CountsUp
<1> QED
  BY <1>6, <1>7, <1>9, <1>10, <1>11, <1>12, <1>13 DEF DriverInv

\* open_context takes a slot for an id that is not in use.
LEMMA IdTaken ==
  ASSUME IInv, NEW p \in Client, Idle(p), NEW cid \in ContextId, NEW ok \in BOOLEAN,
         NewId(p, cid), NEW i \in Ids, ~ids[p][i].used,
         ids' = [ids EXCEPT ![p][i] =
                   [used |-> TRUE, cid |-> cid, cnt |-> @.cnt + 1, open |-> ok]],
         numIds' = [numIds EXCEPT ![p] = @ + 1],
         \/ ok /\ Exchange(p, "open_context", i, None, None)
         \/ ~ok /\ GiveUp(p),
         UNCHANGED <<conn, numConns, slot>>
  PROVE  Typed' /\ DriverInv(p)' /\ Alone(p) /\ CountsUp(p, i)
<1> USE DEF IInv
<1>1. /\ ids'[p][i].used /\ ids'[p][i].cid = cid /\ ids'[p][i].open = ok
      /\ ids'[p][i].cnt = ids[p][i].cnt + 1
      /\ \A n \in Ids \ {i} : ids'[p][n] = ids[p][n]
      /\ numIds'[p] = numIds[p] + 1
  BY DEF Typed, IdRow
<1>2. \/ /\ ok /\ proc' = proc
         /\ call' = [call EXCEPT ![p] =
              [cmd |-> "open_context", id |-> i, k |-> None, j |-> None]]
      \/ /\ call' = [call EXCEPT ![p] = NoCall]
         /\ \E to \in {"running", "crashed", "no_table"} : proc' = [proc EXCEPT ![p] = to]
  BY DEF Exchange, GiveUp
<1>3. Typed'
  <2>1. ids' \in [Client -> [Ids -> IdRow]] /\ numIds' \in [Client -> Nat]
    BY DEF Typed, IdRow
  <2>2. call' \in [Client -> CallRow] /\ proc' \in [Client -> {"running", "crashed", "no_table"}]
    BY <1>2, CallTyped
  <2> QED
    BY <2>1, <2>2 DEF Typed
<1>4. Alone(p)
  BY <1>2 DEF Alone, Typed
<1>5. /\ UsedIds(p)' = UsedIds(p) \cup {i} /\ i \notin UsedIds(p)
      /\ UsedConns(p)' = UsedConns(p)
      /\ \A k \in Conns : UsedSlots(p, k)' = UsedSlots(p, k)
      /\ \A n \in Ids : ConnsOn(p, n)' = ConnsOn(p, n)
  BY <1>1 DEF UsedIds, UsedConns, UsedSlots, ConnsOn
<1>6. Counted(p)'
  <2>1. numIds'[p] = Cardinality(UsedIds(p)')
    BY <1>1, <1>5, TablesFinite, OneMore, DriverAssumption DEF DriverInv, Counted, Conns
  <2> QED
    BY <1>5, <2>1 DEF DriverInv, Counted
<1>7. IdsDistinct(p)'
  <2>1. \A n \in UsedIds(p) : ids[p][n].cid # cid
    BY DEF NewId, UsedIds
  <2>2. \A n \in UsedIds(p) : ids'[p][n] = ids[p][n] /\ n # i
    BY <1>1, <1>5 DEF UsedIds
  <2> QED
    BY <1>1, <1>5, <2>1, <2>2 DEF DriverInv, IdsDistinct
<1>8. OnOpenChannels(p)'
  BY <1>1, <1>5 DEF DriverInv, OnOpenChannels, UsedIds
<1>9. Covered(p)'
  <2> SUFFICES ASSUME NEW n \in Ids
               PROVE  Cardinality(ConnsOn(p, n)') + Opening(p, n)' <= ids'[p][n].cnt
    BY DEF Covered
  <2>1. Cardinality(ConnsOn(p, n)) \in Nat /\ ids[p][n].cnt \in Nat
    BY CountsAreNumbers
  <2>2. Opening(p, n) = 0
    BY DEF Opening, Idle, NoCall
  <2>3. Opening(p, n)' \in {0, IF n = i THEN 1 ELSE 0}
    BY <1>2 DEF Opening, Typed, NoCall
  <2> QED
    BY <1>1, <1>5, <2>1, <2>2, <2>3 DEF DriverInv, Covered
<1>10. Live(p)' /\ Called(p)'
  <2>1. CASE call' = [call EXCEPT ![p] = NoCall]
    BY <2>1 DEF Live, Called, Waiting, Typed
  <2>2. CASE /\ ok /\ proc' = proc
             /\ call' = [call EXCEPT ![p] =
                  [cmd |-> "open_context", id |-> i, k |-> None, j |-> None]]
    BY <1>1, <2>2 DEF Live, Called, Typed, Idle, SessionCommands
  <2> QED
    BY <1>2, <2>1, <2>2
<1>11. CountsUp(p, i)
  <2>1. call'[p] \in {NoCall, [cmd |-> "open_context", id |-> i, k |-> None, j |-> None]}
    BY <1>2 DEF Typed
  <2>2. \A n \in Ids : ids'[p][n].used = (n = i \/ ids[p][n].used)
    <3>1. \A n \in Ids : ids[p][n].used \in BOOLEAN
      BY DEF Typed, IdRow
    <3>2. ids'[p][i].used = TRUE
      BY DEF Typed, IdRow
    <3> QED
      BY <1>1, <3>1, <3>2
  <2> QED
    <3>1. \A n \in Ids :
            ids'[p][n].cnt = IF n = i THEN ids[p][n].cnt + 1 ELSE ids[p][n].cnt
      BY <1>1
    <3> QED
      BY <1>5, <2>1, <2>2, <3>1 DEF CountsUp
<1> QED
  BY <1>3, <1>4, <1>6, <1>7, <1>8, <1>9, <1>10, <1>11 DEF DriverInv

\* open_context up to the exchange.
LEMMA ContextAsked ==
  ASSUME IInv, NEW p \in Client, Idle(p), NEW cid \in ContextId, NEW ok \in BOOLEAN,
         OpenContext(p, cid, ok)
  PROVE  /\ Typed' /\ DriverInv(p)' /\ Alone(p)
         /\ \/ UNCHANGED tables /\ call'[p] = NoCall
            \/ \E i \in Ids : CountsUp(p, i)
<1>1. ASSUME NEW i \in Ids, FindId(p, cid, i),
             ids' = [ids EXCEPT ![p][i].cnt = @ + 1],
             \/ ids[p][i].open /\ Exchange(p, "open_context", i, None, None)
             \/ ~ids[p][i].open /\ GiveUp(p),
             UNCHANGED numIds
      PROVE  Typed' /\ DriverInv(p)' /\ Alone(p) /\ CountsUp(p, i)
  <2>1. i \in UsedIds(p)
    BY <1>1 DEF FindId, UsedIds
  <2>2. UNCHANGED <<numIds, conn, numConns, slot>>
    BY <1>1 DEF OpenContext
  <2> QED
    BY <1>1, <2>1, <2>2, CountTaken
<1>2. ASSUME NewId(p, cid), NEW i \in Ids, FirstFreeId(p, i),
             ids' = [ids EXCEPT ![p][i] =
                       [used |-> TRUE, cid |-> cid, cnt |-> @.cnt + 1, open |-> ok]],
             \/ ok /\ Exchange(p, "open_context", i, None, None)
             \/ ~ok /\ GiveUp(p),
             numIds' = [numIds EXCEPT ![p] = @ + 1]
      PROVE  Typed' /\ DriverInv(p)' /\ Alone(p) /\ CountsUp(p, i)
  <2>1. ~ids[p][i].used
    BY <1>2 DEF FirstFreeId
  <2>2. UNCHANGED <<conn, numConns, slot>>
    BY DEF OpenContext
  <2> QED
    BY <1>2, <2>1, <2>2, IdTaken
<1>3. CASE GiveUp(p) /\ UNCHANGED <<ids, numIds>>
  <2>1. UNCHANGED tables
    BY <1>3 DEF OpenContext, tables
  <2>2. call'[p] = NoCall /\ \E to \in {"running", "crashed", "no_table"} :
                                proc' = [proc EXCEPT ![p] = to]
    BY <1>3 DEF GiveUp, IInv, Typed
  <2> QED
    BY <1>3, <2>1, <2>2, CallEnds DEF GiveUp
<1> QED
  BY <1>1, <1>2, <1>3 DEF OpenContext, FindId, FirstFreeId

\* The answer to open_context takes the first free connection.
LEMMA ConnTaken ==
  ASSUME IInv, NEW p \in Client, Waiting(p), call[p].cmd = "open_context",
         NEW k \in Conns, ~conn[p][k].used, NEW row \in ConnRow,
         row.used, row.id = call[p].id, row.num = conn[p][k].num,
         conn' = [conn EXCEPT ![p][k] = row],
         numConns' = [numConns EXCEPT ![p] = @ + 1],
         Return(p),
         UNCHANGED <<ids, numIds, slot>>
  PROVE  Typed' /\ DriverInv(p)' /\ Alone(p) /\ call'[p] = NoCall /\ TakesConn(p, k)
<1> USE DEF IInv
<1>1. PICK i \in Ids : i = call[p].id /\ ids[p][i].used /\ ids[p][i].open
  BY DEF DriverInv, Called, Live, Waiting
<1>2. row.used /\ row.id = i /\ row.num = conn[p][k].num
  BY <1>1
<1>3. /\ conn' \in [Client -> [Conns -> ConnRow]]
      /\ conn'[p][k] = row
      /\ \A n \in Conns \ {k} : conn'[p][n] = conn[p][n]
      /\ \A q \in Client \ {p} : conn'[q] = conn[q]
  BY ConnEntry
<1>4. proc' = proc /\ call' = [call EXCEPT ![p] = NoCall]
  BY DEF Return
<1>5. Typed'
  <2>1. numConns' \in [Client -> Nat]
    BY DEF Typed
  <2>2. call' \in [Client -> CallRow]
    BY <1>1, <1>4, CallTyped DEF Typed, CallRow, CallNames, NoCall, None
  <2> QED
    BY <1>3, <1>4, <2>1, <2>2 DEF Typed
<1>6. Alone(p)
  BY <1>3, <1>4 DEF Alone, Typed
<1>7. /\ UsedIds(p)' = UsedIds(p)
      /\ UsedConns(p)' = UsedConns(p) \cup {k} /\ k \notin UsedConns(p)
      /\ \A n \in Conns : UsedSlots(p, n)' = UsedSlots(p, n)
  BY <1>2, <1>3 DEF UsedIds, UsedConns, UsedSlots
<1>8. /\ ConnsOn(p, i)' = ConnsOn(p, i) \cup {k} /\ k \notin ConnsOn(p, i)
      /\ \A n \in Ids \ {i} : ConnsOn(p, n)' = ConnsOn(p, n)
  BY <1>1, <1>2, <1>3, <1>7 DEF ConnsOn, UsedConns
<1>9. call'[p] = NoCall /\ numConns'[p] = numConns[p] + 1
  BY <1>4 DEF Typed
<1>10. Counted(p)'
  <2>1. numConns'[p] = Cardinality(UsedConns(p)')
    BY <1>1, <1>7, <1>9, TablesFinite, OneMore DEF DriverInv, Counted
  <2>2. \A n \in Conns : conn'[p][n].num = conn[p][n].num
    BY <1>2, <1>3
  <2> QED
    BY <1>7, <2>1, <2>2 DEF DriverInv, Counted
<1>11. IdsDistinct(p)' /\ OnOpenChannels(p)'
  <2>1. IdsDistinct(p)'
    BY <1>7 DEF DriverInv, IdsDistinct
  <2>2. i \in UsedIds(p)
    BY <1>1 DEF UsedIds
  <2>3. \A n \in UsedConns(p) : n # k /\ n \in Conns
    BY <1>7 DEF UsedConns
  <2> QED
    BY <1>1, <1>2, <1>3, <1>7, <2>1, <2>2, <2>3 DEF DriverInv, OnOpenChannels
<1>12. Covered(p)'
  <2> SUFFICES ASSUME NEW n \in Ids
               PROVE  Cardinality(ConnsOn(p, n)') + Opening(p, n)' <= ids[p][n].cnt
    BY DEF Covered
  <2>1. Cardinality(ConnsOn(p, n)) \in Nat /\ ids[p][n].cnt \in Nat
    BY CountsAreNumbers
  <2>2. Opening(p, n)' = 0 /\ Opening(p, n) = IF n = i THEN 1 ELSE 0
    BY <1>1, <1>9 DEF Opening, NoCall
  <2>3. Cardinality(ConnsOn(p, n)') = Cardinality(ConnsOn(p, n)) + IF n = i THEN 1 ELSE 0
    <3>1. CASE n = i
      BY <1>8, <3>1, TablesFinite, OneMore
    <3>2. CASE n # i
      BY <1>8, <2>1, <3>2
    <3> QED
      BY <3>1, <3>2
  <2>4. Cardinality(ConnsOn(p, n)) + Opening(p, n) <= ids[p][n].cnt
    BY DEF DriverInv, Covered
  <2> QED
    BY <2>1, <2>2, <2>3, <2>4
<1>13. Live(p)' /\ Called(p)'
  BY <1>9 DEF Live, Called, Waiting
<1>14. TakesConn(p, k)
  <2> SUFFICES ASSUME NEW n \in Ids
               PROVE  Cardinality(ConnsOn(p, n)') = Cardinality(ConnsOn(p, n)) + Opening(p, n)
    BY <1>7 DEF TakesConn
  <2>1. CASE n = i
    BY <1>1, <1>8, <2>1, TablesFinite, OneMore DEF Opening
  <2>2. CASE n # i
    <3>1. Opening(p, n) = 0 /\ Cardinality(ConnsOn(p, n)) \in Nat
      BY <1>1, <2>2, CountsAreNumbers DEF Opening
    <3> QED
      BY <1>8, <2>2, <3>1
  <2> QED
    BY <2>1, <2>2
<1> QED
  BY <1>5, <1>6, <1>9, <1>10, <1>11, <1>12, <1>13, <1>14 DEF DriverInv

\* The answer to open_context, with a free connection or without.
LEMMA ContextAnswered ==
  ASSUME IInv, NEW p \in Client, Waiting(p), call[p].cmd = "open_context",
         NEW h \in Handle, ContextOpened(p, h)
  PROVE  /\ Typed' /\ DriverInv(p)' /\ Alone(p) /\ call'[p] = NoCall
         /\ UNCHANGED tables \/ \E k \in Conns : TakesConn(p, k)
<1>1. CASE GiveUp(p) /\ UNCHANGED <<conn, numConns>>
  <2>1. UNCHANGED tables
    BY <1>1 DEF ContextOpened, tables
  <2>2. call'[p] = NoCall /\ \E to \in {"running", "crashed", "no_table"} :
                                proc' = [proc EXCEPT ![p] = to]
    BY <1>1 DEF GiveUp, IInv, Typed
  <2> QED
    BY <1>1, <2>1, <2>2, CallEnds DEF GiveUp
<1>2. ASSUME NEW k \in Conns, FirstFreeConn(p, k),
             conn' = [conn EXCEPT ![p][k] =
               [@ EXCEPT !.used = TRUE, !.id = call[p].id, !.ctx = h]],
             numConns' = [numConns EXCEPT ![p] = @ + 1],
             Return(p)
      PROVE  /\ Typed' /\ DriverInv(p)' /\ Alone(p) /\ call'[p] = NoCall
             /\ TakesConn(p, k)
  <2>1. UNCHANGED <<ids, numIds, slot>> /\ ~conn[p][k].used
    BY <1>2 DEF ContextOpened, FirstFreeConn
  <2>2. call[p].id \in Ids
    BY DEF IInv, DriverInv, Called, Waiting
  <2> DEFINE row == [conn[p][k] EXCEPT !.used = TRUE, !.id = call[p].id, !.ctx = h]
  <2>3. row \in ConnRow /\ row.used /\ row.id = call[p].id /\ row.num = conn[p][k].num
    <3>1. conn[p][k] \in ConnRow
      BY DEF IInv, Typed
    <3> QED
      BY <2>2, <3>1 DEF ConnRow
  <2>4. conn' = [conn EXCEPT ![p][k] = row]
    BY <1>2
  <2>5. ~conn[p][k].used /\ numConns' = [numConns EXCEPT ![p] = @ + 1] /\ Return(p)
    BY <1>2, <2>1
  <2> HIDE DEF row
  <2> QED
    BY <2>1, <2>3, <2>4, <2>5, ConnTaken
<1> QED
  BY <1>1, <1>2 DEF ContextOpened, FirstFreeConn

\* The answer to close_context zeroes the connection and gives the place in the
\* count of its id back; the last one shuts the channel.
LEMMA ConnFreed ==
  ASSUME IInv, NEW p \in Client, Waiting(p), call[p].cmd # "open_context",
         NEW k \in UsedConns(p), ContextClosed(p, k)
  PROVE  Typed' /\ DriverInv(p)' /\ Alone(p) /\ call'[p] = NoCall /\ FreesConn(p, k)
<1> USE DEF IInv
<1>1. k \in Conns
  BY DEF UsedConns
<1>2. PICK i \in Ids : i = conn[p][k].id /\ ids[p][i].used /\ ids[p][i].open
  BY DEF DriverInv, OnOpenChannels, UsedIds
<1> DEFINE row == IF ids[p][i].cnt = 1 THEN FreeId
                  ELSE [ids[p][i] EXCEPT !.cnt = ids[p][i].cnt - 1]
           num == IF ids[p][i].cnt = 1 THEN numIds[p] - 1 ELSE numIds[p]
<1>3. /\ ids' = [ids EXCEPT ![p][i] = row]
      /\ numIds' = [numIds EXCEPT ![p] = num]
      /\ numConns' = [numConns EXCEPT ![p] = numConns[p] - 1]
      /\ conn' = [conn EXCEPT ![p][k] = FreeConn]
      /\ slot' = [slot EXCEPT ![p][k] = [j \in Slots |-> None]]
      /\ call' = [call EXCEPT ![p] = NoCall] /\ proc' = proc
  BY <1>2 DEF ContextClosed, ReleaseId, Return
<1>4. /\ \A n \in Ids : ids[p][n] \in IdRow
      /\ \A n \in Conns : conn[p][n] \in ConnRow
  BY DEF Typed
\* What is counted.
<1>5. /\ ConnsOn(p, i) \in SUBSET UsedConns(p)
      /\ k \in ConnsOn(p, i)
      /\ IsFiniteSet(ConnsOn(p, i)) /\ IsFiniteSet(UsedConns(p)) /\ IsFiniteSet(UsedIds(p))
      /\ i \in UsedIds(p)
  BY <1>1, <1>2, TablesFinite DEF ConnsOn, UsedIds
<1>6. /\ Cardinality(ConnsOn(p, i)) \in Nat /\ ids[p][i].cnt \in Nat
      /\ Cardinality(ConnsOn(p, i)) >= 1 /\ Cardinality(ConnsOn(p, i)) <= ids[p][i].cnt
  <2>1. Opening(p, i) = 0
    BY DEF Opening
  <2>2. Cardinality(ConnsOn(p, i)) + Opening(p, i) <= ids[p][i].cnt
    BY DEF DriverInv, Covered
  <2>3. Cardinality(ConnsOn(p, i)) \in Nat /\ ids[p][i].cnt \in Nat
    BY CountsAreNumbers
  <2>4. Cardinality(ConnsOn(p, i)) >= 1
    BY <1>5, OneLess
  <2> QED
    BY <2>1, <2>2, <2>3, <2>4
\* The row of the id afterwards.
<1>7. /\ row \in IdRow
      /\ ids[p][i].cnt = 1 => row = FreeId
      /\ ids[p][i].cnt # 1 => /\ row.used /\ row.open
                              /\ row.cid = ids[p][i].cid
                              /\ row.cnt = ids[p][i].cnt - 1
  <2>1. ids[p][i] \in IdRow
    BY <1>4
  <2>2. CASE ids[p][i].cnt = 1
    BY <2>2 DEF IdRow, FreeId, None
  <2>3. CASE ids[p][i].cnt # 1
    <3>1. ids[p][i].cnt - 1 \in Nat
      BY <1>6
    <3> QED
      BY <1>2, <2>1, <2>3, <3>1 DEF IdRow
  <2> QED
    BY <2>2, <2>3
<1> HIDE DEF row
<1>8. /\ ids' \in [Client -> [Ids -> IdRow]]
      /\ ids'[p][i] = row
      /\ \A n \in Ids \ {i} : ids'[p][n] = ids[p][n]
      /\ \A q \in Client \ {p} : ids'[q] = ids[q]
  BY <1>3, <1>7, TableEntry DEF Typed
<1>9. /\ conn' \in [Client -> [Conns -> ConnRow]]
      /\ conn'[p][k] = FreeConn
      /\ \A n \in Conns \ {k} : conn'[p][n] = conn[p][n]
      /\ \A q \in Client \ {p} : conn'[q] = conn[q]
  <2>1. FreeConn \in ConnRow
    BY DEF FreeConn, ConnRow, None
  <2> QED
    BY <1>1, <1>3, <2>1, TableEntry DEF Typed
<1>10. /\ slot' \in [Client -> [Conns -> [Slots -> Handle \cup {None}]]]
       /\ slot'[p][k] = [j \in Slots |-> None]
       /\ \A n \in Conns \ {k} : slot'[p][n] = slot[p][n]
       /\ \A q \in Client \ {p} : slot'[q] = slot[q]
  <2>1. [j \in Slots |-> None] \in [Slots -> Handle \cup {None}]
    OBVIOUS
  <2>2. slot \in [Client -> [Conns -> [Slots -> Handle \cup {None}]]]
    BY DEF Typed
  <2> QED
    BY <1>1, <1>3, <2>1, <2>2, TableEntry
<1>11. /\ call'[p] = NoCall
       /\ numConns'[p] = numConns[p] - 1
       /\ numIds'[p] = num
  BY <1>3 DEF Typed
<1>12. /\ UsedConns(p)' = UsedConns(p) \ {k}
       /\ ConnsOn(p, i)' = ConnsOn(p, i) \ {k}
       /\ \A n \in Ids \ {i} : ConnsOn(p, n)' = ConnsOn(p, n)
       /\ UsedSlots(p, k)' = {}
       /\ \A n \in Conns \ {k} : UsedSlots(p, n)' = UsedSlots(p, n)
  BY <1>1, <1>2, <1>9, <1>10 DEF UsedConns, ConnsOn, UsedSlots, FreeConn
<1>13. /\ Cardinality(UsedConns(p)') = Cardinality(UsedConns(p)) - 1
       /\ Cardinality(UsedConns(p)) >= 1
       /\ Cardinality(ConnsOn(p, i)') = Cardinality(ConnsOn(p, i)) - 1
       /\ Cardinality(UsedIds(p) \ {i}) = Cardinality(UsedIds(p)) - 1
       /\ Cardinality(UsedIds(p)) >= 1
  BY <1>5, <1>12, OneLess
<1>14. numConns[p] = Cardinality(UsedConns(p)) /\ numIds[p] = Cardinality(UsedIds(p))
  BY DEF DriverInv, Counted
<1>15. UsedIds(p)' = IF ids[p][i].cnt = 1 THEN UsedIds(p) \ {i} ELSE UsedIds(p)
  <2>1. \A n \in Ids \ {i} : ids'[p][n].used = ids[p][n].used
    BY <1>8
  <2>2. ids'[p][i].used <=> ids[p][i].cnt # 1
    BY <1>7, <1>8 DEF FreeId
  <2> QED
    BY <1>2, <2>1, <2>2 DEF UsedIds
<1>16. Typed'
  <2>1. num \in Nat /\ numConns[p] - 1 \in Nat
    BY <1>13, <1>14, <1>5, FS_CardinalityType
  <2>2. numIds' \in [Client -> Nat] /\ numConns' \in [Client -> Nat]
    BY <1>3, <2>1, TableCounter DEF Typed
  <2>3. call' \in [Client -> CallRow]
    BY <1>3 DEF Typed, CallRow, CallNames, NoCall, None
  <2> QED
    BY <1>3, <1>8, <1>9, <1>10, <2>2, <2>3 DEF Typed
<1>17. Alone(p)
  BY <1>3, <1>8, <1>9, <1>10 DEF Alone, Typed
<1>18. Counted(p)'
  <2>1. numConns'[p] = Cardinality(UsedConns(p)')
    BY <1>11, <1>13, <1>14
  <2>2. numIds'[p] = Cardinality(UsedIds(p)')
    BY <1>11, <1>13, <1>14, <1>15
  <2>3. \A n \in Conns : conn'[p][n].num = Cardinality(UsedSlots(p, n)')
    <3>1. conn'[p][k].num = 0 /\ Cardinality(UsedSlots(p, k)') = 0
      BY <1>12, <1>9, FS_EmptySet DEF FreeConn
    <3>2. \A n \in Conns \ {k} : conn'[p][n].num = Cardinality(UsedSlots(p, n)')
      BY <1>12, <1>9 DEF DriverInv, Counted
    <3> QED
      BY <3>1, <3>2
  <2> QED
    BY <2>1, <2>2, <2>3 DEF Counted
<1>19. IdsDistinct(p)'
  <2>1. \A n \in UsedIds(p)' : n \in UsedIds(p) /\ ids'[p][n].cid = ids[p][n].cid
    BY <1>7, <1>15, <1>8 DEF UsedIds
  <2> QED
    BY <2>1 DEF DriverInv, IdsDistinct
<1>20. OnOpenChannels(p)'
  <2> SUFFICES ASSUME NEW n \in UsedConns(p)'
               PROVE  conn'[p][n].id \in UsedIds(p)' /\ ids'[p][conn'[p][n].id].open
    BY DEF OnOpenChannels
  <2>1. n \in UsedConns(p) \ {k} /\ n \in Conns /\ conn'[p][n] = conn[p][n]
    BY <1>12, <1>9 DEF UsedConns
  <2>2. conn[p][n].id \in UsedIds(p) /\ ids[p][conn[p][n].id].open
    BY <2>1 DEF DriverInv, OnOpenChannels
  <2>3. CASE conn[p][n].id # i
    BY <1>15, <1>8, <2>1, <2>2, <2>3 DEF UsedIds
  <2>4. CASE conn[p][n].id = i
    \* Then there are two connections on it.
    <3>1. n \in ConnsOn(p, i)'
      BY <1>12, <2>1, <2>4 DEF ConnsOn
    <3>2. Cardinality(ConnsOn(p, i)') >= 1
      BY <1>1, <1>2, <1>5, <1>12, <3>1, OneLess, FS_RemoveElement
    <3>3. ids[p][i].cnt # 1
      BY <1>6, <1>13, <3>2
    <3> QED
      BY <1>7, <1>15, <1>8, <2>1, <2>2, <2>4, <3>3
  <2> QED
    BY <2>3, <2>4
<1>21. Covered(p)'
  <2> SUFFICES ASSUME NEW n \in Ids
               PROVE  Cardinality(ConnsOn(p, n)') + Opening(p, n)' <= ids'[p][n].cnt
    BY DEF Covered
  <2>1. Opening(p, n)' = 0 /\ Opening(p, n) = 0
    BY <1>11 DEF Opening, NoCall
  <2>2. /\ Cardinality(ConnsOn(p, n)) \in Nat /\ ids[p][n].cnt \in Nat
        /\ Cardinality(ConnsOn(p, n)) + Opening(p, n) <= ids[p][n].cnt
    BY CountsAreNumbers DEF DriverInv, Covered
  <2>3. CASE n # i
    BY <1>12, <1>8, <2>1, <2>2, <2>3
  <2>4. CASE n = i
    <3>1. ids'[p][i].cnt = ids[p][i].cnt - 1
      BY <1>7, <1>8 DEF FreeId
    <3> QED
      BY <1>13, <2>1, <2>2, <2>4, <3>1
  <2> QED
    BY <2>3, <2>4
<1>22. Live(p)' /\ Called(p)'
  BY <1>11 DEF Live, Called, Waiting
<1>23. FreesConn(p, k)
  <2>1. /\ ids[p][i].cnt = 1 => ids'[p][i] = FreeId
        /\ ids[p][i].cnt # 1 => ids'[p][i].used /\ ids'[p][i].cnt = ids[p][i].cnt - 1
    BY <1>7, <1>8
  <2> QED
    BY <1>2, <1>6, <1>8, <1>12, <1>13, <2>1 DEF FreesConn
<1> QED
  BY <1>11, <1>16, <1>17, <1>18, <1>19, <1>20, <1>21, <1>22, <1>23 DEF DriverInv

\* An answer changes one session table, and the count of sessions follows it.
LEMMA SessionsChange ==
  ASSUME IInv, NEW p \in Client, NEW k \in Conns, NEW c \in Nat,
         NEW held \in [Slots -> Handle \cup {None}],
         c = Cardinality({j \in Slots : held[j] # None}),
         NEW row \in ConnRow,
         row.used = conn[p][k].used, row.id = conn[p][k].id, row.num = c,
         conn' = [conn EXCEPT ![p][k] = row],
         slot' = [slot EXCEPT ![p][k] = held],
         Return(p),
         UNCHANGED <<ids, numIds, numConns>>
  PROVE  /\ Typed' /\ DriverInv(p)' /\ Alone(p)
         /\ call'[p] = NoCall /\ ChangesSlots(p, k, {j \in Slots : held[j] # None})
<1> USE DEF IInv
<1>1. proc' = proc /\ call' = [call EXCEPT ![p] = NoCall]
  BY DEF Return
<1>2. /\ slot' \in [Client -> [Conns -> [Slots -> Handle \cup {None}]]]
      /\ slot'[p][k] = held
      /\ \A n \in Conns \ {k} : slot'[p][n] = slot[p][n]
      /\ \A q \in Client \ {p} : slot'[q] = slot[q]
  <2>1. slot \in [Client -> [Conns -> [Slots -> Handle \cup {None}]]]
    BY DEF Typed
  <2> QED
    BY <2>1, TableEntry
<1>3. /\ conn' \in [Client -> [Conns -> ConnRow]]
      /\ conn'[p][k] = row
      /\ \A n \in Conns \ {k} : conn'[p][n] = conn[p][n]
      /\ \A q \in Client \ {p} : conn'[q] = conn[q]
  BY ConnEntry
<1>4. Typed'
  <2>1. call' \in [Client -> CallRow]
    BY <1>1 DEF Typed, CallRow, CallNames, NoCall, None
  <2> QED
    BY <1>1, <1>2, <1>3, <2>1 DEF Typed
<1>5. Alone(p)
  BY <1>1, <1>2, <1>3 DEF Alone, Typed
<1>6. /\ UsedIds(p)' = UsedIds(p) /\ UsedConns(p)' = UsedConns(p)
      /\ UsedSlots(p, k)' = {j \in Slots : held[j] # None}
      /\ \A n \in Conns \ {k} : UsedSlots(p, n)' = UsedSlots(p, n)
  BY <1>2, <1>3 DEF UsedIds, UsedConns, UsedSlots
<1>7. \A n \in Conns : conn'[p][n].id = conn[p][n].id
  BY <1>3
<1>8. \A n \in Ids : ConnsOn(p, n)' = ConnsOn(p, n)
  BY <1>6, <1>7 DEF ConnsOn, UsedConns
<1>9. Counted(p)'
  <2>1. conn'[p][k].num = Cardinality(UsedSlots(p, k)')
    BY <1>3, <1>6
  <2>2. \A n \in Conns \ {k} : conn'[p][n].num = Cardinality(UsedSlots(p, n)')
    BY <1>3, <1>6 DEF DriverInv, Counted
  <2>3. numIds'[p] = Cardinality(UsedIds(p)') /\ numConns'[p] = Cardinality(UsedConns(p)')
    BY <1>6 DEF DriverInv, Counted
  <2> QED
    BY <2>1, <2>2, <2>3 DEF Counted
<1>10. IdsDistinct(p)' /\ OnOpenChannels(p)'
  <2>1. \A n \in UsedConns(p) : n \in Conns
    BY DEF UsedConns
  <2> QED
    BY <1>6, <1>7, <2>1 DEF DriverInv, IdsDistinct, OnOpenChannels
<1>11. call'[p] = NoCall
  BY <1>1 DEF Typed
<1>12. Covered(p)'
  <2> SUFFICES ASSUME NEW n \in Ids
               PROVE  Cardinality(ConnsOn(p, n)') + Opening(p, n)' <= ids[p][n].cnt
    BY DEF Covered
  <2>1. Opening(p, n)' = 0 /\ Opening(p, n) \in {0, 1}
    BY <1>11 DEF Opening, NoCall
  <2>2. Cardinality(ConnsOn(p, n)) \in Nat /\ ids[p][n].cnt \in Nat
    BY CountsAreNumbers
  <2>3. Cardinality(ConnsOn(p, n)) + Opening(p, n) <= ids[p][n].cnt
    BY DEF DriverInv, Covered
  <2> QED
    BY <1>8, <2>1, <2>2, <2>3
<1>13. Live(p)' /\ Called(p)'
  BY <1>11 DEF Live, Called, Waiting
<1>14. ChangesSlots(p, k, {j \in Slots : held[j] # None})
  BY <1>6, <1>8 DEF ChangesSlots
<1> QED
  BY <1>4, <1>5, <1>9, <1>10, <1>11, <1>12, <1>13, <1>14 DEF DriverInv

\* The answer to open_session is put into the first free slot, if the
\* connection has its table and there is one.
LEMMA SessionTaken ==
  ASSUME IInv, NEW p \in Client, NEW k \in UsedConns(p), NEW h \in Handle,
         SessionOpened(p, k, h)
  PROVE  /\ Typed' /\ DriverInv(p)' /\ Alone(p) /\ call'[p] = NoCall
         /\ \/ UNCHANGED tables
            \/ \E j \in Slots \ UsedSlots(p, k) : ChangesSlots(p, k, UsedSlots(p, k) \cup {j})
<1>1. k \in Conns
  BY DEF UsedConns
<1>2. CASE call' = [call EXCEPT ![p] = NoCall] /\ UNCHANGED <<conn, slot>>
  <2>1. UNCHANGED tables
    BY <1>2 DEF SessionOpened, tables
  <2>2. proc' = proc \/ \E to \in {"running", "crashed", "no_table"} :
                          proc' = [proc EXCEPT ![p] = to]
    BY DEF SessionOpened, GiveUp, Return
  <2> QED
    <3>1. call'[p] = NoCall
      BY <1>2 DEF IInv, Typed
    <3> QED
      BY <1>2, <2>1, <2>2, <3>1, CallEnds
<1>3. ASSUME NEW j \in Slots, slot[p][k][j] = None,
             slot' = [slot EXCEPT ![p][k][j] = h],
             conn' = [conn EXCEPT ![p][k].num = @ + 1],
             Return(p), UNCHANGED <<ids, numIds, numConns>>
      PROVE  /\ Typed' /\ DriverInv(p)' /\ Alone(p) /\ call'[p] = NoCall
             /\ ChangesSlots(p, k, UsedSlots(p, k) \cup {j}) /\ j \notin UsedSlots(p, k)
  <2> DEFINE held == [slot[p][k] EXCEPT ![j] = h]
  <2>1. slot[p][k] \in [Slots -> Handle \cup {None}]
    BY <1>1 DEF IInv, Typed
  <2>2. held \in [Slots -> Handle \cup {None}] /\ slot' = [slot EXCEPT ![p][k] = held]
    BY <1>3, <2>1
  <2>3. h # None
    BY DriverAssumption DEF None
  <2>4. /\ {n \in Slots : held[n] # None} = UsedSlots(p, k) \cup {j}
        /\ j \notin UsedSlots(p, k)
    BY <1>3, <2>1, <2>3 DEF UsedSlots
  <2>5. IsFiniteSet(UsedSlots(p, k)) /\ Cardinality(UsedSlots(p, k)) \in Nat
    <3>1. 1 \in Ids
      BY DriverAssumption DEF Ids
    <3> QED
      BY <1>1, <3>1, TablesFinite
  <2>6. conn[p][k].num = Cardinality(UsedSlots(p, k))
    BY <1>1 DEF IInv, DriverInv, Counted
  <2>7. /\ conn[p][k].num + 1 \in Nat
        /\ conn[p][k].num + 1 = Cardinality({n \in Slots : held[n] # None})
    BY <2>4, <2>5, <2>6, OneMore
  <2> DEFINE row == [conn[p][k] EXCEPT !.num = conn[p][k].num + 1]
  <2>8. /\ row \in ConnRow /\ row.num = conn[p][k].num + 1
        /\ row.used = conn[p][k].used /\ row.id = conn[p][k].id
    <3>1. conn[p][k] \in ConnRow
      BY <1>1 DEF IInv, Typed
    <3> QED
      BY <2>7, <3>1 DEF ConnRow
  <2>9. conn' = [conn EXCEPT ![p][k] = row]
    BY <1>3
  <2>10. Return(p) /\ UNCHANGED <<ids, numIds, numConns>>
    BY <1>3
  <2> HIDE DEF held, row
  <2> QED
    <3>1. /\ Typed' /\ DriverInv(p)' /\ Alone(p) /\ call'[p] = NoCall
          /\ ChangesSlots(p, k, {n \in Slots : held[n] # None})
      BY <1>1, <2>2, <2>7, <2>8, <2>9, <2>10, SessionsChange
    <3> QED
      BY <2>4, <3>1
<1> QED
  BY <1>2, <1>3 DEF SessionOpened, FirstFreeSlot, GiveUp

\* The answer to close_session frees the slot the process waited with.
LEMMA SessionFreed ==
  ASSUME IInv, NEW p \in Client, NEW k \in UsedConns(p), NEW j \in UsedSlots(p, k),
         SessionClosed(p, k, j)
  PROVE  /\ Typed' /\ DriverInv(p)' /\ Alone(p)
         /\ call'[p] = NoCall /\ ChangesSlots(p, k, UsedSlots(p, k) \ {j})
<1> DEFINE held == [slot[p][k] EXCEPT ![j] = None]
<1>1. k \in Conns /\ j \in Slots
  BY DEF UsedConns, UsedSlots
<1>2. slot[p][k] \in [Slots -> Handle \cup {None}]
  BY <1>1 DEF IInv, Typed
<1>3. held \in [Slots -> Handle \cup {None}] /\ slot' = [slot EXCEPT ![p][k] = held]
  BY <1>1, <1>2 DEF SessionClosed
<1>4. {n \in Slots : held[n] # None} = UsedSlots(p, k) \ {j}
  BY <1>1, <1>2 DEF UsedSlots
<1>5. IsFiniteSet(UsedSlots(p, k)) /\ Cardinality(UsedSlots(p, k)) \in Nat
  <2>1. 1 \in Ids
    BY DriverAssumption DEF Ids
  <2> QED
    BY <1>1, <2>1, TablesFinite
<1>6. conn[p][k].num = Cardinality(UsedSlots(p, k))
  BY <1>1 DEF IInv, DriverInv, Counted
<1>7. /\ conn[p][k].num - 1 \in Nat
      /\ conn[p][k].num - 1 = Cardinality({n \in Slots : held[n] # None})
  <2>1. /\ Cardinality(UsedSlots(p, k) \ {j}) = Cardinality(UsedSlots(p, k)) - 1
        /\ Cardinality(UsedSlots(p, k)) >= 1
    BY <1>5, OneLess
  <2> HIDE DEF held
  <2> QED
    <3>1. Cardinality(UsedSlots(p, k)) - 1 \in Nat
      BY <1>5, <2>1
    <3> QED
      BY <1>4, <1>6, <2>1, <3>1
<1> DEFINE row == [conn[p][k] EXCEPT !.num = conn[p][k].num - 1]
<1>8. /\ row \in ConnRow /\ row.num = conn[p][k].num - 1
      /\ row.used = conn[p][k].used /\ row.id = conn[p][k].id
  <2>1. conn[p][k] \in ConnRow
    BY <1>1 DEF IInv, Typed
  <2> QED
    BY <1>7, <2>1 DEF ConnRow
<1>9. conn' = [conn EXCEPT ![p][k] = row]
  BY DEF SessionClosed
<1>10. Return(p) /\ UNCHANGED <<ids, numIds, numConns>>
  BY DEF SessionClosed
<1> HIDE DEF held, row
<1> QED
  <2>1. /\ Typed' /\ DriverInv(p)' /\ Alone(p) /\ call'[p] = NoCall
        /\ ChangesSlots(p, k, {n \in Slots : held[n] # None})
    BY <1>1, <1>3, <1>7, <1>8, <1>9, <1>10, SessionsChange
  <2> QED
    BY <1>4, <2>1

-----------------------------------------------------------------------------
(* The invariant.                                                          *)

\* A process that makes a request.
LEMMA RequestKeeps ==
  ASSUME IInv, NEW p \in Client, Idle(p), Request(p)
  PROVE  Typed' /\ DriverInv(p)' /\ Alone(p)
<1>1. ASSUME GiveUp(p), UNCHANGED tables
      PROVE  Typed' /\ DriverInv(p)' /\ Alone(p)
  <2>1. \E to \in {"running", "crashed", "no_table"} : proc' = [proc EXCEPT ![p] = to]
    BY <1>1 DEF GiveUp
  <2> QED
    BY <1>1, <2>1, CallEnds DEF GiveUp
<1>2. ASSUME NEW cid \in ContextId, NEW ok \in BOOLEAN, OpenContext(p, cid, ok)
      PROVE  Typed' /\ DriverInv(p)' /\ Alone(p)
  BY <1>2, ContextAsked
<1>3. ASSUME NEW cmd \in ContextCommands, NEW k, NEW m \in Nat, ContextRequest(p, cmd, k, m)
      PROVE  Typed' /\ DriverInv(p)' /\ Alone(p)
  <2>1. CASE UsedConn(p, k) /\ Exchange(p, cmd, conn[p][k].id, k, m)
    <3>1. k \in UsedConns(p) /\ cmd \notin SessionCommands
      BY <2>1 DEF UsedConn, UsedConns, ContextCommands, SessionCommands
    <3> QED
      BY <1>3, <2>1, <3>1, CallStarts DEF ContextRequest
  <2>2. CASE GiveUp(p)
    BY <1>1, <1>3, <2>2 DEF ContextRequest
  <2> QED
    BY <1>3, <2>1, <2>2 DEF ContextRequest
<1>4. ASSUME NEW cmd \in SessionCommands, NEW k, NEW j \in Nat, SessionRequest(p, cmd, k, j)
      PROVE  Typed' /\ DriverInv(p)' /\ Alone(p)
  <2>1. CASE UsedSlot(p, k, j) /\ Exchange(p, cmd, conn[p][k].id, k, j)
    <3>1. k \in UsedConns(p) /\ j \in UsedSlots(p, k)
      BY <2>1 DEF UsedSlot, UsedConn, UsedConns, UsedSlots
    <3> QED
      BY <1>4, <2>1, <3>1, CallStarts DEF SessionRequest
  <2>2. CASE GiveUp(p)
    BY <1>1, <1>4, <2>2 DEF SessionRequest
  <2> QED
    BY <1>4, <2>1, <2>2 DEF SessionRequest
<1>5. None \in Nat /\ Region \subseteq Nat /\ 1..(MaxSlots + 1) \subseteq Nat
  BY DriverAssumption DEF None
<1>6. CASE \E cmd \in ContextCommands \ {"unregister"}, k \in 1..(MaxConns + 1) :
             ContextRequest(p, cmd, k, None)
  BY <1>3, <1>5, <1>6
<1>7. CASE \E k \in 1..(MaxConns + 1), m \in Region : ContextRequest(p, "unregister", k, m)
  <2>1. "unregister" \in ContextCommands
    BY DEF ContextCommands
  <2> QED
    BY <1>3, <1>5, <1>7, <2>1
<1>8. CASE \E cmd \in SessionCommands, k \in 1..(MaxConns + 1), j \in 1..(MaxSlots + 1) :
             SessionRequest(p, cmd, k, j)
  BY <1>4, <1>5, <1>8
<1> QED
  BY <1>2, <1>6, <1>7, <1>8 DEF Request

\* An answer that does not fit, or that opens what there is no room for, changes
\* no table; a good one does what its request asked for.
LEMMA Answered ==
  ASSUME IInv, NEW p \in Client, Waiting(p), NEW cmd, NEW ok, NEW h \in Handle,
         Receive(p, cmd, ok, h)
  PROVE  /\ Typed' /\ DriverInv(p)' /\ Alone(p) /\ call'[p] = NoCall
         /\ \/ /\ UNCHANGED tables
               /\ ok /\ cmd = call[p].cmd => cmd \notin {"close_context", "close_session"}
            \/ /\ call[p].cmd = "open_context"
               /\ \E k \in Conns : TakesConn(p, k)
            \/ /\ call[p].cmd = "open_session"
               /\ \E k \in UsedConns(p) : k = call[p].k /\ \E j \in Slots \ UsedSlots(p, k) :
                    ChangesSlots(p, k, UsedSlots(p, k) \cup {j})
            \/ /\ call[p].cmd = "close_context" /\ ok /\ cmd = call[p].cmd
               /\ \E k \in UsedConns(p) : k = call[p].k /\ FreesConn(p, k)
            \/ /\ call[p].cmd = "close_session" /\ ok /\ cmd = call[p].cmd
               /\ \E k \in UsedConns(p) : k = call[p].k /\ \E j \in UsedSlots(p, k) :
                    j = call[p].j /\ ChangesSlots(p, k, UsedSlots(p, k) \ {j})
<1>1. ASSUME GiveUp(p) \/ Return(p), UNCHANGED tables
      PROVE  Typed' /\ DriverInv(p)' /\ Alone(p) /\ call'[p] = NoCall
  <2>1. proc' = proc \/ \E to \in {"running", "crashed", "no_table"} :
                          proc' = [proc EXCEPT ![p] = to]
    BY <1>1 DEF GiveUp, Return
  <2> QED
    BY <1>1, <2>1, CallEnds DEF GiveUp, Return, IInv, Typed
<1>2. /\ call[p].cmd # "open_context" => \E k \in UsedConns(p) : k = call[p].k
      /\ call[p].cmd \in SessionCommands => call[p].j \in UsedSlots(p, call[p].k)
  BY DEF IInv, DriverInv, Live
<1>3. CASE (cmd # call[p].cmd \/ ~ok) /\ GiveUp(p) /\ UNCHANGED tables
  BY <1>1, <1>3
<1>4. CASE cmd = call[p].cmd /\ ok /\ cmd = "open_context" /\ ContextOpened(p, h)
  BY <1>4, ContextAnswered
<1>5. CASE cmd = call[p].cmd /\ ok /\ cmd = "close_context" /\ ContextClosed(p, call[p].k)
  <2>1. PICK k \in UsedConns(p) : k = call[p].k
    BY <1>2, <1>5
  <2>2. ContextClosed(p, k)
    BY <1>5, <2>1 DEF ContextClosed, ReleaseId
  <2> QED
    BY <1>5, <2>1, <2>2, ConnFreed
<1>6. CASE cmd = call[p].cmd /\ ok /\ cmd = "open_session" /\ SessionOpened(p, call[p].k, h)
  <2>1. PICK k \in UsedConns(p) : k = call[p].k
    BY <1>2, <1>6
  <2>2. SessionOpened(p, k, h)
    BY <1>6, <2>1 DEF SessionOpened, FirstFreeSlot
  <2> QED
    BY <1>6, <2>1, <2>2, SessionTaken
<1>7. CASE /\ cmd = call[p].cmd /\ ok
           /\ cmd = "close_session" /\ SessionClosed(p, call[p].k, call[p].j)
  <2>1. PICK k \in UsedConns(p) : k = call[p].k
    BY <1>2, <1>7
  <2>2. PICK j \in UsedSlots(p, k) : j = call[p].j
    BY <1>2, <1>7, <2>1 DEF SessionCommands
  <2>3. SessionClosed(p, k, j)
    BY <1>7, <2>1, <2>2 DEF SessionClosed
  <2> QED
    BY <1>7, <2>1, <2>2, <2>3, SessionFreed
<1>8. CASE cmd \in {"invoke", "register", "unregister"} /\ Return(p) /\ UNCHANGED tables
  BY <1>1, <1>8
<1> QED
  BY <1>3, <1>4, <1>5, <1>6, <1>7, <1>8 DEF Receive

\* A process that gets an answer, or none.
LEMMA AnswerKeeps ==
  ASSUME IInv, NEW p \in Client, Waiting(p), Answer(p)
  PROVE  Typed' /\ DriverInv(p)' /\ Alone(p)
<1>1. CASE ExchangeFails(p)
  <2>1. \E to \in {"running", "crashed", "no_table"} : proc' = [proc EXCEPT ![p] = to]
    BY <1>1 DEF ExchangeFails, GiveUp
  <2> QED
    BY <1>1, <2>1, CallEnds DEF ExchangeFails, GiveUp
<1> QED
  BY <1>1, Answered DEF Answer

LEMMA InitSatisfies == Init => IInv
<1> SUFFICES ASSUME Init
             PROVE  IInv
  OBVIOUS
<1>1. Typed
  BY DEF Init, Typed, IdRow, ConnRow, CallRow, CallNames, FreeId, FreeConn, NoCall, None
<1>2. ASSUME NEW p \in Client
      PROVE  DriverInv(p)
  <2>1. /\ \A i \in Ids : ids[p][i] = FreeId
        /\ numIds[p] = 0 /\ numConns[p] = 0
        /\ \A k \in Conns : /\ conn[p][k].used = FALSE /\ conn[p][k].num = 0
                            /\ \A j \in Slots : slot[p][k][j] = None
        /\ proc[p] = "running" /\ call[p] = NoCall
    BY DEF Init, FreeConn
  <2>2. /\ UsedIds(p) = {} /\ UsedConns(p) = {}
        /\ \A k \in Conns : UsedSlots(p, k) = {}
        /\ \A i \in Ids : ConnsOn(p, i) = {}
    BY <2>1 DEF UsedIds, UsedConns, UsedSlots, ConnsOn, FreeId
  <2>3. Counted(p)
    BY <2>1, <2>2, FS_EmptySet DEF Counted
  <2>4. IdsDistinct(p) /\ OnOpenChannels(p) /\ Live(p) /\ Called(p)
    BY <2>1, <2>2 DEF IdsDistinct, OnOpenChannels, Live, Called, Waiting
  <2>5. Covered(p)
    <3>1. \A i \in Ids : Opening(p, i) = 0 /\ ids[p][i].cnt = 0
      BY <2>1 DEF Opening, NoCall, FreeId
    <3>2. \A i \in Ids : Cardinality(ConnsOn(p, i)) = 0
      BY <2>2, FS_EmptySet
    <3> QED
      BY <3>1, <3>2 DEF Covered
  <2> QED
    BY <2>3, <2>4, <2>5 DEF DriverInv
<1> QED
  BY <1>1, <1>2 DEF IInv

LEMMA NextKeeps == IInv /\ [Next]_dvars => IInv'
<1> SUFFICES ASSUME IInv, [Next]_dvars
             PROVE  IInv'
  OBVIOUS
<1>1. ASSUME NEW p \in Client, Typed' /\ DriverInv(p)' /\ Alone(p)
      PROVE  IInv'
  BY <1>1, OthersKeep DEF IInv
<1>2. ASSUME NEW p \in Client, Idle(p) /\ Request(p)
      PROVE  IInv'
  BY <1>1, <1>2, RequestKeeps
<1>3. ASSUME NEW p \in Client, Waiting(p) /\ Answer(p)
      PROVE  IInv'
  BY <1>1, <1>3, AnswerKeeps
<1>4. ASSUME NEW p \in Client, Die(p)
      PROVE  IInv'
  <2>1. Typed' /\ DriverInv(p)' /\ Alone(p)
    BY <1>4, CallEnds DEF Die
  <2> QED
    BY <1>1, <2>1
<1>5. CASE UNCHANGED dvars
  <2>1. UNCHANGED tables /\ UNCHANGED <<proc, call>>
    BY <1>5 DEF dvars
  <2>2. Typed'
    BY <2>1 DEF IInv, Typed, tables
  <2>3. ASSUME NEW p \in Client
        PROVE  DriverInv(p)'
    <3>1. \A i \in Ids : Opening(p, i)' = Opening(p, i)
      BY <2>1 DEF Opening
    <3>2. Counted(p)' /\ IdsDistinct(p)' /\ OnOpenChannels(p)' /\ Covered(p)'
      BY <2>1, <3>1, TablesSame
         DEF IInv, DriverInv, Counted, IdsDistinct, OnOpenChannels, Covered, tables
    <3>3. Live(p)' /\ Called(p)'
      BY <2>1, TablesSame DEF IInv, DriverInv, Live, Called, Waiting, tables
    <3> QED
      BY <3>2, <3>3 DEF DriverInv
  <2> QED
    BY <2>2, <2>3 DEF IInv
<1> QED
  BY <1>2, <1>3, <1>4, <1>5 DEF Next

\* The inductive invariant of the driver.
THEOREM DriverInvariant == Spec => []IInv
BY InitSatisfies, NextKeeps, PTL DEF Spec

\* The counters the handlers refuse by and assert on are the sizes of what they
\* count, in every process: sk_nwld_tapi_open_context, _close_context,
\* _open_session and _close_session change a table and its counter together.
THEOREM CountersCorrect == Spec => []CountersMatchTables
<1>1. IInv => CountersMatchTables
  BY DEF IInv, DriverInv, Counted, CountersMatchTables
<1> QED
  BY <1>1, DriverInvariant, PTL

\* No connection outlives the channel it uses: the count of a context id, which
\* sk_nwld_tapi_open_context takes before it asks the server and
\* sk_nwld_tapi_close_context gives back, is never below its connections and
\* the open_context that waits for its answer.
THEOREM ChannelsOutlive == Spec => []ChannelOutlivesConnections
<1>1. IInv => ChannelOutlivesConnections
  BY DEF IInv, DriverInv, OnOpenChannels, Covered, Opening, ChannelOutlivesConnections
<1> QED
  BY <1>1, DriverInvariant, PTL

\* What a handler waits for is in its tables when the answer comes: between the
\* exchange and the use of its answer nothing of the process is closed.
THEOREM WaitsCorrect == Spec => []WaitsOnLiveObject
<1>1. IInv => WaitsOnLiveObject
  BY DEF IInv, DriverInv, Live, WaitsOnLiveObject
<1> QED
  BY <1>1, DriverInvariant, PTL
=============================================================================
