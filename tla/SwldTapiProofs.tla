--------------------------- MODULE SwldTapiProofs ---------------------------
(***************************************************************************)
(* Proofs about the secure world server, for every number of contexts,     *)
(* sessions, handles and regions.  TablesInv speaks of the two tables and  *)
(* the session lists, MemoryLinks of the region list; the requests of one  *)
(* half leave the variables of the other half alone.                       *)
(***************************************************************************)
EXTENDS SwldTapi, FiniteSetTheorems, TLAPS

tvars == <<cvars, svars, gvars>>

-----------------------------------------------------------------------------
(* Facts about the tables.                                                 *)

\* The walk find_objects makes leads to sessions of the context only: the set
\* of them holds the start and is closed under next.
LEMMA AttachedIsMember ==
  ASSUME TypeTables, ListsSound, NEW c \in Ctx, NEW s \in Sess, Attached(c, s)
  PROVE  s \in Members(c)
<1>1. Members(c) \in SUBSET Sess
  BY DEF Members
<1>2. cstart[c] # None => cstart[c] \in Members(c)
  BY DEF ListsSound, FreeSlotsEmpty, StartsFirst, SessionsOwned, NextLinks, PrevLinks
<1>3. \A t \in Members(c) : snext[t] # None => snext[t] \in Members(c)
  BY DEF ListsSound, FreeSlotsEmpty, StartsFirst, SessionsOwned, NextLinks, PrevLinks, Members, TypeTables, None
<1> QED
  BY <1>1, <1>2, <1>3 DEF Attached

\* The null pointer is no slot of a table and no region.
LEMMA NullIsNoSlot == None \notin Ctx /\ None \notin Sess /\ None \notin Region
BY BoundsAssumption DEF None, Ctx, Sess, Region

\* The tables are finite, of the size the constants give them.
LEMMA TablesFinite ==
  /\ IsFiniteSet(Ctx) /\ Cardinality(Ctx) = MaxContexts
  /\ IsFiniteSet(Sess) /\ Cardinality(Sess) = MaxSessions
BY BoundsAssumption, FS_Interval DEF Ctx, Sess

\* So are the sessions of a context, which can therefore be counted.
LEMMA MembersFinite ==
  ASSUME NEW c \in Ctx
  PROVE  IsFiniteSet(Members(c)) /\ Cardinality(Members(c)) \in Nat
BY TablesFinite, FS_Subset, FS_CardinalityType DEF Members

-----------------------------------------------------------------------------
(* The tables under the requests that change them.                         *)

\* open_context_nw takes a free slot and draws a handle nobody holds.
LEMMA OpenContextKeeps ==
  ASSUME TablesInv, NEW c \in Ctx, ~cactive[c],
         cactive' = [cactive EXCEPT ![c] = TRUE],
         chandle' = [chandle EXCEPT ![c] = gen + 1],
         UNCHANGED <<cstart, cnum>>,
         gen' = gen + 1, numC' = numC + 1, givenC' = givenC \cup {gen + 1},
         UNCHANGED <<svars, givenS>>
  PROVE  TablesInv'
<1> USE DEF TablesInv, svars
<1>1. TypeTables'
  BY DEF TypeTables
<1>2. HandlesDrawn'
  BY DEF TypeTables, HandlesDrawn, None
<1>3. HandlesUnique'
  BY DEF TypeTables, HandlesDrawn, HandlesUnique, None
<1>4. \A s \in Sess : sactive[s] => owner[s] # gen + 1
  BY DEF TypeTables, HandlesDrawn, ListsSound, FreeSlotsEmpty, StartsFirst, SessionsOwned, NextLinks, PrevLinks
<1>5. \A d \in Ctx : d # c => Members(d)' = Members(d)
  BY DEF Members, TypeTables
<1>6. Members(c)' = {}
  BY <1>4 DEF Members, TypeTables
<1>7. ListsSound'
  BY <1>5 DEF ListsSound, FreeSlotsEmpty, StartsFirst, SessionsOwned, NextLinks, PrevLinks, TypeTables
<1>8. CountersMatchTables'
  <2>1. \A d \in Ctx : cactive'[d] => cnum'[d] = Cardinality(Members(d)')
    <3>1. cnum[c] = 0 /\ Cardinality(Members(c)') = 0
      BY <1>6, FS_EmptySet DEF ListsSound, FreeSlotsEmpty, StartsFirst, SessionsOwned, NextLinks, PrevLinks
    <3>2. \A d \in Ctx : d # c => cactive'[d] = cactive[d]
      BY DEF TypeTables
    <3> QED
      BY <1>5, <3>1, <3>2 DEF CountersMatchTables
  <2>2. {d \in Ctx : cactive'[d]} = {d \in Ctx : cactive[d]} \cup {c}
    BY DEF TypeTables
  <2>3. /\ IsFiniteSet({d \in Ctx : cactive[d]})
        /\ c \notin {d \in Ctx : cactive[d]}
        /\ Cardinality({d \in Ctx : cactive[d]}) \in Nat
    BY TablesFinite, FS_Subset, FS_CardinalityType
  <2>4. Cardinality({d \in Ctx : cactive'[d]}) = Cardinality({d \in Ctx : cactive[d]}) + 1
    BY <2>2, <2>3, FS_AddElement
  <2> QED
    BY <2>1, <2>3, <2>4 DEF CountersMatchTables, TypeTables
<1>9. TappFollowsSession'
  BY DEF TappFollowsSession
<1> QED
  BY <1>1, <1>2, <1>3, <1>7, <1>8, <1>9

\* remove_context frees the slot of a context without sessions.
LEMMA RemoveContextKeeps ==
  ASSUME TablesInv, NEW c \in Ctx, cactive[c], RemoveContext(c),
         (numC > 0 /\ numC' = numC - 1) \/ (numC = 0 /\ numC' = 0),
         UNCHANGED <<chandle, svars, gvars>>
  PROVE  TablesInv'
<1> USE DEF TablesInv, svars, gvars
<1>1. CASE cnum[c] > 0
  <2>1. UNCHANGED <<cactive, cstart, cnum>>
    BY <1>1 DEF RemoveContext
  <2>2. TypeTables' /\ HandlesDrawn' /\ HandlesUnique' /\ ListsSound' /\ TappFollowsSession'
    BY <2>1 DEF TypeTables, HandlesDrawn, HandlesUnique, ListsSound, FreeSlotsEmpty, StartsFirst, SessionsOwned, NextLinks, PrevLinks, TappFollowsSession, Members
  <2>3. CountersMatchTables'
    <3>1. \A d \in Ctx : Members(d)' = Members(d)
      BY DEF Members
    <3>2. Cardinality({d \in Ctx : cactive[d]}) \in Nat
      BY TablesFinite, FS_Subset, FS_CardinalityType
    <3> QED
      BY <2>1, <3>1, <3>2 DEF CountersMatchTables, TypeTables
  <2> QED
    BY <2>2, <2>3
<1>2. CASE ~(cnum[c] > 0)
  <2>0. /\ cactive' = [cactive EXCEPT ![c] = FALSE]
        /\ cstart'  = [cstart EXCEPT ![c] = None]
        /\ cnum'    = [cnum EXCEPT ![c] = 0]
    BY <1>2 DEF RemoveContext
  <2>1. Members(c) = {}
    <3>1. cnum[c] = 0
      BY <1>2 DEF TypeTables
    <3> QED
      BY <3>1, MembersFinite, FS_EmptySet DEF CountersMatchTables
  <2>2. TypeTables'
    BY <2>0 DEF TypeTables
  <2>3. HandlesDrawn' /\ HandlesUnique' /\ TappFollowsSession'
    BY <2>0 DEF TypeTables, HandlesDrawn, HandlesUnique, TappFollowsSession
  <2>4. \A d \in Ctx : Members(d)' = Members(d)
    BY DEF Members
  <2>5. ListsSound'
    BY <2>0, <2>1, <2>4 DEF ListsSound, FreeSlotsEmpty, StartsFirst, SessionsOwned, NextLinks, PrevLinks, TypeTables, Members
  <2>6. CountersMatchTables'
    <3>1. {d \in Ctx : cactive'[d]} = {d \in Ctx : cactive[d]} \ {c}
      BY <2>0 DEF TypeTables
    <3>2. /\ IsFiniteSet({d \in Ctx : cactive[d]})
          /\ c \in {d \in Ctx : cactive[d]}
          /\ Cardinality({d \in Ctx : cactive[d]}) \in Nat
      BY TablesFinite, FS_Subset, FS_CardinalityType
    <3>3. /\ Cardinality({d \in Ctx : cactive'[d]}) = Cardinality({d \in Ctx : cactive[d]}) - 1
          /\ Cardinality({d \in Ctx : cactive'[d]}) \in Nat
      BY <3>1, <3>2, FS_RemoveElement, FS_CardinalityType
    <3> QED
      BY <2>0, <2>4, <3>2, <3>3 DEF CountersMatchTables, TypeTables
  <2> QED
    BY <2>2, <2>3, <2>5, <2>6
<1> QED
  BY <1>1, <1>2

\* open_session_nw takes a free slot and links it behind the last session of
\* the context; out is what became of the TApp.
LEMMA OpenSessionKeeps ==
  ASSUME TablesInv, NEW c \in Ctx, cactive[c], NEW s \in Sess, ~sactive[s],
         NEW out \in LoadOutcome,
         sactive' = [sactive EXCEPT ![s] = TRUE],
         shandle' = [shandle EXCEPT ![s] = gen + 1],
         owner' = [owner EXCEPT ![s] = chandle[c]],
         tapp' = [tapp EXCEPT ![s] = out.tapp],
         AppendSession(c, s),
         cnum' = [cnum EXCEPT ![c] = @ + 1], numS' = numS + 1, gen' = gen + 1,
         givenS' = IF out.status = "SUCCESS" THEN givenS \cup {gen + 1} ELSE givenS,
         UNCHANGED <<cactive, chandle, numC, givenC>>
  PROVE  TablesInv'
<1> USE DEF TablesInv
<1>0. /\ out.tapp \in {"none", "loaded", "up"}
      /\ out.status = "SUCCESS" => out.tapp = "up"
  BY DEF LoadOutcome
<1>1. TypeTables'
  BY <1>0 DEF TypeTables, AppendSession, None
<1>2. HandlesDrawn'
  BY DEF TypeTables, HandlesDrawn, None
<1>3. HandlesUnique'
  BY DEF TypeTables, HandlesDrawn, HandlesUnique, None
<1>4. \A d \in Ctx : d # c /\ cactive[d] => chandle[d] # chandle[c]
  BY DEF HandlesDrawn, HandlesUnique
<1>5. s \notin Members(c) /\ Members(c)' = Members(c) \cup {s}
  BY DEF Members, TypeTables
<1>6. \A d \in Ctx : d # c /\ cactive[d] => Members(d)' = Members(d)
  BY <1>4 DEF Members, TypeTables
<1>7. ListsSound'
  <2>0. \A u \in Sess : /\ sactive'[u] <=> (u = s \/ sactive[u])
                        /\ owner'[u] = IF u = s THEN chandle[c] ELSE owner[u]
                        /\ shandle'[u] = IF u = s THEN gen + 1 ELSE shandle[u]
                        /\ shandle[u] < gen + 1
                        /\ snext[u] # s /\ sprev[u] # s
    <3>1. \A u \in Sess : snext[u] # s /\ sprev[u] # s
      BY NullIsNoSlot DEF TypeTables, ListsSound, FreeSlotsEmpty, NextLinks, PrevLinks
    <3>2. \A u \in Sess : shandle[u] < gen + 1
      BY DEF TypeTables, HandlesDrawn
    <3> QED
      BY <3>1, <3>2 DEF TypeTables
  <2>1. CASE cstart[c] = None
    <3>1. /\ cstart' = [cstart EXCEPT ![c] = s]
          /\ snext' = [snext EXCEPT ![s] = None]
          /\ sprev' = [sprev EXCEPT ![s] = None]
      BY <2>1 DEF AppendSession
    <3>2. FreeSlotsEmpty'
      BY <3>1 DEF ListsSound, FreeSlotsEmpty, TypeTables
    <3>3. StartsFirst'
      BY <1>5, <1>6, <2>1, <3>1 DEF ListsSound, StartsFirst, FreeSlotsEmpty, TypeTables
    <3>4. SessionsOwned'
      <4> SUFFICES ASSUME NEW u \in Sess, sactive'[u]
                   PROVE  \E d \in Ctx : /\ cactive[d]
                                         /\ owner'[u] = chandle[d]
                                         /\ sprev'[u] = None => cstart'[d] = u
        BY DEF SessionsOwned
      <4>1. CASE u = s
        BY <2>0, <3>1, <4>1 DEF TypeTables
      <4>2. CASE u # s
        <5>1. PICK d \in Ctx : /\ cactive[d]
                               /\ owner[u] = chandle[d]
                               /\ sprev[u] = None => cstart[d] = u
          BY <2>0, <4>2 DEF ListsSound, SessionsOwned
        <5>2. sprev'[u] = None => cstart'[d] = u
          BY NullIsNoSlot, <2>1, <3>1, <4>2, <5>1 DEF TypeTables
        <5> QED
          BY <2>0, <4>2, <5>1, <5>2
      <4> QED
        BY <4>1, <4>2
    <3>5. NextLinks'
      BY <2>0, <3>1 DEF ListsSound, NextLinks, TypeTables
    <3>6. PrevLinks'
      BY <2>0, <3>1 DEF ListsSound, PrevLinks, TypeTables
    <3> QED
      BY <3>2, <3>3, <3>4, <3>5, <3>6 DEF ListsSound
  <2>2. CASE cstart[c] # None
    <3>1. PICK t \in Sess : /\ Attached(c, t)
                            /\ snext[t] = None
                            /\ snext' = [snext EXCEPT ![s] = None, ![t] = s]
                            /\ sprev' = [sprev EXCEPT ![s] = t]
                            /\ cstart' = cstart
      BY <2>2 DEF AppendSession
    <3>2. t \in Members(c)
      BY <3>1, AttachedIsMember
    <3>3. t # s /\ sactive[t] /\ owner[t] = chandle[c] /\ t # None /\ s # None
      BY NullIsNoSlot, <3>2 DEF Members
    <3>4. \A u \in Sess : sprev[u] # t
      BY NullIsNoSlot, <3>1 DEF ListsSound, PrevLinks, TypeTables
    <3>5. FreeSlotsEmpty'
      BY <3>1, <3>3 DEF ListsSound, FreeSlotsEmpty, TypeTables
    <3>6. StartsFirst'
      <4>1. \A d \in Ctx : cstart[d] # None => sactive[cstart[d]] /\ sprev'[cstart[d]] = None
        BY <3>1 DEF ListsSound, StartsFirst, Members, TypeTables
      <4> QED
        BY <1>5, <1>6, <3>1, <4>1 DEF ListsSound, StartsFirst, FreeSlotsEmpty
    <3>7. SessionsOwned'
      <4> SUFFICES ASSUME NEW u \in Sess, sactive'[u]
                   PROVE  \E d \in Ctx : /\ cactive[d]
                                         /\ owner'[u] = chandle[d]
                                         /\ sprev'[u] = None => cstart[d] = u
        BY <3>1 DEF SessionsOwned
      <4>1. CASE u = s
        BY <2>0, <3>1, <3>3, <4>1 DEF TypeTables
      <4>2. CASE u # s
        <5>1. PICK d \in Ctx : /\ cactive[d]
                               /\ owner[u] = chandle[d]
                               /\ sprev[u] = None => cstart[d] = u
          BY <2>0, <4>2 DEF ListsSound, SessionsOwned
        <5>2. sprev'[u] = sprev[u]
          BY <3>1, <4>2 DEF TypeTables
        <5> QED
          BY <2>0, <4>2, <5>1, <5>2
      <4> QED
        BY <4>1, <4>2
    <3>8. NextLinks'
      <4> SUFFICES ASSUME NEW u \in Sess, snext'[u] # None
                   PROVE  /\ sactive'[snext'[u]]
                          /\ owner'[snext'[u]] = owner'[u]
                          /\ sprev'[snext'[u]] = u
                          /\ shandle'[u] < shandle'[snext'[u]]
        BY DEF NextLinks
      <4>1. CASE u = t
        <5>1. snext'[u] = s /\ sprev'[s] = t
          BY <3>1, <3>3, <4>1 DEF TypeTables
        <5>2. /\ sactive'[s] /\ owner'[s] = owner'[t] /\ shandle'[t] < shandle'[s]
          BY <2>0, <3>3
        <5> QED
          BY <4>1, <5>1, <5>2
      <4>2. CASE u # t
        <5>1. u # s /\ snext'[u] = snext[u] /\ snext[u] \in Sess /\ snext[u] # s
          BY <2>0, <3>1, <4>2 DEF TypeTables
        <5>2. sprev'[snext[u]] = sprev[snext[u]]
          BY <3>1, <5>1 DEF TypeTables
        <5> QED
          BY <2>0, <5>1, <5>2, NullIsNoSlot DEF ListsSound, NextLinks
      <4> QED
        BY <4>1, <4>2
    <3>9. PrevLinks'
      BY <2>0, <3>1, <3>3, <3>4 DEF ListsSound, PrevLinks, TypeTables
    <3> QED
      BY <3>5, <3>6, <3>7, <3>8, <3>9 DEF ListsSound
  <2> QED
    BY <2>1, <2>2
<1>8. CountersMatchTables'
  <2>1. Cardinality(Members(c)') = Cardinality(Members(c)) + 1
    BY <1>5, MembersFinite, FS_AddElement
  <2>2. \A d \in Ctx : cactive'[d] => cnum'[d] = Cardinality(Members(d)')
    BY <2>1, <1>6 DEF CountersMatchTables, TypeTables
  <2>3. {t \in Sess : sactive'[t]} = {t \in Sess : sactive[t]} \cup {s}
    BY DEF TypeTables
  <2>4. IsFiniteSet({t \in Sess : sactive[t]}) /\ s \notin {t \in Sess : sactive[t]}
    BY TablesFinite, FS_Subset
  <2>5. Cardinality({t \in Sess : sactive'[t]}) = Cardinality({t \in Sess : sactive[t]}) + 1
    BY <2>3, <2>4, FS_AddElement
  <2> QED
    BY <2>2, <2>5 DEF CountersMatchTables
<1>9. TappFollowsSession'
  <2>1. gen + 1 \notin givenS
    BY DEF HandlesDrawn, TypeTables
  <2>2. \A t \in Sess : t # s => shandle'[t] = shandle[t] /\ shandle[t] # gen + 1
    BY DEF HandlesDrawn, TypeTables
  <2> QED
    BY <1>0, <2>1, <2>2 DEF TappFollowsSession, TypeTables
<1> QED
  BY <1>1, <1>2, <1>3, <1>7, <1>8, <1>9

\* remove_session unlinks a session of the context from its list.
LEMMA RemoveSessionKeeps ==
  ASSUME TablesInv, NEW c \in Ctx, cactive[c], NEW s \in Sess, s \in Members(c),
         RemoveSession(c, s),
         tapp' = [tapp EXCEPT ![s] = "none"],
         UNCHANGED <<cactive, chandle, numC, shandle, owner, gvars>>
  PROVE  TablesInv'
<1> USE DEF TablesInv, gvars
<1>1. sactive' = [sactive EXCEPT ![s] = FALSE] /\ sactive[s] /\ owner[s] = chandle[c]
  BY DEF RemoveSession, Members
<1>2. cnum[c] > 0 /\ numS > 0
  <2>1. Cardinality(Members(c)) # 0
    BY MembersFinite, FS_EmptySet
  <2>2. IsFiniteSet({t \in Sess : sactive[t]}) /\ s \in {t \in Sess : sactive[t]}
    BY <1>1, TablesFinite, FS_Subset
  <2>3. Cardinality({t \in Sess : sactive[t]}) # 0
    BY <2>2, FS_EmptySet
  <2> QED
    BY <2>1, <2>3 DEF CountersMatchTables, TypeTables
<1>3. TypeTables'
  BY <1>2 DEF TypeTables, RemoveSession, UnlinkSession
<1>4. HandlesDrawn' /\ HandlesUnique'
  BY <1>1 DEF TypeTables, HandlesDrawn, HandlesUnique
<1>5. \A d \in Ctx : d # c /\ cactive[d] => chandle[d] # chandle[c]
  BY DEF HandlesDrawn, HandlesUnique
<1>6. Members(c)' = Members(c) \ {s}
  BY <1>1 DEF Members, TypeTables
<1>7. \A d \in Ctx : d # c /\ cactive[d] => Members(d)' = Members(d)
  BY <1>1, <1>5 DEF Members, TypeTables
<1>8. ListsSound'
  <2>0. /\ \A u \in Sess : sactive'[u] <=> (u # s /\ sactive[u])
        /\ cnum' = [cnum EXCEPT ![c] = @ - 1]
        /\ s # None
    BY NullIsNoSlot, <1>1 DEF RemoveSession, TypeTables
  <2>1. CASE cstart[c] = s
    <3>1. /\ cstart' = [cstart EXCEPT ![c] = snext[s]]
          /\ snext'  = [snext EXCEPT ![s] = None]
          /\ sprev'  = [t \in Sess |->
                         IF t = s \/ t = snext[s] THEN None ELSE sprev[t]]
      BY <2>1 DEF RemoveSession, UnlinkSession
    <3>2. /\ sprev[s] = None
          /\ \A u \in Sess : snext[u] # s
          /\ snext[s] # None => snext[s] \in Members(c) \ {s}
      <4>1. sprev[s] = None
        BY <2>0, <2>1 DEF ListsSound, StartsFirst
      <4>2. \A u \in Sess : snext[u] # s
        BY <2>0, <4>1, NullIsNoSlot DEF ListsSound, NextLinks
      <4>3. snext[s] # None => snext[s] \in Members(c) \ {s}
        BY <1>1, <4>2 DEF ListsSound, NextLinks, TypeTables, Members
      <4> QED
        BY <4>1, <4>2, <4>3
    <3>3. FreeSlotsEmpty'
      BY <2>0, <3>1 DEF ListsSound, FreeSlotsEmpty, TypeTables
    <3>4. StartsFirst'
      <4>1. \A d \in Ctx : d # c /\ cstart[d] # None => cstart[d] # s
        BY <1>1, <1>5 DEF ListsSound, StartsFirst, FreeSlotsEmpty, Members
      <4> QED
        BY <1>6, <1>7, <3>1, <3>2, <4>1 DEF ListsSound, StartsFirst, FreeSlotsEmpty, TypeTables
    <3>5. SessionsOwned'
      <4> SUFFICES ASSUME NEW u \in Sess, u # s, sactive[u]
                   PROVE  \E d \in Ctx : /\ cactive[d]
                                         /\ owner[u] = chandle[d]
                                         /\ sprev'[u] = None => cstart'[d] = u
        BY <2>0 DEF SessionsOwned
      <4>1. CASE u = snext[s]
        BY NullIsNoSlot, <1>1, <2>0, <3>1, <4>1 DEF ListsSound, NextLinks, TypeTables
      <4>2. CASE u # snext[s]
        <5>1. PICK d \in Ctx : /\ cactive[d]
                               /\ owner[u] = chandle[d]
                               /\ sprev[u] = None => cstart[d] = u
          BY DEF ListsSound, SessionsOwned
        <5>2. sprev'[u] = sprev[u]
          BY <3>1, <4>2
        <5>3. cstart[d] = u => cstart'[d] = u
          BY <2>1, <3>1 DEF TypeTables
        <5> QED
          BY <5>1, <5>2, <5>3
      <4> QED
        BY <4>1, <4>2
    <3>6. NextLinks'
      BY <2>0, <3>1, <3>2 DEF ListsSound, NextLinks, TypeTables
    <3>7. PrevLinks'
      BY <2>0, <3>1, <3>2 DEF ListsSound, PrevLinks, TypeTables
    <3> QED
      BY <3>3, <3>4, <3>5, <3>6, <3>7 DEF ListsSound
  <2>2. CASE cstart[c] # s
    <3>1. /\ cstart' = cstart
          /\ snext'  = [t \in Sess |-> IF t = s THEN None
                                       ELSE IF t = sprev[s] THEN snext[s]
                                       ELSE snext[t]]
          /\ sprev'  = [t \in Sess |-> IF t = s THEN None
                                       ELSE IF t = snext[s] THEN sprev[s]
                                       ELSE sprev[t]]
      BY <2>2 DEF RemoveSession, UnlinkSession
    <3>2. sprev[s] \in Sess
      BY <1>1, <1>5, <2>2 DEF ListsSound, SessionsOwned, TypeTables
    <3>3. /\ sactive[sprev[s]]
          /\ snext[sprev[s]] = s
          /\ owner[sprev[s]] = owner[s]
          /\ shandle[sprev[s]] < shandle[s]
          /\ sprev[s] # s
          /\ sprev[s] # None
      BY NullIsNoSlot, <2>0, <3>2 DEF ListsSound, FreeSlotsEmpty, NextLinks, PrevLinks, TypeTables
    <3>4. FreeSlotsEmpty'
      BY <2>0, <3>1, <3>3, NullIsNoSlot DEF ListsSound, FreeSlotsEmpty, NextLinks, TypeTables
    <3>5. StartsFirst'
      <4>1. \A d \in Ctx : cstart[d] # None => cstart[d] # s /\ cstart[d] # snext[s]
        BY <1>1, <1>5, <2>0, <2>2 DEF ListsSound, StartsFirst, FreeSlotsEmpty, NextLinks, Members, TypeTables
      <4> QED
        BY <1>6, <1>7, <3>1, <4>1 DEF ListsSound, StartsFirst, FreeSlotsEmpty, TypeTables
    <3>6. SessionsOwned'
      <4> SUFFICES ASSUME NEW u \in Sess, u # s, sactive[u]
                   PROVE  \E d \in Ctx : /\ cactive[d]
                                         /\ owner[u] = chandle[d]
                                         /\ sprev'[u] = None => cstart[d] = u
        BY <2>0, <3>1 DEF SessionsOwned
      <4>1. sprev'[u] = None => sprev[u] = None
        BY <3>1, <3>3
      <4> QED
        BY <4>1 DEF ListsSound, SessionsOwned
    <3>7. NextLinks'
      <4> SUFFICES ASSUME NEW u \in Sess, snext'[u] # None
                   PROVE  /\ sactive'[snext'[u]]
                          /\ owner[snext'[u]] = owner[u]
                          /\ sprev'[snext'[u]] = u
                          /\ shandle[u] < shandle[snext'[u]]
        BY DEF NextLinks
      <4>1. u # s
        BY <3>1
      <4>2. CASE u = sprev[s]
        BY <2>0, <3>1, <3>2, <3>3, <4>1, <4>2 DEF ListsSound, NextLinks, TypeTables
      <4>3. CASE u # sprev[s]
        <5>1. snext'[u] = snext[u] /\ snext[u] \in Sess
          BY <3>1, <4>1, <4>3 DEF TypeTables
        <5>2. snext[u] # s /\ snext[u] # snext[s]
          BY NullIsNoSlot, <2>0, <4>1, <4>3, <5>1 DEF ListsSound, NextLinks, TypeTables
        <5> QED
          BY NullIsNoSlot, <2>0, <3>1, <5>1, <5>2 DEF ListsSound, NextLinks
      <4> QED
        BY <4>2, <4>3
    <3>8. PrevLinks'
      <4> SUFFICES ASSUME NEW u \in Sess, sprev'[u] # None
                   PROVE  snext'[sprev'[u]] = u
        BY DEF PrevLinks
      <4>1. u # s
        BY <3>1
      <4>2. CASE u = snext[s]
        BY <3>1, <3>2, <3>3, <4>1, <4>2 DEF TypeTables
      <4>3. CASE u # snext[s]
        <5>1. sprev'[u] = sprev[u] /\ sprev[u] \in Sess
          BY <3>1, <4>1, <4>3 DEF TypeTables
        <5>2. sprev[u] # s /\ sprev[u] # sprev[s]
          BY NullIsNoSlot, <2>0, <3>3, <4>1, <4>3, <5>1 DEF ListsSound, PrevLinks
        <5> QED
          BY NullIsNoSlot, <3>1, <5>1, <5>2 DEF ListsSound, PrevLinks
      <4> QED
        BY <4>2, <4>3
    <3> QED
      BY <3>4, <3>5, <3>6, <3>7, <3>8 DEF ListsSound
  <2> QED
    BY <2>1, <2>2
<1>9. CountersMatchTables'
  <2>1. Cardinality(Members(c)') = Cardinality(Members(c)) - 1
    BY <1>6, MembersFinite, FS_RemoveElement
  <2>2. cnum' = [cnum EXCEPT ![c] = @ - 1] /\ numS' = numS - 1
    BY DEF RemoveSession, UnlinkSession
  <2>3. \A d \in Ctx : cactive'[d] => cnum'[d] = Cardinality(Members(d)')
    BY <2>1, <2>2, <1>7 DEF CountersMatchTables, TypeTables
  <2>4. {t \in Sess : sactive'[t]} = {t \in Sess : sactive[t]} \ {s}
    BY <1>1 DEF TypeTables
  <2>5. IsFiniteSet({t \in Sess : sactive[t]}) /\ s \in {t \in Sess : sactive[t]}
    BY <1>1, TablesFinite, FS_Subset
  <2>6. Cardinality({t \in Sess : sactive'[t]}) = Cardinality({t \in Sess : sactive[t]}) - 1
    BY <2>4, <2>5, FS_RemoveElement
  <2> QED
    BY <2>2, <2>3, <2>6 DEF CountersMatchTables
<1>10. TappFollowsSession'
  BY <1>1 DEF TappFollowsSession, TypeTables
<1> QED
  BY <1>3, <1>4, <1>8, <1>9, <1>10

-----------------------------------------------------------------------------
(* The region list under the requests that change it.                      *)

\* The walk over the region list meets allocated regions only.
LEMMA MAttachedIsLive ==
  ASSUME TypeMemory, MemoryLinks, srv = "running", NEW m \in Region, MAttached(m)
  PROVE  m \in mlive
BY DEF MemoryLinks, RegionLinks, TypeMemory, MAttached

\* Only finitely many regions are allocated.
LEMMA LiveRegionsFinite ==
  ASSUME TypeMemory
  PROVE  IsFiniteSet(mlive) /\ Cardinality(mlive) \in Nat
<1>1. IsFiniteSet(Region)
  BY BoundsAssumption, FS_Interval DEF Region
<1> QED
  BY <1>1, FS_Subset, FS_CardinalityType DEF TypeMemory

\* register_memory_nw links a new region behind the last one.
LEMMA RegisterMemoryKeeps ==
  ASSUME TypeMemory, MemoryLinks, NEW n, n = mgen + 1,
         srv = "running", mgen < MaxRegions,
         \/ mhead = None /\ mhead' = n /\ UNCHANGED <<mnext, mprev>>
         \/ /\ mhead # None
            /\ \E t \in Region : /\ MAttached(t) /\ mnext[t] = None
                                 /\ mnext' = [mnext EXCEPT ![t] = n]
                                 /\ mprev' = [mprev EXCEPT ![n] = t]
            /\ UNCHANGED mhead,
         mgen' = n, mlive' = mlive \cup {n}, mcount' = mcount + 1
  PROVE  TypeMemory' /\ MemoryLinks'
<1>1. /\ n \in Region /\ n \notin mlive /\ n # None /\ n > mgen
      /\ \A m \in mlive : m \in Region /\ m < n
  BY BoundsAssumption DEF TypeMemory, MemoryLinks, Region, None
<1>2. mnext[n] = None /\ mprev[n] = None
  BY <1>1 DEF MemoryLinks
<1>3. TypeMemory'
  BY <1>1, BoundsAssumption DEF TypeMemory
<1>4. mlive' \subseteq 1..mgen'
  BY DEF MemoryLinks, TypeMemory
<1>5. mcount' = Cardinality(mlive')
  BY <1>1, LiveRegionsFinite, FS_AddElement DEF MemoryLinks
<1>6. CASE mhead = None
  <2>1. mhead' = n /\ mnext' = mnext /\ mprev' = mprev
    BY <1>6
  <2>2. \A m \in mlive : mprev[m] # None
    BY <1>6, NullIsNoSlot DEF MemoryLinks, RegionLinks, TypeMemory
  <2>3. \A m \in mlive' : RegionLinks(m)'
    BY <1>2, <2>1, <2>2 DEF MemoryLinks, RegionLinks
  <2> QED
    BY <1>2, <1>3, <1>4, <1>5, <2>1, <2>3 DEF MemoryLinks, TypeMemory, Region
<1>7. CASE mhead # None
  <2>1. PICK t \in Region : /\ MAttached(t) /\ mnext[t] = None
                            /\ mnext' = [mnext EXCEPT ![t] = n]
                            /\ mprev' = [mprev EXCEPT ![n] = t]
                            /\ mhead' = mhead
    BY <1>7
  <2>2. t \in mlive /\ t # n /\ t < n
    BY <1>1, <2>1, MAttachedIsLive
  <2>3. \A m \in mlive' : RegionLinks(m)'
    <3> SUFFICES ASSUME NEW m \in mlive' PROVE RegionLinks(m)'
      OBVIOUS
    <3>1. CASE m = n
      <4>1. mprev'[n] = t /\ mnext'[n] = None /\ mnext'[t] = n
        BY <1>1, <1>2, <2>1, <2>2 DEF TypeMemory
      <4> QED
        BY <2>2, <3>1, <4>1, NullIsNoSlot DEF RegionLinks
    <3>2. CASE m = t
      <4>1. mprev'[t] = mprev[t] /\ mnext'[t] = n /\ mprev'[n] = t
        BY <1>1, <2>1, <2>2 DEF TypeMemory
      <4>2. mprev[t] # None => mprev[t] \in mlive /\ mnext'[mprev[t]] = t
        <5>1. mprev[t] # None => mprev[t] \in mlive /\ mnext[mprev[t]] = t /\ mprev[t] # t
          BY <2>1, <2>2, NullIsNoSlot DEF MemoryLinks, RegionLinks
        <5> QED
          BY <2>1, <5>1 DEF TypeMemory
      <4> QED
        BY <2>1, <2>2, <3>2, <4>1, <4>2 DEF RegionLinks, MemoryLinks
    <3>3. CASE m # n /\ m # t
      <4>1. m \in mlive /\ m \in Region
        BY <1>1, <3>3
      <4>2. mprev'[m] = mprev[m] /\ mnext'[m] = mnext[m]
        BY <2>1, <3>3, <4>1 DEF TypeMemory
      <4>3. mprev[m] # None => mnext'[mprev[m]] = mnext[mprev[m]]
        BY <2>1, <4>1, NullIsNoSlot DEF MemoryLinks, RegionLinks, TypeMemory
      <4>4. mnext[m] # None => mprev'[mnext[m]] = mprev[mnext[m]]
        BY <1>1, <2>1, <4>1 DEF MemoryLinks, RegionLinks, TypeMemory
      <4> QED
        BY <2>1, <4>1, <4>2, <4>3, <4>4 DEF MemoryLinks, RegionLinks
    <3> QED
      BY <3>1, <3>2, <3>3
  <2>4. mhead' \in mlive' /\ mprev'[mhead'] = None
    BY <1>1, <1>7, <2>1 DEF MemoryLinks, TypeMemory
  <2>5. \A m \in Region : m > mgen' => mnext'[m] = None /\ mprev'[m] = None
    BY <1>1, <2>1, <2>2 DEF MemoryLinks, TypeMemory, Region
  <2> QED
    BY <1>3, <1>4, <1>5, <2>3, <2>4, <2>5 DEF MemoryLinks
<1> QED
  BY <1>6, <1>7

\* unregister_memory_nw unlinks a region before it frees it; the loop ends when
\* freeing fails.
LEMMA UnregisterMemoryKeeps ==
  ASSUME TypeMemory, MemoryLinks, NEW m \in Region, MAttached(m), srv = "running",
         NEW ok \in BOOLEAN, ok \/ srv' # "running",
         \/ /\ mhead = m /\ mhead' = mnext[m] /\ UNCHANGED mnext
            /\ mprev' = [t \in Region |-> IF t = mnext[m] THEN None ELSE mprev[t]]
         \/ /\ mhead # m /\ UNCHANGED mhead
            /\ mnext' = [t \in Region |-> IF t = mprev[m] THEN mnext[m] ELSE mnext[t]]
            /\ mprev' = [t \in Region |-> IF t = mnext[m] THEN mprev[m] ELSE mprev[t]],
         mcount' = mcount - 1, mlive' = IF ok THEN mlive \ {m} ELSE mlive, mgen' = mgen
  PROVE  TypeMemory' /\ MemoryLinks'
<1>1. m \in mlive
  BY MAttachedIsLive
<1>2. mcount > 0
  BY <1>1, LiveRegionsFinite, FS_EmptySet DEF MemoryLinks
<1>3. TypeMemory'
  BY <1>2 DEF TypeMemory
<1>4. CASE srv' # "running"
  BY <1>3, <1>4 DEF MemoryLinks
<1>5. CASE ok
  <2>1. mlive' = mlive \ {m}
    BY <1>5
  <2>2. mlive' \subseteq 1..mgen' /\ mcount' = Cardinality(mlive')
    BY <1>1, <2>1, LiveRegionsFinite, FS_RemoveElement DEF MemoryLinks
  <2>3. /\ \A t \in mlive : RegionLinks(t) /\ t \in Region
        /\ m # None
        /\ \A t \in mlive : mnext[t] # t /\ mprev[t] # t
    <3>1. \A t \in mlive : RegionLinks(t) /\ t \in Region
      BY DEF MemoryLinks, TypeMemory
    <3>2. \A t \in mlive : mnext[t] # t
      BY <3>1, BoundsAssumption, NullIsNoSlot DEF RegionLinks, Region
    <3> QED
      BY <1>1, <3>1, <3>2, NullIsNoSlot DEF RegionLinks
  <2>4. CASE mhead = m
    <3>1. /\ mhead' = mnext[m] /\ mnext' = mnext
          /\ mprev' = [t \in Region |-> IF t = mnext[m] THEN None ELSE mprev[t]]
      BY <2>4
    <3>2. mprev[m] = None /\ \A t \in mlive : mnext[t] # m
      <4>1. mprev[m] = None
        BY <2>3, <2>4 DEF MemoryLinks
      <4> QED
        BY <2>3, <4>1, NullIsNoSlot DEF RegionLinks
    <3>3. \A t \in mlive' : RegionLinks(t)'
      <4> SUFFICES ASSUME NEW t \in mlive, t # m PROVE RegionLinks(t)'
        BY <2>1
      <4>1. CASE t = mnext[m]
        <5>1. mprev'[t] = None
          BY <2>3, <3>1, <4>1
        <5>2. mnext[t] # None => mnext[t] \in mlive \ {m} /\ mprev'[mnext[t]] = t /\ t < mnext[t]
          BY <2>3, <3>1, <3>2, <4>1 DEF RegionLinks
        <5> QED
          BY <2>1, <3>1, <4>1, <5>1, <5>2 DEF RegionLinks
      <4>2. CASE t # mnext[m]
        <5>1. mprev'[t] = mprev[t] /\ mprev[t] # None /\ mprev[t] # m
          BY <2>3, <2>4, <3>1, <4>2, <1>1 DEF RegionLinks
        <5>2. mnext[t] # None => mnext[t] \in mlive \ {m} /\ mprev'[mnext[t]] = t /\ t < mnext[t]
          BY <1>1, <2>3, <3>1, <3>2 DEF RegionLinks
        <5>3. mprev[t] \in mlive \ {m} /\ mnext[mprev[t]] = t
          BY <2>3, <5>1 DEF RegionLinks
        <5> QED
          BY <2>1, <3>1, <5>1, <5>2, <5>3 DEF RegionLinks
      <4> QED
        BY <4>1, <4>2
    <3>4. mhead' # None => mhead' \in mlive' /\ mprev'[mhead'] = None
      BY <1>1, <2>1, <2>3, <3>1 DEF RegionLinks
    <3>5. \A t \in Region : t > mgen' => mnext'[t] = None /\ mprev'[t] = None
      BY <3>1 DEF MemoryLinks
    <3> QED
      BY <1>3, <2>2, <3>3, <3>4, <3>5 DEF MemoryLinks
  <2>5. CASE mhead # m
    <3>1. /\ mhead' = mhead
          /\ mnext' = [t \in Region |-> IF t = mprev[m] THEN mnext[m] ELSE mnext[t]]
          /\ mprev' = [t \in Region |-> IF t = mnext[m] THEN mprev[m] ELSE mprev[t]]
      BY <2>5
    <3>2. /\ mprev[m] \in mlive \ {m} /\ mprev[m] \in Region /\ mprev[m] # None
          /\ mnext[mprev[m]] = m /\ mprev[m] < m
      BY <1>1, <2>3, <2>5, NullIsNoSlot DEF RegionLinks
    <3>3. mnext[m] # None => mnext[m] \in mlive \ {m} /\ mprev[mnext[m]] = m /\ m < mnext[m]
      BY <1>1, <2>3 DEF RegionLinks
    <3>4. \A t \in mlive' : RegionLinks(t)'
      <4> SUFFICES ASSUME NEW t \in mlive, t # m PROVE RegionLinks(t)'
        BY <2>1
      <4>1. /\ mprev'[t] = None => mhead = t
            /\ mprev'[t] # None => mprev'[t] \in mlive \ {m} /\ mnext'[mprev'[t]] = t
        <5>1. CASE t = mnext[m]
          <6>1. mprev'[t] = mprev[m]
            BY <2>3, <3>1, <5>1
          <6>2. mnext'[mprev[m]] = t
            BY <3>1, <3>2, <5>1
          <6> QED
            BY <3>2, <6>1, <6>2
        <5>2. CASE t # mnext[m]
          <6>1. mprev'[t] = mprev[t]
            BY <2>3, <3>1, <5>2
          <6>2. mprev[t] # None => mprev[t] \in mlive \ {m} /\ mprev[t] # mprev[m]
            BY <2>3, <3>2, <5>2 DEF RegionLinks
          <6>3. mprev[t] # None => mnext'[mprev[t]] = t
            BY <2>3, <3>1, <6>2 DEF RegionLinks
          <6> QED
            BY <2>3, <6>1, <6>2, <6>3 DEF RegionLinks
        <5> QED
          BY <5>1, <5>2
      <4>2. mnext'[t] # None =>
              mnext'[t] \in mlive \ {m} /\ mprev'[mnext'[t]] = t /\ t < mnext'[t]
        <5>1. CASE t = mprev[m]
          <6>1. mnext'[t] = mnext[m]
            BY <3>1, <3>2, <5>1
          <6>2. mnext[m] # None => mprev'[mnext[m]] = t /\ mnext[m] \in Region
            BY <2>3, <3>1, <3>3, <5>1
          <6>3. mnext[m] # None => t < mnext[m]
            BY <3>2, <3>3, <5>1, <2>3, BoundsAssumption DEF Region
          <6> QED
            BY <3>3, <6>1, <6>2, <6>3
        <5>2. CASE t # mprev[m]
          <6>1. mnext'[t] = mnext[t] /\ mnext[t] # m
            BY <2>3, <3>1, <5>2 DEF RegionLinks
          <6>2. mnext[t] # None => mnext[t] # mnext[m] /\ mnext[t] \in mlive
            BY <2>3, <3>3, <1>1 DEF RegionLinks
          <6> QED
            BY <2>3, <3>1, <6>1, <6>2 DEF RegionLinks
        <5> QED
          BY <5>1, <5>2
      <4> QED
        BY <2>1, <3>1, <4>1, <4>2 DEF RegionLinks
    <3>5. mhead' # None => mhead' \in mlive' /\ mprev'[mhead'] = None
      <4>1. mhead # None => mhead \in mlive /\ mhead \in Region /\ mprev[mhead] = None
        BY <2>3 DEF MemoryLinks
      <4>2. mhead # None => mhead # mnext[m]
        BY <3>3, <2>3, <4>1
      <4> QED
        BY <2>1, <2>5, <3>1, <4>1, <4>2
    <3>6. \A t \in Region : t > mgen' => mnext'[t] = None /\ mprev'[t] = None
      <4>1. \A t \in Region : t > mgen => t \notin mlive
        BY BoundsAssumption DEF MemoryLinks, Region, TypeMemory
      <4> QED
        BY <3>1, <3>2, <3>3, <4>1, NullIsNoSlot DEF MemoryLinks
    <3> QED
      BY <1>3, <2>2, <3>4, <3>5, <3>6 DEF MemoryLinks
  <2> QED
    BY <2>4, <2>5
<1> QED
  BY <1>4, <1>5

-----------------------------------------------------------------------------
(* The inductive invariant.                                                *)

\* What is said of the tables stays true of tables that do not change.
LEMMA TablesSame ==
  ASSUME TablesInv, UNCHANGED tvars
  PROVE  TablesInv'
<1> USE DEF tvars, cvars, svars, gvars
<1>1. TypeTables' /\ HandlesDrawn' /\ HandlesUnique' /\ TappFollowsSession'
  BY DEF TablesInv, TypeTables, HandlesDrawn, HandlesUnique, TappFollowsSession
<1>2. ListsSound'
  BY DEF TablesInv, ListsSound, FreeSlotsEmpty, StartsFirst, SessionsOwned,
         NextLinks, PrevLinks, Members
<1>3. CountersMatchTables'
  BY DEF TablesInv, CountersMatchTables, Members
<1> QED
  BY <1>1, <1>2, <1>3 DEF TablesInv

\* And the same of the region list, if the loop did not start again.
LEMMA MemorySame ==
  ASSUME TypeMemory, MemoryLinks, UNCHANGED mvars, srv = "running" \/ srv' = srv
  PROVE  TypeMemory' /\ MemoryLinks'
BY DEF TypeMemory, MemoryLinks, RegionLinks, mvars

\* The types of the last answer and of what became of the loop.
LEMMA EndingTyped ==
  ASSUME NEW cmd \in AllCommands, NEW st \in Status, NEW ch \in Nat, NEW sh \in Nat,
         NEW how \in Server, Reply(cmd, st, ch, sh) \/ Stop(how)
  PROVE  TypeServer'
BY DEF TypeServer, Reply, Stop, Server, Answer, NoAnswer, Status, None

\* A request that only answers, or only ends the loop, keeps the invariant.
LEMMA QuietKeeps ==
  ASSUME IInv, srv = "running",
         NEW cmd \in AllCommands, NEW st \in Status, NEW ch \in Nat, NEW sh \in Nat,
         NEW how \in Server, Refuse(cmd, st, ch, sh) \/ StopAsIs(how)
  PROVE  IInv'
<1>1. TypeServer'
  BY EndingTyped DEF Refuse, StopAsIs
<1>2. UNCHANGED tvars /\ UNCHANGED mvars
  BY DEF Refuse, StopAsIs, Unchanged, tvars
<1> QED
  BY <1>1, <1>2, TablesSame, MemorySame DEF IInv

\* The tables sk_swld_tapi_init leaves are sound.
LEMMA InitKeeps == Init => IInv
<1> SUFFICES ASSUME Init PROVE IInv
  OBVIOUS
<1> USE DEF Init
<1>1. TypeServer
  BY DEF TypeServer, Server, NoAnswer, Answer, Status, None
<1>2. TypeTables
  BY DEF TypeTables, None
<1>3. HandlesDrawn /\ HandlesUnique /\ ListsSound /\ TappFollowsSession
  BY DEF HandlesDrawn, HandlesUnique, ListsSound, FreeSlotsEmpty, StartsFirst,
         SessionsOwned, NextLinks, PrevLinks, TappFollowsSession, None
<1>4. CountersMatchTables
  <2>1. {s \in Sess : sactive[s]} = {} /\ {c \in Ctx : cactive[c]} = {}
    OBVIOUS
  <2> QED
    BY SMTT(20), <2>1, FS_EmptySet DEF CountersMatchTables
<1>5. TypeMemory /\ MemoryLinks
  BY BoundsAssumption, FS_EmptySet DEF TypeMemory, MemoryLinks, RegionLinks, None
<1> QED
  BY <1>1, <1>2, <1>3, <1>4, <1>5 DEF IInv, TablesInv

\* Every request keeps the invariant: one step per handler.
LEMMA NextKeeps == IInv /\ [Next]_vars => IInv'
<1> SUFFICES ASSUME IInv, [Next]_vars PROVE IInv'
  OBVIOUS
<1> USE DEF IInv
<1>0. givenC \subseteq Nat /\ givenS \subseteq Nat /\ None \in Nat /\ gen + 1 \in Nat
  BY DEF TablesInv, TypeTables, None
<1>1. ASSUME NEW sameId \in BOOLEAN, OpenContext(sameId) PROVE IInv'
  <2> USE <1>1 DEF OpenContext, NextHandle
  <2>1. srv = "running"
    OBVIOUS
  <2>2. CASE Refuse("open_context", "BAD_CONTEXT_ID", None, None)
             \/ Refuse("open_context", "OPEN_CONTEXT", None, None)
             \/ StopAsIs("assert_slot")
    BY <1>0, <2>1, <2>2, QuietKeeps DEF AllCommands, Status, Server
  <2>3. CASE \E c \in Ctx :
               /\ FirstFree(cactive, Ctx, c)
               /\ cactive' = [cactive EXCEPT ![c] = TRUE]
               /\ chandle' = [chandle EXCEPT ![c] = gen + 1]
               /\ UNCHANGED <<cstart, cnum>>
               /\ gen' = gen + 1
               /\ numC' = numC + 1
               /\ givenC' = givenC \cup {gen + 1}
               /\ Reply("open_context", "SUCCESS", gen + 1, None)
               /\ UNCHANGED <<svars, mvars, givenS>>
    <3>1. TablesInv'
      BY <2>3, OpenContextKeeps DEF FirstFree
    <3>2. TypeServer'
      BY <1>0, <2>3, EndingTyped DEF AllCommands, Status, Server
    <3>3. UNCHANGED mvars
      BY <2>3
    <3> QED
      BY <2>1, <3>1, <3>2, <3>3, MemorySame
  <2> QED
    BY <2>2, <2>3
<1>2. ASSUME NEW ch \in givenC, CloseContext(ch) PROVE IInv'
  <2> USE <1>2 DEF CloseContext
  <2>1. srv = "running" /\ ch \in Nat
    BY <1>0
  <2>2. CASE Refuse("close_context", "CONTEXT_HANDLE_NOT_FOUND", ch, None)
             \/ StopAsIs("assert_active")
    BY <1>0, <2>1, <2>2, QuietKeeps DEF AllCommands, Status, Server
  <2>3. ASSUME NEW c \in Ctx, cactive[c], RemoveContext(c),
               UNCHANGED <<chandle, svars, mvars, gvars>>,
               \/ numC > 0 /\ numC' = numC - 1 /\ Reply("close_context", "SUCCESS", ch, None)
               \/ numC = 0 /\ UNCHANGED numC /\ Stop("assert_count")
        PROVE  IInv'
    <3>1. TablesInv'
      <4>1. (numC > 0 /\ numC' = numC - 1) \/ (numC = 0 /\ numC' = 0)
        BY <2>3
      <4> QED
        BY <2>3, <4>1, RemoveContextKeeps
    <3>2. TypeServer'
      BY <1>0, <2>1, <2>3, EndingTyped DEF AllCommands, Status, Server
    <3> QED
      BY <2>1, <2>3, <3>1, <3>2, MemorySame
  <2> QED
    BY <2>2, <2>3
<1>3. ASSUME NEW ch \in givenC, NEW out \in LoadOutcome, OpenSession(ch, out) PROVE IInv'
  <2> USE <1>3 DEF OpenSession, NextHandle
  <2>1. srv = "running" /\ ch \in Nat /\ out.status \in Status
    BY <1>0 DEF LoadOutcome, Status
  <2>2. CASE Refuse("open_session", "CONTEXT_HANDLE_NOT_FOUND", ch, None)
             \/ StopAsIs("assert_active")
             \/ Refuse("open_session", "OPEN_SESSION", ch, None)
             \/ StopAsIs("fault")
    BY <1>0, <2>1, <2>2, QuietKeeps DEF AllCommands, Status, Server
  <2>3. ASSUME NEW c \in Ctx, FindHandle(chandle, Ctx, ch, c), cactive[c],
               NEW s \in Sess,
               /\ FirstFree(sactive, Sess, s)
               /\ sactive' = [sactive EXCEPT ![s] = TRUE]
               /\ shandle' = [shandle EXCEPT ![s] = gen + 1]
               /\ owner'   = [owner EXCEPT ![s] = ch]
               /\ tapp'    = [tapp EXCEPT ![s] = out.tapp]
               /\ AppendSession(c, s),
               cnum' = [cnum EXCEPT ![c] = @ + 1],
               numS' = numS + 1,
               gen' = gen + 1,
               givenS' = IF out.status = "SUCCESS"
                         THEN givenS \cup {gen + 1} ELSE givenS,
               Reply("open_session", out.status, ch,
                     IF out.status = "SUCCESS" THEN gen + 1 ELSE None),
               UNCHANGED <<cactive, chandle, numC, mvars, givenC>>
        PROVE  IInv'
    <3>1. ch = chandle[c] /\ ~sactive[s]
      BY <2>3 DEF FindHandle, FirstFree
    <3>2. TablesInv'
      BY <2>3, <3>1, OpenSessionKeeps
    <3>3. TypeServer'
      <4>1. (IF out.status = "SUCCESS" THEN gen + 1 ELSE None) \in Nat
        BY <1>0
      <4> QED
        BY <2>1, <2>3, <4>1, EndingTyped DEF AllCommands, Server
    <3> QED
      BY <2>1, <2>3, <3>2, <3>3, MemorySame
  <2> QED
    BY <2>2, <2>3
<1>4. ASSUME NEW cmd \in AllCommands, NEW ch \in givenC, NEW sh \in givenS,
             srv = "running", NotFound(cmd, ch, sh)
      PROVE  IInv'
  <2>1. \/ Refuse(cmd, "CONTEXT_HANDLE_NOT_FOUND", ch, sh)
        \/ Refuse(cmd, "SESSION_HANDLE_NOT_FOUND", ch, sh)
        \/ StopAsIs("assert_active")
        \/ StopAsIs("returned")
    BY <1>4 DEF NotFound
  <2> QED
    BY <1>0, <1>4, <2>1, QuietKeeps DEF Status, Server
<1>5. ASSUME NEW ch \in givenC, NEW sh \in givenS, CloseSession(ch, sh) PROVE IInv'
  <2> USE <1>5 DEF CloseSession
  <2>1. srv = "running" /\ ch \in Nat /\ sh \in Nat
    BY <1>0
  <2>2. CASE NotFound("close_session", ch, sh)
    BY <1>4, <2>1, <2>2 DEF AllCommands
  <2>3. ASSUME NEW c \in Ctx, NEW s \in Sess, Found(ch, sh, c, s), RemoveSession(c, s),
               tapp' = [tapp EXCEPT ![s] = "none"],
               Reply("close_session", "SUCCESS", ch, sh),
               UNCHANGED <<cactive, chandle, numC, shandle, owner, mvars, gvars>>
        PROVE  IInv'
    <3>1. cactive[c] /\ s \in Members(c)
      BY <2>3, AttachedIsMember DEF Found, TablesInv
    <3>2. TablesInv'
      BY <2>3, <3>1, RemoveSessionKeeps
    <3>3. TypeServer'
      BY <2>1, <2>3, EndingTyped DEF AllCommands, Status, Server
    <3> QED
      BY <2>1, <2>3, <3>2, <3>3, MemorySame
  <2> QED
    BY <2>2, <2>3
<1>6. ASSUME NEW ch \in givenC, NEW sh \in givenS,
             NEW st \in {"SUCCESS", "TAPP_CALL", "TAPP_TIMEOUT"}, InvokeCommand(ch, sh, st)
      PROVE  IInv'
  <2>1. srv = "running" /\ st \in Status
    BY <1>6 DEF InvokeCommand, Status
  <2>2. CASE NotFound("invoke", ch, sh)
    BY <1>4, <2>1, <2>2 DEF AllCommands
  <2>3. CASE Refuse("invoke", st, ch, sh)
    BY <1>0, <2>1, <2>3, QuietKeeps DEF AllCommands, Server
  <2> QED
    BY <1>6, <2>2, <2>3 DEF InvokeCommand
<1>7. ASSUME NEW ch \in givenC, NEW ok \in BOOLEAN, RegisterMemory(ch, ok) PROVE IInv'
  <2> USE <1>7 DEF RegisterMemory
  <2>1. srv = "running" /\ ch \in Nat
    BY <1>0
  <2>2. CASE StopAsIs("returned")
    BY <1>0, <2>1, <2>2, QuietKeeps DEF AllCommands, Status, Server
  <2>3. CASE ~StopAsIs("returned")
    <3>1. TypeMemory' /\ MemoryLinks'
      BY <2>3, RegisterMemoryKeeps
    <3>2. TypeServer'
      <4>1. mgen + 1 \in Nat /\ Reply("register", "SUCCESS", ch, mgen + 1)
        BY <2>3, BoundsAssumption DEF TypeMemory
      <4> QED
        BY <2>1, <4>1, EndingTyped DEF AllCommands, Status, Server
    <3>3. TablesInv'
      BY <2>3, TablesSame DEF tvars
    <3> QED
      BY <3>1, <3>2, <3>3
  <2> QED
    BY <2>2, <2>3
<1>8. ASSUME NEW ch \in givenC, NEW m \in 1..mgen, NEW ok \in BOOLEAN,
             UnregisterMemory(ch, m, ok)
      PROVE  IInv'
  <2> USE <1>8 DEF UnregisterMemory, UnlinkRegion
  <2>1. srv = "running" /\ ch \in Nat /\ m \in Region /\ m \in Nat
    BY <1>0, BoundsAssumption DEF TypeMemory, Region
  <2>2. CASE StopAsIs("returned")
    BY <1>0, <2>1, <2>2, QuietKeeps DEF AllCommands, Status, Server
  <2>3. CASE ~StopAsIs("returned")
    <3>1. ok \/ srv' # "running"
      BY <2>3 DEF Stop
    <3>2. TypeMemory' /\ MemoryLinks'
      BY <2>1, <2>3, <3>1, UnregisterMemoryKeeps
    <3>3. TypeServer'
      BY <2>1, <2>3, EndingTyped DEF AllCommands, Status, Server
    <3>4. TablesInv'
      BY <2>3, TablesSame DEF tvars
    <3> QED
      BY <3>2, <3>3, <3>4
  <2> QED
    BY <2>2, <2>3
<1>9. ASSUME Check \/ BadHeader \/ Disconnect PROVE IInv'
  <2>1. /\ srv = "running"
        /\ \/ StopAsIs("fault")
           \/ Refuse("check", "SUCCESS", None, None)
           \/ StopAsIs("returned")
    BY <1>9 DEF Check, BadHeader, Disconnect
  <2> QED
    BY <1>0, <2>1, QuietKeeps DEF AllCommands, Status, Server
<1>10. ASSUME UNCHANGED vars PROVE IInv'
  <2>1. UNCHANGED tvars /\ UNCHANGED mvars /\ srv' = srv /\ resp' = resp
    BY <1>10 DEF vars, tvars
  <2> QED
    BY <2>1, TablesSame, MemorySame DEF TypeServer
<1> QED
  BY <1>1, <1>2, <1>3, <1>5, <1>6, <1>7, <1>8, <1>9, <1>10 DEF Next

\* Every request leaves the tables, the lists, the counters and the region
\* list as every other request expects them.
THEOREM Invariance == Spec => []IInv
BY InitKeeps, NextKeeps, PTL DEF Spec

\* The state of the server keeps its types: no unsigned counter goes below 0.
THEOREM TypeCorrect == Spec => []TypeOK
<1>1. IInv => TypeOK
  BY DEF IInv, TablesInv, TypeOK
<1> QED
  BY <1>1, Invariance, PTL

-----------------------------------------------------------------------------
(* What clients and handlers may count on.                                 *)

\* The links of both tables are the doubly linked lists of the contexts' sessions,
\* whatever the order in which they were opened and closed.
THEOREM ListsCorrect == Spec => []ListsSound
<1>1. IInv => ListsSound
  BY DEF IInv, TablesInv
<1> QED
  BY <1>1, Invariance, PTL

\* The counters the handlers' limits look at agree with the tables, on the ways
\* through the handlers that fail too.
THEOREM CountersCorrect == Spec => []CountersMatchTables
<1>1. IInv => CountersMatchTables
  BY DEF IInv, TablesInv
<1> QED
  BY <1>1, Invariance, PTL

\* A session a client was given has its TApp up until the session ends.
THEOREM TappsCorrect == Spec => []TappFollowsSession
<1>1. IInv => TappFollowsSession
  BY DEF IInv, TablesInv
<1> QED
  BY <1>1, Invariance, PTL

\* A non-empty set of numbers has a least one.
LEMMA LeastNumber ==
  ASSUME NEW T \in SUBSET Nat, T # {}
  PROVE  \E x \in T : \A y \in T : x <= y
<1> DEFINE R == OpToRel(<, Nat)
<1>1. IsWellFoundedOn(R, Nat)
  BY NatLessThanWellFounded
<1>2. PICK x \in T : \A y \in T : <<y, x>> \notin R
  <2> HIDE DEF R
  <2> QED
    BY <1>1, WFMin
<1>3. \A y \in T : ~(y < x)
  BY <1>2 DEF OpToRel
<1> QED
  BY <1>3

\* The walk misses no session of the context: of the sessions it missed, take
\* the one opened first; its predecessor was met, or it is the start itself.
LEMMA MemberIsAttached ==
  ASSUME TablesInv, NEW c \in Ctx, cactive[c], NEW s \in Members(c)
  PROVE  Attached(c, s)
<1> USE DEF TablesInv
<1> SUFFICES ASSUME NEW S \in SUBSET Sess,
                    cstart[c] # None => cstart[c] \in S,
                    \A t \in S : snext[t] # None => snext[t] \in S,
                    s \notin S
             PROVE  FALSE
  BY DEF Attached, Members
<1> DEFINE Missed == Members(c) \ S
<1>1. PICK t \in Missed : \A u \in Missed : shandle[t] <= shandle[u]
  <2>1. s \in Missed /\ \A u \in Missed : shandle[u] \in Nat
    BY DEF Members, TypeTables
  <2> HIDE DEF Missed
  <2>2. {shandle[u] : u \in Missed} \in SUBSET Nat /\ {shandle[u] : u \in Missed} # {}
    BY <2>1
  <2>3. PICK h \in {shandle[u] : u \in Missed} : \A k \in {shandle[u] : u \in Missed} : h <= k
    BY <2>2, LeastNumber
  <2> QED
    BY <2>3
<1>2. t \in Sess /\ sactive[t] /\ owner[t] = chandle[c] /\ t \notin S
  BY DEF Members
<1>3. sprev[t] # None
  <2>1. PICK d \in Ctx : /\ cactive[d] /\ owner[t] = chandle[d]
                         /\ sprev[t] = None => cstart[d] = t
    BY <1>2 DEF ListsSound, SessionsOwned
  <2>2. chandle[c] # None /\ chandle[d] = chandle[c]
    BY <1>2, <2>1 DEF HandlesDrawn
  <2>3. d = c
    BY <2>2 DEF HandlesUnique
  <2> QED
    BY <1>2, <2>1, <2>3, NullIsNoSlot
<1>4. sprev[t] \in Sess /\ snext[sprev[t]] = t
  BY <1>2, <1>3 DEF ListsSound, PrevLinks, TypeTables
<1>5. sprev[t] \in Members(c) /\ shandle[sprev[t]] < shandle[t]
  BY <1>2, <1>4, NullIsNoSlot DEF ListsSound, FreeSlotsEmpty, NextLinks, Members
<1>6. sprev[t] \in S
  BY <1>1, <1>2, <1>5 DEF TypeTables, Members
<1> QED
  BY <1>2, <1>4, <1>6, NullIsNoSlot

\* A live session is never refused to its own context, nor found from another.
THEOREM WalkCorrect == Spec => []WalkFindsMembers
<1>1. IInv => WalkFindsMembers
  BY MemberIsAttached, AttachedIsMember DEF IInv, TablesInv, WalkFindsMembers, Attached, Members
<1> QED
  BY <1>1, Invariance, PTL

\* None of the assertions about counts and lists can fail, whatever clients
\* send.
THEOREM AssertionsCorrect == Spec => []AssertionsHold
<1>1. ASSUME IInv PROVE AssertionsHold
  <2> USE <1>1 DEF IInv, TablesInv
  <2>1. /\ Cardinality({c \in Ctx : cactive[c]}) <= MaxContexts
        /\ Cardinality({c \in Ctx : cactive[c]}) \in Nat
        /\ Cardinality({s \in Sess : sactive[s]}) <= MaxSessions
    BY TablesFinite, FS_Subset, FS_CardinalityType
  <2>2. numC <= MaxContexts /\ numS <= MaxSessions
    BY <2>1, BoundsAssumption DEF CountersMatchTables, TypeTables
  <2>3. \A c \in Ctx : cnum[c] = 0 => cstart[c] = None
    <3>1. \A c \in Ctx : cactive[c] /\ cnum[c] = 0 => Members(c) = {}
      BY MembersFinite, FS_EmptySet DEF CountersMatchTables
    <3> QED
      BY <3>1 DEF ListsSound, FreeSlotsEmpty, StartsFirst
  <2>4. ASSUME NEW c \in Ctx, NEW s \in Sess, cactive[c], Attached(c, s)
        PROVE  cnum[c] > 0 /\ numS > 0
    <3>1. s \in Members(c)
      BY <2>4, AttachedIsMember
    <3>2. cnum[c] # 0
      BY <2>4, <3>1, MembersFinite, FS_EmptySet DEF CountersMatchTables
    <3>3. numS # 0
      <4>1. s \in {t \in Sess : sactive[t]} /\ IsFiniteSet({t \in Sess : sactive[t]})
        BY <3>1, TablesFinite, FS_Subset DEF Members
      <4> QED
        BY <4>1, FS_EmptySet DEF CountersMatchTables
    <3> QED
      BY <3>2, <3>3 DEF TypeTables
  <2>5. ASSUME NEW s \in Sess, ~sactive[s]
        PROVE  numS < MaxSessions /\ \A c \in Ctx : cnum[c] < MaxSessions
    <3>1. ASSUME NEW T \in SUBSET Sess, s \notin T PROVE Cardinality(T) < MaxSessions
      <4>1. /\ IsFiniteSet(T) /\ Cardinality(T) \in Nat /\ Cardinality(T) <= MaxSessions
            /\ Cardinality(T) # MaxSessions
        BY <3>1, TablesFinite, FS_Subset, FS_CardinalityType
      <4> QED
        BY <4>1, BoundsAssumption
    <3>2. numS < MaxSessions
      BY <2>5, <3>1 DEF CountersMatchTables
    <3>3. ASSUME NEW c \in Ctx PROVE cnum[c] < MaxSessions
      <4>1. Members(c) \in SUBSET Sess /\ s \notin Members(c)
        BY <2>5 DEF Members
      <4>2. Cardinality(Members(c)) < MaxSessions
        BY <3>1, <4>1
      <4> QED
        BY <4>2, BoundsAssumption DEF CountersMatchTables, ListsSound, FreeSlotsEmpty, TypeTables
    <3> QED
      BY <3>2, <3>3
  <2> QED
    BY <2>2, <2>3, <2>4, <2>5 DEF AssertionsHold
<1> QED
  BY <1>1, Invariance, PTL

\* While the loop runs, the region list is exactly the regions allocated and
\* not freed.
THEOREM MemoryListCorrect == Spec => []MemoryListSound
<1>1. ASSUME TypeMemory, MemoryLinks, srv = "running", NEW m \in mlive PROVE MAttached(m)
  <2>1. m \in Region
    BY <1>1 DEF TypeMemory
  <2> SUFFICES ASSUME NEW S \in SUBSET Region,
                      mhead # None => mhead \in S,
                      \A t \in S : mnext[t] # None => mnext[t] \in S,
                      m \notin S
               PROVE  FALSE
    BY <2>1 DEF MAttached
  <2>2. mlive \ S \in SUBSET Nat /\ mlive \ S # {}
    BY <1>1, BoundsAssumption DEF TypeMemory, Region
  <2>3. PICK t \in mlive \ S : \A u \in mlive \ S : t <= u
    BY <2>2, LeastNumber
  <2>4. mprev[t] # None
    BY <1>1, <2>3, NullIsNoSlot DEF MemoryLinks, RegionLinks, TypeMemory
  <2>5. mprev[t] \in mlive /\ mnext[mprev[t]] = t
    BY <1>1, <2>3, <2>4 DEF MemoryLinks, RegionLinks
  <2>6. mprev[t] < t
    BY <1>1, <2>3, <2>5, NullIsNoSlot DEF MemoryLinks, RegionLinks, TypeMemory
  <2>7. mprev[t] \in S
    BY <2>2, <2>3, <2>5, <2>6
  <2> QED
    BY <1>1, <2>3, <2>5, <2>7, NullIsNoSlot DEF TypeMemory
<1>2. IInv => MemoryListSound
  BY <1>1, MAttachedIsLive DEF IInv, MemoryListSound, MemoryLinks, RegionLinks, TypeMemory
<1> QED
  BY <1>2, Invariance, PTL

-----------------------------------------------------------------------------
(* Steps: who touches a session, and the promise of TeeSessions.           *)

\* A request that only answers, or only ends the loop, is a stutter of the
\* tables.
LEMMA QuietStep ==
  ASSUME NEW cmd, NEW st, NEW ch, NEW sh, NEW how,
         Refuse(cmd, st, ch, sh) \/ StopAsIs(how)
  PROVE  /\ UNCHANGED tvars
         /\ resp' = Answer(cmd, st, ch, sh) \/ resp' = NoAnswer
BY DEF Refuse, StopAsIs, Stop, Reply, Unchanged, tvars

\* What one step can do to the tables and the session answers: nothing, or one
\* of the four effects below.
ContextOpened ==
  \E c \in Ctx :
    /\ ~cactive[c] /\ gen < MaxHandles
    /\ cactive' = [cactive EXCEPT ![c] = TRUE]
    /\ chandle' = [chandle EXCEPT ![c] = gen + 1]
    /\ gen' = gen + 1
    /\ UNCHANGED svars
    /\ resp'.cmd = "open_context"

ContextClosed ==
  \E c \in Ctx :
    /\ cactive[c] /\ cnum[c] = 0
    /\ cactive' = [cactive EXCEPT ![c] = FALSE]
    /\ UNCHANGED <<chandle, gen, svars>>
    /\ resp'.cmd \in {"close_context", "none"}

SessionOpened ==
  \E c \in Ctx, s \in Sess :
    /\ cactive[c] /\ ~sactive[s] /\ gen < MaxHandles
    /\ sactive' = [sactive EXCEPT ![s] = TRUE]
    /\ shandle' = [shandle EXCEPT ![s] = gen + 1]
    /\ owner' = [owner EXCEPT ![s] = chandle[c]]
    /\ gen' = gen + 1
    /\ UNCHANGED <<cactive, chandle>>
    /\ resp'.cmd = "open_session"

SessionClosed ==
  \E c \in Ctx, s \in Sess :
    /\ s \in Members(c)
    /\ sactive' = [sactive EXCEPT ![s] = FALSE]
    /\ UNCHANGED <<cactive, chandle, shandle, owner, gen>>
    /\ resp' = Answer("close_session", "SUCCESS", chandle[c], shandle[s])

TablesUntouched ==
  /\ UNCHANGED <<cactive, chandle, sactive, shandle, owner, gen>>
  /\ CarriedOut(resp') =>
       \E c \in Ctx : \E s \in Members(c) : resp'.ch = chandle[c] /\ resp'.sh = shandle[s]

\* Every step opens or closes one context or one session, or leaves the tables
\* as they are: the effects the action properties are about.
LEMMA StepEffects ==
  ASSUME IInv, [Next]_vars
  PROVE  \/ ContextOpened \/ ContextClosed \/ SessionOpened \/ SessionClosed
         \/ TablesUntouched \/ UNCHANGED vars
<1> USE DEF IInv
<1>1. ASSUME NEW cmd \in AllCommands, cmd \notin {"invoke", "close_session"},
             NEW st, NEW ch, NEW sh, NEW how, Refuse(cmd, st, ch, sh) \/ StopAsIs(how)
      PROVE  TablesUntouched
  <2>1. ~CarriedOut(resp')
    BY <1>1, QuietStep DEF CarriedOut, Answer, NoAnswer
  <2> QED
    BY <1>1, <2>1, QuietStep DEF TablesUntouched, tvars, cvars, svars, gvars
<1>2. ASSUME NEW cmd, NEW ch, NEW sh, NotFound(cmd, ch, sh) PROVE TablesUntouched
  <2>1. \/ Refuse(cmd, "CONTEXT_HANDLE_NOT_FOUND", ch, sh)
        \/ Refuse(cmd, "SESSION_HANDLE_NOT_FOUND", ch, sh)
        \/ StopAsIs("assert_active")
        \/ StopAsIs("returned")
    BY <1>2 DEF NotFound
  <2>2. ~CarriedOut(resp')
    BY <2>1, QuietStep DEF CarriedOut, Answer, NoAnswer
  <2> QED
    BY <2>1, <2>2, QuietStep DEF TablesUntouched, tvars, cvars, svars, gvars
<1>3. ASSUME NEW ch, NEW sh, NEW c \in Ctx, NEW s \in Sess, Found(ch, sh, c, s)
      PROVE  s \in Members(c) /\ ch = chandle[c] /\ sh = shandle[s]
  BY <1>3, AttachedIsMember DEF Found, FindHandle, TablesInv
<1>4. ASSUME NEW sameId \in BOOLEAN, OpenContext(sameId)
      PROVE  ContextOpened \/ TablesUntouched
  <2>1. CASE Refuse("open_context", "BAD_CONTEXT_ID", None, None)
             \/ Refuse("open_context", "OPEN_CONTEXT", None, None)
             \/ StopAsIs("assert_slot")
    BY <1>1, <2>1 DEF AllCommands
  <2>2. CASE ContextOpened
    BY <2>2
  <2> QED
    BY <1>4, <2>1, <2>2 DEF OpenContext, NextHandle, ContextOpened, FirstFree, Reply, Answer
<1>5. ASSUME NEW ch \in givenC, CloseContext(ch) PROVE ContextClosed \/ TablesUntouched
  <2>1. CASE Refuse("close_context", "CONTEXT_HANDLE_NOT_FOUND", ch, None)
             \/ StopAsIs("assert_active")
    BY <1>1, <2>1 DEF AllCommands
  <2>2. ASSUME NEW c \in Ctx, cactive[c], RemoveContext(c),
               UNCHANGED <<chandle, svars, mvars, gvars>>,
               Reply("close_context", "SUCCESS", ch, None) \/ Stop("assert_count")
        PROVE  ContextClosed \/ TablesUntouched
    <3>1. resp'.cmd \in {"close_context", "none"}
      BY <2>2 DEF Reply, Stop, Answer, NoAnswer
    <3>2. CASE cnum[c] > 0
      BY <2>2, <3>1, <3>2 DEF RemoveContext, TablesUntouched, CarriedOut, svars, gvars
    <3>3. CASE ~(cnum[c] > 0)
      <4>1. cnum[c] = 0
        BY <3>3 DEF TablesInv, TypeTables
      <4> QED
        BY <2>2, <3>1, <4>1 DEF RemoveContext, ContextClosed, gvars
    <3> QED
      BY <3>2, <3>3
  <2> QED
    BY <1>5, <2>1, <2>2 DEF CloseContext
<1>6. ASSUME NEW ch \in givenC, NEW out \in LoadOutcome, OpenSession(ch, out)
      PROVE  SessionOpened \/ TablesUntouched
  <2>1. CASE Refuse("open_session", "CONTEXT_HANDLE_NOT_FOUND", ch, None)
             \/ StopAsIs("assert_active")
             \/ Refuse("open_session", "OPEN_SESSION", ch, None)
             \/ StopAsIs("fault")
    BY <1>1, <2>1 DEF AllCommands
  <2>2. CASE SessionOpened
    BY <2>2
  <2> QED
    BY <1>6, <2>1, <2>2 DEF OpenSession, NextHandle, SessionOpened, FirstFree, FindHandle, Reply, Answer
<1>7. ASSUME NEW ch \in givenC, NEW sh \in givenS, CloseSession(ch, sh)
      PROVE  SessionClosed \/ TablesUntouched
  <2>1. CASE NotFound("close_session", ch, sh)
    BY <1>2, <2>1
  <2>2. CASE ~NotFound("close_session", ch, sh)
    BY <1>3, <1>7, <2>2 DEF CloseSession, SessionClosed, RemoveSession, Reply, gvars
  <2> QED
    BY <2>1, <2>2
<1>8. ASSUME NEW ch \in givenC, NEW sh \in givenS,
             NEW st \in {"SUCCESS", "TAPP_CALL", "TAPP_TIMEOUT"}, InvokeCommand(ch, sh, st)
      PROVE  TablesUntouched
  <2>1. CASE NotFound("invoke", ch, sh)
    BY <1>2, <2>1
  <2>2. ASSUME NEW c \in Ctx, NEW s \in Sess, Found(ch, sh, c, s), Refuse("invoke", st, ch, sh)
        PROVE  TablesUntouched
    <3>1. resp'.ch = chandle[c] /\ resp'.sh = shandle[s] /\ s \in Members(c)
      BY <1>3, <2>2 DEF Refuse, Reply, Answer
    <3> QED
      BY <2>2, <3>1 DEF TablesUntouched, Refuse, Unchanged, cvars, svars, gvars
  <2> QED
    BY <1>8, <2>1, <2>2 DEF InvokeCommand
<1>9. ASSUME NEW ch \in givenC, NEW ok \in BOOLEAN, RegisterMemory(ch, ok)
      PROVE  TablesUntouched
  <2>1. CASE StopAsIs("returned")
    BY <1>1, <2>1 DEF AllCommands
  <2>2. CASE ~StopAsIs("returned")
    BY <1>9, <2>2 DEF RegisterMemory, TablesUntouched, Reply, Answer, CarriedOut, cvars, svars, gvars
  <2> QED
    BY <2>1, <2>2
<1>10. ASSUME NEW ch \in givenC, NEW m \in 1..mgen, NEW ok \in BOOLEAN,
              UnregisterMemory(ch, m, ok)
       PROVE  TablesUntouched
  <2>1. CASE StopAsIs("returned")
    BY <1>1, <2>1 DEF AllCommands
  <2>2. CASE ~StopAsIs("returned")
    <3>1. UNCHANGED tvars /\ (Reply("unregister", "SUCCESS", ch, m) \/ Stop("returned"))
      BY <1>10, <2>2 DEF UnregisterMemory, UnlinkRegion, tvars
    <3> QED
      BY <3>1 DEF TablesUntouched, Reply, Stop, Answer, NoAnswer, CarriedOut, tvars, cvars, svars, gvars
  <2> QED
    BY <2>1, <2>2
<1>11. ASSUME Check \/ BadHeader \/ Disconnect PROVE TablesUntouched
  <2>1. \/ StopAsIs("fault")
        \/ Refuse("check", "SUCCESS", None, None)
        \/ StopAsIs("returned")
    BY <1>11 DEF Check, BadHeader, Disconnect
  <2> QED
    BY <1>1, <2>1 DEF AllCommands
<1> QED
  BY <1>4, <1>5, <1>6, <1>7, <1>8, <1>9, <1>10, <1>11 DEF Next

\* A session is called or closed only through the context it was opened with,
\* and no other request ends it.
THEOREM SessionsBelong == Spec => OnlyOwnerTouchesSession
<1>1. ASSUME IInv, [Next]_vars
      PROVE  \/ /\ CarriedOut(resp') =>
                     \E s \in Sess : /\ sactive[s]
                                     /\ shandle[s] = resp'.sh
                                     /\ owner[s] = resp'.ch
                /\ \A s \in Sess : sactive[s] /\ ~sactive'[s] =>
                     /\ resp'.cmd = "close_session"
                     /\ resp'.sh = shandle[s]
                     /\ resp'.ch = owner[s]
             \/ UNCHANGED vars
  <2> USE DEF IInv, TablesInv, TypeTables
  <2>1. CASE ContextOpened \/ ContextClosed
    BY <1>1, <2>1 DEF ContextOpened, ContextClosed, CarriedOut, svars
  <2>2. CASE SessionOpened
    BY <1>1, <2>2 DEF SessionOpened, CarriedOut
  <2>3. CASE SessionClosed
    BY <1>1, <2>3 DEF SessionClosed, CarriedOut, Answer, Members
  <2>4. CASE TablesUntouched
    BY <1>1, <2>4 DEF TablesUntouched, Members
  <2> QED
    BY <1>1, <2>1, <2>2, <2>3, <2>4, StepEffects
<1> QED
  BY <1>1, Invariance, PTL DEF OnlyOwnerTouchesSession, Spec

\* The server implements TeeSessions: clients see contexts and sessions come
\* and go as promised, whatever the slots, lists and counters do.
THEOREM Implements == Spec => TeeSpec
<1>1. Init => Tee!Init
  <2> SUFFICES ASSUME Init PROVE Tee!Init
    OBVIOUS
  <2>1. OpenContexts = {} /\ OpenSessions = {}
    BY DEF Init, OpenContexts, OpenSessions
  <2>2. 1..gen = {}
    BY DEF Init
  <2> QED
    BY <2>1, <2>2 DEF Tee!Init
<1>2. ASSUME IInv, [Next]_vars PROVE [Tee!Next]_(Tee!tvars)
  <2> USE DEF IInv, TablesInv
  <2>0. /\ cactive \in [Ctx -> BOOLEAN] /\ chandle \in [Ctx -> Nat]
        /\ sactive \in [Sess -> BOOLEAN] /\ shandle \in [Sess -> Nat]
        /\ owner \in [Sess -> Nat] /\ gen \in Nat
    BY <1>2 DEF TypeTables
  <2>1. CASE ContextOpened
    <3>1. PICK c \in Ctx : /\ ~cactive[c] /\ gen < MaxHandles
                           /\ cactive' = [cactive EXCEPT ![c] = TRUE]
                           /\ chandle' = [chandle EXCEPT ![c] = gen + 1]
                           /\ gen' = gen + 1
                           /\ UNCHANGED svars
      BY <2>1 DEF ContextOpened
    <3>2. OpenContexts' = OpenContexts \cup {gen + 1}
      BY <2>0, <3>1 DEF OpenContexts
    <3>3. OpenSessions' = OpenSessions
      BY <3>1 DEF OpenSessions, svars
    <3>4. /\ gen + 1 \in 1..MaxHandles /\ gen + 1 \notin 1..gen
          /\ 1..gen' = 1..gen \cup {gen + 1}
      BY <2>0, <3>1, BoundsAssumption
    <3>5. Tee!OpenContext(gen + 1)
      BY <3>2, <3>3, <3>4 DEF Tee!OpenContext
    <3> QED
      BY <3>4, <3>5 DEF Tee!Next
  <2>2. CASE ContextClosed
    <3>1. PICK c \in Ctx : /\ cactive[c] /\ cnum[c] = 0
                           /\ cactive' = [cactive EXCEPT ![c] = FALSE]
                           /\ UNCHANGED <<chandle, gen, svars>>
      BY <2>2 DEF ContextClosed
    <3>2. Members(c) = {}
      BY <1>2, <3>1, MembersFinite, FS_EmptySet DEF CountersMatchTables
    <3>3. \A d \in Ctx : cactive[d] /\ chandle[d] = chandle[c] => d = c
      BY <1>2 DEF HandlesUnique, HandlesDrawn
    <3>4. OpenContexts' = OpenContexts \ {chandle[c]} /\ chandle[c] \in OpenContexts
      BY <2>0, <3>1, <3>3 DEF OpenContexts
    <3>5. OpenSessions' = OpenSessions /\ 1..gen' = 1..gen
      BY <3>1 DEF OpenSessions, svars
    <3>6. \A p \in OpenSessions : p[2] # chandle[c]
      BY <3>2 DEF OpenSessions, Members
    <3>7. Tee!CloseContext(chandle[c])
      BY <3>4, <3>5, <3>6 DEF Tee!CloseContext
    <3> QED
      BY <3>4, <3>7 DEF Tee!Next
  <2>3. CASE SessionOpened
    <3>1. PICK c \in Ctx, s \in Sess :
             /\ cactive[c] /\ ~sactive[s] /\ gen < MaxHandles
             /\ sactive' = [sactive EXCEPT ![s] = TRUE]
             /\ shandle' = [shandle EXCEPT ![s] = gen + 1]
             /\ owner' = [owner EXCEPT ![s] = chandle[c]]
             /\ gen' = gen + 1
             /\ UNCHANGED <<cactive, chandle>>
      BY <2>3 DEF SessionOpened
    <3>2. OpenContexts' = OpenContexts /\ chandle[c] \in OpenContexts
      BY <3>1 DEF OpenContexts
    <3>3. OpenSessions' = OpenSessions \cup {<<gen + 1, chandle[c]>>}
      <4>1. \A t \in Sess : t # s =>
              /\ sactive'[t] <=> sactive[t]
              /\ shandle'[t] = shandle[t] /\ owner'[t] = owner[t]
        BY <2>0, <3>1
      <4>2. sactive'[s] /\ shandle'[s] = gen + 1 /\ owner'[s] = chandle[c]
        BY <2>0, <3>1
      <4> QED
        BY <3>1, <4>1, <4>2 DEF OpenSessions
    <3>4. /\ gen + 1 \in 1..MaxHandles /\ gen + 1 \notin 1..gen
          /\ 1..gen' = 1..gen \cup {gen + 1}
      BY <2>0, <3>1, BoundsAssumption
    <3>5. Tee!OpenSession(chandle[c], gen + 1)
      BY <3>2, <3>3, <3>4 DEF Tee!OpenSession
    <3> QED
      BY <3>2, <3>4, <3>5 DEF Tee!Next
  <2>4. CASE SessionClosed
    <3>1. PICK c \in Ctx, s \in Sess :
             /\ s \in Members(c)
             /\ sactive' = [sactive EXCEPT ![s] = FALSE]
             /\ UNCHANGED <<cactive, chandle, shandle, owner, gen>>
      BY <2>4 DEF SessionClosed
    <3>2. OpenContexts' = OpenContexts /\ 1..gen' = 1..gen
      BY <3>1 DEF OpenContexts
    <3>3. sactive[s] /\ owner[s] = chandle[c] /\ shandle[s] # None
      BY <1>2, <3>1 DEF Members, HandlesDrawn
    <3>4. \A t \in Sess : t # s => shandle[t] # shandle[s]
      BY <1>2, <3>3 DEF HandlesUnique
    <3>5. OpenSessions' = OpenSessions \ {<<shandle[s], owner[s]>>}
      <4>1. \A t \in Sess : sactive'[t] <=> (t # s /\ sactive[t])
        BY <2>0, <3>1
      <4> QED
        BY <3>1, <3>4, <4>1 DEF OpenSessions
    <3>6. <<shandle[s], owner[s]>> \in OpenSessions
      BY <3>3 DEF OpenSessions
    <3>7. Tee!CloseSession(owner[s], shandle[s])
      BY <3>2, <3>5, <3>6 DEF Tee!CloseSession
    <3> QED
      BY <3>6, <3>7 DEF Tee!Next
  <2>5. CASE TablesUntouched \/ UNCHANGED vars
    <3>1. UNCHANGED <<cactive, chandle, sactive, shandle, owner, gen>>
      BY <2>5 DEF TablesUntouched, vars, cvars, svars, gvars
    <3> QED
      BY <3>1 DEF Tee!tvars, OpenContexts, OpenSessions
  <2> QED
    BY <1>2, <2>1, <2>2, <2>3, <2>4, <2>5, StepEffects
<1> QED
  BY <1>1, <1>2, Invariance, PTL DEF TeeSpec, Spec, Tee!Spec

-----------------------------------------------------------------------------
(* What a client can tell of a request, for the proofs about the system.   *)

\* The sessions whose TApp is up, as pairs of handles.
UpSessions == {<<shandle[s], owner[s]>> : s \in {t \in Sess : sactive[t] /\ tapp[t] = "up"}}

Kept == /\ OpenContexts' = OpenContexts /\ UpSessions' = UpSessions
        /\ numC' = numC /\ gen' = gen /\ givenC' = givenC /\ givenS' = givenS

\* The request changes nothing, and if it is answered then with an error.
Refused(cmd) ==
  /\ Kept /\ mgen' = mgen
  /\ srv' # "assert_count"
  /\ srv' = "running" => resp'.cmd = cmd /\ resp'.status # "SUCCESS"

\* An assertion on the way says that a context or session named is not there.
RefusedFor(cmd, ch, sh) ==
  /\ Refused(cmd)
  /\ srv' = "assert_active" => ch \notin OpenContexts \/ <<sh, ch>> \notin UpSessions

LEMMA RefusalSeen ==
  ASSUME NEW cmd, NEW st, NEW ch, NEW sh, NEW how,
         \/ Refuse(cmd, st, ch, sh) /\ st # "SUCCESS"
         \/ StopAsIs(how) /\ how \notin {"running", "assert_count"}
  PROVE  Refused(cmd)
BY DEF Refuse, StopAsIs, Stop, Reply, Answer, Unchanged, Refused, Kept, OpenContexts, UpSessions,
       cvars, svars, mvars, gvars

\* The first slot with the handle is the only one, so one that is not active
\* means that no active one has it.
LEMMA StaleContext ==
  ASSUME TablesInv, NEW ch \in givenC, NEW c, FindHandle(chandle, Ctx, ch, c), ~cactive[c]
  PROVE  ch \notin OpenContexts
<1>1. ch # None
  BY DEF TablesInv, TypeTables, HandlesDrawn, None
<1>2. \A d \in Ctx : chandle[d] = ch => d = c
  BY <1>1 DEF TablesInv, HandlesUnique, FindHandle
<1> QED
  BY <1>2 DEF OpenContexts

LEMMA StaleSession ==
  ASSUME TablesInv, NEW sh \in givenS, NEW ch, NEW s, FindHandle(shandle, Sess, sh, s), ~sactive[s]
  PROVE  <<sh, ch>> \notin UpSessions
<1>1. sh # None
  BY DEF TablesInv, TypeTables, HandlesDrawn, None
<1>2. \A t \in Sess : shandle[t] = sh => t = s
  BY <1>1 DEF TablesInv, HandlesUnique, FindHandle
<1> QED
  BY <1>2 DEF UpSessions

\* find_objects fails an assertion only on a handle whose slot is free.
LEMMA NotFoundSeen ==
  ASSUME TablesInv, NEW ch \in givenC, NEW sh \in givenS, NEW cmd, NotFound(cmd, ch, sh)
  PROVE  RefusedFor(cmd, ch, sh)
<1>1. CASE \/ Refuse(cmd, "CONTEXT_HANDLE_NOT_FOUND", ch, sh)
           \/ Refuse(cmd, "SESSION_HANDLE_NOT_FOUND", ch, sh)
           \/ StopAsIs("returned")
  <2>1. srv' # "assert_active"
    BY <1>1 DEF Refuse, Reply, StopAsIs, Stop
  <2> QED
    BY <1>1, <2>1, RefusalSeen DEF RefusedFor
<1>2. ASSUME NEW c, FindHandle(chandle, Ctx, ch, c), ~cactive[c], StopAsIs("assert_active")
      PROVE  RefusedFor(cmd, ch, sh)
  BY <1>2, RefusalSeen, StaleContext DEF RefusedFor
<1>3. ASSUME NEW s, FindHandle(shandle, Sess, sh, s), ~sactive[s], StopAsIs("assert_active")
      PROVE  RefusedFor(cmd, ch, sh)
  BY <1>3, RefusalSeen, StaleSession DEF RefusedFor
<1> QED
  BY <1>1, <1>2, <1>3 DEF NotFound

LEMMA OpenContextSeen ==
  ASSUME TablesInv, OpenContext(TRUE)
  PROVE  \/ Refused("open_context") /\ srv' # "assert_active"
         \/ /\ gen < MaxHandles /\ gen' = gen + 1 /\ numC' = numC + 1
            /\ OpenContexts' = OpenContexts \cup {gen + 1} /\ UpSessions' = UpSessions
            /\ givenC' = givenC \cup {gen + 1} /\ givenS' = givenS /\ mgen' = mgen
            /\ Reply("open_context", "SUCCESS", gen + 1, None)
<1>1. CASE \/ Refuse("open_context", "OPEN_CONTEXT", None, None)
           \/ StopAsIs("assert_slot")
  BY <1>1, RefusalSeen DEF Refuse, Reply, StopAsIs, Stop
<1>2. ASSUME NEW c \in Ctx, ~cactive[c],
             cactive' = [cactive EXCEPT ![c] = TRUE],
             chandle' = [chandle EXCEPT ![c] = gen + 1], UNCHANGED svars
      PROVE  OpenContexts' = OpenContexts \cup {gen + 1} /\ UpSessions' = UpSessions
  <2>1. cactive \in [Ctx -> BOOLEAN] /\ chandle \in [Ctx -> Nat]
    BY DEF TablesInv, TypeTables
  <2>2. \A d \in Ctx : d # c => cactive'[d] = cactive[d] /\ chandle'[d] = chandle[d]
    BY <1>2, <2>1
  <2>3. cactive'[c] /\ chandle'[c] = gen + 1
    BY <1>2, <2>1
  <2> QED
    BY <1>2, <2>2, <2>3 DEF OpenContexts, UpSessions, svars
<1> QED
  BY <1>1, <1>2 DEF OpenContext, FirstFree, NextHandle, mvars

\* A context that is asked to go is counted down even when it stays, because of
\* its sessions.
LEMMA CloseContextSeen ==
  ASSUME TablesInv, NEW ch \in givenC, CloseContext(ch)
  PROVE  \/ Refused("close_context") /\ (srv' = "assert_active" => ch \notin OpenContexts)
         \/ /\ ch \in OpenContexts /\ OpenContexts \ {ch} \subseteq OpenContexts'
            /\ UpSessions' = UpSessions
            /\ gen' = gen /\ givenC' = givenC /\ givenS' = givenS /\ mgen' = mgen
            /\ \/ numC > 0 /\ numC' = numC - 1 /\ Reply("close_context", "SUCCESS", ch, None)
               \/ numC = 0 /\ numC' = numC /\ srv' = "assert_count"
<1>1. CASE Refuse("close_context", "CONTEXT_HANDLE_NOT_FOUND", ch, None)
  BY <1>1, RefusalSeen DEF Refuse, Reply
<1>2. ASSUME NEW c, FindHandle(chandle, Ctx, ch, c), ~cactive[c], StopAsIs("assert_active")
      PROVE  Refused("close_context") /\ ch \notin OpenContexts
  BY <1>2, RefusalSeen, StaleContext
<1>3. ASSUME NEW c, FindHandle(chandle, Ctx, ch, c), cactive[c], RemoveContext(c),
             UNCHANGED <<chandle, svars, mvars, gvars>>
      PROVE  /\ ch \in OpenContexts /\ OpenContexts \ {ch} \subseteq OpenContexts'
             /\ UpSessions' = UpSessions
             /\ gen' = gen /\ givenC' = givenC /\ givenS' = givenS /\ mgen' = mgen
  <2>1. c \in Ctx /\ chandle[c] = ch
    BY <1>3 DEF FindHandle
  <2>2. \A d \in Ctx : d # c => cactive'[d] = cactive[d]
    BY <1>3 DEF RemoveContext, TablesInv, TypeTables
  <2>3. ch \in OpenContexts
    BY <1>3, <2>1 DEF OpenContexts
  <2>4. OpenContexts \ {ch} \subseteq OpenContexts'
    BY <1>3, <2>1, <2>2 DEF OpenContexts
  <2> QED
    BY <1>3, <2>3, <2>4 DEF UpSessions, svars, mvars, gvars
<1> QED
  BY <1>1, <1>2, <1>3 DEF CloseContext, Stop

LEMMA OpenSessionSeen ==
  ASSUME TablesInv, NEW ch \in givenC, NEW out \in LoadOutcome, OpenSession(ch, out)
  PROVE  \/ Refused("open_session") /\ (srv' = "assert_active" => ch \notin OpenContexts)
         \/ /\ gen < MaxHandles /\ gen' = gen + 1 /\ numC' = numC
            /\ OpenContexts' = OpenContexts /\ UpSessions \subseteq UpSessions'
            /\ givenC' = givenC /\ mgen' = mgen
            /\ srv' = "running" /\ resp'.cmd = "open_session"
            /\ \/ /\ resp'.status = "SUCCESS" /\ resp'.sh = gen + 1
                  /\ givenS' = givenS \cup {gen + 1} /\ <<gen + 1, ch>> \in UpSessions'
               \/ resp'.status # "SUCCESS" /\ givenS' = givenS
<1>1. CASE \/ Refuse("open_session", "CONTEXT_HANDLE_NOT_FOUND", ch, None)
           \/ Refuse("open_session", "OPEN_SESSION", ch, None)
           \/ StopAsIs("fault")
  BY <1>1, RefusalSeen DEF Refuse, Reply, StopAsIs, Stop
<1>2. ASSUME NEW c, FindHandle(chandle, Ctx, ch, c), ~cactive[c], StopAsIs("assert_active")
      PROVE  Refused("open_session") /\ ch \notin OpenContexts
  BY <1>2, RefusalSeen, StaleContext
<1>3. ASSUME NEW s \in Sess, ~sactive[s],
             sactive' = [sactive EXCEPT ![s] = TRUE],
             shandle' = [shandle EXCEPT ![s] = gen + 1],
             owner'   = [owner EXCEPT ![s] = ch],
             tapp'    = [tapp EXCEPT ![s] = out.tapp],
             UNCHANGED <<cactive, chandle>>
      PROVE  /\ OpenContexts' = OpenContexts /\ UpSessions \subseteq UpSessions'
             /\ out.status = "SUCCESS" => <<gen + 1, ch>> \in UpSessions'
  <2>1. /\ sactive \in [Sess -> BOOLEAN] /\ shandle \in [Sess -> Nat]
        /\ owner \in [Sess -> Nat] /\ tapp \in [Sess -> {"none", "loaded", "up"}]
    BY DEF TablesInv, TypeTables
  <2>2. \A t \in Sess : t # s => /\ sactive'[t] = sactive[t] /\ shandle'[t] = shandle[t]
                                 /\ owner'[t] = owner[t] /\ tapp'[t] = tapp[t]
    BY <1>3, <2>1
  <2>3. sactive'[s] /\ shandle'[s] = gen + 1 /\ owner'[s] = ch /\ tapp'[s] = out.tapp
    BY <1>3, <2>1
  <2>4. OpenContexts' = OpenContexts
    BY <1>3 DEF OpenContexts
  <2>5. UpSessions \subseteq UpSessions'
    BY <1>3, <2>2 DEF UpSessions
  <2>6. out.status = "SUCCESS" => out.tapp = "up"
    BY DEF LoadOutcome
  <2> QED
    BY <2>3, <2>4, <2>5, <2>6 DEF UpSessions
<1>4. ASSUME NEW s, FirstFree(sactive, Sess, s) PROVE s \in Sess /\ ~sactive[s]
  BY <1>4 DEF FirstFree
<1> QED
  BY <1>1, <1>2, <1>3, <1>4 DEF OpenSession, NextHandle, Reply, Answer, mvars

LEMMA CloseSessionSeen ==
  ASSUME TablesInv, NEW ch \in givenC, NEW sh \in givenS, CloseSession(ch, sh)
  PROVE  \/ RefusedFor("close_session", ch, sh)
         \/ /\ OpenContexts' = OpenContexts /\ UpSessions \ {<<sh, ch>>} \subseteq UpSessions'
            /\ numC' = numC /\ gen' = gen /\ givenC' = givenC /\ givenS' = givenS /\ mgen' = mgen
            /\ Reply("close_session", "SUCCESS", ch, sh)
<1>1. CASE NotFound("close_session", ch, sh)
  BY <1>1, NotFoundSeen
<1>2. ASSUME NEW c \in Ctx, NEW s \in Sess, Found(ch, sh, c, s), RemoveSession(c, s),
             tapp' = [tapp EXCEPT ![s] = "none"],
             UNCHANGED <<cactive, chandle, shandle, owner>>
      PROVE  OpenContexts' = OpenContexts /\ UpSessions \ {<<sh, ch>>} \subseteq UpSessions'
  <2>1. s \in Members(c) /\ chandle[c] = ch /\ shandle[s] = sh
    BY <1>2, AttachedIsMember DEF Found, FindHandle, TablesInv
  <2>2. \A t \in Sess : t # s => sactive'[t] = sactive[t] /\ tapp'[t] = tapp[t]
    BY <1>2 DEF RemoveSession, TablesInv, TypeTables
  <2>3. OpenContexts' = OpenContexts
    BY <1>2 DEF OpenContexts
  <2>4. owner[s] = ch
    BY <2>1 DEF Members
  <2> QED
    BY <1>2, <2>1, <2>2, <2>3, <2>4 DEF UpSessions
<1> QED
  BY <1>1, <1>2 DEF CloseSession, mvars, gvars

LEMMA InvokeSeen ==
  ASSUME TablesInv, NEW ch \in givenC, NEW sh \in givenS, NEW st, InvokeCommand(ch, sh, st)
  PROVE  \/ RefusedFor("invoke", ch, sh)
         \/ Kept /\ mgen' = mgen /\ Reply("invoke", st, ch, sh)
<1>1. CASE NotFound("invoke", ch, sh)
  BY <1>1, NotFoundSeen
<1>2. CASE Refuse("invoke", st, ch, sh)
  BY <1>2 DEF Refuse, Unchanged, Kept, OpenContexts, UpSessions, cvars, svars, mvars, gvars
<1> QED
  BY <1>1, <1>2 DEF InvokeCommand

\* The other requests leave contexts and sessions alone and assert nothing.
LEMMA MemorySeen ==
  ASSUME NEW ch, NEW m, NEW ok \in BOOLEAN, NEW cmd, TypeMemory,
         \/ RegisterMemory(ch, ok) /\ cmd = "register"
         \/ UnregisterMemory(ch, m, ok) /\ cmd = "unregister"
         \/ BadHeader \/ Disconnect
  PROVE  /\ Kept /\ mgen' \in {mgen, mgen + 1}
         /\ \/ srv' = "running" /\ resp'.cmd = cmd
            \/ srv' = "returned"
<1>1. CASE StopAsIs("returned")
  BY <1>1 DEF StopAsIs, Stop, Unchanged, Kept, OpenContexts, UpSessions, cvars, svars, mvars, gvars
<1>2. CASE ~StopAsIs("returned")
  <2>1. /\ UNCHANGED <<cvars, svars, gvars>> /\ mgen' \in {mgen, mgen + 1}
        /\ \/ \E st, a, b : Reply(cmd, st, a, b)
           \/ Stop("returned")
    BY <1>2 DEF RegisterMemory, UnregisterMemory, BadHeader, Disconnect
  <2> QED
    BY <2>1 DEF Reply, Stop, Answer, Kept, OpenContexts, UpSessions, cvars, svars, gvars
<1> QED
  BY <1>1, <1>2
=============================================================================
