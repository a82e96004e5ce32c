--------------------------- MODULE TappTocProofs ---------------------------
(***************************************************************************)
(* Theorems about TappToc: what loading holds and gives back, and which    *)
(* TApp a session gets, for tables, TApps and sessions of any number.      *)
(*                                                                         *)
(* Where a TApp starts in the database is a recursive function.  What it   *)
(* computes is proved by induction over sets of numbers.                   *)
(***************************************************************************)
EXTENDS TappToc, TLAPS, WellFoundedInduction, SequenceTheorems

-----------------------------------------------------------------------------
(* Induction.                                                              *)

\* A set of numbers that is not empty has a least element.
LEMMA LeastNumber ==
  ASSUME NEW T \in SUBSET Nat, T # {}
  PROVE  \E n \in T : \A m \in T : n <= m
<1> DEFINE R == {ss \in Nat \X Nat : ss[1] < ss[2]}
<1>1. IsWellFoundedOn(R, Nat)
  BY NatLessThanWellFounded DEF OpToRel
<1>2. \A x, y \in Nat : y < x => <<y, x>> \in R
  OBVIOUS
<1> HIDE DEF R
<1>3. PICK x \in T : \A y \in T : ~(<<y, x>> \in R)
  BY <1>1, WFMin
<1>4. \A y \in T : x <= y
  <2> TAKE y \in T
  <2>1. x \in Nat /\ y \in Nat
    OBVIOUS
  <2>2. ~(y < x)
    BY <1>2, <1>3, <2>1
  <2> QED BY <2>1, <2>2
<1> QED BY <1>4

\* A set of numbers with 0 and the successors of its elements has them all.
LEMMA Induction ==
  ASSUME NEW T \in SUBSET Nat, 0 \in T, \A n \in T : n + 1 \in T
  PROVE  T = Nat
<1>1. SUFFICES ASSUME T # Nat PROVE FALSE
  OBVIOUS
<1>2. PICK n \in Nat \ T : \A m \in Nat \ T : n <= m
  BY <1>1, LeastNumber
<1>3. n - 1 \in T
  BY <1>2
<1> QED BY <1>2, <1>3

-----------------------------------------------------------------------------
(* The places of files in the database.                                    *)

\* g is what Start defines, for the first n places.
Places(files, n, g) ==
  g = [j \in 1..n |-> IF j = 1 THEN 0 ELSE g[j - 1] + files[j - 1].size]

\* Places exist.
LEMMA PlacesExist ==
  ASSUME NEW files
  PROVE  \A n \in Nat : \E g : Places(files, n, g)
<1> DEFINE T == {n \in Nat : \E g : Places(files, n, g)}
<1>1. 0 \in T
  <2>1. Places(files, 0, [j \in 1..0 |-> 0])
    BY DEF Places
  <2> QED BY <2>1
<1>2. ASSUME NEW n \in T PROVE n + 1 \in T
  <2>1. PICK g : Places(files, n, g)
    OBVIOUS
  <2> DEFINE h == [j \in 1..(n + 1) |-> IF j <= n THEN g[j]
                                        ELSE IF j = 1 THEN 0 ELSE g[j - 1] + files[j - 1].size]
  <2>2. \A j \in 1..n : g[j] = IF j = 1 THEN 0 ELSE g[j - 1] + files[j - 1].size
    BY <2>1 DEF Places
  <2>3. \A j \in 1..(n + 1) : h[j] = IF j = 1 THEN 0 ELSE h[j - 1] + files[j - 1].size
    <3> TAKE j \in 1..(n + 1)
    <3>1. j # 1 => h[j - 1] = g[j - 1]
      OBVIOUS
    <3> QED BY <2>2, <3>1
  <2>4. Places(files, n + 1, h)
    <3> HIDE DEF h
    <3>1. h = [j \in 1..(n + 1) |-> h[j]]
      BY DEF h
    <3> QED BY <2>3, <3>1 DEF Places
  <2> QED BY <2>4
<1>3. T = Nat
  <2> HIDE DEF T
  <2>1. T \subseteq Nat
    BY DEF T
  <2> QED BY <1>1, <1>2, <2>1, Induction
<1> QED BY <1>3

\* However many of them are computed, the places are the same.
LEMMA PlacesAgree ==
  ASSUME NEW files, NEW n \in Nat, NEW m \in Nat, m <= n,
         NEW g, Places(files, n, g), NEW h, Places(files, m, h)
  PROVE  \A j \in 1..m : h[j] = g[j]
<1> DEFINE T == {j \in Nat : j \in 1..m => h[j] = g[j]}
<1>1. /\ \A j \in 1..n : g[j] = IF j = 1 THEN 0 ELSE g[j - 1] + files[j - 1].size
      /\ \A j \in 1..m : h[j] = IF j = 1 THEN 0 ELSE h[j - 1] + files[j - 1].size
  BY DEF Places
<1>2. 0 \in T
  OBVIOUS
<1>3. ASSUME NEW j \in T PROVE j + 1 \in T
  <2>1. CASE j = 0
    BY <1>1, <2>1
  <2>2. CASE j # 0
    BY <1>1, <2>2
  <2> QED BY <2>1, <2>2
<1>4. T = Nat
  <2> HIDE DEF T
  <2>1. T \subseteq Nat
    BY DEF T
  <2> QED BY <1>2, <1>3, <2>1, Induction
<1> QED BY <1>4

\* The first file starts at 0, the next one where the one before ends.
LEMMA StartNext ==
  ASSUME NEW files
  PROVE  /\ Start(files, 1) = 0
         /\ \A k \in Nat \ {0} : Start(files, k + 1) = Start(files, k) + files[k].size
<1>1. \A k \in Nat : \E g : Places(files, k, g) /\ Start(files, k) = g[k]
  <2> TAKE k \in Nat
  <2> DEFINE f == CHOOSE g : Places(files, k, g)
  <2>1. Places(files, k, f)
    BY PlacesExist
  <2>2. Start(files, k) = f[k]
    BY DEF Start, Places
  <2> QED BY <2>1, <2>2
<1>2. Start(files, 1) = 0
  BY <1>1 DEF Places
<1>3. ASSUME NEW k \in Nat \ {0}
      PROVE  Start(files, k + 1) = Start(files, k) + files[k].size
  <2>1. PICK g : Places(files, k, g) /\ Start(files, k) = g[k]
    BY <1>1
  <2>2. PICK h : Places(files, k + 1, h) /\ Start(files, k + 1) = h[k + 1]
    BY <1>1
  <2>3. h[k + 1] = h[k] + files[k].size
    BY <2>2 DEF Places
  <2>4. g[k] = h[k]
    BY <2>1, <2>2, PlacesAgree
  <2> QED BY <2>1, <2>2, <2>3, <2>4
<1> QED BY <1>2, <1>3

\* Files have a size, so each starts after those before it.
LEMMA StartIncreases ==
  ASSUME NEW files \in Seq(File)
  PROVE  /\ \A k \in 1..Len(files) : Start(files, k) \in Nat
         /\ \A i, k \in 1..Len(files) : i < k => Start(files, i) < Start(files, k)
<1> DEFINE T == {k \in Nat : k \in 1..Len(files) =>
                   /\ \A i \in 1..k : Start(files, i) \in Nat
                   /\ \A i \in 1..(k - 1) : Start(files, i) < Start(files, k)}
<1>1. 0 \in T
  OBVIOUS
<1>2. ASSUME NEW k \in T PROVE k + 1 \in T
  <2>1. CASE k = 0
    BY <2>1, StartNext
  <2>2. CASE k # 0 /\ k + 1 \in 1..Len(files)
    <3>1. k \in Nat /\ k \in 1..Len(files) /\ files[k].size \in Nat \ {0}
      <4>1. k \in Nat /\ k \in 1..Len(files)
        BY <2>2
      <4>2. files[k].size \in Size
        <5>1. files[k] \in File
          BY <4>1
        <5> QED BY <5>1 DEF File
      <4> QED BY <4>1, <4>2, TocAssumption
    <3>2. Start(files, k + 1) = Start(files, k) + files[k].size
      BY <2>2, StartNext
    <3>3. /\ \A i \in 1..k : Start(files, i) \in Nat
          /\ \A i \in 1..(k - 1) : Start(files, i) < Start(files, k)
      BY <2>2
    <3> HIDE DEF T
    <3>4. ASSUME NEW i \in 1..k PROVE Start(files, i) < Start(files, k + 1)
      <4>1. CASE i = k
        BY <3>1, <3>2, <3>3, <4>1
      <4>2. CASE i # k
        <5>1. Start(files, i) < Start(files, k)
          BY <3>1, <3>3, <4>2
        <5>2. Start(files, i) \in Nat /\ Start(files, k) \in Nat
          BY <3>1, <3>3
        <5> QED BY <3>1, <3>2, <5>1, <5>2
      <4> QED BY <4>1, <4>2
    <3> QED BY <2>2, <3>1, <3>2, <3>3, <3>4 DEF T
  <2> QED BY <2>1, <2>2
<1>3. T = Nat
  <2> HIDE DEF T
  <2>1. T \subseteq Nat
    BY DEF T
  <2> QED BY <1>1, <1>2, <2>1, Induction
<1> QED BY <1>3

-----------------------------------------------------------------------------
(* The words of the table.                                                 *)

\* The words of the k-th entry of a table t that say which file it is for.
EntryIs(t, k, f, start) ==
  /\ \A j \in 1..TaidSize : t[EntryAt(k - 1) + j - 1] = f.taid[j]
  /\ t[EntryAt(k - 1) + TaidSize] = f.size
  /\ t[EntryAt(k - 1) + TaidSize + 1] = start

\* Writing a word sequence changes the words it is written over and no others.
LEMMA PutWords ==
  ASSUME NEW t, NEW a \in Nat, NEW ws \in Seq(Int), NEW x \in Nat, x \in DOMAIN t
  PROVE  /\ x < a \/ x >= a + Len(ws) => Put(t, a, ws)[x] = t[x]
         /\ x >= a /\ x < a + Len(ws) => Put(t, a, ws)[x] = ws[x - a + 1]
BY DEF Put

\* A sequence after another one begins where that one ends.
LEMMA Joined ==
  ASSUME NEW s \in Seq(Nat), NEW t \in Seq(Nat)
  PROVE  \E st \in Seq(Nat) :
           /\ st = s \o t
           /\ Len(st) = Len(s) + Len(t)
           /\ \A i \in 1..Len(s) : st[i] = s[i]
           /\ \A i \in 1..Len(t) : st[Len(s) + i] = t[i]
<1>1. /\ s \o t \in Seq(Nat) /\ Len(s \o t) = Len(s) + Len(t)
      /\ \A i \in 1..Len(s) : (s \o t)[i] = s[i]
      /\ \A i \in 1..Len(t) : (s \o t)[Len(s) + i] = t[i]
  OBVIOUS
<1> QED BY <1>1

\* The words of an entry: the TAID, the size and the address of its file.
LEMMA EntryOfParts ==
  ASSUME NEW files \in Seq(File), NEW k \in 1..Len(files)
  PROVE  /\ \A j \in 1..4 : EntryOf(files, k)[j] = files[k].taid[j]
         /\ EntryOf(files, k)[5] = files[k].size
         /\ EntryOf(files, k)[6] = Start(files, k)
<1> DEFINE id   == files[k].taid
           one  == <<files[k].size>>
           addr == Address(Start(files, k))
<1>1. id \in [1..4 -> Nat] /\ files[k].size \in Nat /\ Start(files, k) \in Nat
  <2>1. files[k] \in File
    OBVIOUS
  <2>2. files[k].taid \in Taid /\ files[k].size \in Size
    BY <2>1 DEF File
  <2> QED BY <2>2, TocAssumption, StartIncreases DEF TaidSize
<1>2. EntryOf(files, k) = (id \o one) \o addr
  BY DEF EntryOf
<1>3. one \in Seq(Nat) /\ Len(one) = 1 /\ one[1] = files[k].size
  BY <1>1
<1>4. addr \in Seq(Nat) /\ Len(addr) = 8 /\ addr[1] = Start(files, k)
  BY <1>1 DEF Address, AddrSize
<1> HIDE DEF id, one, addr
<1>5. id \in Seq(Nat)
  <2>1. Seq(Nat) = UNION {[1..n -> Nat] : n \in Nat}
    BY SeqDef
  <2> QED BY <1>1, <2>1
<1>6. Len(id) = 4
  <2>1. DOMAIN id = 1..4
    BY <1>1
  <2>2. Len(id) \in Nat /\ DOMAIN id = 1..Len(id)
    BY <1>5, LenProperties
  <2> QED BY <2>1, <2>2
<1>7. PICK head \in Seq(Nat) :
        /\ head = id \o one
        /\ Len(head) = Len(id) + Len(one)
        /\ \A i \in 1..Len(id) : head[i] = id[i]
        /\ \A i \in 1..Len(one) : head[Len(id) + i] = one[i]
  BY <1>3, <1>5, Joined
<1>8. PICK all \in Seq(Nat) :
        /\ all = head \o addr
        /\ Len(all) = Len(head) + Len(addr)
        /\ \A i \in 1..Len(head) : all[i] = head[i]
        /\ \A i \in 1..Len(addr) : all[Len(head) + i] = addr[i]
  BY <1>4, Joined
<1>9. /\ Len(head) = 5 /\ head[5] = one[1]
      /\ \A i \in 1..4 : head[i] = id[i]
  <2>1. \A i \in 1..1 : head[4 + i] = one[i]
    BY <1>3, <1>6, <1>7
  <2>2. head[4 + 1] = one[1]
    BY <2>1
  <2>3. \A i \in 1..4 : head[i] = id[i]
    BY <1>6, <1>7
  <2>4. Len(head) = 5
    BY <1>3, <1>6, <1>7
  <2> QED BY <2>2, <2>3, <2>4
<1>10. /\ all[5] = one[1] /\ all[6] = addr[1]
       /\ \A i \in 1..4 : all[i] = id[i]
  <2>1. \A i \in 1..8 : all[5 + i] = addr[i]
    BY <1>4, <1>8, <1>9
  <2>2. all[5 + 1] = addr[1]
    BY <2>1
  <2>3. \A i \in 1..5 : all[i] = head[i]
    BY <1>8, <1>9
  <2> QED BY SMTT(20), <1>9, <2>2, <2>3
<1>11. EntryOf(files, k) = all
  BY <1>2, <1>7, <1>8
<1> QED BY <1>3, <1>4, <1>10, <1>11 DEF id

\* A table laid out as sk_swld_tapp.h says has as many entries as there are
\* files, and the k-th is for the k-th file.
LEMMA TocLaidOut ==
  ASSUME NEW files \in Seq(File), Len(files) <= Fit
  PROVE  /\ DOMAIN TocOf(files) = 0..(BufferSize - 1)
         /\ TocOf(files)[1] = Len(files)
         /\ \A k \in 1..Len(files) : EntryIs(TocOf(files), k, files[k], Start(files, k))
<1> USE DEF HdrSize, TaidSize, AddrSize, EntrySize
<1>1. DOMAIN TocOf(files) = 0..(BufferSize - 1)
  BY DEF TocOf, Empty
<1>2. BufferSize \in Nat /\ BufferSize >= 4
  BY TocAssumption
<1>3. TocOf(files)[1] = Len(files)
  <2>1. 1 \in DOMAIN Empty
    BY <1>2 DEF Empty
  <2>2. TocOf(files)[1] = WriteHeader(Empty, Len(files))[1]
    BY <2>1 DEF TocOf
  <2>3. WriteHeader(Empty, Len(files))[1] = <<Cookie, Len(files)>>[2]
    BY <2>1 DEF WriteHeader, Put
  <2> QED BY <2>2, <2>3
<1>4. ASSUME NEW k \in 1..Len(files), NEW j \in 1..(TaidSize + 1 + AddrSize)
      PROVE  TocOf(files)[EntryAt(k - 1) + j - 1] = EntryOf(files, k)[j]
  <2> DEFINE x == EntryAt(k - 1) + j - 1
  <2>1. x = 4 + (k - 1) * 21 + j - 1
    BY DEF EntryAt
  <2>2. k <= (BufferSize - 4) \div 21
    BY <1>2 DEF Fit
  <2>3. x \in DOMAIN Empty /\ x >= 4
    BY <1>2, <2>1, <2>2 DEF Empty
  <2>4. ((x - 4) \div 21) + 1 = k /\ ((x - 4) % 21) + 1 = j
    BY SMTT(20), <2>1
  <2>5. x \in Nat /\ k <= Len(files) /\ j <= 13
    BY <2>1
  <2> HIDE DEF x
  <2>6. TocOf(files)[x] = EntryOf(files, k)[j]
    BY <2>3, <2>4, <2>5 DEF TocOf
  <2> QED BY <2>6 DEF x
<1>5. ASSUME NEW k \in 1..Len(files)
      PROVE  /\ \A j \in 1..4 : EntryOf(files, k)[j] = files[k].taid[j]
             /\ EntryOf(files, k)[5] = files[k].size
             /\ EntryOf(files, k)[6] = Start(files, k)
  BY EntryOfParts
<1>6. ASSUME NEW k \in 1..Len(files)
      PROVE  EntryIs(TocOf(files), k, files[k], Start(files, k))
  <2>1. \A j \in 1..13 : TocOf(files)[EntryAt(k - 1) + j - 1] = EntryOf(files, k)[j]
    BY SMTT(20), <1>4
  <2>2. EntryAt(k - 1) \in Nat
    BY DEF EntryAt
  <2> HIDE DEF HdrSize, EntrySize
  <2>3. /\ TocOf(files)[EntryAt(k - 1) + 4] = EntryOf(files, k)[5]
        /\ TocOf(files)[EntryAt(k - 1) + 5] = EntryOf(files, k)[6]
    <3>1. EntryAt(k - 1) + 5 - 1 = EntryAt(k - 1) + 4 /\ EntryAt(k - 1) + 6 - 1 = EntryAt(k - 1) + 5
      BY <2>2
    <3> QED BY <2>1, <3>1
  <2>4. EntryAt(k - 1) + TaidSize + 1 = EntryAt(k - 1) + 5
    BY <2>2
  <2> QED BY <2>1, <2>3, <2>4, <1>5 DEF EntryIs
<1> QED BY <1>1, <1>3, <1>6

-----------------------------------------------------------------------------
(* The inductive invariant.                                                *)

Loaded == {s \in Slot : tapp[s] # None}

\* The types the steps rely on.
Types ==
  /\ stage \in {"tool", "failed", "server"}
  /\ shipped \in BOOLEAN
  /\ DOMAIN toc = 0..(BufferSize - 1)
  /\ db \in Seq(File)
  /\ at \in {"idle", "header", "entry", "load"}
  /\ slot \in Slot /\ taid \in Taid /\ idx \in Nat
  /\ tapp = [s \in Slot |-> tapp[s]]

\* A load is for a session without a TApp.
Loading == at # "idle" => stage = "server" /\ tapp[slot] = None

\* The memory of the loaded TApps is held, and the table while it is read.
HeldRight ==
  held = ({"obj", "code"} \X Loaded) \union (IF at = "idle" THEN {} ELSE {<<"toc", slot>>})

\* The table has an entry for each file, and the tool counts the room left.  An
\* entry of a shipped table is what it should be; one of the tool's own has no
\* third word in the place of the TAID.
Entries ==
  /\ Len(db) <= Fit
  /\ toc[1] = Len(db)
  /\ shipped => stage = "server"
  /\ shipped => \A k \in 1..Len(db) : EntryIs(toc, k, db[k], Start(db, k))
  /\ ~shipped => \A k \in 1..Len(db) : toc[EntryAt(k - 1) + 2] = 0
  /\ stage = "tool" => left = BufferSize - HdrSize - EntrySize * Len(db)

\* A search has passed by the entries of other TApps only, and ends at one that
\* has the TAID it looks for.
Searching ==
  /\ shipped /\ at \in {"header", "entry"} =>
       idx <= Len(db) /\ \A k \in 1..idx : db[k].taid # taid
  /\ at = "header" => idx = 0
  /\ at = "load" => More(idx) /\ Matches(idx)

\* No TAID has a third word of zeros.
ThirdWords == \A t \in Taid : t[3] # 0

\* What NothingLeaked needs.
HeldInv == Types /\ Loading /\ HeldRight

\* What the other properties need.
FoundInv ==
  /\ Entries /\ Searching
  /\ shipped \/ ThirdWords => LoadFindsOwn
  /\ ShippedFound

IInv == HeldInv /\ FoundInv

\* What is acquired for a TApp, in any number of the four steps.
LEMMA AcquiredFour ==
  /\ Acquired(4) = {"obj", "manifest", "code", "db"} \X {slot}
  /\ \A n \in 0..4 : Acquired(n) \subseteq {"obj", "manifest", "code", "db"} \X {slot}
<1> DEFINE four == <<"obj", "manifest", "code", "db">>
<1>1. ASSUME NEW n \in 0..4
      PROVE  ToSet(SubSeq(four, 1, n)) = {four[j] : j \in 1..n}
  <2>1. four \in Seq({"obj", "manifest", "code", "db"}) /\ Len(four) = 4
    OBVIOUS
  <2> HIDE DEF four
  <2>2. /\ DOMAIN SubSeq(four, 1, n) = 1..n
        /\ \A j \in 1..n : SubSeq(four, 1, n)[j] = four[j]
    BY <2>1
  <2> QED BY <2>2 DEF ToSet
<1>2. ASSUME NEW n \in 0..4
      PROVE  Acquired(n) = {<<r, slot>> : r \in {four[j] : j \in 1..n}}
  BY <1>1 DEF Acquired
<1>3. \A j \in 1..4 : four[j] \in {"obj", "manifest", "code", "db"}
  OBVIOUS
<1>4. {four[j] : j \in 1..4} = {"obj", "manifest", "code", "db"}
  <2>1. four[1] = "obj" /\ four[2] = "manifest" /\ four[3] = "code" /\ four[4] = "db"
    OBVIOUS
  <2> HIDE DEF four
  <2> QED BY <1>3, <2>1
<1> HIDE DEF four
<1>5. Acquired(4) = {<<r, slot>> : r \in {"obj", "manifest", "code", "db"}}
  BY <1>2, <1>4
<1>6. \A n \in 0..4 : Acquired(n) \subseteq {<<r, slot>> : r \in {"obj", "manifest", "code", "db"}}
  BY <1>2, <1>3
<1> QED BY <1>5, <1>6

\* A loaded TApp can be told from none.
LEMMA LoadedIsNotNone ==
  ASSUME NEW t \in Taid, NEW i, NEW c
  PROVE  [asked |-> t, info |-> i, code |-> c] # None
<1>1. t \in [1..4 -> Nat]
  BY TocAssumption DEF TaidSize
<1>2. 1 \in DOMAIN t /\ 1 \notin DOMAIN << >>
  BY <1>1
<1>3. t # << >>
  BY <1>2
<1> QED BY <1>3 DEF None

\* A TAID is found in an entry exactly if the entry is its own.
LEMMA EntryMatches ==
  ASSUME Types, NEW k \in 1..Len(db), EntryIs(toc, k, db[k], Start(db, k))
  PROVE  Matches(k - 1) <=> db[k].taid = taid
<1>1. db[k].taid \in [1..4 -> Nat] /\ taid \in [1..4 -> Nat]
  <2>1. db[k] \in File
    BY DEF Types
  <2> QED BY <2>1, TocAssumption DEF Types, File, TaidSize
<1>2. Words(EntryAt(k - 1), TaidSize) = [j \in 1..4 |-> db[k].taid[j]]
  BY DEF Words, EntryIs, TaidSize
<1>3. db[k].taid = [j \in 1..4 |-> db[k].taid[j]]
  BY <1>1
<1> QED BY <1>2, <1>3 DEF Matches

-----------------------------------------------------------------------------
(* What is held.                                                           *)

LEMMA HeldInit == Init => HeldInv
<1> SUFFICES ASSUME Init PROVE HeldInv
  OBVIOUS
<1>1. db \in Seq(File) /\ DOMAIN toc = 0..(BufferSize - 1)
  <2>1. CASE db = << >> /\ toc = WriteHeader(Empty, 0)
    BY <2>1 DEF WriteHeader, Put, Empty
  <2>2. CASE db \in Directories /\ toc = TocOf(db)
    <3>1. PICK n \in 0..Fit : db \in [1..n -> File]
      BY <2>2 DEF Directories
    <3>2. n \in Nat
      BY <3>1, TocAssumption DEF Fit, HdrSize, EntrySize
    <3>3. Seq(File) = UNION {[1..m -> File] : m \in Nat}
      BY SeqDef
    <3> QED BY <2>2, <3>1, <3>2, <3>3 DEF TocOf, Empty
  <2> QED BY <2>1, <2>2 DEF Init
<1>2. Types
  BY <1>1 DEF Init, Types
<1>3. Loading
  BY DEF Init, Loading
<1>4. HeldRight
  BY DEF Init, HeldRight, Loaded
<1> QED BY <1>2, <1>3, <1>4 DEF HeldInv

\* The end of tapp_load on an error of its own.
LEMMA ReturnHolds ==
  ASSUME HeldInv, at # "idle", NEW status, Return(status), tapp' = tapp, slot' = slot
  PROVE  HeldRight'
<1>1. \A r \in {"obj", "code"} : <<r, slot>> # <<"toc", slot>>
  OBVIOUS
<1>2. held' = {"obj", "code"} \X Loaded
  BY <1>1 DEF Return, HeldInv, HeldRight
<1>3. at' = "idle" /\ Loaded' = Loaded
  BY DEF Return, Loaded
<1> QED BY <1>2, <1>3 DEF HeldRight

LEMMA HeldStep == HeldInv /\ [Next]_vars => HeldInv'
<1> SUFFICES ASSUME HeldInv, [Next]_vars PROVE HeldInv'
  OBVIOUS
<1> USE DEF HeldInv
<1>1. ASSUME NEW f \in File, AddFile(f) PROVE HeldInv'
  <2>1. /\ UNCHANGED loadVars
        /\ stage' \in {"tool", "failed"} /\ shipped' = shipped
        /\ at = "idle"
    BY <1>1 DEF AddFile, Types, Loading
  <2>2. db' \in Seq(File)
    BY <1>1 DEF AddFile, Types
  <2>3. DOMAIN toc' = 0..(BufferSize - 1)
    BY <1>1 DEF AddFile, Types, AddEntry, WriteHeader, Put
  <2> QED BY <2>1, <2>2, <2>3 DEF loadVars, Types, Loading, HeldRight, Loaded
<1>2. CASE WriteToc
  BY <1>2 DEF WriteToc, loadVars, Types, Loading, HeldRight, Loaded
<1>3. ASSUME NEW s \in Slot, NEW t \in Taid, Load(s, t) PROVE HeldInv'
  <2>1. UNCHANGED toolVars /\ tapp' = tapp /\ slot' = s /\ taid' = t /\ idx' = 0
        /\ at' \in {"idle", "header"} /\ at = "idle" /\ tapp[s] = None /\ stage = "server"
    BY <1>3 DEF Load, Return
  <2>2. Types' /\ Loading'
    BY <2>1 DEF toolVars, Types, Loading
  <2>3. held = {"obj", "code"} \X Loaded /\ Loaded' = Loaded
    BY <2>1 DEF HeldRight, Loaded
  <2>4. CASE at' = "header" /\ held' = held \union {<<"toc", s>>}
    BY <2>1, <2>2, <2>3, <2>4 DEF HeldRight
  <2>5. CASE Return("open_failed")
    <3>1. held' = held \ {<<"toc", slot>>}
      BY <2>5 DEF Return
    <3>2. held' = held
      BY <2>3, <3>1
    <3>3. at' = "idle"
      BY <2>5 DEF Return
    <3> QED BY <2>2, <2>3, <3>2, <3>3 DEF HeldRight
  <2> QED BY <1>3, <2>2, <2>4, <2>5 DEF Load
<1>4. CASE ReadHeader
  <2>1. UNCHANGED <<toolVars, slot, taid, idx, tapp>> /\ at' \in {"idle", "entry"} /\ at = "header"
    BY <1>4 DEF ReadHeader, Return
  <2>2. Types' /\ Loading'
    BY <2>1 DEF toolVars, Types, Loading
  <2>3. CASE Return("read_failed")
    BY <2>1, <2>2, <2>3, ReturnHolds
  <2>4. CASE at' = "entry" /\ held' = held
    BY <2>1, <2>2, <2>4 DEF HeldRight, Loaded
  <2> QED BY <1>4, <2>3, <2>4 DEF ReadHeader
<1>5. CASE ReadEntry
  <2>1. /\ UNCHANGED <<toolVars, slot, taid, tapp>>
        /\ at' \in {"idle", "entry", "load"} /\ at = "entry" /\ idx' \in Nat
    BY <1>5 DEF ReadEntry, Return, Types
  <2>2. Types' /\ Loading'
    BY <2>1 DEF toolVars, Types, Loading
  <2>3. ASSUME NEW status, Return(status) PROVE HeldInv'
    BY <2>1, <2>2, <2>3, ReturnHolds
  <2>4. CASE at' \in {"entry", "load"} /\ held' = held
    BY <2>1, <2>2, <2>4 DEF HeldRight, Loaded
  <2> QED BY <1>5, <2>1, <2>3, <2>4 DEF ReadEntry
<1>6. CASE PlatformLoad
  <2>1. /\ UNCHANGED <<toolVars, slot, taid, idx>>
        /\ at' = "idle" /\ at = "load" /\ tapp[slot] = None
        /\ slot \in Slot /\ taid \in Taid
    BY <1>6 DEF PlatformLoad, Loading, Types
  <2>2. held = ({"obj", "code"} \X Loaded) \union {<<"toc", slot>>}
    BY <2>1 DEF HeldRight
  <2>3. slot \notin Loaded
    BY <2>1 DEF Loaded
  <2>4. ASSUME NEW i, NEW c,
               tapp' = [tapp EXCEPT ![slot] = [asked |-> taid, info |-> i, code |-> c]],
               held' = ((held \union Acquired(4)) \ Released(TRUE)) \ {<<"toc", slot>>}
        PROVE  HeldInv'
    <3>1. Loaded' = Loaded \union {slot}
      <4>1. tapp'[slot] # None
        BY <2>1, <2>4, LoadedIsNotNone DEF Types
      <4>2. \A s \in Slot \ {slot} : tapp'[s] = tapp[s]
        BY <2>4 DEF Types
      <4> QED BY <2>1, <4>1, <4>2 DEF Loaded
    <3>2. held' = {"obj", "code"} \X (Loaded \union {slot})
      <4>1. Released(TRUE) = {<<"db", slot>>, <<"manifest", slot>>}
        BY DEF Released
      <4>2. Acquired(4) = {<<"obj", slot>>, <<"manifest", slot>>, <<"code", slot>>, <<"db", slot>>}
        BY AcquiredFour
      <4> DEFINE old == {"obj", "code"} \X Loaded
                 new == {<<"obj", slot>>, <<"code", slot>>}
                 gone == {<<"db", slot>>, <<"manifest", slot>>, <<"toc", slot>>}
      <4>3. {"obj", "code"} \X (Loaded \union {slot}) = old \union new
        OBVIOUS
      <4>4. (old \union new) \intersect gone = {}
        OBVIOUS
      <4>5. held' = (old \union new \union gone) \ gone
        BY <2>2, <2>4, <4>1, <4>2
      <4> HIDE DEF old, new, gone
      <4> QED BY <4>3, <4>4, <4>5
    <3>3. Types'
      BY <2>1, <2>4 DEF toolVars, Types
    <3> QED BY <2>1, <3>1, <3>2, <3>3 DEF Loading, HeldRight
  <2>5. ASSUME NEW n \in 0..4, tapp' = tapp,
               held' = ((held \union Acquired(n)) \ Released(FALSE)) \ {<<"toc", slot>>}
        PROVE  HeldInv'
    <3>1. held' = {"obj", "code"} \X Loaded
      <4>1. Released(FALSE) = {"db", "manifest", "obj", "code"} \X {slot}
        BY DEF Released
      <4>2. Acquired(n) \subseteq Released(FALSE)
        BY <4>1, AcquiredFour
      <4>3. held' = (held \ Released(FALSE)) \ {<<"toc", slot>>}
        BY <2>5, <4>2
      <4> DEFINE old == {"obj", "code"} \X Loaded
      <4>4. old \intersect Released(FALSE) = {} /\ <<"toc", slot>> \notin old
        BY <2>3, <4>1
      <4>5. held = old \union {<<"toc", slot>>}
        BY <2>2
      <4> HIDE DEF old
      <4>6. held' = old
        BY <4>3, <4>4, <4>5
      <4> QED BY <4>6 DEF old
    <3>2. Types' /\ Loaded' = Loaded
      BY <2>1, <2>5 DEF toolVars, Types, Loaded
    <3> QED BY <2>1, <3>1, <3>2 DEF Loading, HeldRight
  <2> QED BY <1>6, <2>4, <2>5 DEF PlatformLoad
<1>7. ASSUME NEW s \in Slot, Unload(s) PROVE HeldInv'
  <2>1. /\ UNCHANGED <<toolVars, at, slot, taid, idx>> /\ at = "idle"
        /\ tapp' = [tapp EXCEPT ![s] = None]
        /\ held' = held \ {<<"obj", s>>, <<"code", s>>}
    BY <1>7 DEF Unload
  <2>2. Types'
    BY <2>1 DEF toolVars, Types
  <2>3. Loaded' = Loaded \ {s}
    BY <2>1 DEF Types, Loaded
  <2>4. held' = {"obj", "code"} \X (Loaded \ {s})
    BY <2>1 DEF HeldRight
  <2> QED BY <2>1, <2>2, <2>3, <2>4 DEF Loading, HeldRight
<1>8. CASE UNCHANGED vars
  BY <1>8 DEF vars, toolVars, loadVars, Types, Loading, HeldRight, Loaded
<1> QED BY <1>1, <1>2, <1>3, <1>4, <1>5, <1>6, <1>7, <1>8 DEF Next

\* Whatever fails on the way, tapp_load leaves nothing behind.
THEOREM NothingLeft == Spec => []NothingLeaked
<1>1. HeldInv => NothingLeaked
  BY DEF HeldInv, HeldRight, NothingLeaked, Loaded
<1> QED BY <1>1, HeldInit, HeldStep, PTL DEF Spec

-----------------------------------------------------------------------------
(* What is found.                                                          *)

\* Counting the files of a table that is not full leaves room for another.
LEMMA RoomForOne ==
  ASSUME NEW n \in Nat, n < MaxFiles, n <= Fit,
         BufferSize - HdrSize - EntrySize * n >= TaidSize + AddrSize
  PROVE  n + 1 <= Fit
<1>1. BufferSize \in Nat /\ BufferSize >= 4 /\ MaxFiles \in Nat
  BY TocAssumption DEF HdrSize
<1>2. CASE MaxFiles <= Fit
  BY <1>1, <1>2 DEF Fit, HdrSize, EntrySize
<1>3. CASE (BufferSize - 4) % 21 < 12
  <2>1. BufferSize - 4 - 21 * n >= 12
    BY DEF HdrSize, EntrySize, TaidSize, AddrSize
  <2>2. n # (BufferSize - 4) \div 21
    BY <1>1, <1>3, <2>1
  <2> QED BY <1>1, <2>2 DEF Fit, HdrSize, EntrySize
<1> QED BY <1>2, <1>3, TocAssumption DEF HdrSize, EntrySize, TaidSize, AddrSize

\* Nothing wraps below the modulus.
LEMMA ModOfLess ==
  ASSUME NEW n \in Nat, NEW m \in Nat, n < m
  PROVE  n % m = n
OBVIOUS

\* The tool adds an entry, without a third word where the TAID should be, and
\* changes no other.
LEMMA EntryAdded ==
  ASSUME Types, Entries, stage = "tool", NEW f \in File, AddFile(f), db' = Append(db, f),
         toc' = AddEntry(f), left' = (left - EntrySize) % Modulus,
         left >= TaidSize + AddrSize, Len(db) < MaxFiles
  PROVE  Entries'
<1> DEFINE a  == HdrSize + toc[1] * EntrySize
           sz == <<f.size>>
           ad == Address(Start(db, Len(db) + 1))
           t1 == Put(toc, a, f.taid)
           t2 == Put(t1, a, sz)
           t3 == Put(t2, a + 1, ad)
<1>1. /\ Len(db) \in Nat /\ toc[1] = Len(db) /\ Len(db) <= Fit
      /\ left = BufferSize - HdrSize - EntrySize * Len(db)
      /\ ~shipped
      /\ \A k \in 1..Len(db) : toc[EntryAt(k - 1) + 2] = 0
      /\ DOMAIN toc = 0..(BufferSize - 1)
  BY DEF Types, Entries
<1>2. BufferSize \in Nat /\ BufferSize >= 4 /\ BufferSize < Modulus /\ Modulus \in Nat
  <2>1. Modulus \in Nat
    BY DEF Modulus
  <2>2. BufferSize \in 4..(Modulus - 1)
    BY TocAssumption DEF HdrSize
  <2> QED BY <2>1, <2>2
<1>3. Len(db) + 1 <= Fit
  BY <1>1, RoomForOne
<1>4. a = 4 + 21 * Len(db) /\ a + 21 <= BufferSize
  BY <1>1, <1>2, <1>3 DEF Fit, HdrSize, EntrySize
<1> HIDE DEF a
<1>5. Len(db') = Len(db) + 1 /\ Len(db') <= Fit
  BY <1>3 DEF Types
<1>6. toc' = Put(t3, 0, <<Cookie, toc[1] + 1>>)
  BY DEF AddEntry, WriteHeader, a
<1>7. /\ DOMAIN t1 = DOMAIN toc /\ DOMAIN t2 = DOMAIN toc /\ DOMAIN t3 = DOMAIN toc
      /\ DOMAIN toc' = DOMAIN toc
  BY <1>6 DEF Put
<1>8. ad \in Seq(Int) /\ Len(ad) = 8 /\ ad[2] = 0
  <2>1. Start(db, Len(db) + 1) \in Int
    <3>1. Len(db) = 0 => Start(db, Len(db) + 1) = 0
      BY StartNext
    <3>2. Len(db) # 0 => /\ Start(db, Len(db)) \in Nat
                         /\ Start(db, Len(db) + 1) = Start(db, Len(db)) + db[Len(db)].size
      <4>1. db \in Seq(File) /\ Len(db) \in Nat
        BY DEF Types
      <4>2. \A k \in 1..Len(db) : Start(db, k) \in Nat
        BY <4>1, StartIncreases
      <4>3. \A k \in Nat \ {0} : Start(db, k + 1) = Start(db, k) + db[k].size
        BY StartNext
      <4> QED BY SMTT(20), <4>1, <4>2, <4>3
    <3>3. Len(db) # 0 => db[Len(db)].size \in Nat
      <4>1. Len(db) # 0 => db[Len(db)] \in File
        BY <1>1 DEF Types
      <4>2. \A g \in File : g.size \in Nat
        BY TocAssumption DEF File
      <4> QED BY <4>1, <4>2
    <3> QED BY <3>1, <3>2, <3>3
  <2> QED BY <2>1 DEF Address, AddrSize
<1>9. f.taid \in Seq(Int) /\ sz \in Seq(Int)
  <2>1. f.taid \in Taid /\ f.size \in Size
    BY DEF File
  <2>2. f.taid \in [1..4 -> Nat] /\ f.size \in Int
    BY <2>1, TocAssumption DEF TaidSize
  <2>3. Seq(Int) = UNION {[1..n -> Int] : n \in Nat}
    BY SeqDef
  <2>4. \A t \in [1..4 -> Int] : t \in Seq(Int)
    BY <2>3
  <2>5. f.taid \in [1..4 -> Int]
    BY <2>2
  <2> QED BY <2>2, <2>4, <2>5
<1> HIDE DEF sz, ad
<1>10. \A x \in DOMAIN toc :
         /\ x < a => t1[x] = toc[x] /\ t2[x] = t1[x] /\ t3[x] = t2[x]
         /\ x >= 2 => toc'[x] = t3[x]
         /\ x >= a + 1 /\ x < a + 9 => t3[x] = ad[x - a]
  <2> TAKE x \in DOMAIN toc
  <2>1. x \in Nat /\ a \in Nat
    BY <1>1, <1>2, <1>4
  <2>2. x < a => t1[x] = toc[x]
    BY <1>9, <2>1, PutWords
  <2> HIDE DEF t1
  <2>3. x < a => t2[x] = t1[x]
    BY <1>7, <1>9, <2>1, PutWords
  <2> HIDE DEF t2
  <2>4. /\ x < a + 1 \/ x >= a + 1 + Len(ad) => t3[x] = t2[x]
        /\ x >= a + 1 /\ x < a + 1 + Len(ad) => t3[x] = ad[x - (a + 1) + 1]
    <3>1. x \in DOMAIN t2 /\ ad \in Seq(Int)
      BY <1>7, <1>8
    <3>2. a + 1 \in Nat
      BY <2>1
    <3>3. PICK b \in Nat : b = a + 1
      BY <3>2
    <3>4. PICK y \in Nat : y = x
      BY <2>1
    <3>5. /\ y < b \/ y >= b + Len(ad) => Put(t2, b, ad)[y] = t2[y]
          /\ y >= b /\ y < b + Len(ad) => Put(t2, b, ad)[y] = ad[y - b + 1]
      BY <3>1, <3>4, PutWords
    <3> QED BY <3>3, <3>4, <3>5
  <2>5. x - (a + 1) + 1 = x - a
    BY <2>1
  <2> HIDE DEF t3
  <2>6. x >= 2 => toc'[x] = t3[x]
    BY <1>6, <1>7, <2>1 DEF Put
  <2> QED BY <1>8, <2>1, <2>2, <2>3, <2>4, <2>5, <2>6
<1>11. toc'[1] = toc[1] + 1
  BY <1>1, <1>2, <1>6, <1>7 DEF Put
<1>12. toc'[a + 2] = 0
  <2>1. a + 2 \in DOMAIN toc /\ a + 2 >= 2
    BY <1>1, <1>2, <1>4
  <2>2. toc'[a + 2] = t3[a + 2]
    BY <1>10, <2>1
  <2>3. t3[a + 2] = ad[(a + 2) - a]
    <3>1. a + 2 >= a + 1 /\ a + 2 < a + 9
      BY <1>1, <1>4
    <3> QED BY <1>10, <2>1, <3>1
  <2>4. (a + 2) - a = 2
    BY <1>1, <1>4
  <2> QED BY <1>8, <2>2, <2>3, <2>4
<1>13. \A k \in 1..Len(db') : toc'[EntryAt(k - 1) + 2] = 0
  <2> TAKE k \in 1..Len(db')
  <2>1. CASE k = Len(db) + 1
    <3>1. EntryAt(k - 1) = a
      BY <1>1, <1>4, <2>1 DEF EntryAt, HdrSize, EntrySize
    <3> QED BY <1>12, <3>1
  <2>2. CASE k # Len(db) + 1
    <3>1. k \in 1..Len(db)
      BY <1>1, <1>5, <2>2
    <3>2. EntryAt(k - 1) + 2 >= 2 /\ EntryAt(k - 1) + 2 < a /\ EntryAt(k - 1) + 2 \in DOMAIN toc
      BY <1>1, <1>2, <1>4, <3>1 DEF EntryAt, HdrSize, EntrySize
    <3> QED BY <1>1, <1>10, <3>1, <3>2
  <2> QED BY <2>1, <2>2
<1>14. left' = BufferSize - HdrSize - EntrySize * Len(db')
  <2>1. left - EntrySize = BufferSize - 4 - 21 * (Len(db) + 1)
    BY <1>1, <1>2 DEF HdrSize, EntrySize
  <2>2. left - EntrySize >= 0 /\ left - EntrySize < Modulus
    BY <1>1, <1>2, <1>4, <2>1
  <2>3. left - EntrySize \in Nat
    BY <1>1, <1>2, <2>1, <2>2
  <2>4. (left - EntrySize) % Modulus = left - EntrySize
    BY <1>2, <2>2, <2>3, ModOfLess
  <2> QED BY <1>5, <2>1, <2>4 DEF HdrSize, EntrySize
<1>15. shipped' = shipped
  BY DEF AddFile
<1> QED BY <1>1, <1>5, <1>11, <1>13, <1>14, <1>15 DEF Entries

\* Two TApps of the database do not start at the same place.
LEMMA PlacesApart ==
  ASSUME NEW files \in Seq(File), NEW i \in 1..Len(files), NEW k \in 1..Len(files),
         Start(files, i) = Start(files, k)
  PROVE  i = k
<1>1. /\ \A j \in 1..Len(files) : Start(files, j) \in Nat
      /\ \A j, l \in 1..Len(files) : j < l => Start(files, j) < Start(files, l)
  BY StartIncreases
<1>2. ~(i < k) /\ ~(k < i)
  BY <1>1
<1> QED BY <1>2

LEMMA IInvInit == Init => IInv
<1> SUFFICES ASSUME Init PROVE IInv
  OBVIOUS
<1>1. Types /\ Loading /\ HeldRight
  BY HeldInit DEF HeldInv
<1>2. BufferSize \in Nat /\ BufferSize >= 4
  BY TocAssumption DEF HdrSize
<1>3. Entries
  <2>1. CASE /\ stage = "tool" /\ shipped = FALSE /\ db = << >>
             /\ toc = WriteHeader(Empty, 0) /\ left = BufferSize - HdrSize
    <3>1. 1 \in DOMAIN toc => toc[1] = 0
      BY <2>1 DEF WriteHeader, Put
    <3>2. 1 \in DOMAIN toc
      BY <1>1, <1>2 DEF Types
    <3> QED BY <1>2, <2>1, <3>1, <3>2 DEF Entries, Fit, HdrSize, EntrySize
  <2>2. CASE stage = "server" /\ shipped = TRUE /\ db \in Directories /\ toc = TocOf(db)
    <3>1. Len(db) <= Fit
      <4>1. PICK n \in 0..Fit : db \in [1..n -> File]
        BY <2>2 DEF Directories
      <4>2. n \in Nat
        BY <4>1, TocAssumption DEF Fit, HdrSize, EntrySize
      <4>3. Len(db) = n
        BY <1>1, <4>1, <4>2, LenProperties DEF Types
      <4> QED BY <4>1, <4>3
    <3> QED BY <1>1, <2>2, <3>1, TocLaidOut DEF Entries, Types
  <2> QED BY <2>1, <2>2 DEF Init
<1>4. Searching
  BY <1>1 DEF Init, Searching, Types
<1>5. LoadFindsOwn /\ ShippedFound
  BY DEF Init, LoadFindsOwn, ShippedFound, NotFoundIsAbsent
<1> QED BY <1>1, <1>3, <1>4, <1>5 DEF IInv, HeldInv, FoundInv

LEMMA FoundStep == IInv /\ HeldInv' /\ [Next]_vars => FoundInv'
<1> SUFFICES ASSUME IInv, HeldInv', [Next]_vars PROVE FoundInv'
  OBVIOUS
<1>1. /\ Types /\ Loading /\ Entries /\ Searching
      /\ shipped \/ ThirdWords => LoadFindsOwn
      /\ ShippedFound
  BY DEF IInv, HeldInv, FoundInv
<1>2. Len(db) \in Nat /\ toc[1] = Len(db)
  BY <1>1 DEF Types, Entries
<1>3. UNCHANGED toolVars => Entries'
  BY <1>1 DEF Entries, toolVars, EntryIs
<1>4. UNCHANGED <<toolVars, tapp>> => (shipped' \/ ThirdWords => LoadFindsOwn')
  BY <1>1 DEF LoadFindsOwn, toolVars
<1>5. UNCHANGED <<toolVars, taid>> /\ (result' = "not_found" => result = "not_found") => ShippedFound'
  BY <1>1 DEF ShippedFound, NotFoundIsAbsent, toolVars
<1>6. ASSUME NEW f \in File, AddFile(f) PROVE FoundInv'
  <2>1. stage = "tool" /\ ~shipped /\ ~shipped' /\ UNCHANGED loadVars /\ at = "idle"
    BY <1>1, <1>6 DEF AddFile, Entries, Types, Loading
  <2>2. Entries'
    <3>1. CASE UNCHANGED <<toc, left, db>> /\ stage' = "failed"
      BY <1>1, <2>1, <3>1 DEF Entries
    <3>2. CASE db' = Append(db, f)
      BY <1>1, <1>6, <2>1, <3>2, EntryAdded DEF AddFile
    <3> QED BY <1>6, <3>1, <3>2 DEF AddFile
  <2>3. Searching' /\ ShippedFound'
    BY <1>1, <2>1 DEF Searching, ShippedFound, loadVars
  <2>4. ThirdWords => LoadFindsOwn'
    <3>1. \A k \in 1..Len(db) : k \in 1..Len(db') /\ db'[k] = db[k]
      BY <1>1, <1>6 DEF AddFile, Types
    <3> QED BY <1>1, <2>1, <3>1 DEF LoadFindsOwn, loadVars
  <2> QED BY <2>1, <2>2, <2>3, <2>4 DEF FoundInv
<1>7. CASE WriteToc
  <2>1. UNCHANGED <<shipped, toc, left, db, loadVars>> /\ stage = "tool" /\ stage' = "server" /\ ~shipped
    BY <1>1, <1>7 DEF WriteToc, Entries
  <2>2. at = "idle"
    BY <1>1, <2>1 DEF Types, Loading
  <2>3. Entries' /\ Searching' /\ ShippedFound'
    BY <1>1, <2>1, <2>2 DEF Entries, Searching, ShippedFound, loadVars
  <2>4. ThirdWords => LoadFindsOwn'
    BY <1>1, <2>1 DEF LoadFindsOwn, loadVars
  <2> QED BY <2>1, <2>3, <2>4 DEF FoundInv
<1>8. ASSUME NEW s \in Slot, NEW t \in Taid, Load(s, t) PROVE FoundInv'
  <2>1. /\ UNCHANGED <<toolVars, tapp>> /\ idx' = 0 /\ at' \in {"idle", "header"}
        /\ result' # "not_found"
    BY <1>8 DEF Load, Return
  <2>2. Searching'
    BY <1>2, <2>1 DEF Searching, toolVars
  <2>3. ShippedFound'
    BY <2>1 DEF ShippedFound, NotFoundIsAbsent
  <2> QED BY <1>3, <1>4, <2>1, <2>2, <2>3 DEF FoundInv
<1>9. CASE ReadHeader
  <2>1. /\ UNCHANGED <<toolVars, slot, taid, idx, tapp>> /\ at = "header" /\ at' \in {"idle", "entry"}
        /\ (result' = "not_found" => result = "not_found")
    BY <1>9 DEF ReadHeader, Return
  <2>2. Searching'
    BY <1>1, <2>1 DEF Searching, toolVars
  <2> QED BY <1>3, <1>4, <1>5, <2>1, <2>2 DEF FoundInv
<1>10. CASE ReadEntry
  <2>1. UNCHANGED <<toolVars, slot, taid, tapp>> /\ at = "entry"
    BY <1>10 DEF ReadEntry
  <2>2. ASSUME shipped
        PROVE  idx <= Len(db) /\ \A k \in 1..idx : db[k].taid # taid
    BY <1>1, <2>1, <2>2 DEF Searching
  <2>3. CASE More(idx) /\ Matches(idx) /\ at' = "load" /\ UNCHANGED <<idx, held, result>>
    <3>1. Searching'
      BY <2>1, <2>3 DEF Searching, More, Matches, Words, toolVars
    <3> QED BY <1>3, <1>4, <1>5, <2>1, <2>3, <3>1 DEF FoundInv
  <2>4. CASE More(idx) /\ ~Matches(idx) /\ idx' = idx + 1 /\ UNCHANGED <<at, held, result>>
    <3>1. ASSUME shipped
          PROVE  idx' <= Len(db) /\ \A k \in 1..idx' : db[k].taid # taid
      <4>1. idx \in Nat /\ idx + 1 \in 1..Len(db)
        BY <1>1, <1>2, <2>4 DEF Types, More
      <4>2. db[idx + 1].taid # taid
        <5>1. PICK k \in 1..Len(db) : k = idx + 1
          BY <4>1
        <5>2. EntryIs(toc, k, db[k], Start(db, k))
          BY <1>1, <3>1 DEF Entries
        <5>3. k - 1 = idx
          BY <4>1, <5>1
        <5> QED BY <1>1, <2>4, <5>1, <5>2, <5>3, EntryMatches
      <4> QED BY <2>2, <2>4, <3>1, <4>1, <4>2
    <3>2. Searching'
      BY <2>1, <2>4, <3>1 DEF Searching, toolVars
    <3> QED BY <1>3, <1>4, <1>5, <2>1, <2>4, <3>2 DEF FoundInv
  <2>5. CASE ~More(idx) /\ Return("not_found") /\ UNCHANGED idx
    <3>1. Searching'
      BY <2>1, <2>5 DEF Searching, Return
    <3>2. shipped => \A k \in 1..Len(db) : db[k].taid # taid
      <4>1. idx \in Nat /\ idx >= Len(db)
        BY <1>1, <1>2, <2>5 DEF Types, More
      <4> QED BY <1>2, <2>2, <4>1
    <3>3. ShippedFound'
      BY <2>1, <3>2 DEF ShippedFound, NotFoundIsAbsent, toolVars
    <3> QED BY <1>3, <1>4, <2>1, <3>1, <3>3 DEF FoundInv
  <2>6. CASE More(idx) /\ Return("read_failed") /\ UNCHANGED idx
    <3>1. Searching'
      BY <2>1, <2>6 DEF Searching, Return
    <3>2. result' # "not_found"
      BY <2>6 DEF Return
    <3> QED BY <1>3, <1>4, <1>5, <2>1, <3>1, <3>2 DEF FoundInv
  <2> QED BY <1>10, <2>3, <2>4, <2>5, <2>6 DEF ReadEntry
<1>11. CASE PlatformLoad
  <2>1. /\ UNCHANGED <<toolVars, slot, taid, idx>> /\ at = "load" /\ at' = "idle"
        /\ result' # "not_found"
    BY <1>11 DEF PlatformLoad
  <2>2. Searching' /\ ShippedFound'
    BY <2>1 DEF Searching, ShippedFound, NotFoundIsAbsent
  <2>3. ASSUME shipped \/ ThirdWords PROVE LoadFindsOwn'
    <3>1. CASE tapp' = tapp
      BY <1>4, <2>1, <2>3, <3>1 DEF toolVars
    <3>2. ASSUME NEW k \in 1..Len(db),
                 Start(db, k) = toc[EntryAt(idx) + TaidSize + 1],
                 tapp' = [tapp EXCEPT ![slot] =
                   [asked |-> taid, info |-> db[k].taid, code |-> toc[EntryAt(idx) + TaidSize] - InfoSize]]
          PROVE  LoadFindsOwn'
      <4>1. idx \in Nat /\ idx + 1 \in 1..Len(db) /\ Matches(idx)
        BY <1>1, <1>2, <2>1 DEF Types, Searching, More
      <4>2. PICK e \in 1..Len(db) : e = idx + 1
        BY <4>1
      <4>3. e - 1 = idx
        BY <4>1, <4>2
      <4>4. shipped
        <5> SUFFICES ASSUME ~shipped PROVE FALSE
          OBVIOUS
        <5>1. toc[EntryAt(idx) + 2] = 0
          BY <1>1, <4>3 DEF Entries
        <5>2. Words(EntryAt(idx), TaidSize)[3] = toc[EntryAt(idx) + 2]
          <6>1. EntryAt(idx) \in Int
            BY <4>1 DEF EntryAt, HdrSize, EntrySize
          <6>2. EntryAt(idx) + 3 - 1 = EntryAt(idx) + 2
            BY <6>1
          <6> QED BY <6>2 DEF Words, TaidSize
        <5>3. taid[3] # 0
          BY <1>1, <2>3 DEF ThirdWords, Types
        <5> QED BY <4>1, <5>1, <5>2, <5>3 DEF Matches
      <4>5. EntryIs(toc, e, db[e], Start(db, e))
        BY <1>1, <4>4 DEF Entries
      <4>6. db[e].taid = taid
        BY <1>1, <4>1, <4>3, <4>5, EntryMatches
      <4>7. e = k
        BY <1>1, <3>2, <4>3, <4>5, PlacesApart DEF EntryIs, Types
      <4>8. toc[EntryAt(idx) + TaidSize] = db[k].size
        BY <4>3, <4>5, <4>7 DEF EntryIs
      <4>9. /\ tapp'[slot].asked = taid /\ tapp'[slot].info = taid
            /\ tapp'[slot].code = db[k].size - InfoSize
            /\ \A s \in Slot \ {slot} : tapp'[s] = tapp[s]
        BY <1>1, <3>2, <4>6, <4>7, <4>8 DEF Types
      <4> QED BY <1>1, <2>1, <2>3, <4>6, <4>7, <4>9 DEF LoadFindsOwn, toolVars, Types
    <3> QED BY <1>11, <3>1, <3>2 DEF PlatformLoad
  <2>4. shipped' = shipped
    BY <2>1 DEF toolVars
  <2> QED BY <1>3, <2>1, <2>2, <2>3, <2>4 DEF FoundInv
<1>12. ASSUME NEW s \in Slot, Unload(s) PROVE FoundInv'
  <2>1. /\ UNCHANGED <<toolVars, at, slot, taid, idx, result>> /\ at = "idle"
        /\ tapp' = [tapp EXCEPT ![s] = None]
    BY <1>12 DEF Unload
  <2>2. Searching'
    BY <2>1 DEF Searching
  <2>3. shipped' \/ ThirdWords => LoadFindsOwn'
    BY <1>1, <2>1 DEF LoadFindsOwn, toolVars, Types
  <2> QED BY <1>3, <1>5, <2>1, <2>2, <2>3 DEF FoundInv
<1>13. CASE UNCHANGED vars
  <2>1. UNCHANGED <<toolVars, loadVars>>
    BY <1>13 DEF vars
  <2>2. Searching'
    BY <1>1, <2>1 DEF Searching, toolVars, loadVars, More, Matches, Words
  <2> QED BY <1>3, <1>4, <1>5, <2>1, <2>2 DEF FoundInv, loadVars
<1> QED BY <1>6, <1>7, <1>8, <1>9, <1>10, <1>11, <1>12, <1>13 DEF Next

LEMMA Invariance == Spec => []IInv
<1>1. IInv /\ [Next]_vars => IInv'
  BY HeldStep, FoundStep DEF IInv
<1> QED BY <1>1, IInvInit, PTL DEF Spec

\* A session runs the TApp it asked for, all of its code and nothing else, where
\* the table is one that is laid out as sk_swld_tapp.h says.
THEOREM ShippedLoadsOwn == Spec => [](shipped => LoadFindsOwn)
<1>1. IInv => (shipped => LoadFindsOwn)
  BY DEF IInv, FoundInv
<1> QED BY <1>1, Invariance, PTL

\* The same for the tables of the tool as well, where no TAID has a third word
\* of zeros: the entries of the tool then match no TAID.  Such a TAID could match
\* the size and the address written in the place of one.
THEOREM LoadsOwn ==
  ASSUME ThirdWords
  PROVE  Spec => []LoadFindsOwn
<1>1. IInv => LoadFindsOwn
  BY DEF IInv, FoundInv
<1> QED BY <1>1, Invariance, PTL

\* The search of a table laid out as sk_swld_tapp.h says misses no TApp.
THEOREM SearchComplete == Spec => []ShippedFound
<1>1. IInv => ShippedFound
  BY DEF IInv, FoundInv
<1> QED BY <1>1, Invariance, PTL
=============================================================================
