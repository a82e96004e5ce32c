------------------------------ MODULE TappToc ------------------------------
(***************************************************************************)
(* From the tool that builds the table of contents (TOC) and the database  *)
(* of TApps, to tapp_load, which looks a TApp up in them.                  *)
(*                                                                         *)
(* The TOC is a buffer of words of four bytes: all positions and lengths   *)
(* in it are multiples of four.  The database is the TApp files one after  *)
(* another; of a file its TAID and its size matter.                        *)
(***************************************************************************)
EXTENDS Integers, Sequences, SequencesExt

CONSTANTS
  Taid,       \* the TAIDs of the TApps and the one nobody has
  Size,       \* the sizes of TApp files
  InfoSize,   \* TAPPS_INFO_DATA_SIZE, the manifest in front of the code
  MaxFiles,   \* bound of the model: TApps in the directory
  BufferSize, \* MAX_BUFFER_SIZE, in words
  Slot        \* the server's sessions, each with its TApp instance

HdrSize   == 4   \* TAPP_TOC_INDEX_HDR_TOTAL_SIZE
TaidSize  == 4   \* TAPP_TOC_INDEX_ENTRY_TAID_SIZE
AddrSize  == 8   \* TAPP_TOC_INDEX_ENTRY_ADDR_SIZE
EntrySize == 21  \* TAPP_TOC_INDEX_ENTRY_TOTAL_SIZE: 8 words are reserved
Cookie    == 918652582  \* TAPP_TOC_INDEX_HDR_COOKIE
Modulus   == 2^30       \* a uint32_t of bytes, in words

Fit == (BufferSize - HdrSize) \div EntrySize

\* The tool also adds an entry to a buffer that holds its front part only, and
\* then buffer_size wraps.  It takes 390 TApps to get there, and this model
\* stays clear of it.
ASSUME TocAssumption ==
  /\ \A t \in Taid : t \in [1..TaidSize -> Nat]
  /\ InfoSize \in Nat \ {0}
  /\ \A n \in Size : n \in Nat /\ n >= InfoSize
  /\ MaxFiles \in Nat
  /\ BufferSize \in HdrSize..(Modulus - 1)
  /\ \/ MaxFiles <= Fit
     \/ (BufferSize - HdrSize) % EntrySize < TaidSize + AddrSize

VARIABLES
  stage,   \* "tool", "failed" (the tool gave up), "server"
  shipped, \* the TOC came with the code and not from the tool
  toc,     \* the tool's buffer, later the TOC file
  left,    \* buffer_size of the tool
  db,      \* the database: a sequence of files
  at,      \* where tapp_load is
  slot, taid,  \* its arguments
  idx,     \* i of its loop
  held,    \* open files and allocated memory
  tapp,    \* tapp[s]: arch_obj of session s, and what was asked for
  result   \* of the last tapp_load

toolVars == <<stage, shipped, toc, left, db>>
loadVars == <<at, slot, taid, idx, held, tapp, result>>
vars     == <<toolVars, loadVars>>

File == [taid : Taid, size : Size]
None == [asked |-> <<>>, info |-> <<>>, code |-> 0]

\* Files one after another: where the k-th starts.
Start(files, k) ==
  LET start[j \in 1..k] == IF j = 1 THEN 0 ELSE start[j - 1] + files[j - 1].size
  IN start[k]

Words(a, n)   == [k \in 1..n |-> toc[a + k - 1]]
Put(t, a, ws) == [x \in DOMAIN t |-> IF x \in a..(a + Len(ws) - 1) THEN ws[x - a + 1] ELSE t[x]]

WriteHeader(t, entries) == Put(t, 0, <<Cookie, entries>>)

\* An address is 32 bytes of which the tool sets the first four.
Address(n) == [k \in 1..AddrSize |-> IF k = 1 THEN n ELSE 0]

Empty == [x \in 0..(BufferSize - 1) |-> 0]

\* The words of an entry that are set, for the k-th file.
EntryOf(files, k) == files[k].taid \o <<files[k].size>> \o Address(Start(files, k))

\* A TOC as the header file lays it out: the word x is word offset(x) of the
\* entry number(x), or in the header.
TocOf(files) ==
  LET number(x) == ((x - HdrSize) \div EntrySize) + 1
      offset(x) == ((x - HdrSize) % EntrySize) + 1
  IN [x \in DOMAIN Empty |->
       IF x < HdrSize THEN WriteHeader(Empty, Len(files))[x]
       ELSE IF number(x) <= Len(files) /\ offset(x) <= TaidSize + 1 + AddrSize
            THEN EntryOf(files, number(x))[offset(x)] ELSE 0]

Directories == {s \in UNION {[1..n -> File] : n \in 0..Fit} : IsInjective(s)}

\* The tool starts with a header, or there is a TOC like the one of the demo.
Init ==
  /\ \/ /\ stage = "tool" /\ shipped = FALSE
        /\ toc = WriteHeader(Empty, 0)
        /\ left = BufferSize - HdrSize
        /\ db = <<>>
     \/ /\ stage = "server" /\ shipped = TRUE
        /\ left = 0
        /\ db \in Directories
        /\ toc = TocOf(db)
  /\ at = "idle"
  /\ slot \in Slot /\ taid \in Taid /\ idx = 0
  /\ held = {}
  /\ tapp = [s \in Slot |-> None]
  /\ result = "none"

-----------------------------------------------------------------------------
(* The tool: one file of the directory.                                    *)

\* tapp_toc_add_entry: neither memory copy moves the pointer, only the size in
\* between does.
AddEntry(f) ==
  LET a == HdrSize + toc[1] * EntrySize
  IN WriteHeader(Put(Put(Put(toc, a, f.taid), a, <<f.size>>), a + 1, Address(Start(db, Len(db) + 1))),
                 toc[1] + 1)

AddFile(f) ==
  /\ stage = "tool"
  /\ Len(db) < MaxFiles
  /\ f \notin ToSet(db)
  /\ \/ /\ left >= TaidSize + AddrSize
        /\ toc' = AddEntry(f)
        /\ left' = (left - EntrySize) % Modulus
        /\ db' = Append(db, f)
        /\ UNCHANGED stage
     \/ /\ left < TaidSize + AddrSize
        /\ stage' = "failed"
        /\ UNCHANGED <<toc, left, db>>
  /\ UNCHANGED <<shipped, loadVars>>

\* The TOC is written, and the server started with it.
WriteToc ==
  /\ stage = "tool"
  /\ stage' = "server"
  /\ UNCHANGED <<shipped, toc, left, db, loadVars>>

-----------------------------------------------------------------------------
(* tapp_load and tapp_unload.                                              *)

\* A bug: the TOC stays open if the entry is not in it.
ReturnOpen(status) ==
  /\ at' = "idle"
  /\ result' = status
  /\ held' = IF status = "not_found" THEN held ELSE held \ {<<"toc", slot>>}

\* DONE: of tapp_load.
Return(status) ==
  /\ at' = "idle"
  /\ result' = status
  /\ held' = held \ {<<"toc", slot>>}

\* The server loads a TApp into a session slot without one.
Load(s, t) ==
  /\ stage = "server" /\ at = "idle"
  /\ tapp[s] = None
  /\ slot' = s /\ taid' = t /\ idx' = 0
  /\ \/ at' = "header" /\ held' = held \union {<<"toc", s>>} /\ result' = "none"
     \/ Return("open_failed")
  /\ UNCHANGED <<toolVars, tapp>>

\* A read can fail at any place; otherwise the cookie is looked at.
ReadHeader ==
  /\ at = "header"
  /\ \/ toc[0] = Cookie /\ at' = "entry" /\ UNCHANGED <<result, held>>
     \/ Return("read_failed")
  /\ UNCHANGED <<toolVars, slot, taid, idx, tapp>>

EntryAt(i) == HdrSize + i * EntrySize

\* A bug: the last words of the TAID are not compared.
MatchesShort(i) == Words(EntryAt(i), 2) = SubSeq(taid, 1, 2)

Matches(i) == Words(EntryAt(i), TaidSize) = taid

\* A bug: the last entry is not looked at.
MoreButOne(i) == i + 1 < toc[1]

More(i) == i < toc[1]

ReadEntry ==
  /\ at = "entry"
  /\ \/ More(idx) /\ Matches(idx) /\ at' = "load" /\ UNCHANGED <<idx, held, result>>
     \/ More(idx) /\ ~Matches(idx) /\ idx' = idx + 1 /\ UNCHANGED <<at, held, result>>
     \/ ~More(idx) /\ Return("not_found") /\ UNCHANGED idx
     \/ More(idx) /\ Return("read_failed") /\ UNCHANGED idx
  /\ UNCHANGED <<toolVars, slot, taid, tapp>>

\* What sk_swld_platform_tapp_load acquires, in this order, before it seeks and
\* reads the manifest and the code.
Acquired(n) == {<<r, slot>> : r \in ToSet(SubSeq(<<"obj", "manifest", "code", "db">>, 1, n))}

\* What it gives back in the end.
Released(ok) ==
  {<<r, slot>> : r \in IF ok THEN {"db", "manifest"} ELSE {"db", "manifest", "obj", "code"}}

\* It succeeds, or fails after n of its four acquisitions.
PlatformLoad ==
  /\ at = "load"
  /\ \/ \E k \in 1..Len(db) :
          LET e == EntryAt(idx)
          IN /\ Start(db, k) = toc[e + TaidSize + 1]
             /\ tapp' = [tapp EXCEPT ![slot] =
                  [asked |-> taid, info |-> db[k].taid, code |-> toc[e + TaidSize] - InfoSize]]
             /\ held' = ((held \union Acquired(4)) \ Released(TRUE)) \ {<<"toc", slot>>}
             /\ result' = "ok"
     \/ \E n \in 0..4 :
          /\ held' = ((held \union Acquired(n)) \ Released(FALSE)) \ {<<"toc", slot>>}
          /\ result' = "load_failed"
          /\ UNCHANGED tapp
  /\ at' = "idle"
  /\ UNCHANGED <<toolVars, slot, taid, idx>>

\* tapp_unload, for a session that has its TApp.
Unload(s) ==
  /\ at = "idle"
  /\ tapp[s] # None
  /\ held' = held \ {<<"obj", s>>, <<"code", s>>}
  /\ tapp' = [tapp EXCEPT ![s] = None]
  /\ UNCHANGED <<toolVars, at, slot, taid, idx, result>>

Next ==
  \/ \E f \in File : AddFile(f)
  \/ WriteToc
  \/ \E s \in Slot, t \in Taid : Load(s, t)
  \/ ReadHeader \/ ReadEntry \/ PlatformLoad
  \/ \E s \in Slot : Unload(s)

Spec == Init /\ [][Next]_vars
-----------------------------------------------------------------------------
(* Properties.                                                             *)

\* A session runs the TApp it asked for and all of its code: TAIDs in the TOC,
\* addresses and sizes into the database, and the manifests there, which
\* tapp_load does not compare with the TAID, belong together.
LoadFindsOwn ==
  \A s \in Slot : tapp[s] # None =>
    /\ tapp[s].info = tapp[s].asked
    /\ \E k \in 1..Len(db) : /\ db[k].taid = tapp[s].asked
                             /\ tapp[s].code = db[k].size - InfoSize

\* Between calls, the memory of the loaded TApps is all that is held: no
\* failure leaves a file open or memory allocated.
NothingLeaked ==
  at = "idle" => held = {"obj", "code"} \X {s \in Slot : tapp[s] # None}

NotFoundIsAbsent ==
  result = "not_found" => \A k \in 1..Len(db) : db[k].taid # taid

\* In a TOC laid out as sk_swld_tapp.h says the search misses no entry.
ShippedFound == shipped => NotFoundIsAbsent

\* sk_swld_tapp.h says an entry is [TAID (16 bytes)][Size (4 bytes)]...: a TApp
\* the tool has added is found.
BuiltFound == ~shipped => NotFoundIsAbsent
=============================================================================
