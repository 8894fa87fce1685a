--------------------------- MODULE HandlesProofs ---------------------------
(***************************************************************************)
(* What the library keeps allocated, for every number of handles, of       *)
(* entries, of lists of scripts and of redirections: the heap is made of   *)
(* the blocks of the handles that are held, and of what has been lost.     *)
(*                                                                         *)
(* The argument: each destructor frees what the constructor of the same    *)
(* kind allocates (Pairs), blocks of different owners are different        *)
(* (LibOwner, ResultOwner, LossOwner), so an action that changes the       *)
(* blocks of one owner leaves the rest of the heap as it is (ReplaceLib,   *)
(* ReplaceResult, LoseMore), and what a call allocates for itself never    *)
(* meets what there is (TouchStep).                                        *)
(***************************************************************************)
EXTENDS Handles, FiniteSetTheorems, TLAPS

Owners == Quvis \cup Results

\* The blocks of a library handle and of a result handle, by their records.
LibBlocks(q, l) == IF l = NoLib THEN {} ELSE QuviNewBlocks(q, l) \cup Headers(q, l)

ResultBlocks(r, s) == IF s = NoResult THEN {} ELSE ResultNew(r, s.kind, s.entries)

Losses(ls) == UNION {Lost(ls[n], n) : n \in 1 .. Len(ls)}

\* The heap that belongs to some library handles, result handles and losses.
HeapOf(libs, results, ls) ==
  (UNION {LibBlocks(q, libs[q]) : q \in Quvis})
    \cup (UNION {ResultBlocks(r, results[r]) : r \in Results})
    \cup Losses(ls)
-----------------------------------------------------------------------------
\* Every destructor frees exactly what its constructor has allocated.
LEMMA Pairs ==
  /\ \A kind \in Kinds : Constructed[kind] = Destroyed[kind]
  /\ \A kind \in Kinds : EntryConstructed(kind) = EntryDestroyed(kind)
  /\ NetNew = NetFree
  /\ ScriptNew = ScriptFree
  /\ OptsNew = OptsFree
  /\ LibraryNew = LibraryFree
  /\ \A f \in ScriptCalls : TransientNew(f) = TransientFree(f)
<1>1. /\ MediaNew = MediaFree
      /\ StreamNew = StreamFree
      /\ PlaylistNew = PlaylistFree
      /\ ItemNew = ItemFree
  BY DEF MediaNew, MediaFree, StreamNew, StreamFree, PlaylistNew, PlaylistFree,
         ItemNew, ItemFree
<1>2. /\ SubtitleNew = SubtitleFree
      /\ TypeNew = TypeFree
      /\ LangNew = LangFree
      /\ ExportNew = ExportFree
  BY DEF SubtitleNew, SubtitleFree, TypeNew, TypeFree, LangNew, LangFree, ExportNew, ExportFree
<1>3. /\ ScanNew = ScanFree
      /\ ScanUrlNew = ScanUrlFree
      /\ ResolveNew = ResolveFree
      /\ MetainfoNew = MetainfoFree
      /\ FileExtNew = FileExtFree
  BY DEF ScanNew, ScanFree, ScanUrlNew, ScanUrlFree, ResolveNew, ResolveFree,
         MetainfoNew, MetainfoFree, FileExtNew, FileExtFree
<1>4. /\ NetNew = NetFree
      /\ ScriptNew = ScriptFree
      /\ OptsNew = OptsFree
      /\ LibraryNew = LibraryFree
  BY DEF NetNew, NetFree, ScriptNew, ScriptFree, OptsNew, OptsFree, LibraryNew, LibraryFree
<1>5. \A kind \in Kinds : Constructed[kind] = Destroyed[kind]
  BY <1>1, <1>2, <1>3 DEF Kinds, Constructed, Destroyed
<1>6. \A kind \in Kinds : EntryConstructed(kind) = EntryDestroyed(kind)
  BY <1>1, <1>2, <1>3 DEF Kinds, EntryConstructed, EntryDestroyed
<1>7. \A f \in ScriptCalls : TransientNew(f) = TransientFree(f)
  <2>1. CryptoNew = CryptoFree
    BY DEF CryptoNew, CryptoFree
  <2>. QED BY <1>3, <1>4, <2>1 DEF ScriptCalls, TransientNew, TransientFree
<1>. QED BY <1>4, <1>5, <1>6, <1>7

\* What the constructors allocate is held by the pointers there are.
LEMMA Fields ==
  /\ \A kind \in Kinds : Constructed[kind] \subseteq Pointers /\ kind \in Constructed[kind]
  /\ \A kind \in Kinds : EntryConstructed(kind) \subseteq Pointers
  /\ NetNew \subseteq Pointers
  /\ ScriptNew \subseteq Pointers
  /\ LibraryNew \subseteq Pointers /\ "quvi" \in LibraryNew
  /\ \A f : TransientNew(f) \subseteq Pointers
<1>1. \A F \in {MediaNew, StreamNew, PlaylistNew, ItemNew, SubtitleNew, TypeNew, LangNew,
                ExportNew, ScanNew, ScanUrlNew, ResolveNew, MetainfoNew, FileExtNew,
                NetNew, ScriptNew, OptsNew, CryptoNew, LibraryNew, {"contents"}, {"errmsg"}} : F \subseteq Pointers
  BY DEF Pointers, CryptoNew
<1>2. /\ "media" \in MediaNew /\ "playlist" \in PlaylistNew /\ "subtitle" \in SubtitleNew
      /\ "export" \in ExportNew /\ "scan" \in ScanNew /\ "resolve" \in ResolveNew
      /\ "metainfo" \in MetainfoNew /\ "file_ext" \in FileExtNew /\ "quvi" \in LibraryNew
  BY DEF MediaNew, PlaylistNew, SubtitleNew, ExportNew, ScanNew, ResolveNew, MetainfoNew,
         FileExtNew, LibraryNew
<1>3. \A kind \in Kinds : Constructed[kind] \subseteq Pointers /\ kind \in Constructed[kind]
  BY <1>1, <1>2 DEF Kinds, Constructed
<1>4. \A kind \in Kinds : EntryConstructed(kind) \subseteq Pointers
  BY <1>1 DEF Kinds, EntryConstructed
<1>5. \A f : TransientNew(f) \subseteq Pointers
  BY <1>1 DEF TransientNew
<1>. QED BY <1>1, <1>2, <1>3, <1>4, <1>5

\* A part of an owner belongs to that owner and is that part.
LEMMA PartBlocks ==
  ASSUME NEW o, NEW part, NEW n, NEW fields, NEW b \in Part(o, part, n, fields)
  PROVE  b[1] = o /\ b[2] = part /\ b[3] = n
  BY DEF Part

LEMMA PartType ==
  ASSUME NEW o \in Owners \cup {"call", "lost"}, NEW part \in Parts, NEW n \in Nat,
         NEW fields \in SUBSET Pointers
  PROVE  Part(o, part, n, fields) \subseteq Block
  BY DEF Part, Block, Owners
-----------------------------------------------------------------------------
(* Blocks of different owners are different.                                *)

LEMMA LibOwner ==
  ASSUME NEW q, NEW l, NEW b \in QuviNewBlocks(q, l) \cup Headers(q, l)
  PROVE  b[1] = q
<1>1. ASSUME NEW part, NEW has, b \in Optional(q, part, has) PROVE b[1] = q
  BY <1>1, PartBlocks DEF Optional
<1>2. ASSUME NEW fields, b \in Scripts(q, l, fields) PROVE b[1] = q
  BY <1>2, PartBlocks DEF Scripts
<1>3. CASE b \in Headers(q, l)
  BY <1>1, <1>3 DEF Headers
<1>4. CASE b \in Part(q, "handle", 0, LibraryNew)
  BY <1>4, PartBlocks
<1>. QED BY <1>1, <1>2, <1>3, <1>4 DEF QuviNewBlocks

LEMMA ResultOwner ==
  ASSUME NEW r, NEW kind, NEW n, NEW b \in ResultNew(r, kind, n)
  PROVE  b[1] = r
  BY PartBlocks DEF ResultNew, Entries

LEMMA LossOwner ==
  ASSUME NEW f, NEW n, NEW b \in Lost(f, n)
  PROVE  b[1] = "lost" /\ b[3] = n
  BY PartBlocks DEF Lost

LEMMA InHeapOf ==
  ASSUME NEW libs, NEW results, NEW ls, NEW b
  PROVE  b \in HeapOf(libs, results, ls) <=> \/ \E q \in Quvis : b \in LibBlocks(q, libs[q])
                                             \/ \E r \in Results : b \in ResultBlocks(r, results[r])
                                             \/ b \in Losses(ls)
<1>1. b \in UNION {LibBlocks(q, libs[q]) : q \in Quvis}
        <=> \E q \in Quvis : b \in LibBlocks(q, libs[q])
  OBVIOUS
<1>2. b \in UNION {ResultBlocks(r, results[r]) : r \in Results}
        <=> \E r \in Results : b \in ResultBlocks(r, results[r])
  OBVIOUS
<1>. QED BY <1>1, <1>2 DEF HeapOf

\* The blocks of a heap belong to handles or are lost: none to a call.
LEMMA HeapOwners ==
  ASSUME NEW libs, NEW results, NEW ls, NEW b \in HeapOf(libs, results, ls)
  PROVE  \/ b[1] \in Quvis /\ b \in LibBlocks(b[1], libs[b[1]])
         \/ b[1] \in Results /\ b \in ResultBlocks(b[1], results[b[1]])
         \/ b[1] = "lost" /\ b \in Losses(ls) /\ b[3] \in 1 .. Len(ls)
<1>1. ASSUME NEW q \in Quvis, b \in LibBlocks(q, libs[q]) PROVE b[1] = q
  BY <1>1, LibOwner DEF LibBlocks
<1>2. ASSUME NEW r \in Results, b \in ResultBlocks(r, results[r]) PROVE b[1] = r
  BY <1>2, ResultOwner DEF ResultBlocks
<1>3. ASSUME b \in Losses(ls) PROVE b[1] = "lost" /\ b[3] \in 1 .. Len(ls)
  BY <1>3, LossOwner DEF Losses
<1>. QED BY <1>1, <1>2, <1>3, InHeapOf

\* A heap in which some blocks take the place of others.
Exchange(h, old, new) == (h \ old) \cup new

LEMMA ReplaceLib ==
  \A q \in Quvis : \A libs, new, results, ls :
    (\A p \in Quvis : p = q \/ new[p] = libs[p])
      => HeapOf(new, results, ls)
           = Exchange(HeapOf(libs, results, ls), LibBlocks(q, libs[q]), LibBlocks(q, new[q]))
<1>. SUFFICES ASSUME NEW q \in Quvis, NEW libs, NEW new, NEW results, NEW ls,
                     \A p \in Quvis : p = q \/ new[p] = libs[p]
              PROVE  HeapOf(new, results, ls)
                       = (HeapOf(libs, results, ls) \ LibBlocks(q, libs[q]))
                           \cup LibBlocks(q, new[q])
  BY Zenon DEF Exchange
<1>1. ASSUME NEW l, NEW b \in LibBlocks(q, l) PROVE b[1] = q
  BY <1>1, LibOwner DEF LibBlocks
<1>2. q \notin Results /\ q # "lost"
  BY QuvisAssumption
<1>3. ASSUME NEW b \in HeapOf(new, results, ls), b[1] # q
      PROVE  b \in HeapOf(libs, results, ls)
  BY <1>3, HeapOwners, InHeapOf
<1>4. ASSUME NEW b \in HeapOf(libs, results, ls), b[1] # q
      PROVE  b \in HeapOf(new, results, ls)
  BY <1>4, HeapOwners, InHeapOf
<1>5. ASSUME NEW b \in HeapOf(new, results, ls), b[1] = q
      PROVE  b \in LibBlocks(q, new[q])
  BY <1>2, <1>5, HeapOwners
<1>6. ASSUME NEW b \in HeapOf(libs, results, ls), b[1] = q
      PROVE  b \in LibBlocks(q, libs[q])
  BY <1>2, <1>6, HeapOwners
<1>7. LibBlocks(q, new[q]) \subseteq HeapOf(new, results, ls)
  BY InHeapOf
<1>. QED BY <1>1, <1>3, <1>4, <1>5, <1>6, <1>7

LEMMA ReplaceResult ==
  \A r \in Results : \A libs, results, new, ls :
    (\A p \in Results : p = r \/ new[p] = results[p])
      => HeapOf(libs, new, ls)
           = Exchange(HeapOf(libs, results, ls), ResultBlocks(r, results[r]),
                      ResultBlocks(r, new[r]))
<1>. SUFFICES ASSUME NEW r \in Results, NEW libs, NEW results, NEW new, NEW ls,
                     \A p \in Results : p = r \/ new[p] = results[p]
              PROVE  HeapOf(libs, new, ls)
                       = (HeapOf(libs, results, ls) \ ResultBlocks(r, results[r]))
                           \cup ResultBlocks(r, new[r])
  BY Zenon DEF Exchange
<1>1. ASSUME NEW s, NEW b \in ResultBlocks(r, s) PROVE b[1] = r
  BY <1>1, ResultOwner DEF ResultBlocks
<1>2. r \notin Quvis /\ r # "lost"
  BY QuvisAssumption
<1>3. ASSUME NEW b \in HeapOf(libs, new, ls), b[1] # r
      PROVE  b \in HeapOf(libs, results, ls)
  BY <1>3, HeapOwners, InHeapOf
<1>4. ASSUME NEW b \in HeapOf(libs, results, ls), b[1] # r
      PROVE  b \in HeapOf(libs, new, ls)
  BY <1>4, HeapOwners, InHeapOf
<1>5. ASSUME NEW b \in HeapOf(libs, new, ls), b[1] = r
      PROVE  b \in ResultBlocks(r, new[r])
  BY <1>2, <1>5, HeapOwners
<1>6. ASSUME NEW b \in HeapOf(libs, results, ls), b[1] = r
      PROVE  b \in ResultBlocks(r, results[r])
  BY <1>2, <1>6, HeapOwners
<1>7. ResultBlocks(r, new[r]) \subseteq HeapOf(libs, new, ls)
  BY InHeapOf
<1>. QED BY <1>1, <1>3, <1>4, <1>5, <1>6, <1>7

LEMMA LoseMore ==
  ASSUME NEW libs, NEW results, NEW ls \in Seq(LosingCalls), NEW f \in LosingCalls
  PROVE  HeapOf(libs, results, Append(ls, f))
           = HeapOf(libs, results, ls) \cup Lost(f, Len(ls) + 1)
<1>1. Losses(Append(ls, f)) = Losses(ls) \cup Lost(f, Len(ls) + 1)
  BY DEF Losses
<1>. QED BY <1>1, InHeapOf

\* The heap depends on the results only through their blocks.
LEMMA SameBlocks ==
  ASSUME NEW libs, NEW results, NEW new, NEW ls,
         \A r \in Results : ResultBlocks(r, new[r]) = ResultBlocks(r, results[r])
  PROVE  HeapOf(libs, new, ls) = HeapOf(libs, results, ls)
<1>1. ASSUME NEW b PROVE b \in HeapOf(libs, new, ls) <=> b \in HeapOf(libs, results, ls)
  BY InHeapOf
<1>. HIDE DEF HeapOf
<1>. QED BY <1>1 DEF HeapOf

\* What may be in the heap at all.
LEMMA HeapOfType ==
  ASSUME NEW libs \in [Quvis -> Libs], NEW results \in [Results -> ResultRecords],
         \A r \in Results : results[r] = NoResult \/ results[r].kind \in Kinds,
         NEW ls \in Seq(LosingCalls)
  PROVE  HeapOf(libs, results, ls) \subseteq Block
<1>1. ASSUME NEW q \in Quvis PROVE LibBlocks(q, libs[q]) \subseteq Block
  <2>1. {"handle", "script"} \cup OptionalParts \subseteq Parts /\ OptionalParts \subseteq Pointers
    BY DEF Parts, Pointers
  <2>2. ASSUME NEW part \in OptionalParts, NEW has PROVE Optional(q, part, has) \subseteq Block
    <3>1. Part(q, part, 0, {part}) \subseteq Block
      BY <2>1, PartType DEF Owners
    <3>. QED BY <3>1 DEF Optional
  <2>3. Part(q, "handle", 0, LibraryNew) \subseteq Block
    BY <2>1, PartType, Fields DEF Owners
  <2>4. Scripts(q, libs[q], ScriptNew) \subseteq Block
    <3>1. ASSUME NEW k \in 1 .. libs[q].lists PROVE Part(q, "script", k, ScriptNew) \subseteq Block
      <4>1. k \in Nat
        BY DEF Libs
      <4>. QED BY <2>1, <4>1, PartType, Fields DEF Owners
    <3>. QED BY <3>1 DEF Scripts
  <2>5. {"handle.lua", "handle.curl", "handle.proxy", "http.headers"} \subseteq OptionalParts
    BY DEF OptionalParts
  <2>. QED BY <2>2, <2>3, <2>4, <2>5 DEF LibBlocks, QuviNewBlocks, Headers
<1>2. ASSUME NEW r \in Results PROVE ResultBlocks(r, results[r]) \subseteq Block
  <2>1. CASE results[r] = NoResult
    BY <2>1 DEF ResultBlocks
  <2>2. CASE results[r] # NoResult
    <3>. DEFINE kind == results[r].kind
    <3>1. kind \in Kinds /\ results[r].entries \in Nat
      BY <2>2, HandleBoundsAssumption DEF ResultRecords
    <3>2. {"handle", "entry"} \subseteq Parts
      BY DEF Parts
    <3>3. Part(r, "handle", 0, Constructed[kind]) \subseteq Block
      BY <3>1, <3>2, PartType, Fields DEF Owners
    <3>4. Entries(r, results[r].entries, EntryConstructed(kind)) \subseteq Block
      <4>1. ASSUME NEW i \in 1 .. results[r].entries
            PROVE  Part(r, "entry", i, EntryConstructed(kind)) \subseteq Block
        <5>1. i \in Nat /\ EntryConstructed(kind) \subseteq Pointers
          BY <3>1, Fields
        <5>. QED BY <3>2, <5>1, PartType DEF Owners
      <4>. QED BY <4>1 DEF Entries
    <3>. QED BY <2>2, <3>3, <3>4 DEF ResultBlocks, ResultNew
  <2>. QED BY <2>1, <2>2
<1>3. Losses(ls) \subseteq Block
  <2>1. ASSUME NEW n \in 1 .. Len(ls) PROVE Lost(ls[n], n) \subseteq Block
    <3>1. n \in Nat /\ ls[n] \in Parts
      BY DEF Parts
    <3>2. TransientNew(ls[n]) \subseteq Pointers
      BY Fields
    <3>. QED BY <3>1, <3>2, PartType DEF Lost, Owners
  <2>. QED BY <2>1 DEF Losses
<1>. QED BY <1>1, <1>2, <1>3, InHeapOf
-----------------------------------------------------------------------------
(* The invariant: the properties and what they rest on.                     *)

\* A handle that is held is of some kind, and the library handle it points to
\* is one that quvi_new has finished.
HandlesAreMade ==
  \A r \in Results : /\ result[r] = NoResult \/ result[r].kind \in Kinds
                     /\ result[r].quvi \in Quvis => Usable(result[r].quvi)

HeldInv == /\ HandlesTypeOK
           /\ heap = HeapOf(lib, result, lost)
           /\ ~stray
           /\ HandlesAreMade

LEMMA HeldIsHeapOf == HeapIsHeld <=> heap = HeapOf(lib, result, lost)
<1>. DEFINE U == UNION {Footprint(o) : o \in Quvis \cup Results}
            L == UNION {Lost(lost[n], n) : n \in 1 .. Len(lost)}
<1>1. \A q \in Quvis : Footprint(q) = LibBlocks(q, lib[q])
  BY DEF Footprint, LibBlocks
<1>2. \A r \in Results : Footprint(r) = ResultBlocks(r, result[r])
  BY QuvisAssumption DEF Footprint, ResultBlocks
<1>3. L = Losses(lost)
  BY DEF Losses
<1>4. ASSUME NEW b PROVE b \in HeapOf(lib, result, lost) <=> b \in U \/ b \in L
  <2>1. b \in U <=> \/ \E q \in Quvis : b \in LibBlocks(q, lib[q])
                    \/ \E r \in Results : b \in ResultBlocks(r, result[r])
    BY <1>1, <1>2
  <2>. QED BY <1>3, <2>1, InHeapOf
<1>5. HeapIsHeld <=> heap = U \cup L
  BY DEF HeapIsHeld
<1>. HIDE DEF U, L
<1>6. HeapOf(lib, result, lost) = U \cup L
  BY <1>4
<1>. QED BY <1>5, <1>6

\* The structures of the handles that are held are there.
LEMMA Structs ==
  ASSUME HeldInv
  PROVE  /\ \A q \in Quvis : lib[q] # NoLib => Struct(q, "quvi") \subseteq heap
         /\ \A r \in Results : result[r] # NoResult =>
              /\ Struct(r, result[r].kind) \subseteq heap
              /\ ResultNew(r, result[r].kind, result[r].entries) \subseteq heap
<1>1. ASSUME NEW q \in Quvis, lib[q] # NoLib PROVE Struct(q, "quvi") \subseteq heap
  <2>1. Struct(q, "quvi") \subseteq Part(q, "handle", 0, LibraryNew)
    BY Fields DEF Struct, Part
  <2>2. Part(q, "handle", 0, LibraryNew) \subseteq LibBlocks(q, lib[q])
    BY <1>1 DEF LibBlocks, QuviNewBlocks
  <2>. QED BY <2>1, <2>2, InHeapOf DEF HeldInv
<1>2. ASSUME NEW r \in Results, result[r] # NoResult
      PROVE  /\ Struct(r, result[r].kind) \subseteq heap
             /\ ResultNew(r, result[r].kind, result[r].entries) \subseteq heap
  <2>1. result[r].kind \in Constructed[result[r].kind]
    BY <1>2, Fields DEF HeldInv, HandlesAreMade
  <2>2. Struct(r, result[r].kind) \subseteq Part(r, "handle", 0, Constructed[result[r].kind])
    BY <2>1 DEF Struct, Part
  <2>3. ResultNew(r, result[r].kind, result[r].entries) = ResultBlocks(r, result[r])
    BY <1>2 DEF ResultBlocks
  <2>4. Struct(r, result[r].kind) \subseteq ResultNew(r, result[r].kind, result[r].entries)
    BY <2>2 DEF ResultNew
  <2>. QED BY <2>3, <2>4, InHeapOf DEF HeldInv
<1>. QED BY <1>1, <1>2

\* A call that frees what it has allocated for itself and uses what there is
\* goes astray nowhere, and changes the heap by what it keeps and takes away.
LEMMA TouchStep ==
  HeldInv => \A used, kept, transient, taken :
    /\ Touch(used, kept \cup transient, taken \cup transient)
    /\ used \subseteq heap /\ taken \subseteq heap /\ kept \cap heap = {}
    /\ \A b \in kept : b[1] # "call"
    /\ \A b \in transient : b[1] = "call"
    => stray' = FALSE /\ heap' = (heap \ taken) \cup kept
<1>. SUFFICES ASSUME HeldInv, NEW used, NEW kept, NEW transient, NEW taken,
                     /\ Touch(used, kept \cup transient, taken \cup transient)
                     /\ used \subseteq heap /\ taken \subseteq heap /\ kept \cap heap = {}
                     /\ \A b \in kept : b[1] # "call"
                     /\ \A b \in transient : b[1] = "call"
              PROVE  stray' = FALSE /\ heap' = (heap \ taken) \cup kept
  BY Zenon
<1>1. \A b \in heap : b[1] # "call"
  BY HeapOwners, QuvisAssumption DEF HeldInv
<1>2. transient \cap heap = {} /\ transient \cap kept = {}
  BY <1>1
<1>3. stray' = FALSE
  <2>1. ~stray'
    BY <1>2 DEF Touch, HeldInv
  <2>2. stray' \in BOOLEAN
    BY Zenon DEF Touch
  <2>. QED BY <2>1, <2>2
<1>4. heap' = (heap \cup (kept \cup transient)) \ (taken \cup transient)
  BY DEF Touch
<1>. QED BY <1>2, <1>3, <1>4
-----------------------------------------------------------------------------
(* One lemma for each action.                                               *)

LEMMA InitHolds == HandlesInit => HeldInv
<1>. SUFFICES ASSUME HandlesInit PROVE HeldInv
  OBVIOUS
<1>1. NoLib \in Libs /\ NoResult \in ResultRecords
  BY HandleBoundsAssumption DEF NoLib, Libs, NoResult, ResultRecords
<1>2. lost \in Seq(LosingCalls) /\ Len(lost) = 0
  BY DEF HandlesInit
<1>3. HandlesTypeOK
  BY <1>1, <1>2 DEF HandlesInit, HandlesTypeOK
<1>4. \A q \in Quvis : LibBlocks(q, lib[q]) = {}
  BY DEF HandlesInit, LibBlocks
<1>5. \A r \in Results : ResultBlocks(r, result[r]) = {}
  BY DEF HandlesInit, ResultBlocks
<1>6. Losses(lost) = {}
  BY <1>2 DEF Losses
<1>7. \A b : b \notin HeapOf(lib, result, lost)
  BY <1>4, <1>5, <1>6, InHeapOf
<1>8. heap = HeapOf(lib, result, lost)
  BY <1>7 DEF HandlesInit
<1>9. HandlesAreMade
  BY QuvisAssumption DEF HandlesAreMade, HandlesInit, NoResult
<1>. QED BY <1>3, <1>8, <1>9 DEF HeldInv, HandlesInit

\* What _chk_script_ident and a rejected copy allocate they free.
LEMMA TriedIsFreed ==
  /\ Tried = TriedFreed
  /\ \A b \in Tried : b[1] = "call"
<1>1. \A kind \in {"export", "subtitle", "playlist", "media"} :
        Constructed[kind] = Destroyed[kind]
  BY Pairs DEF Kinds
<1>2. (UNION {Part("call", kind, 0, Constructed[kind]) :
                 kind \in {"export", "subtitle", "playlist", "media"}})
        = UNION {Part("call", kind, 0, Destroyed[kind]) :
                   kind \in {"export", "subtitle", "playlist", "media"}}
  BY <1>1
<1>3. Tried = TriedFreed
  BY <1>2, Pairs DEF Tried, TriedFreed
<1>4. \A b \in Tried : b[1] = "call"
  BY PartBlocks DEF Tried
<1>. QED BY <1>3, <1>4

LEMMA LostIsNew ==
  ASSUME HeldInv, NEW f
  PROVE  Lost(f, Len(lost) + 1) \cap heap = {}
<1>1. Len(lost) \in Nat
  BY DEF HeldInv, HandlesTypeOK
<1>2. \A b \in Lost(f, Len(lost) + 1) : b[1] = "lost" /\ b[3] = Len(lost) + 1
  BY LossOwner
<1>3. \A b \in heap : b[1] = "lost" => b[3] \in 1 .. Len(lost)
  BY HeapOwners, QuvisAssumption DEF HeldInv
<1>. QED BY <1>1, <1>2, <1>3

LEMMA NewStep ==
  ASSUME HeldInv, NEW q \in Quvis, QuviNew(q)
  PROVE  HeldInv'
<1>0. \A reached : ListsAt(reached) \subseteq 0 .. NumLists
  BY HandleBoundsAssumption DEF ListsAt
<1>1. PICK reached \in Reached, lists \in 0 .. NumLists, rejects \in BOOLEAN :
        LET l == [reached |-> reached, lists |-> lists, headers |-> FALSE]
        IN  /\ Touch({}, QuviNewBlocks(q, l) \cup Tried
                           \cup (IF rejects THEN Lost("contents", Len(lost) + 1) ELSE {}),
                     TriedFreed)
            /\ lib' = [lib EXCEPT ![q] = l]
            /\ lost' = IF rejects THEN Append(lost, "contents") ELSE lost
  BY <1>0 DEF QuviNew
<1>. DEFINE l == [reached |-> reached, lists |-> lists, headers |-> FALSE]
            L == IF rejects THEN Lost("contents", Len(lost) + 1) ELSE {}
<1>2. lib[q] = NoLib /\ result' = result
  BY DEF QuviNew
<1>4. l \in Libs /\ l # NoLib
  BY DEF Libs, NoLib, Reached
<1>5. Headers(q, l) = {}
  BY DEF Headers, Optional
<1>6. LibBlocks(q, l) = QuviNewBlocks(q, l)
  BY <1>4, <1>5 DEF LibBlocks
<1>7. LibBlocks(q, lib[q]) = {}
  BY <1>2 DEF LibBlocks
<1>8. \A b \in LibBlocks(q, l) : b[1] = q
  BY LibOwner DEF LibBlocks
<1>9. q \notin Results /\ q # "lost" /\ q # "call"
  BY QuvisAssumption
<1>10. LibBlocks(q, l) \cap heap = {}
  <2>1. \A b \in heap : b[1] = q => b \in LibBlocks(q, lib[q])
    BY <1>9, HeapOwners DEF HeldInv
  <2>. QED BY <1>7, <1>8, <2>1
<1>11. L \cap heap = {} /\ \A b \in L : b[1] = "lost"
  BY LostIsNew, LossOwner
<1>12. stray' = FALSE /\ heap' = heap \cup LibBlocks(q, l) \cup L
  <2>. DEFINE kept == LibBlocks(q, l) \cup L
              allocated == QuviNewBlocks(q, l) \cup Tried \cup L
  <2>1. Touch({}, allocated, TriedFreed)
    BY <1>1
  <2>2. allocated = kept \cup Tried /\ TriedFreed = {} \cup Tried
    BY <1>6, TriedIsFreed
  <2>3. Touch({}, kept \cup Tried, {} \cup Tried)
    BY <2>1, <2>2
  <2>4. kept \cap heap = {} /\ \A b \in kept : b[1] # "call"
    BY <1>8, <1>9, <1>10, <1>11
  <2>. HIDE DEF kept, allocated
  <2>5. {} \subseteq heap /\ \A b \in Tried : b[1] = "call"
    BY TriedIsFreed
  <2>6. stray' = FALSE /\ heap' = (heap \ {}) \cup kept
    BY <2>3, <2>4, <2>5, TouchStep, Zenon
  <2>. QED BY <2>6 DEF kept
<1>13. lib' \in [Quvis -> Libs] /\ lib'[q] = l /\ \A p \in Quvis : p = q \/ lib'[p] = lib[p]
  BY <1>1, <1>4 DEF HeldInv, HandlesTypeOK
<1>14. lost' \in Seq(LosingCalls)
  BY <1>1 DEF HeldInv, HandlesTypeOK, LosingCalls
<1>15. heap' = HeapOf(lib', result', lost')
  <2>1. HeapOf(lib', result, lost) = heap \cup LibBlocks(q, l)
    <3>1. HeapOf(lib', result, lost)
            = Exchange(HeapOf(lib, result, lost), LibBlocks(q, lib[q]), LibBlocks(q, lib'[q]))
      <4>1. \A p \in Quvis : p = q \/ lib'[p] = lib[p]
        BY <1>13
      <4>. QED BY <4>1, ReplaceLib
    <3>. QED BY <1>7, <1>13, <3>1 DEF HeldInv, Exchange
  <2>2. HeapOf(lib', result, lost') = HeapOf(lib', result, lost) \cup L
    <3>1. CASE rejects
      <4>1. lost \in Seq(LosingCalls) /\ "contents" \in LosingCalls
        BY DEF HeldInv, HandlesTypeOK, LosingCalls
      <4>. QED BY <1>1, <3>1, <4>1, LoseMore
    <3>2. CASE ~rejects
      BY <1>1, <3>2
    <3>. QED BY <3>1, <3>2
  <2>. QED BY <1>2, <1>12, <2>1, <2>2
<1>16. HandlesAreMade'
  <2>1. \A r \in Results : result[r].quvi # q \/ result[r].quvi \notin Quvis
    BY <1>2 DEF HeldInv, HandlesAreMade, Usable, NoLib
  <2>. QED BY <1>2, <1>13, <2>1 DEF HeldInv, HandlesAreMade, Usable
<1>17. HandlesTypeOK'
  <2>1. HeapOf(lib', result', lost') \subseteq Block
    BY <1>2, <1>13, <1>14, HeapOfType DEF HeldInv, HandlesTypeOK, HandlesAreMade
  <2>2. globals' \in Nat /\ spurious' \in BOOLEAN /\ stray' \in BOOLEAN
    BY DEF QuviNew, HeldInv, HandlesTypeOK, GlobalInit, Touch
  <2>. QED BY <1>2, <1>13, <1>14, <1>15, <2>1, <2>2 DEF HeldInv, HandlesTypeOK
<1>. QED BY <1>12, <1>15, <1>16, <1>17 DEF HeldInv

LEMMA FreeStep ==
  ASSUME HeldInv, NEW q \in Quvis, QuviFree(q)
  PROVE  HeldInv'
<1>1. lib[q] # NoLib
  BY DEF QuviFree
<1>2. QuviFreeBlocks(q, lib[q]) = LibBlocks(q, lib[q])
  <2>1. LibraryNew = LibraryFree /\ ScriptNew = ScriptFree
    BY Pairs
  <2>. QED BY <1>1, <2>1 DEF QuviFreeBlocks, LibBlocks, QuviNewBlocks
<1>3. LibBlocks(q, lib[q]) \subseteq heap
  BY InHeapOf DEF HeldInv
<1>4. Struct(q, "quvi") \subseteq heap
  BY <1>1, Structs
<1>5. stray' = FALSE /\ heap' = heap \ LibBlocks(q, lib[q])
  <2>1. Touch(Struct(q, "quvi"), {}, LibBlocks(q, lib[q]))
    BY <1>2 DEF QuviFree
  <2>. QED BY <1>3, <1>4, <2>1 DEF Touch, HeldInv
<1>6. lib' = [lib EXCEPT ![q] = NoLib] /\ lost' = lost
  BY DEF QuviFree
<1>7. NoLib \in Libs
  BY HandleBoundsAssumption DEF NoLib, Libs
<1>8. lib' \in [Quvis -> Libs] /\ lib'[q] = NoLib /\ \A p \in Quvis : p = q \/ lib'[p] = lib[p]
  BY <1>6, <1>7 DEF HeldInv, HandlesTypeOK
<1>9. ASSUME NEW r \in Results
      PROVE  /\ result'[r] \in ResultRecords
             /\ result'[r].quvi = (IF result[r].quvi = q THEN "freed" ELSE result[r].quvi)
             /\ ResultBlocks(r, result'[r]) = ResultBlocks(r, result[r])
             /\ result'[r] = NoResult \/ result'[r].kind \in Kinds
  <2>1. result[r] \in ResultRecords
    BY DEF HeldInv, HandlesTypeOK
  <2>2. result'[r] = [result[r] EXCEPT !.quvi = IF @ = q THEN "freed" ELSE @]
    BY DEF QuviFree
  <2>3. /\ result'[r] \in ResultRecords
        /\ result'[r].kind = result[r].kind
        /\ result'[r].entries = result[r].entries
        /\ result'[r].quvi = (IF result[r].quvi = q THEN "freed" ELSE result[r].quvi)
    BY <2>1, <2>2 DEF ResultRecords
  <2>4. q # "none"
    BY QuvisAssumption
  <2>5. result'[r] = NoResult <=> result[r] = NoResult
    BY <2>1, <2>3, <2>4 DEF ResultRecords, NoResult
  <2>6. result[r] = NoResult \/ result[r].kind \in Kinds
    BY DEF HeldInv, HandlesAreMade
  <2>. QED BY <2>3, <2>5, <2>6 DEF ResultBlocks
<1>10. result' \in [Results -> ResultRecords]
  BY <1>9 DEF QuviFree
<1>11. heap' = HeapOf(lib', result', lost')
  <2>1. HeapOf(lib', result', lost) = HeapOf(lib', result, lost)
    BY <1>9, SameBlocks
  <2>2. HeapOf(lib', result, lost)
          = Exchange(HeapOf(lib, result, lost), LibBlocks(q, lib[q]), LibBlocks(q, lib'[q]))
    BY <1>8, ReplaceLib
  <2>3. LibBlocks(q, lib'[q]) = {}
    BY <1>8 DEF LibBlocks
  <2>. QED BY <1>5, <1>6, <2>1, <2>2, <2>3 DEF HeldInv, Exchange
<1>12. HandlesAreMade'
  <2>1. "freed" \notin Quvis
    BY QuvisAssumption
  <2>2. \A r \in Results : result[r].quvi \in Quvis => Usable(result[r].quvi)
    BY DEF HeldInv, HandlesAreMade
  <2>3. \A r \in Results : result'[r].quvi \in Quvis =>
          result[r].quvi = result'[r].quvi /\ result[r].quvi # q
    BY <1>9, <2>1
  <2>. QED BY <1>8, <1>9, <2>2, <2>3 DEF HandlesAreMade, Usable
<1>13. HandlesTypeOK'
  <2>1. HeapOf(lib', result', lost') \subseteq Block
    BY <1>6, <1>8, <1>9, <1>10, HeapOfType DEF HeldInv, HandlesTypeOK
  <2>2. globals' \in Nat /\ spurious' \in BOOLEAN /\ stray' \in BOOLEAN
    BY DEF QuviFree, HeldInv, HandlesTypeOK, GlobalCleanup, Touch
  <2>. QED BY <1>6, <1>8, <1>10, <1>11, <2>1, <2>2 DEF HeldInv, HandlesTypeOK
<1>. QED BY <1>5, <1>11, <1>12, <1>13 DEF HeldInv

\* What the quvi.http.* functions allocate for a call they free, or lose.
LEMMA TransientIsReleased ==
  /\ \A f \in ScriptCalls : Transient(f) = Released(f)
  /\ \A f : \A b \in Transient(f) : b[1] = "call"
  /\ \A n : Lost("none", n) = {}
  /\ \A f \in ScriptMishaps \cup {"none"} :
       Transients[f] = Releases[f] /\ \A b \in Transients[f] : b[1] = "call"
<1>1. \A f \in ScriptCalls : Transient(f) = Released(f)
  BY Pairs DEF Transient, Released
<1>2. \A f : \A b \in Transient(f) : b[1] = "call"
  BY PartBlocks DEF Transient
<1>3. \A n : Lost("none", n) = {}
  BY DEF Lost, TransientNew, Part
<1>4. ASSUME NEW f \in ScriptMishaps \cup {"none"}
      PROVE  Transients[f] = Releases[f] /\ \A b \in Transients[f] : b[1] = "call"
  <2>1. /\ Transients[f] = UNION {Transient(g) : g \in ScriptCalls \ {f}}
        /\ Releases[f] = UNION {Released(g) : g \in ScriptCalls \ {f}}
    BY DEF Transients, Releases
  <2>. QED BY <1>1, <1>2, <2>1
<1>. QED BY <1>1, <1>2, <1>3, <1>4

\* The headers are no other part of the library handle.
LEMMA HeadersApart ==
  ASSUME NEW q, NEW l, NEW m
  PROVE  Headers(q, m) \cap QuviNewBlocks(q, l) = {}
<1>1. \A b \in Headers(q, m) : b[2] = "http.headers"
  BY PartBlocks DEF Headers, Optional
<1>2. \A b \in QuviNewBlocks(q, l) : b[2] # "http.headers"
  <2>1. ASSUME NEW part \in {"handle.lua", "handle.curl", "handle.proxy"}, NEW has,
               NEW b \in Optional(q, part, has)
        PROVE  b[2] # "http.headers"
    BY <2>1, PartBlocks DEF Optional
  <2>2. \A b \in Part(q, "handle", 0, LibraryNew) : b[2] # "http.headers"
    BY PartBlocks
  <2>3. \A b \in Scripts(q, l, ScriptNew) : b[2] # "http.headers"
    BY PartBlocks DEF Scripts
  <2>. QED BY <2>1, <2>2, <2>3 DEF QuviNewBlocks
<1>. QED BY <1>1, <1>2

\* A call that runs scripts leaves the blocks it keeps, and no others, besides
\* what belongs to the library handle or is lost.
LEMMA CallStep ==
  ASSUME HeldInv, NEW q \in Quvis, Usable(q),
         NEW used, NEW kept, NEW transient, NEW resets,
         Call(q, used, kept \cup transient, transient, resets),
         used \subseteq heap, kept \cap heap = {},
         \A b \in kept : b[1] \in Results, \A b \in transient : b[1] = "call"
  PROVE  /\ stray' = FALSE
         /\ lib' \in [Quvis -> Libs]
         /\ \A p \in Quvis : lib'[p].reached = lib[p].reached
         /\ lost' \in Seq(LosingCalls)
         /\ heap' = HeapOf(lib', result, lost') \cup kept
         /\ UNCHANGED <<globals, spurious>>
<1>1. PICK f \in Losing \cup {"none"}, headers \in HeadersAfter(lib[q], resets) :
        LET after == [lib[q] EXCEPT !.headers = headers]
        IN  /\ Touch(used \cup Struct(q, "quvi"),
                     (kept \cup transient) \cup Transients[f] \cup Lost(f, Len(lost) + 1)
                       \cup (Headers(q, after) \ Headers(q, lib[q])),
                     transient \cup Releases[f]
                       \cup (Headers(q, lib[q]) \ Headers(q, after)))
            /\ lib' = [lib EXCEPT ![q] = after]
            /\ lost' = IF f = "none" THEN lost ELSE Append(lost, f)
  BY DEF Call
<1>. DEFINE after == [lib[q] EXCEPT !.headers = headers]
            T == Transients[f]
            L == Lost(f, Len(lost) + 1)
            H == Headers(q, lib[q])
            HA == Headers(q, after)
<1>2. lib[q] \in Libs /\ lib[q].reached = "ok" /\ lib[q] # NoLib
  BY DEF HeldInv, HandlesTypeOK, Usable, NoLib
<1>3. /\ after \in Libs /\ after # NoLib
      /\ after.reached = lib[q].reached /\ after.lists = lib[q].lists
  <2>1. headers \in BOOLEAN
    BY <1>2, Zenon DEF HeadersAfter, Libs
  <2>. QED BY <1>2, <2>1 DEF Libs, NoLib
<1>4. lib' \in [Quvis -> Libs] /\ lib'[q] = after /\ \A p \in Quvis : p = q \/ lib'[p] = lib[p]
  BY <1>1, <1>3 DEF HeldInv, HandlesTypeOK
<1>5. QuviNewBlocks(q, after) = QuviNewBlocks(q, lib[q])
  BY <1>3 DEF QuviNewBlocks, HasLua, HasCurl, HasProxy, Scripts
<1>6. /\ LibBlocks(q, lib[q]) = QuviNewBlocks(q, lib[q]) \cup H
      /\ LibBlocks(q, after) = QuviNewBlocks(q, lib[q]) \cup HA
  BY <1>2, <1>3, <1>5 DEF LibBlocks
<1>7. H \cap QuviNewBlocks(q, lib[q]) = {} /\ HA \cap QuviNewBlocks(q, lib[q]) = {}
  BY HeadersApart
<1>8. q \notin Results /\ q # "lost" /\ q # "call"
  BY QuvisAssumption
<1>9. /\ \A b \in heap : b[1] = q => b \in LibBlocks(q, lib[q])
      /\ LibBlocks(q, lib[q]) \subseteq heap
  BY <1>8, HeapOwners, InHeapOf DEF HeldInv
<1>10. \A b \in HA : b[1] = q
  BY LibOwner
<1>11. (HA \ H) \cap heap = {} /\ H \subseteq heap
  BY <1>6, <1>7, <1>9, <1>10
<1>12. L \cap heap = {} /\ \A b \in L : b[1] = "lost"
  BY LostIsNew, LossOwner
<1>13. T = Releases[f] /\ \A b \in T : b[1] = "call"
  BY TransientIsReleased, LosingAssumption
<1>14. stray' = FALSE /\ heap' = (heap \ (H \ HA)) \cup (kept \cup L \cup (HA \ H))
  <2>. DEFINE keeps == kept \cup L \cup (HA \ H)
              transients == transient \cup T
              takes == H \ HA
              uses == used \cup Struct(q, "quvi")
              allocates == (kept \cup transient) \cup T \cup L \cup (HA \ H)
              frees == transient \cup T \cup takes
  <2>1. Touch(uses, allocates, frees)
    BY <1>1, <1>13
  <2>2. Touch(uses, keeps \cup transients, takes \cup transients)
    <3>1. allocates = keeps \cup transients /\ frees = takes \cup transients
      OBVIOUS
    <3>. HIDE DEF allocates, frees, keeps, transients, takes, uses
    <3>. QED BY <2>1, <3>1
  <2>3. uses \subseteq heap
    BY <1>2, Structs
  <2>4. keeps \cap heap = {} /\ takes \subseteq heap
    BY <1>11, <1>12
  <2>5. \A b \in keeps : b[1] # "call"
    BY <1>8, <1>10, <1>12, QuvisAssumption
  <2>6. \A b \in transients : b[1] = "call"
    BY <1>13
  <2>. HIDE DEF keeps, transients, takes, uses, allocates, frees
  <2>7. stray' = FALSE /\ heap' = (heap \ takes) \cup keeps
    <3>1. \A kd, tr, tk :
            /\ Touch(uses, kd \cup tr, tk \cup tr)
            /\ uses \subseteq heap /\ tk \subseteq heap /\ kd \cap heap = {}
            /\ \A b \in kd : b[1] # "call"
            /\ \A b \in tr : b[1] = "call"
            => stray' = FALSE /\ heap' = (heap \ tk) \cup kd
      BY TouchStep, Zenon
    <3>2. /\ Touch(uses, keeps \cup transients, takes \cup transients)
          /\ uses \subseteq heap /\ takes \subseteq heap /\ keeps \cap heap = {}
      BY <2>2, <2>3, <2>4
    <3>. QED BY <2>5, <2>6, <3>1, <3>2, Zenon
  <2>. QED BY <2>7 DEF keeps, takes
<1>15. HeapOf(lib', result, lost) = (heap \ (H \ HA)) \cup (HA \ H)
  <2>1. HeapOf(lib', result, lost)
          = Exchange(HeapOf(lib, result, lost), LibBlocks(q, lib[q]), LibBlocks(q, lib'[q]))
    BY <1>4, ReplaceLib
  <2>2. HeapOf(lib', result, lost)
          = (heap \ (QuviNewBlocks(q, lib[q]) \cup H)) \cup (QuviNewBlocks(q, lib[q]) \cup HA)
    BY <1>4, <1>6, <2>1 DEF HeldInv, Exchange
  <2>. HIDE DEF H, HA
  <2>. QED BY <1>6, <1>7, <1>9, <2>2
<1>16. /\ lost' \in Seq(LosingCalls)
       /\ HeapOf(lib', result, lost') = HeapOf(lib', result, lost) \cup L
  <2>1. lost \in Seq(LosingCalls)
    BY DEF HeldInv, HandlesTypeOK
  <2>2. CASE f = "none"
    BY <1>1, <2>1, <2>2, TransientIsReleased
  <2>3. CASE f # "none"
    <3>1. f \in LosingCalls
      BY <2>3, LosingAssumption DEF LosingCalls
    <3>. QED BY <1>1, <2>1, <2>3, <3>1, LoseMore
  <2>. QED BY <2>2, <2>3
<1>17. \A p \in Quvis : lib'[p].reached = lib[p].reached
  BY <1>3, <1>4
<1>18. UNCHANGED <<globals, spurious>>
  BY DEF Call
<1>19. heap' = HeapOf(lib', result, lost') \cup kept
  <2>. HIDE DEF H, HA, L
  <2>. QED BY <1>14, <1>15, <1>16
<1>. QED BY <1>4, <1>14, <1>16, <1>17, <1>18, <1>19

\* What follows from CallStep when the call made a result handle, or none.
LEMMA AfterCall ==
  ASSUME HeldInv, stray' = FALSE,
         lib' \in [Quvis -> Libs], \A p \in Quvis : lib'[p].reached = lib[p].reached,
         lost' \in Seq(LosingCalls), UNCHANGED <<globals, spurious>>,
         result' \in [Results -> ResultRecords], HandlesAreMade',
         heap' = HeapOf(lib', result', lost')
  PROVE  HeldInv'
<1>1. heap' \subseteq Block
  BY HeapOfType DEF HandlesAreMade
<1>2. heap' \in SUBSET Block /\ globals' \in Nat
  BY <1>1 DEF HeldInv, HandlesTypeOK
<1>3. stray' \in BOOLEAN /\ spurious' \in BOOLEAN
  BY Zenon DEF HeldInv, HandlesTypeOK
<1>4. HandlesTypeOK'
  BY <1>2, <1>3, Zenon DEF HandlesTypeOK
<1>. QED BY <1>4, Zenon DEF HeldInv

LEMMA MadeHeap ==
  ASSUME NEW r \in Results, \A p \in Results : p = r \/ result'[p] = result[p]
  PROVE  HeapOf(lib', result', lost')
           = Exchange(HeapOf(lib', result, lost'), ResultBlocks(r, result[r]),
                      ResultBlocks(r, result'[r]))
  BY ReplaceResult

\* A new handle, for which the call keeps the blocks of its constructors.
LEMMA MadeStep ==
  ASSUME HeldInv, NEW r \in Results, NEW kind \in Kinds, NEW n \in 0 .. MaxEntries,
         NEW q \in Quvis, Usable(q), result[r] = NoResult,
         result' = [result EXCEPT ![r] = [kind |-> kind, entries |-> n, quvi |-> q]],
         stray' = FALSE,
         lib' \in [Quvis -> Libs], \A p \in Quvis : lib'[p].reached = lib[p].reached,
         lost' \in Seq(LosingCalls), UNCHANGED <<globals, spurious>>,
         heap' = HeapOf(lib', result, lost') \cup ResultNew(r, kind, n)
  PROVE  HeldInv'
<1>. DEFINE s == [kind |-> kind, entries |-> n, quvi |-> q]
<1>1. s \in ResultRecords /\ s # NoResult
  BY QuvisAssumption DEF ResultRecords, NoResult
<1>2. /\ result' \in [Results -> ResultRecords] /\ result'[r] = s
      /\ \A p \in Results : p = r \/ result'[p] = result[p]
  BY <1>1 DEF HeldInv, HandlesTypeOK
<1>3. HandlesAreMade'
  <2>1. \A p \in Quvis : Usable(p) => Usable(p)'
    BY DEF Usable
  <2>2. ASSUME NEW p \in Results
        PROVE  /\ result'[p] = NoResult \/ result'[p].kind \in Kinds
               /\ result'[p].quvi \in Quvis => Usable(result'[p].quvi)
    <3>1. CASE p = r
      BY <1>2, <3>1
    <3>2. CASE p # r
      BY <1>2, <3>2 DEF HeldInv, HandlesAreMade
    <3>. QED BY <3>1, <3>2
  <2>. QED BY <2>1, <2>2 DEF HandlesAreMade, Usable
<1>4. heap' = HeapOf(lib', result', lost')
  <2>1. HeapOf(lib', result', lost')
          = Exchange(HeapOf(lib', result, lost'), ResultBlocks(r, result[r]),
                     ResultBlocks(r, result'[r]))
    <3>1. \A p \in Results : p = r \/ result'[p] = result[p]
      BY <1>2
    <3>. QED BY <3>1, MadeHeap
  <2>2. ResultBlocks(r, result[r]) = {} /\ ResultBlocks(r, result'[r]) = ResultNew(r, kind, n)
    BY <1>1, <1>2 DEF ResultBlocks
  <2>. QED BY <2>1, <2>2 DEF Exchange
<1>. QED BY <1>2, <1>3, <1>4, AfterCall

\* The blocks of a handle that is not held are free.
LEMMA FreshResult ==
  ASSUME HeldInv, NEW r \in Results, result[r] = NoResult, NEW kind, NEW n
  PROVE  /\ ResultNew(r, kind, n) \cap heap = {}
         /\ \A b \in ResultNew(r, kind, n) : b[1] \in Results
<1>1. \A b \in ResultNew(r, kind, n) : b[1] = r
  BY ResultOwner
<1>2. r \notin Quvis /\ r # "lost"
  BY QuvisAssumption
<1>3. \A b \in heap : b[1] # r
  BY <1>2, HeapOwners DEF HeldInv, ResultBlocks
<1>. QED BY <1>1, <1>3

LEMMA ResultNewStep ==
  ASSUME HeldInv, NEW r \in Results, NEW kind \in Uses \ {"export"}, ResultNewCall(r, kind)
  PROVE  HeldInv'
<1>0. EntryCounts(kind) \subseteq 0 .. MaxEntries
  BY HandleBoundsAssumption DEF EntryCounts
<1>1. PICK q \in Quvis, n \in 0 .. MaxEntries, gotos \in Rounds(kind) :
        /\ Usable(q)
        /\ Call(q, {}, ResultNew(r, kind, n) \cup MoreHandles(r, gotos) \cup NetOf(kind),
                NetFreeOf(kind), MayReset(kind))
        /\ result' = [result EXCEPT ![r] = [kind |-> kind, entries |-> n, quvi |-> q]]
  BY <1>0 DEF ResultNewCall
<1>2. result[r] = NoResult /\ kind \in Kinds
  BY UsesAssumption DEF ResultNewCall
<1>3. MoreHandles(r, gotos) = {}
  <2>1. {i \in 1 .. gotos : MakesHandle(i)} = {}
    BY DEF MakesHandle
  <2>. QED BY <2>1 DEF MoreHandles
<1>4. NetOf(kind) = NetFreeOf(kind) /\ \A b \in NetOf(kind) : b[1] = "call"
  BY Pairs, PartBlocks DEF NetOf, NetFreeOf
<1>. DEFINE kept == ResultNew(r, kind, n)
            transient == NetOf(kind)
<1>5. Call(q, {}, kept \cup transient, transient, MayReset(kind))
  <2>1. ResultNew(r, kind, n) \cup MoreHandles(r, gotos) \cup NetOf(kind) = kept \cup transient
    BY <1>3
  <2>. QED BY <1>1, <1>4, <2>1
<1>6. kept \cap heap = {} /\ \A b \in kept : b[1] \in Results
  BY <1>2, FreshResult
<1>7. {} \subseteq heap /\ \A b \in transient : b[1] = "call"
  BY <1>4
<1>. HIDE DEF kept, transient
<1>8. /\ stray' = FALSE
      /\ lib' \in [Quvis -> Libs]
      /\ \A p \in Quvis : lib'[p].reached = lib[p].reached
      /\ lost' \in Seq(LosingCalls)
      /\ heap' = HeapOf(lib', result, lost') \cup kept
      /\ UNCHANGED <<globals, spurious>>
  BY <1>1, <1>5, <1>6, <1>7, CallStep, Zenon
<1>. QED BY <1>1, <1>2, <1>8, MadeStep DEF kept

LEMMA ExportStep ==
  ASSUME HeldInv, NEW r \in Results, NEW s \in Results, ExportNewCall(r, s)
  PROVE  HeldInv'
<1>. DEFINE q == result[s].quvi
            kept == ResultNew(r, "export", 0)
            used == Part(s, "entry", 1, {"lang", "url"})
<1>1. /\ q \in Quvis /\ result[r] = NoResult
      /\ result[s].kind = "subtitle" /\ result[s].entries > 0
      /\ Call(q, used, kept, {}, FALSE)
      /\ result' = [result EXCEPT ![r] = [kind |-> "export", entries |-> 0, quvi |-> q]]
  BY DEF ExportNewCall
<1>2. Usable(q)
  BY <1>1 DEF HeldInv, HandlesAreMade
<1>3. used \subseteq heap
  <2>1. result[s] # NoResult
    BY <1>1 DEF NoResult
  <2>2. result[s].entries \in Nat
    BY HandleBoundsAssumption DEF HeldInv, HandlesTypeOK, ResultRecords
  <2>3. used \subseteq Part(s, "entry", 1, EntryConstructed("subtitle"))
    BY DEF Part, EntryConstructed, LangNew
  <2>4. Part(s, "entry", 1, EntryConstructed("subtitle"))
          \subseteq ResultNew(s, "subtitle", result[s].entries)
    BY <1>1, <2>2 DEF ResultNew, Entries
  <2>. QED BY <1>1, <2>1, <2>3, <2>4, Structs
<1>4. kept \cap heap = {} /\ \A b \in kept : b[1] \in Results
  BY <1>1, FreshResult
<1>5. "export" \in Kinds /\ 0 \in 0 .. MaxEntries
  BY HandleBoundsAssumption DEF Kinds
<1>6. Call(q, used, kept \cup {}, {}, FALSE) /\ \A b \in {} : b[1] = "call"
  BY <1>1
<1>. HIDE DEF q, kept, used
<1>7. /\ stray' = FALSE
      /\ lib' \in [Quvis -> Libs]
      /\ \A p \in Quvis : lib'[p].reached = lib[p].reached
      /\ lost' \in Seq(LosingCalls)
      /\ heap' = HeapOf(lib', result, lost') \cup kept
      /\ UNCHANGED <<globals, spurious>>
  BY <1>1, <1>2, <1>3, <1>4, <1>6, CallStep, Zenon
<1>. QED BY <1>1, <1>2, <1>5, <1>7, MadeStep DEF kept

LEMMA SupportsStep ==
  ASSUME HeldInv, NEW q \in Quvis, Supports(q)
  PROVE  HeldInv'
<1>1. PICK kind \in {"playlist", "subtitle", "media"}, found \in BOOLEAN :
        Call(q, {}, Part("call", kind, 0, Constructed[kind]), SupportsFrees(kind, found), FALSE)
  BY DEF Supports
<1>. DEFINE transient == Part("call", kind, 0, Constructed[kind])
<1>2. SupportsFrees(kind, found) = transient
  BY Pairs DEF SupportsFrees, Kinds
<1>3. Usable(q) /\ result' = result
  BY DEF Supports
<1>4. \A b \in transient : b[1] = "call"
  BY PartBlocks
<1>. HIDE DEF transient
<1>5. Call(q, {}, {} \cup transient, transient, FALSE)
  <2>1. Call(q, {}, transient, transient, FALSE)
    BY <1>1, <1>2 DEF transient
  <2>. QED BY <2>1
<1>6. {} \subseteq heap /\ {} \cap heap = {} /\ \A b \in {} : b[1] \in Results
  OBVIOUS
<1>7. /\ stray' = FALSE
      /\ lib' \in [Quvis -> Libs]
      /\ \A p \in Quvis : lib'[p].reached = lib[p].reached
      /\ lost' \in Seq(LosingCalls)
      /\ heap' = HeapOf(lib', result, lost') \cup {}
      /\ UNCHANGED <<globals, spurious>>
  BY <1>3, <1>4, <1>5, <1>6, CallStep, Zenon
<1>8. HandlesAreMade' /\ result' \in [Results -> ResultRecords]
  BY <1>3, <1>7 DEF HeldInv, HandlesTypeOK, HandlesAreMade, Usable
<1>9. heap' = HeapOf(lib', result', lost')
  BY <1>3, <1>7
<1>. QED BY <1>7, <1>8, <1>9, AfterCall

\* A step that only uses what there is.
LEMMA UseStep ==
  ASSUME HeldInv, NEW used, used \subseteq heap, Touch(used, {}, {}),
         UNCHANGED <<lib, result, globals, lost, spurious>>
  PROVE  HeldInv'
<1>1. stray' = FALSE /\ heap' = heap
  <2>1. ~stray' /\ heap' = heap
    BY DEF Touch, HeldInv
  <2>2. stray' \in BOOLEAN
    BY Zenon DEF Touch
  <2>. QED BY <2>1, <2>2
<1>2. HandlesTypeOK'
  BY <1>1, Zenon DEF HeldInv, HandlesTypeOK
<1>3. HandlesAreMade'
  BY DEF HeldInv, HandlesAreMade, Usable
<1>4. heap' = HeapOf(lib', result', lost')
  <2>1. HeapOf(lib', result', lost') = HeapOf(lib, result, lost)
    BY Zenon
  <2>. QED BY <1>1, <2>1 DEF HeldInv
<1>. QED BY <1>1, <1>2, <1>3, <1>4, Zenon DEF HeldInv

LEMMA GetStep ==
  ASSUME HeldInv, NEW r \in Results, Get(r)
  PROVE  HeldInv'
<1>1. result[r] # NoResult /\ result[r].quvi \in Quvis
  BY DEF Get, NoResult
<1>2. lib[result[r].quvi] # NoLib
  BY <1>1 DEF HeldInv, HandlesAreMade, Usable, NoLib
<1>3. Struct(r, result[r].kind) \cup Struct(result[r].quvi, "quvi") \subseteq heap
  BY <1>1, <1>2, Structs
<1>. QED BY <1>3, UseStep DEF Get

LEMMA WalkStep ==
  ASSUME HeldInv, NEW r \in Results, Walk(r)
  PROVE  HeldInv'
<1>1. WalkUses(r) \subseteq heap
  BY Structs DEF Walk, WalkUses
<1>. QED BY <1>1, UseStep DEF Walk

LEMMA ResultFreeStep ==
  ASSUME HeldInv, NEW r \in Results, ResultFreeCall(r)
  PROVE  HeldInv'
<1>1. result[r] # NoResult /\ result[r].kind \in Kinds
  BY DEF ResultFreeCall, HeldInv, HandlesAreMade
<1>2. ResultFree(r, result[r].kind, result[r].entries) = ResultBlocks(r, result[r])
  BY <1>1, Pairs DEF ResultFree, ResultBlocks, ResultNew
<1>3. ResultBlocks(r, result[r]) \subseteq heap
  BY InHeapOf DEF HeldInv
<1>4. stray' = FALSE /\ heap' = heap \ ResultBlocks(r, result[r])
  <2>1. Struct(r, result[r].kind) \subseteq heap
    BY <1>1, Structs
  <2>2. Touch(Struct(r, result[r].kind), {}, ResultBlocks(r, result[r]))
    BY <1>2 DEF ResultFreeCall
  <2>. QED BY <1>3, <2>1, <2>2 DEF Touch, HeldInv
<1>5. NoResult \in ResultRecords
  BY HandleBoundsAssumption DEF NoResult, ResultRecords
<1>6. /\ result' \in [Results -> ResultRecords] /\ result'[r] = NoResult
      /\ \A p \in Results : p = r \/ result'[p] = result[p]
  BY <1>5 DEF ResultFreeCall, HeldInv, HandlesTypeOK
<1>7. UNCHANGED <<lib, globals, lost, spurious>>
  BY DEF ResultFreeCall
<1>8. heap' = HeapOf(lib', result', lost')
  <2>1. HeapOf(lib, result', lost)
          = Exchange(HeapOf(lib, result, lost), ResultBlocks(r, result[r]),
                     ResultBlocks(r, result'[r]))
    BY <1>6, ReplaceResult
  <2>2. ResultBlocks(r, result'[r]) = {}
    BY <1>6 DEF ResultBlocks
  <2>. QED BY <1>4, <1>7, <2>1, <2>2 DEF HeldInv, Exchange
<1>9. HandlesAreMade'
  <2>1. NoResult.quvi \notin Quvis
    BY QuvisAssumption DEF NoResult
  <2>. QED BY <1>6, <1>7, <2>1 DEF HeldInv, HandlesAreMade, Usable
<1>. QED BY <1>4, <1>6, <1>7, <1>8, <1>9, AfterCall DEF HeldInv, HandlesTypeOK
-----------------------------------------------------------------------------
(* The theorems.                                                            *)

LEMMA NextHolds == HeldInv /\ [HandlesNext]_handleVars => HeldInv'
<1>. SUFFICES ASSUME HeldInv, [HandlesNext]_handleVars PROVE HeldInv'
  OBVIOUS
<1>1. ASSUME NEW q \in Quvis, QuviNew(q) PROVE HeldInv'
  BY <1>1, NewStep
<1>2. ASSUME NEW q \in Quvis, QuviFree(q) PROVE HeldInv'
  BY <1>2, FreeStep
<1>3. ASSUME NEW q \in Quvis, Supports(q) PROVE HeldInv'
  BY <1>3, SupportsStep
<1>4. ASSUME NEW r \in Results, NEW kind \in Uses \ {"export"}, ResultNewCall(r, kind)
      PROVE  HeldInv'
  BY <1>4, ResultNewStep
<1>5. ASSUME NEW r \in Results, NEW s \in Results, ExportNewCall(r, s) PROVE HeldInv'
  BY <1>5, ExportStep
<1>6. ASSUME NEW r \in Results, Get(r) PROVE HeldInv'
  BY <1>6, GetStep
<1>7. ASSUME NEW r \in Results, Walk(r) PROVE HeldInv'
  BY <1>7, WalkStep
<1>8. ASSUME NEW r \in Results, ResultFreeCall(r) PROVE HeldInv'
  BY <1>8, ResultFreeStep
<1>9. CASE UNCHANGED handleVars
  <2>1. UNCHANGED heap /\ UNCHANGED stray /\ UNCHANGED lib /\ UNCHANGED result
        /\ UNCHANGED globals /\ UNCHANGED lost /\ UNCHANGED spurious
    BY <1>9 DEF handleVars
  <2>. QED BY <2>1, Zenon DEF HeldInv, HandlesTypeOK, HandlesAreMade, Usable
<1>. QED BY <1>1, <1>2, <1>3, <1>4, <1>5, <1>6, <1>7, <1>8, <1>9 DEF HandlesNext

LEMMA HeldAlways == HandlesSpec => []HeldInv
  BY InitHolds, NextHolds, PTL DEF HandlesSpec

\* The records of the handles and the names of the blocks keep to their sets.
THEOREM HandlesTypeCorrect == HandlesSpec => []HandlesTypeOK
<1>1. HeldInv => HandlesTypeOK
  BY DEF HeldInv
<1>. QED BY <1>1, HeldAlways, PTL

\* Between calls, every block is reachable from a handle the application holds,
\* or is one of those that raising functions and rejected files lose.
THEOREM HeapHeld == HandlesSpec => []HeapIsHeld
<1>1. HeldInv => HeapIsHeld
  BY HeldIsHeapOf DEF HeldInv
<1>. QED BY <1>1, HeldAlways, PTL

\* Nothing is freed twice, used after it was freed, or overwritten while it is
\* allocated, by any sequence of calls on what the application holds.
THEOREM NeverStray == HandlesSpec => []NothingStray
<1>1. HeldInv => NothingStray
  BY DEF HeldInv, NothingStray
<1>. QED BY <1>1, HeldAlways, PTL
-----------------------------------------------------------------------------
(* The global state of libcurl.                                             *)

\* The library handles that came to c_init, in a state of the handles.
InitedIn(libs) == {q \in Quvis : RanCurlInit(libs[q])}

LEMMA InitedFinite ==
  \A libs : IsFiniteSet(InitedIn(libs)) /\ Cardinality(InitedIn(libs)) \in Nat
<1>. SUFFICES ASSUME NEW libs
              PROVE  IsFiniteSet(InitedIn(libs)) /\ Cardinality(InitedIn(libs)) \in Nat
  OBVIOUS
<1>1. InitedIn(libs) \subseteq Quvis
  BY DEF InitedIn
<1>. QED BY <1>1, QuvisAssumption, FS_Subset, FS_CardinalityType

\* Every step but quvi_new and quvi_free leaves libcurl and c_init alone.
LEMMA GlobalsLeft ==
  ASSUME HeldInv, GlobalsAreCounted, UNCHANGED <<globals, spurious>>,
         \A p \in Quvis : lib'[p].reached = lib[p].reached
  PROVE  GlobalsAreCounted'
<1>1. {p \in Quvis : RanCurlInit(lib'[p])} = {p \in Quvis : RanCurlInit(lib[p])}
  BY DEF RanCurlInit
<1>. QED BY <1>1 DEF GlobalsAreCounted

LEMMA CallLeaves ==
  ASSUME HeldInv, NEW q \in Quvis, NEW used, NEW allocated, NEW freed, NEW resets,
         Call(q, used, allocated, freed, resets)
  PROVE  /\ UNCHANGED <<globals, spurious>>
         /\ \A p \in Quvis : lib'[p].reached = lib[p].reached
<1>1. PICK headers : lib' = [lib EXCEPT ![q] = [lib[q] EXCEPT !.headers = headers]]
  BY DEF Call
<1>2. lib \in [Quvis -> Libs]
  BY DEF HeldInv, HandlesTypeOK
<1>3. \A p \in Quvis : lib'[p].reached = lib[p].reached
  BY <1>1, <1>2 DEF Libs
<1>. QED BY <1>3 DEF Call

LEMMA GlobalsNewStep ==
  ASSUME HeldInv, GlobalsAreCounted, NEW q \in Quvis, QuviNew(q)
  PROVE  GlobalsAreCounted'
<1>1. PICK l : lib' = [lib EXCEPT ![q] = l] /\ globals' = GlobalInit(l)
  BY Zenon DEF QuviNew
<1>2. lib[q] = NoLib /\ spurious' = spurious
  BY DEF QuviNew
<1>3. lib'[q] = l /\ \A p \in Quvis : p = q \/ lib'[p] = lib[p]
  BY <1>1 DEF HeldInv, HandlesTypeOK
<1>4. q \notin InitedIn(lib)
  BY <1>2 DEF InitedIn, RanCurlInit, NoLib
<1>5. CASE RanCurlInit(l)
  <2>1. InitedIn(lib') = InitedIn(lib) \cup {q}
    BY <1>3, <1>5 DEF InitedIn
  <2>2. Cardinality(InitedIn(lib')) = Cardinality(InitedIn(lib)) + 1
    BY <1>4, <2>1, InitedFinite, FS_AddElement
  <2>. QED BY <1>1, <1>2, <1>5, <2>2 DEF GlobalsAreCounted, GlobalInit, InitedIn
<1>6. CASE ~RanCurlInit(l)
  <2>1. InitedIn(lib') = InitedIn(lib)
    BY <1>3, <1>4, <1>6 DEF InitedIn
  <2>. QED BY <1>1, <1>2, <1>6, <2>1 DEF GlobalsAreCounted, GlobalInit, InitedIn
<1>. QED BY <1>5, <1>6

LEMMA GlobalsFreeStep ==
  ASSUME HeldInv, GlobalsAreCounted, NEW q \in Quvis, QuviFree(q), ~spurious'
  PROVE  GlobalsAreCounted'
<1>1. ~spurious /\ RanCurlInit(lib[q])
  BY DEF QuviFree
<1>2. lib' = [lib EXCEPT ![q] = NoLib] /\ globals' = GlobalCleanup
  BY DEF QuviFree
<1>3. lib'[q] = NoLib /\ \A p \in Quvis : p = q \/ lib'[p] = lib[p]
  BY <1>2 DEF HeldInv, HandlesTypeOK
<1>4. q \in InitedIn(lib) /\ InitedIn(lib') = InitedIn(lib) \ {q}
  BY <1>1, <1>3 DEF InitedIn, RanCurlInit, NoLib
<1>5. Cardinality(InitedIn(lib')) = Cardinality(InitedIn(lib)) - 1
  BY <1>4, InitedFinite, FS_RemoveElement
<1>6. globals = Cardinality(InitedIn(lib))
  BY <1>1 DEF GlobalsAreCounted, InitedIn
<1>7. Cardinality(InitedIn(lib')) \in Nat /\ Cardinality(InitedIn(lib)) \in Nat
  BY InitedFinite
<1>8. globals' = Cardinality(InitedIn(lib'))
  BY <1>2, <1>5, <1>6, <1>7 DEF GlobalCleanup
<1>. QED BY <1>8 DEF GlobalsAreCounted, InitedIn

LEMMA GlobalsNext ==
  HeldInv /\ GlobalsAreCounted /\ [HandlesNext]_handleVars => GlobalsAreCounted'
<1>. SUFFICES ASSUME HeldInv, GlobalsAreCounted, [HandlesNext]_handleVars
              PROVE  GlobalsAreCounted'
  OBVIOUS
<1>1. ASSUME NEW q \in Quvis, QuviNew(q) PROVE GlobalsAreCounted'
  BY <1>1, GlobalsNewStep
<1>2. ASSUME NEW q \in Quvis, QuviFree(q) PROVE GlobalsAreCounted'
  <2>1. CASE spurious'
    BY <2>1 DEF GlobalsAreCounted
  <2>2. CASE ~spurious'
    BY <1>2, <2>2, GlobalsFreeStep
  <2>. QED BY <2>1, <2>2
<1>3. ASSUME NEW q \in Quvis, Supports(q) PROVE GlobalsAreCounted'
  <2>1. PICK allocated, freed : Call(q, {}, allocated, freed, FALSE)
    BY <1>3, Zenon DEF Supports
  <2>. QED BY <2>1, CallLeaves, GlobalsLeft
<1>4. ASSUME NEW r \in Results, NEW kind \in Uses \ {"export"}, ResultNewCall(r, kind)
      PROVE  GlobalsAreCounted'
  <2>1. PICK q \in Quvis : \E allocated, freed, resets :
          Call(q, {}, allocated, freed, resets)
    BY <1>4, Zenon DEF ResultNewCall
  <2>. QED BY <2>1, CallLeaves, GlobalsLeft
<1>5. ASSUME NEW r \in Results, NEW s \in Results, ExportNewCall(r, s) PROVE GlobalsAreCounted'
  <2>1. PICK q \in Quvis : \E used, allocated : Call(q, used, allocated, {}, FALSE)
    BY <1>5, Zenon DEF ExportNewCall
  <2>. QED BY <2>1, CallLeaves, GlobalsLeft
<1>6. ASSUME UNCHANGED <<lib, globals, spurious>> PROVE GlobalsAreCounted'
  BY <1>6, GlobalsLeft
<1>7. ASSUME NEW r \in Results, Get(r) \/ Walk(r) \/ ResultFreeCall(r)
      PROVE  UNCHANGED <<lib, globals, spurious>>
  BY <1>7 DEF Get, Walk, ResultFreeCall
<1>8. CASE UNCHANGED handleVars
  BY <1>6, <1>8 DEF handleVars
<1>. QED BY <1>1, <1>2, <1>3, <1>4, <1>5, <1>6, <1>7, <1>8 DEF HandlesNext

LEMMA GlobalsInit == HandlesInit => GlobalsAreCounted
<1>. SUFFICES ASSUME HandlesInit PROVE GlobalsAreCounted
  OBVIOUS
<1>1. {q \in Quvis : RanCurlInit(lib[q])} = {}
  BY DEF HandlesInit, NoLib, RanCurlInit
<1>. QED BY <1>1, FS_EmptySet DEF GlobalsAreCounted, HandlesInit

\* c_init and c_close keep the count of curl_global_init, for every number of
\* library handles, until a handle is freed that never came to c_init.
THEOREM GlobalsCounted == HandlesSpec => []GlobalsAreCounted
  BY GlobalsInit, GlobalsNext, HeldAlways, PTL DEF HandlesSpec
-----------------------------------------------------------------------------
(* The refinement: memory belongs to the handles that are held.             *)

\* Who owns the blocks of a heap.
OwnersOf(h) == {b[1] : b \in h} \ {"lost"}

Held(libs, results) == {q \in Quvis : libs[q] # NoLib}
                         \cup {r \in Results : results[r] # NoResult}

LEMMA OwnersAreHeld == HeldInv => OwnersOf(heap) = Held(lib, result)
<1>. SUFFICES ASSUME HeldInv PROVE OwnersOf(heap) = Held(lib, result)
  OBVIOUS
<1>1. ASSUME NEW b \in heap, b[1] # "lost" PROVE b[1] \in Held(lib, result)
  BY <1>1, HeapOwners DEF HeldInv, Held, LibBlocks, ResultBlocks
<1>2. ASSUME NEW q \in Quvis, lib[q] # NoLib PROVE q \in OwnersOf(heap)
  <2>1. <<q, "handle", 0, "quvi">> \in heap
    BY <1>2, Structs DEF Struct
  <2>. QED BY <2>1, QuvisAssumption DEF OwnersOf
<1>3. ASSUME NEW r \in Results, result[r] # NoResult PROVE r \in OwnersOf(heap)
  <2>1. <<r, "handle", 0, result[r].kind>> \in heap
    BY <1>3, Structs DEF Struct
  <2>. QED BY <2>1, QuvisAssumption DEF OwnersOf
<1>. QED BY <1>1, <1>2, <1>3 DEF OwnersOf, Held

\* A call neither makes nor frees a library handle.
LEMMA CallHolds ==
  ASSUME HeldInv, NEW q \in Quvis, Usable(q), NEW used, NEW allocated, NEW freed, NEW resets,
         Call(q, used, allocated, freed, resets)
  PROVE  \A p \in Quvis : lib'[p] # NoLib <=> lib[p] # NoLib
<1>1. PICK headers : lib' = [lib EXCEPT ![q] = [lib[q] EXCEPT !.headers = headers]]
  BY DEF Call
<1>2. lib \in [Quvis -> Libs]
  BY DEF HeldInv, HandlesTypeOK
<1>3. lib'[q].reached = "ok" /\ lib[q].reached = "ok"
  BY <1>1, <1>2 DEF Libs, Usable
<1>4. \A p \in Quvis : p = q \/ lib'[p] = lib[p]
  BY <1>1, <1>2
<1>. QED BY <1>3, <1>4 DEF NoLib

\* A call that makes a result handle acquires it.
LEMMA MadeHolds ==
  ASSUME HeldInv, NEW r \in Results, result[r] = NoResult,
         NEW s, s # NoResult, result' = [result EXCEPT ![r] = s],
         \A p \in Quvis : lib'[p] # NoLib <=> lib[p] # NoLib
  PROVE  r \notin Held(lib, result) /\ Held(lib', result') = Held(lib, result) \cup {r}
<1>1. result'[r] = s /\ \A p \in Results : p = r \/ result'[p] = result[p]
  BY DEF HeldInv, HandlesTypeOK
<1>2. r \notin Quvis
  BY QuvisAssumption
<1>. QED BY <1>1, <1>2 DEF Held

\* What each step does to the set of handles that are held.
LEMMA HeldSteps ==
  ASSUME HeldInv, [HandlesNext]_handleVars
  PROVE  \/ Held(lib', result') = Held(lib, result)
         \/ \E h \in Owners : \/ /\ h \notin Held(lib, result)
                                 /\ Held(lib', result') = Held(lib, result) \cup {h}
                              \/ /\ h \in Held(lib, result)
                                 /\ Held(lib', result') = Held(lib, result) \ {h}
<1>1. ASSUME NEW q \in Quvis, QuviNew(q)
      PROVE  q \notin Held(lib, result) /\ Held(lib', result') = Held(lib, result) \cup {q}
  <2>1. PICK l : lib' = [lib EXCEPT ![q] = l] /\ l # NoLib
    <3>1. PICK reached \in Reached : \E lists :
            lib' = [lib EXCEPT ![q] = [reached |-> reached, lists |-> lists, headers |-> FALSE]]
      BY <1>1, Zenon DEF QuviNew
    <3>2. \A lists : [reached |-> reached, lists |-> lists, headers |-> FALSE] # NoLib
      BY DEF NoLib, Reached
    <3>. QED BY <3>1, <3>2
  <2>2. lib'[q] # NoLib /\ \A p \in Quvis : p = q \/ lib'[p] = lib[p]
    BY <2>1 DEF HeldInv, HandlesTypeOK
  <2>3. lib[q] = NoLib /\ result' = result
    BY <1>1 DEF QuviNew
  <2>. QED BY <2>2, <2>3, QuvisAssumption DEF Held
<1>2. ASSUME NEW q \in Quvis, QuviFree(q)
      PROVE  q \in Held(lib, result) /\ Held(lib', result') = Held(lib, result) \ {q}
  <2>1. lib[q] # NoLib /\ lib' = [lib EXCEPT ![q] = NoLib]
    BY <1>2 DEF QuviFree
  <2>2. lib'[q] = NoLib /\ \A p \in Quvis : p = q \/ lib'[p] = lib[p]
    BY <2>1 DEF HeldInv, HandlesTypeOK
  <2>3. ASSUME NEW r \in Results PROVE result'[r] = NoResult <=> result[r] = NoResult
    <3>1. result[r] \in ResultRecords /\ q # "none"
      BY QuvisAssumption DEF HeldInv, HandlesTypeOK
    <3>2. result'[r] = [result[r] EXCEPT !.quvi = IF @ = q THEN "freed" ELSE @]
      BY <1>2 DEF QuviFree
    <3>3. /\ result'[r] \in [kind : Kinds \cup {"none"}, entries : 0 .. MaxEntries,
                             quvi : Quvis \cup {"none", "freed"}]
          /\ result'[r].kind = result[r].kind
          /\ result'[r].entries = result[r].entries
          /\ result'[r].quvi = (IF result[r].quvi = q THEN "freed" ELSE result[r].quvi)
      BY <3>1, <3>2 DEF ResultRecords
    <3>. QED BY <3>1, <3>3 DEF ResultRecords, NoResult
  <2>. QED BY <2>1, <2>2, <2>3, QuvisAssumption DEF Held
<1>3. ASSUME NEW q \in Quvis, Supports(q) PROVE Held(lib', result') = Held(lib, result)
  <2>1. PICK allocated, freed : Call(q, {}, allocated, freed, FALSE)
    BY <1>3, Zenon DEF Supports
  <2>2. \A p \in Quvis : lib'[p] # NoLib <=> lib[p] # NoLib
    BY <1>3, <2>1, CallHolds DEF Supports
  <2>. QED BY <1>3, <2>2 DEF Held, Supports
<1>4. ASSUME NEW r \in Results, NEW kind \in Uses \ {"export"}, ResultNewCall(r, kind)
      PROVE  r \notin Held(lib, result) /\ Held(lib', result') = Held(lib, result) \cup {r}
  <2>1. PICK q \in Quvis : \E n, allocated, freed, resets :
          /\ Usable(q) /\ Call(q, {}, allocated, freed, resets)
          /\ result' = [result EXCEPT ![r] = [kind |-> kind, entries |-> n, quvi |-> q]]
    BY <1>4, Zenon DEF ResultNewCall
  <2>2. /\ \A n : [kind |-> kind, entries |-> n, quvi |-> q] # NoResult
        /\ result[r] = NoResult
    BY <1>4, QuvisAssumption DEF NoResult, ResultNewCall
  <2>3. \A p \in Quvis : lib'[p] # NoLib <=> lib[p] # NoLib
    BY <2>1, CallHolds
  <2>. QED BY <2>1, <2>2, <2>3, MadeHolds
<1>5. ASSUME NEW r \in Results, NEW s \in Results, ExportNewCall(r, s)
      PROVE  r \notin Held(lib, result) /\ Held(lib', result') = Held(lib, result) \cup {r}
  <2>1. PICK q \in Quvis : \E used, allocated :
          /\ q = result[s].quvi /\ Call(q, used, allocated, {}, FALSE)
          /\ result' = [result EXCEPT ![r] = [kind |-> "export", entries |-> 0, quvi |-> q]]
    BY <1>5, Zenon DEF ExportNewCall
  <2>2. [kind |-> "export", entries |-> 0, quvi |-> q] # NoResult /\ result[r] = NoResult
    BY <1>5 DEF NoResult, ExportNewCall
  <2>3. Usable(q)
    BY <2>1 DEF HeldInv, HandlesAreMade
  <2>4. \A p \in Quvis : lib'[p] # NoLib <=> lib[p] # NoLib
    BY <2>1, <2>3, CallHolds
  <2>. QED BY <2>1, <2>2, <2>4, MadeHolds
<1>6. ASSUME NEW r \in Results, Get(r) \/ Walk(r)
      PROVE  Held(lib', result') = Held(lib, result)
  <2>1. UNCHANGED <<lib, result>>
    BY <1>6 DEF Get, Walk
  <2>. QED BY <2>1
<1>7. ASSUME NEW r \in Results, ResultFreeCall(r)
      PROVE  r \in Held(lib, result) /\ Held(lib', result') = Held(lib, result) \ {r}
  <2>1. result'[r] = NoResult /\ \A p \in Results : p = r \/ result'[p] = result[p]
    BY <1>7 DEF ResultFreeCall, HeldInv, HandlesTypeOK
  <2>2. result[r] # NoResult /\ lib' = lib
    BY <1>7 DEF ResultFreeCall
  <2>. QED BY <2>1, <2>2, QuvisAssumption DEF Held
<1>8. CASE UNCHANGED handleVars
  BY <1>8 DEF handleVars
<1>9. Quvis \subseteq Owners /\ Results \subseteq Owners
  BY DEF Owners
<1>10. CASE HandlesNext
  BY <1>1, <1>2, <1>3, <1>4, <1>5, <1>6, <1>7, <1>9, <1>10 DEF HandlesNext
<1>. QED BY <1>8, <1>10

LEMMA OwnedInit == HandlesInit => Owned!OwnershipInit
  BY DEF HandlesInit, Owned!OwnershipInit

LEMMA OwnedStep ==
  HeldInv /\ HeldInv' /\ [HandlesNext]_handleVars
    => [Owned!OwnershipNext]_({block[1] : block \in heap} \ {"lost"})
<1>. SUFFICES ASSUME HeldInv, HeldInv', [HandlesNext]_handleVars
              PROVE  [Owned!OwnershipNext]_({block[1] : block \in heap} \ {"lost"})
  OBVIOUS
<1>1. {block[1] : block \in heap} \ {"lost"} = Held(lib, result)
  BY OwnersAreHeld DEF OwnersOf
<1>2. ({block[1] : block \in heap} \ {"lost"})' = Held(lib', result')
  <2>1. (OwnersOf(heap) = Held(lib, result))'
    BY OwnersAreHeld, PTL
  <2>. QED BY <2>1 DEF OwnersOf, Held
<1>3. ASSUME Held(lib', result') = Held(lib, result)
      PROVE  UNCHANGED ({block[1] : block \in heap} \ {"lost"})
  BY <1>1, <1>2, <1>3
<1>4. ASSUME NEW h \in Owners, h \notin Held(lib, result),
             Held(lib', result') = Held(lib, result) \cup {h}
      PROVE  Owned!OwnershipNext
  BY <1>1, <1>2, <1>4 DEF Owned!OwnershipNext, Owned!Acquire, Owners
<1>5. ASSUME NEW h \in Owners, h \in Held(lib, result),
             Held(lib', result') = Held(lib, result) \ {h}
      PROVE  Owned!OwnershipNext
  BY <1>1, <1>2, <1>5 DEF Owned!OwnershipNext, Owned!Release, Owners
<1>. QED BY <1>3, <1>4, <1>5, HeldSteps

\* Handles implements Ownership: memory appears with the handle that a call
\* returns and all of it goes with the handle that is freed.
THEOREM HandlesOwned == HandlesSpec => HandlesAreOwned
  BY OwnedInit, OwnedStep, HeldAlways, PTL
     DEF HandlesAreOwned, HandlesSpec, Owned!OwnershipSpec
=============================================================================
