------------------------------ MODULE Handles ------------------------------
(***************************************************************************)
(* The handles an application holds, and what the library keeps allocated  *)
(* for them: library handles (quvi_new, quvi_free), the result handles     *)
(* made with one of them, what calls allocate for themselves, and the      *)
(* global state of libcurl, which all library handles share.               *)
(*                                                                         *)
(* A block of memory is named by who it belongs to, the part of it, and    *)
(* the pointer that holds it.  What is allocated is translated from the    *)
(* constructors and what is freed from the destructors, field by field.    *)
(* The application is taken to keep to the contract of the library: it     *)
(* uses what it holds and frees it once, result handles before or after    *)
(* the library handle they were made with, and then no longer passes them  *)
(* to the functions that work on the library handle.                       *)
(***************************************************************************)
EXTENDS Naturals, Sequences, FiniteSets

CONSTANTS
  Quvis,        \* library handles (quvi_t)
  Results,      \* result handles, of any kind
  Uses,         \* the kinds of result handles the application makes
  Losing,       \* what may go wrong in a script: see LosingCalls
  NumLists,     \* kinds of scripts: six of them (m_scan_scripts)
  MaxEntries,   \* bound: streams, media, types or URLs of a result
  MaxGoto,      \* bound: goto_url instructions followed in a call
  MaxLost       \* bound: calls that lose memory

ASSUME QuvisAssumption == /\ Quvis \cap Results = {}
                          /\ {"call", "lost", "freed", "none"} \cap (Quvis \cup Results) = {}
                          /\ IsFiniteSet(Quvis)

ASSUME HandleBoundsAssumption == {NumLists, MaxEntries, MaxGoto, MaxLost} \subseteq Nat

Kinds == {"media", "playlist", "subtitle", "export", "scan", "resolve",
          "metainfo", "file_ext"}

ASSUME UsesAssumption == Uses \subseteq Kinds

\* The functions of quvi.http.*, quvi.base64.* and quvi.crypto.* that allocate.
ScriptCalls == {"fetch", "resolve", "metainfo", "header", "cookie", "base64", "crypto"}

\* Those that may raise an error while they hold what they have allocated
\* (quvi.http.header frees it before it may; quvi.http.cookie too, except when the
\* cookie mode is missing); and "errmsg", the message of a crypto_new that failed,
\* which a crypto_exec that fails as well overwrites.
ScriptMishaps == (ScriptCalls \ {"header"}) \cup {"errmsg"}

ASSUME LosingAssumption == Losing \subseteq ScriptMishaps

\* How far quvi_new has come when it returns; the handle is returned always.
Reached == {"lua", "scripts", "curl", "gcrypt", "proxy", "ok"}

VARIABLES
  heap,      \* the blocks that are allocated
  stray,     \* history: a call has used, freed or overwritten what it may not
  lib,       \* of each library handle: how far quvi_new came, how many lists
             \* of scripts it has, whether there are custom headers
  result,    \* of each result handle: its kind, its entries, and the library
             \* handle it points to, if that has not been freed
  globals,   \* curl_global_init, less curl_global_cleanup
  lost,      \* history: how many blocks of which kind of call are lost
  spurious   \* history: quvi_free of a handle that never ran c_init

handleVars == <<heap, stray, lib, result, globals, lost, spurious>>

NoLib == [reached |-> "none", lists |-> 0, headers |-> FALSE]

Libs == [reached : Reached \cup {"none"}, lists : 0 .. NumLists, headers : BOOLEAN]

LosingCalls == ScriptMishaps \cup {"contents"}
-----------------------------------------------------------------------------
(* The constructors.                                                        *)

MediaNew    == {"media", "url.redirect_to", "url.thumbnail", "url.input", "title", "id"}
StreamNew   == {"stream", "container", "url", "id", "video.encoding", "audio.encoding"}
PlaylistNew == {"playlist", "url.thumbnail", "url.input", "id.playlist", "title"}
ItemNew     == {"item", "title", "url"}
SubtitleNew == {"subtitle", "url.input"}
TypeNew     == {"type"}
LangNew     == {"lang", "translated", "original", "code", "url", "id"}
ExportNew   == {"export", "url.input", "format.to", "data"}
ScanNew     == {"scan", "url.input"}
ScanUrlNew  == {"url"}
ResolveNew  == {"resolve", "status.errmsg", "url.addr", "url.dst"}
MetainfoNew == {"metainfo", "content_type", "file_ext", "url.input"}
FileExtNew  == {"file_ext", "result.file_ext"}
NetNew      == {"net", "http_metainfo.content_type", "status.errmsg", "fetch.content", "url.addr"}
ScriptNew   == {"script", "export.format", "domains", "fpath", "fname", "sha1"}
OptsNew     == {"opts", "opt", "opt.value"}
CryptoNew   == {"crypto", "cipher.h", "cipher.key", "out.data", "errmsg"}
LibraryNew  == {"quvi", "opt.user_agent", "status.errmsg"}

(* The destructors.                                                         *)

MediaFree    == {"url.redirect_to", "url.thumbnail", "url.input", "title", "id", "media"}
StreamFree   == {"container", "url", "id", "video.encoding", "audio.encoding", "stream"}
PlaylistFree == {"url.thumbnail", "url.input", "id.playlist", "title", "playlist"}
ItemFree     == {"title", "url", "item"}
SubtitleFree == {"url.input", "subtitle"}
TypeFree     == {"type"}
LangFree     == {"translated", "original", "code", "url", "id", "lang"}
ExportFree   == {"url.input", "format.to", "data", "export"}
ScanFree     == {"url.input", "scan"}
ScanUrlFree  == {"url"}
ResolveFree  == {"status.errmsg", "url.addr", "url.dst", "resolve"}
MetainfoFree == {"url.input", "content_type", "file_ext", "metainfo"}
FileExtFree  == {"result.file_ext", "file_ext"}
NetFree      == {"url.addr", "status.errmsg", "fetch.content", "http_metainfo.content_type", "net"}
ScriptFree   == {"export.format", "domains", "fpath", "fname", "sha1", "script"}
OptsFree     == {"opts", "opt", "opt.value"}
CryptoFree   == {"cipher.h", "cipher.key", "out.data", "errmsg", "crypto"}
LibraryFree  == {"opt.user_agent", "status.errmsg", "quvi"}

\* The pointers of a library handle that may be NULL.
OptionalParts == {"handle.lua", "handle.curl", "handle.proxy", "http.headers"}

Pointers ==
  UNION {MediaNew, StreamNew, PlaylistNew, ItemNew, SubtitleNew, TypeNew, LangNew,
         ExportNew, ScanNew, ScanUrlNew, ResolveNew, MetainfoNew, FileExtNew, NetNew,
         ScriptNew, OptsNew, CryptoNew, LibraryNew, OptionalParts, {"contents"}}

Parts == {"handle", "entry", "script", "net"} \cup OptionalParts \cup LosingCalls \cup Kinds

Block == (Quvis \cup Results \cup {"call", "lost"}) \X Parts \X Nat \X Pointers
-----------------------------------------------------------------------------
\* By kind of result handle: the handle, and each of its entries.
Constructed ==
  [media |-> MediaNew, playlist |-> PlaylistNew, subtitle |-> SubtitleNew,
   export |-> ExportNew, scan |-> ScanNew, resolve |-> ResolveNew,
   metainfo |-> MetainfoNew, file_ext |-> FileExtNew]

Destroyed ==
  [media |-> MediaFree, playlist |-> PlaylistFree, subtitle |-> SubtitleFree,
   export |-> ExportFree, scan |-> ScanFree, resolve |-> ResolveFree,
   metainfo |-> MetainfoFree, file_ext |-> FileExtFree]

\* The entry of a subtitle is a type with one language; some kinds have none.
EntryConstructed(kind) == CASE kind = "media"    -> StreamNew
                            [] kind = "playlist" -> ItemNew
                            [] kind = "subtitle" -> TypeNew \cup LangNew
                            [] kind = "scan"     -> ScanUrlNew
                            [] OTHER             -> {}

EntryDestroyed(kind) == CASE kind = "media"    -> StreamFree
                          [] kind = "playlist" -> ItemFree
                          [] kind = "subtitle" -> TypeFree \cup LangFree
                          [] kind = "scan"     -> ScanUrlFree
                          [] OTHER             -> {}

HasEntries(kind) == kind \in {"media", "playlist", "subtitle", "scan"}

\* The memory of owner o: n-th part of a kind, with these pointers.
Part(o, part, n, fields) == {<<o, part, n, field>> : field \in fields}

Entries(o, n, fields) == UNION {Part(o, "entry", i, fields) : i \in 1 .. n}

ResultNew(r, kind, n) == Part(r, "handle", 0, Constructed[kind])
                           \cup Entries(r, n, EntryConstructed(kind))

ResultFree(r, kind, n) == Part(r, "handle", 0, Destroyed[kind])
                            \cup Entries(r, n, EntryDestroyed(kind))

\* The parts of a library handle, by the pointers in it that are not NULL.
HasLua(l)   == l.reached # "lua"
HasCurl(l)  == l.reached \in {"gcrypt", "proxy", "ok"}
HasProxy(l) == l.reached = "ok"
RanCurlInit(l) == l.reached \in {"curl", "gcrypt", "proxy", "ok"}

Optional(q, part, has) == IF has THEN Part(q, part, 0, {part}) ELSE {}

Headers(q, l) == Optional(q, "http.headers", l.headers)

Scripts(q, l, fields) == UNION {Part(q, "script", k, fields) : k \in 1 .. l.lists}

QuviNewBlocks(q, l) ==
  Part(q, "handle", 0, LibraryNew)
    \cup Optional(q, "handle.lua", HasLua(l))
    \cup Scripts(q, l, ScriptNew)
    \cup Optional(q, "handle.curl", HasCurl(l))
    \cup Optional(q, "handle.proxy", HasProxy(l))

\* c_close, the strings, the six lists, and what is not NULL of the rest.
QuviFreeBlocks(q, l) ==
  Headers(q, l)
    \cup Optional(q, "handle.curl", HasCurl(l))
    \cup Scripts(q, l, ScriptFree)
    \cup Optional(q, "handle.lua", HasLua(l))
    \cup Optional(q, "handle.proxy", HasProxy(l))
    \cup Part(q, "handle", 0, LibraryFree)

\* The structure itself, which every function of a handle reads.
Struct(o, name) == {<<o, "handle", 0, name>>}

NoResult == [kind |-> "none", entries |-> 0, quvi |-> "none"]

ResultRecords == [kind : Kinds \cup {"none"}, entries : 0 .. MaxEntries,
                  quvi : Quvis \cup {"none", "freed"}]

HandlesTypeOK == /\ heap \in SUBSET Block
                 /\ stray \in BOOLEAN
                 /\ lib \in [Quvis -> Libs]
                 /\ result \in [Results -> ResultRecords]
                 /\ globals \in Nat
                 /\ lost \in Seq(LosingCalls)
                 /\ spurious \in BOOLEAN

HandlesInit == /\ heap = {}
               /\ stray = FALSE
               /\ lib = [q \in Quvis |-> NoLib]
               /\ result = [r \in Results |-> NoResult]
               /\ globals = 0
               /\ lost = <<>>
               /\ spurious = FALSE

\* A call that reads (or writes) some blocks, allocates some and frees some:
\* it may use what is allocated, must not overwrite the pointer to a block
\* that is, and frees only what is.
Touch(used, allocated, freed) ==
  /\ heap' = (heap \cup allocated) \ freed
  /\ stray' = (\/ stray
               \/ ~(used \subseteq heap)
               \/ allocated \cap heap # {}
               \/ ~(freed \subseteq heap \cup allocated))

-----------------------------------------------------------------------------
(* What a call allocates for itself, and frees before it returns.           *)

TransientNew(f) == CASE f = "fetch"    -> NetNew \cup OptsNew
                     [] f = "resolve"  -> ResolveNew \cup OptsNew
                     [] f = "metainfo" -> MetainfoNew \cup OptsNew
                     [] f = "crypto"   -> CryptoNew \cup OptsNew
                     [] f \in {"header", "cookie", "base64"} -> OptsNew
                     [] f \in {"contents", "errmsg"} -> {f}
                     [] OTHER          -> {}

TransientFree(f) == CASE f = "fetch"    -> NetFree \cup OptsFree
                      [] f = "resolve"  -> ResolveFree \cup OptsFree
                      [] f = "metainfo" -> MetainfoFree \cup OptsFree
                      [] f = "crypto"   -> CryptoFree \cup OptsFree
                      [] f \in {"header", "cookie", "base64"} -> OptsFree
                      [] OTHER          -> {}

Transient(f)  == Part("call", f, 0, TransientNew(f))
Released(f)   == Part("call", f, 0, TransientFree(f))

\* What scripts have the functions allocate, and free, when one of them goes wrong,
\* or "none".
Transients == [f \in ScriptMishaps \cup {"none"} |-> UNION {Transient(g) : g \in ScriptCalls \ {f}}]
Releases   == [f \in ScriptMishaps \cup {"none"} |-> UNION {Released(g) : g \in ScriptCalls \ {f}}]

\* luaL_error (croak_if_error, a missing option) leaves a function before it frees
\* what it has allocated, all of it at most; an error message is overwritten; a
\* file that turns out not to be a script keeps its contents: nothing holds that
\* memory any more.
Lost(f, n) == Part("lost", f, n, TransientNew(f))

MayLose == Len(lost) < MaxLost

\* n_new and n_free, by the functions of the API that use the network.
NetOf(kind)     == IF kind \in {"scan", "metainfo"} THEN Part("call", "net", 0, NetNew) ELSE {}
NetFreeOf(kind) == IF kind \in {"scan", "metainfo"} THEN Part("call", "net", 0, NetFree) ELSE {}

\* _chk_script_ident tries the ident of a script on a handle of its own, and a
\* script whose copy is listed already is freed again.
Tried ==      (UNION {Part("call", kind, 0, Constructed[kind]) :
                        kind \in {"export", "subtitle", "playlist", "media"}})
              \cup Part("call", "script", 0, ScriptNew)

TriedFreed == (UNION {Part("call", kind, 0, Destroyed[kind]) :
                        kind \in {"export", "subtitle", "playlist", "media"}})
              \cup Part("call", "script", 0, ScriptFree)

\* Mutant: m_scan_scripts goes one kind too far.
ListsAtTooFar(reached) == CASE reached = "lua"     -> {0}
                            [] reached = "scripts" -> 0 .. (NumLists - 1)
                            [] OTHER               -> {NumLists + 1}

\* How many lists there are when quvi_new ends at a step.
ListsAt(reached) == CASE reached = "lua"     -> {0}
                      [] reached = "scripts" -> 0 .. (NumLists - 1)
                      [] OTHER               -> {NumLists}

\* Mutant: c_init leaves curl_global_init to the first handle.
GlobalInitOnce(l) == IF RanCurlInit(l) /\ globals = 0 THEN 1 ELSE globals

\* curl_global_init in c_init.
GlobalInit(l) == IF RanCurlInit(l) THEN globals + 1 ELSE globals

\* curl_global_cleanup has no effect when nothing is initialised.
GlobalCleanup == IF globals > 0 THEN globals - 1 ELSE 0

QuviNew(q) ==
  /\ lib[q] = NoLib
  /\ \E reached \in Reached : \E lists \in ListsAt(reached), rejects \in BOOLEAN :
       LET l == [reached |-> reached, lists |-> lists, headers |-> FALSE]
       IN  /\ rejects => MayLose /\ HasLua(l)
           /\ Touch({}, QuviNewBlocks(q, l) \cup Tried
                          \cup (IF rejects THEN Lost("contents", Len(lost) + 1) ELSE {}),
                    TriedFreed)
           /\ lib' = [lib EXCEPT ![q] = l]
           /\ globals' = GlobalInit(l)
           /\ lost' = IF rejects THEN Append(lost, "contents") ELSE lost
  /\ UNCHANGED <<result, spurious>>

QuviFree(q) ==
  /\ lib[q] # NoLib
  /\ Touch(Struct(q, "quvi"), {}, QuviFreeBlocks(q, lib[q]))
  /\ lib' = [lib EXCEPT ![q] = NoLib]
  /\ result' = [r \in Results |-> [result[r] EXCEPT !.quvi = IF @ = q THEN "freed" ELSE @]]
  /\ globals' = GlobalCleanup
  /\ spurious' = (spurious \/ ~RanCurlInit(lib[q]))
  /\ UNCHANGED lost

\* A library handle the application may pass to other functions: quvi_ok.
Usable(q) == lib[q].reached = "ok"

\* c_reset, which drops the headers, is called before a script parses;
\* quvi_scan_new calls it at once.
MayReset(kind) == kind \in {"media", "playlist", "subtitle", "scan"}

\* Whether there are headers after a call, that may have reset the session: the
\* scripts may have set some.
HeadersAfter(l, resets) == IF resets THEN BOOLEAN ELSE {l.headers, TRUE}

\* A call on library handle q that runs scripts, which call each of ScriptCalls
\* and may set headers; one of ScriptMishaps, f, may happen.
Call(q, used, allocated, freed, resets) ==
  \E f \in Losing \cup {"none"}, headers \in HeadersAfter(lib[q], resets) :
    LET after == [lib[q] EXCEPT !.headers = headers]
    IN  /\ f # "none" => MayLose
        /\ Touch(used \cup Struct(q, "quvi"),
                 allocated \cup Transients[f] \cup Lost(f, Len(lost) + 1)
                   \cup (Headers(q, after) \ Headers(q, lib[q])),
                 freed \cup Releases[f]
                   \cup (Headers(q, lib[q]) \ Headers(q, after)))
        /\ lib' = [lib EXCEPT ![q] = after]
        /\ lost' = IF f = "none" THEN lost ELSE Append(lost, f)
        /\ UNCHANGED <<globals, spurious>>

\* Mutant: every goto_url makes a media handle of its own.
MakesHandleEachTime(round) == TRUE

\* m_match_media_script makes a handle only when there is none yet.
MakesHandle(round) == round = 0

MoreHandles(r, gotos) ==
  UNION {Part(r, "handle", round, Constructed["media"]) :
           round \in {n \in 1 .. gotos : MakesHandle(n)}}

Rounds(kind) == IF kind = "media" THEN 0 .. MaxGoto ELSE {0}

EntryCounts(kind) == IF HasEntries(kind) THEN 0 .. MaxEntries ELSE {0}

\* quvi_media_new, quvi_playlist_new, quvi_subtitle_new, quvi_scan_new,
\* quvi_resolve_new, quvi_http_metainfo_new and quvi_file_ext_new return a
\* handle also when they fail.
ResultNewCall(r, kind) ==
  /\ result[r] = NoResult
  /\ \E q \in Quvis : Usable(q) /\
       \E n \in EntryCounts(kind), gotos \in Rounds(kind) :
         /\ Call(q, {}, ResultNew(r, kind, n) \cup MoreHandles(r, gotos) \cup NetOf(kind),
                 NetFreeOf(kind), MayReset(kind))
         /\ result' = [result EXCEPT ![r] = [kind |-> kind, entries |-> n, quvi |-> q]]

\* quvi_subtitle_export_new copies what it needs out of the language.
ExportNewCall(r, s) ==
  /\ "export" \in Uses
  /\ result[r] = NoResult
  /\ result[s].kind = "subtitle" /\ result[s].entries > 0 /\ result[s].quvi \in Quvis
  /\ LET q == result[s].quvi
     IN  /\ Call(q, Part(s, "entry", 1, {"lang", "url"}), ResultNew(r, "export", 0), {}, FALSE)
         /\ result' = [result EXCEPT ![r] = [kind |-> "export", entries |-> 0, quvi |-> q]]

\* Mutant: the handle is freed only when a script has accepted the URL.
SupportsFreesFound(kind, found) ==
  IF found THEN Part("call", kind, 0, Destroyed[kind]) ELSE {}

\* _supports_playlist, _supports_subtitle and _supports_media.
SupportsFrees(kind, found) == Part("call", kind, 0, Destroyed[kind])

\* quvi_supports makes a handle to try the scripts of a type on, and frees it,
\* however that ends; a combined type is one of these after the other.
Supports(q) ==
  /\ Usable(q)
  /\ \E kind \in {"playlist", "subtitle", "media"}, found \in BOOLEAN :
       Call(q, {}, Part("call", kind, 0, Constructed[kind]), SupportsFrees(kind, found), FALSE)
  /\ UNCHANGED result

\* The getters and selections that write q->status.rc.
Get(r) ==
  /\ result[r].kind \in {"media", "playlist", "subtitle", "metainfo"}
  /\ result[r].quvi \in Quvis
  /\ Touch(Struct(r, result[r].kind) \cup Struct(result[r].quvi, "quvi"), {}, {})
  /\ UNCHANGED <<lib, result, globals, lost, spurious>>

\* Mutant: like the getters, they write q->status.rc.
WalkUsesLibrary(r) ==
  Part(r, "handle", 0, Constructed[result[r].kind]) \cup Struct(result[r].quvi, "quvi")

\* The *_next and *_reset functions, quvi_media_stream_choose_best, and the
\* getters without a status: they stay within the handle and its entries.
WalkUses(r) == ResultNew(r, result[r].kind, result[r].entries)

Walk(r) == /\ result[r] # NoResult
           /\ Touch(WalkUses(r), {}, {})
           /\ UNCHANGED <<lib, result, globals, lost, spurious>>

ResultFreeCall(r) ==
  /\ result[r] # NoResult
  /\ Touch(Struct(r, result[r].kind), {}, ResultFree(r, result[r].kind, result[r].entries))
  /\ result' = [result EXCEPT ![r] = NoResult]
  /\ UNCHANGED <<lib, globals, lost, spurious>>

HandlesNext == \/ \E q \in Quvis : QuviNew(q) \/ QuviFree(q) \/ Supports(q)
               \/ \E r \in Results : \/ \E kind \in Uses \ {"export"} : ResultNewCall(r, kind)
                                     \/ \E s \in Results : ExportNewCall(r, s)
                                     \/ Get(r)
                                     \/ Walk(r)
                                     \/ ResultFreeCall(r)

HandlesSpec == HandlesInit /\ [][HandlesNext]_handleVars
-----------------------------------------------------------------------------
\* The memory of a handle the application holds, and of none it does not.
Footprint(o) ==
  IF o \in Quvis
  THEN IF lib[o] = NoLib THEN {} ELSE QuviNewBlocks(o, lib[o]) \cup Headers(o, lib[o])
  ELSE IF result[o] = NoResult THEN {} ELSE ResultNew(o, result[o].kind, result[o].entries)

\* Every block belongs to a handle that the application holds, or has been lost
\* by a function that raised an error, a crypto_exec or a file that was no script: the
\* destructors match the constructors, for every way a constructor may fail,
\* and no call leaves anything else behind.
HeapIsHeld == heap = (UNION {Footprint(o) : o \in Quvis \cup Results})
                       \cup (UNION {Lost(lost[n], n) : n \in 1 .. Len(lost)})

\* No call uses or frees memory that has been freed, or overwrites a pointer to
\* memory that has not: in particular, result handles may be walked and freed
\* after the library handle, and an export handle outlives its subtitle.
NothingStray == ~stray

\* As long as no handle has been freed that never came to c_init, libcurl is
\* initialised once for each library handle that did.
GlobalsAreCounted ==
  ~spurious => globals = Cardinality({q \in Quvis : RanCurlInit(lib[q])})

Owned == INSTANCE Ownership WITH Handles <- Quvis \cup Results,
                                 held    <- {block[1] : block \in heap} \ {"lost"}

\* Memory comes and goes with the handles: all of one at a time.
HandlesAreOwned == Owned!OwnershipSpec
-----------------------------------------------------------------------------
(* What the documentation says and the code does not do.                    *)

\* glossary: the session handle "is reused by libquvi to access the Internet
\* until quvi_free is called": until then libcurl must stay initialised.
SessionsAreInitialised == (\E q \in Quvis : HasCurl(lib[q])) => globals > 0
=============================================================================
