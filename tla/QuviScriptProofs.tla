-------------------------- MODULE QuviScriptProofs --------------------------
(***************************************************************************)
(* Proofs that a call of QuviCall runs the right script in the right state *)
(* and gives usable media back: `parse' is that of the script whose ident  *)
(* accepted the URL (when every file defines one), it starts in a clean    *)
(* session, and quvi_media_new succeeds only with a stream.                *)
(*                                                                         *)
(* `parse' is looked up after the ident of one script after another, after *)
(* quvi.http.* calls and perhaps after a goto_url.  ScriptInv says what    *)
(* holds at every stage on the way there: that nothing was loaded between  *)
(* the ident that runs and the parse that follows (Loaded), and which      *)
(* stages a call of each function passes through (StageFits).              *)
(***************************************************************************)
EXTENDS QuviCallProofs

\* The script that runs, or has just run, was the last to define a `parse'.
Loaded(r, id) ==
  r.stage \in {"ident", "parse", "scan"} /\ r.kind # "export" => id = <<r.kind, r.i>>

\* The stages of a call, by its function and its kind of scripts.
StageFits(r) ==
  /\ r.stage = "parse" => r.kind # "export"
  /\ r.stage \in {"fetch", "scan"} => r.kind = "scan"
  /\ r.stage # "none" /\ r.api = "media_new" =>
       /\ r.mode = "parse" /\ r.kind = "media"
       /\ r.stage \in {"resolve", "ident", "parse", "entities"}

\* A media handle that has been parsed is not empty.
Parsed(m) == m.streams \/ m.redirect

StagesInv == /\ StageFits(req)
             /\ control # "app" => req.stage # "none"
             /\ control = "lib" => req.stage \in {"fetch", "metainfo"}
             /\ req.stage = "entities" => Parsed(media)

\* A file may lack a `parse' although it has a line that looks like one.
ScriptInv == StagesInv /\ (HasParse = ParseIds => Loaded(req, luaParse))
-----------------------------------------------------------------------------
(* Where control goes next.                                                 *)

\* Where a call goes that has come back from its script, and with which request.
GoesOn == /\ StageFits(req')
          /\ req'.stage \notin {"parse", "entities"}
          /\ control' # "app" => req'.stage # "none"
          /\ control' # "lib"
          /\ HasParse = ParseIds => Loaded(req', luaParse')

LEMMA GoesOnInv ==
  ASSUME GoesOn
  PROVE  ScriptInv'
BY DEF GoesOn, ScriptInv, StagesInv, Loaded, StageFits

LEMMA ReturnGoesOn ==
  ASSUME NEW r \in Requests, NEW st, Return(r, st)
  PROVE  GoesOn
<1>1. req'.stage = "none" /\ control' = "app"
  BY DEF Return, Requests
<1>2. QED
  BY <1>1 DEF GoesOn, StageFits, Loaded

LEMMA ResolveGoesOn ==
  ASSUME NEW r \in Requests, NEW st, Resolve(r, st),
         r.api = "media_new" => r.mode = "parse" /\ r.kind = "media"
  PROVE  GoesOn
<1>1. /\ req' = [r EXCEPT !.stage = "resolve"]
      /\ control' = "lua"
  BY DEF Resolve, RunScript
<1>2. req'.stage = "resolve" /\ req'.api = r.api /\ req'.mode = r.mode /\ req'.kind = r.kind
  BY <1>1 DEF Requests
<1>3. QED
  BY <1>1, <1>2 DEF GoesOn, StageFits, Loaded

LEMMA IdentGoesOn ==
  ASSUME NEW r \in Requests, NEW i \in 1 .. NumScripts, NEW st, Ident(r, i, st),
         r.api = "media_new" => r.mode = "parse" /\ r.kind = "media"
  PROVE  GoesOn
<1>1. /\ req' = [r EXCEPT !.stage = "ident", !.i = i]
      /\ control' = "lua"
      /\ luaParse' = IF <<r.kind, i>> \in HasParse THEN <<r.kind, i>> ELSE luaParse
  BY DEF Ident, RunScript, DoFile
<1>2. /\ req'.stage = "ident" /\ req'.api = r.api /\ req'.mode = r.mode
      /\ req'.kind = r.kind /\ req'.i = i
  BY <1>1 DEF Requests
<1>3. r.kind # "export" => <<r.kind, i>> \in ParseIds
  BY DEF Requests, ParseIds
<1>4. QED
  BY <1>1, <1>2, <1>3 DEF GoesOn, StageFits, Loaded

LEMMA SupportsNextGoesOn ==
  ASSUME NEW r \in Requests, NEW st, r.api = "supports", SupportsNext(r, st)
  PROVE  GoesOn
<1>1. CASE r.todo = {} \/ st.rc \notin {Ok, NoSupport}
  BY <1>1, ReturnGoesOn DEF SupportsNext
<1>2. CASE ~(r.todo = {} \/ st.rc \notin {Ok, NoSupport})
  <2> DEFINE kind == NextKind(r.todo)
             next == [r EXCEPT !.kind = kind, !.todo = @ \ {kind}]
  <2>1. kind \in MatchKinds
    BY <1>2, NextKindIsLeft DEF Requests
  <2>2. next \in Requests /\ next.api = "supports"
    <3> HIDE DEF kind
    <3>1. QED
      BY <2>1 DEF Requests, ScriptKinds
  <2>3. Resolve(next, st) \/ Ident(next, 1, st)
    BY <1>2 DEF SupportsNext
  <2> HIDE DEF next, kind
  <2>4. QED
    BY <2>2, <2>3, ResolveGoesOn, IdentGoesOn, FirstScript
<1>3. QED
  BY <1>1, <1>2

LEMMA MatchedGoesOn ==
  ASSUME TypeOK, NEW st, Matched(st)
  PROVE  GoesOn
<1>1. CASE req.api = "supports"
  <2> DEFINE r == [req EXCEPT !.found = (st.rc = Ok)]
  <2>1. r \in Requests /\ r.api = "supports"
    BY <1>1 DEF TypeOK, Requests
  <2>2. SupportsNext(r, st)
    BY <1>1 DEF Matched
  <2> HIDE DEF r
  <2>3. QED
    BY <2>1, <2>2, SupportsNextGoesOn
<1>2. CASE req.api # "supports"
  BY <1>2, ReturnGoesOn DEF Matched, TypeOK
<1>3. QED
  BY <1>1, <1>2

LEMMA FinishMediaGoesOn ==
  ASSUME TypeOK, StagesInv, req.stage # "none", NEW m, FinishMedia(m)
  PROVE  GoesOn
<1>1. CASE m.redirect
  BY <1>1, ResolveGoesOn DEF FinishMedia, TypeOK, StagesInv, StageFits
<1>2. CASE ~m.redirect
  BY <1>2, MatchedGoesOn DEF FinishMedia
<1>3. QED
  BY <1>1, <1>2

LEMMA RejectGoesOn ==
  ASSUME TypeOK, StagesInv, req.stage # "none", NEW st, Reject(st)
  PROVE  GoesOn
<1>1. CASE req.i < NumScripts
  <2>1. req.i + 1 \in 1 .. NumScripts
    BY <1>1, NumScriptsAssumption DEF TypeOK, Requests
  <2>2. QED
    BY <1>1, <2>1, IdentGoesOn DEF Reject, TypeOK, StagesInv, StageFits
<1>2. CASE ~(req.i < NumScripts)
  BY <1>2, MatchedGoesOn DEF Reject
<1>3. QED
  BY <1>1, <1>2

\* A step that leaves the call where it is.
LEMMA SamePlace ==
  ASSUME ScriptInv, UNCHANGED <<req, luaParse, media>>,
         control' \in {control, "lua", "raised", "exit"}, control # "app"
  PROVE  ScriptInv'
BY DEF ScriptInv, StagesInv, StageFits, Loaded, Parsed
-----------------------------------------------------------------------------
(* Every step keeps the invariant.                                          *)

LEMMA ApplicationKeeps ==
  ASSUME TypeOK, ScriptInv, Application
  PROVE  ScriptInv'
<1>1. ASSUME NEW kind \in MatchKinds, ParseNew(kind)
      PROVE  GoesOn
  <2>1. /\ Request(ParseApi[kind], "parse", kind) \in Requests
        /\ ParseApi[kind] = "media_new" => kind = "media"
    BY RequestType DEF MatchKinds, ParseApi, APIs, ScriptKinds
  <2>2. QED
    BY <1>1, <2>1, ResolveGoesOn DEF ParseNew, Request
<1>2. CASE ExportNew
  <2>1. Request("subtitle_export_new", "parse", "export") \in Requests
    BY RequestType DEF APIs, ScriptKinds
  <2>2. GoesOn
    BY <1>2, <2>1, IdentGoesOn, FirstScript DEF ExportNew, Request
  <2>3. QED
    BY <2>2, GoesOnInv DEF ScriptInv
<1>3. ASSUME NEW mode \in {"online", "offline"}, NEW types \in SUBSET MatchKinds,
             Supports(mode, types)
      PROVE  GoesOn
  <2> DEFINE r == [Request("supports", mode, "media") EXCEPT !.todo = types]
             st == WithCode(Aged(status), Ok)
  <2>1. r \in Requests /\ r.api = "supports"
    <3>1. Request("supports", mode, "media") \in Requests
      BY RequestType DEF APIs, ScriptKinds, MatchKinds
    <3>2. QED
      BY <3>1 DEF Requests, Request
  <2>2. SupportsNext(r, st)
    BY <1>3 DEF Supports
  <2> HIDE DEF r, st
  <2>3. QED
    BY <2>1, <2>2, SupportsNextGoesOn
<1>4. CASE ResolveNew
  <2>1. Request("resolve_new", "online", "media") \in Requests
    BY RequestType DEF APIs, ScriptKinds, MatchKinds
  <2>2. GoesOn
    BY <1>4, <2>1, ResolveGoesOn DEF ResolveNew, Request
  <2>3. QED
    BY <2>2, GoesOnInv DEF ScriptInv
<1>5. CASE ScanNew
  <2>1. req' = [Request("scan_new", "parse", "scan") EXCEPT !.stage = "fetch"] /\ control' = "lib"
    BY <1>5 DEF ScanNew
  <2>2. req'.stage = "fetch" /\ req'.kind = "scan" /\ req'.api = "scan_new"
    BY <2>1 DEF Request
  <2>3. QED
    BY <2>1, <2>2 DEF ScriptInv, StagesInv, StageFits, Loaded
<1>6. CASE MetainfoNew
  <2>1. req' = [Request("metainfo_new", "parse", "media") EXCEPT !.stage = "metainfo"]
        /\ control' = "lib"
    BY <1>6 DEF MetainfoNew
  <2>2. req'.stage = "metainfo" /\ req'.api = "metainfo_new"
    BY <2>1 DEF Request
  <2>3. QED
    BY <2>1, <2>2 DEF ScriptInv, StagesInv, StageFits, Loaded
<1>7. CASE FileExtNew
  <2>1. req' = [Request("file_ext_new", "parse", "media") EXCEPT !.stage = "ext"]
        /\ control' = "lua"
    BY <1>7 DEF FileExtNew, RunScript
  <2>2. req'.stage = "ext" /\ req'.api = "file_ext_new"
    BY <2>1 DEF Request
  <2>3. QED
    BY <2>1, <2>2 DEF ScriptInv, StagesInv, StageFits, Loaded
<1>8. CASE SetOption
  BY <1>8 DEF SetOption, ScriptInv, StagesInv, StageFits, Loaded, Parsed
<1>9. CASE Get
  BY <1>9 DEF Get, ScriptInv, StagesInv, StageFits, Loaded, Parsed
<1>10. QED
  BY <1>1, <1>2, <1>3, <1>4, <1>5, <1>6, <1>7, <1>8, <1>9, GoesOnInv DEF Application, ScriptInv

LEMMA TransferKeeps ==
  ASSUME TypeOK, ScriptInv, NEW op \in Ops,
         BeginTransfer(op) \/ RefuseTransfer(op) \/ EndTransfer(op)
  PROVE  ScriptInv'
<1>1. CASE BeginTransfer(op)
  BY <1>1 DEF BeginTransfer, ScriptInv, StagesInv, StageFits, Loaded, Parsed
<1>2. ASSUME NEW st, NEW croaks, Deliver(st, croaks), UNCHANGED media
      PROVE  ScriptInv'
  <2>1. CASE control = "lua"
    <3>1. UNCHANGED <<req, luaParse, media>> /\ control' \in {"lua", "raised"}
      BY <1>2, <2>1 DEF Deliver, ToScript
    <3>2. QED
      BY <2>1, <3>1, SamePlace DEF ScriptInv
  <2>2. CASE control # "lua" /\ req.stage = "fetch" /\ st.rc = Ok
    <3>1. /\ req' = [req EXCEPT !.stage = "scan", !.i = 1]
          /\ control' = "lua"
          /\ luaParse' = IF <<"scan", 1>> \in HasParse THEN <<"scan", 1>> ELSE luaParse
      BY <1>2, <2>2 DEF Deliver, ToLibrary, RunScript, DoFile
    <3>2. req'.stage = "scan" /\ req'.kind = "scan" /\ req'.i = 1 /\ req'.api # "media_new"
      BY <2>2, <3>1 DEF TypeOK, Requests, ScriptInv, StagesInv, StageFits
    <3>3. <<"scan", 1>> \in ParseIds
      BY FirstScript DEF ParseIds, ScriptKinds
    <3>4. QED
      BY <3>1, <3>2, <3>3 DEF ScriptInv, StagesInv, StageFits, Loaded
  <2>3. CASE control # "lua" /\ ~(req.stage = "fetch" /\ st.rc = Ok)
    <3>1. Return(req, st)
      BY <1>2, <2>3 DEF Deliver, ToLibrary
    <3>2. GoesOn
      BY <3>1, ReturnGoesOn DEF TypeOK
    <3>3. QED
      BY <3>2, GoesOnInv DEF ScriptInv
  <2>4. QED
    BY <1>2, <2>1, <2>2, <2>3
<1>3. CASE RefuseTransfer(op)
  BY <1>2, <1>3 DEF RefuseTransfer
<1>4. CASE EndTransfer(op)
  BY <1>2, <1>4 DEF EndTransfer
<1>5. QED
  BY <1>1, <1>3, <1>4

LEMMA ScriptCallKeeps ==
  ASSUME TypeOK, ScriptInv,
         \/ ScriptMetainfoSkipped \/ Header \/ Base64 \/ Crypto
         \/ \E mode \in CookieModes : SetCookie(mode)
  PROVE  ScriptInv'
<1>1. /\ UNCHANGED <<req, luaParse, media>>
      /\ control = "lua" /\ control' \in {"lua", "raised", "exit"}
  BY DEF ScriptMetainfoSkipped, Header, SetCookie, Base64, Crypto, Panic, ScriptMayCall, ToScript
<1>2. QED
  BY <1>1, SamePlace DEF ScriptInv

LEMMA ScriptOutcomeKeeps ==
  ASSUME TypeOK, ScriptInv,
         \/ ResolveReturns \/ ResolveRaises \/ IdentRejects \/ IdentRaises
         \/ IdentSupports \/ ExportStarts \/ ParseStarts
         \/ ReturnsGarbage \/ EntitiesReturn \/ OtherReturns \/ ScriptRaises \/ ScanReturns
         \/ MetainfoSkipped
         \/ \E goto, title \in BOOLEAN : MediaParses(goto, title)
  PROVE  ScriptInv'
<1>0. req \in Requests
  BY DEF TypeOK
<1>1. CASE ResolveReturns
  <2>1. CASE status.rc = Ok /\ req.api # "resolve_new"
    <3>1. Ident(req, 1, status) /\ req.stage = "resolve"
      BY <1>1, <2>1 DEF ResolveReturns, Returned
    <3>2. GoesOn
      BY <1>0, <3>1, IdentGoesOn, FirstScript DEF ScriptInv, StagesInv, StageFits
    <3>3. QED
      BY <3>2, GoesOnInv DEF ScriptInv
  <2>2. CASE ~(status.rc = Ok /\ req.api # "resolve_new")
    BY <1>1, <2>2, MatchedGoesOn, GoesOnInv DEF ResolveReturns, ScriptInv
  <2>3. QED
    BY <2>1, <2>2
<1>2. CASE ResolveRaises
  BY <1>2, MatchedGoesOn, GoesOnInv DEF ResolveRaises, ScriptInv
<1>3. CASE IdentRejects \/ IdentRaises
  <2>1. req.stage = "ident" /\ \E st : Reject(st)
    BY <1>3 DEF IdentRejects, IdentRaises, Returned, Erred
  <2>2. QED
    BY <2>1, RejectGoesOn, GoesOnInv DEF ScriptInv
<1>4. CASE IdentSupports
  BY <1>4, MatchedGoesOn, GoesOnInv DEF IdentSupports, ScriptInv
<1>5. CASE ExportStarts
  <2>1. /\ req' = [req EXCEPT !.stage = "export"] /\ control' = "lua"
        /\ req.stage = "ident" /\ req.kind = "export"
    BY <1>5 DEF ExportStarts, RunScript, Returned
  <2>2. req'.stage = "export" /\ req.api # "media_new" /\ req'.api = req.api
    BY <1>0, <2>1 DEF Requests, ScriptInv, StagesInv, StageFits
  <2>3. QED
    BY <2>1, <2>2 DEF ScriptInv, StagesInv, StageFits, Loaded
<1>6. CASE ParseStarts
  <2>1. CASE luaParse = NoScript
    <3>1. UNCHANGED <<req, luaParse, media>> /\ control' = "exit" /\ control = "lua"
      BY <1>6, <2>1 DEF ParseStarts, Returned, Panic
    <3>2. QED
      BY <3>1, SamePlace DEF ScriptInv
  <2>2. CASE luaParse # NoScript
    <3>1. /\ req' = [req EXCEPT !.stage = "parse"] /\ control' = "lua"
          /\ req.stage = "ident" /\ req.kind # "export"
          /\ luaParse' = luaParse
      BY <1>6, <2>2 DEF ParseStarts, RunScript, Returned
    <3>2. /\ req'.stage = "parse" /\ req'.api = req.api /\ req'.kind = req.kind
          /\ req'.mode = req.mode /\ req'.i = req.i
      BY <1>0, <3>1 DEF Requests
    <3>3. QED
      BY <3>1, <3>2 DEF ScriptInv, StagesInv, StageFits, Loaded
  <2>3. QED
    BY <2>1, <2>2
<1>7. CASE ReturnsGarbage
  <2>1. UNCHANGED <<req, luaParse, media>> /\ control' = "exit" /\ control = "lua"
    BY <1>7 DEF ReturnsGarbage, Returned, Panic
  <2>2. QED
    BY <2>1, SamePlace DEF ScriptInv
<1>8. CASE EntitiesReturn
  <2>1. req.stage = "entities" /\ FinishMedia(media)
    BY <1>8 DEF EntitiesReturn, Returned
  <2>2. QED
    BY <2>1, FinishMediaGoesOn, GoesOnInv DEF ScriptInv
<1>9. CASE OtherReturns \/ ScriptRaises \/ MetainfoSkipped
  <2>1. \E st : Return(req, st)
    BY <1>9 DEF OtherReturns, ScriptRaises, MetainfoSkipped
  <2>2. QED
    BY <1>0, <2>1, ReturnGoesOn, GoesOnInv DEF ScriptInv
<1>10. CASE ScanReturns
  <2>1. CASE req.i < NumScripts
    <3>1. /\ req' = [req EXCEPT !.i = @ + 1] /\ control' = "lua" /\ req.stage = "scan"
          /\ luaParse' = IF <<"scan", req.i + 1>> \in HasParse
                         THEN <<"scan", req.i + 1>> ELSE luaParse
      BY <1>10, <2>1 DEF ScanReturns, RunScript, DoFile, Returned
    <3>2. /\ req'.stage = "scan" /\ req'.kind = "scan" /\ req'.i = req.i + 1
          /\ req'.api # "media_new"
      BY <1>0, <3>1 DEF Requests, ScriptInv, StagesInv, StageFits
    <3>3. <<"scan", req.i + 1>> \in ParseIds
      BY <1>0, <2>1, NumScriptsAssumption DEF Requests, ParseIds, ScriptKinds
    <3>4. QED
      BY <3>1, <3>2, <3>3 DEF ScriptInv, StagesInv, StageFits, Loaded
  <2>2. CASE ~(req.i < NumScripts)
    BY <1>0, <1>10, <2>2, ReturnGoesOn, GoesOnInv DEF ScanReturns, ScriptInv
  <2>3. QED
    BY <2>1, <2>2
<1>11. ASSUME NEW goto \in BOOLEAN, NEW title \in BOOLEAN, MediaParses(goto, title)
       PROVE  ScriptInv'
  <2>1. CASE title
    <3>1. /\ req' = [req EXCEPT !.stage = "entities"] /\ control' = "lua"
          /\ req.stage = "parse" /\ media' = ParsedMedia(goto)
      BY <1>11, <2>1 DEF MediaParses, RunScript, Returned
    <3>2. /\ req'.stage = "entities" /\ req'.api = req.api /\ req'.kind = req.kind
          /\ req'.mode = req.mode
      BY <1>0, <3>1 DEF Requests
    <3>3. Parsed(media')
      BY <3>1 DEF ParsedMedia, Parsed
    <3>4. QED
      BY <3>1, <3>2, <3>3 DEF ScriptInv, StagesInv, StageFits, Loaded, Parsed
  <2>2. CASE ~title
    <3>1. req.stage = "parse" /\ FinishMedia(ParsedMedia(goto))
      BY <1>11, <2>2 DEF MediaParses, Returned
    <3>2. QED
      BY <3>1, FinishMediaGoesOn, GoesOnInv DEF ScriptInv
  <2>3. QED
    BY <2>1, <2>2
<1>12. QED
  BY <1>1, <1>2, <1>3, <1>4, <1>5, <1>6, <1>7, <1>8, <1>9, <1>10, <1>11

LEMMA ScriptInvStep == TypeOK /\ ScriptInv /\ [Next]_vars => ScriptInv'
<1> SUFFICES ASSUME TypeOK, ScriptInv, [Next]_vars PROVE ScriptInv'
  OBVIOUS
<1>1. CASE Application
  BY <1>1, ApplicationKeeps
<1>2. CASE Progress
  BY <1>2, TransferKeeps, ScriptCallKeeps, ScriptOutcomeKeeps DEF Progress
<1>3. CASE Exited \/ UNCHANGED vars
  BY <1>3 DEF Exited, vars, callVars, ScriptInv, StagesInv, StageFits, Loaded, Parsed
<1>4. QED
  BY <1>1, <1>2, <1>3 DEF Next

\* A call passes through the stages of its function, with its own script loaded.
THEOREM ScriptInvariant == Spec => []ScriptInv
<1>1. Init => ScriptInv
  BY DEF Init, ScriptInv, StagesInv, StageFits, Loaded
<1>2. QED
  BY <1>1, ScriptInvStep, TypeCorrect, PTL DEF Spec

\* When the file of every script defines a `parse', the one that runs is that of
\* the script whose ident accepted the URL, whatever was loaded before.
THEOREM OwnParseRuns == HasParse = ParseIds => (Spec => []ParsesMatchedScript)
<1> SUFFICES ASSUME HasParse = ParseIds PROVE Spec => []ParsesMatchedScript
  OBVIOUS
<1>1. ScriptInv => ParsesMatchedScript
  BY DEF ScriptInv, StagesInv, StageFits, Loaded, ParsesMatchedScript
<1>2. QED
  BY <1>1, ScriptInvariant, PTL
-----------------------------------------------------------------------------
(* Usable media.                                                            *)

\* A transfer runs for the library itself or for a script.
TransferInv == xfer # "none" => control \in {"lib", "lua"}

LEMMA TransferInvStep == TransferInv /\ [Next]_vars => TransferInv'
<1> SUFFICES ASSUME TransferInv, [Next]_vars PROVE TransferInv'
  OBVIOUS
<1>1. CASE Application
  <2>1. control = "app" /\ xfer' = xfer
    BY <1>1 DEF Application, ParseNew, ExportNew, Supports, ResolveNew, ScanNew, MetainfoNew,
                FileExtNew, SetOption, Get, NewCall, sessionVars, ResetSession, SetUserAgent,
                AllowCookies
  <2>2. QED
    BY <2>1 DEF TransferInv
<1>2. ASSUME NEW op \in Ops, BeginTransfer(op) \/ RefuseTransfer(op) \/ EndTransfer(op)
      PROVE  TransferInv'
  <2>1. CASE BeginTransfer(op)
    BY <2>1 DEF BeginTransfer, MayStart, ScriptMayCall, TransferInv
  <2>2. CASE RefuseTransfer(op)
    BY <2>2 DEF RefuseTransfer, MayStart, ScriptMayCall, sessionVars, TransferInv
  <2>3. CASE EndTransfer(op)
    BY <2>3 DEF EndTransfer, End, TransferInv
  <2>4. QED
    BY <1>2, <2>1, <2>2, <2>3
<1>3. ASSUME \/ ScriptMetainfoSkipped
             \/ Header \/ Base64 \/ Crypto
             \/ \E mode \in CookieModes : SetCookie(mode)
      PROVE  TransferInv'
  BY <1>3 DEF ScriptMetainfoSkipped, Header, SetCookie, Base64, Crypto, ScriptMayCall,
              sessionVars, AddHeader, ClearHeaders, Cookie, TransferInv
<1>4. ASSUME \/ MetainfoSkipped \/ ResolveReturns \/ ResolveRaises \/ IdentRejects
             \/ IdentRaises \/ IdentSupports \/ ExportStarts \/ ReturnsGarbage
             \/ EntitiesReturn \/ OtherReturns \/ ScriptRaises \/ ScanReturns
             \/ \E goto, title \in BOOLEAN : MediaParses(goto, title)
      PROVE  TransferInv'
  <2>1. xfer = "none" /\ UNCHANGED sessionVars
    BY <1>4 DEF MetainfoSkipped, ResolveReturns, ResolveRaises, IdentRejects, IdentRaises,
                IdentSupports, ExportStarts, ReturnsGarbage, EntitiesReturn, OtherReturns,
                ScriptRaises, ScanReturns, MediaParses, Returned, Erred
  <2>2. QED
    BY <2>1 DEF sessionVars, TransferInv
<1>5. CASE ParseStarts
  BY <1>5 DEF ParseStarts, ResetSession, TransferInv
<1>6. CASE Exited \/ UNCHANGED vars
  BY <1>6 DEF Exited, vars, callVars, sessionVars, TransferInv
<1>7. QED
  BY <1>1, <1>2, <1>3, <1>4, <1>5, <1>6 DEF Next, Progress

\* What quvi_media_new comes back with.
Usable == Returns /\ req.api = "media_new" /\ status'.rc = Ok
            => media'.streams /\ ~media'.redirect

\* m_match_media_script leaves the loop over goto_url with a stream.
LEMMA FinishMediaUsable ==
  ASSUME NEW m, Parsed(m), FinishMedia(m)
  PROVE  Usable
<1>1. CASE m.redirect
  BY <1>1 DEF FinishMedia, Resolve, RunScript, Usable, Returns
<1>2. CASE ~m.redirect
  BY <1>2 DEF FinishMedia, Parsed, Usable
<1>3. QED
  BY <1>1, <1>2

\* A return with another code than QUVI_OK.
LEMMA MatchedError ==
  ASSUME NEW st, st.rc # Ok, Matched(st)
  PROVE  Usable
<1>1. CASE req.api = "supports"
  BY <1>1 DEF Usable
<1>2. CASE req.api # "supports"
  BY <1>2 DEF Matched, Return, Usable
<1>3. QED
  BY <1>1, <1>2

LEMMA UsableStep == TypeOK /\ ScriptInv /\ TransferInv /\ [Next]_vars => Usable
<1> SUFFICES ASSUME TypeOK, ScriptInv, TransferInv, [Next]_vars,
                    Returns, req.api = "media_new"
             PROVE  Usable
  BY DEF Usable
<1>0. /\ req.stage \in {"resolve", "ident", "parse", "entities"}
      /\ req.mode = "parse" /\ req.kind = "media"
      /\ control # "lib" /\ status \in Status
  BY DEF ScriptInv, StagesInv, StageFits, Returns, TypeOK
<1>1. CASE Application
  BY <1>1 DEF Application, ParseNew, ExportNew, Supports, ResolveNew, ScanNew, MetainfoNew,
              FileExtNew, SetOption, Get, NewCall, Returns
<1>2. ASSUME NEW op \in Ops, BeginTransfer(op) \/ RefuseTransfer(op) \/ EndTransfer(op)
      PROVE  Usable
  <2>1. control = "lua"
    BY <1>0, <1>2 DEF BeginTransfer, RefuseTransfer, EndTransfer, MayStart, ScriptMayCall,
                      End, Ops, TransferInv
  <2>2. control' # "app"
    BY <1>2, <2>1 DEF BeginTransfer, RefuseTransfer, EndTransfer, Deliver, ToScript
  <2>3. QED
    BY <2>2 DEF Returns
<1>3. ASSUME \/ ScriptMetainfoSkipped
             \/ Header \/ Base64 \/ Crypto
             \/ \E mode \in CookieModes : SetCookie(mode)
      PROVE  Usable
  BY <1>3 DEF ScriptMetainfoSkipped, Header, SetCookie, Base64, Crypto, Panic, ScriptMayCall,
              ToScript, Returns
<1>4. CASE ResolveReturns
  <2>1. CASE status.rc = Ok
    BY <1>4, <2>1 DEF ResolveReturns, Ident, RunScript, Returns
  <2>2. CASE status.rc # Ok
    BY <1>4, <2>2, MatchedError DEF ResolveReturns
  <2>3. QED
    BY <2>1, <2>2
<1>5. CASE ResolveRaises
  <2>1. ResolveError(status).rc # Ok
    BY <1>0, StatusOperators DEF ResolveError, QuviError, Ok, Callback, Script
  <2>2. QED
    BY <1>5, <2>1, MatchedError DEF ResolveRaises
<1>6. CASE IdentRejects \/ IdentRaises
  <2>1. PICK st \in Status : Reject(st)
    BY <1>0, <1>6, StatusOperators DEF IdentRejects, IdentRaises, QuviError
  <2>2. Unsupported(st).rc # Ok
    BY StatusOperators DEF Unsupported, QuviError, Ok, NoSupport
  <2>3. CASE req.i < NumScripts
    BY <2>1, <2>3 DEF Reject, Ident, RunScript, Returns
  <2>4. CASE ~(req.i < NumScripts)
    BY <2>1, <2>2, <2>4, MatchedError DEF Reject
  <2>5. QED
    BY <2>3, <2>4
<1>7. CASE ExportStarts \/ ParseStarts \/ ReturnsGarbage
  BY <1>7 DEF ExportStarts, ParseStarts, ReturnsGarbage, RunScript, Panic, Returns
<1>8. CASE IdentSupports \/ OtherReturns \/ ScanReturns \/ MetainfoSkipped
  BY <1>0, <1>8 DEF IdentSupports, OtherReturns, ScanReturns, MetainfoSkipped, Returned
<1>9. CASE ScriptRaises
  BY <1>0, <1>9, StatusOperators DEF ScriptRaises, Return, Usable, QuviError, Ok, Script
<1>10. CASE EntitiesReturn
  BY <1>10, FinishMediaUsable DEF EntitiesReturn, Returned, ScriptInv, StagesInv
<1>11. ASSUME NEW goto \in BOOLEAN, NEW title \in BOOLEAN, MediaParses(goto, title)
       PROVE  Usable
  <2>1. Parsed(ParsedMedia(goto))
    BY DEF ParsedMedia, Parsed
  <2>2. CASE title
    BY <1>11, <2>2 DEF MediaParses, RunScript, Returns
  <2>3. CASE ~title
    BY <1>11, <2>1, <2>3, FinishMediaUsable DEF MediaParses
  <2>4. QED
    BY <2>2, <2>3
<1>12. CASE Exited \/ UNCHANGED vars
  BY <1>12 DEF Exited, vars, callVars, Returns
<1>13. QED
  BY <1>1, <1>2, <1>3, <1>4, <1>5, <1>6, <1>7, <1>8, <1>9, <1>10, <1>11, <1>12
     DEF Next, Progress

\* quvi_media_new succeeds only with a stream and no goto_url left to follow.
THEOREM MediaHasStream == Spec => MediaIsUsable
<1>1. Init => TransferInv
  BY DEF Init, SessionInit, TransferInv
<1>2. TypeOK /\ ScriptInv /\ TransferInv /\ [Next]_vars
        => [Returns /\ req.api = "media_new" /\ status'.rc = Ok
              => media'.streams /\ ~media'.redirect]_vars
  BY UsableStep DEF Usable
<1>3. QED
  BY <1>1, <1>2, TransferInvStep, ScriptInvariant, TypeCorrect, PTL DEF Spec, MediaIsUsable
-----------------------------------------------------------------------------
(* A clean start.                                                           *)

\* c_reset puts the session into the state a parse starts from.
LEMMA ResetIsClean == SessionTypeOK /\ ResetSession => Clean'
<1> SUFFICES ASSUME SessionTypeOK, ResetSession PROVE Clean'
  OBVIOUS
<1>1. headers' = 0 /\ opt' = opt /\ curl' = Reset(curl, opt)
  BY DEF ResetSession
<1>2. /\ Reset(curl, opt).list = "unset"
      /\ Reset(curl, opt).method = "GET"
      /\ Reset(curl, opt).agent = ChosenAgent(opt)
  BY DEF Reset, ResetHeaders, FreeList, SessionTypeOK, Curl
<1>3. opt.cookies => ~Reset(curl, opt).jar
  <2>1. Reset(curl, opt).jar = (curl.jar /\ ~opt.cookies)
    BY DEF Reset, ResetHeaders, FreeList, SessionTypeOK, Curl
  <2>2. QED
    BY <2>1, Zenon
<1>4. QED
  BY <1>1, <1>2, <1>3 DEF Clean, ChosenAgent

\* Only ParseStarts begins a parse.
NoParse == req'.stage = "parse" => req.stage = "parse"

LEMMA ApplicationNoParse == TypeOK /\ Application => NoParse
<1> SUFFICES ASSUME TypeOK, Application PROVE NoParse
  OBVIOUS
<1>1. ASSUME NEW kind \in MatchKinds, ParseNew(kind)
      PROVE  NoParse
  BY <1>1 DEF ParseNew, Resolve, RunScript, Request, NoParse
<1>2. ASSUME NEW mode \in {"online", "offline"}, NEW types \in SUBSET MatchKinds,
             Supports(mode, types)
      PROVE  NoParse
  <2> DEFINE r == [Request("supports", mode, "media") EXCEPT !.todo = types]
             st == WithCode(Aged(status), Ok)
  <2>1. r \in Requests /\ r.api = "supports"
    <3>1. Request("supports", mode, "media") \in Requests
      BY RequestType DEF APIs, ScriptKinds, MatchKinds
    <3>2. QED
      BY <3>1 DEF Requests, Request
  <2>2. SupportsNext(r, st)
    BY <1>2 DEF Supports
  <2> HIDE DEF r, st
  <2>3. QED
    BY <2>1, <2>2, SupportsNextGoesOn DEF GoesOn, NoParse
<1>3. CASE ExportNew \/ ResolveNew \/ ScanNew \/ MetainfoNew \/ FileExtNew
  BY <1>3 DEF ExportNew, ResolveNew, ScanNew, MetainfoNew, FileExtNew, Ident, Resolve,
              RunScript, Request, NoParse
<1>4. CASE SetOption \/ Get
  BY <1>4 DEF SetOption, Get, NoParse
<1>5. QED
  BY <1>1, <1>2, <1>3, <1>4 DEF Application

LEMMA ProgressNoParse == TypeOK /\ ScriptInv /\ Progress => NoParse \/ ParseStarts
<1> SUFFICES ASSUME TypeOK, ScriptInv, Progress, ~ParseStarts PROVE NoParse
  OBVIOUS
<1>0. req \in Requests
  BY DEF TypeOK
<1>1. ASSUME NEW op \in Ops, BeginTransfer(op) \/ RefuseTransfer(op) \/ EndTransfer(op)
      PROVE  NoParse
  <2>1. BeginTransfer(op) \/ \E st, croaks : Deliver(st, croaks)
    BY <1>1 DEF RefuseTransfer, EndTransfer
  <2>2. QED
    BY <1>0, <2>1 DEF BeginTransfer, Deliver, ToScript, ToLibrary, RunScript, Return,
                      Requests, NoParse
<1>2. ASSUME \/ ScriptMetainfoSkipped
             \/ Header \/ Base64 \/ Crypto
             \/ \E mode \in CookieModes : SetCookie(mode)
      PROVE  NoParse
  BY <1>2 DEF ScriptMetainfoSkipped, Header, SetCookie, Base64, Crypto, Panic, ToScript, NoParse
<1>3. CASE ResolveReturns
  BY <1>0, <1>3, MatchedGoesOn DEF ResolveReturns, Ident, RunScript, Requests, GoesOn, NoParse
<1>4. CASE ResolveRaises \/ IdentSupports
  BY <1>4, MatchedGoesOn DEF ResolveRaises, IdentSupports, GoesOn, NoParse
<1>5. CASE IdentRejects \/ IdentRaises
  <2>1. req.stage = "ident" /\ \E st : Reject(st)
    BY <1>5 DEF IdentRejects, IdentRaises, Returned, Erred
  <2>2. QED
    BY <2>1, RejectGoesOn DEF ScriptInv, GoesOn, NoParse
<1>6. CASE ExportStarts \/ ScanReturns
  BY <1>0, <1>6 DEF ExportStarts, ScanReturns, Returned, RunScript, Return, Requests, NoParse
<1>7. CASE ReturnsGarbage
  BY <1>7 DEF ReturnsGarbage, Panic, NoParse
<1>8. CASE OtherReturns \/ ScriptRaises \/ MetainfoSkipped
  BY <1>0, <1>8 DEF OtherReturns, ScriptRaises, MetainfoSkipped, Return, Requests, NoParse
<1>9. CASE EntitiesReturn
  BY <1>9, FinishMediaGoesOn DEF EntitiesReturn, Returned, ScriptInv, GoesOn, NoParse
<1>10. CASE \E goto, title \in BOOLEAN : MediaParses(goto, title)
  BY <1>10 DEF MediaParses, Returned, NoParse
<1>11. QED
  BY <1>1, <1>2, <1>3, <1>4, <1>5, <1>6, <1>7, <1>8, <1>9, <1>10 DEF Progress

\* A script's parse starts in a session without anything of earlier scripts.
THEOREM ParsesStartClean == Spec => ParseStartsClean
<1>1. TypeOK /\ ScriptInv /\ [Next]_vars
        => [req.stage # "parse" /\ req'.stage = "parse" => Clean']_vars
  <2> SUFFICES ASSUME TypeOK, ScriptInv, [Next]_vars, req.stage # "parse", req'.stage = "parse"
               PROVE  Clean'
    OBVIOUS
  <2>1. ParseStarts
    BY ApplicationNoParse, ProgressNoParse DEF Next, Exited, NoParse, vars, callVars
  <2>2. QED
    BY <2>1, ResetIsClean DEF ParseStarts, TypeOK
<1>2. QED
  BY <1>1, ScriptInvariant, TypeCorrect, PTL DEF Spec, ParseStartsClean
=============================================================================
