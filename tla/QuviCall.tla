------------------------------ MODULE QuviCall ------------------------------
(***************************************************************************)
(* The library calls an application makes on one handle: quvi_media_new,   *)
(* quvi_playlist_new, quvi_subtitle_new, quvi_subtitle_export_new,         *)
(* quvi_scan_new, quvi_supports, quvi_resolve_new, quvi_http_metainfo_new, *)
(* quvi_file_ext_new, quvi_set and the getters.                            *)
(*                                                                         *)
(* Control moves between four parties: the application, the C library, the *)
(* Lua scripts (run under lua_pcall, calling quvi.* back into C) and the   *)
(* application's status callback, which may refuse any transfer.  The      *)
(* scripts, the network and the callback are nondeterministic; everything  *)
(* the C code does between two of their moves is one step.                 *)
(*                                                                         *)
(* The cURL session that all of them share is the module HttpSession.      *)
(***************************************************************************)
EXTENDS HttpSession, FiniteSets

CONSTANTS
  NumScripts,   \* scripts of each kind in the list of the handle
  HasParse,     \* the <<kind, i>> whose file defines a function `parse'
                \* (quvi_new has seen a line "function parse..." in each)
  CookieChoices, \* values the application gives QUVI_OPTION_ALLOW_COOKIES
  MaxCalls,     \* bound: quvi.* calls the scripts make in one API call
  MaxGoto       \* bound: goto_url instructions in one API call

MatchKinds  == {"playlist", "subtitle", "media"}
ScriptKinds == MatchKinds \cup {"export", "scan"}
ParseIds    == (ScriptKinds \ {"export"}) \X (1 .. NumScripts)

ASSUME NumScriptsAssumption == NumScripts \in Nat \ {0}
ASSUME HasParseAssumption   == HasParse \subseteq ParseIds
ASSUME CookieAssumption     == CookieChoices \subseteq BOOLEAN
ASSUME BoundsAssumption     == MaxCalls \in Nat /\ MaxGoto \in Nat

VARIABLES
  \* the handle
  status,     \* q->status
  luaParse,   \* the script whose dofile last set the Lua global `parse'
  \* the call in progress
  control,    \* who runs: "app", "lib", "lua", "raised" (a Lua error), "exit"
  req,        \* the call: function, mode, stage, kind, script, types left
  media,      \* the media handle of the call
  croak,      \* qoo_croak_if_error of the transfer in progress
  result,     \* the dictionary a quvi.http.* function last returned
  calls,      \* quvi.* calls made so far (bounded by MaxCalls)
  hops,       \* goto_url instructions followed (bounded by MaxGoto)
  failed      \* history: what has gone wrong since the call began

callVars == <<status, luaParse, control, req, media, croak, result, calls, hops, failed>>
vars == <<sessionVars, callVars>>

APIs == {"media_new", "playlist_new", "subtitle_new", "subtitle_export_new",
         "scan_new", "supports", "resolve_new", "metainfo_new", "file_ext_new"}

Stages == {"none", "resolve", "ident", "parse", "entities", "export", "scan",
           "fetch", "metainfo", "ext"}

NoScript == <<"none", 0>>
NoResult == [code |-> Ok, own |-> Ok]

Mishaps == {"script", "network", "cookie", "hex", "crypto", "refused", "unsupported",
            "argument"}

Requests == [api : APIs, mode : {"parse", "online", "offline"}, stage : Stages,
             kind : ScriptKinds, i : 1 .. NumScripts,
             todo : SUBSET MatchKinds, found : BOOLEAN]

Parties == {"app", "lib", "lua", "raised", "exit"}

MediaStates == [streams : BOOLEAN, redirect : BOOLEAN]

TypeOK ==
  /\ SessionTypeOK
  /\ status \in Status
  /\ luaParse \in HasParse \cup {NoScript}
  /\ control \in Parties
  /\ req \in Requests
  /\ media \in MediaStates
  /\ croak \in BOOLEAN
  /\ result \in [code : QuviError, own : QuviError]
  /\ calls \in 0 .. MaxCalls
  /\ hops \in 0 .. MaxGoto
  /\ failed \subseteq Mishaps
-----------------------------------------------------------------------------
NoMedia == [streams |-> FALSE, redirect |-> FALSE]

\* No call has been made yet; quvi_new has loaded every script to run its ident,
\* the media scripts last, and each has defined its `parse'.
Init ==
  /\ SessionInit
  /\ status = InitialStatus
  /\ luaParse \in {id \in HasParse : id[1] = "media"} \cup {NoScript}
  /\ control = "app"
  /\ req = [api |-> "resolve_new", mode |-> "online", stage |-> "none",
            kind |-> "media", i |-> 1, todo |-> {}, found |-> FALSE]
  /\ media = NoMedia
  /\ croak = TRUE
  /\ result = NoResult
  /\ calls = 0
  /\ hops = 0
  /\ failed = {}
-----------------------------------------------------------------------------
(* Where control goes next.  Each of these operators assigns control and    *)
(* req (the stage of the call), luaParse, and status from the given value;  *)
(* r is the request they continue.                                          *)

\* The call returns to the application.
Return(r, st) == /\ control' = "app"
                 /\ req' = [r EXCEPT !.stage = "none"]
                 /\ status' = st
                 /\ UNCHANGED luaParse

\* lua_pcall: a script of the given stage runs.
RunScript(r, st) == /\ control' = "lua"
                    /\ req' = r
                    /\ status' = st

\* A luaL_error outside lua_pcall: Lua's panic function ends the process.
Panic == /\ control' = "exit"
         /\ UNCHANGED <<status, req, luaParse>>

\* Mutant: q->status.rc keeps the code of an earlier call.
LoadUtilKeepsCode(st) == st

\* l_load_util_script; its QUVI_OK is assigned to q->status.rc.
LoadUtil(st) == WithCode(st, Ok)

\* m_resolve, m_resolve_url: run the resolve_redirections utility script.
Resolve(r, st) == /\ RunScript([r EXCEPT !.stage = "resolve"], LoadUtil(st))
                  /\ UNCHANGED luaParse

\* Mutant: the file is not loaded again before its ident runs.
DoFileOnce(id) == UNCHANGED luaParse

\* luaL_dofile of a script: it defines `parse' globally, if it has one.
DoFile(id) == luaParse' = IF id \in HasParse THEN id ELSE luaParse

\* l_exec_*_script_ident of script i of a kind.
Ident(r, i, st) == /\ RunScript([r EXCEPT !.stage = "ident", !.i = i], st)
                   /\ DoFile(<<r.kind, i>>)

\* quvi_supports checks the types in this order.
Order == <<"playlist", "subtitle", "media">>

NextKind(todo) == Order[CHOOSE n \in 1 .. 3 :
                          /\ Order[n] \in todo
                          /\ \A k \in 1 .. (n - 1) : Order[k] \notin todo]

\* Go on with the next type, unless none is left or an error has been met.
SupportsNext(r, st) ==
  IF r.todo = {} \/ st.rc \notin {Ok, NoSupport}
  THEN Return(r, st)
  ELSE LET kind == NextKind(r.todo)
           next == [r EXCEPT !.kind = kind, !.todo = @ \ {kind}]
       IN  IF r.mode = "online" THEN Resolve(next, st) ELSE Ident(next, 1, st)

\* m_match_*_script is done: its code is assigned to q->status.rc.
Matched(st) == IF req.api = "supports"
               THEN SupportsNext([req EXCEPT !.found = (st.rc = Ok)], st)
               ELSE Return(req, st)
-----------------------------------------------------------------------------
(* The application calls the library.                                       *)

\* What every call starts from: the text of q->status ages, the rest is new.
NewCall == /\ control = "app"
           /\ media' = NoMedia
           /\ calls' = 0
           /\ hops' = 0
           /\ failed' = {}
           /\ result' = NoResult
           /\ UNCHANGED croak

Request(api, mode, kind) == [api |-> api, mode |-> mode, stage |-> "none",
                             kind |-> kind, i |-> 1, todo |-> {}, found |-> FALSE]

ParseApi == [playlist |-> "playlist_new", subtitle |-> "subtitle_new",
             media |-> "media_new"]

\* quvi_media_new, quvi_playlist_new, quvi_subtitle_new.
ParseNew(kind) == /\ NewCall
                  /\ Resolve(Request(ParseApi[kind], "parse", kind), Aged(status))
                  /\ UNCHANGED sessionVars

\* quvi_subtitle_export_new: no resolving, straight to the export scripts.
ExportNew == /\ NewCall
             /\ Ident(Request("subtitle_export_new", "parse", "export"), 1, Aged(status))
             /\ UNCHANGED sessionVars

\* quvi_supports(url, mode, types).
Supports(mode, types) ==
  /\ NewCall
  /\ SupportsNext([Request("supports", mode, "media") EXCEPT !.todo = types],
                  WithCode(Aged(status), Ok))
  /\ UNCHANGED sessionVars

\* quvi_resolve_new.
ResolveNew == /\ NewCall
              /\ Resolve(Request("resolve_new", "online", "media"), Aged(status))
              /\ UNCHANGED sessionVars

\* quvi_scan_new: c_reset, then n_fetch of the page.
ScanNew == /\ NewCall
           /\ control' = "lib"
           /\ req' = [Request("scan_new", "parse", "scan") EXCEPT !.stage = "fetch"]
           /\ status' = Aged(status)
           /\ ResetSession
           /\ UNCHANGED luaParse

\* quvi_http_metainfo_new of an HTTP(S) URL; n_http_metainfo goes on from here.
MetainfoNew == /\ NewCall
               /\ control' = "lib"
               /\ req' = [Request("metainfo_new", "parse", "media") EXCEPT !.stage = "metainfo"]
               /\ status' = Aged(status)
               /\ UNCHANGED <<luaParse, sessionVars>>

\* n_http_metainfo of a URL of another scheme: skipped, with QUVI_OK.
SkippedMetainfo(st) == WithCode(st, Ok)

\* n_http_metainfo of a URL without a scheme.
UnparsedMetainfo(st) == Fail(st, InvalidArg)

MetainfoSkipped == /\ control = "lib"
                   /\ req.stage = "metainfo"
                   /\ xfer = "none"
                   /\ \/ /\ Return(req, SkippedMetainfo(status))
                         /\ UNCHANGED failed
                      \/ /\ Return(req, UnparsedMetainfo(status))
                         /\ failed' = failed \cup {"argument"}
                   /\ UNCHANGED <<sessionVars, media, croak, result, calls, hops>>

\* quvi_file_ext_new: the to_file_ext utility script on a string.
FileExtNew == /\ NewCall
              /\ RunScript([Request("file_ext_new", "parse", "media") EXCEPT !.stage = "ext"],
                           Aged(status))
              /\ UNCHANGED <<luaParse, sessionVars>>

\* quvi_set; it returns at once and reports in q->status.rc like any call.
SetOption == /\ control = "app"
             /\ \/ /\ \/ \E agent \in Agents \cup {NoAgent} : SetUserAgent(agent)
                      \/ \E allow \in CookieChoices : AllowCookies(allow)
                   /\ status' = WithCode(status, Ok)
                   /\ UNCHANGED failed
                \/ /\ status' = WithCode(status, InvalidArg)
                   /\ failed' = {"argument"}
                   /\ UNCHANGED sessionVars
             /\ UNCHANGED <<luaParse, control, req, media, croak, result, calls, hops>>

\* quvi_get, quvi_script_get and the getters of the result handles: an unknown
\* property, or nowhere to put it, is an invalid argument.
Get == /\ control = "app"
       /\ \/ status' = WithCode(status, Ok) /\ UNCHANGED failed
          \/ status' = WithCode(status, InvalidArg) /\ failed' = {"argument"}
       /\ UNCHANGED <<luaParse, control, req, media, croak, result, calls, hops>>
       /\ UNCHANGED sessionVars
-----------------------------------------------------------------------------
(* The network functions, called by the library (control = "lib") or by a   *)
(* script (control = "lua").                                                *)

\* A script may call a quvi.http.* function.
ScriptMayCall == control = "lua" /\ xfer = "none" /\ calls < MaxCalls

\* Who may start a transfer: a script, or quvi_scan_new/_http_metainfo_new.
MayStart(op) == \/ ScriptMayCall
                \/ control = "lib" /\ req.stage = op /\ xfer = "none"

Counted == calls' = IF control = "lua" THEN calls + 1 ELSE calls

\* A quvi.http.* function returns its dictionary, or raises a Lua error.
ToScript(st, raise) ==
  /\ control' = IF raise THEN "raised" ELSE "lua"
  /\ result' = [code |-> st.rc, own |-> st.rc]
  /\ status' = st
  /\ UNCHANGED <<req, luaParse>>

\* The end of n_fetch or n_http_metainfo for the library itself.
ToLibrary(st) ==
  /\ IF req.stage = "fetch" /\ st.rc = Ok
     THEN /\ RunScript([req EXCEPT !.stage = "scan", !.i = 1], st)
          /\ DoFile(<<"scan", 1>>)
     ELSE Return(req, st)
  /\ UNCHANGED result

Deliver(st, croaks) == IF control = "lua"
                       THEN ToScript(st, croaks /\ st.rc # Ok)
                       ELSE ToLibrary(st)

\* The status callback lets the transfer begin.
BeginTransfer(op) == /\ MayStart(op)
                     /\ Begin(op)
                     /\ Counted
                     /\ IF control = "lua" THEN croak' \in BOOLEAN ELSE UNCHANGED croak
                     /\ UNCHANGED <<status, luaParse, control, req, media, result, hops, failed>>

\* The status callback refuses it: nothing else is done, the text is kept.
RefusedStart(st) == WithCode(st, Aborted)

RefuseTransfer(op) == /\ MayStart(op)
                      /\ Counted
                      /\ failed' = failed \cup {"refused"}
                      /\ \E croaks \in BOOLEAN : Deliver(RefusedStart(status), croaks)
                      /\ UNCHANGED <<sessionVars, media, croak, hops>>

\* n_fetch, n_resolve: the transfer went well; the callback is told it is done.
DoneFetch(st, agreed)   == WithCode(st, IF agreed THEN Ok ELSE Aborted)
DoneResolve(st, agreed) == WithCode(st, IF agreed THEN Ok ELSE Aborted)

\* _http_metainfo: first the to_file_ext script (converted: it did not fail).
DoneMetainfo(st, agreed, converted) ==
  LET ext == IF converted THEN WithCode(st, Ok) ELSE Fail(st, Script)
  IN  IF agreed THEN ext ELSE WithCode(ext, Aborted)

\* Mutant: n_resolve does not save the text of the cURL error.
FailedResolveWithoutText(st) == WithCode(st, Callback)

\* The transfer failed: the text of the cURL error is saved.
FailedFetch(st)    == Fail(st, Callback)
FailedResolve(st)  == Fail(st, Callback)
FailedMetainfo(st) == Fail(st, Callback)

TransferDone(op, st, agreed, converted) ==
  CASE op = "fetch"    -> DoneFetch(st, agreed)
    [] op = "resolve"  -> DoneResolve(st, agreed)
    [] op = "metainfo" -> DoneMetainfo(st, agreed, converted)

TransferFailed(op, st) ==
  CASE op = "fetch"    -> FailedFetch(st)
    [] op = "resolve"  -> FailedResolve(st)
    [] op = "metainfo" -> FailedMetainfo(st)

EndTransfer(op) ==
  /\ End(op)
  /\ croak' = TRUE
  /\ \/ \E agreed, converted \in BOOLEAN :
          /\ op # "metainfo" => converted
          /\ Deliver(TransferDone(op, status, agreed, converted), croak)
          /\ failed' = failed \cup (IF agreed THEN {} ELSE {"refused"})
                              \cup (IF converted THEN {} ELSE {"script"})
     \/ /\ Deliver(TransferFailed(op, status), croak)
        /\ failed' = failed \cup {"network"}
  /\ UNCHANGED <<media, calls, hops>>

\* quvi.http.metainfo of a URL that is not HTTP(S).
ScriptMetainfoSkipped ==
  /\ ScriptMayCall
  /\ Counted
  /\ \/ /\ ToScript(SkippedMetainfo(status), FALSE)
        /\ UNCHANGED failed
     \/ /\ \E croaks \in BOOLEAN : ToScript(UnparsedMetainfo(status), croaks)
        /\ failed' = failed \cup {"argument"}
  /\ UNCHANGED <<sessionVars, media, croak, hops>>

\* quvi.http.header, with a value or with "": q->status is not assigned, and
\* what it holds is what the script is told.
Header == /\ ScriptMayCall
          /\ Counted
          /\ AddHeader \/ ClearHeaders
          /\ result' = [code |-> status.rc, own |-> Ok]
          /\ UNCHANGED <<status, luaParse, control, req, media, croak, hops, failed>>

\* Mutant: the cookie engine is driven although the application forbids cookies.
SetCookieAlways(mode) ==
  /\ ScriptMayCall
  /\ Counted
  /\ \E added \in BOOLEAN : curl' = CookieOption(curl, mode, added)
  /\ result' = [code |-> status.rc, own |-> Ok]
  /\ UNCHANGED <<headers, opt, xfer>>
  /\ UNCHANGED <<status, luaParse, control, req, media, croak, hops, failed>>

\* Mutant: an invalid mode is an error even while cookies are off.
CookieStatusUnchecked(mode, st) == IF mode = "invalid" THEN Fail(st, Callback) ELSE st

\* quvi.http.cookie; only an invalid mode of an allowed cookie is an error.
InvalidCookie(mode) == opt.cookies /\ mode = "invalid"

CookieStatus(mode, st) == IF InvalidCookie(mode) THEN Fail(st, Callback) ELSE st

SetCookie(mode) ==
  /\ ScriptMayCall
  /\ Counted
  /\ Cookie(mode)
  /\ status' = CookieStatus(mode, status)
  /\ result' = [code |-> status'.rc, own |-> IF InvalidCookie(mode) THEN Callback ELSE Ok]
  /\ failed' = failed \cup (IF InvalidCookie(mode) THEN {"cookie"} ELSE {})
  /\ UNCHANGED <<luaParse, control, req, media, croak, hops>>

\* quvi.base64.decode and .encode: q->status is only assigned when the string to
\* encode is not hexadecimal, and its text is not when a Lua error is raised.
Base64 == /\ ScriptMayCall
          /\ Counted
          /\ \/ /\ result' = [code |-> status.rc, own |-> Ok]
                /\ UNCHANGED <<status, control, failed>>
             \/ /\ \/ status' = Fail(status, Callback) /\ UNCHANGED control
                   \/ status' = WithCode(status, Callback) /\ control' = "raised"
                /\ result' = [code |-> Callback, own |-> Callback]
                /\ failed' = failed \cup {"hex"}
          /\ UNCHANGED <<luaParse, req, media, croak, hops>>
          /\ UNCHANGED sessionVars

\* l_quvi_object_crypto_chk_if_failed, which the caller assigns to q->status.rc,
\* and _invalid_hexstr.
CryptoFailure(st) == Fail(st, Callback)

\* l_quvi_object_crypto_chk_if_failed raises its error before the code of the
\* failure is assigned.
CryptoRaised(st) == [st EXCEPT !.errmsg = "current"]

\* quvi.crypto.encrypt, .decrypt and .hash: an error of crypto_new or, after its
\* QUVI_OK has been assigned, of crypto_exec is raised; crypto_exec is tried even
\* when crypto_new has failed and not raised, and has the last word; its
\* assertions, and libgcrypt without a handle, end the process.
Crypto == /\ ScriptMayCall
          /\ Counted
          /\ \/ /\ \E st \in {status, CryptoFailure(status)} : ToScript(WithCode(st, Ok), FALSE)
                /\ UNCHANGED failed
             \/ /\ \/ \E croaks \in BOOLEAN : ToScript(CryptoFailure(status), croaks)
                   \/ \E st \in {status, WithCode(status, Ok)} : ToScript(CryptoRaised(st), TRUE)
                /\ failed' = failed \cup {"crypto"}
             \/ /\ Panic
                /\ UNCHANGED <<result, failed>>
          /\ UNCHANGED <<media, croak, hops>>
          /\ UNCHANGED sessionVars
-----------------------------------------------------------------------------
(* lua_pcall is back: what the C code makes of a script's outcome.  The     *)
(* script has returned (control = "lua") or raised an error ("raised", or   *)
(* any error of its own while control = "lua").                             *)

Returned(stage) == control = "lua" /\ xfer = "none" /\ req.stage = stage

Erred(stage) == control \in {"lua", "raised"} /\ xfer = "none" /\ req.stage = stage

\* What every outcome leaves alone; the script's dictionary is gone.
AfterScript == /\ result' = NoResult
               /\ UNCHANGED <<croak, calls>>

Unharmed == AfterScript /\ UNCHANGED failed
Harmed(mishap) == AfterScript /\ failed' = failed \cup {mishap}

\* l_exec_util_resolve_redirections: q->status.rc is what quvi.http.* made it.
ResolveReturns ==
  /\ Returned("resolve")
  /\ IF status.rc = Ok /\ req.api # "resolve_new"
     THEN Ident(req, 1, status)
     ELSE Matched(status)
  /\ Unharmed
  /\ UNCHANGED <<sessionVars, media, hops>>

\* It keeps the code of a network error, and no other.
ResolveError(st) == Fail(st, IF st.rc = Callback THEN Callback ELSE Script)

ResolveRaises == /\ Erred("resolve")
                 /\ Matched(ResolveError(status))
                 /\ Harmed("script")
                 /\ UNCHANGED <<sessionVars, media, hops>>

\* The end of the list of scripts.
Unsupported(st) == Fail(st, NoSupport)

\* Mutant: the loop over the scripts runs one too far.
RejectOneTooFar(st) == IF req.i <= NumScripts
                       THEN Ident(req, req.i + 1, st)
                       ELSE Matched(Unsupported(st))

\* The next script of the list, or the end of it: no support.
Reject(st) == IF req.i < NumScripts
              THEN Ident(req, req.i + 1, st)
              ELSE Matched(Unsupported(st))

IdentRejects == /\ Returned("ident")
                /\ Reject(status)
                /\ Harmed("unsupported")
                /\ UNCHANGED <<sessionVars, media, hops>>

\* l_match_url_to_*_script passes over a script whose ident failed.
IdentRaises == /\ Erred("ident")
               /\ Reject(Fail(status, Script))
               /\ Harmed("unsupported")
               /\ UNCHANGED <<sessionVars, media, hops>>

\* The first script to accept the URL, when quvi_supports has asked.
IdentSupports == /\ Returned("ident")
                 /\ req.mode # "parse"
                 /\ Matched(WithCode(status, Ok))
                 /\ Unharmed
                 /\ UNCHANGED <<sessionVars, media, hops>>

\* The first script to accept the format to export to.
ExportStarts == /\ Returned("ident")
                /\ req.mode = "parse" /\ req.kind = "export"
                /\ RunScript([req EXCEPT !.stage = "export"], status)
                /\ Unharmed
                /\ UNCHANGED <<luaParse, sessionVars, media, hops>>

\* The first script to accept the URL to parse: c_reset, then the function
\* `parse' that is found in the global table.
ParseStarts == /\ Returned("ident")
               /\ req.mode = "parse" /\ req.kind # "export"
               /\ ResetSession
               /\ IF luaParse = NoScript
                  THEN Panic
                  ELSE /\ RunScript([req EXCEPT !.stage = "parse"], status)
                       /\ UNCHANGED luaParse
               /\ Unharmed
               /\ UNCHANGED <<media, hops>>

\* A script's dictionary lacks what is required: luaL_error, outside a pcall.
ReturnsGarbage == /\ \/ Returned("parse")
                     \/ Returned("export")
                     \/ Returned("scan")
                     \/ Returned("ident")
                     \/ Returned("resolve")
                     \/ Returned("entities")
                     \/ Returned("ext")
                  /\ Panic
                  /\ Unharmed
                  /\ UNCHANGED <<sessionVars, media, hops>>

\* Mutant: redirect_to is not cleared when it has been followed.
FollowGotoForever(m) == m

\* _chk_goto_url: the URL is followed once.
FollowGoto(m) == [m EXCEPT !.redirect = FALSE]

\* Mutant: goto_url is not looked at.
FinishMediaWithoutGoto(m) == /\ media' = m
                             /\ UNCHANGED hops
                             /\ Matched(WithCode(status, Ok))

\* m_match_media_script after the parse: start over, or the media is ready.
FinishMedia(m) == IF m.redirect
                  THEN /\ media' = FollowGoto(m)
                       /\ hops' = IF hops < MaxGoto THEN hops + 1 ELSE hops
                       /\ Resolve(req, status)
                  ELSE /\ media' = m
                       /\ UNCHANGED hops
                       /\ Matched(WithCode(status, Ok))

\* l_exec_media_script_parse: goto_url, or else at least one stream; then the
\* title, whose entities a utility script converts.
ParsedMedia(goto) == LET redirect == media.redirect \/ goto
                     IN  [streams |-> media.streams \/ ~redirect, redirect |-> redirect]

MediaParses(goto, title) ==
  /\ Returned("parse")
  /\ req.kind = "media"
  /\ goto => hops < MaxGoto
  /\ IF title
     THEN /\ RunScript([req EXCEPT !.stage = "entities"], status)
          /\ media' = ParsedMedia(goto)
          /\ UNCHANGED <<hops, luaParse>>
     ELSE FinishMedia(ParsedMedia(goto))
  /\ Unharmed
  /\ UNCHANGED sessionVars

EntitiesReturn == /\ Returned("entities")
                  /\ FinishMedia(media)
                  /\ Unharmed
                  /\ UNCHANGED sessionVars

\* l_exec_playlist_script_parse, l_exec_subtitle_script_parse,
\* l_exec_subtitle_export_script_export, l_exec_util_to_file_ext.
OtherReturns == /\ \/ Returned("parse") /\ req.kind # "media"
                   \/ Returned("export")
                   \/ Returned("ext")
                /\ Return(req, WithCode(status, Ok))
                /\ Unharmed
                /\ UNCHANGED <<sessionVars, media, hops>>

\* lua_pcall failed in one of the functions above: its text, and SCRIPT.
ScriptRaises == /\ \E stage \in {"parse", "entities", "export", "ext", "scan"} : Erred(stage)
                /\ Return(req, Fail(status, Script))
                /\ Harmed("script")
                /\ UNCHANGED <<sessionVars, media, hops>>

\* _exec_scan_script: the next scan script, while q->status.rc is QUVI_OK.
ScanReturns == /\ Returned("scan")
               /\ IF req.i < NumScripts
                  THEN /\ RunScript([req EXCEPT !.i = @ + 1], WithCode(status, Ok))
                       /\ DoFile(<<"scan", req.i + 1>>)
                  ELSE Return(req, WithCode(status, Ok))
               /\ Unharmed
               /\ UNCHANGED <<sessionVars, media, hops>>

\* The process has ended.
Exited == control = "exit" /\ UNCHANGED vars
-----------------------------------------------------------------------------
\* The application makes a call.
Application == \/ \E kind \in MatchKinds : ParseNew(kind)
               \/ ExportNew
               \/ \E mode \in {"online", "offline"}, types \in SUBSET MatchKinds :
                    Supports(mode, types)
               \/ ResolveNew
               \/ ScanNew
               \/ MetainfoNew
               \/ FileExtNew
               \/ SetOption
               \/ Get

\* A call goes on: the library, its scripts, the network and the callback.
Progress == \/ MetainfoSkipped
            \/ \E op \in Ops : BeginTransfer(op)
            \/ \E op \in Ops : RefuseTransfer(op)
            \/ \E op \in Ops : EndTransfer(op)
            \/ ScriptMetainfoSkipped
            \/ Header
            \/ \E mode \in CookieModes : SetCookie(mode)
            \/ Base64
            \/ Crypto
            \/ ResolveReturns
            \/ ResolveRaises
            \/ IdentRejects
            \/ IdentRaises
            \/ IdentSupports
            \/ ExportStarts
            \/ ParseStarts
            \/ ReturnsGarbage
            \/ \E goto, title \in BOOLEAN : MediaParses(goto, title)
            \/ EntitiesReturn
            \/ OtherReturns
            \/ ScriptRaises
            \/ ScanReturns

Next == Application \/ Progress \/ Exited

Spec == Init /\ [][Next]_vars

\* The library runs on the application's thread, which is scheduled; a script
\* ends and a transfer times out.  The application need not call.
FairSpec == Spec /\ WF_vars(Progress)
-----------------------------------------------------------------------------
(* Properties.                                                              *)

\* An error code, and the mishaps it reports.
Explained(st, events) ==
  /\ st.rc = Callback   => events \cap {"network", "cookie", "hex", "crypto"} # {}
  /\ st.rc = Script     => "script" \in events
  /\ st.rc = Aborted    => "refused" \in events
  /\ st.rc = NoSupport  => "unsupported" \in events
  /\ st.rc = InvalidArg => "argument" \in events

\* Every error that a call reports is the report of something that went wrong
\* during that call: q->status.rc is never left over from an earlier call,
\* though no function clears it on entry and m_match_*_script read it back
\* after a script has run (match_media_script.c, resolve_redirections).
ReturnCodeIsExplained == control = "app" => Explained(status, failed)

\* quvi_errmsg gives a text that belongs to the code.
TextIsCurrent(st) == st.rc \in DynamicErrors => st.errmsg = "current"

\* When the code a call reports is one whose text quvi_errmsg takes from
\* q->status.errmsg, that text was written during the same call.
ErrorTextIsCurrent == control = "app" => TextIsCurrent(status)

\* The `parse' that l_exec_*_script_parse finds in the global table is the one
\* of the script whose ident accepted the URL (or of the scan script loaded).
ParsesMatchedScript ==
  req.stage \in {"parse", "scan"} /\ control = "lua" => luaParse = <<req.kind, req.i>>

Returns == control # "app" /\ control' = "app"

\* quvi_media_new succeeds only with a stream to give and no goto_url left to
\* follow: what the g_assert of media_get.c and the callers rely on.
MediaIsUsable ==
  [][Returns /\ req.api = "media_new" /\ status'.rc = Ok
       => media'.streams /\ ~media'.redirect]_vars

Clean == /\ headers = 0
         /\ curl.list = "unset"
         /\ curl.method = "GET"
         /\ curl.agent = IF opt.agent = NoAgent THEN DefaultAgent ELSE opt.agent
         /\ opt.cookies => ~curl.jar

\* When a media, playlist or subtitle script starts to parse, the session has no
\* custom header, does not use HEAD, has the user agent the application chose, or
\* the default, and no cookies if cookies are allowed (c_reset).  The notes on
\* quvi_media_new and its likes promise more: the default user agent in any case
\* (see AgentIsHonoured) and "cookies cleared", which c_reset does only while they
\* are allowed (see CookiesOnlyIfAllowed); it leaves the cookie engine enabled.
\* Scan scripts are another matter (see HeadersAreCleared).
ParseStartsClean == [][req.stage # "parse" /\ req'.stage = "parse" => Clean']_vars

\* A library call comes back to the application, or the process ends.
CallsReturn == (control # "app") ~> (control \in {"app", "exit"})
-----------------------------------------------------------------------------
(* What the documentation says and the code does not do.                    *)

\* supports.c: "Check if any of the scripts accepts the URL"; once one type
\* has accepted the URL, the answer of quvi_supports stays TRUE.
AnyTypeSupports ==
  [][control # "app" /\ req.api = "supports" /\ req.found => req'.found]_vars

\* quvi-object(7): "the custom headers are also cleared automatically when a
\* support script function `parse' is called", that of each scan script included.
HeadersAreCleared ==
  [][req'.stage \in {"parse", "scan"} /\ <<req.stage, req.i>> # <<req'.stage, req'.i>>
       => headers' = 0]_vars

\* quvi-object(7): quvi_code is "The code returned by the library"; a
\* quvi.http.* function that did what it was asked returns QUVI_OK.
ResultIsOwn == result.own = Ok => result.code = Ok
=============================================================================
