-------------------------- MODULE QuviReportProofs --------------------------
(***************************************************************************)
(* Proofs that what a call of QuviCall reports is its own: its code is     *)
(* explained by what went wrong in it, and its text was written in it.     *)
(*                                                                         *)
(* ReturnCodeIsExplained and ErrorTextIsCurrent speak of a call that has   *)
(* returned.  They are not inductive: m_match_*_script and                 *)
(* quvi_resolve_new return the code they read back from q->status after    *)
(* the resolve_redirections script, so CallInv claims the same while that  *)
(* script runs.  At the other stages q->status may well be stale, and so   *)
(* is its text while an error that quvi.base64.encode has raised is on its *)
(* way to lua_pcall.                                                       *)
(***************************************************************************)
EXTENDS QuviCallProofs

Good(st, events) == Explained(st, events) /\ TextIsCurrent(st)

CallInv == control = "app" \/ req.stage = "resolve" =>
             /\ Explained(status, failed)
             /\ control # "raised" => TextIsCurrent(status)

LEMMA OkIsGood ==
  ASSUME NEW st, NEW events, st.rc = Ok
  PROVE  Good(st, events)
BY DEF Good, Explained, TextIsCurrent, DynamicErrors, Ok, Aborted, InvalidArg, NoSupport,
       Callback, Script

\* Saving a text with the code keeps the report good, if the code is explained.
LEMMA FailIsGood ==
  ASSUME NEW st \in Status, NEW rc \in QuviError, NEW events,
         rc = Callback => events \cap {"network", "cookie", "hex", "crypto"} # {},
         rc = Script => "script" \in events,
         rc = Aborted => "refused" \in events,
         rc = NoSupport => "unsupported" \in events,
         rc = InvalidArg => "argument" \in events
  PROVE  Good(Fail(st, rc), events)
BY StatusOperators DEF Good, Explained, TextIsCurrent

LEMMA AbortIsGood ==
  ASSUME NEW st \in Status, NEW events, "refused" \in events
  PROVE  Good(WithCode(st, Aborted), events)
BY StatusOperators
   DEF Good, Explained, TextIsCurrent, DynamicErrors, QuviError, Aborted, InvalidArg,
       NoSupport, Callback, Script

LEMMA WithOkIsGood ==
  ASSUME NEW st \in Status, NEW events
  PROVE  Good(WithCode(st, Ok), events)
BY StatusOperators, OkIsGood DEF QuviError

\* An argument is refused.
LEMMA InvalidArgIsGood ==
  ASSUME NEW st \in Status, NEW events, "argument" \in events
  PROVE  Good(WithCode(st, InvalidArg), events)
BY StatusOperators
   DEF Good, Explained, TextIsCurrent, DynamicErrors, QuviError, Ok, Aborted,
       InvalidArg, NoSupport, Callback, Script

\* What went wrong before explains the code just as well after more has.
LEMMA GoodGrows ==
  ASSUME NEW st, NEW events, NEW more, events \subseteq more, Good(st, events)
  PROVE  Good(st, more)
BY DEF Good, Explained

\* A stage in which the invariant claims nothing.
LEMMA OtherStage ==
  ASSUME control' \in {"lib", "lua", "raised", "exit"}, req'.stage # "resolve"
  PROVE  CallInv'
BY DEF CallInv, Good

LEMMA ResolveGood ==
  ASSUME NEW r, NEW st \in Status, Resolve(r, st)
  PROVE  CallInv'
<1>1. status' = WithCode(st, Ok)
  BY DEF Resolve, RunScript, LoadUtil
<1>2. QED
  BY <1>1, WithOkIsGood DEF CallInv, Good

LEMMA IdentGood ==
  ASSUME NEW r \in Requests, NEW i \in 1 .. NumScripts, NEW st, Ident(r, i, st)
  PROVE  CallInv'
<1>1. control' = "lua" /\ req'.stage = "ident"
  BY DEF Ident, RunScript, Requests
<1>2. QED
  BY <1>1, OtherStage

LEMMA ReturnGood ==
  ASSUME NEW r, NEW st, Good(st, failed'), Return(r, st)
  PROVE  CallInv'
BY DEF Return, CallInv, Good

LEMMA SupportsNextGood ==
  ASSUME NEW r \in Requests, NEW st \in Status, Good(st, failed'), SupportsNext(r, st)
  PROVE  CallInv'
<1>1. CASE r.todo = {} \/ st.rc \notin {Ok, NoSupport}
  BY <1>1, ReturnGood DEF SupportsNext
<1>2. CASE ~(r.todo = {} \/ st.rc \notin {Ok, NoSupport})
  <2> DEFINE kind == NextKind(r.todo)
             next == [r EXCEPT !.kind = kind, !.todo = @ \ {kind}]
  <2>1. kind \in MatchKinds
    BY <1>2, NextKindIsLeft DEF Requests
  <2>2. next \in Requests
    <3> HIDE DEF kind
    <3>1. QED
      BY <2>1 DEF Requests, ScriptKinds
  <2>3. Resolve(next, st) \/ Ident(next, 1, st)
    BY <1>2 DEF SupportsNext
  <2> HIDE DEF next, kind
  <2>4. QED
    BY <2>2, <2>3, ResolveGood, IdentGood, FirstScript
<1>3. QED
  BY <1>1, <1>2

LEMMA MatchedGood ==
  ASSUME TypeOK, NEW st \in Status, Good(st, failed'), Matched(st)
  PROVE  CallInv'
<1>1. CASE req.api = "supports"
  <2> DEFINE r == [req EXCEPT !.found = (st.rc = Ok)]
  <2>1. r \in Requests
    BY DEF TypeOK, Requests
  <2>2. SupportsNext(r, st)
    BY <1>1 DEF Matched
  <2> HIDE DEF r
  <2>3. QED
    BY <2>1, <2>2, SupportsNextGood
<1>2. CASE req.api # "supports"
  BY <1>2, ReturnGood DEF Matched
<1>3. QED
  BY <1>1, <1>2
-----------------------------------------------------------------------------
LEMMA ApplicationGood ==
  ASSUME TypeOK, Application
  PROVE  CallInv'
<1>0. Aged(status) \in Status
  BY StatusOperators DEF TypeOK, QuviError
<1>1. ASSUME NEW kind \in MatchKinds, ParseNew(kind)
      PROVE  CallInv'
  BY <1>0, <1>1, ResolveGood DEF ParseNew
<1>2. CASE ExportNew
  <2>1. Request("subtitle_export_new", "parse", "export") \in Requests
    BY RequestType DEF APIs, ScriptKinds
  <2>2. QED
    BY <1>2, <2>1, IdentGood, FirstScript DEF ExportNew
<1>3. ASSUME NEW mode \in {"online", "offline"}, NEW types \in SUBSET MatchKinds,
             Supports(mode, types)
      PROVE  CallInv'
  <2> DEFINE r == [Request("supports", mode, "media") EXCEPT !.todo = types]
             st == WithCode(Aged(status), Ok)
  <2>1. r \in Requests
    <3>1. Request("supports", mode, "media") \in Requests
      BY RequestType DEF APIs, ScriptKinds, MatchKinds
    <3>2. QED
      BY <3>1 DEF Requests
  <2>2. st \in Status /\ Good(st, failed')
    BY <1>0, StatusOperators, WithOkIsGood DEF QuviError
  <2>3. SupportsNext(r, st)
    BY <1>3 DEF Supports
  <2> HIDE DEF r, st
  <2>4. QED
    BY <2>1, <2>2, <2>3, SupportsNextGood
<1>4. CASE ResolveNew
  BY <1>0, <1>4, ResolveGood DEF ResolveNew
<1>5. CASE ScanNew \/ MetainfoNew \/ FileExtNew
  <2>1. Request("scan_new", "parse", "scan") \in Requests
    BY RequestType DEF APIs, ScriptKinds
  <2>2. /\ Request("metainfo_new", "parse", "media") \in Requests
        /\ Request("file_ext_new", "parse", "media") \in Requests
    BY RequestType DEF APIs, ScriptKinds, MatchKinds
  <2>3. control' \in {"lib", "lua"} /\ req'.stage \in {"fetch", "metainfo", "ext"}
    BY <1>5, <2>1, <2>2 DEF ScanNew, MetainfoNew, FileExtNew, RunScript, Requests
  <2>4. QED
    BY <2>3, OtherStage
<1>6. CASE SetOption
  <2>1. Good(WithCode(status, Ok), failed')
    BY WithOkIsGood DEF TypeOK
  <2>2. "argument" \in failed' => Good(WithCode(status, InvalidArg), failed')
    BY InvalidArgIsGood DEF TypeOK
  <2>3. QED
    BY <1>6, <2>1, <2>2 DEF SetOption, CallInv, Good
<1>7. CASE Get
  <2>1. Good(WithCode(status, Ok), failed')
    BY WithOkIsGood DEF TypeOK
  <2>2. "argument" \in failed' => Good(WithCode(status, InvalidArg), failed')
    BY InvalidArgIsGood DEF TypeOK
  <2>3. QED
    BY <1>7, <2>1, <2>2 DEF Get, CallInv, Good
<1>8. QED
  BY <1>1, <1>2, <1>3, <1>4, <1>5, <1>6, <1>7 DEF Application

\* A transfer reports to whoever asked for it with a good report.
LEMMA DeliverGood ==
  ASSUME TypeOK, NEW st \in Status, NEW croaks, Good(st, failed'), Deliver(st, croaks)
  PROVE  CallInv'
<1>1. CASE control = "lua"
  BY <1>1 DEF Deliver, ToScript, CallInv, Good
<1>2. CASE control # "lua" /\ req.stage = "fetch" /\ st.rc = Ok
  <2>1. control' = "lua" /\ req'.stage = "scan"
    BY <1>2 DEF Deliver, ToLibrary, RunScript, TypeOK, Requests
  <2>2. QED
    BY <2>1, OtherStage
<1>3. CASE control # "lua" /\ ~(req.stage = "fetch" /\ st.rc = Ok)
  BY <1>3, ReturnGood DEF Deliver, ToLibrary
<1>4. QED
  BY <1>1, <1>2, <1>3

LEMMA TransferGood ==
  ASSUME TypeOK, CallInv, NEW op \in Ops,
         BeginTransfer(op) \/ RefuseTransfer(op) \/ EndTransfer(op)
  PROVE  CallInv'
<1>0. status \in Status
  BY DEF TypeOK
<1>1. CASE BeginTransfer(op)
  BY <1>1 DEF BeginTransfer, CallInv, Good
<1>2. CASE RefuseTransfer(op)
  <2>1. RefusedStart(status) \in Status /\ Good(RefusedStart(status), failed')
    BY <1>0, <1>2, StatusOperators, AbortIsGood DEF RefuseTransfer, RefusedStart, QuviError
  <2>2. QED
    BY <1>2, <2>1, DeliverGood DEF RefuseTransfer
<1>3. CASE EndTransfer(op)
  <2>1. ASSUME NEW agreed \in BOOLEAN, NEW converted \in BOOLEAN, op # "metainfo" => converted,
               Deliver(TransferDone(op, status, agreed, converted), croak),
               failed' = failed \cup (IF agreed THEN {} ELSE {"refused"})
                                \cup (IF converted THEN {} ELSE {"script"})
        PROVE  CallInv'
    <3>1. TransferDone(op, status, agreed, converted) \in Status
      BY <1>0, TransferStatusType
    <3>2. Good(WithCode(status, Ok), failed')
      BY <1>0, WithOkIsGood
    <3>3. ~agreed => \A st \in Status : Good(WithCode(st, Aborted), failed')
      BY <2>1, AbortIsGood
    <3>4. ~converted => Good(Fail(status, Script), failed')
      BY <1>0, <2>1, FailIsGood DEF QuviError, Ok, Aborted, InvalidArg, NoSupport, Callback, Script
    <3>5. WithCode(status, Ok) \in Status /\ Fail(status, Script) \in Status
      BY <1>0, StatusOperators DEF QuviError
    <3>6. Good(TransferDone(op, status, agreed, converted), failed')
      <4>1. CASE op \in {"fetch", "resolve"}
        BY <1>0, <3>2, <3>3, <4>1 DEF TransferDone, DoneFetch, DoneResolve
      <4>2. CASE op = "metainfo"
        BY <3>2, <3>3, <3>4, <3>5, <4>2 DEF TransferDone, DoneMetainfo
      <4>3. QED
        BY <4>1, <4>2 DEF Ops
    <3>7. QED
      BY <2>1, <3>1, <3>6, DeliverGood
  <2>2. ASSUME Deliver(TransferFailed(op, status), croak), failed' = failed \cup {"network"}
        PROVE  CallInv'
    <3>1. TransferFailed(op, status) = Fail(status, Callback)
      BY DEF Ops, TransferFailed, FailedFetch, FailedResolve, FailedMetainfo
    <3>2. Fail(status, Callback) \in Status
      BY <1>0, StatusOperators DEF QuviError
    <3>3. Good(Fail(status, Callback), failed')
      BY <1>0, <2>2, FailIsGood DEF QuviError, Ok, Aborted, InvalidArg, NoSupport, Callback, Script
    <3>4. QED
      BY <2>2, <3>1, <3>2, <3>3, DeliverGood
  <2>3. QED
    BY <1>3, <2>1, <2>2 DEF EndTransfer
<1>4. QED
  BY <1>1, <1>2, <1>3

\* A quvi.* function leaves a good report to the script that goes on.
LEMMA ScriptCallGood ==
  ASSUME TypeOK, CallInv,
         \/ ScriptMetainfoSkipped \/ Header \/ Base64 \/ Crypto
         \/ \E mode \in CookieModes : SetCookie(mode)
  PROVE  CallInv'
<1>0. status \in Status
  BY DEF TypeOK
<1>1. CASE ScriptMetainfoSkipped
  <2>1. Good(SkippedMetainfo(status), failed')
    BY <1>0, WithOkIsGood DEF SkippedMetainfo
  <2>2. "argument" \in failed' => Good(UnparsedMetainfo(status), failed')
    BY <1>0, FailIsGood
       DEF UnparsedMetainfo, QuviError, Ok, Aborted, InvalidArg, NoSupport, Callback, Script
  <2>3. Good(status', failed')
    BY <1>1, <2>1, <2>2 DEF ScriptMetainfoSkipped, ToScript
  <2>4. QED
    BY <2>3 DEF CallInv, Good
<1>2. CASE Header
  BY <1>2 DEF Header, CallInv, Good
<1>3. ASSUME NEW mode \in CookieModes, SetCookie(mode)
      PROVE  CallInv'
  <2>1. CASE InvalidCookie(mode)
    <3>1. Good(Fail(status, Callback), failed')
      BY <1>0, <1>3, <2>1, FailIsGood
         DEF SetCookie, QuviError, Ok, Aborted, InvalidArg, NoSupport, Callback, Script
    <3>2. QED
      BY <1>3, <2>1, <3>1 DEF SetCookie, CookieStatus, CallInv, Good
  <2>2. CASE ~InvalidCookie(mode)
    <3>1. status' = status /\ control' = control /\ req' = req /\ failed' = failed
      BY <1>3, <2>2 DEF SetCookie, CookieStatus
    <3>2. QED
      BY <3>1 DEF CallInv, Good
  <2>3. QED
    BY <2>1, <2>2
<1>4. CASE Base64
  <2>1. CASE UNCHANGED <<status, control, req, failed>>
    BY <2>1 DEF CallInv
  <2>2. CASE "hex" \in failed' /\ status' = Fail(status, Callback)
    <3>1. Good(Fail(status, Callback), failed')
      BY <1>0, <2>2, FailIsGood
         DEF QuviError, Ok, Aborted, InvalidArg, NoSupport, Callback, Script
    <3>2. QED
      BY <2>2, <3>1 DEF CallInv, Good
  <2>3. CASE "hex" \in failed' /\ status' = WithCode(status, Callback) /\ control' = "raised"
    <3>1. Explained(WithCode(status, Callback), failed')
      BY <1>0, <2>3, StatusOperators
         DEF Explained, QuviError, Ok, Aborted, InvalidArg, NoSupport, Callback, Script
    <3>2. QED
      BY <2>3, <3>1 DEF CallInv
  <2>4. QED
    BY <1>4, <2>1, <2>2, <2>3 DEF Base64
<1>5. CASE Crypto
  <2>1. "crypto" \in failed' => Good(CryptoFailure(status), failed')
    BY <1>0, FailIsGood
       DEF CryptoFailure, QuviError, Ok, Aborted, InvalidArg, NoSupport, Callback, Script
  <2>2. \A st \in {status, CryptoFailure(status)} : Good(WithCode(st, Ok), failed')
    BY <1>0, StatusOperators, WithOkIsGood DEF CryptoFailure, QuviError
  <2>3. CASE Panic /\ UNCHANGED failed
    BY <1>5, <2>3 DEF Crypto, ScriptMayCall, Panic, CallInv
  <2>4. ASSUME NEW st \in {status, WithCode(status, Ok)}, ToScript(CryptoRaised(st), TRUE),
               failed \subseteq failed'
        PROVE  CallInv'
    <3>0. st \in Status /\ st.rc \in {status.rc, Ok}
      BY <1>0, StatusOperators DEF QuviError
    <3>1. status'.rc \in {status.rc, Ok} /\ status'.errmsg = "current"
      BY <2>4, <3>0 DEF ToScript, CryptoRaised, Status
    <3>2. req' = req /\ control' = "raised"
      BY <2>4 DEF ToScript
    <3>3. Explained(status, failed) => Explained(status', failed')
      BY <2>4, <3>1
         DEF Explained, Ok, Aborted, InvalidArg, NoSupport, Callback, Script
    <3>4. QED
      BY <1>5, <3>1, <3>2, <3>3 DEF Crypto, ScriptMayCall, CallInv
  <2>5. ASSUME NEW st, ToScript(st, TRUE) \/ ToScript(st, FALSE), Good(st, failed')
        PROVE  CallInv'
    BY <2>5 DEF ToScript, CallInv, Good
  <2>6. QED
    BY <1>5, <2>1, <2>2, <2>3, <2>4, <2>5 DEF Crypto
<1>6. QED
  BY <1>1, <1>2, <1>3, <1>4, <1>5

LEMMA FinishMediaGood ==
  ASSUME TypeOK, NEW m, FinishMedia(m)
  PROVE  CallInv'
<1>1. WithCode(status, Ok) \in Status /\ Good(WithCode(status, Ok), failed')
  BY StatusOperators, WithOkIsGood DEF TypeOK, QuviError
<1>2. CASE m.redirect
  BY <1>2, ResolveGood DEF FinishMedia, TypeOK
<1>3. CASE ~m.redirect
  BY <1>1, <1>3, MatchedGood DEF FinishMedia
<1>4. QED
  BY <1>2, <1>3

LEMMA RejectGood ==
  ASSUME TypeOK, NEW st \in Status, "unsupported" \in failed', Reject(st)
  PROVE  CallInv'
<1>1. CASE req.i < NumScripts
  <2>1. req.i + 1 \in 1 .. NumScripts
    BY <1>1, NumScriptsAssumption DEF TypeOK, Requests
  <2>2. QED
    BY <1>1, <2>1, IdentGood DEF Reject, TypeOK
<1>2. CASE ~(req.i < NumScripts)
  <2>1. Unsupported(st) \in Status
    BY StatusOperators DEF Unsupported, QuviError
  <2>2. Good(Unsupported(st), failed')
    BY FailIsGood
       DEF Unsupported, QuviError, Ok, Aborted, InvalidArg, NoSupport, Callback, Script
  <2>3. QED
    BY <1>2, <2>1, <2>2, MatchedGood DEF Reject
<1>3. QED
  BY <1>1, <1>2

LEMMA ScriptOutcomeGood ==
  ASSUME TypeOK, CallInv,
         \/ ResolveReturns \/ ResolveRaises \/ IdentRejects \/ IdentRaises
         \/ IdentSupports \/ ExportStarts \/ ParseStarts
         \/ ReturnsGarbage \/ EntitiesReturn \/ OtherReturns \/ ScriptRaises \/ ScanReturns
         \/ MetainfoSkipped
         \/ \E goto, title \in BOOLEAN : MediaParses(goto, title)
  PROVE  CallInv'
<1>0. status \in Status /\ req \in Requests
  BY DEF TypeOK
<1>a. WithCode(status, Ok) \in Status /\ Good(WithCode(status, Ok), failed')
  BY <1>0, StatusOperators, WithOkIsGood DEF QuviError
<1>b. ASSUME "script" \in failed'
      PROVE  Good(Fail(status, Script), failed')
  BY <1>0, <1>b, FailIsGood DEF QuviError, Ok, Aborted, InvalidArg, NoSupport, Callback, Script
<1>c. Fail(status, Script) \in Status /\ Fail(status, Callback) \in Status
  BY <1>0, StatusOperators DEF QuviError
<1>1. CASE ResolveReturns
  <2>1. Good(status, failed')
    BY <1>1 DEF ResolveReturns, Returned, Unharmed, CallInv, Good
  <2>2. CASE status.rc = Ok /\ req.api # "resolve_new"
    BY <1>0, <1>1, <2>2, IdentGood, FirstScript DEF ResolveReturns
  <2>3. CASE ~(status.rc = Ok /\ req.api # "resolve_new")
    BY <1>0, <1>1, <2>1, <2>3, MatchedGood DEF ResolveReturns
  <2>4. QED
    BY <2>2, <2>3
<1>2. CASE ResolveRaises
  <2>1. "script" \in failed' /\ failed \subseteq failed' /\ Explained(status, failed)
    BY <1>2 DEF ResolveRaises, Harmed, Erred, CallInv, Good
  <2>2. Good(ResolveError(status), failed')
    <3>1. CASE status.rc = Callback
      <4>1. failed' \cap {"network", "cookie", "hex", "crypto"} # {}
        BY <2>1, <3>1 DEF Good, Explained
      <4>2. Good(Fail(status, Callback), failed')
        BY <1>0, <4>1, FailIsGood
           DEF QuviError, Ok, Aborted, InvalidArg, NoSupport, Callback, Script
      <4>3. QED
        BY <3>1, <4>2 DEF ResolveError
    <3>2. CASE status.rc # Callback
      BY <1>b, <2>1, <3>2 DEF ResolveError
    <3>3. QED
      BY <3>1, <3>2
  <2>3. ResolveError(status) \in Status
    BY <1>c DEF ResolveError
  <2>4. QED
    BY <1>2, <2>2, <2>3, MatchedGood DEF ResolveRaises
<1>3. CASE IdentRejects
  BY <1>0, <1>3, RejectGood DEF IdentRejects, Harmed
<1>4. CASE IdentRaises
  BY <1>c, <1>4, RejectGood DEF IdentRaises, Harmed
<1>5. CASE IdentSupports
  BY <1>a, <1>5, MatchedGood DEF IdentSupports
<1>6. CASE ExportStarts
  <2>1. control' = "lua" /\ req'.stage = "export"
    BY <1>0, <1>6 DEF ExportStarts, RunScript, Requests
  <2>2. QED
    BY <2>1, OtherStage
<1>7. CASE ParseStarts
  <2>1. control' \in {"lua", "exit"} /\ req'.stage \in {"ident", "parse"}
    BY <1>0, <1>7 DEF ParseStarts, Returned, RunScript, Panic, Requests
  <2>2. QED
    BY <2>1, OtherStage
<1>8. CASE ReturnsGarbage
  <2>1. /\ control' = "exit" /\ req' = req /\ status' = status /\ failed' = failed
        /\ control = "lua"
    BY <1>8 DEF ReturnsGarbage, Panic, Unharmed, Returned
  <2>2. QED
    BY <2>1 DEF CallInv, Good
<1>9. CASE EntitiesReturn
  BY <1>9, FinishMediaGood DEF EntitiesReturn
<1>10. CASE OtherReturns
  BY <1>a, <1>10, ReturnGood DEF OtherReturns
<1>11. CASE ScriptRaises
  BY <1>b, <1>11, ReturnGood DEF ScriptRaises, Harmed
<1>12. CASE ScanReturns
  <2>1. CASE req.i < NumScripts
    <3>1. control' = "lua" /\ req'.stage = "scan"
      BY <1>0, <1>12, <2>1 DEF ScanReturns, Returned, RunScript, Requests
    <3>2. QED
      BY <3>1, OtherStage
  <2>2. CASE ~(req.i < NumScripts)
    BY <1>a, <1>12, <2>2, ReturnGood DEF ScanReturns
  <2>3. QED
    BY <2>1, <2>2
<1>13. CASE MetainfoSkipped
  <2>1. Good(SkippedMetainfo(status), failed')
    BY <1>a DEF SkippedMetainfo
  <2>2. "argument" \in failed' => Good(UnparsedMetainfo(status), failed')
    BY <1>0, FailIsGood
       DEF UnparsedMetainfo, QuviError, Ok, Aborted, InvalidArg, NoSupport, Callback, Script
  <2>3. QED
    BY <1>13, <2>1, <2>2, ReturnGood DEF MetainfoSkipped
<1>14. ASSUME NEW goto \in BOOLEAN, NEW title \in BOOLEAN, MediaParses(goto, title)
       PROVE  CallInv'
  <2>1. CASE title
    <3>1. control' = "lua" /\ req'.stage = "entities"
      BY <1>0, <1>14, <2>1 DEF MediaParses, RunScript, Requests
    <3>2. QED
      BY <3>1, OtherStage
  <2>2. CASE ~title
    BY <1>14, <2>2, FinishMediaGood DEF MediaParses
  <2>3. QED
    BY <2>1, <2>2
<1>15. QED
  BY <1>1, <1>2, <1>3, <1>4, <1>5, <1>6, <1>7, <1>8, <1>9, <1>10, <1>11, <1>12, <1>13, <1>14

LEMMA CallInvStep == TypeOK /\ CallInv /\ [Next]_vars => CallInv'
<1> SUFFICES ASSUME TypeOK, CallInv, [Next]_vars
             PROVE  CallInv'
  OBVIOUS
<1>1. CASE Application
  BY <1>1, ApplicationGood
<1>2. CASE Progress
  BY <1>2, TransferGood, ScriptCallGood, ScriptOutcomeGood DEF Progress
<1>3. CASE Exited \/ UNCHANGED vars
  BY <1>3 DEF Exited, vars, callVars, CallInv, Good
<1>4. QED
  BY <1>1, <1>2, <1>3 DEF Next

\* What a call reports is its own, and while the resolve script runs already.
THEOREM CallInvariant == Spec => []CallInv
<1>1. Init => CallInv
  BY OkIsGood DEF Init, InitialStatus, CallInv, Good
<1>2. QED
  BY <1>1, CallInvStep, TypeCorrect, PTL DEF Spec

\* No call reports an error of an earlier call.
THEOREM ReportsAreExplained == Spec => []ReturnCodeIsExplained
<1>1. CallInv => ReturnCodeIsExplained
  BY DEF CallInv, Good, Good, ReturnCodeIsExplained
<1>2. QED
  BY <1>1, CallInvariant, PTL

\* quvi_errmsg never returns the text of an earlier call's error.
THEOREM ReportsHaveTheirText == Spec => []ErrorTextIsCurrent
<1>1. CallInv => ErrorTextIsCurrent
  BY DEF CallInv, Good, Good, ErrorTextIsCurrent
<1>2. QED
  BY <1>1, CallInvariant, PTL
=============================================================================
