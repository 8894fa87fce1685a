--------------------------- MODULE QuviCallProofs ---------------------------
(***************************************************************************)
(* Proofs about QuviCall and the session that it uses, for every number of *)
(* scripts, every set of user agents and every bound: what a transfer      *)
(* finds in the session, that the calls use the session only through       *)
(* HttpSession's operations, and that the state keeps its types.           *)
(*                                                                         *)
(* TransferMethod and BodyHasLiveSink hold only because each transfer      *)
(* undoes its own settings: the invariant adds that the session is back to *)
(* GET between transfers, which is what the next Begin starts from.        *)
(***************************************************************************)
EXTENDS QuviCall, TLAPS
-----------------------------------------------------------------------------
(* The session.                                                             *)

\* c_reset_headers unsets the option and leaves nothing dangling: the list it
\* frees is no longer named by the handle.
LEMMA ResetHeadersUnsets ==
  ASSUME NEW c \in Curl
  PROVE  /\ ResetHeaders(c) \in Curl
         /\ ResetHeaders(c) = [c EXCEPT !.list = "unset"]
<1>1. [c EXCEPT !.list = "unset"] \in Curl
  BY DEF Curl, HeaderPointers
<1>2. [c EXCEPT !.list = "unset"].list = "unset"
  BY DEF Curl
<1>3. ResetHeaders(c) = [c EXCEPT !.list = "unset"]
  BY <1>1, <1>2 DEF ResetHeaders, FreeList, Curl
<1>4. QED
  BY <1>1, <1>3

\* c_reset gives a session with GET, no custom headers and the chosen agent.
LEMMA ResetResult ==
  ASSUME NEW c \in Curl, NEW o \in QuviOptions
  PROVE  /\ Reset(c, o) \in Curl
         /\ Reset(c, o).method = "GET"
         /\ Reset(c, o).list = "unset"
         /\ Reset(c, o).agent = ChosenAgent(o)
         /\ Reset(c, o).sink = c.sink
<1> DEFINE d == ResetHeaders(c)
<1>1. /\ d \in Curl
      /\ d.list = "unset"
      /\ d.sink = c.sink
  BY ResetHeadersUnsets DEF Curl
<1>2. ChosenAgent(o) \in AgentStrings
  BY DEF ChosenAgent, AgentStrings, QuviOptions
<1>3. (d.jar /\ ~o.cookies) \in BOOLEAN
  OBVIOUS
<1>4. Reset(c, o) = [d EXCEPT !.method = "GET", !.agent = ChosenAgent(o),
                             !.jar = d.jar /\ ~o.cookies]
  BY DEF Reset
<1> HIDE DEF d
<1>5. QED
  BY <1>1, <1>2, <1>3, <1>4 DEF Curl

\* c_init leaves a session of the right type, with nothing set in it.
LEMMA InitialSession ==
  ASSUME SessionInit
  PROVE  /\ opt \in QuviOptions
         /\ opt.agent = NoAgent
         /\ curl \in Curl
         /\ curl.method = "GET"
         /\ curl.list = "unset"
         /\ curl.agent = DefaultAgent
         /\ headers \in 0 .. MaxHeaders
         /\ xfer = "none"
<1>1. opt \in QuviOptions /\ opt.agent = NoAgent
  BY DEF SessionInit, QuviOptions
<1>2. InitialCurl \in Curl
  BY DEF InitialCurl, Curl, Sinks, HeaderPointers, AgentStrings
<1>3. QED
  BY <1>1, <1>2, ResetResult, MaxHeadersAssumption DEF SessionInit, ChosenAgent

\* Every step of HttpSession keeps the types of its state.
LEMMA SessionTypeStep == SessionTypeOK /\ [SessionNext]_sessionVars => SessionTypeOK'
<1> USE MaxHeadersAssumption
<1> SUFFICES ASSUME SessionTypeOK, [SessionNext]_sessionVars
             PROVE  SessionTypeOK'
  OBVIOUS
<1> USE DEF SessionTypeOK, Curl, QuviOptions, AgentStrings, Sinks, HeaderPointers
<1>1. ASSUME NEW op \in Ops, Begin(op)
      PROVE  SessionTypeOK'
  BY <1>1 DEF Begin, Ops, Options, FetchOptions, ResolveOptions, MetainfoOptions
<1>2. ASSUME NEW op \in Ops, End(op)
      PROVE  SessionTypeOK'
  <2>1. After(op, curl) \in Curl
    BY DEF Ops, After, AfterFetch, AfterResolve, AfterMetainfo, FreeSink
  <2>2. QED
    BY <1>2, <2>1 DEF End
<1>3. CASE AddHeader
  BY <1>3 DEF AddHeader
<1>4. CASE ClearHeaders
  BY <1>4, ResetHeadersUnsets DEF ClearHeaders
<1>5. ASSUME NEW mode \in CookieModes, Cookie(mode)
      PROVE  SessionTypeOK'
  <2>1. \A added \in BOOLEAN : CookieOption(curl, mode, added) \in Curl
    BY DEF CookieModes, CookieOption
  <2>2. curl' \in Curl
    BY <1>5, <2>1 DEF Cookie
  <2>3. QED
    BY <1>5, <2>2 DEF Cookie
<1>6. CASE ResetSession
  BY <1>6, ResetResult DEF ResetSession, QuviOptions
<1>7. ASSUME NEW agent \in Agents \cup {NoAgent}, SetUserAgent(agent)
      PROVE  SessionTypeOK'
  BY <1>7 DEF SetUserAgent
<1>8. ASSUME NEW allow \in BOOLEAN, AllowCookies(allow)
      PROVE  SessionTypeOK'
  BY <1>8 DEF AllowCookies
<1>9. CASE UNCHANGED sessionVars
  BY <1>9 DEF sessionVars
<1>10. QED
  BY <1>1, <1>2, <1>3, <1>4, <1>5, <1>6, <1>7, <1>8, <1>9 DEF SessionNext

\* The session's state has its types for as long as the handle lives.
THEOREM SessionTypeCorrect == SessionSpec => []SessionTypeOK
<1>1. SessionInit => SessionTypeOK
  BY InitialSession DEF SessionInit, SessionTypeOK
<1>2. QED
  BY <1>1, SessionTypeStep, PTL DEF SessionSpec
-----------------------------------------------------------------------------
\* Between transfers the method is GET; during one it is the one of its kind.
MethodInv == curl.method = IF xfer \in {"resolve", "metainfo"} THEN "HEAD" ELSE "GET"

\* A transfer that has set CURLOPT_WRITEDATA has a live buffer there.
SinkInv == xfer \in {"fetch", "metainfo"} => curl.sink = "live"

SessionInv == /\ SessionTypeOK
              /\ MethodInv
              /\ SinkInv
              /\ HeaderListIsLive
              /\ AgentIsHonoured

\* The inductive invariant of the session.
THEOREM SessionInvariant == SessionSpec => []SessionInv
<1> USE MaxHeadersAssumption
<1>1. SessionInit => SessionInv
  BY InitialSession
     DEF SessionInit, SessionInv, SessionTypeOK, MethodInv, SinkInv, HeaderListIsLive,
         AgentIsHonoured
<1>2. SessionInv /\ SessionTypeOK' /\ [SessionNext]_sessionVars => SessionInv'
  <2> SUFFICES ASSUME SessionInv, SessionTypeOK', [SessionNext]_sessionVars
               PROVE  SessionInv'
    OBVIOUS
  <2> USE DEF SessionInv, SessionTypeOK, Curl, QuviOptions, MethodInv, SinkInv,
              HeaderListIsLive, AgentIsHonoured
  <2>1. ASSUME NEW op \in Ops, Begin(op)
        PROVE  SessionInv'
    BY <2>1 DEF Begin, Ops, Options, FetchOptions, ResolveOptions, MetainfoOptions
  <2>2. ASSUME NEW op \in Ops, End(op)
        PROVE  SessionInv'
    <3>1. /\ After(op, curl) \in Curl
          /\ After(op, curl).method = "GET"
          /\ After(op, curl).list = curl.list
          /\ After(op, curl).agent = curl.agent
      BY <2>2 DEF End, Ops, After, AfterFetch, AfterResolve, AfterMetainfo, FreeSink, Sinks
    <3>2. QED
      BY <2>2, <3>1 DEF End
  <2>3. CASE AddHeader
    BY <2>3 DEF AddHeader
  <2>4. CASE ClearHeaders
    BY <2>4, ResetHeadersUnsets DEF ClearHeaders
  <2>5. ASSUME NEW mode \in CookieModes, Cookie(mode)
        PROVE  SessionInv'
    <3>1. \A added \in BOOLEAN :
            /\ CookieOption(curl, mode, added).method = curl.method
            /\ CookieOption(curl, mode, added).sink = curl.sink
            /\ CookieOption(curl, mode, added).list = curl.list
            /\ CookieOption(curl, mode, added).agent = curl.agent
      BY DEF CookieModes, CookieOption
    <3>2. /\ curl'.method = curl.method
          /\ curl'.sink = curl.sink
          /\ curl'.list = curl.list
          /\ curl'.agent = curl.agent
      BY <2>5, <3>1 DEF Cookie
    <3>3. QED
      BY <2>5, <3>2 DEF Cookie
  <2>6. CASE ResetSession
    BY <2>6, ResetResult DEF ResetSession, QuviOptions, ChosenAgent
  <2>7. ASSUME NEW agent \in Agents \cup {NoAgent}, SetUserAgent(agent)
        PROVE  SessionInv'
    BY <2>7 DEF SetUserAgent
  <2>8. ASSUME NEW allow \in BOOLEAN, AllowCookies(allow)
        PROVE  SessionInv'
    BY <2>8 DEF AllowCookies
  <2>9. CASE UNCHANGED sessionVars
    BY <2>9 DEF sessionVars
  <2>10. QED
    BY <2>1, <2>2, <2>3, <2>4, <2>5, <2>6, <2>7, <2>8, <2>9 DEF SessionNext
<1>3. QED
  BY <1>1, <1>2, SessionTypeStep, SessionTypeCorrect, PTL DEF SessionSpec

\* A GET is only ever sent by c_fetch, a HEAD only by the two probes.
THEOREM TransfersUseTheirMethod == SessionSpec => []TransferMethod
<1>1. SessionInv => TransferMethod
  BY DEF SessionInv, SessionTypeOK, Ops, MethodInv, TransferMethod
<1>2. QED
  BY <1>1, SessionInvariant, PTL

\* No transfer with a body writes into a freed buffer.
THEOREM BodiesHaveLiveSinks == SessionSpec => []BodyHasLiveSink
<1>1. SessionInv => BodyHasLiveSink
  BY DEF SessionInv, SessionTypeOK, Ops, MethodInv, SinkInv, BodyHasLiveSink
<1>2. QED
  BY <1>1, SessionInvariant, PTL

\* cURL never holds a pointer to a freed header list.
THEOREM HeaderListsAreLive == SessionSpec => []HeaderListIsLive
<1>1. SessionInv => HeaderListIsLive
  BY DEF SessionInv
<1>2. QED
  BY <1>1, SessionInvariant, PTL

\* No order of quvi_set, c_reset, transfers and scripts brings back an agent other
\* than the one the application has set, or when it has set none, the default.
THEOREM AgentsAreHonoured == SessionSpec => []AgentIsHonoured
<1>1. SessionInv => AgentIsHonoured
  BY DEF SessionInv
<1>2. QED
  BY <1>1, SessionInvariant, PTL
-----------------------------------------------------------------------------
(* The calls.                                                               *)

\* Every step of a call is one operation on the session, or none.
LEMMA CallUsesSession == TypeOK /\ [Next]_vars => [SessionNext]_sessionVars
<1> SUFFICES ASSUME TypeOK, [Next]_vars
             PROVE  [SessionNext]_sessionVars
  OBVIOUS
<1>1. CASE Application
  <2>1. ASSUME NEW kind \in MatchKinds, ParseNew(kind)
        PROVE  UNCHANGED sessionVars
    BY <2>1 DEF ParseNew
  <2>2. CASE ExportNew
    BY <2>2 DEF ExportNew
  <2>3. ASSUME NEW mode \in {"online", "offline"}, NEW types \in SUBSET MatchKinds,
               Supports(mode, types)
        PROVE  UNCHANGED sessionVars
    BY <2>3 DEF Supports
  <2>4. CASE ResolveNew
    BY <2>4 DEF ResolveNew
  <2>5. CASE ScanNew
    BY <2>5 DEF ScanNew, SessionNext
  <2>6. CASE MetainfoNew
    BY <2>6 DEF MetainfoNew
  <2>7. CASE FileExtNew
    BY <2>7 DEF FileExtNew
  <2>8. CASE SetOption
    BY <2>8, CookieAssumption DEF SetOption, SessionNext
  <2>9. CASE Get
    BY <2>9 DEF Get
  <2>10. QED
    BY <1>1, <2>1, <2>2, <2>3, <2>4, <2>5, <2>6, <2>7, <2>8, <2>9 DEF Application
<1>2. CASE Progress
  <2>1. ASSUME NEW op \in Ops, BeginTransfer(op)
        PROVE  SessionNext
    BY <2>1 DEF BeginTransfer, SessionNext
  <2>2. ASSUME NEW op \in Ops, RefuseTransfer(op)
        PROVE  UNCHANGED sessionVars
    BY <2>2 DEF RefuseTransfer
  <2>3. ASSUME NEW op \in Ops, EndTransfer(op)
        PROVE  SessionNext
    BY <2>3 DEF EndTransfer, SessionNext
  <2>4. CASE Header
    BY <2>4 DEF Header, SessionNext
  <2>5. ASSUME NEW mode \in CookieModes, SetCookie(mode)
        PROVE  SessionNext
    BY <2>5 DEF SetCookie, SessionNext
  <2>6. CASE IdentSupports \/ ExportStarts \/ ParseStarts
    BY <2>6 DEF IdentSupports, ExportStarts, ParseStarts, SessionNext
  <2>7. CASE MetainfoSkipped \/ ScriptMetainfoSkipped
    BY <2>7 DEF MetainfoSkipped, ScriptMetainfoSkipped
  <2>8. CASE ResolveReturns \/ ResolveRaises \/ IdentRejects \/ IdentRaises
    BY <2>8 DEF ResolveReturns, ResolveRaises, IdentRejects, IdentRaises
  <2>9. CASE ReturnsGarbage \/ EntitiesReturn \/ OtherReturns \/ ScriptRaises \/ ScanReturns
    BY <2>9 DEF ReturnsGarbage, EntitiesReturn, OtherReturns, ScriptRaises, ScanReturns
  <2>10. ASSUME NEW goto \in BOOLEAN, NEW title \in BOOLEAN, MediaParses(goto, title)
         PROVE  UNCHANGED sessionVars
    BY <2>10 DEF MediaParses
  <2>11. CASE Base64 \/ Crypto
    BY <2>11 DEF Base64, Crypto
  <2>12. QED
    BY <1>2, <2>1, <2>2, <2>3, <2>4, <2>5, <2>6, <2>7, <2>8, <2>9, <2>10, <2>11 DEF Progress
<1>3. CASE Exited \/ UNCHANGED vars
  BY <1>3 DEF Exited, vars
<1>4. QED
  BY <1>1, <1>2, <1>3 DEF Next
-----------------------------------------------------------------------------
(* Types.                                                                   *)

LEMMA StatusOperators ==
  ASSUME NEW st \in Status, NEW rc \in QuviError
  PROVE  /\ WithCode(st, rc) \in Status
         /\ WithCode(st, rc).rc = rc
         /\ Fail(st, rc) \in Status
         /\ Fail(st, rc).rc = rc
         /\ Fail(st, rc).errmsg = "current"
         /\ Aged(st) \in Status
BY DEF WithCode, Fail, Aged, Status, Age

\* What the operators that move control on assign, where they assign it.
FlowOK == /\ status' \in Status
          /\ req' \in Requests
          /\ control' \in Parties
          /\ luaParse' \in HasParse \cup {NoScript}

LEMMA NextKindIsLeft ==
  ASSUME NEW todo \in SUBSET MatchKinds, todo # {}
  PROVE  NextKind(todo) \in todo
<1> DEFINE P(n) == Order[n] \in todo /\ \A k \in 1 .. (n - 1) : Order[k] \notin todo
<1>1. \E n \in 1 .. 3 : P(n)
  <2>1. CASE "playlist" \in todo
    <3>1. P(1)
      BY <2>1 DEF Order
    <3>2. QED
      BY <3>1
  <2>2. CASE "playlist" \notin todo /\ "subtitle" \in todo
    <3>1. P(2)
      BY <2>2 DEF Order
    <3>2. QED
      BY <3>1
  <2>3. CASE "playlist" \notin todo /\ "subtitle" \notin todo
    <3>1. "media" \in todo
      BY <2>3 DEF MatchKinds
    <3>2. P(3)
      BY <2>3, <3>1 DEF Order
    <3>3. QED
      BY <3>2
  <2>4. QED
    BY <2>1, <2>2, <2>3
<1>2. P(CHOOSE n \in 1 .. 3 : P(n))
  <2> HIDE DEF P
  <2>1. QED
    BY <1>1
<1>3. QED
  BY <1>2 DEF NextKind

LEMMA ResolveType ==
  ASSUME TypeOK, NEW r \in Requests, NEW st \in Status, Resolve(r, st)
  PROVE  FlowOK
<1>1. LoadUtil(st) \in Status
  BY StatusOperators DEF LoadUtil, QuviError
<1>2. [r EXCEPT !.stage = "resolve"] \in Requests
  BY DEF Requests, Stages
<1>3. QED
  BY <1>1, <1>2 DEF Resolve, RunScript, FlowOK, TypeOK, Parties

LEMMA IdentType ==
  ASSUME TypeOK, NEW r \in Requests, NEW i \in 1 .. NumScripts, NEW st \in Status,
         Ident(r, i, st)
  PROVE  FlowOK
<1>1. [r EXCEPT !.stage = "ident", !.i = i] \in Requests
  BY DEF Requests, Stages
<1>2. QED
  BY <1>1 DEF Ident, RunScript, DoFile, FlowOK, TypeOK, Parties

LEMMA ReturnType ==
  ASSUME TypeOK, NEW r \in Requests, NEW st \in Status, Return(r, st)
  PROVE  FlowOK
<1>1. [r EXCEPT !.stage = "none"] \in Requests
  BY DEF Requests, Stages
<1>2. QED
  BY <1>1 DEF Return, FlowOK, TypeOK, Parties

LEMMA SupportsNextType ==
  ASSUME TypeOK, NEW r \in Requests, NEW st \in Status, SupportsNext(r, st)
  PROVE  FlowOK
<1>1. CASE r.todo = {} \/ st.rc \notin {Ok, NoSupport}
  BY <1>1, ReturnType DEF SupportsNext
<1>2. CASE ~(r.todo = {} \/ st.rc \notin {Ok, NoSupport})
  <2> DEFINE kind == NextKind(r.todo)
             next == [r EXCEPT !.kind = kind, !.todo = @ \ {kind}]
  <2>1. kind \in MatchKinds
    BY <1>2, NextKindIsLeft DEF Requests
  <2>2. next \in Requests
    <3> HIDE DEF kind
    <3>1. QED
      BY <2>1 DEF Requests, ScriptKinds
  <2>3. Resolve(next, st) \/ Ident(next, 1, st)
    BY <1>2 DEF SupportsNext
  <2> HIDE DEF next, kind
  <2>4. QED
    BY <2>2, <2>3, ResolveType, IdentType, NumScriptsAssumption
<1>3. QED
  BY <1>1, <1>2

LEMMA MatchedType ==
  ASSUME TypeOK, NEW st \in Status, Matched(st)
  PROVE  FlowOK
<1>1. CASE req.api = "supports"
  <2> DEFINE r == [req EXCEPT !.found = (st.rc = Ok)]
  <2>1. r \in Requests
    BY DEF TypeOK, Requests
  <2>2. SupportsNext(r, st)
    BY <1>1 DEF Matched
  <2> HIDE DEF r
  <2>3. QED
    BY <2>1, <2>2, SupportsNextType
<1>2. CASE req.api # "supports"
  BY <1>2, ReturnType DEF Matched, TypeOK
<1>3. QED
  BY <1>1, <1>2

\* The rest of the state of a call.
RestOK == /\ media' \in MediaStates
          /\ croak' \in BOOLEAN
          /\ result' \in [code : QuviError, own : QuviError]
          /\ calls' \in 0 .. MaxCalls
          /\ hops' \in 0 .. MaxGoto
          /\ failed' \subseteq Mishaps

LEMMA NewCallType ==
  ASSUME TypeOK, NewCall
  PROVE  RestOK
BY BoundsAssumption
   DEF NewCall, RestOK, TypeOK, NoMedia, MediaStates, NoResult, QuviError, Mishaps

LEMMA FirstScript == 1 \in 1 .. NumScripts
BY NumScriptsAssumption

LEMMA RequestType ==
  ASSUME NEW api \in APIs, NEW mode \in {"parse", "online", "offline"},
         NEW kind \in ScriptKinds
  PROVE  Request(api, mode, kind) \in Requests
<1>1. 1 \in 1 .. NumScripts /\ {} \in SUBSET MatchKinds /\ "none" \in Stages
  BY NumScriptsAssumption DEF Stages
<1>2. QED
  BY <1>1 DEF Request, Requests

LEMMA StageType ==
  ASSUME NEW r \in Requests, NEW stage \in Stages
  PROVE  [r EXCEPT !.stage = stage] \in Requests
BY DEF Requests

LEMMA RunScriptType ==
  ASSUME TypeOK, NEW r \in Requests, NEW st \in Status, RunScript(r, st),
         luaParse' \in HasParse \cup {NoScript}
  PROVE  FlowOK
BY DEF RunScript, FlowOK, Parties

LEMMA PanicType ==
  ASSUME TypeOK, Panic
  PROVE  FlowOK
BY DEF Panic, FlowOK, TypeOK, Parties

LEMMA ApplicationType ==
  ASSUME TypeOK, Application
  PROVE  FlowOK /\ RestOK
<1>0. Aged(status) \in Status
  BY StatusOperators DEF TypeOK, QuviError
<1>1. ASSUME NEW kind \in MatchKinds, ParseNew(kind)
      PROVE  FlowOK /\ RestOK
  <2>1. Request(ParseApi[kind], "parse", kind) \in Requests
    <3>1. ParseApi[kind] \in APIs /\ kind \in ScriptKinds
      BY DEF ParseApi, MatchKinds, APIs, ScriptKinds
    <3>2. QED
      BY <3>1, RequestType
  <2>2. QED
    BY <1>0, <1>1, <2>1, ResolveType, NewCallType DEF ParseNew
<1>2. CASE ExportNew
  <2>1. Request("subtitle_export_new", "parse", "export") \in Requests
    BY RequestType DEF APIs, ScriptKinds
  <2>2. QED
    BY <1>0, <1>2, <2>1, IdentType, NewCallType, NumScriptsAssumption DEF ExportNew
<1>3. ASSUME NEW mode \in {"online", "offline"}, NEW types \in SUBSET MatchKinds,
             Supports(mode, types)
      PROVE  FlowOK /\ RestOK
  <2> DEFINE r == [Request("supports", mode, "media") EXCEPT !.todo = types]
  <2>1. r \in Requests
    <3>1. Request("supports", mode, "media") \in Requests
      BY RequestType DEF APIs, ScriptKinds, MatchKinds
    <3>2. QED
      BY <3>1 DEF Requests
  <2>2. WithCode(Aged(status), Ok) \in Status
    BY <1>0, StatusOperators DEF QuviError
  <2>3. SupportsNext(r, WithCode(Aged(status), Ok)) /\ NewCall
    BY <1>3 DEF Supports
  <2> HIDE DEF r
  <2>4. QED
    BY <2>1, <2>2, <2>3, SupportsNextType, NewCallType
<1>4. CASE ResolveNew
  <2>1. Request("resolve_new", "online", "media") \in Requests
    BY RequestType DEF APIs, ScriptKinds, MatchKinds
  <2>2. QED
    BY <1>0, <1>4, <2>1, ResolveType, NewCallType DEF ResolveNew
<1>5. CASE ScanNew
  <2>1. [Request("scan_new", "parse", "scan") EXCEPT !.stage = "fetch"] \in Requests
    BY RequestType, StageType DEF APIs, ScriptKinds, Stages
  <2>2. QED
    BY <1>0, <1>5, <2>1, NewCallType DEF ScanNew, FlowOK, Parties, TypeOK
<1>6. CASE MetainfoNew
  <2>1. [Request("metainfo_new", "parse", "media") EXCEPT !.stage = "metainfo"] \in Requests
    BY RequestType, StageType DEF APIs, ScriptKinds, MatchKinds, Stages
  <2>2. QED
    BY <1>0, <1>6, <2>1, NewCallType DEF MetainfoNew, FlowOK, Parties, TypeOK
<1>7. CASE FileExtNew
  <2>1. [Request("file_ext_new", "parse", "media") EXCEPT !.stage = "ext"] \in Requests
    BY RequestType, StageType DEF APIs, ScriptKinds, MatchKinds, Stages
  <2>2. QED
    BY <1>0, <1>7, <2>1, RunScriptType, NewCallType DEF FileExtNew, TypeOK
<1>8. CASE SetOption
  <2>1. status' \in Status
    BY <1>8, StatusOperators DEF SetOption, TypeOK, QuviError
  <2>2. failed' \subseteq Mishaps
    BY <1>8 DEF SetOption, TypeOK, Mishaps
  <2>3. QED
    BY <1>8, <2>1, <2>2 DEF SetOption, FlowOK, RestOK, TypeOK
<1>9. CASE Get
  <2>1. status' \in Status
    BY <1>9, StatusOperators DEF Get, TypeOK, QuviError
  <2>2. QED
    BY <1>9, <2>1 DEF Get, FlowOK, RestOK, TypeOK, Mishaps
<1>10. QED
  BY <1>1, <1>2, <1>3, <1>4, <1>5, <1>6, <1>7, <1>8, <1>9 DEF Application

ResultOK == result' \in [code : QuviError, own : QuviError]

LEMMA ToScriptType ==
  ASSUME TypeOK, NEW st \in Status, NEW raise \in BOOLEAN, ToScript(st, raise)
  PROVE  FlowOK /\ ResultOK
<1>1. st.rc \in QuviError
  BY DEF Status
<1>2. control' \in Parties
  BY DEF ToScript, Parties
<1>3. QED
  BY <1>1, <1>2 DEF ToScript, FlowOK, ResultOK, TypeOK

LEMMA DeliverType ==
  ASSUME TypeOK, NEW st \in Status, NEW croaks \in BOOLEAN, Deliver(st, croaks)
  PROVE  FlowOK /\ ResultOK
<1>1. CASE control = "lua"
  <2>1. (croaks /\ st.rc # Ok) \in BOOLEAN
    OBVIOUS
  <2>2. ToScript(st, croaks /\ st.rc # Ok)
    BY <1>1 DEF Deliver
  <2>3. QED
    BY <2>1, <2>2, ToScriptType
<1>2. CASE control # "lua"
  <2>1. ToLibrary(st)
    BY <1>2 DEF Deliver
  <2>2. ResultOK
    BY <2>1 DEF ToLibrary, ResultOK, TypeOK
  <2>3. CASE req.stage = "fetch" /\ st.rc = Ok
    <3>1. [req EXCEPT !.stage = "scan", !.i = 1] \in Requests
      BY FirstScript DEF TypeOK, Requests, Stages
    <3>2. luaParse' \in HasParse \cup {NoScript}
      BY <2>1, <2>3 DEF ToLibrary, DoFile, TypeOK
    <3>3. QED
      BY <2>1, <2>2, <2>3, <3>1, <3>2, RunScriptType DEF ToLibrary
  <2>4. CASE ~(req.stage = "fetch" /\ st.rc = Ok)
    BY <2>1, <2>2, <2>4, ReturnType DEF ToLibrary, TypeOK
  <2>5. QED
    BY <2>3, <2>4
<1>3. QED
  BY <1>1, <1>2

LEMMA CountedType ==
  ASSUME TypeOK, Counted, control = "lua" => calls < MaxCalls
  PROVE  calls' \in 0 .. MaxCalls
BY BoundsAssumption DEF Counted, TypeOK

\* The transfers leave a status of the right type, whatever their outcome.
LEMMA TransferStatusType ==
  ASSUME NEW op \in Ops, NEW st \in Status, NEW agreed \in BOOLEAN, NEW converted \in BOOLEAN
  PROVE  /\ TransferDone(op, st, agreed, converted) \in Status
         /\ TransferFailed(op, st) \in Status
<1>1. DoneFetch(st, agreed) \in Status /\ DoneResolve(st, agreed) \in Status
  BY StatusOperators DEF DoneFetch, DoneResolve, QuviError
<1>2. DoneMetainfo(st, agreed, converted) \in Status
  <2> DEFINE ext == IF converted THEN WithCode(st, Ok) ELSE Fail(st, Script)
  <2>1. ext \in Status
    BY StatusOperators DEF QuviError
  <2> HIDE DEF ext
  <2>2. WithCode(ext, Aborted) \in Status
    BY <2>1, StatusOperators DEF QuviError
  <2> USE DEF ext
  <2>3. QED
    BY <2>1, <2>2 DEF DoneMetainfo
<1>3. Fail(st, Callback) \in Status
  BY StatusOperators DEF QuviError
<1>4. QED
  BY <1>1, <1>2, <1>3
     DEF Ops, TransferDone, TransferFailed, FailedFetch, FailedResolve, FailedMetainfo

LEMMA TransferType ==
  ASSUME TypeOK, NEW op \in Ops, BeginTransfer(op) \/ RefuseTransfer(op) \/ EndTransfer(op)
  PROVE  FlowOK /\ RestOK
<1>1. CASE BeginTransfer(op)
  <2>1. calls' \in 0 .. MaxCalls
    BY <1>1, CountedType DEF BeginTransfer, MayStart, ScriptMayCall
  <2>2. QED
    BY <1>1, <2>1 DEF BeginTransfer, FlowOK, RestOK, TypeOK
<1>2. CASE RefuseTransfer(op)
  <2>1. calls' \in 0 .. MaxCalls
    BY <1>2, CountedType DEF RefuseTransfer, MayStart, ScriptMayCall
  <2>2. RefusedStart(status) \in Status
    BY StatusOperators DEF RefusedStart, TypeOK, QuviError
  <2>3. PICK croaks \in BOOLEAN : Deliver(RefusedStart(status), croaks)
    BY <1>2 DEF RefuseTransfer
  <2>4. FlowOK /\ ResultOK
    BY <2>2, <2>3, DeliverType
  <2>5. QED
    BY <1>2, <2>1, <2>4 DEF RefuseTransfer, RestOK, ResultOK, TypeOK, Mishaps
<1>3. CASE EndTransfer(op)
  <2>1. FlowOK /\ ResultOK /\ failed' \subseteq Mishaps
    <3>1. ASSUME NEW agreed \in BOOLEAN, NEW converted \in BOOLEAN,
                 Deliver(TransferDone(op, status, agreed, converted), croak)
          PROVE  FlowOK /\ ResultOK
      BY <3>1, TransferStatusType, DeliverType DEF TypeOK
    <3>2. ASSUME Deliver(TransferFailed(op, status), croak)
          PROVE  FlowOK /\ ResultOK
      BY <3>2, TransferStatusType, DeliverType DEF TypeOK
    <3>3. failed' \subseteq Mishaps
      BY <1>3 DEF EndTransfer, TypeOK, Mishaps
    <3>4. QED
      BY <1>3, <3>1, <3>2, <3>3 DEF EndTransfer
  <2>2. QED
    BY <1>3, <2>1 DEF EndTransfer, RestOK, ResultOK, TypeOK
<1>4. QED
  BY <1>1, <1>2, <1>3

LEMMA ScriptCallType ==
  ASSUME TypeOK,
         \/ ScriptMetainfoSkipped \/ Header \/ Base64 \/ Crypto
         \/ \E mode \in CookieModes : SetCookie(mode)
  PROVE  FlowOK /\ RestOK
<1>0. /\ SkippedMetainfo(status) \in Status
      /\ UnparsedMetainfo(status) \in Status
      /\ Fail(status, Callback) \in Status
      /\ WithCode(status, Callback) \in Status
  BY StatusOperators DEF SkippedMetainfo, UnparsedMetainfo, TypeOK, QuviError
<1>1. CASE ScriptMetainfoSkipped
  <2>1. calls' \in 0 .. MaxCalls
    BY <1>1, CountedType DEF ScriptMetainfoSkipped, ScriptMayCall
  <2>2. FlowOK /\ ResultOK
    BY <1>0, <1>1, ToScriptType DEF ScriptMetainfoSkipped
  <2>3. QED
    BY <1>1, <2>1, <2>2 DEF ScriptMetainfoSkipped, RestOK, ResultOK, TypeOK, Mishaps
<1>2. CASE Header
  <2>1. calls' \in 0 .. MaxCalls
    BY <1>2, CountedType DEF Header, ScriptMayCall
  <2>2. QED
    BY <1>2, <2>1 DEF Header, FlowOK, RestOK, TypeOK, Status, QuviError
<1>3. ASSUME NEW mode \in CookieModes, SetCookie(mode)
      PROVE  FlowOK /\ RestOK
  <2>1. calls' \in 0 .. MaxCalls
    BY <1>3, CountedType DEF SetCookie, ScriptMayCall
  <2>2. status' \in Status
    BY <1>0, <1>3 DEF SetCookie, CookieStatus, TypeOK
  <2>3. ResultOK
    BY <1>3, <2>2 DEF SetCookie, ResultOK, Status, QuviError
  <2>4. failed' \subseteq Mishaps
    BY <1>3 DEF SetCookie, TypeOK, Mishaps
  <2>5. QED
    BY <1>3, <2>1, <2>2, <2>3, <2>4 DEF SetCookie, FlowOK, RestOK, ResultOK, TypeOK
<1>4. CASE Base64
  <2>1. calls' \in 0 .. MaxCalls
    BY <1>4, CountedType DEF Base64, ScriptMayCall
  <2>2. ResultOK
    BY <1>4 DEF Base64, ResultOK, TypeOK, Status, QuviError, Ok, Callback
  <2>3. QED
    BY <1>0, <1>4, <2>1, <2>2 DEF Base64, FlowOK, RestOK, ResultOK, TypeOK, Parties, Mishaps
<1>5. CASE Crypto
  <2>1. calls' \in 0 .. MaxCalls
    BY <1>5, CountedType DEF Crypto, ScriptMayCall
  <2>2. /\ CryptoFailure(status) \in Status
        /\ \A st \in {status, WithCode(status, Ok)} : CryptoRaised(st) \in Status
    BY <1>0, StatusOperators
       DEF CryptoFailure, CryptoRaised, TypeOK, Status, Age, WithCode, QuviError
  <2>3. \A st \in {status, CryptoFailure(status)} : WithCode(st, Ok) \in Status
    BY <2>2, StatusOperators DEF TypeOK, QuviError
  <2>4. FlowOK /\ ResultOK
    <3>1. ASSUME NEW st \in {status, CryptoFailure(status)}, ToScript(WithCode(st, Ok), FALSE)
          PROVE  FlowOK /\ ResultOK
      BY <2>3, <3>1, ToScriptType
    <3>2. ASSUME NEW croaks \in BOOLEAN, ToScript(CryptoFailure(status), croaks)
          PROVE  FlowOK /\ ResultOK
      BY <2>2, <3>2, ToScriptType
    <3>3. ASSUME NEW st \in {status, WithCode(status, Ok)}, ToScript(CryptoRaised(st), TRUE)
          PROVE  FlowOK /\ ResultOK
      BY <2>2, <3>3, ToScriptType
    <3>4. ASSUME Panic, UNCHANGED result
          PROVE  FlowOK /\ ResultOK
      BY <3>4, PanicType DEF ResultOK, TypeOK
    <3>5. QED
      BY <1>5, <3>1, <3>2, <3>3, <3>4 DEF Crypto
  <2>5. failed' \subseteq Mishaps
    BY <1>5 DEF Crypto, TypeOK, Mishaps
  <2>6. QED
    BY <1>5, <2>1, <2>4, <2>5 DEF Crypto, RestOK, ResultOK, TypeOK
<1>6. QED
  BY <1>1, <1>2, <1>3, <1>4, <1>5

LEMMA ScriptOutcomeType ==
  ASSUME TypeOK,
         \/ ResolveReturns \/ ResolveRaises \/ IdentRejects \/ IdentRaises
         \/ IdentSupports \/ ExportStarts \/ ParseStarts
         \/ ReturnsGarbage \/ EntitiesReturn \/ OtherReturns \/ ScriptRaises \/ ScanReturns
         \/ MetainfoSkipped
         \/ \E goto, title \in BOOLEAN : MediaParses(goto, title)
  PROVE  FlowOK /\ RestOK
<1>0. /\ \A rc \in QuviError : WithCode(status, rc) \in Status /\ Fail(status, rc) \in Status
      /\ req \in Requests /\ status \in Status
  BY StatusOperators DEF TypeOK
<1>1. ASSUME Unharmed \/ Harmed("script") \/ Harmed("unsupported"),
             media' \in MediaStates, hops' \in 0 .. MaxGoto
      PROVE  RestOK
  <2>1. AfterScript
    BY <1>1 DEF Unharmed, Harmed
  <2>2. failed' \subseteq Mishaps
    BY <1>1 DEF Unharmed, Harmed, TypeOK, Mishaps
  <2>3. QED
    BY <1>1, <2>1, <2>2 DEF AfterScript, RestOK, TypeOK, NoResult, QuviError
<1>2. ASSUME NEW m \in MediaStates, FinishMedia(m)
      PROVE  FlowOK /\ media' \in MediaStates /\ hops' \in 0 .. MaxGoto
  <2>1. CASE m.redirect
    <3>1. FollowGoto(m) \in MediaStates
      BY DEF FollowGoto, MediaStates
    <3>2. QED
      BY <1>0, <1>2, <2>1, <3>1, ResolveType, BoundsAssumption DEF FinishMedia, TypeOK
  <2>2. CASE ~m.redirect
    <3>1. Matched(WithCode(status, Ok)) /\ media' = m /\ hops' = hops
      BY <1>2, <2>2 DEF FinishMedia
    <3>2. QED
      BY <1>0, <3>1, MatchedType DEF TypeOK, QuviError
  <2>3. QED
    BY <2>1, <2>2
<1>3. ASSUME NEW st \in Status, Reject(st)
      PROVE  FlowOK
  <2>1. CASE req.i < NumScripts
    <3>1. req.i + 1 \in 1 .. NumScripts
      BY <2>1, NumScriptsAssumption DEF TypeOK, Requests
    <3>2. QED
      BY <1>0, <1>3, <2>1, <3>1, IdentType DEF Reject
  <2>2. CASE ~(req.i < NumScripts)
    <3>1. Unsupported(st) \in Status
      BY StatusOperators DEF Unsupported, QuviError
    <3>2. QED
      BY <1>3, <2>2, <3>1, MatchedType DEF Reject
  <2>3. QED
    BY <2>1, <2>2
<1>4. CASE ResolveReturns
  <2>1. FlowOK
    <3>1. CASE status.rc = Ok /\ req.api # "resolve_new"
      BY <1>0, <1>4, <3>1, FirstScript, IdentType DEF ResolveReturns
    <3>2. CASE ~(status.rc = Ok /\ req.api # "resolve_new")
      BY <1>0, <1>4, <3>2, MatchedType DEF ResolveReturns
    <3>3. QED
      BY <3>1, <3>2
  <2>2. QED
    BY <1>1, <1>4, <2>1 DEF ResolveReturns, TypeOK
<1>5. CASE ResolveRaises
  <2>1. ResolveError(status) \in Status
    BY <1>0 DEF ResolveError, QuviError
  <2>2. QED
    BY <1>1, <1>5, <2>1, MatchedType DEF ResolveRaises, TypeOK
<1>6. CASE IdentRejects
  <2>1. FlowOK
    BY <1>0, <1>3, <1>6 DEF IdentRejects
  <2>2. QED
    BY <1>1, <1>6, <2>1 DEF IdentRejects, TypeOK
<1>7. CASE IdentRaises
  <2>1. Fail(status, Script) \in Status
    BY <1>0 DEF QuviError
  <2>2. QED
    BY <1>1, <1>3, <1>7, <2>1 DEF IdentRaises, TypeOK
<1>8. CASE IdentSupports \/ ExportStarts \/ ParseStarts
  <2>1. CASE IdentSupports
    <3>1. WithCode(status, Ok) \in Status
      BY <1>0 DEF QuviError
    <3>2. QED
      BY <1>1, <2>1, <3>1, MatchedType DEF IdentSupports, TypeOK
  <2>2. CASE ExportStarts
    <3>1. [req EXCEPT !.stage = "export"] \in Requests
      BY <1>0, StageType DEF Stages
    <3>2. FlowOK
      BY <1>0, <2>2, <3>1, RunScriptType DEF ExportStarts, TypeOK
    <3>3. QED
      BY <1>1, <2>2, <3>2 DEF ExportStarts, TypeOK
  <2>3. CASE ParseStarts
    <3>1. [req EXCEPT !.stage = "parse"] \in Requests
      BY <1>0, StageType DEF Stages
    <3>2. FlowOK
      BY <1>0, <2>3, <3>1, RunScriptType, PanicType DEF ParseStarts, TypeOK
    <3>3. QED
      BY <1>1, <2>3, <3>2 DEF ParseStarts, TypeOK
  <2>4. QED
    BY <1>8, <2>1, <2>2, <2>3
<1>9. CASE ReturnsGarbage
  BY <1>1, <1>9, PanicType DEF ReturnsGarbage, TypeOK
<1>10. CASE EntitiesReturn
  BY <1>1, <1>2, <1>10 DEF EntitiesReturn, TypeOK
<1>11. CASE OtherReturns
  <2>1. WithCode(status, Ok) \in Status
    BY <1>0 DEF QuviError
  <2>2. QED
    BY <1>0, <1>1, <1>11, <2>1, ReturnType DEF OtherReturns, TypeOK
<1>12. CASE ScriptRaises
  <2>1. Fail(status, Script) \in Status
    BY <1>0 DEF QuviError
  <2>2. QED
    BY <1>0, <1>1, <1>12, <2>1, ReturnType DEF ScriptRaises, TypeOK
<1>13. CASE ScanReturns
  <2>0. WithCode(status, Ok) \in Status
    BY <1>0 DEF QuviError
  <2>1. FlowOK
    <3>1. CASE req.i < NumScripts
      <4>1. [req EXCEPT !.i = @ + 1] \in Requests
        <5>1. req.i + 1 \in 1 .. NumScripts
          BY <1>0, <3>1, NumScriptsAssumption DEF Requests
        <5>2. QED
          BY <1>0, <5>1 DEF Requests
      <4>2. luaParse' \in HasParse \cup {NoScript}
        BY <1>13, <3>1 DEF ScanReturns, DoFile, TypeOK
      <4>3. QED
        BY <1>13, <2>0, <3>1, <4>1, <4>2, RunScriptType DEF ScanReturns
    <3>2. CASE ~(req.i < NumScripts)
      BY <1>0, <1>13, <2>0, <3>2, ReturnType DEF ScanReturns
    <3>3. QED
      BY <3>1, <3>2
  <2>2. QED
    BY <1>1, <1>13, <2>1 DEF ScanReturns, TypeOK
<1>14. CASE MetainfoSkipped
  <2>1. SkippedMetainfo(status) \in Status /\ UnparsedMetainfo(status) \in Status
    BY <1>0 DEF SkippedMetainfo, UnparsedMetainfo, QuviError
  <2>2. FlowOK
    BY <1>0, <1>14, <2>1, ReturnType DEF MetainfoSkipped
  <2>3. QED
    BY <1>14, <2>2 DEF MetainfoSkipped, RestOK, TypeOK, Mishaps
<1>15. ASSUME NEW goto \in BOOLEAN, NEW title \in BOOLEAN, MediaParses(goto, title)
       PROVE  FlowOK /\ RestOK
  <2>1. ParsedMedia(goto) \in MediaStates
    BY DEF ParsedMedia, MediaStates, TypeOK
  <2>2. FlowOK /\ media' \in MediaStates /\ hops' \in 0 .. MaxGoto
    <3>1. CASE title
      <4>1. [req EXCEPT !.stage = "entities"] \in Requests
        BY <1>0, StageType DEF Stages
      <4>2. QED
        BY <1>0, <1>15, <2>1, <3>1, <4>1, RunScriptType DEF MediaParses, TypeOK
    <3>2. CASE ~title
      BY <1>2, <1>15, <2>1, <3>2 DEF MediaParses
    <3>3. QED
      BY <3>1, <3>2
  <2>3. QED
    BY <1>1, <1>15, <2>2 DEF MediaParses
<1>16. QED
  BY <1>4, <1>5, <1>6, <1>7, <1>8, <1>9, <1>10, <1>11, <1>12, <1>13, <1>14, <1>15

\* Every step of a call keeps the types of the state.
LEMMA TypeStep == TypeOK /\ [Next]_vars => TypeOK'
<1> SUFFICES ASSUME TypeOK, [Next]_vars
             PROVE  TypeOK'
  OBVIOUS
<1>1. SessionTypeOK'
  BY CallUsesSession, SessionTypeStep DEF TypeOK
<1>2. CASE Application \/ Progress
  <2>1. FlowOK /\ RestOK
    BY <1>2, ApplicationType, TransferType, ScriptCallType, ScriptOutcomeType DEF Progress
  <2>2. QED
    BY <1>1, <2>1 DEF FlowOK, RestOK, TypeOK
<1>3. CASE Exited \/ UNCHANGED vars
  BY <1>1, <1>3 DEF Exited, vars, callVars, TypeOK
<1>4. QED
  BY <1>2, <1>3 DEF Next

LEMMA InitialCall == Init => TypeOK
<1> SUFFICES ASSUME Init
             PROVE  TypeOK
  OBVIOUS
<1>1. SessionTypeOK
  BY InitialSession DEF Init, SessionTypeOK
<1>2. req \in Requests
  BY FirstScript DEF Init, Requests, APIs, Stages, ScriptKinds, MatchKinds
<1>3. QED
  BY <1>1, <1>2, BoundsAssumption
     DEF Init, TypeOK, InitialStatus, Status, QuviError, Age, Parties, NoMedia, MediaStates,
         NoResult, Mishaps

\* The state of the handle and of its calls keeps its types.
THEOREM TypeCorrect == Spec => []TypeOK
<1>1. QED
  BY InitialCall, TypeStep, PTL DEF Spec

\* The calls use the session only as HttpSession says.
THEOREM CallsImplementSession == Spec => SessionSpec
<1>1. Init => SessionInit
  BY DEF Init
<1>2. QED
  BY <1>1, CallUsesSession, TypeCorrect, PTL DEF Spec, SessionSpec

\* So the session's invariant holds in every call of every API function.
THEOREM CallsKeepSession == Spec => []SessionInv
<1>1. QED
  BY CallsImplementSession, SessionInvariant, PTL
=============================================================================
