---------------------------- MODULE HttpSession ----------------------------
(***************************************************************************)
(* The one cURL easy handle of a libquvi handle (q->handle.curl), which    *)
(* all transfers share: the GETs of n_fetch, the HEAD probes of n_resolve  *)
(* and n_http_metainfo, the custom headers and cookies that scripts set    *)
(* and the options that the application sets.  Options of an easy handle   *)
(* are sticky, so what one transfer leaves behind is what the next one     *)
(* starts from.                                                            *)
(*                                                                         *)
(* libcurl itself is external: curl_easy_perform is modelled by what it    *)
(* reads (method, header list, write sink) and by the cookies it may keep. *)
(***************************************************************************)
EXTENDS Naturals, QuviStatus

CONSTANTS Agents,      \* the user-agent strings an application sets
          MaxHeaders   \* bound: entries of the custom header list

ASSUME MaxHeadersAssumption == MaxHeaders \in Nat

VARIABLES
  curl,      \* the sticky options of the easy handle
  headers,   \* q->http.headers: the number of entries of the curl_slist
  opt,       \* q->opt: what the application chose with quvi_set
  xfer       \* the transfer between its set-up and its clean-up, or "none"

sessionVars == <<curl, headers, opt, xfer>>

Ops == {"fetch", "resolve", "metainfo"}

NoAgent == ""
DefaultAgent == "Mozilla/5.0"
AgentStrings == Agents \cup {NoAgent, DefaultAgent}

\* CURLOPT_HTTPHEADER: unset, the live list, or a list that has been freed.
HeaderPointers == {"unset", "list", "freed"}

\* CURLOPT_WRITEDATA: never set, a live c_temp buffer, or a freed one.
Sinks == {"unset", "live", "freed"}

Curl == [method : {"GET", "HEAD"}, sink : Sinks, list : HeaderPointers,
         engine : BOOLEAN, jar : BOOLEAN, agent : AgentStrings]

QuviOptions == [cookies : BOOLEAN, agent : Agents \cup {NoAgent}]

SessionTypeOK == /\ curl \in Curl
                 /\ headers \in 0 .. MaxHeaders
                 /\ opt \in QuviOptions
                 /\ xfer \in Ops \cup {"none"}
-----------------------------------------------------------------------------
\* curl_slist_free_all: an option that names the list is left dangling.
FreeList(c) == [c EXCEPT !.list = IF c.list = "list" THEN "freed" ELSE c.list]

\* Mutant: the option is not unset.
ResetHeadersLeavesOption(c) == FreeList(c)

\* c_reset_headers: the option is unset before the list is freed.
ResetHeaders(c) == FreeList([c EXCEPT !.list = "unset"])

\* Mutant: the default replaces the application's choice.
ChosenAgentIsDefault(o) == DefaultAgent

\* c_reset: the user agent of the application, or else the default.
ChosenAgent(o) == IF o.agent = NoAgent THEN DefaultAgent ELSE o.agent

\* Mutant: c_reset does not call c_reset_headers.
ResetKeepsHeaders(c, o) == [c EXCEPT !.method = "GET",
                                     !.agent  = ChosenAgent(o),
                                     !.jar    = @ /\ ~o.cookies]

\* c_reset, all of it; cookies are only cleared while they are allowed.
Reset(c, o) == [ResetHeaders(c) EXCEPT !.method = "GET",
                                       !.agent  = ChosenAgent(o),
                                       !.jar    = @ /\ ~o.cookies]

InitialCurl == [method |-> "GET", sink |-> "unset", list |-> "unset",
                engine |-> FALSE, jar |-> FALSE, agent |-> NoAgent]

\* The handle has its defaults (g_new0) when c_init runs: cookies are off.
SessionInit == /\ opt = [cookies |-> FALSE, agent |-> NoAgent]
               /\ curl = Reset(InitialCurl, opt)
               /\ headers = 0
               /\ xfer = "none"
-----------------------------------------------------------------------------
\* Mutant: CURLOPT_WRITEDATA is not set again.
FetchKeepsSink(c) == c

\* _set_opts of curl/fetch.c, curl/resolve.c and curl/http_metainfo.c.
FetchOptions(c)    == [c EXCEPT !.sink = "live"]
ResolveOptions(c)  == [c EXCEPT !.method = "HEAD"]
MetainfoOptions(c) == [c EXCEPT !.sink = "live", !.method = "HEAD"]

Options(op, c) == CASE op = "fetch"    -> FetchOptions(c)
                    [] op = "resolve"  -> ResolveOptions(c)
                    [] op = "metainfo" -> MetainfoOptions(c)

\* c_temp_free: the buffer is gone, CURLOPT_WRITEDATA still names it.
FreeSink(c) == [c EXCEPT !.sink = IF c.sink = "live" THEN "freed" ELSE c.sink]

\* Mutant: c_resolve leaves the session at HEAD.
ResolveLeavesHead(c) == c

\* What each function undoes after curl_easy_perform.
AfterFetch(c)    == FreeSink(c)
AfterResolve(c)  == [c EXCEPT !.method = "GET"]
AfterMetainfo(c) == FreeSink([c EXCEPT !.method = "GET"])

After(op, c) == CASE op = "fetch"    -> AfterFetch(c)
                  [] op = "resolve"  -> AfterResolve(c)
                  [] op = "metainfo" -> AfterMetainfo(c)

\* The options are set and curl_easy_perform runs.
Begin(op) == /\ xfer = "none"
             /\ xfer' = op
             /\ curl' = Options(op, curl)
             /\ UNCHANGED <<headers, opt>>

\* The transfer is over; an enabled cookie engine may have kept a cookie.
End(op) == /\ xfer = op
           /\ xfer' = "none"
           /\ \E kept \in BOOLEAN :
                curl' = [After(op, curl) EXCEPT !.jar = @ \/ (kept /\ curl.engine)]
           /\ UNCHANGED <<headers, opt>>

\* l_quvi_http_header with a value: curl_slist_append, then CURLOPT_HTTPHEADER.
AddHeader == /\ xfer = "none"
             /\ headers < MaxHeaders
             /\ headers' = headers + 1
             /\ curl' = [curl EXCEPT !.list = "list"]
             /\ UNCHANGED <<opt, xfer>>

\* l_quvi_http_header with "".
ClearHeaders == /\ xfer = "none"
                /\ headers' = 0
                /\ curl' = ResetHeaders(curl)
                /\ UNCHANGED <<opt, xfer>>

\* l_quvi_http_cookie, by mode: a file, a jar or a list enable the engine.
CookieModes == {"session", "file", "list", "jar", "invalid"}

CookieOption(c, mode, added) ==
  CASE mode \in {"session", "invalid"} -> c
    [] mode = "jar"                    -> [c EXCEPT !.engine = TRUE]
    [] mode \in {"file", "list"}       -> [c EXCEPT !.engine = TRUE, !.jar = @ \/ added]

Cookie(mode) == /\ xfer = "none"
                /\ IF opt.cookies
                   THEN \E added \in BOOLEAN : curl' = CookieOption(curl, mode, added)
                   ELSE UNCHANGED curl
                /\ UNCHANGED <<headers, opt, xfer>>

\* c_reset, called by the library before a script's parse.
ResetSession == /\ xfer = "none"
                /\ headers' = 0
                /\ curl' = Reset(curl, opt)
                /\ UNCHANGED <<opt, xfer>>

\* quvi_set, between two transfers.
SetUserAgent(agent) == /\ xfer = "none"
                       /\ opt' = [opt EXCEPT !.agent = agent]
                       /\ curl' = [curl EXCEPT !.agent = agent]
                       /\ UNCHANGED <<headers, xfer>>

AllowCookies(allow) == /\ xfer = "none"
                       /\ opt' = [opt EXCEPT !.cookies = allow]
                       /\ UNCHANGED <<curl, headers, xfer>>

SessionNext == \/ \E op \in Ops : Begin(op)
               \/ \E op \in Ops : End(op)
               \/ AddHeader
               \/ ClearHeaders
               \/ \E mode \in CookieModes : Cookie(mode)
               \/ ResetSession
               \/ \E agent \in Agents \cup {NoAgent} : SetUserAgent(agent)
               \/ \E allow \in BOOLEAN : AllowCookies(allow)

SessionSpec == SessionInit /\ [][SessionNext]_sessionVars
-----------------------------------------------------------------------------
\* c_fetch relies on the probes before it to have given the GET method back,
\* and only the probes use HEAD: c_fetch itself never sets the method.
TransferMethod == xfer # "none" => (curl.method = "GET" <=> xfer = "fetch")

\* While a transfer that has a body runs, the buffer CURLOPT_WRITEDATA names
\* has not been freed (c_resolve sets none, and c_temp_free leaves it dangling).
BodyHasLiveSink == xfer # "none" /\ curl.method = "GET" => curl.sink = "live"

\* CURLOPT_HTTPHEADER names the list in q->http.headers, or nothing when it is
\* empty; never a list that has been freed.
HeaderListIsLive == curl.list = IF headers > 0 THEN "list" ELSE "unset"

\* The user agent is the one the application has set, through every later reset
\* and transfer; when it has set none, or "" again, it is the default, or "" until
\* the next c_reset.  So set.c says ("c_reset will reuse this value") and reset.c
\* does, while the notes on quvi_media_new, quvi_playlist_new, quvi_subtitle_new
\* and quvi_scan_new have the "default user-agent string restored" by these calls.
AgentIsHonoured == IF opt.agent # NoAgent
                   THEN curl.agent = opt.agent
                   ELSE curl.agent \in {NoAgent, DefaultAgent}
-----------------------------------------------------------------------------
(* What the documentation says and the code does not do.                    *)

\* quvi-object(7): libcurl uses the received cookies "in the subsequent HTTP
\* requests only if libquvi QUVI_OPTION_ALLOW_COOKIES is QUVI_TRUE".
CookiesOnlyIfAllowed == xfer # "none" /\ curl.engine /\ curl.jar => opt.cookies
=============================================================================
