----------------------------- MODULE QuviStatus -----------------------------
(***************************************************************************)
(* q->status, through which every libquvi function reports: the code rc    *)
(* and the text errmsg (src/_quvi_s.h; resp_code is left out).             *)
(*                                                                         *)
(* The text is abstracted to its age relative to the API call that the     *)
(* application has in progress, or made last: "empty", written by an       *)
(* "earlier" call, or written by the "current" one.                        *)
(***************************************************************************)

Ok        == "QUVI_OK"
Aborted   == "QUVI_ERROR_CALLBACK_ABORTED"
InvalidArg == "QUVI_ERROR_INVALID_ARG"
NoSupport == "QUVI_ERROR_NO_SUPPORT"
Callback  == "QUVI_ERROR_CALLBACK"
Script    == "QUVI_ERROR_SCRIPT"

\* The codes a call that finds or fetches something can report.
QuviError == {Ok, Aborted, InvalidArg, NoSupport, Callback, Script}

\* The codes above the message table of errmsg.c: their text is q->status.errmsg.
DynamicErrors == {NoSupport, Callback, Script}

Age == {"empty", "earlier", "current"}

Status == [rc : QuviError, errmsg : Age]

\* g_new0 of the handle.
InitialStatus == [rc |-> Ok, errmsg |-> "empty"]

\* A new API call begins: what is there was written by an earlier one.
Aged(s) == [s EXCEPT !.errmsg = IF @ = "current" THEN "earlier" ELSE @]

\* The code rc is assigned; the text is left as it is.
WithCode(s, rc) == [s EXCEPT !.rc = rc]

\* The code saves an error text and reports the code rc.
Fail(s, rc) == [s EXCEPT !.rc = rc, !.errmsg = "current"]
=============================================================================
