----------------------------- MODULE ScriptWalk -----------------------------
(***************************************************************************)
(* quvi_script_next and quvi_script_get: what an application can learn of  *)
(* the scripts that quvi_new has found.  The library handle has a cursor   *)
(* for each list but that of the utility scripts; NULL before the first    *)
(* and after the last script, from where a walk starts again.              *)
(*                                                                         *)
(* The application walks when quvi_new has succeeded, over the lists one   *)
(* by one or over several at a time.                                       *)
(***************************************************************************)
EXTENDS QuviNew

CONSTANT WalkTypes   \* the values of QuviScriptType that it passes

\* The enumeration, and any other value.
ScriptTypes == {"subtitle_export", "subtitle", "playlist", "media", "scan", "unknown"}

ASSUME WalkTypesAssumption == WalkTypes \subseteq ScriptTypes

VARIABLES
  curr,     \* q->scripts.curr, as a position in the list; 0: NULL
  given,    \* history: the scripts of each list since its walk began
  answer,   \* of the last quvi_script_get: the type it was given, the script
            \* whose property it has returned, and q->status.rc
  exited    \* whether the process has ended

walkVars == <<curr, given, answer, exited>>

Answers == [type : ScriptTypes \cup {"none"}, script : {{}} \cup {{s} : s \in Found},
            code : {"OK", "INVALID_ARG"}]

\* The lists that have a cursor.
Lists == 1 .. (GlobCount - 1)

WalkTypeOK == /\ curr \in [Lists -> Nat]
              /\ \A k \in Lists : curr[k] <= Len(scripts[k])
              /\ given \in [Lists -> Seq(Found)]
              /\ answer \in Answers
              /\ exited \in BOOLEAN

WalkInit == /\ NewInit
            /\ curr = [k \in Lists |-> 0]
            /\ given = [k \in Lists |-> <<>>]
            /\ answer = [type |-> "none", script |-> {}, code |-> "OK"]
            /\ exited = FALSE
-----------------------------------------------------------------------------
Walking == step = "done" /\ rc = "OK" /\ ~exited

\* The switch in quvi_script_next that picks the list, and the one that picks
\* the cursor: what is not in the enumeration means the media scripts.
ListOf(type) == CASE type = "subtitle_export" -> 1
                  [] type = "subtitle"        -> 2
                  [] type = "playlist"        -> 3
                  [] type = "scan"            -> 5
                  [] OTHER                    -> 4

\* Mutant: the label default stands one case too late in the second switch.
CursorOfScan(type) == IF type = "unknown" THEN 5 ELSE ListOf(type)

CursorOf(type) == ListOf(type)

\* Mutant: a walk that has ended starts behind the head.
NextScriptSkipsHead(at, n) == IF at > 0 THEN (at + 1) % (n + 1) ELSE 2 % (n + 1)

\* g_slist_next, or the head of the list of n scripts.
NextScript(at, n) == IF at < n THEN at + 1 ELSE 0

ScriptNext(type) ==
  /\ Walking
  /\ LET k    == CursorOf(type)
         list == scripts[ListOf(type)]
         next == NextScript(curr[k], Len(list))
     IN  /\ curr' = [curr EXCEPT ![k] = next]
         /\ given' = [given EXCEPT ![k] = IF next = 0 THEN <<>> ELSE Append(@, list[next])]
  /\ UNCHANGED <<newVars, answer, exited>>

\* Mutant: it does not tell the two lists of subtitle scripts apart.
CurrentOfSubtitle(type) ==
  LET k == IF type = "subtitle_export" THEN 2 ELSE CursorOf(type)
  IN  IF curr[k] = 0 THEN {} ELSE {scripts[k][curr[k]]}

\* The data of the current node; there is none behind a NULL cursor.
Current(type) ==
  LET k == CursorOf(type)
  IN  IF curr[k] = 0 THEN {} ELSE {scripts[ListOf(type)][curr[k]]}

\* quvi_script_get reads the current node first of all; then the property must
\* be known, and there must be a place for its value.
ScriptGet(type) ==
  /\ Walking
  /\ \E valid \in BOOLEAN :
       answer' = IF valid THEN [type |-> type, script |-> Current(type), code |-> "OK"]
                 ELSE [type |-> type, script |-> {}, code |-> "INVALID_ARG"]
  /\ exited' = (Current(type) = {})
  /\ UNCHANGED <<newVars, curr, given>>

WalkStep == \E type \in WalkTypes : ScriptNext(type) \/ ScriptGet(type)

WalkNext == \/ NewNext /\ UNCHANGED walkVars
            \/ WalkStep

WalkSpec == WalkInit /\ [][WalkNext]_<<newVars, walkVars>>

\* quvi_new does not wait for anything; the application may.
FairWalkSpec == WalkSpec /\ WF_newVars(NewStep)
-----------------------------------------------------------------------------
\* When quvi_script_next has nothing more to give, the walk that ends with it
\* has given every valid script of the directories searched, and none twice,
\* whatever other lists have been walked in the meantime.
WalksAreComplete ==
  [][\A k \in Lists :
       curr'[k] # curr[k] /\ curr'[k] = 0
         => /\ {given[k][i].sha : i \in 1 .. Len(given[k])} = ValidScripts(k)
            /\ \A i, j \in 1 .. Len(given[k]) : i # j => given[k][i].sha # given[k][j].sha
    ]_<<newVars, walkVars>>

\* quvi_script_get tells of the script that the last quvi_script_next over that
\* list has stepped to, and ends the process just when it has had nothing to
\* give, or there has been none.
AnswersAreCurrent ==
  [][answer' # answer =>
       LET walk == given[ListOf(answer'.type)]
       IN  IF walk = <<>> THEN exited'
           ELSE ~exited' /\ answer'.script \subseteq {walk[Len(walk)]}]_<<newVars, walkVars>>
=============================================================================
