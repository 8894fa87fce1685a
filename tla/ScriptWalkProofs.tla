-------------------------- MODULE ScriptWalkProofs --------------------------
(***************************************************************************)
(* Walking the lists of scripts, for every search path, file system and    *)
(* order of calls: what has been given of a list is always the part of it  *)
(* up to the cursor (GivenIsWalked), so a walk that ends has given all of  *)
(* it, and QuviNewProofs says what that is.                                *)
(***************************************************************************)
EXTENDS ScriptWalk, QuviNewProofs

\* No walk begins before quvi_new has succeeded.
NotBefore == ~(step = "done" /\ rc = "OK") => \A k \in Lists : curr[k] = 0

\* What has been given of a list is the part of it up to the cursor.
GivenIsWalked ==
  \A k \in Lists : /\ Len(given[k]) = curr[k]
                   /\ \A i \in 1 .. curr[k] : given[k][i] = scripts[k][i]

WalkInv == /\ SearchInv
           /\ WalkTypeOK
           /\ NotBefore
           /\ GivenIsWalked
-----------------------------------------------------------------------------
\* Walking does not touch what quvi_new has made.
LEMMA WalkStepRefines == [WalkNext]_<<newVars, walkVars>> => [NewNext]_newVars
<1>. SUFFICES ASSUME [WalkNext]_<<newVars, walkVars>> PROVE [NewNext]_newVars
  OBVIOUS
<1>1. ASSUME NEW type \in WalkTypes, ScriptNext(type) \/ ScriptGet(type)
      PROVE  UNCHANGED newVars
  BY <1>1 DEF ScriptNext, ScriptGet
<1>. QED BY <1>1 DEF WalkNext, WalkStep

\* Every value of the type means a list with a cursor.
LEMMA ListTypes == \A type : ListOf(type) \in Lists /\ CursorOf(type) \in Lists
  BY DEF ListOf, CursorOf, Lists, GlobCount

LEMMA ListsOfScripts ==
  ASSUME SearchInv, NEW k \in Lists
  PROVE  k \in 1 .. GlobCount /\ scripts[k] \in Seq(Found) /\ Len(scripts[k]) \in Nat
<1>1. k \in 1 .. GlobCount
  BY DEF Lists, GlobCount
<1>2. scripts[k] \in Seq(Found)
  BY <1>1 DEF SearchInv, NewTypeOK
<1>. QED BY <1>1, <1>2

LEMMA WalkStart == WalkInit => WalkInv
<1>. SUFFICES ASSUME WalkInit PROVE WalkInv
  OBVIOUS
<1>1. SearchInv
  BY SearchStart DEF WalkInit
<1>2. curr = [k \in Lists |-> 0] /\ given = [k \in Lists |-> <<>>]
  BY DEF WalkInit
<1>3. NotBefore /\ GivenIsWalked
  BY <1>2 DEF NotBefore, GivenIsWalked
<1>4. \A k \in Lists : curr[k] <= Len(scripts[k])
  BY <1>1, <1>2, ListsOfScripts
<1>5. answer \in Answers /\ exited \in BOOLEAN
  BY DEF WalkInit, Answers
<1>6. curr \in [Lists -> Nat] /\ given \in [Lists -> Seq(Found)]
  BY <1>2
<1>7. WalkTypeOK
  BY <1>4, <1>5, <1>6, Zenon DEF WalkTypeOK
<1>. QED BY <1>1, <1>3, <1>7 DEF WalkInv

\* quvi_new goes on: nothing has been walked yet, or nothing more happens.
LEMMA NewKeeps ==
  ASSUME WalkInv, [NewNext]_newVars, UNCHANGED walkVars
  PROVE  WalkInv'
<1>1. SearchInv'
  BY SearchStep DEF WalkInv
<1>2. curr' = curr /\ given' = given /\ answer' = answer /\ exited' = exited
  BY DEF walkVars
<1>3. CASE step = "done" /\ rc = "OK"
  <2>1. UNCHANGED newVars
    BY <1>3 DEF NewNext, NewStep, Returned, LuaInit, ChkCommonScripts, OpenDir, ReadFile,
                CloseDir, KindDone, CurlInit, GcryptInit, ProxyInit
  <2>2. step' = step /\ rc' = rc /\ scripts' = scripts
    BY <2>1 DEF newVars
  <2>3. WalkTypeOK'
    BY <1>2, <2>2 DEF WalkInv, WalkTypeOK, Answers
  <2>4. NotBefore' /\ GivenIsWalked'
    BY <1>2, <1>3, <2>2 DEF WalkInv, NotBefore, GivenIsWalked
  <2>. QED BY <1>1, <2>3, <2>4 DEF WalkInv
<1>4. CASE ~(step = "done" /\ rc = "OK")
  <2>1. \A k \in Lists : curr'[k] = 0 /\ Len(given'[k]) = 0
    BY <1>2, <1>4 DEF WalkInv, NotBefore, GivenIsWalked
  <2>2. \A k \in Lists : curr'[k] <= Len(scripts'[k])
    <3>1. \A k \in Lists : k \in 1 .. GlobCount
      BY DEF Lists, GlobCount
    <3>2. \A k \in Lists : scripts'[k] \in Seq(Found)
      BY <1>1, <3>1 DEF SearchInv, NewTypeOK
    <3>. QED BY <2>1, <3>2
  <2>3. WalkTypeOK'
    BY <1>2, <2>2 DEF WalkInv, WalkTypeOK, Answers
  <2>4. NotBefore' /\ GivenIsWalked'
    BY <2>1 DEF NotBefore, GivenIsWalked
  <2>. QED BY <1>1, <2>3, <2>4 DEF WalkInv
<1>. QED BY <1>3, <1>4

\* One call of quvi_script_next, for the list that the type means.
LEMMA NextMoves ==
  ASSUME WalkInv, NEW type \in WalkTypes, ScriptNext(type)
  PROVE  LET k == ListOf(type)
             n == Len(scripts[k])
         IN  /\ k \in Lists /\ n \in Nat /\ curr[k] \in 0 .. n
             /\ curr[k] < n => /\ curr' = [curr EXCEPT ![k] = curr[k] + 1]
                               /\ given' = [given EXCEPT ![k] =
                                              Append(@, scripts[k][curr[k] + 1])]
             /\ curr[k] = n => /\ curr' = [curr EXCEPT ![k] = 0]
                               /\ given' = [given EXCEPT ![k] = <<>>]
<1>. DEFINE k == ListOf(type)
            n == Len(scripts[k])
            next == NextScript(curr[k], n)
<1>1. k \in Lists /\ CursorOf(type) = k
  BY ListTypes DEF CursorOf
<1>2. n \in Nat
  BY <1>1, ListsOfScripts DEF WalkInv
<1>3. curr[k] \in 0 .. n
  BY <1>1, <1>2 DEF WalkInv, WalkTypeOK
<1>4. /\ curr' = [curr EXCEPT ![k] = next]
      /\ given' = [given EXCEPT ![k] = IF next = 0 THEN <<>> ELSE Append(@, scripts[k][next])]
  BY <1>1 DEF ScriptNext
<1>5. curr[k] < n => next = curr[k] + 1 /\ next # 0
  BY <1>2, <1>3 DEF NextScript
<1>6. curr[k] = n => next = 0
  BY <1>2, <1>3 DEF NextScript
<1>. HIDE DEF n, k, next
<1>7. curr[k] < n => given' = [given EXCEPT ![k] = Append(@, scripts[k][curr[k] + 1])]
  BY <1>4, <1>5
<1>8. curr[k] = n => given' = [given EXCEPT ![k] = <<>>]
  BY <1>4, <1>6
<1>9. curr[k] < n => curr' = [curr EXCEPT ![k] = curr[k] + 1]
  BY <1>4, <1>5
<1>10. curr[k] = n => curr' = [curr EXCEPT ![k] = 0]
  BY <1>4, <1>6
<1>. QED BY <1>1, <1>2, <1>3, <1>7, <1>8, <1>9, <1>10 DEF n, k

LEMMA NextKeeps ==
  ASSUME WalkInv, NEW type \in WalkTypes, ScriptNext(type)
  PROVE  WalkInv'
<1>. DEFINE k == ListOf(type)
            n == Len(scripts[k])
<1>1. UNCHANGED newVars /\ answer' = answer /\ exited' = exited
  BY DEF ScriptNext
<1>2. SearchInv'
  BY <1>1, SearchStutter DEF WalkInv
<1>3. scripts' = scripts /\ step' = step /\ rc' = rc
  BY <1>1 DEF newVars
<1>4. k \in Lists /\ n \in Nat /\ curr[k] \in 0 .. n
  BY NextMoves
<1>5. /\ curr \in [Lists -> Nat] /\ given \in [Lists -> Seq(Found)]
      /\ Len(given[k]) = curr[k]
      /\ \A i \in 1 .. curr[k] : given[k][i] = scripts[k][i]
      /\ \A j \in Lists : curr[j] <= Len(scripts[j])
  BY <1>4 DEF WalkInv, WalkTypeOK, GivenIsWalked
<1>6. scripts[k] \in Seq(Found)
  BY <1>4, ListsOfScripts DEF WalkInv
<1>7. /\ curr' \in [Lists -> Nat] /\ given' \in [Lists -> Seq(Found)]
      /\ \A j \in Lists : j = k \/ (curr'[j] = curr[j] /\ given'[j] = given[j])
      /\ curr'[k] <= n
      /\ Len(given'[k]) = curr'[k]
      /\ \A i \in 1 .. curr'[k] : given'[k][i] = scripts[k][i]
  <2>1. CASE curr[k] < n
    <3>1. /\ curr' = [curr EXCEPT ![k] = curr[k] + 1]
          /\ given' = [given EXCEPT ![k] = Append(@, scripts[k][curr[k] + 1])]
      BY <2>1, NextMoves
    <3>. DEFINE s == scripts[k][curr[k] + 1]
    <3>2. s \in Found
      BY <1>4, <1>6, <2>1
    <3>. HIDE DEF s, k, n
    <3>3. /\ curr'[k] = curr[k] + 1 /\ given'[k] = Append(given[k], s)
          /\ \A j \in Lists : j = k \/ (curr'[j] = curr[j] /\ given'[j] = given[j])
      BY <1>4, <1>5, <3>1 DEF s
    <3>4. given[k] \in Seq(Found)
      BY <1>4, <1>5
    <3>5. /\ Append(given[k], s) \in Seq(Found)
          /\ Len(Append(given[k], s)) = curr[k] + 1
          /\ \A i \in 1 .. curr[k] : Append(given[k], s)[i] = given[k][i]
          /\ Append(given[k], s)[curr[k] + 1] = s
      BY <1>4, <1>5, <3>2, <3>4
    <3>6. \A i \in 1 .. (curr[k] + 1) : i \in 1 .. curr[k] \/ i = curr[k] + 1
      BY <1>4
    <3>7. \A i \in 1 .. curr'[k] : given'[k][i] = scripts[k][i]
      BY <1>5, <3>3, <3>5, <3>6 DEF s
    <3>8. curr' \in [Lists -> Nat] /\ given' \in [Lists -> Seq(Found)]
      BY <1>4, <1>5, <3>1, <3>5 DEF s
    <3>9. curr'[k] <= n /\ Len(given'[k]) = curr'[k]
      BY <1>4, <2>1, <3>3, <3>5
    <3>. QED BY <3>3, <3>7, <3>8, <3>9
  <2>2. CASE curr[k] = n
    <3>1. /\ curr' = [curr EXCEPT ![k] = 0] /\ given' = [given EXCEPT ![k] = <<>>]
      BY <2>2, NextMoves
    <3>. HIDE DEF k, n
    <3>. QED BY <1>4, <1>5, <3>1
  <2>. QED BY <1>4, <2>1, <2>2
<1>8. WalkTypeOK'
  <2>1. \A j \in Lists : curr'[j] <= Len(scripts'[j])
    BY <1>3, <1>5, <1>7
  <2>2. answer' \in Answers' /\ exited' \in BOOLEAN
    BY <1>1 DEF WalkInv, WalkTypeOK, Answers
  <2>. HIDE DEF k, n
  <2>. QED BY <1>7, <2>1, <2>2 DEF WalkTypeOK
<1>9. NotBefore'
  BY <1>3 DEF ScriptNext, Walking, NotBefore
<1>10. GivenIsWalked'
  <2>1. ASSUME NEW j \in Lists
        PROVE  /\ Len(given'[j]) = curr'[j]
               /\ \A i \in 1 .. curr'[j] : given'[j][i] = scripts[j][i]
    <3>1. CASE j = k
      BY <1>7, <3>1
    <3>2. CASE j # k
      <4>1. curr'[j] = curr[j] /\ given'[j] = given[j]
        BY <1>7, <3>2
      <4>. QED BY <4>1 DEF WalkInv, GivenIsWalked
    <3>. QED BY <3>1, <3>2
  <2>. QED BY <1>3, <2>1 DEF GivenIsWalked
<1>. QED BY <1>2, <1>8, <1>9, <1>10 DEF WalkInv

\* What quvi_script_get reads is the last script given of the list.
LEMMA CurrentIsLast ==
  ASSUME WalkInv, NEW type
  PROVE  LET walk == given[ListOf(type)]
         IN  /\ walk = <<>> => Current(type) = {}
             /\ walk # <<>> => /\ Current(type) = {walk[Len(walk)]}
                               /\ walk[Len(walk)] \in Found
<1>. DEFINE k == ListOf(type)
            walk == given[k]
<1>1. k \in Lists /\ CursorOf(type) = k
  BY ListTypes DEF CursorOf
<1>2. /\ walk \in Seq(Found) /\ curr[k] \in Nat /\ Len(walk) = curr[k]
      /\ \A i \in 1 .. curr[k] : walk[i] = scripts[k][i]
  BY <1>1 DEF WalkInv, WalkTypeOK, GivenIsWalked
<1>3. Current(type) = IF curr[k] = 0 THEN {} ELSE {scripts[k][curr[k]]}
  BY <1>1 DEF Current
<1>. HIDE DEF k, walk
<1>4. CASE walk = <<>>
  BY <1>2, <1>3, <1>4 DEF k, walk
<1>5. CASE walk # <<>>
  <2>1. Len(walk) \in 1 .. curr[k] /\ curr[k] # 0
    BY <1>2, <1>5
  <2>2. walk[Len(walk)] = scripts[k][curr[k]] /\ walk[Len(walk)] \in Found
    BY <1>2, <2>1
  <2>. QED BY <1>3, <1>5, <2>1, <2>2 DEF k, walk
<1>. QED BY <1>4, <1>5

LEMMA GetKeeps ==
  ASSUME WalkInv, NEW type \in WalkTypes, ScriptGet(type)
  PROVE  WalkInv'
<1>1. UNCHANGED newVars /\ curr' = curr /\ given' = given
  BY DEF ScriptGet
<1>2. SearchInv'
  BY <1>1, SearchStutter DEF WalkInv
<1>3. scripts' = scripts /\ step' = step /\ rc' = rc
  BY <1>1 DEF newVars
<1>4. exited' \in BOOLEAN
  BY Zenon DEF ScriptGet
<1>5. answer' \in Answers
  <2>1. type \in ScriptTypes
    BY WalkTypesAssumption
  <2>2. Current(type) \in {{}} \cup {{s} : s \in Found}
    BY CurrentIsLast
  <2>3. \/ answer' = [type |-> type, script |-> Current(type), code |-> "OK"]
        \/ answer' = [type |-> type, script |-> {}, code |-> "INVALID_ARG"]
    BY DEF ScriptGet
  <2>. QED BY <2>1, <2>2, <2>3 DEF Answers
<1>6. WalkTypeOK'
  BY <1>1, <1>3, <1>4, <1>5 DEF WalkInv, WalkTypeOK, Answers
<1>7. NotBefore' /\ GivenIsWalked'
  BY <1>1, <1>3 DEF WalkInv, NotBefore, GivenIsWalked
<1>. QED BY <1>2, <1>6, <1>7 DEF WalkInv

LEMMA WalkKeeps == WalkInv /\ [WalkNext]_<<newVars, walkVars>> => WalkInv'
<1>. SUFFICES ASSUME WalkInv, [WalkNext]_<<newVars, walkVars>> PROVE WalkInv'
  OBVIOUS
<1>1. CASE NewNext /\ UNCHANGED walkVars
  BY <1>1, NewKeeps
<1>2. CASE UNCHANGED <<newVars, walkVars>>
  BY <1>2, NewKeeps
<1>3. CASE WalkStep
  BY <1>3, NextKeeps, GetKeeps DEF WalkStep
<1>. QED BY <1>1, <1>2, <1>3 DEF WalkNext

LEMMA WalkAlways == WalkSpec => []WalkInv
  BY WalkStart, WalkKeeps, PTL DEF WalkSpec
-----------------------------------------------------------------------------
\* Cursors and answers keep to their sets, for every list and order of calls.
THEOREM WalkTypeCorrect == WalkSpec => []WalkTypeOK
<1>1. WalkInv => WalkTypeOK
  BY DEF WalkInv
<1>. QED BY <1>1, WalkAlways, PTL

\* The walks implement quvi_new: whatever is proved of its lists holds still.
THEOREM WalksLeaveLists == WalkSpec => NewSpec
<1>1. WalkInit => NewInit
  BY DEF WalkInit
<1>. QED BY <1>1, WalkStepRefines, PTL DEF WalkSpec, NewSpec

\* The step in which quvi_script_next has nothing more to give.
LEMMA WalkEnds ==
  ASSUME WalkInv, [WalkNext]_<<newVars, walkVars>>, NEW k \in Lists,
         curr'[k] # curr[k], curr'[k] = 0
  PROVE  /\ {given[k][i].sha : i \in 1 .. Len(given[k])} = ValidScripts(k)
         /\ \A i, j \in 1 .. Len(given[k]) : i # j => given[k][i].sha # given[k][j].sha
<1>1. PICK type \in WalkTypes : ScriptNext(type)
  BY DEF WalkNext, WalkStep, walkVars, ScriptGet
<1>2. ListOf(type) = k /\ curr[k] = Len(scripts[k])
  <2>. DEFINE m == ListOf(type)
              n == Len(scripts[m])
  <2>1. /\ m \in Lists /\ n \in Nat /\ curr[m] \in 0 .. n /\ curr \in [Lists -> Nat]
        /\ curr[m] < n => curr' = [curr EXCEPT ![m] = curr[m] + 1]
        /\ curr[m] = n => curr' = [curr EXCEPT ![m] = 0]
    BY <1>1, NextMoves DEF WalkInv, WalkTypeOK
  <2>. HIDE DEF m, n
  <2>2. k = m
    BY <2>1
  <2>3. curr[m] = n
    BY <2>1, <2>2
  <2>. QED BY <2>2, <2>3 DEF m, n
<1>3. step = "done" /\ rc = "OK"
  BY <1>1 DEF ScriptNext, Walking
<1>4. k \in 1 .. GlobCount /\ Complete(k)
  BY <1>3, ListsOfScripts DEF WalkInv, SearchInv, PastIsComplete, Past, AfterSearch
<1>5. ShasOf(scripts[k]) = ValidScripts(k) /\ Distinct(scripts[k])
  BY <1>4, CompleteList DEF WalkInv, SearchInv, GoodLists, GoodList
<1>6. Len(given[k]) = Len(scripts[k]) /\ \A i \in 1 .. Len(given[k]) : given[k][i] = scripts[k][i]
  BY <1>2 DEF WalkInv, GivenIsWalked
<1>. QED BY <1>5, <1>6 DEF ShasOf, Distinct

\* A walk that ends has given every valid script of the directories searched,
\* and none twice, however the walks of several lists are interleaved.
THEOREM WalksGiveAll == WalkSpec => WalksAreComplete
<1>1. WalkInv /\ [WalkNext]_<<newVars, walkVars>> =>
        [\A k \in Lists :
           curr'[k] # curr[k] /\ curr'[k] = 0
             => /\ {given[k][i].sha : i \in 1 .. Len(given[k])} = ValidScripts(k)
                /\ \A i, j \in 1 .. Len(given[k]) : i # j => given[k][i].sha # given[k][j].sha
        ]_<<newVars, walkVars>>
  BY WalkEnds
<1>. QED BY <1>1, WalkAlways, PTL DEF WalkSpec, WalksAreComplete

\* quvi_script_get tells of the script its walk has come to, and ends the
\* process exactly when there is none.
THEOREM AnswersCurrent == WalkSpec => AnswersAreCurrent
<1>1. WalkInv /\ [WalkNext]_<<newVars, walkVars>> =>
        [answer' # answer =>
           LET walk == given[ListOf(answer'.type)]
           IN  IF walk = <<>> THEN exited'
               ELSE ~exited' /\ answer'.script \subseteq {walk[Len(walk)]}]_<<newVars, walkVars>>
  <2>. SUFFICES ASSUME WalkInv, WalkNext, answer' # answer
                PROVE  LET walk == given[ListOf(answer'.type)]
                       IN  IF walk = <<>> THEN exited'
                           ELSE ~exited' /\ answer'.script \subseteq {walk[Len(walk)]}
    BY DEF walkVars
  <2>1. PICK type \in WalkTypes : ScriptGet(type)
    BY DEF WalkNext, WalkStep, walkVars, ScriptNext
  <2>2. /\ answer'.type = type
        /\ answer'.script = Current(type) \/ answer'.script = {}
        /\ exited' = (Current(type) = {})
    BY <2>1 DEF ScriptGet
  <2>. DEFINE walk == given[ListOf(type)]
  <2>3. CASE walk = <<>>
    <3>1. Current(type) = {}
      BY <2>3, CurrentIsLast
    <3>. QED BY <2>2, <2>3, <3>1, Zenon
  <2>4. CASE walk # <<>>
    <3>1. Current(type) = {walk[Len(walk)]}
      BY <2>4, CurrentIsLast
    <3>2. Current(type) # {} /\ answer'.script \subseteq {walk[Len(walk)]}
      BY <2>2, <3>1
    <3>. QED BY <2>2, <2>4, <3>2, Zenon
  <2>. QED BY <2>3, <2>4
<1>. QED BY <1>1, WalkAlways, PTL DEF WalkSpec, AnswersAreCurrent
=============================================================================
