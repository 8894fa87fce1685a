--------------------------- MODULE QuviNewProofs ---------------------------
(***************************************************************************)
(* Proofs about QuviNew, for every search path, every file system and      *)
(* every order in which the file system lists a directory.                 *)
(*                                                                         *)
(* The properties of the finished lists rest on an invariant of the search *)
(* itself: what has been read so far is in the list (Covered), and what is *)
(* in the list comes from the first directory that holds it (GoodList).    *)
(* Both are properties of the set of a list's entries, which the reversal  *)
(* at the end of each directory leaves alone.                              *)
(***************************************************************************)
EXTENDS QuviNew, TLAPS

Entries(list) == {list[i] : i \in 1 .. Len(list)}

ShasOf(list) == {list[i].sha : i \in 1 .. Len(list)}

Distinct(list) == \A i, j \in 1 .. Len(list) : i # j => list[i].sha # list[j].sha
-----------------------------------------------------------------------------
\* g_slist_reverse keeps the length, the entries and their being distinct.
LEMMA ReverseList ==
  ASSUME NEW list \in Seq(Found)
  PROVE  /\ Reverse(list) \in Seq(Found)
         /\ Entries(Reverse(list)) = Entries(list)
         /\ ShasOf(Reverse(list)) = ShasOf(list)
         /\ Distinct(list) => Distinct(Reverse(list))
<1> DEFINE r == Reverse(list)
           At(i) == Len(list) - i + 1
<1>1. /\ Len(list) \in Nat
      /\ \A i \in 1 .. Len(list) : list[i] \in Found
  OBVIOUS
<1>2. r = [i \in 1 .. Len(list) |-> list[At(i)]]
  BY DEF Reverse
<1>3. \A i \in 1 .. Len(list) : At(i) \in 1 .. Len(list) /\ At(At(i)) = i
  BY <1>1
<1>4. r \in Seq(Found) /\ Len(r) = Len(list)
  BY <1>1, <1>2, <1>3
<1>5. \A i \in 1 .. Len(list) : r[i] = list[At(i)] /\ list[i] = r[At(i)]
  BY <1>2, <1>3
<1> HIDE DEF r, At
<1>6. Entries(r) = Entries(list)
  BY <1>3, <1>4, <1>5 DEF Entries
<1>7. ShasOf(r) = ShasOf(list)
  BY <1>3, <1>4, <1>5 DEF ShasOf
<1>8. ASSUME Distinct(list), NEW i \in 1 .. Len(list), NEW j \in 1 .. Len(list), i # j
      PROVE  r[i].sha # r[j].sha
  <2>1. At(i) # At(j)
    BY <1>3, <1>8
  <2>2. QED
    BY <2>1, <1>3, <1>5, <1>8 DEF Distinct
<1>9. QED
  BY <1>4, <1>6, <1>7, <1>8 DEF r, Distinct

\* A script that is accepted is the only one of its hash.
LEMMA AcceptList ==
  ASSUME NEW list \in Seq(Found), NEW f \in File, dir \in Dir
  PROVE  /\ Accept(f, list) \in Seq(Found)
         /\ ShasOf(Accept(f, list)) = ShasOf(list) \cup (IF f.ok THEN {f.sha} ELSE {})
         /\ Entries(Accept(f, list)) \subseteq
              Entries(list) \cup {[sha |-> f.sha, name |-> f.name, dir |-> dir]}
         /\ (f.ok /\ f.sha \notin ShasOf(list)) \/ Accept(f, list) = list
         /\ Distinct(list) => Distinct(Accept(f, list))
<1> DEFINE new == [sha |-> f.sha, name |-> f.name, dir |-> dir]
           longer == <<new>> \o list
<1>1. new \in Found
  BY DEF File, Found
<1>2. /\ longer \in Seq(Found)
      /\ Len(longer) = Len(list) + 1
      /\ longer[1] = new
      /\ \A i \in 1 .. Len(list) : longer[i + 1] = list[i]
      /\ \A i \in 2 .. Len(longer) : longer[i] = list[i - 1]
  BY <1>1
<1>3. ChkDup(f.sha, list) <=> f.sha \in ShasOf(list)
  BY DEF ChkDup, ShasOf
<1>4. CASE ~f.ok \/ ChkDup(f.sha, list)
  <2>1. Accept(f, list) = list
    BY <1>4 DEF Accept
  <2>2. QED
    BY <2>1, <1>3, <1>4
<1>5. CASE f.ok /\ ~ChkDup(f.sha, list)
  <2>1. Accept(f, list) = longer
    BY <1>5 DEF Accept
  <2>2. new.sha = f.sha
    OBVIOUS
  <2> HIDE DEF longer, new
  <2>3. Len(list) \in Nat /\ \A i \in 1 .. Len(longer) : i = 1 \/ i - 1 \in 1 .. Len(list)
    BY <1>2
  <2>4. Entries(longer) = Entries(list) \cup {new}
    <3>1. \A i \in 1 .. Len(longer) : longer[i] \in Entries(list) \cup {new}
      <4>1. TAKE i \in 1 .. Len(longer)
      <4>2. CASE i = 1
        BY <1>2, <4>2
      <4>3. CASE i # 1
        <5>1. i - 1 \in 1 .. Len(list) /\ longer[i] = list[i - 1]
          BY <1>2, <2>3, <4>3
        <5>2. QED
          BY <5>1 DEF Entries
      <4>4. QED
        BY <4>2, <4>3
    <3>2. new \in Entries(longer)
      <4>1. 1 \in 1 .. Len(longer)
        BY <1>2, <2>3
      <4>2. QED
        BY <1>2, <4>1 DEF Entries
    <3>3. \A i \in 1 .. Len(list) : list[i] \in Entries(longer)
      <4>1. TAKE i \in 1 .. Len(list)
      <4>2. i + 1 \in 1 .. Len(longer) /\ longer[i + 1] = list[i]
        BY <1>2, <2>3
      <4>3. QED
        BY <4>2 DEF Entries
    <3>4. QED
      BY <3>1, <3>2, <3>3 DEF Entries
  <2>5. ShasOf(longer) = ShasOf(list) \cup {f.sha}
    <3>1. \A i \in 1 .. Len(longer) : longer[i].sha \in ShasOf(list) \cup {f.sha}
      BY <1>2, <2>2, <2>3 DEF ShasOf
    <3>2. f.sha \in ShasOf(longer)
      <4>1. 1 \in 1 .. Len(longer)
        BY <1>2, <2>3
      <4>2. QED
        BY <1>2, <2>2, <4>1 DEF ShasOf
    <3>3. \A i \in 1 .. Len(list) : list[i].sha \in ShasOf(longer)
      <4>1. TAKE i \in 1 .. Len(list)
      <4>2. i + 1 \in 1 .. Len(longer) /\ longer[i + 1].sha = list[i].sha
        BY <1>2, <2>3
      <4>3. QED
        BY <4>2 DEF ShasOf
    <3>4. QED
      BY <3>1, <3>2, <3>3 DEF ShasOf
  <2>6. ASSUME Distinct(list), NEW i \in 1 .. Len(longer), NEW j \in 1 .. Len(longer), i # j
        PROVE  longer[i].sha # longer[j].sha
    <3>1. \A k \in 1 .. Len(list) : list[k].sha # new.sha
      BY <1>3, <1>5, <2>2 DEF ShasOf
    <3>2. CASE i = 1
      <4>1. j - 1 \in 1 .. Len(list) /\ longer[j] = list[j - 1]
        BY <1>2, <2>3, <2>6, <3>2
      <4>2. QED
        BY <1>2, <3>1, <3>2, <4>1
    <3>3. CASE j = 1
      <4>1. i - 1 \in 1 .. Len(list) /\ longer[i] = list[i - 1]
        BY <1>2, <2>3, <2>6, <3>3
      <4>2. QED
        BY <1>2, <3>1, <3>3, <4>1
    <3>4. CASE i # 1 /\ j # 1
      <4>1. /\ i - 1 \in 1 .. Len(list) /\ longer[i] = list[i - 1]
            /\ j - 1 \in 1 .. Len(list) /\ longer[j] = list[j - 1]
            /\ i - 1 # j - 1
        BY <1>2, <2>3, <2>6, <3>4
      <4>2. QED
        BY <2>6, <4>1 DEF Distinct
    <3>5. QED
      BY <3>2, <3>3, <3>4
  <2>7. QED
    BY <1>2, <1>3, <1>5, <2>1, <2>4, <2>5, <2>6 DEF new, Distinct
<1>6. QED
  BY <1>4, <1>5
-----------------------------------------------------------------------------
(* The invariant of the search.                                             *)

\* The entries of a list are distinct; each is a valid script of a directory of
\* the search path, and no directory before that one holds it.
GoodList(list, k) ==
  /\ Distinct(list)
  /\ \A e \in Entries(list) :
       /\ e.dir \in 1 .. PathLength(env)
       /\ e.sha \in ValidIn(e.dir, k)
       /\ \A d \in Dir : d < e.dir => e.sha \notin ValidIn(d, k)

GoodLists == \A k \in 1 .. GlobCount : GoodList(scripts[k], k)

\* The scripts of a directory have been found.
Covered(d, k) == ValidIn(d, k) \subseteq ShasOf(scripts[k])

Complete(k) == \A d \in 1 .. PathLength(env) : Covered(d, k)

\* In the directories before this one everything has been found; in this one,
\* everything that has been read.
Position ==
  step = "scan" =>
    /\ \A d \in 1 .. PathLength(env) : d < dir => Covered(d, t)
    /\ open => /\ dir <= PathLength(env)
               /\ disk.files[<<dir, t>>].there
               /\ unread \subseteq disk.files[<<dir, t>>].entries
               /\ \A f \in disk.files[<<dir, t>>].entries \ unread :
                    f.ok => f.sha \in ShasOf(scripts[t])

\* The search for a kind is over, and it was not in vain.
AfterSearch == \/ step \in {"curl", "gcrypt", "proxy"}
               \/ step = "done" /\ rc \in {"OK", "CURL_INIT", "GCRYPT_INIT", "PROXY_INIT"}

Past(k) == k < t \/ AfterSearch

PastIsComplete ==
  \A k \in 1 .. GlobCount : Past(k) => Complete(k) /\ scripts[k] # <<>>

\* The search for a kind is over, and it was in vain.
FailedKind ==
  step = "done" => \A k \in 1 .. GlobCount :
    rc = NoScripts[k] => t = k /\ Complete(k) /\ scripts[k] = <<>>

\* Before the search.
Beginning == step \in {"lua", "common"} => t = 1 /\ dir = 1 /\ ~open

SearchInv == /\ NewTypeOK
             /\ GoodLists
             /\ Position
             /\ PastIsComplete
             /\ FailedKind
             /\ Beginning
-----------------------------------------------------------------------------
\* What a step leaves alone, and what follows from that.
LEMMA SameDisk ==
  ASSUME UNCHANGED <<env, disk>>
  PROVE  /\ PathLength(env)' = PathLength(env)
         /\ \A d, k : ValidIn(d, k)' = ValidIn(d, k)
BY DEF ValidIn

\* The search path has at most MaxEnvDirs + 3 directories.
LEMMA PathLengthBound ==
  ASSUME env \in Env
  PROVE  /\ PathLength(env) \in Nat
         /\ 1 .. PathLength(env) \subseteq Dir
BY MaxEnvDirsAssumption DEF Env, PathLength, OnlyEnv, Dir

\* What ValidIn says of one file.
LEMMA ValidFile ==
  ASSUME NEW d, NEW k
  PROVE  /\ \A f \in disk.files[<<d, k>>].entries :
              disk.files[<<d, k>>].there /\ f.ok => f.sha \in ValidIn(d, k)
         /\ \A sha \in ValidIn(d, k) :
              /\ disk.files[<<d, k>>].there
              /\ \E f \in disk.files[<<d, k>>].entries : f.ok /\ f.sha = sha
BY DEF ValidIn

\* The disk has a listing of each directory that is searched.
LEMMA ListingType ==
  ASSUME disk \in Installation, NEW d \in Dir, NEW k \in 1 .. GlobCount
  PROVE  disk.files[<<d, k>>] \in Listing
BY DEF Installation
-----------------------------------------------------------------------------
(* Type correctness.                                                        *)

\* quvi_new starts with values of the right types.
LEMMA TypeStart == NewInit => NewTypeOK
<1> SUFFICES ASSUME NewInit PROVE NewTypeOK
  OBVIOUS
<1>1. disk \in Installation
  BY InstallationsAssumption DEF NewInit
<1>2. scripts \in [1 .. GlobCount -> Seq(Found)] /\ pkgpath \in Seq(Dir)
  BY DEF NewInit
<1>3. 1 \in 1 .. GlobCount /\ 1 \in Nat \ {0} /\ {} \in SUBSET File
  BY DEF GlobCount
<1>4. env \in Env /\ step \in Steps /\ rc \in Codes /\ open \in BOOLEAN /\ ~open
  BY DEF NewInit, Steps, Codes
<1>5. t = 1 /\ dir = 1 /\ unread = {}
  BY DEF NewInit
<1>6. QED
  BY <1>1, <1>2, <1>3, <1>4, <1>5 DEF NewTypeOK

\* The code of a failed search is one of the codes.
LEMMA KindCodes ==
  \A k \in 1 .. GlobCount : KindCode(k) \in Codes
BY DEF KindCode, Codes

\* Every step keeps the types.
LEMMA TypeStep == NewTypeOK /\ [NewNext]_newVars => NewTypeOK'
<1> SUFFICES ASSUME NewTypeOK, [NewNext]_newVars PROVE NewTypeOK'
  OBVIOUS
<1> USE DEF NewTypeOK
<1>1. CASE LuaInit
  BY <1>1 DEF LuaInit, Fails, Steps, Codes
<1>2. CASE ChkCommonScripts
  <2>1. \A d \in Dir : Common(d, disk.common) \in Seq(Dir)
    BY DEF Common
  <2>2. env.dirs \in 0 .. MaxEnvDirs /\ {1, env.dirs + 1, env.dirs + 2, env.dirs + 3} \subseteq Dir
    BY MaxEnvDirsAssumption DEF Env, Dir
  <2>3. EnvCommon(env, disk.common) \in Seq(Dir)
    BY <2>1, <2>2 DEF EnvCommon
  <2>4. OtherCommon(env, disk.common) \in Seq(Dir)
    BY <2>1, <2>2 DEF OtherCommon
  <2>5. pkgpath' \in Seq(Dir)
    BY <1>2, <2>3, <2>4 DEF ChkCommonScripts
  <2>6. QED
    BY <1>2, <2>5 DEF ChkCommonScripts, Steps
<1>3. CASE OpenDir
  <2>1. dir \in Dir
    BY <1>3, PathLengthBound DEF OpenDir
  <2>2. disk.files[<<dir, t>>].entries \in SUBSET File
    BY <2>1, ListingType DEF Listing
  <2>3. CASE disk.files[<<dir, t>>].there
    BY <1>3, <2>1, <2>2, <2>3 DEF OpenDir
  <2>4. CASE ~disk.files[<<dir, t>>].there
    <3>1. dir' = dir + 1 /\ UNCHANGED <<open, unread>>
      BY <1>3, <2>4 DEF OpenDir, SkipDir, NextDir
    <3>2. ~open /\ UNCHANGED <<env, disk, step, t, scripts, pkgpath, rc>>
      BY <1>3 DEF OpenDir
    <3>3. QED
      BY <3>1, <3>2
  <2>5. QED
    BY <2>3, <2>4
<1>4. CASE ReadFile
  <2>1. PICK f \in unread : /\ unread' = unread \ {f}
                            /\ scripts' = [scripts EXCEPT ![t] = Accept(f, @)]
    BY <1>4 DEF ReadFile
  <2>2. scripts[t] \in Seq(Found) /\ f \in File /\ dir \in Dir
    BY <1>4, <2>1 DEF ReadFile
  <2>3. Accept(f, scripts[t]) \in Seq(Found)
    BY <2>2, AcceptList
  <2>4. QED
    BY <1>4, <2>1, <2>3 DEF ReadFile
<1>5. CASE CloseDir
  <2>1. Reverse(scripts[t]) \in Seq(Found)
    BY ReverseList
  <2>2. dir' = dir + 1 /\ open' = FALSE /\ scripts' = [scripts EXCEPT ![t] = Reverse(@)]
    BY <1>5 DEF CloseDir, NextDir
  <2>3. scripts' \in [1 .. GlobCount -> Seq(Found)]
    BY <2>1, <2>2
  <2>4. dir' \in Nat \ {0}
    BY <2>2
  <2>5. UNCHANGED <<env, disk, step, t, unread, pkgpath, rc>>
    BY <1>5 DEF CloseDir
  <2>6. QED
    BY <2>2, <2>3, <2>4, <2>5
<1>6. CASE KindDone
  <2>1. UNCHANGED <<env, disk, open, unread, scripts, pkgpath>> /\ ~open
    BY <1>6 DEF KindDone
  <2>2. CASE scripts[t] = <<>>
    <3>1. step' \in Steps /\ rc' \in Codes /\ UNCHANGED <<t, dir>>
      BY <1>6, <2>2, KindCodes DEF KindDone, Fails, Steps
    <3>2. QED
      BY <2>1, <3>1
  <2>3. CASE scripts[t] # <<>>
    <3>1. /\ rc' = rc /\ dir' \in {1, dir} /\ step' \in {step, "curl"}
          /\ t' = t \/ (t < GlobCount /\ t' = t + 1)
      BY <1>6, <2>3 DEF KindDone, MoreKinds
    <3>2. step' \in Steps /\ dir' \in Nat \ {0}
      BY <3>1 DEF Steps
    <3>3. t' \in 1 .. GlobCount
      BY <3>1 DEF GlobCount
    <3>4. QED
      BY <2>1, <3>1, <3>2, <3>3
  <2>4. QED
    BY <2>2, <2>3
<1>7. CASE CurlInit
  BY <1>7 DEF CurlInit, Fails, Steps, Codes
<1>8. CASE GcryptInit
  BY <1>8 DEF GcryptInit, Fails, Steps, Codes
<1>9. CASE ProxyInit
  BY <1>9 DEF ProxyInit, Fails, Steps, Codes
<1>10. CASE UNCHANGED newVars
  BY <1>10 DEF newVars
<1>11. QED
  BY <1>1, <1>2, <1>3, <1>4, <1>5, <1>6, <1>7, <1>8, <1>9, <1>10
     DEF NewNext, NewStep, Returned

\* The types of quvi_new's state, for every search path and file system.
THEOREM NewTypeCorrect == NewSpec => []NewTypeOK
<1>1. QED
  BY TypeStart, TypeStep, PTL DEF NewSpec
-----------------------------------------------------------------------------
(* The invariant of the search is inductive.                                *)

\* Before the search there is nothing in the lists.
LEMMA SearchStart == NewInit => SearchInv
<1> SUFFICES ASSUME NewInit PROVE SearchInv
  OBVIOUS
<1>1. NewTypeOK
  BY TypeStart
<1>2. GoodLists
  BY DEF NewInit, GoodLists, GoodList, Distinct, Entries
<1>3. Position /\ FailedKind /\ Beginning
  BY DEF NewInit, Position, FailedKind, Beginning
<1>4. PastIsComplete
  BY DEF NewInit, PastIsComplete, Past, AfterSearch, GlobCount
<1>5. QED
  BY <1>1, <1>2, <1>3, <1>4 DEF SearchInv

\* The lists stay good when neither they nor the disk change.
LEMMA SameLists ==
  ASSUME UNCHANGED <<env, disk, scripts>>
  PROVE  /\ GoodLists => GoodLists'
         /\ \A k \in 1 .. GlobCount : Complete(k) => Complete(k)'
         /\ \A d, k : Covered(d, k)' <=> Covered(d, k)
<1>1. \A d, k : Covered(d, k)' <=> Covered(d, k)
  BY SameDisk DEF Covered
<1>2. \A k : Complete(k)' <=> Complete(k)
  BY <1>1, SameDisk DEF Complete
<1>3. \A k \in 1 .. GlobCount : GoodList(scripts[k], k) => GoodList(scripts[k], k)'
  BY SameDisk DEF GoodList
<1>4. QED
  BY <1>1, <1>2, <1>3 DEF GoodLists

\* Neither the Lua state nor package.path has anything to do with the lists.
LEMMA BeginningStep == SearchInv /\ (LuaInit \/ ChkCommonScripts) => SearchInv'
<1> SUFFICES ASSUME SearchInv, LuaInit \/ ChkCommonScripts PROVE SearchInv'
  OBVIOUS
<1>1. /\ UNCHANGED <<env, disk, t, dir, open, scripts>>
      /\ step \in {"lua", "common"}
      /\ t = 1 /\ dir = 1 /\ ~open
      /\ (step' = "done" /\ rc' = "LUA_INIT") \/ step' \in {"common", "scan"}
  BY DEF LuaInit, ChkCommonScripts, Fails, SearchInv, Beginning
<1>2. NewTypeOK'
  BY TypeStep DEF SearchInv, NewNext, NewStep
<1>3. GoodLists'
  BY <1>1, SameLists DEF SearchInv
<1>4. Position' /\ Beginning'
  BY <1>1 DEF Position, Beginning
<1>5. ~AfterSearch'
  BY <1>1 DEF AfterSearch
<1>6. PastIsComplete'
  BY <1>1, <1>5 DEF PastIsComplete, Past, GlobCount
<1>7. FailedKind'
  BY <1>1 DEF FailedKind, NoScripts, GlobCount
<1>8. QED
  BY <1>2, <1>3, <1>4, <1>6, <1>7 DEF SearchInv

\* A directory that is not there is covered: it holds nothing.
LEMMA OpenDirStep == SearchInv /\ OpenDir => SearchInv'
<1> SUFFICES ASSUME SearchInv, OpenDir PROVE SearchInv'
  OBVIOUS
<1> DEFINE listing == disk.files[<<dir, t>>]
<1>1. /\ UNCHANGED <<env, disk, step, t, scripts, rc>>
      /\ step = "scan" /\ ~open /\ dir <= PathLength(env)
  BY DEF OpenDir
<1>2. NewTypeOK'
  BY TypeStep DEF SearchInv, NewNext, NewStep
<1>3. GoodLists'
  BY <1>1, SameLists DEF SearchInv
<1>4. PastIsComplete'
  <2>1. \A k : Past(k)' <=> Past(k)
    BY <1>1 DEF Past, AfterSearch
  <2>2. QED
    BY <1>1, <2>1, SameLists DEF SearchInv, PastIsComplete
<1>5. Position'
  <2>1. CASE listing.there
    <3>1. open' = TRUE /\ unread' = listing.entries /\ dir' = dir
      BY <2>1 DEF OpenDir
    <3>2. \A d \in 1 .. PathLength(env) : d < dir => Covered(d, t)
      BY <1>1 DEF SearchInv, Position
    <3>3. \A d \in 1 .. PathLength(env') : d < dir' => Covered(d, t)'
      BY <1>1, <3>1, <3>2, SameLists
    <3>4. QED
      BY <1>1, <2>1, <3>1, <3>3, SameDisk DEF Position
  <2>2. CASE ~listing.there
    <3>1. dir' = dir + 1 /\ open' = open
      BY <2>2 DEF OpenDir, SkipDir, NextDir
    <3>2. \A d \in 1 .. PathLength(env) : d < dir => Covered(d, t)
      BY <1>1 DEF SearchInv, Position
    <3>3. Covered(dir, t)
      BY <2>2, ValidFile DEF Covered
    <3>4. dir \in Nat
      BY DEF SearchInv, NewTypeOK
    <3>5. \A d \in 1 .. PathLength(env) : d < dir' => Covered(d, t)
      BY <3>1, <3>2, <3>3, <3>4
    <3>6. QED
      BY <1>1, <3>1, <3>5, SameLists, SameDisk DEF Position
  <2>3. QED
    BY <2>1, <2>2
<1>6. FailedKind' /\ Beginning'
  BY <1>1 DEF FailedKind, Beginning
<1>7. QED
  BY <1>2, <1>3, <1>4, <1>5, <1>6 DEF SearchInv

\* A new list of the kind that is searched for that has lost nothing.
LEMMA OtherLists ==
  ASSUME SearchInv, step = "scan", NEW list, ShasOf(scripts[t]) \subseteq ShasOf(list),
         scripts' = [scripts EXCEPT ![t] = list],
         UNCHANGED <<env, disk, step, t>>
  PROVE  /\ \A k \in 1 .. GlobCount : k # t => scripts'[k] = scripts[k]
         /\ scripts'[t] = list
         /\ \A d : Covered(d, t) => Covered(d, t)'
         /\ GoodList(list, t) => GoodLists'
         /\ PastIsComplete'
<1>1. /\ \A k \in 1 .. GlobCount : k # t => scripts'[k] = scripts[k]
      /\ scripts'[t] = list
  BY DEF SearchInv, NewTypeOK
<1>2. \A d : Covered(d, t) => Covered(d, t)'
  BY <1>1, SameDisk DEF Covered
<1>3. ASSUME GoodList(list, t) PROVE GoodLists'
  <2>1. \A k \in 1 .. GlobCount : GoodList(scripts'[k], k)
    BY <1>1, <1>3 DEF SearchInv, GoodLists
  <2>2. \A k \in 1 .. GlobCount : GoodList(scripts[k], k)'
    BY <2>1, SameDisk DEF GoodList
  <2>3. QED
    BY <2>2 DEF GoodLists
<1>4. PastIsComplete'
  <2>1. SUFFICES ASSUME NEW k \in 1 .. GlobCount, Past(k)'
                 PROVE  Complete(k)' /\ scripts'[k] # <<>>
    BY DEF PastIsComplete
  <2>2. Past(k) /\ k # t
    BY <2>1 DEF Past, AfterSearch, SearchInv, NewTypeOK
  <2>3. Complete(k) /\ scripts[k] # <<>> /\ scripts'[k] = scripts[k]
    BY <1>1, <2>2 DEF SearchInv, PastIsComplete
  <2>4. Complete(k)'
    BY <2>3, SameDisk DEF Complete, Covered
  <2>5. QED
    BY <2>3, <2>4
<1>5. QED
  BY <1>1, <1>2, <1>3, <1>4

\* A script that is accepted is in no earlier directory: all of those are
\* covered, so the list would hold it already.
LEMMA AcceptIsGood ==
  ASSUME SearchInv, step = "scan", open, NEW f \in unread
  PROVE  GoodList(Accept(f, scripts[t]), t)
<1> DEFINE list == scripts[t]
           new == [sha |-> f.sha, name |-> f.name, dir |-> dir]
<1>1. list \in Seq(Found) /\ f \in File /\ dir \in Dir /\ t \in 1 .. GlobCount
  BY DEF SearchInv, NewTypeOK
<1>2. GoodList(list, t)
  BY <1>1 DEF SearchInv, GoodLists
<1>3. CASE Accept(f, list) = list
  BY <1>2, <1>3
<1>4. CASE Accept(f, list) # list
  <2>1. /\ f.ok /\ f.sha \notin ShasOf(list)
        /\ Distinct(Accept(f, list))
        /\ Entries(Accept(f, list)) \subseteq Entries(list) \cup {new}
    BY <1>1, <1>2, <1>4, AcceptList DEF GoodList
  <2>2. /\ dir <= PathLength(env)
        /\ disk.files[<<dir, t>>].there
        /\ unread \subseteq disk.files[<<dir, t>>].entries
        /\ \A d \in 1 .. PathLength(env) : d < dir => Covered(d, t)
    BY DEF SearchInv, Position
  <2>3. PathLength(env) \in Nat /\ dir \in 1 .. PathLength(env) /\ Dir \subseteq Nat \ {0}
    BY <1>1, <2>2, PathLengthBound, MaxEnvDirsAssumption DEF SearchInv, NewTypeOK, Dir
  <2>4. f.sha \in ValidIn(dir, t)
    BY <2>1, <2>2, ValidFile
  <2>5. \A d \in Dir : d < dir => f.sha \notin ValidIn(d, t)
    <3>1. SUFFICES ASSUME NEW d \in Dir, d < dir PROVE f.sha \notin ValidIn(d, t)
      OBVIOUS
    <3>2. d \in 1 .. PathLength(env)
      BY <2>3, <3>1
    <3>3. Covered(d, t)
      BY <2>2, <3>1, <3>2
    <3>4. QED
      BY <2>1, <3>3 DEF Covered
  <2>6. new.dir = dir /\ new.sha = f.sha
    OBVIOUS
  <2> HIDE DEF new, list
  <2>7. \A e \in Entries(Accept(f, list)) : e \in Entries(list) \/ e = new
    BY <2>1
  <2>8. \A e \in Entries(list) :
          /\ e.dir \in 1 .. PathLength(env)
          /\ e.sha \in ValidIn(e.dir, t)
          /\ \A d \in Dir : d < e.dir => e.sha \notin ValidIn(d, t)
    BY <1>2 DEF GoodList
  <2>9. \A e \in Entries(Accept(f, list)) :
          /\ e.dir \in 1 .. PathLength(env)
          /\ e.sha \in ValidIn(e.dir, t)
          /\ \A d \in Dir : d < e.dir => e.sha \notin ValidIn(d, t)
    BY <2>3, <2>4, <2>5, <2>6, <2>7, <2>8
  <2>10. GoodList(Accept(f, list), t)
    BY <2>1, <2>9 DEF GoodList
  <2>11. QED
    BY <2>10 DEF list
<1>5. QED
  BY <1>3, <1>4

\* What has been read is in the list: accepted now, or before.
LEMMA ReadFileStep == SearchInv /\ ReadFile => SearchInv'
<1> SUFFICES ASSUME SearchInv, ReadFile PROVE SearchInv'
  OBVIOUS
<1>1. /\ UNCHANGED <<env, disk, step, t, dir, open, rc>>
      /\ step = "scan" /\ open
  BY DEF ReadFile
<1>2. PICK f \in unread : /\ unread' = unread \ {f}
                          /\ scripts' = [scripts EXCEPT ![t] = Accept(f, @)]
  BY DEF ReadFile
<1> DEFINE list == Accept(f, scripts[t])
<1>3. scripts[t] \in Seq(Found) /\ f \in File /\ dir \in Dir /\ t \in 1 .. GlobCount
  BY <1>1 DEF SearchInv, NewTypeOK
<1>4. ShasOf(list) = ShasOf(scripts[t]) \cup (IF f.ok THEN {f.sha} ELSE {})
  BY <1>3, AcceptList
<1>5. GoodList(list, t)
  BY <1>1, AcceptIsGood
<1>6. scripts' = [scripts EXCEPT ![t] = list]
  BY <1>2
<1> HIDE DEF list
<1>7. /\ scripts'[t] = list
      /\ \A d : Covered(d, t) => Covered(d, t)'
      /\ GoodLists'
      /\ PastIsComplete'
  BY <1>1, <1>4, <1>5, <1>6, OtherLists
<1>8. NewTypeOK'
  BY TypeStep DEF SearchInv, NewNext, NewStep
<1>9. Position'
  <2>1. \A d \in 1 .. PathLength(env) : d < dir => Covered(d, t)'
    BY <1>1, <1>7 DEF SearchInv, Position
  <2>2. /\ dir <= PathLength(env)
        /\ disk.files[<<dir, t>>].there
        /\ unread' \subseteq disk.files[<<dir, t>>].entries
    BY <1>1, <1>2 DEF SearchInv, Position
  <2>3. \A g \in disk.files[<<dir, t>>].entries \ unread' :
          g.ok => g.sha \in ShasOf(list)
    <3>1. SUFFICES ASSUME NEW g \in disk.files[<<dir, t>>].entries \ unread', g.ok
                   PROVE  g.sha \in ShasOf(list)
      OBVIOUS
    <3>2. CASE g = f
      BY <1>4, <3>1, <3>2
    <3>3. CASE g # f
      <4>1. g \in disk.files[<<dir, t>>].entries \ unread
        BY <1>2, <3>1, <3>3
      <4>2. g.sha \in ShasOf(scripts[t])
        BY <1>1, <3>1, <4>1 DEF SearchInv, Position
      <4>3. QED
        BY <1>4, <4>2
    <3>4. QED
      BY <3>2, <3>3
  <2>4. QED
    BY <1>1, <1>7, <2>1, <2>2, <2>3, SameDisk DEF Position
<1>10. FailedKind' /\ Beginning'
  BY <1>1 DEF FailedKind, Beginning
<1>11. QED
  BY <1>7, <1>8, <1>9, <1>10 DEF SearchInv

\* A directory without unread entries is covered.
LEMMA CloseDirStep == SearchInv /\ CloseDir => SearchInv'
<1> SUFFICES ASSUME SearchInv, CloseDir PROVE SearchInv'
  OBVIOUS
<1> DEFINE list == Reverse(scripts[t])
<1>1. /\ UNCHANGED <<env, disk, step, t, unread, rc>>
      /\ step = "scan" /\ open /\ unread = {} /\ ~open'
      /\ dir' = dir + 1
      /\ scripts' = [scripts EXCEPT ![t] = list]
  BY DEF CloseDir, NextDir
<1>2. scripts[t] \in Seq(Found) /\ dir \in Nat /\ t \in 1 .. GlobCount
  BY DEF SearchInv, NewTypeOK
<1>3. /\ Entries(list) = Entries(scripts[t])
      /\ ShasOf(list) = ShasOf(scripts[t])
      /\ Distinct(scripts[t]) => Distinct(list)
  BY <1>2, ReverseList
<1> HIDE DEF list
<1>4. GoodList(list, t)
  BY <1>2, <1>3 DEF SearchInv, GoodLists, GoodList
<1>5. /\ \A d : Covered(d, t) => Covered(d, t)'
      /\ GoodLists'
      /\ PastIsComplete'
  BY <1>1, <1>3, <1>4, OtherLists
<1>6. NewTypeOK'
  BY TypeStep DEF SearchInv, NewNext, NewStep
<1>7. Position'
  <2>1. \A d \in 1 .. PathLength(env) : d < dir => Covered(d, t)
    BY <1>1 DEF SearchInv, Position
  <2>2. Covered(dir, t)
    <3>1. \A f \in disk.files[<<dir, t>>].entries : f.ok => f.sha \in ShasOf(scripts[t])
      BY <1>1 DEF SearchInv, Position
    <3>2. QED
      BY <3>1, ValidFile DEF Covered
  <2>3. \A d \in 1 .. PathLength(env) : d < dir + 1 => Covered(d, t)'
    BY <1>2, <1>5, <2>1, <2>2
  <2>4. QED
    BY <1>1, <2>3, SameDisk DEF Position
<1>8. FailedKind' /\ Beginning'
  BY <1>1 DEF FailedKind, Beginning
<1>9. QED
  BY <1>5, <1>6, <1>7, <1>8 DEF SearchInv

\* The codes of the kinds tell them apart, and from the other codes.
LEMMA CodesOfKinds ==
  /\ \A j, k \in 1 .. GlobCount : NoScripts[j] = NoScripts[k] => j = k
  /\ \A k \in 1 .. GlobCount :
       NoScripts[k] \notin {"OK", "LUA_INIT", "CURL_INIT", "GCRYPT_INIT", "PROXY_INIT"}
BY DEF NoScripts, GlobCount

\* Behind the last directory the list of the kind is complete.
LEMMA KindDoneStep == SearchInv /\ KindDone => SearchInv'
<1> SUFFICES ASSUME SearchInv, KindDone PROVE SearchInv'
  OBVIOUS
<1>1. /\ UNCHANGED <<env, disk, open, scripts>>
      /\ step = "scan" /\ ~open /\ dir > PathLength(env)
      /\ t \in 1 .. GlobCount /\ dir \in Nat /\ PathLength(env) \in Nat
  BY PathLengthBound DEF KindDone, SearchInv, NewTypeOK
<1>2. NewTypeOK'
  BY TypeStep DEF SearchInv, NewNext, NewStep
<1>3. GoodLists'
  BY <1>1, SameLists DEF SearchInv
<1>4. Complete(t)
  BY <1>1 DEF SearchInv, Position, Complete
<1>5. \A k \in 1 .. GlobCount : k < t => Complete(k) /\ scripts[k] # <<>>
  BY DEF SearchInv, PastIsComplete, Past
<1>6. CASE scripts[t] = <<>>
  <2>1. step' = "done" /\ rc' = NoScripts[t] /\ t' = t
    BY <1>6 DEF KindDone, Fails, KindCode
  <2>2. ~AfterSearch'
    BY <1>1, <2>1, CodesOfKinds DEF AfterSearch
  <2>3. PastIsComplete'
    BY <1>1, <1>5, <2>1, <2>2, SameLists DEF PastIsComplete, Past
  <2>4. FailedKind'
    BY <1>1, <1>4, <1>6, <2>1, CodesOfKinds, SameLists DEF FailedKind
  <2>5. Position' /\ Beginning'
    BY <2>1 DEF Position, Beginning
  <2>6. QED
    BY <1>2, <1>3, <2>3, <2>4, <2>5 DEF SearchInv
<1>7. CASE scripts[t] # <<>> /\ t < GlobCount
  <2>1. step' = "scan" /\ t' = t + 1 /\ dir' = 1
    BY <1>1, <1>7 DEF KindDone, MoreKinds
  <2>2. \A k \in 1 .. GlobCount : Past(k)' => k < t \/ k = t
    BY <1>1, <2>1 DEF Past, AfterSearch, GlobCount
  <2>3. PastIsComplete'
    BY <1>1, <1>4, <1>5, <1>7, <2>2, SameLists DEF PastIsComplete
  <2>4. Position'
    BY <1>1, <2>1 DEF Position
  <2>5. FailedKind' /\ Beginning'
    BY <2>1 DEF FailedKind, Beginning
  <2>6. QED
    BY <1>2, <1>3, <2>3, <2>4, <2>5 DEF SearchInv
<1>8. CASE scripts[t] # <<>> /\ t = GlobCount
  <2>1. step' = "curl" /\ t' = t
    BY <1>8 DEF KindDone, MoreKinds, GlobCount
  <2>2. \A k \in 1 .. GlobCount : k < t \/ k = t
    BY <1>8 DEF GlobCount
  <2>3. PastIsComplete'
    BY <1>1, <1>4, <1>5, <1>8, <2>2, SameLists DEF PastIsComplete
  <2>4. Position' /\ FailedKind' /\ Beginning'
    BY <2>1 DEF Position, FailedKind, Beginning
  <2>5. QED
    BY <1>2, <1>3, <2>3, <2>4 DEF SearchInv
<1>9. QED
  BY <1>1, <1>6, <1>7, <1>8 DEF GlobCount

\* After the search nothing of it changes.
LEMMA InitStep == SearchInv /\ (CurlInit \/ GcryptInit \/ ProxyInit) => SearchInv'
<1> SUFFICES ASSUME SearchInv, CurlInit \/ GcryptInit \/ ProxyInit PROVE SearchInv'
  OBVIOUS
<1>1. /\ UNCHANGED <<env, disk, t, dir, open, scripts>>
      /\ AfterSearch
      /\ \/ step' \in {"gcrypt", "proxy"}
         \/ step' = "done" /\ rc' \in {"OK", "CURL_INIT", "GCRYPT_INIT", "PROXY_INIT"}
  BY DEF CurlInit, GcryptInit, ProxyInit, Fails, AfterSearch
<1>2. NewTypeOK'
  BY TypeStep DEF SearchInv, NewNext, NewStep
<1>3. GoodLists'
  BY <1>1, SameLists DEF SearchInv
<1>4. PastIsComplete'
  BY <1>1, SameLists DEF SearchInv, PastIsComplete, Past
<1>5. FailedKind'
  BY <1>1, CodesOfKinds DEF FailedKind
<1>6. Position' /\ Beginning'
  BY <1>1 DEF Position, Beginning
<1>7. QED
  BY <1>2, <1>3, <1>4, <1>5, <1>6 DEF SearchInv

\* A step that changes nothing keeps the invariant.
LEMMA SearchStutter == SearchInv /\ UNCHANGED newVars => SearchInv'
<1> SUFFICES ASSUME SearchInv, UNCHANGED newVars PROVE SearchInv'
  OBVIOUS
<1>1. UNCHANGED <<env, disk, step, t, dir, open, unread, scripts, pkgpath, rc>>
  BY DEF newVars
<1>2. NewTypeOK'
  BY <1>1, TypeStep DEF SearchInv
<1>3. GoodLists' /\ (\A k \in 1 .. GlobCount : Complete(k) => Complete(k)')
  BY <1>1, SameLists DEF SearchInv
<1>4. PastIsComplete' /\ FailedKind'
  BY <1>1, <1>3 DEF SearchInv, PastIsComplete, Past, AfterSearch, FailedKind
<1>5. Position'
  BY <1>1, SameLists, SameDisk DEF SearchInv, Position
<1>6. Beginning'
  BY <1>1 DEF SearchInv, Beginning
<1>7. QED
  BY <1>2, <1>3, <1>4, <1>5, <1>6 DEF SearchInv

\* Every step of quvi_new keeps the invariant.
LEMMA SearchStep == SearchInv /\ [NewNext]_newVars => SearchInv'
<1>1. QED
  BY BeginningStep, OpenDirStep, ReadFileStep, CloseDirStep, KindDoneStep, InitStep,
     SearchStutter
     DEF NewNext, NewStep, Returned

\* The invariant of the search holds throughout.
THEOREM SearchInvariant == NewSpec => []SearchInv
<1>1. QED
  BY SearchStart, SearchStep, PTL DEF NewSpec
-----------------------------------------------------------------------------
(* What the invariant says of the finished lists.                           *)

\* dirs.dp: "ignore identical scripts": no list ever holds two of the same hash.
THEOREM ListsHaveNoCopies == NewSpec => []NoIdenticalScripts
<1>1. SearchInv => NoIdenticalScripts
  BY DEF SearchInv, GoodLists, GoodList, Distinct, NoIdenticalScripts
<1>2. QED
  BY SearchInvariant, <1>1, PTL

\* A script of a list is never one that a directory searched earlier also holds.
THEOREM EarlierDirectoryWins == NewSpec => []FirstCopyIsKept
<1>1. SearchInv => FirstCopyIsKept
  <2> SUFFICES ASSUME SearchInv, NEW k \in 1 .. GlobCount, NEW i \in 1 .. Len(scripts[k]),
                      NEW d \in Dir, d < scripts[k][i].dir
               PROVE  scripts[k][i].sha \notin ValidIn(d, k)
    BY DEF FirstCopyIsKept
  <2>1. scripts[k][i] \in Entries(scripts[k])
    BY DEF Entries
  <2>2. QED
    BY <2>1 DEF SearchInv, GoodLists, GoodList
<1>2. QED
  BY SearchInvariant, <1>1, PTL

\* The scripts of a kind whose search is over are those the directories hold.
LEMMA CompleteList ==
  ASSUME SearchInv, NEW k \in 1 .. GlobCount, Complete(k)
  PROVE  ShasOf(scripts[k]) = ValidScripts(k)
<1>1. ValidScripts(k) \subseteq ShasOf(scripts[k])
  BY DEF Complete, Covered, ValidScripts
<1>2. ASSUME NEW i \in 1 .. Len(scripts[k])
      PROVE  scripts[k][i].sha \in ValidScripts(k)
  <2>1. scripts[k][i] \in Entries(scripts[k])
    BY DEF Entries
  <2>2. /\ scripts[k][i].dir \in 1 .. PathLength(env)
        /\ scripts[k][i].sha \in ValidIn(scripts[k][i].dir, k)
    BY <2>1 DEF SearchInv, GoodLists, GoodList
  <2>3. QED
    BY <2>2 DEF ValidScripts
<1>3. ShasOf(scripts[k]) \subseteq ValidScripts(k)
  BY <1>2 DEF ShasOf
<1>4. QED
  BY <1>1, <1>3

\* When quvi_new succeeds, every valid script of the directories is in its list.
THEOREM EveryScriptIsFound == NewSpec => []NothingIsLost
<1>1. SearchInv => NothingIsLost
  <2> SUFFICES ASSUME SearchInv, step = "done", rc = "OK", NEW k \in 1 .. GlobCount
               PROVE  ShasOf(scripts[k]) = ValidScripts(k)
    BY DEF NothingIsLost, ShasOf
  <2>1. Complete(k)
    BY DEF SearchInv, PastIsComplete, Past, AfterSearch
  <2>2. QED
    BY <2>1, CompleteList
<1>2. QED
  BY SearchInvariant, <1>1, PTL

\* The code of a failed search names the first kind without a valid script.
THEOREM CodeIsOfMissingKind == NewSpec => []CodeNamesMissingKind
<1>1. ASSUME SearchInv, NEW k \in 1 .. GlobCount
      PROVE  /\ Complete(k) /\ scripts[k] = <<>> => ValidScripts(k) = {}
             /\ Complete(k) /\ scripts[k] # <<>> => ValidScripts(k) # {}
  <2>1. scripts[k] \in Seq(Found)
    BY <1>1 DEF SearchInv, NewTypeOK
  <2>2. scripts[k] = <<>> <=> ShasOf(scripts[k]) = {}
    <3>1. CASE scripts[k] = <<>>
      BY <3>1 DEF ShasOf
    <3>2. CASE scripts[k] # <<>>
      <4>1. 1 \in 1 .. Len(scripts[k])
        BY <2>1, <3>2
      <4>2. QED
        BY <3>2, <4>1 DEF ShasOf
    <3>3. QED
      BY <3>1, <3>2
  <2>3. QED
    BY <1>1, <2>2, CompleteList
<1>2. SearchInv => CodeNamesMissingKind
  <2> SUFFICES ASSUME SearchInv, step = "done", NEW k \in 1 .. GlobCount
               PROVE  /\ rc = NoScripts[k] => /\ ValidScripts(k) = {}
                                              /\ \A j \in 1 .. (k - 1) : ValidScripts(j) # {}
                      /\ rc = "OK" => ValidScripts(k) # {}
    BY DEF CodeNamesMissingKind
  <2>1. ASSUME rc = NoScripts[k]
        PROVE  ValidScripts(k) = {} /\ \A j \in 1 .. (k - 1) : ValidScripts(j) # {}
    <3>1. t = k /\ Complete(k) /\ scripts[k] = <<>>
      BY <2>1 DEF SearchInv, FailedKind
    <3>2. \A j \in 1 .. (k - 1) : j \in 1 .. GlobCount /\ j < t
      BY <3>1 DEF GlobCount
    <3>3. \A j \in 1 .. (k - 1) : Complete(j) /\ scripts[j] # <<>>
      BY <3>2 DEF SearchInv, PastIsComplete, Past
    <3>4. QED
      BY <1>1, <3>1, <3>2, <3>3
  <2>2. ASSUME rc = "OK" PROVE ValidScripts(k) # {}
    <3>1. Complete(k) /\ scripts[k] # <<>>
      BY <2>2 DEF SearchInv, PastIsComplete, Past, AfterSearch
    <3>2. QED
      BY <1>1, <3>1
  <2>3. QED
    BY <2>1, <2>2
<1>3. QED
  BY SearchInvariant, <1>2, PTL
=============================================================================
