------------------------------ MODULE QuviNew ------------------------------
(***************************************************************************)
(* quvi_new: the Lua state, the search for support scripts                 *)
(* (m_scan_scripts), the cURL session, libgcrypt and libproxy, each only   *)
(* when what came before it worked.                                        *)
(*                                                                         *)
(* The search goes through the directories of LIBQUVI_SCRIPTS_DIR, the     *)
(* current working directory and the two of the installation, once for     *)
(* each kind of script, in the order in which the file system lists them.  *)
(* A directory is named by its position in that search path.               *)
(***************************************************************************)
EXTENDS Naturals, Sequences, SequencesExt

CONSTANTS
  MaxEnvDirs,     \* bound: directories named by LIBQUVI_SCRIPTS_DIR
  Names,          \* file names
  Shas,           \* SHA1 hashes of file contents
  Installations   \* what the file system may hold: [files, common]

ASSUME MaxEnvDirsAssumption == MaxEnvDirs \in Nat

\* GlobType: the kinds of scripts, in the order they are searched for.
GlobType == <<"subtitle_export", "subtitle", "playlist", "media", "scan", "util">>
GlobCount == 6

\* A directory entry; ok: a *.lua file with the marker and the functions its
\* kind must have, whose ident does not accept the URL "http://foo".
File == [name : Names, sha : Shas, ok : BOOLEAN]

\* A directory; one that is not there cannot be opened.
Listing == [there : BOOLEAN, entries : SUBSET File]

Dir == 1 .. (MaxEnvDirs + 3)

\* The directories of each kind, and those with a subdirectory common/.
Installation == [files : [Dir \X (1 .. GlobCount) -> Listing], common : SUBSET Dir]

ASSUME InstallationsAssumption == Installations \subseteq Installation

Env == [dirs : 0 .. MaxEnvDirs, exclusive : BOOLEAN]

\* A script of a list: its hash, its file name, and where it was found.
Found == [sha : Shas, name : Names, dir : Dir]

NoScripts == <<"NO_SUBTITLE_EXPORT_SCRIPTS", "NO_SUBTITLE_SCRIPTS",
               "NO_PLAYLIST_SCRIPTS", "NO_MEDIA_SCRIPTS", "NO_SCAN_SCRIPTS",
               "NO_UTIL_SCRIPTS">>

Codes == {"OK", "LUA_INIT", "CURL_INIT", "GCRYPT_INIT", "PROXY_INIT"}
           \cup {NoScripts[k] : k \in 1 .. GlobCount}

VARIABLES
  env,      \* LIBQUVI_SCRIPTS_DIR and LIBQUVI_EXCLUSIVE_SCRIPTS_DIR
  disk,     \* the file system
  step,     \* how far quvi_new has come
  t,        \* the kind that is searched for
  dir,      \* the directory that is searched
  open,     \* whether it is open
  unread,   \* the entries g_dir_read_name has not returned yet
  scripts,  \* q->scripts: the list of each kind
  pkgpath,  \* the common/ directories added to Lua's package.path
  rc        \* q->status.rc

newVars == <<env, disk, step, t, dir, open, unread, scripts, pkgpath, rc>>

Steps == {"lua", "common", "scan", "curl", "gcrypt", "proxy", "done"}

NewTypeOK == /\ env \in Env
             /\ disk \in Installation
             /\ step \in Steps
             /\ t \in 1 .. GlobCount
             /\ dir \in Nat \ {0}
             /\ open \in BOOLEAN
             /\ open => dir \in Dir
             /\ unread \in SUBSET File
             /\ scripts \in [1 .. GlobCount -> Seq(Found)]
             /\ pkgpath \in Seq(Dir)
             /\ rc \in Codes
-----------------------------------------------------------------------------
\* _quvi_new and the environment at that moment.
NewInit == /\ env \in Env
           /\ disk \in Installations
           /\ step = "lua"
           /\ t = 1
           /\ dir = 1
           /\ open = FALSE
           /\ unread = {}
           /\ scripts = [k \in 1 .. GlobCount |-> <<>>]
           /\ pkgpath = <<>>
           /\ rc = "OK"

\* LIBQUVI_EXCLUSIVE_SCRIPTS_DIR has an effect when LIBQUVI_SCRIPTS_DIR is set.
OnlyEnv(e) == e.exclusive /\ e.dirs > 0

\* The number of directories that _glob_scripts searches.
PathLength(e) == IF OnlyEnv(e) THEN e.dirs ELSE e.dirs + 3

Fails(code) == step' = "done" /\ rc' = code

\* l_init.
LuaInit == /\ step = "lua"
           /\ \/ step' = "common" /\ UNCHANGED rc
              \/ Fails("LUA_INIT")
           /\ UNCHANGED <<env, disk, t, dir, open, unread, scripts, pkgpath>>

\* _dir_exists: the common/ of a directory, if it is there.
Common(d, common) == IF d \in common THEN <<d>> ELSE <<>>

\* _chk_common_scripts looks for LIBQUVI_SCRIPTS_DIR itself, as a whole, with
\* "/common" appended, once for each directory it names; then for the others.
EnvCommon(e, common) == IF e.dirs = 1 THEN Common(1, common) ELSE <<>>

OtherCommon(e, common) ==
  IF OnlyEnv(e) THEN <<>>
  ELSE Common(e.dirs + 1, common) \o Common(e.dirs + 2, common) \o Common(e.dirs + 3, common)

ChkCommonScripts ==
  /\ step = "common"
  /\ step' = "scan"
  /\ pkgpath' = EnvCommon(env, disk.common) \o OtherCommon(env, disk.common)
  /\ UNCHANGED <<env, disk, t, dir, open, unread, scripts, rc>>

\* Mutant: the search stays in the directory.
NextDirStays(d) == d

\* The loop over the directories of _glob_scripts.
NextDir(d) == d + 1

\* Mutant: the search ends at a directory that is not there.
SkipDirEnds(d) == PathLength(env) + 1

\* The return value of _glob_scripts_dir is not looked at.
SkipDir(d) == NextDir(d)

\* g_dir_open in _glob_scripts_dir; it returns at once when there is none.
OpenDir == /\ step = "scan"
           /\ ~open
           /\ dir <= PathLength(env)
           /\ LET listing == disk.files[<<dir, t>>]
              IN  IF listing.there
                  THEN open' = TRUE /\ unread' = listing.entries /\ UNCHANGED dir
                  ELSE dir' = SkipDir(dir) /\ UNCHANGED <<open, unread>>
           /\ UNCHANGED <<env, disk, step, t, scripts, pkgpath, rc>>

\* Mutant: the new script is only compared with the head of the list.
ChkDupHead(sha, list) == list # <<>> /\ Head(list).sha = sha

\* _chkdup_script.
ChkDup(sha, list) == \E i \in 1 .. Len(list) : list[i].sha = sha

\* Mutant: the older of two identical scripts is dropped.
AcceptNewer(f, list) ==
  IF ~f.ok THEN list
  ELSE <<[sha |-> f.sha, name |-> f.name, dir |-> dir]>>
         \o SelectSeq(list, LAMBDA s : s.sha # f.sha)

\* A valid script that is not a duplicate goes to the head of the list.
Accept(f, list) ==
  IF f.ok /\ ~ChkDup(f.sha, list)
  THEN <<[sha |-> f.sha, name |-> f.name, dir |-> dir]>> \o list
  ELSE list

ReadFile == /\ step = "scan"
            /\ open
            /\ \E f \in unread :
                 /\ unread' = unread \ {f}
                 /\ scripts' = [scripts EXCEPT ![t] = Accept(f, @)]
            /\ UNCHANGED <<env, disk, step, t, dir, open, pkgpath, rc>>

\* g_dir_close, and g_slist_reverse of the list: all of it, each time.
CloseDir == /\ step = "scan"
            /\ open
            /\ unread = {}
            /\ open' = FALSE
            /\ dir' = NextDir(dir)
            /\ scripts' = [scripts EXCEPT ![t] = Reverse(@)]
            /\ UNCHANGED <<env, disk, step, t, unread, pkgpath, rc>>

\* Mutant: the code is that of the next kind.
KindCodeOffByOne(k) == NoScripts[IF k < GlobCount THEN k + 1 ELSE k]

\* m_scan_scripts counts the codes up along with the kinds.
KindCode(k) == NoScripts[k]

\* Mutant: one kind too far.
MoreKindsTooFar(k) == k <= GlobCount

MoreKinds(k) == k < GlobCount

\* The loop of m_scan_scripts: the next kind, while there are scripts.
KindDone == /\ step = "scan"
            /\ ~open
            /\ dir > PathLength(env)
            /\ IF scripts[t] = <<>>
               THEN Fails(KindCode(t)) /\ UNCHANGED <<t, dir>>
               ELSE /\ UNCHANGED rc
                    /\ IF MoreKinds(t)
                       THEN t' = t + 1 /\ dir' = 1 /\ UNCHANGED step
                       ELSE step' = "curl" /\ UNCHANGED <<t, dir>>
            /\ UNCHANGED <<env, disk, open, unread, scripts, pkgpath>>

\* c_init, g_init and px_proxy_factory_new.
CurlInit   == /\ step = "curl"
              /\ (step' = "gcrypt" /\ UNCHANGED rc) \/ Fails("CURL_INIT")
              /\ UNCHANGED <<env, disk, t, dir, open, unread, scripts, pkgpath>>

GcryptInit == /\ step = "gcrypt"
              /\ (step' = "proxy" /\ UNCHANGED rc) \/ Fails("GCRYPT_INIT")
              /\ UNCHANGED <<env, disk, t, dir, open, unread, scripts, pkgpath>>

ProxyInit  == /\ step = "proxy"
              /\ Fails("OK") \/ Fails("PROXY_INIT")
              /\ UNCHANGED <<env, disk, t, dir, open, unread, scripts, pkgpath>>

Returned == step = "done" /\ UNCHANGED newVars

NewStep == \/ LuaInit
           \/ ChkCommonScripts
           \/ OpenDir
           \/ ReadFile
           \/ CloseDir
           \/ KindDone
           \/ CurlInit
           \/ GcryptInit
           \/ ProxyInit

NewNext == NewStep \/ Returned

NewSpec == NewInit /\ [][NewNext]_newVars
-----------------------------------------------------------------------------
\* What is on the disk: the hashes of the valid scripts of a kind in a directory.
ValidIn(d, k) == LET listing == disk.files[<<d, k>>]
                 IN  {f.sha : f \in {g \in listing.entries : listing.there /\ g.ok}}

ValidScripts(k) == UNION {ValidIn(d, k) : d \in 1 .. PathLength(env)}

\* dirs.dp: "The process will ignore identical (with the same sha1 hash)
\* scripts": no list of scripts holds two of them.
NoIdenticalScripts ==
  \A k \in 1 .. GlobCount : \A i, j \in 1 .. Len(scripts[k]) :
    i # j => scripts[k][i].sha # scripts[k][j].sha

\* Of identical scripts, the one of the directory that is searched first stays,
\* though every directory that is searched turns the list round.
FirstCopyIsKept ==
  \A k \in 1 .. GlobCount : \A i \in 1 .. Len(scripts[k]) :
    \A d \in Dir : d < scripts[k][i].dir => scripts[k][i].sha \notin ValidIn(d, k)

\* When quvi_new succeeds, every valid script of every directory searched is in
\* its list: neither a duplicate nor an invalid file hides another one.
NothingIsLost ==
  step = "done" /\ rc = "OK" =>
    \A k \in 1 .. GlobCount :
      {scripts[k][i].sha : i \in 1 .. Len(scripts[k])} = ValidScripts(k)

\* The code of a failed search names the first kind of which the searched
\* directories hold no valid script, and is only reported when there is one.
CodeNamesMissingKind ==
  step = "done" =>
    \A k \in 1 .. GlobCount :
      /\ rc = NoScripts[k] => /\ ValidScripts(k) = {}
                              /\ \A j \in 1 .. (k - 1) : ValidScripts(j) # {}
      /\ rc = "OK" => ValidScripts(k) # {}

\* quvi_new returns.
NewReturns == <>(step = "done")
=============================================================================
