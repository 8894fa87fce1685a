# A TLA+ verification project for libquvi

libquvi finds the media streams behind a URL. It is a C library without threads
whose difficulty lies elsewhere: four parties take turns on one library handle
and share its state. The *application* calls the C API; the *library* looks for
Lua scripts, runs them and drives libcurl; the *scripts*, written by third
parties, call back into C through `quvi.http.*`, `quvi.base64.*` and
`quvi.crypto.*`; and the application's *status
callback* is asked before and after every transfer and may refuse it. One cURL
easy handle with sticky options, one Lua state with one global table, and one
status (`q->status`) serve all of them, call after call, and each result handle
keeps cursors that both the application and the library move.

All source paths below are relative to `src/src/`.

## Inventory

| Component | State it keeps | Operations | What is hard | What makes it correct |
|---|---|---|---|---|
| Status (`_quvi_s.h`, `api/err*.c`) | `q->status.rc`, `errmsg` | assigned by every function, read by `quvi_errcode`, `quvi_errmsg`, and read back by the library | never cleared on entry; written by C, by script functions, by the callback's refusals | the code and its text belong to the call that reports them |
| cURL session (`curl/`) | sticky options of one easy handle, `q->http.headers` | `c_init`, `c_reset`, `c_fetch`, `c_resolve`, `c_http_metainfo`, `c_close` | what one transfer leaves behind is what the next starts from; freed memory that options go on naming | right method, live buffer, live header list, the application's agent |
| Network functions (`net/`) | none of their own | `n_fetch`, `n_resolve`, `n_http_metainfo` | the callback at both ends; partial failure | every outcome is reported, with its text |
| Script functions (`lua/quvi/`) | none of their own | `quvi.http.fetch/resolve/metainfo/header/cookie`, `quvi.base64.*`, `quvi.crypto.*` | re-entry into C in the middle of a call; `croak_if_error` | the dictionary tells the script what its call did |
| Matching and execution (`misc/match_*`, `lua/exec_*`) | the script tried, the handle being filled; the Lua global `parse` | resolve, `ident` of each script, `parse`, `export`, `goto_url` | the `parse` looked up is whatever was loaded last; restarts; errors in and outside `lua_pcall` | the script that accepted the URL parses it; success means a usable result |
| Scripts directory (`misc/scan_scripts.c`) | six lists of scripts, Lua's `package.path` | `m_scan_scripts`, part of `quvi_new` | nested loops, duplicates, lists turned round, codes counted up | lists complete and free of duplicates, the right failure code |
| Results (`api/media_*`, `subtitle_*`, `playlist_*`, `scan_*`) | lists and cursors | `_next`, `_reset`, `_get`, `_select`, `_choose_best`, `_free` | cursors shared by the library and the application; NULL both before and after the list | selections do not depend on where the cursor was |
| Crypto (`gcrypt/`) | one buffer per call | `quvi.crypto.encrypt/decrypt/hash` | padding of blocks | decrypting gives back what was encrypted |
| Script information (`api/script_next.c`, `script_get.c`) | five cursors in the library handle | `quvi_script_next`, `quvi_script_get` | two switches pick the list and the cursor; walks interleave | every walk gives each script once; an answer is about the script last stepped to |
| Lifecycle (`api/new.c`, `free.c`, `curl/init.c`, `close.c`, the `*_new` and `*_free` of every result) | what is allocated; the process-wide count of `curl_global_init` | `quvi_new`, `quvi_free`, making and freeing results, calls that allocate for themselves | failures half way, frees in any order, long jumps out of a call | every block is freed once, with the handle it belongs to |
| Strings, version, getters | none | conversions, copies | - | - |

`PROJECT.json` lists the components with what is and is not modelled, and under
`hazards` what in this code a test would hardly reach, each at its line.

## Modules

* **`QuviStatus`** - `q->status` as a value: a code and the *age* of the text
  (`empty`, written by an `earlier` call, or by the `current` one). Assigning a
  code and saving a text are different operators (`WithCode`, `Fail`), as they
  are different statements in the code.
* **`HttpSession`** - the abstract specification of the cURL session: the sticky
  options (`curl`), the header list (`headers`), what `quvi_set` chose (`opt`)
  and the transfer in progress (`xfer`). One action for the set-up of a transfer,
  one for its end, one for each thing a script or the application may do to the
  session. libcurl is external: `curl_easy_perform` is what happens between
  `Begin` and `End`.
* **`QuviCall`** (EXTENDS `HttpSession`) - the API calls. `control` says who
  runs; `req` is the call and how far it has come (`stage`); everything the C
  code does between two moves of another party is one action, because nothing
  can interleave with it. An action that begins a call is named for its function
  (`ParseNew`, `ExportNew`, `Supports`, `ScanNew`, `ResolveNew`, `MetainfoNew`,
  `FileExtNew`), `SetOption` and `Get` are calls that return at once; the
  script's moves are `BeginTransfer`, `RefuseTransfer`, `EndTransfer`, `Header`,
  `SetCookie`, `ScriptMetainfoSkipped`, `Base64`, `Crypto`; and what the C code
  makes of a script's outcome is an action per `lua_pcall` and result
  (`ResolveReturns`, `IdentRejects`, `ParseStarts`, `MediaParses`,
  `ScanReturns`, `ScriptRaises`, ...).
  `ReturnsGarbage` is a `luaL_error` outside a protected call, which ends the
  process. `failed` is a history variable: what has gone wrong since the call
  began.
* **`QuviNew`** - `quvi_new`, with the search for scripts directory by directory
  and file by file; a file is its name, its SHA1 and whether it is a valid script
  of its kind. `g_dir_read_name` returns files in any order.
* **`ScriptWalk`** (EXTENDS `QuviNew`) - what follows a successful `quvi_new`: the
  application walks the lists with `quvi_script_next` and asks about scripts with
  `quvi_script_get`. `given` is a history variable: what each walk has given so
  far. `quvi_script_get` without a current script reads through NULL, which ends
  the process (`exited`).
* **`Handles`** - the memory behind several handles at once. `heap` is the set of
  blocks, each named by its owner and the field that points to it; the
  constructors and destructors are sets of such fields, one pair for each kind,
  and an action is a call of the application with everything it allocates, frees
  and loses, the calls of its scripts included (`Transients`, `Releases`). `stray`
  records a free of what is not there, a use after a free, or a pointer
  overwritten; `globals` counts `curl_global_init`, which all library handles
  share. `lost` is what a `luaL_error` has jumped over: `Losing` says which of the
  script functions do that in an instance, or that a failed `crypto_new` has its
  message overwritten. `quvi.http.header` is not among them, since it frees its
  options before it can raise an error, and `quvi.http.cookie` only for a missing
  mode, for the same reason.
* **`Ownership`** - the abstract specification of the same: memory is held for
  whole handles, and a call gives one handle out, or takes one back, or neither.
  `Handles` implements it, with the set of owners of blocks for `held`.
* **`Results`** - the lists that scripts' dictionaries become, and their
  cursors. A cursor is a position, 0 for NULL; a regular expression is a relation
  between patterns and IDs. The loops of the code that build the lists and go
  through the IDs are recursive functions (`Kept`, `Prepended`, `StreamSelected`,
  `LangSelected`); the properties say what the lists and the selections are
  without them, by ways to match entries with places of the script's table
  (`InOrder`) and by the first ID that decides.
* **`Crypto`** - `gcrypt/crypto.c`, block by block: the scratch block and what is
  left in it, the padding, and how it is stripped. A script encrypts a text and
  decrypts what it got. libgcrypt is external: an enciphered block is opaque, and
  only deciphering opens it.
* **`QuviCallProofs`, `QuviReportProofs`, `QuviScriptProofs`, `QuviNewProofs`,
  `ScriptWalkProofs`, `HandlesProofs`, `ResultsProofs`, `CryptoProofs`** - the
  theorems, see below.
* **`MCQuviCall`, `MCQuviNew` (with the walks), `MCResults`, `MCHandles`** - values
  for the constants.

Definitions marked *Mutant* are not used: each is the form a plausible mistake in
the code would give to the definition that follows it, kept to show that the
property it is listed with (`mutants` in `PROJECT.json`) notices.

## Runs

| Run | Question | Bounds |
|---|---|---|
| `calls` | Are codes, texts, scripts and media handles right over every sequence of calls, and does every call return? | two scripts of each kind, two `quvi.*` calls and one `goto_url` in a call |
| `call_options` | Is the session right whenever a transfer runs, with `quvi_set` and cookies in play? Do the calls implement `HttpSession`? | one script of each kind, one header, one script call, one agent |
| `new` | Are the script lists complete, free of duplicates, failures named, and does the application see all of them when it walks? | a search path of up to four directories, four possible contents of each `media/`, any one of the other kinds missing; walks over two lists and with a type that is not in the enumeration |
| `handles` | Is memory freed once and with its handle, whatever the order of frees and however `quvi_new` fails? | two library handles and two result handles of any kind, one list of one script, one entry in a result, one `goto_url`, one call that loses memory (a `quvi.crypto.*` function that raises an error, or `quvi_new` with a file that is no script) |
| `results` | Do selections mean what they say from every cursor position? | up to three streams, two types of two languages, ID lists of up to three |
| `crypto` | Which texts come back from being encrypted and decrypted, and what do the others become? | texts of up to seven bytes in blocks of three; the two bytes of the padding and one other |

The number of calls is not bounded in any run: what a call leaves behind is part
of the state, so every sequence of calls is covered. Two scripts of a kind are
enough to have one that is passed over and one that is taken, one loaded before
and one after; two script calls are enough for the second to see what the first
left. `MaxGoto` bounds what the program does not bound (a hazard). In `crypto`,
seven bytes make two whole blocks and a short one; in blocks of three, the bytes
of the padding come first, in the middle and last. In `handles`, two of each sort
are enough to free in either order, and to have one library handle that failed
before `c_init` beside one that works; more lists, entries and losses only repeat
blocks under other names, and the theorems below are for any number of them. The
handles are symmetric, since nothing tells two of a sort apart (all properties of
that run are safety properties, so the symmetry is sound).

The other six runs each show a disagreement between the documentation and the
code, and are expected to find their property violated: `any_type_supports`
(quvi_supports forgets a type that accepted), `sessions_initialised` (quvi_free
of a handle whose quvi_new failed early takes libcurl's global initialisation
away from a handle in use), `result_is_own` (`quvi.http.header` returns the code
of an earlier call), `cookies_only_if_allowed` (cookies kept earlier are sent
after they have been forbidden), `headers_cleared` (the second scan script parses
with the headers of the first) and `reverse_the_process`
(decrypting cuts a text short at a byte 0x80). `PROJECT.json` quotes the lines.

### Disagreements without a run

Some further notes in the sources promise what the code does not do. The models
follow the code; the properties that touch these cases say so in their comments.

* **The user agent.** The notes on `quvi_media_new`, `quvi_playlist_new`,
  `quvi_subtitle_new` (`*_new.c:37-39`) and `quvi_scan_new` (`scan_new.c:71-74`)
  have the "default user-agent string restored". `c_reset` (`curl/reset.c:56`)
  restores the one the application has chosen, if it has, as the comment at
  `set.c:45` announces. `AgentIsHonoured` states what `set.c` says. In between,
  an application that goes back to `""` has no agent at all until the next
  `c_reset`, which is why the property allows both then.
* **Cookies.** The same notes and `doxy/glossary_termino.dp:27-36` have the cookies
  cleared by these calls; `c_reset` clears them only while cookies are allowed
  (`curl/reset.c:63`), and never switches the engine off. `ParseStartsClean`
  therefore speaks of cookies only while they are allowed. What follows when they
  are not is the finding of `cookies_only_if_allowed`.
* **The cursors of `quvi_subtitle_select`.** The note at `subtitle_select.c:118-119`
  says the call resets the list pointers of both types and languages, and the
  `*_reset` functions describe that as going back to the first one available. The
  code leaves both cursors on the language it returns, so a walk goes on behind
  it. `SubtitleSelectPicks` is about the language that is returned, and nothing is
  stated of where the cursors are left.
* **`common/`.** `doxy/env.dp:16` allows several directories in
  `LIBQUVI_SCRIPTS_DIR`, and `doxy/dirs.dp:12-15` has `common/` searched in each.
  `_chk_common_scripts` (`misc/scan_scripts.c:617-618`) builds the path from the
  whole variable, so with two directories or more none is found (`EnvCommon`).

### Fairness

`FairSpec` assumes weak fairness of `Progress`, every step of a call that is not
the application's: there are no threads, the code runs on the application's
thread, scripts are assumed to end and transfers to time out (libcurl's business
and that of the scripts). No fairness is assumed of the application. That calls
return is therefore about the library's own loops: over scripts, over kinds, over
`goto_url`. `FairWalkSpec` assumes the same of `quvi_new`, and nothing of the
walks that come after it.

The runs of `QuviCall` and `Results` have an action for the process that has
ended (`Exited`), `QuviNew` one for the handle that has been returned
(`Returned`), and `Crypto` one for the text that has come back (`Over`); in
`Handles` there is always a handle to make or to free. So deadlock is checked
everywhere.

## Proofs

TLAPS checks the following for every value of the constants, under the
assumptions the modules declare (numbers of scripts are positive, bounds are
natural numbers, the scripts with a `parse` are scripts, library handles and
result handles are different things, a block has at least two bytes in the modes
that cut a text into blocks, the two bytes of the padding differ, and what scripts
return are tables of entries of the expected kinds).

* **`QuviCallProofs`, the session** - `SessionTypeCorrect`, then the four safety
  properties `TransferMethod`, `BodyHasLiveSink`, `HeaderListIsLive` and
  `AgentIsHonoured` from one inductive invariant (`SessionInv`). `TransferMethod`
  speaks only of moments when a transfer runs, so the invariant adds what holds
  between transfers: the method is back to GET. That is what a fetch relies on,
  which never sets its method. `AgentIsHonoured` says which agent it is when the
  application has set one; when it has set none, or `""`, it says that the agent is
  the default or `""`, and not which.
* **`QuviCallProofs`, the calls** - `TypeCorrect`, then `CallsImplementSession`: `Spec`
  implements `SessionSpec`, action by action. The mapping is the identity, since
  `QuviCall` has the session's variables. So what is proved about the session
  holds of the calls (`CallsKeepSession`).
* **`QuviReportProofs`** - `ReportsAreExplained` and `ReportsHaveTheirText`. The
  properties hold only when the application has control, and are not inductive:
  in the middle of a call `q->status` may well be the one of an earlier call.
  The invariant (`CallInv`) says in which stages it may, which is where the
  argument is: the stages from which the code reads `rc` back (resolving) or
  returns without assigning it must be reached through an assignment.
  `l_load_util_script`'s QUVI_OK and quvi_supports's first assignment are what it
  rests on. Even there the text may be stale while an error is on its way to
  `lua_pcall`: `quvi.base64.encode` assigns the code and not the text.
* **`QuviScriptProofs`** - the right script, in the right state, to the right
  end. `ScriptInv` gives the stages each API function passes through and says
  that in the stages `ident`, `parse` and `scan` the global `parse` is that of the
  script at hand (`Loaded`): a `quvi.*` call, a `goto_url` or the next type of
  `quvi_supports` must pass through a new ident before the next parse.
  `OwnParseRuns` needs that every script file defines a `parse`, which quvi_new
  has only looked for with a regular expression; without it the property is
  false, and the theorem says so by its hypothesis. `MediaHasStream` adds that
  no transfer runs on its own behind a script, and `ParsesStartClean` that only
  `ParseStarts` begins a parse, behind a `c_reset`: no header, no HEAD, the chosen
  agent or the default, and no cookies while they are allowed. It is about
  media, playlist and subtitle scripts; what scan scripts leave to each other is
  the finding of `headers_cleared`.
* **`QuviNewProofs`** - `NewTypeCorrect`, and the four safety properties of the
  search, from one invariant (`SearchInv`) about a list in the middle of its
  directory: what of it is from earlier directories, what from this one, and
  which of the files read are covered by an entry with the same hash. The list is
  turned round after every directory, so the invariant speaks of its entries and
  their directories and never of their places.

* **`ScriptWalkProofs`** - `WalkTypeCorrect`, `WalksLeaveLists` (walking is a
  stutter of `QuviNew`, so `SearchInv` goes on to hold), then `WalksGiveAll` and
  `AnswersCurrent`. The invariant adds to `SearchInv` that what a walk has given
  is the part of its list up to the cursor (`GivenIsWalked`) and that no cursor
  has moved before quvi_new succeeded (`NotBefore`), since the lists still change
  until then. That all of the list is all valid scripts is `NothingIsLost` again.
* **`HandlesProofs`** - `HandlesTypeCorrect`, `HeapHeld`, `NeverStray`,
  `GlobalsCounted`, and `HandlesOwned`: `Handles` implements `Ownership`. The
  invariant (`HeldInv`) says what the heap *is*, not only what it may not be: the
  union of the blocks of every library handle as far as its quvi_new came, of
  every result handle with its entries, and of the losses. Freeing is right
  because each destructor names the fields its constructor allocates (`Pairs`)
  and blocks of different owners are different; a call that allocates for itself
  never meets what is there. `GlobalsCounted` holds until a handle is freed that
  never ran `c_init` (`spurious`): from then on the count is too low, which is the
  finding of `sessions_initialised`.
* **`CryptoProofs`** - `CryptoTypeCorrect`, `CiphertextsAreWhole`, `TextsComeBack`
  and `TextsArePrefixes`, for every text, alphabet and length of a block. The
  invariant follows the blocks by where they start: each enciphered block holds
  the text from there on and, in the modes that pad, the mark and zeros behind it
  (`Sealed`, `Plain`); what has been deciphered is the text read so far, or is
  shorter because a byte was taken for the mark (`Restored`). The argument is in
  `StrippedBlock`: in a block with padding the mark is never in the first place,
  so `_decrypt_blk`'s exception for the first byte never skips it, and the first
  mark it finds is either that of the padding or one in the text.

* **`ResultsProofs`** - one inductive invariant (`ResultInv`), and from it all
  six properties of the run: `ResultTypeCorrect`, `EntriesAreThereCorrect`,
  `StreamSelectCorrect`, `SubtitleSelectCorrect`, `FormatsAreOwnCorrect` and `ListsAreCompleteCorrect`, for tables, IDs, patterns
  and ID lists of any number and length. `ResultInv` adds to the properties that
  a selection is asked for only while a handle is held, that a type has its format
  and its languages from the *same* place of the table (`ListsFit`; `FormatsAreOwn`
  and `ListsAreComplete` each ask for a place of its own), and that `items` is a
  list. The work is in the loops, of which the prover knows nothing but a
  recursive definition. `RecursionExists` shows that there is such a function, so
  the definition can be unfolded one step at a time (the lemmas `...Runs`); what
  holds after every step follows by `UpTo`, an induction made from the fact that
  a set of numbers has a least element. Then: a dictionary that is collected by
  prepending and reversing is the dictionary in its order (`CollectFresh`), the
  entries kept are the places kept, each once (`KeptInOrder`), a scan script's
  URLs come behind the others turned round (`ScanStep`), and the two selections
  come to what the first deciding ID does (`Decided`, `LangDecided`). The cursor
  that is carried from one ID to the next is harmless because an ID without a
  match leaves it at NULL (`SelectStreamMiss`, `MatchIdIs`); that is why the
  selections do not depend on where it stood. That the default of
  `quvi_subtitle_select` is a language needs that no type is without one
  (`EntriesAreThere`), which `_chk_req_type` sees to.

Model-checked only: liveness (`CallsReturn`, `NewReturns`), which is beyond the
prover, and, of course, what the six runs that look for a violation find.

## Not modelled

* The strings: URLs, titles, headers, bodies, regular expressions, UTF-8. Where
  a decision hangs on one, the model has the decision.
* The Lua stack, and memory that runs out.
* A script that catches an error itself: when `pcall` in Lua swallows the `croak` of
  `quvi.base64.encode` (`encode.c:79-83`), a code is left without its text, which
  could be reported with an earlier text if nothing assigns the status again.
* A utility script that is missing or broken (the process ends).
* Hashes and keys, base64 and hexadecimal conversion, and a ciphertext that did
  not come from encrypting: what deciphering such bytes gives is libgcrypt's.
* The proxy. `CURLOPT_PROXY` is one more sticky option, but nothing else in the
  session reads or writes it, and no document says what should become of the
  proxy found for an earlier URL; it stands in the list of hazards without a
  property.
* What the getters copy out, version information, the message table behind
  `quvi_errmsg`: no state that a later call depends on.
* In `Handles`, an application that breaks the contract (freeing twice, using a
  result's network functions after quvi_free), and `g_malloc` failing, which ends
  the process.

## Plan

1. *Done*: status, session, calls; `quvi_new` and the walks over its lists;
   results; ciphers; handles and what is allocated for them; the theorems above.
2. What could follow: the merging of the handles of `Handles` with the calls of
   `QuviCall`, for what a script's error loses in the middle of each call; and
   the composition of `QuviCall` with `Results`, a handle behind each call that
   succeeds.
