------------------------------ MODULE Results ------------------------------
(***************************************************************************)
(* What a call hands to the application: the media streams, subtitles,     *)
(* playlist media and media URLs that the scripts returned, and the        *)
(* functions that walk through them and select from them.                  *)
(*                                                                         *)
(* Each list has one cursor (a curr pointer), which every function of the  *)
(* handle moves: 0 is NULL.  Handles share nothing but q->status.rc, so    *)
(* the application holds one of them at a time here.                       *)
(***************************************************************************)
EXTENDS Integers, Sequences, SequencesExt

CONSTANTS
  Ids,             \* IDs of streams and languages
  Formats,         \* subtitle formats (qargs.subtitles.format)
  Matching,        \* m_match: the <<pattern, id>> that match
  MediaTables,     \* what media scripts return as qargs.streams,
  SubtitleTables,  \* subtitle scripts as qargs.subtitles,
  PlaylistTables,  \* playlist scripts as qargs.media,
  ScanRuns,        \* and the scan scripts, in turn, as qargs.media_url
  IdLists          \* the ID lists the application selects with

Dropped         == [table : {FALSE}]   \* an entry that is no table is passed over
MediaEntries    == Dropped \cup [table : {TRUE}, url : BOOLEAN, id : Ids, best : BOOLEAN]
SubtitleEntries == Dropped \cup [table : {TRUE}, complete : BOOLEAN,
                                 langs : Seq(Ids), format : Formats]
PlaylistEntries == Dropped \cup [table : {TRUE}, url : BOOLEAN, id : Ids]
ScanEntries     == [string : {FALSE}] \cup [string : {TRUE}, url : STRING]

ASSUME TablesAssumption == /\ MediaTables \subseteq Seq(MediaEntries)
                           /\ SubtitleTables \subseteq Seq(SubtitleEntries)
                           /\ PlaylistTables \subseteq Seq(PlaylistEntries)
                           /\ ScanRuns \subseteq Seq(Seq(ScanEntries))
ASSUME IdListsAssumption == IdLists \subseteq Seq(STRING)

Keywords == {"croak", "best"}

Codes == {"OK", "KEYWORD_CROAK", "INVALID_ARG"}

Streams == [id : Ids, best : BOOLEAN]
Lang    == [id : Ids, format : Formats \cup {-1}]
Type    == [langs : Seq(Lang), curr : Nat, format : Formats]

VARIABLES
  handle,    \* the handle the application holds, or "none"; "exit" is no more
  streams,   \* qm->streams
  stream,    \* qm->curr.stream
  types,     \* qsub->types; each has its languages and their cursor
  type,      \* qsub->curr.type
  items,     \* qp->media, or qs->url.media of a scan
  item,      \* qp->curr.media, or qs->url.curr.media
  rc,        \* q->status.rc
  given,     \* history: the table, or tables, that became the lists
  asked,     \* history: the selection just made, as <<"select", its ID list>> or
             \* <<"best", <<"best">>>>, or <<>>
  got        \* history: the language it returned, as <<type, lang>>; NULL is Nothing

resultVars == <<handle, streams, stream, types, type, items, item, rc, given, asked, got>>

Nothing == <<0, 0>>

ResultTypeOK == /\ handle \in {"none", "media", "subtitle", "playlist", "scan", "exit"}
                /\ streams \in Seq(Streams)
                /\ stream \in 0 .. Len(streams)
                /\ types \in Seq(Type)
                /\ type \in 0 .. Len(types)
                /\ \A n \in 1 .. Len(types) : types[n].curr \in 0 .. Len(types[n].langs)
                /\ item \in 0 .. Len(items)
                /\ rc \in Codes
                /\ got \in Nat \X Nat

ResultInit == /\ handle = "none"
              /\ streams = <<>> /\ stream = 0
              /\ types = <<>> /\ type = 0
              /\ items = <<>> /\ item = 0
              /\ rc = "OK"
              /\ given = <<>> /\ asked = <<>> /\ got = Nothing
-----------------------------------------------------------------------------
(* A script's dictionary becomes a list: each entry is prepended, and the   *)
(* list is turned round at the end.                                         *)

\* g_slist_prepend of each entry in turn.
Prepended(old, entries) ==
  LET list[n \in 0 .. Len(entries)] == IF n = 0 THEN old ELSE <<entries[n]>> \o list[n - 1]
  IN  list[Len(entries)]

\* Mutant: the list is left as it was built.
CollectBackwards(old, entries) == Prepended(old, entries)

Collect(old, entries) == Reverse(Prepended(old, entries))

\* The loop over a dictionary, of whose entries some places are kept.
Kept(table, places) ==
  LET kept[n \in 0 .. Len(table)] == IF n = 0 THEN <<>>
                                     ELSE IF n \in places THEN Append(kept[n - 1], table[n])
                                     ELSE kept[n - 1]
  IN  kept[Len(table)]

\* lua_istable(l, LI_VALUE)
TablesIn(table) == {n \in 1 .. Len(table) : table[n].table}

\* _new_stream: a stream must have a URL.
NewStream(entry) == [id |-> entry.id, best |-> entry.best]

StreamsOf(table) == LET kept == Kept(table, TablesIn(table))
                    IN  Collect(<<>>, [n \in 1 .. Len(kept) |-> NewStream(kept[n])])

\* Mutant: a script may return no stream at all.
StreamsMayBeMissing(table) == \A n \in TablesIn(table) : table[n].url

\* _chk_streams, _has_stream_url: luaL_error unless there is at least one
\* stream, and each has a URL.
StreamsAreValid(table) == /\ TablesIn(table) # {}
                          /\ \A n \in TablesIn(table) : table[n].url

\* A Lua error outside a protected call, or an assertion, ends the process.
Exit == /\ handle' = "exit"
        /\ UNCHANGED <<streams, stream, types, type, items, item, rc, given, asked, got>>

\* l_exec_media_script_parse, the streams of it.
MediaNew == /\ handle = "none"
            /\ \E table \in MediaTables :
                 IF StreamsAreValid(table)
                 THEN /\ handle' = "media"
                      /\ streams' = StreamsOf(table)
                      /\ stream' = 0
                      /\ rc' = "OK"
                      /\ given' = table
                      /\ UNCHANGED <<types, type, items, item, asked, got>>
                 ELSE Exit

\* Mutant: _subtitle_type_new leaves the format as g_new0 has made it.
FormatSoFarZero(entry, read) == IF read THEN entry.format ELSE 0

\* The format of a type while its dictionary is read: -1 until lua_next has
\* come to the key `format'.
FormatSoFar(entry, read) == IF read THEN entry.format ELSE -1

\* _new_lang: a language copies the format its type has at that moment.
NewLang(id, format) == [id |-> id, format |-> format]

\* _new_type, _foreach_lang_property; read: `format' comes before `lang'.
NewType(entry, read) ==
  [langs |-> Collect(<<>>, [n \in 1 .. Len(entry.langs) |->
                              NewLang(entry.langs[n], FormatSoFar(entry, read))]),
   curr |-> 0,
   format |-> entry.format]

\* _chk_req_type: a type without languages is dropped.
WithLanguages(table) == {n \in TablesIn(table) : table[n].langs # <<>>}

\* _chk_req_type, _chk_url: format, type and the URLs are required.
SubtitlesAreValid(table) == \A n \in TablesIn(table) : table[n].complete

SubtitleNew ==
  /\ handle = "none"
  /\ \E table \in SubtitleTables :
       IF SubtitlesAreValid(table)
       THEN LET kept == Kept(table, WithLanguages(table))
            IN  /\ handle' = "subtitle"
                /\ \E read \in [1 .. Len(kept) -> BOOLEAN] :
                     types' = Collect(<<>>, [n \in 1 .. Len(kept) |-> NewType(kept[n], read[n])])
                /\ type' = 0
                /\ rc' = "OK"
                /\ given' = table
                /\ UNCHANGED <<streams, stream, items, item, asked, got>>
       ELSE Exit

\* _new_media of a playlist: without a URL it is freed, then dereferenced.
PlaylistIsValid(table) == \A n \in TablesIn(table) : table[n].url

NewItem(entry) == entry.id

PlaylistNew == /\ handle = "none"
               /\ \E table \in PlaylistTables :
                    IF PlaylistIsValid(table)
                    THEN /\ handle' = "playlist"
                         /\ items' = LET kept == Kept(table, TablesIn(table))
                                     IN  Collect(<<>>, [n \in 1 .. Len(kept) |-> NewItem(kept[n])])
                         /\ item' = 0
                         /\ rc' = "OK"
                         /\ given' = table
                         /\ UNCHANGED <<streams, stream, types, type, asked, got>>
                    ELSE Exit

\* lua_isstring(l, LI_VALUE)
StringsIn(table) == {n \in 1 .. Len(table) : table[n].string}

\* l_exec_scan_script_parse: the URLs of one script, into the common list.
ScanUrls(urls, table) == LET kept == Kept(table, StringsIn(table))
                         IN  Collect(urls, [n \in 1 .. Len(kept) |-> kept[n].url])

\* quvi_scan_new runs every scan script.
UrlsOf(tables) ==
  LET urls[n \in 0 .. Len(tables)] == IF n = 0 THEN <<>> ELSE ScanUrls(urls[n - 1], tables[n])
  IN  urls[Len(tables)]

ScanNew == /\ handle = "none"
           /\ \E tables \in ScanRuns : /\ items' = UrlsOf(tables)
                                       /\ given' = tables
           /\ handle' = "scan"
           /\ item' = 0
           /\ rc' = "OK"
           /\ UNCHANGED <<streams, stream, types, type, asked, got>>

\* quvi_*_free.
Free == /\ handle \in {"media", "subtitle", "playlist", "scan"}
        /\ handle' = "none"
        /\ streams' = <<>> /\ stream' = 0
        /\ types' = <<>> /\ type' = 0
        /\ items' = <<>> /\ item' = 0
        /\ given' = <<>> /\ asked' = <<>> /\ got' = Nothing
        /\ UNCHANGED rc
-----------------------------------------------------------------------------
(* The cursors.                                                             *)

\* Mutant: one entry too far.
FollowingTooFar(list, curr) == IF curr <= Len(list) THEN curr + 1 ELSE 0

\* Every *_next: the entry after the current one, the first one after NULL,
\* and NULL after the last one.
Following(list, curr) == IF curr < Len(list) THEN curr + 1 ELSE 0

\* while (..._next(..)): the first entry from the cursor on that is a hit, or NULL.
FirstFrom(hits, curr) == LET ahead == {n \in hits : n > curr}
                         IN  IF ahead = {} THEN 0 ELSE CHOOSE n \in ahead : \A m \in ahead : n <= m

Match(pattern, id) == <<pattern, id>> \in Matching

MediaOnly == UNCHANGED <<handle, streams, types, type, items, item, given>>

StreamNext == /\ handle = "media"
              /\ stream' = Following(streams, stream)
              /\ asked' = <<>>
              /\ MediaOnly /\ UNCHANGED <<rc, got>>

StreamReset == /\ handle = "media"
               /\ stream' = 0
               /\ asked' = <<>>
               /\ MediaOnly /\ UNCHANGED <<rc, got>>

\* The search of quvi_media_stream_choose_best, after its reset; NULL if none.
Best == FirstFrom({n \in 1 .. Len(streams) : streams[n].best}, 0)

ChooseBest == /\ handle = "media"
              /\ stream' = Best
              /\ asked' = <<"best", <<"best">>>>
              /\ MediaOnly /\ UNCHANGED <<rc, got>>

\* The streams whose ID a pattern matches.
Hits(id) == {n \in 1 .. Len(streams) : Match(id, streams[n].id)}

\* Mutant: the loop goes on after the keyword `croak'.
SelectStreamIgnoresCroak(sel, id) ==
  IF sel.done THEN sel
  ELSE CASE id = "croak" -> [sel EXCEPT !.rc = "KEYWORD_CROAK"]
         [] id = "best"  -> [sel EXCEPT !.curr = Best, !.done = TRUE]
         [] OTHER -> LET curr == FirstFrom(Hits(id), sel.curr)
                     IN  [sel EXCEPT !.curr = curr, !.done = curr # 0]

\* One ID of the list in _select: a keyword ends the loop, as does a match;
\* without one the cursor is reset.
SelectStream(sel, id) ==
  IF sel.done THEN sel
  ELSE CASE id = "croak" -> [sel EXCEPT !.rc = "KEYWORD_CROAK", !.done = TRUE]
         [] id = "best"  -> [sel EXCEPT !.curr = Best, !.done = TRUE]
         [] OTHER -> LET curr == FirstFrom(Hits(id), sel.curr)
                     IN  [sel EXCEPT !.curr = curr, !.done = curr # 0]

\* The loop of _select; it begins with a reset.
StreamSelected(ids) ==
  LET sel[n \in 0 .. Len(ids)] == IF n = 0 THEN [curr |-> 0, rc |-> "OK", done |-> FALSE]
                                  ELSE SelectStream(sel[n - 1], ids[n])
  IN  sel[Len(ids)]

\* quvi_media_stream_select
StreamSelect(ids) ==
  /\ handle = "media"
  /\ stream' = StreamSelected(ids).curr
  /\ rc' = StreamSelected(ids).rc
  /\ asked' = <<"select", ids>>
  /\ MediaOnly /\ UNCHANGED got

\* _chk_curr_stream: from NULL the cursor moves to the first stream, which an
\* assertion expects to exist.
CurrentStream == IF stream = 0 THEN Following(streams, 0) ELSE stream

\* quvi_media_get of a stream property.
StreamGet == /\ handle = "media"
             /\ IF CurrentStream = 0
                THEN Exit
                ELSE /\ stream' = CurrentStream
                     /\ rc' = "OK"
                     /\ asked' = <<>>
                     /\ MediaOnly /\ UNCHANGED got

SubtitleOnly == UNCHANGED <<handle, streams, stream, items, item, given>>

TypeNext == /\ handle = "subtitle"
            /\ type' = Following(types, type)
            /\ asked' = <<>>
            /\ SubtitleOnly /\ UNCHANGED <<types, rc, got>>

TypeReset == /\ handle = "subtitle"
             /\ type' = 0
             /\ asked' = <<>>
             /\ SubtitleOnly /\ UNCHANGED <<types, rc, got>>

\* quvi_subtitle_lang_next, _reset of a type that quvi_subtitle_type_next gave.
LangNext(n) == /\ handle = "subtitle"
               /\ types' = [types EXCEPT ![n].curr = Following(types[n].langs, @)]
               /\ asked' = <<>>
               /\ SubtitleOnly /\ UNCHANGED <<type, rc, got>>

LangReset(n) == /\ handle = "subtitle"
                /\ types' = [types EXCEPT ![n].curr = 0]
                /\ asked' = <<>>
                /\ SubtitleOnly /\ UNCHANGED <<type, rc, got>>

\* The cursors and the result of quvi_subtitle_select, as it goes on.
Cursors == [types |-> types, type |-> type, lang |-> Nothing, rc |-> "OK", done |-> FALSE]

\* The languages of a type whose ID a pattern matches.
LangHits(langs, id) == {m \in 1 .. Len(langs) : Match(id, langs[m].id)}

\* Mutant: the cursor of a type's languages is not reset.
MatchLangFromCursor(qst, id) == FirstFrom(LangHits(qst.langs, id), qst.curr)

\* The inner loop of _match: the language cursor is reset first.
MatchLang(qst, id) == FirstFrom(LangHits(qst.langs, id), 0)

\* _match: type by type, the languages of each; every cursor that is passed over
\* has run off its list.
MatchId(sel, id) ==
  LET found == [n \in 1 .. Len(sel.types) |-> MatchLang(sel.types[n], id)]
      hit == FirstFrom({n \in 1 .. Len(sel.types) : found[n] # 0}, 0)
      visited == IF hit = 0 THEN 1 .. Len(sel.types) ELSE 1 .. hit
  IN  [sel EXCEPT
        !.types = [n \in 1 .. Len(sel.types) |->
                     IF n \in visited
                     THEN [sel.types[n] EXCEPT !.curr = found[n]]
                     ELSE sel.types[n]],
        !.type = hit,
        !.lang = IF hit = 0 THEN Nothing ELSE <<hit, found[hit]>>,
        !.done = hit # 0]

\* One ID of the list in _select of quvi_subtitle_select; `best' is no keyword.
SelectLang(sel, id) ==
  IF sel.done THEN sel
  ELSE IF id = "croak" THEN [sel EXCEPT !.rc = "KEYWORD_CROAK", !.done = TRUE]
  ELSE MatchId(sel, id)

\* _default: the first language of the first type, if there is one.
Default(sel) ==
  IF sel.lang # Nothing \/ sel.rc # "OK" \/ sel.types = <<>> THEN sel
  ELSE [sel EXCEPT !.types[1].curr = Following(sel.types[1].langs, 0),
                   !.type = 1, !.lang = <<1, Following(sel.types[1].langs, 0)>>]

\* The loop of _select.
LangSelected(ids) ==
  LET sel[n \in 0 .. Len(ids)] == IF n = 0 THEN Cursors ELSE SelectLang(sel[n - 1], ids[n])
  IN  sel[Len(ids)]

\* quvi_subtitle_select.  Its note says that the call "resets the list pointers"
\* of the types and the languages; what it leaves behind is where its search ended:
\* both cursors at the language it returns, or all of them NULL, or, when `croak'
\* decides, those the earlier IDs have left.
SubtitleSelect(ids) ==
  /\ handle = "subtitle"
  /\ LET sel == Default(LangSelected(ids))
     IN  /\ types' = sel.types
         /\ type' = sel.type
         /\ rc' = sel.rc
         /\ got' = sel.lang
  /\ asked' = <<"select", ids>>
  /\ SubtitleOnly

\* quvi_playlist_media_next, _reset, _get and quvi_scan_next_media_url.
ItemsOnly == UNCHANGED <<handle, streams, stream, types, type, items, given, got>>

ItemNext == /\ handle \in {"playlist", "scan"}
            /\ item' = Following(items, item)
            /\ asked' = <<>>
            /\ ItemsOnly /\ UNCHANGED rc

ItemReset == /\ handle = "playlist"
             /\ item' = 0
             /\ asked' = <<>>
             /\ ItemsOnly /\ UNCHANGED rc

\* _chk_curr_media: as with streams, but the list may be empty.
ItemGet == /\ handle = "playlist"
           /\ item' = IF item = 0 THEN Following(items, 0) ELSE item
           /\ rc' = "OK"
           /\ asked' = <<>>
           /\ ItemsOnly

\* quvi_subtitle_type_get and quvi_subtitle_lang_get, of a type or language the
\* application has been given, and the properties of a media or playlist handle
\* itself: a property that is not one, or no place for its value, is refused.
PropertyGet == /\ handle \in {"media", "subtitle", "playlist"}
               /\ handle = "subtitle" => types # <<>>
               /\ rc' \in {"OK", "INVALID_ARG"}
               /\ asked' = <<>>
               /\ UNCHANGED <<handle, streams, stream, types, type, items, item, given, got>>

Exited == handle = "exit" /\ UNCHANGED resultVars

ResultNext == \/ MediaNew \/ SubtitleNew \/ PlaylistNew \/ ScanNew \/ Free
              \/ StreamNext \/ StreamReset \/ ChooseBest \/ StreamGet
              \/ \E ids \in IdLists : StreamSelect(ids)
              \/ TypeNext \/ TypeReset
              \/ \E n \in 1 .. Len(types) : LangNext(n) \/ LangReset(n)
              \/ \E ids \in IdLists : SubtitleSelect(ids)
              \/ ItemNext \/ ItemReset \/ ItemGet
              \/ PropertyGet
              \/ Exited

ResultSpec == ResultInit /\ [][ResultNext]_resultVars
-----------------------------------------------------------------------------
\* What an ID list means, said without cursors: the first ID that is a keyword
\* or matches something decides.
Places(lists) == UNION {{<<n, m>> : m \in DOMAIN lists[n]} : n \in DOMAIN lists}

First(S) == CHOOSE p \in S : \A q \in S : p <= q

FirstOr(S, default) == IF S = {} THEN default ELSE First(S)

\* quvi_media_stream_select chooses, whatever the cursor was: the first stream
\* that matches the deciding ID; the best stream for `best'; the first one when
\* nothing matches; and it reports `croak' only when nothing matched before it.
\* quvi_media_stream_choose_best is documented to choose like `best' (it leaves
\* q->status.rc alone).
StreamSelectPicks ==
  handle = "media" /\ asked # <<>> =>
    LET ids == asked[2]
        deciding == {p \in 1 .. Len(ids) : ids[p] \in Keywords \/ Hits(ids[p]) # {}}
        id == ids[First(deciding)]
        candidates == IF deciding = {} THEN {}
                      ELSE CASE id = "croak" -> {}
                             [] id = "best" -> {n \in 1 .. Len(streams) : streams[n].best}
                             [] OTHER -> Hits(id)
    IN  /\ asked[1] = "select" =>
             rc = IF deciding # {} /\ id = "croak" THEN "KEYWORD_CROAK" ELSE "OK"
        /\ CurrentStream = FirstOr(candidates, 1)

\* quvi_subtitle_select returns the first language, in the order of the types,
\* that matches the deciding ID; the first language of all when nothing matches;
\* NULL when `croak' decides or there are no languages.
SubtitleSelectPicks ==
  handle = "subtitle" /\ asked # <<>> =>
    LET all == Places([n \in DOMAIN types |-> types[n].langs])
        HitsOf(id) == {nm \in all : Match(id, types[nm[1]].langs[nm[2]].id)}
        ids == asked[2]
        deciding == {p \in 1 .. Len(ids) : ids[p] = "croak" \/ HitsOf(ids[p]) # {}}
        id == ids[First(deciding)]
        candidates == IF deciding = {} THEN all ELSE IF id = "croak" THEN {} ELSE HitsOf(id)
        Before(a, b) == a[1] < b[1] \/ (a[1] = b[1] /\ a[2] <= b[2])
    IN  /\ rc = IF deciding # {} /\ id = "croak" THEN "KEYWORD_CROAK" ELSE "OK"
        /\ IF candidates = {}
           THEN got = Nothing
           ELSE got \in candidates /\ \A other \in candidates : Before(got, other)

\* The assertions of _chk_curr_stream: a media handle has a current stream, and
\* every type of a subtitle handle has a language to give.
EntriesAreThere ==
  /\ handle = "media" => CurrentStream \in 1 .. Len(streams)
  /\ handle = "subtitle" => \A n \in 1 .. Len(types) : types[n].langs # <<>>

\* The ways in which the entries of a list can stand for places of a table, each
\* place once and in the table's order.
InOrder(list, places) ==
  {at \in Bijection(DOMAIN list, places) : \A m, n \in DOMAIN list : m < n => at[m] < at[n]}

\* A type keeps the format its script gave it, and each of its languages has
\* that format or, when lua_next came to it too early, none: never another.
FormatsAreOwn ==
  handle = "subtitle" =>
    \E at \in InOrder(types, WithLanguages(given)) : \A n \in DOMAIN types :
      /\ types[n].format = given[at[n]].format
      /\ \A m \in DOMAIN types[n].langs : types[n].langs[m].format \in {types[n].format, -1}

\* The places of the strings in the tables of several scripts.
StringPlaces(tables) == {nm \in Places(tables) : tables[nm[1]][nm[2]].string}

\* The lists keep the order of the script's table; the first entry is what the
\* documentation calls the default.  The URLs of several scan scripts are
\* turned round script by script, but none is lost and none is doubled.
ListsAreComplete ==
  /\ handle = "media" =>
       \E at \in InOrder(streams, TablesIn(given)) : \A n \in DOMAIN streams :
         streams[n] = NewStream(given[at[n]])
  /\ handle = "subtitle" =>
       \E at \in InOrder(types, WithLanguages(given)) : \A n \in DOMAIN types :
         [m \in DOMAIN types[n].langs |-> types[n].langs[m].id] = given[at[n]].langs
  /\ handle = "playlist" =>
       \E at \in InOrder(items, TablesIn(given)) : \A n \in DOMAIN items :
         items[n] = NewItem(given[at[n]])
  /\ handle = "scan" =>
       \E at \in Bijection(DOMAIN items, StringPlaces(given)) : \A n \in DOMAIN items :
         items[n] = given[at[n][1]][at[n][2]].url
=============================================================================
