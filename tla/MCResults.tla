----------------------------- MODULE MCResults -----------------------------
(* Up to three streams, two types of two languages, two playlist items, and *)
(* two scan scripts; ID lists of none (g_strsplit of "") to three IDs.      *)
EXTENDS Results

AllIds == {"", "hd", "sd"}

AllPatterns == {"h", "d", "x"}

\* "d" matches both IDs, "h" one of them and "x" none; so do regular expressions.
AllMatching == {<<"h", "hd">>, <<"d", "hd">>, <<"d", "sd">>}

Stream(id, best) == [table |-> TRUE, url |-> TRUE, id |-> id, best |-> best]

NoTable == [table |-> FALSE]
NoUrl   == [table |-> TRUE, url |-> FALSE, id |-> "", best |-> FALSE]

SomeStreams == {Stream(id, best) : id \in AllIds, best \in BOOLEAN}

SomeMediaTables ==
  {<<a>> : a \in SomeStreams} \cup {<<a, b>> : a, b \in SomeStreams}
    \cup {<<a, b, c>> : a, b, c \in {Stream("hd", FALSE), Stream("sd", TRUE), NoTable}}
    \cup {<<>>, <<NoUrl>>, <<Stream("hd", TRUE), NoUrl>>}

Subs(langs, format) == [table |-> TRUE, complete |-> TRUE, langs |-> langs, format |-> format]

Incomplete == [Subs(<<"sd">>, 1) EXCEPT !.complete = FALSE]

SomeSubs == {Subs(langs, 1) : langs \in {<<>>, <<"">>, <<"sd">>, <<"hd", "sd">>, <<"sd", "hd">>}}
              \cup {Subs(<<"hd">>, 2), NoTable}

SomeSubtitleTables == {<<>>, <<Incomplete>>}
                        \cup {<<a>> : a \in SomeSubs} \cup {<<a, b>> : a, b \in SomeSubs}

Item(id, url) == [table |-> TRUE, url |-> url, id |-> id]

SomePlaylistTables == {<<>>, <<Item("hd", TRUE), NoTable, Item("sd", TRUE)>>, <<Item("", FALSE)>>}

Url(url) == [string |-> TRUE, url |-> url]

NoString == [string |-> FALSE]

SomeScanRuns ==
  {<<a, b>> : a, b \in {<<>>, <<Url("u1"), Url("u2")>>, <<Url("u2"), NoString, Url("u3")>>}}

Asked == AllPatterns \cup Keywords

SomeIdLists == {<<>>} \cup {<<a>> : a \in Asked} \cup {<<a, b>> : a, b \in Asked}
                 \cup {<<"x", "croak", "h">>, <<"x", "x", "h">>}
=============================================================================
