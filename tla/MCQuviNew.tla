----------------------------- MODULE MCQuviNew -----------------------------
(* A small file system: the contents of the media/ directories vary; of    *)
(* every other kind the installation has one script, or is missing some.   *)
EXTENDS ScriptWalk

foo  == [name |-> "foo.lua", sha |-> 1, ok |-> TRUE]
copy == [name |-> "bar.lua", sha |-> 1, ok |-> TRUE]
bar  == [name |-> "bar.lua", sha |-> 2, ok |-> TRUE]
bad  == [name |-> "bad.lua", sha |-> 3, ok |-> FALSE]
third == [name |-> "baz.lua", sha |-> 2, ok |-> TRUE]

Media == 4

NoDir        == [there |-> FALSE, entries |-> {}]
With(entries) == [there |-> TRUE, entries |-> entries]

\* All directories hold a script of each kind but media and the missing ones.
Tree(media, missing) ==
  [dk \in Dir \X (1 .. GlobCount) |->
     IF dk[2] = Media THEN media[dk[1]]
     ELSE IF dk[2] \in missing THEN With({bad}) ELSE With({foo})]

MediaDirs == [Dir -> {NoDir, With({foo}), With({copy, third}), With({bar, bad})}]

SmallInstallations ==
  [files : {Tree(media, {}) : media \in MediaDirs}
             \cup {Tree([d \in Dir |-> With({foo})], {k}) : k \in 1 .. GlobCount},
   common : {{}, Dir}]
=============================================================================
