----------------------------- MODULE MCFileBase -----------------------------
(* A small file system for FileBase: a base whose parent is missing, two     *)
(* files outside, and a source with a file in a directory.                   *)
EXTENDS FileBase

D(p) == [path |-> p, kind |-> "dir"]
F(p) == [path |-> p, kind |-> "file"]
MCTree == <<D(<<"">>), D(<<"", "s">>), D(<<"", "s", "d">>), F(<<"", "s", "d", "x">>), F(<<"", "s", "x">>)>>
MCBase == <<"", "j", "b">>
MCLinkerDir == <<"", "l">>
MCSubs == {Here, <<"x">>, <<"d">>, <<"d", "x">>, <<"d", "..", "x">>, <<"..", "..", "s", "x">>}
MCOutside == {<<"", "s", "x">>}
MCSourceDir == <<"", "s">>
MCSource == <<[sub |-> <<"d">>, kind |-> "dir"], [sub |-> <<"d", "x">>, kind |-> "file"],
              [sub |-> <<"x">>, kind |-> "file"]>>
=============================================================================
