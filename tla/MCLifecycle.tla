---------------------------- MODULE MCLifecycle ----------------------------
(* Instance of Lifecycle for TLC.                                            *)
EXTENDS Lifecycle

Act(id, type, targets, utis) ==
  [id |-> id, title |-> id, type |-> type, capability |-> "file.copy", plugin |-> "p",
   placement |-> "", enabled |-> "", targets |-> targets, utis |-> utis]
Good == [schema |-> 1, name |-> "good", actions |->
  <<Act("a", "native", <<"files", "folders">>, {}),
    Act("b", "native", <<"any", "files">>, {"text"}),
    Act("c", "process", <<"container", "selection">>, {})>>]
Twice == [Good EXCEPT !.actions = <<@[1], @[1]>>]
Script == [Good EXCEPT !.actions = <<Act("s", "script", <<"any">>, {})>>]
Off == [Good EXCEPT !.actions = <<[@[2] EXCEPT !.enabled = "false"], @[3]>>]
MCManifests == {Good, Twice, Script, Off}

Item(dir, uti, missing) == [dir |-> dir, uti |-> uti, missing |-> missing]
Text == Item(FALSE, "text", FALSE)
Picture == Item(FALSE, "image", FALSE)
Folder == Item(TRUE, "folder", FALSE)
Gone == Item(FALSE, "text", TRUE)
Lists == {<<>>, <<Text>>, <<Folder>>, <<Text, Folder>>, <<Picture>>, <<Text, Picture>>,
          <<Text, Gone>>, <<Text, Text>>, <<Text, Text, Text>>, <<Text, Text, Text, Text>>}
MCContexts ==
  {[container |-> FALSE, items |-> l] : l \in Lists} \cup {[container |-> TRUE, items |-> <<>>]}

\* The core is 1.2: an older, the same with a zero, a newer one, none.
MCMinCores == {<<1, 1, 9>>, <<1, 2, 0>>, <<1, 2, 1>>, <<>>}
MCCoreVer == <<1, 2>>
=============================================================================
