------------------------------ MODULE MCFinder ------------------------------
(* Finder with two presets and two menu rows; in MCTwins the presets share *)
(* an extension, which a settings document may say.                        *)
EXTENDS Finder, TLC

Connections == Permutations(Requests)
MCExts == {<<"json">>, <<"png">>}

MCData   == Row(<<"data">>, <<"json">>, "New JSON", TRUE)
MCScript == Row(<<"script">>, <<"sh">>, "New Shell Script", TRUE)
MCReport == Row(<<"report">>, <<"json">>, "Report", TRUE)

MCSeeds == <<MCData, MCScript>>
MCTwins == <<MCData, MCReport>>

\* Each row switched off, and a row that no catalog has.
Off(row) == [row EXCEPT !.on = FALSE]
MCEdits == <<Off(MCData), Off(MCScript), Row(<<"x">>, <<"sh">>, "X", TRUE)>>

\* The two orders, and lists that are short, name a row twice, or a stranger.
MCOrders ==
  LET a == FileTypeID(MCData) b == FileTypeID(MCScript)
  IN  {<<a, b>>, <<b, a>>, <<a>>, <<a, a>>, <<a, <<"x", "sh">>>>}

\* Every path of up to three segments.
PathsOver(segments) ==
  {[rooted |-> TRUE, segments |-> s] : s \in SeqOf(segments, 3)}
    \cup {[rooted |-> FALSE, segments |-> <<"a">>]}
MCPaths == PathsOver({"a", "b", ".."})
MCLoosePaths == PathsOver({"a", "b", "", "."})
=============================================================================
