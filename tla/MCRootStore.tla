----------------------------- MODULE MCRootStore -----------------------------
(* RootStore and DocumentEvents on a small instance: sizes are cut at       *)
(* MaxCommits lines; one of two documents changes, the other comes and goes.*)
EXTENDS DocumentEvents, TLC

CONSTANTS c1, c2, h1, h2, d1, d2, MaxCommits

MCClient == {c1, c2}
MCHash == {h1, h2}
MCTree == h1 :> (d1 :> 1 @@ d2 :> Absent) @@ h2 :> (d1 :> 2 @@ d2 :> 1)
MCPartial == {22, 85}
MCShort == {64, 85}
MCMaxSize == MaxCommits * LineSize
(* Nothing but the log's growth is promised after a torn commit.            *)
ToTheFirstTear == tears = 0

Symmetry == Permutations(MCClient)
=============================================================================
