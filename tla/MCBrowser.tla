------------------------------ MODULE MCBrowser ------------------------------
(* One page that may be left once, two folders and two documents: two       *)
(* folders side by side, which the tablet may put into each other, or one   *)
(* of them still to be made, and a document that may be uploaded.           *)
EXTENDS Browser, TLC

CONSTANTS a, b, d, e

MCTrees == {a :> Root @@ b :> Root @@ d :> b @@ e :> Absent,
            a :> Root @@ b :> Absent @@ d :> a @@ e :> Absent}

MCSelections == {{a, d}, {b}}

MCBatches == {<<e, d>>}

MCEdits == {<<b, a>>}

=============================================================================
