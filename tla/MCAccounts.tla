------------------------------ MODULE MCAccounts ------------------------------
(* Two users: either may be the first, or one of them is there and is an    *)
(* admin.                                                                   *)
EXTENDS Accounts, TLC

CONSTANTS alice, bob, ftp, dropbox

MCBefores == {alice :> Absent @@ bob :> Absent,
              alice :> [admin |-> TRUE, list |-> {ftp}] @@ bob :> Absent}

MCLimits == {[requests |-> 3, faults |-> 0, asks |-> 0],
             [requests |-> 2, faults |-> 1, asks |-> 0],
             [requests |-> 0, faults |-> 1, asks |-> 2]}

=============================================================================
