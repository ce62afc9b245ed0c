------------------------------ MODULE MCLibrary ------------------------------
(* Library with two users that compete for one worker and have one document *)
(* each (MCLibrary.cfg), or one user with two (MCLibraryShutdown.cfg).      *)
EXTENDS Library, TLC

CONSTANTS alice, bob, d1, d2

MCRetain == {1}

(* Nothing but the workers, the server and the bounds is shared by users:   *)
(* one of them has changes and jobs that work, the other only starts index  *)
(* jobs, whose listing fails.                                               *)
NoBackupOrIndex(u) ==
    /\ index[u] = [d \in Doc |-> None]
    /\ exported[u] = [d \in Doc |-> 0] /\ backups[u] = {}

Untouched(u) ==
    /\ doc[u] = [d \in Doc |-> [at |-> "library", ver |-> 1]]
    /\ NoBackupOrIndex(u)
    /\ snaps[u] = [d \in Doc |-> <<>>] /\ files[u] = {}
    /\ u \notin unsaved
    /\ \/ job[u] = Idle
       \/ job[u].pc \in {"list", "finish"} /\ job[u].kind = "index"

OneUserWorks == \A u, v \in User : u = v \/ Untouched(u) \/ Untouched(v)

(* The documents change twice, those of a sync10 account once; a failure    *)
(* comes on top of that only when all jobs are snapshots.                   *)
OnlySnapshots(u) ==
    /\ NoBackupOrIndex(u)
    /\ job[u] = Idle \/ job[u].kind = "snapshots"

Changes(u) == IF u \in Sync15 THEN 2 ELSE 1

FewChanges ==
    \A u \in User :
        \/ Untouched(u)
        \/ edits + faults <= Changes(u)
        \/ edits <= Changes(u) /\ OnlySnapshots(u)
=============================================================================
