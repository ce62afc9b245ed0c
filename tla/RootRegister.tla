---------------------------- MODULE RootRegister ----------------------------
(***************************************************************************)
(* What the root of a user's sync15 storage promises to tablets and to the *)
(* web UI: a log of root hashes in which every commit was made by a client *)
(* that had seen the commit before it.  Nothing is said about locks, files *)
(* or generation numbers: RootStore is shown to implement this.            *)
(*                                                                         *)
(* A failure that hits a commit half way tears the register: the process   *)
(* dies, or the disk refuses a write, between the history line and the     *)
(* root file, or the line itself comes out short and the commit goes on.   *)
(* From then on only the log's growth is promised.                         *)
(***************************************************************************)
EXTENDS Naturals, Sequences

CONSTANTS Hash,      \* the root hashes clients commit
          Unknown    \* what a client may have seen instead of a hash

VARIABLES log,       \* the commits so far, with the value each was based on
          tears      \* how often a failure hit a commit half way

Entry == [hash : Hash, base : Hash \cup Unknown]

Init == /\ log = <<>>
        /\ tears = 0

Commit(h, b) ==
    /\ tears > 0 \/ log = <<>> \/ b = log[Len(log)].hash
    /\ log' = Append(log, [hash |-> h, base |-> b])
    /\ tears' \in {tears, tears + 1}

Tear == /\ tears' = tears + 1
        /\ UNCHANGED log

Next == \/ \E h \in Hash, b \in Hash \cup Unknown : Commit(h, b)
        \/ Tear

Spec == Init /\ [][Next]_<<log, tears>>
=============================================================================
