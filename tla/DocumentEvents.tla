----------------------------- MODULE DocumentEvents -----------------------------
(***************************************************************************)
(* The root of RootStore together with what is made of its commits: the    *)
(* server subscribes to its own internal.root_committed events             *)
(* (internal/storage/fs/automation.go), compares the two trees that each   *)
(* names, and publishes what was created, updated and deleted.             *)
(*                                                                         *)
(* The subscriber has a queue and one worker on the bus, and gets what it  *)
(* publishes itself once more, to no effect.  The events of two commits    *)
(* may reach it in the other order, since StoreBlob publishes after it has *)
(* unlocked.  The trees are read by their hashes, which no later commit    *)
(* changes, so handling an event is one step.                              *)
(***************************************************************************)
EXTENDS RootStore

CONSTANTS Doc,
          Absent,   \* the version of a document that a tree does not have
          Tree,     \* the documents of each root hash, with their versions
          Capacity  \* events that the subscriber's queue holds, 64

ASSUME TreeAssumption ==
    \A h \in Hash : /\ Tree[h] = [d \in Doc |-> Tree[h][d]]
                    /\ IsFiniteSet({d \in Doc : Tree[h][d] # Absent})
ASSUME CapacityAssumption == Capacity \in Nat \ {0}

VARIABLES
    queue,   \* commits that wait for the worker
    balance, \* for each document, its creations less its deletions, as published
    told,    \* the version of each document, for a listener that follows the events
    newest,  \* the newest generation whose commit was published
    crossed, \* whether a commit was published after a newer one
    lost     \* whether the documents of a commit were not, or not all, published

docVars == <<queue, balance, told, newest, crossed, lost>>

(* An empty root hash is an empty tree.                                     *)
Docs(content) == IF content \in Hash THEN Tree[content] ELSE [d \in Doc |-> Absent]

Created(e) == {d \in Doc : Docs(e.before)[d] = Absent /\ Docs(e.after)[d] # Absent}

(* Mutant: only the names are compared.                                     *)
UpdatesNothing(e) == {}

Updated(e) == {d \in Doc : /\ Absent \notin {Docs(e.before)[d], Docs(e.after)[d]}
                           /\ Docs(e.before)[d] # Docs(e.after)[d]}

(* Mutant: a document that is in both trees is not taken off the old ones.  *)
DeletesAllOld(e) == {d \in Doc : Docs(e.before)[d] # Absent}

Deleted(e) == {d \in Doc : Docs(e.before)[d] # Absent /\ Docs(e.after)[d] = Absent}

Changed(e) == Created(e) \cup Updated(e) \cup Deleted(e)

DocInit ==
    /\ Init
    /\ queue = <<>>
    /\ balance = [d \in Doc |-> 0]
    /\ told = [d \in Doc |-> Absent]
    /\ newest = 0
    /\ crossed = FALSE
    /\ lost = FALSE

Published == Len(events') > Len(events)

(* Publish, as the subscriber's queue sees it: a full one drops the event.  *)
Enqueue(c) ==
    /\ newest' = IF op[c].gen > newest THEN op[c].gen ELSE newest
    /\ crossed' = (crossed \/ op[c].gen < newest)
    /\ IF Len(queue) < Capacity
       THEN queue' = Append(queue, Last(events')) /\ UNCHANGED lost
       ELSE lost' = TRUE /\ UNCHANGED queue

RootStep(c) ==
    /\ Step(c)
    /\ IF Published THEN Enqueue(c) ELSE UNCHANGED <<queue, newest, crossed, lost>>
    /\ UNCHANGED <<balance, told>>

(* What waits in the queue is lost, and so is the event of a commit that    *)
(* was made and not yet published.                                          *)
DocCrash ==
    /\ Crash
    /\ queue' = <<>>
    /\ lost' = (lost \/ queue # <<>> \/ \E c \in Client : At(c, "unlocked"))
    /\ UNCHANGED <<balance, told, newest, crossed>>

(* HandleEvent publishes the changes of the documents in D.                 *)
Publishes(e, D) ==
    /\ balance' = [d \in Doc |->
          balance[d] + (IF d \in Created(e) \cap D THEN 1 ELSE 0)
                     - (IF d \in Deleted(e) \cap D THEN 1 ELSE 0)]
    /\ told' = [d \in Doc |->
          IF d \in Deleted(e) \cap D THEN Absent
          ELSE IF d \in (Created(e) \cup Updated(e)) \cap D THEN Docs(e.after)[d]
          ELSE told[d]]

(* The published events, as far as the worker's own queue takes them.       *)
Own == [before |-> NoFile, after |-> NoFile]

Requeues(n) ==
    LET room == Capacity - Len(Tail(queue))
    IN  queue' = Tail(queue) \o [k \in 1..(IF n < room THEN n ELSE room) |-> Own]

Handle ==
    /\ queue # <<>>
    /\ LET e == Head(queue)
       IN  /\ Publishes(e, Doc)
           /\ Requeues(Cardinality(Changed(e)))
    /\ UNCHANGED <<newest, crossed, lost>>
    /\ UNCHANGED vars

(* An index cannot be read, or the time is up after some of the events: as  *)
(* nothing is promised from then on, this is tried once.                    *)
HandleFails ==
    /\ ~lost
    /\ lost' = TRUE
    /\ queue # <<>> /\ Head(queue) # Own
    /\ \E D \in SUBSET Changed(Head(queue)) :
          Publishes(Head(queue), D) /\ Requeues(Cardinality(D))
    /\ UNCHANGED <<newest, crossed>>
    /\ UNCHANGED vars

DocNext ==
    \/ \E c \in Client : RootStep(c)
    \/ DocCrash
    \/ Handle
    \/ HandleFails

DocSpec == DocInit /\ [][DocNext]_<<vars, docVars>>

-----------------------------------------------------------------------------
(* No commit is under way, and everything has been published and handled.   *)
Settled == queue = <<>> /\ \A c \in Client : op[c].pc \notin {"appended", "created", "unlocked"}

Complete == tears = 0 /\ ~lost

(* In whatever order commits are published, every document has been created *)
(* once more than it was deleted if the library holds it, and as often as   *)
(* it was deleted if not (HandleEvent, after StoreBlob's deferred event).   *)
EventsAddUp ==
    Settled /\ Complete
        => \A d \in Doc : balance[d] = IF Docs(root)[d] = Absent THEN 0 ELSE 1

(* A listener that follows the events knows the library, updates included,  *)
(* unless commits were published out of their order.                        *)
FollowersKnow == Settled /\ Complete /\ ~crossed => told = Docs(root)

=============================================================================
