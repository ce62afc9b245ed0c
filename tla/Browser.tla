-------------------------------- MODULE Browser --------------------------------
(***************************************************************************)
(* The document browser of the web UI (ui/src/pages/Documents) and the     *)
(* document tree it works on (internal/ui/handlers.go with                 *)
(* internal/ui/viewmodel).  Several pages, each a tab or a device, and one *)
(* tablet edit the tree of one account.                                    *)
(*                                                                         *)
(* A page shows the listing it was last answered, and works from it: what  *)
(* it deletes and where it lets a folder go are decided on a listing that  *)
(* may be old.  A run of moves or deletes, an upload and the creation of a *)
(* folder are jobs, which make their requests one at a time.  A page that  *)
(* is left and opened again does not end the jobs it had begun.            *)
(*                                                                         *)
(* A request is the step in which the server serves it.  A move is two,    *)
(* the validation and the change.  Any request may fail: with its effect,  *)
(* when only the answer was lost, or without.  And a move or a delete may   *)
(* be answered as done when nothing was: the server says so when it could  *)
(* not load the tree.                                                      *)
(***************************************************************************)
EXTENDS Integers, Sequences, FiniteSets

CONSTANTS Page,      \* pages that show the library
          Folder,
          Doc,
          Root,      \* the library itself, the parent ""
          Trash,
          Absent,    \* the parent of what does not exist
          Trees,     \* the trees the account may have at first
          Selections, \* the sets of items that may be selected
          Dest,      \* the folders, or Root, that a user may choose
          Batches,   \* the lists of documents that may be uploaded at once
          Edits,     \* the changes the tablet may make, as pairs <<item, place>>
          MaxJobs,   \* bound: jobs begun, over all pages
          MaxLoads,  \* bound: listings asked for by a page
          MaxMounts, \* bound: times the pages are left and opened again
          MaxEdits,  \* bound: changes made by the tablet
          MaxFaults  \* bound: requests that fail for no reason of the tree's

Item  == Folder \cup Doc
Place == Folder \cup {Root, Trash}
Tree  == [Item -> Place \cup {Absent}]

ASSUME ItemAssumption ==
    /\ IsFiniteSet(Item)
    /\ Folder \cap Doc = {}
    /\ Root \notin Item /\ Trash \notin Item /\ Absent \notin Item
    /\ Root # Trash /\ Absent # Root /\ Absent # Trash
ASSUME BoundAssumption == /\ MaxJobs \in Nat /\ MaxLoads \in Nat
                          /\ MaxMounts \in Nat /\ MaxEdits \in Nat
                          /\ MaxFaults \in Nat

JobId == 1..MaxJobs

VARIABLES
    parent,      \* the parent in each item's metadata
    fresh,       \* folders still to be made: their ID is new
    page,        \* what each page shows and holds
    loads,       \* listings asked for and not yet delivered
    jobs,        \* every job that was begun
    spent,       \* how often a page was opened again, the tablet edited, a request failed
    overlapped,  \* whether a change fell between a move's two steps
    adrift       \* items whose folder was deleted by a page that did not see them in it,
                 \* or that the server said it had deleted and had not

vars == <<parent, fresh, page, loads, jobs, spent, overlapped, adrift>>

-----------------------------------------------------------------------------
(* Trees and what the server and the page see in them.                      *)

Exists(t, i) == t[i] # Absent

(* A set of folders that holds with each the folder it is in.               *)
UpClosed(t, S) == \A f \in S : t[f] \in Folder => t[f] \in S

(* The folders above an item.                                               *)
Above(t, i) == {a \in Folder : \A S \in SUBSET Folder :
                   (t[i] \in Folder => t[i] \in S) /\ UpClosed(t, S) => a \in S}

Chain(t, i) == {i} \cup Above(t, i)

(* An item whose folder does not exist is shown in the library itself.      *)
Placed(t) == [i \in Item |-> IF t[i] \in Folder /\ ~Exists(t, t[i]) THEN Root ELSE t[i]]

(* What is in no folder that can be reached from the library or the trash   *)
(* is not listed.                                                           *)
Listing(t) ==
    LET q == Placed(t)
    IN  [i \in Item |-> IF \E a \in Chain(q, i) : q[a] \in {Root, Trash}
                        THEN q[i] ELSE Absent]

Nothing == [i \in Item |-> Absent]

Descendants(list, i) == {d \in Item : Exists(list, d) /\ i \in Chain(list, d)}

InTrash(list, i) == \E a \in Chain(list, i) : list[a] = Trash

(* Selected items without those that are below another selected one, and    *)
(* without those that are no longer listed.                                 *)
TopLevelSelection(list, ids) ==
    {i \in ids : Exists(list, i) /\ Chain(list, i) \cap ids = {i}}

CanMove(list, ids, dest) ==
    /\ dest \in Folder => Exists(list, dest) /\ ~InTrash(list, dest)
    /\ TopLevelSelection(list, ids) # {}
    /\ \A i \in TopLevelSelection(list, ids) :
          /\ list[i] # dest
          /\ dest \in Folder => i \notin Chain(list, dest)

(* Mutant: a folder is refused itself as its destination, and no more.      *)
ValidatesOnlyItself(t, i, dest) ==
    LET list == Listing(t)
    IN  /\ Exists(list, i)
        /\ dest \in Folder => Exists(list, dest) /\ dest # i

ValidateMove(t, i, dest) ==
    LET list == Listing(t)
    IN  /\ Exists(list, i)
        /\ dest \in Folder => Exists(list, dest) /\ i \notin Chain(list, dest)

(* No folder is in itself, by way of others or not.                         *)
Acyclic(t) == \A S \in SUBSET Folder : S # {} => \E f \in S : t[f] \notin S

(* The account's tree is whole at first, and a new folder's ID is not yet   *)
(* anyone's parent.                                                         *)
ASSUME TreesAssumption ==
    \A t \in Trees : /\ t \in Tree
                     /\ Acyclic(t)
                     /\ \A i \in Item : t[i] \in Folder => Exists(t, t[i])
ASSUME InputAssumption ==
    /\ Selections \subseteq SUBSET Item
    /\ Dest \subseteq Folder \cup {Root}
    /\ \A files \in Batches : files \in Seq(Doc)
    /\ Edits \subseteq Item \X Place

-----------------------------------------------------------------------------
(* The jobs of a page.                                                      *)

Begun == DOMAIN jobs

(* Whether the page that began the job is still the one that is open: what  *)
(* a job tells a page that was left is lost.                                *)
Heard(j) == page[jobs[j].page].mount = jobs[j].mount

Moving == {j \in Begun : jobs[j].pc = "apply"}

(* What is about to be deleted with a folder.                               *)
Doomed == UNION {jobs[j].rest : j \in Begun}

(* A change of the tree, by job j or (0) by the tablet, overtakes the jobs  *)
(* that are between the validation of a move and the move.                  *)
Overtakes(j) == overlapped' = (overlapped \/ Moving \ {j} # {})

Put(i, place, j) ==
    /\ parent' = [parent EXCEPT ![i] = place]
    /\ fresh' = fresh \ {i}
    /\ adrift' = IF place \in Folder /\ (~Exists(parent, place) \/ place \in Doomed)
                 THEN adrift \cup {i} ELSE adrift \ {i}
    /\ Overtakes(j)

(* known: what j knows to be in i.                                          *)
Remove(i, known, j) ==
    /\ parent' = [parent EXCEPT ![i] = Absent]
    /\ adrift' = (adrift \ {i}) \cup {k \in Item : parent[k] = i /\ k \notin known}
    /\ Overtakes(j)
    /\ UNCHANGED fresh

TreeUnchanged == UNCHANGED <<parent, fresh, overlapped, adrift>>

Here(j) == page[jobs[j].page]

OnPage(j, pg) == IF Heard(j) THEN [page EXCEPT ![jobs[j].page] = pg] ELSE page

(* The page has changed the tree: what it shows, and what was read for it,  *)
(* are behind.                                                              *)
Behind(j) ==
    /\ page' = OnPage(j, [Here(j) EXCEPT !.behind = TRUE])
    /\ loads' = {IF Heard(j) /\ l.page = jobs[j].page /\ l.read
                 THEN [l EXCEPT !.behind = TRUE] ELSE l : l \in loads}

(* The job goes on, and what else it does is said by its action.            *)
Step(j, job) == jobs' = [jobs EXCEPT ![j] = job]

(* The job goes on and nothing else changes.                                *)
OnlyStep(j, job) == Step(j, job) /\ UNCHANGED <<page, loads>> /\ TreeUnchanged

Fault ==
    /\ spent.faults < MaxFaults
    /\ spent' = [spent EXCEPT !.faults = @ + 1]

(* The answer to a request that was served arrives, or is lost.             *)
Answered(answered) == IF answered THEN UNCHANGED spent ELSE Fault

Job(p, kind, dest) ==
    [page |-> p, mount |-> page[p].mount, kind |-> kind, pc |-> kind, dest |-> dest,
     now |-> Root, todo |-> {}, rest |-> {}, before |-> Nothing, files |-> <<>>, at |-> 1,
     again |-> FALSE, lost |-> {}, told |-> "no", awaited |-> 0]

(* Of a job that is over only what became of an upload is kept.             *)
Over(job) == [Job(job.page, "over", Root) EXCEPT !.mount = 0, !.lost = job.lost]

Load(p, n) == [page |-> p, n |-> n, read |-> FALSE, list |-> Nothing, behind |-> FALSE]

Refreshes(p, pg) ==
    /\ loads' = loads \cup {Load(p, pg.request + 1)}
    /\ page' = [page EXCEPT ![p] = [pg EXCEPT !.request = @ + 1, !.loading = TRUE,
                                              !.toast = FALSE]]

(* One listing is left for the end of the job.                              *)
Begin(p, job) ==
    /\ Len(jobs) < MaxJobs /\ page[p].request < MaxLoads
    /\ ~page[p].busy
    /\ jobs' = Append(jobs, job)
    /\ page' = [page EXCEPT ![p].busy = TRUE]
    /\ UNCHANGED <<loads, spent>>
    /\ TreeUnchanged

Opened(n, request) == [mount |-> n, request |-> request, loading |-> TRUE,
                       error |-> FALSE, toast |-> FALSE, busy |-> FALSE,
                       shown |-> Nothing, behind |-> FALSE]

Init ==
    /\ parent \in Trees
    /\ fresh = {f \in Folder : ~Exists(parent, f)}
    /\ page = [p \in Page |-> Opened(0, 1)]
    /\ loads = {Load(p, 1) : p \in Page}
    /\ jobs = <<>>
    /\ spent = [mounts |-> 0, edits |-> 0, faults |-> 0]
    /\ overlapped = FALSE
    /\ adrift = {}

-----------------------------------------------------------------------------
(* Listings.                                                                *)

Refresh(p) ==
    /\ ~page[p].loading
    /\ ~page[p].busy \/ page[p].error
    /\ page[p].request < MaxLoads - 1
    /\ Refreshes(p, page[p])
    /\ UNCHANGED <<jobs, spent>>
    /\ TreeUnchanged

ServeLoad(l) ==
    /\ ~l.read
    /\ loads' = (loads \ {l}) \cup {[l EXCEPT !.read = TRUE, !.list = Listing(parent)]}
    /\ UNCHANGED <<page, jobs, spent>>
    /\ TreeUnchanged

(* The job of l's page that awaits it.                                      *)
Awaits(j, l) == /\ jobs[j].pc = "refresh" /\ Heard(j)
                /\ jobs[j].page = l.page /\ jobs[j].awaited = l.n

(* Mutant: every listing that arrives is shown.                             *)
IsAnyRequest(l) == TRUE

IsNewestRequest(l) == l.n = page[l.page].request

(* Only the newest request is shown; whoever awaits an older one goes on.   *)
Delivered(l, pg) ==
    LET shows == IF IsNewestRequest(l) THEN pg ELSE page[l.page]
    IN  /\ loads' = loads \ {l}
        /\ page' = [page EXCEPT ![l.page] =
                       [shows EXCEPT !.busy = @ /\ ~\E j \in Begun : Awaits(j, l)]]
        /\ jobs' = [j \in Begun |-> IF Awaits(j, l) THEN Over(jobs[j]) ELSE jobs[j]]
        /\ TreeUnchanged

Deliver(l) ==
    /\ l.read
    /\ Delivered(l, [page[l.page] EXCEPT !.shown = l.list, !.behind = l.behind,
                                         !.loading = FALSE, !.error = FALSE])
    /\ UNCHANGED spent

LoadFails(l) ==
    /\ Fault
    /\ Delivered(l, [page[l.page] EXCEPT !.loading = FALSE, !.error = TRUE])

(* The page is left and, later, opened again.  Nothing that was under way   *)
(* for it reaches it any more, and the jobs go on.  A new page counts from  *)
(* one; here it goes on counting, which only bounds the requests.           *)
Remount(p) ==
    /\ page[p].request < MaxLoads
    /\ spent.mounts < MaxMounts
    /\ spent' = [spent EXCEPT !.mounts = @ + 1]
    /\ page' = [page EXCEPT ![p] = Opened(@.mount + 1, @.request + 1)]
    /\ loads' = {l \in loads : l.page # p} \cup {Load(p, page'[p].request)}
    /\ jobs' = [j \in Begun |-> IF jobs[j].page = p /\ jobs[j].pc = "refresh"
                                THEN Over(jobs[j]) ELSE jobs[j]]
    /\ TreeUnchanged

-----------------------------------------------------------------------------
(* run: moves and deletes.  ids were selected in some listing that the page *)
(* has shown, a dialog or a drag having kept them.  Downloads, which change *)
(* nothing, and the receipt are left out.                                   *)

Run(p, kind, ids, dest) ==
    LET list == page[p].shown
        work == TopLevelSelection(list, ids)
    IN  /\ work # {}
        /\ kind = "move" => CanMove(list, ids, dest)
        /\ Begin(p, [Job(p, kind, dest) EXCEPT !.pc = "next", !.todo = work, !.before = list])

(* Whether the run is about to take up item i.                              *)
TakesUp(job, kind, i) == job.pc = "next" /\ job.kind = kind /\ i \in job.todo

Succeeds(job, i) == [job EXCEPT !.todo = @ \ {i}, !.pc = "next"]

(* Mutant: the exception leaves run.                                        *)
FailsUncaught(job, i) == Over(job)

Fails(job, i) == [job EXCEPT !.todo = @ \ {i}, !.rest = {}, !.pc = "next"]

(* updateDocument: the tree is loaded and the move validated.               *)
Validate(j, i) ==
    /\ TakesUp(jobs[j], "move", i)
    /\ ValidateMove(parent, i, jobs[j].dest)
    /\ OnlyStep(j, [jobs[j] EXCEPT !.pc = "apply", !.now = i])
    /\ UNCHANGED spent

Refuse(j, i) ==
    /\ TakesUp(jobs[j], "move", i)
    /\ OnlyStep(j, Fails(jobs[j], i))
    /\ IF ValidateMove(parent, i, jobs[j].dest) THEN Fault ELSE UNCHANGED spent

(* UpdateDocument: the item is looked up again and its parent set.          *)
Move(j, answered) ==
    LET job == jobs[j] IN
    /\ job.pc = "apply" /\ Exists(parent, job.now)
    /\ Put(job.now, job.dest, j)
    /\ Behind(j)
    /\ Step(j, IF answered THEN Succeeds(job, job.now) ELSE Fails(job, job.now))
    /\ Answered(answered)

(* The tree could not be loaded, which UpdateDocument answers with success. *)
MoveSkipped(j) ==
    /\ jobs[j].pc = "apply"
    /\ OnlyStep(j, Succeeds(jobs[j], jobs[j].now))
    /\ Fault

MoveFails(j) ==
    /\ jobs[j].pc = "apply"
    /\ OnlyStep(j, Fails(jobs[j], jobs[j].now))
    /\ IF Exists(parent, jobs[j].now) THEN Fault ELSE UNCHANGED spent

TakeBranch(j, i) ==
    /\ TakesUp(jobs[j], "delete", i)
    /\ OnlyStep(j, [jobs[j] EXCEPT !.pc = "delete", !.now = i,
                                   !.rest = Descendants(jobs[j].before, i)])
    /\ UNCHANGED spent

(* Mutant: the folder before what is in it.                                 *)
FolderFirst(job, c) == job.rest \subseteq Descendants(job.before, c)

(* What is in a folder before the folder; among brothers any order stands   *)
(* for the listing's.                                                       *)
IsNext(job, c) == c \in job.rest /\ \A k \in job.rest \ {c} : job.before[k] # c

(* Mutant: the branch goes on when deleting a child fails.                  *)
SkipsChild(job, c) == IF job.rest = {c} THEN Fails(job, job.now)
                      ELSE [job EXCEPT !.rest = @ \ {c}]

(* A failure ends the branch.                                               *)
EndsBranch(job, c) == Fails(job, job.now)

(* What else is in the branch is next, or the branch is done.               *)
GoesOn(job, c) == IF job.rest = {c} THEN Succeeds([job EXCEPT !.rest = {}], job.now)
                  ELSE [job EXCEPT !.rest = @ \ {c}]

Delete(j, c, answered) ==
    LET job == jobs[j] IN
    /\ job.pc = "delete" /\ IsNext(job, c)
    /\ Exists(parent, c)
    /\ Remove(c, Descendants(job.before, c), j)
    /\ Behind(j)
    /\ Step(j, IF answered THEN GoesOn(job, c) ELSE EndsBranch(job, c))
    /\ Answered(answered)

DeleteSkipped(j, c) ==
    /\ jobs[j].pc = "delete" /\ IsNext(jobs[j], c)
    /\ Step(j, GoesOn(jobs[j], c))
    /\ adrift' = adrift \cup {k \in {c} : Exists(parent, k)}
    /\ Fault
    /\ UNCHANGED <<parent, fresh, overlapped, page, loads>>

DeleteFails(j, c) ==
    /\ jobs[j].pc = "delete" /\ IsNext(jobs[j], c)
    /\ OnlyStep(j, EndsBranch(jobs[j], c))
    /\ IF Exists(parent, c) THEN Fault ELSE UNCHANGED spent

(* A page that was left is not refreshed: its job is over.                  *)
AwaitsRefresh(j) ==
    LET job == jobs[j] IN
    /\ IF Heard(j)
       THEN /\ Refreshes(job.page, Here(j))
            /\ Step(j, [job EXCEPT !.pc = "refresh", !.awaited = Here(j).request + 1])
       ELSE Step(j, Over(job)) /\ UNCHANGED <<page, loads>>
    /\ UNCHANGED spent
    /\ TreeUnchanged

EndRun(j) == jobs[j].pc = "next" /\ jobs[j].todo = {} /\ AwaitsRefresh(j)

-----------------------------------------------------------------------------
(* New folders and uploads.                                                 *)

(* The folder that the page shows, where it can make things.                *)
CanCreate(p, dest) == dest \in Folder => /\ Exists(page[p].shown, dest)
                                         /\ ~InTrash(page[p].shown, dest)

(* The job fails: the page is free again, and says so.                      *)
GivesUp(j, why) ==
    /\ Step(j, [Over(jobs[j]) EXCEPT !.told = why])
    /\ page' = OnPage(j, [Here(j) EXCEPT !.busy = FALSE, !.toast = TRUE])
    /\ UNCHANGED loads
    /\ TreeUnchanged

CreateFolder(p, f, dest) ==
    /\ f \in fresh
    /\ \A j \in Begun : jobs[j].now # f
    /\ CanCreate(p, dest)
    /\ Begin(p, [Job(p, "create", dest) EXCEPT !.now = f])

MakeFolder(j) ==
    LET job == jobs[j] IN
    /\ job.pc = "create"
    /\ Put(job.now, job.dest, j)
    /\ Step(j, [job EXCEPT !.pc = "created"])
    /\ Behind(j)
    /\ UNCHANGED spent

FolderMade(j) == jobs[j].pc = "created" /\ AwaitsRefresh(j)

(* A request of an upload or for a folder fails, or its answer is lost.     *)
MakingFails(j) ==
    /\ jobs[j].pc \in {"create", "created", "upload", "replace"}
    /\ Fault
    /\ GivesUp(j, "failed")

Upload(p, files, dest) ==
    /\ CanCreate(p, dest)
    /\ Begin(p, [Job(p, "upload", dest) EXCEPT !.files = files])

File(job) == job.files[job.at]

(* createDocument: one file after the other.                                *)
StoreFile(j) ==
    LET job == jobs[j] IN
    /\ job.pc = "upload" /\ job.at <= Len(job.files)
    /\ ~Exists(parent, File(job))
    /\ Put(File(job), job.dest, j)
    /\ Step(j, [job EXCEPT !.at = @ + 1, !.lost = @ \ {File(job)}])
    /\ Behind(j)
    /\ UNCHANGED spent

(* The document is there already.                                           *)
Conflicts(job) == job.pc = "upload" /\ job.at <= Len(job.files) /\ Exists(parent, File(job))

(* Mutant: the user is asked about every conflict.                          *)
AsksAlways(job) == TRUE

(* The user is asked the first time.                                        *)
Asks(job) == ~job.again

Conflict(j) ==
    /\ Conflicts(jobs[j]) /\ Asks(jobs[j])
    /\ OnlyStep(j, [jobs[j] EXCEPT !.pc = "confirm"])
    /\ UNCHANGED spent

ConflictAgain(j) ==
    /\ Conflicts(jobs[j]) /\ ~Asks(jobs[j])
    /\ GivesUp(j, "conflict")
    /\ UNCHANGED spent

(* filesUploaded: the refresh is not awaited.                               *)
Uploaded(j) ==
    /\ Step(j, Over(jobs[j]))
    /\ IF Heard(j) THEN Refreshes(jobs[j].page, [Here(j) EXCEPT !.busy = FALSE])
       ELSE UNCHANGED <<page, loads>>
    /\ UNCHANGED spent
    /\ TreeUnchanged

UploadEnds(j) == jobs[j].pc = "upload" /\ jobs[j].at > Len(jobs[j].files) /\ Uploaded(j)

Decline(j) == jobs[j].pc = "confirm" /\ Uploaded(j)

Accept(j) ==
    /\ jobs[j].pc = "confirm"
    /\ OnlyStep(j, [jobs[j] EXCEPT !.pc = "replace"])
    /\ UNCHANGED spent

(* The old document is deleted, and then the batch is uploaded once more.   *)
Replace(j) ==
    LET job == jobs[j] IN
    /\ job.pc = "replace" /\ Exists(parent, File(job))
    /\ Remove(File(job), {}, j)
    /\ Step(j, [job EXCEPT !.pc = "upload", !.at = 1, !.again = TRUE,
                           !.lost = @ \cup {File(job)}])
    /\ Behind(j)
    /\ UNCHANGED spent

(* The old document is still there.                                         *)
ReplaceSkipped(j) ==
    /\ jobs[j].pc = "replace"
    /\ OnlyStep(j, [jobs[j] EXCEPT !.pc = "upload", !.at = 1, !.again = TRUE])
    /\ Fault

(* Someone else has deleted it: the request fails.                          *)
ReplaceFails(j) ==
    /\ jobs[j].pc = "replace" /\ ~Exists(parent, File(jobs[j]))
    /\ GivesUp(j, "failed")
    /\ UNCHANGED spent

-----------------------------------------------------------------------------
(* The tablet sees the tree it changes.                                     *)
Edit(i, place) ==
    /\ spent.edits < MaxEdits
    /\ spent' = [spent EXCEPT !.edits = @ + 1]
    /\ Exists(parent, i) /\ parent[i] # place
    /\ place \in Folder => Exists(parent, place) /\ i \notin Chain(parent, place)
    /\ Put(i, place, 0)
    /\ UNCHANGED <<page, loads, jobs>>

RunStep(j) ==
    \/ \E i \in Item : Validate(j, i) \/ Refuse(j, i) \/ TakeBranch(j, i)
    \/ \E answered \in BOOLEAN : Move(j, answered)
    \/ MoveFails(j)
    \/ MoveSkipped(j)
    \/ \E c \in Item, answered \in BOOLEAN : Delete(j, c, answered)
    \/ \E c \in Item : DeleteFails(j, c) \/ DeleteSkipped(j, c)
    \/ EndRun(j)

MakeStep(j) ==
    \/ MakeFolder(j)
    \/ FolderMade(j)
    \/ MakingFails(j)
    \/ StoreFile(j)
    \/ Conflict(j)
    \/ ConflictAgain(j)
    \/ UploadEnds(j)
    \/ Replace(j)
    \/ ReplaceFails(j)
    \/ ReplaceSkipped(j)

JobStep(j) == j \in Begun /\ (RunStep(j) \/ MakeStep(j))

LoadStep == \E l \in loads : ServeLoad(l) \/ Deliver(l) \/ LoadFails(l)

User(p) ==
    \/ Refresh(p)
    \/ Remount(p)
    \/ \E ids \in Selections : Run(p, "delete", ids, Root)
    \/ \E ids \in Selections, dest \in Dest : Run(p, "move", ids, dest)
    \/ \E f \in Folder, dest \in Dest : CreateFolder(p, f, dest)
    \/ \E files \in Batches, dest \in Dest : Upload(p, files, dest)

Answer == \E j \in Begun : Decline(j) \/ Accept(j)

Tablet == \E edit \in Edits : Edit(edit[1], edit[2])

Next ==
    \/ \E p \in Page : User(p)
    \/ Answer
    \/ Tablet
    \/ LoadStep
    \/ \E j \in JobId : JobStep(j)

(* Requests are answered or fail, and the code goes on.  The user need not. *)
Fairness == WF_vars(LoadStep) /\ \A j \in JobId : WF_vars(JobStep(j))

Spec == Init /\ [][Next]_vars /\ Fairness

-----------------------------------------------------------------------------
PageType == [mount : Nat, request : Nat, loading : BOOLEAN, error : BOOLEAN,
             toast : BOOLEAN, busy : BOOLEAN, shown : Tree, behind : BOOLEAN]

LoadType == [page : Page, n : Nat, read : BOOLEAN, list : Tree, behind : BOOLEAN]

Kind == {"move", "delete", "create", "upload", "over"}
Pc   == Kind \cup {"next", "apply", "refresh", "created", "confirm", "replace"}
Told == {"no", "failed", "conflict"}

JobType == [page : Page, mount : Nat, kind : Kind, pc : Pc, dest : Folder \cup {Root},
            now : Item \cup {Root}, todo : SUBSET Item, rest : SUBSET Item, before : Tree,
            files : Seq(Doc), at : Nat \ {0}, again : BOOLEAN, lost : SUBSET Doc,
            told : Told, awaited : Nat]

(* Everything has the values it is meant to have.                           *)
TypeOK ==
    /\ parent \in Tree /\ fresh \subseteq Folder
    /\ page \in [Page -> PageType]
    /\ loads \subseteq LoadType
    /\ jobs \in Seq(JobType)
    /\ \A j \in Begun : /\ jobs[j].pc = "apply" => jobs[j].now \in Item
                        /\ jobs[j].pc \in {"confirm", "replace"}
                              => jobs[j].at <= Len(jobs[j].files)
    /\ spent \in [mounts : Nat, edits : Nat, faults : Nat]
    /\ overlapped \in BOOLEAN
    /\ adrift \subseteq Item

(* As long as nothing changes the tree between the validation of a move and *)
(* the move, every item stays in sight: no folder ends up in itself.        *)
TreeIsWhole == overlapped \/ \A i \in Item : Exists(parent, i) => Exists(Listing(parent), i)

(* Deleting a folder leaves nothing behind that was listed in it: an item   *)
(* whose folder is gone came there unseen by whoever deleted the folder, or *)
(* its own deletion was answered as done and had not been done.             *)
NoOrphans == \A i \in Item : parent[i] \in Folder /\ ~Exists(parent, parent[i]) => i \in adrift

(* A page at rest that reports no error shows a listing no older than the   *)
(* last change that it made: no late answer hides what was done.            *)
ShowsOwnWork ==
    \A p \in Page : \/ page[p].busy \/ page[p].loading \/ page[p].error \/ page[p].toast
                    \/ ~page[p].behind

(* A document that was deleted to be replaced is there again, or the user   *)
(* has been told that the upload failed.                                    *)
LossIsTold == \A j \in Begun : jobs[j].pc = "over" /\ jobs[j].lost # {} => jobs[j].told # "no"

(* run (index.jsx) deletes children first and never orphans them: whoever   *)
(* deletes a folder has deleted what it listed in it.                       *)
ChildrenGoFirst ==
    [][\A j \in Begun, f \in Folder :
          f \in jobs[j].rest /\ Exists(parent, f) /\ ~Exists(parent', f)
             => \A k \in Descendants(jobs[j].before, f) : parent[k] # f]_vars

Asked(p) == \E j \in Begun : jobs[j].page = p /\ jobs[j].pc = "confirm" /\ Heard(j)

(* A page that is busy becomes free, or has asked its user something.       *)
PagesGetFree == \A p \in Page : page[p].busy ~> (~page[p].busy \/ Asked(p))

=============================================================================
