-------------------------------- MODULE Library --------------------------------
(***************************************************************************)
(* The jobs of the web library (internal/ui/library_jobs.go) and their     *)
(* database and files (internal/library): the search index, the snapshots  *)
(* of documents and the backups, made while tablets and browsers change    *)
(* the documents, and while the server stops, crashes and starts again.    *)
(*                                                                         *)
(* A user of sync15 has documents whose version is the hash of their       *)
(* content: every change makes a new one, and the content is represented   *)
(* by its version.  A document of sync10 has as its version what the       *)
(* metadata says of it, LastModified:Size:Name.  The archive changes       *)
(* before that, and a tablet may say what it said before, so that such a   *)
(* version tells nothing of the content; the model leaves the content of   *)
(* these documents open.                                                   *)
(*                                                                         *)
(* A file written by WriteFile appears whole, by a rename; a statement and *)
(* a transaction of the database are steps.  A user has one job at a time, *)
(* so what only jobs change is read where it is used.                      *)
(***************************************************************************)
EXTENDS Integers, Sequences, FiniteSets, SequencesExt, FiniteSetsExt

CONSTANTS User, Doc,
          Sync15,     \* the users whose accounts synchronise with sync15
          Slots,      \* jobs at a time, 2 in startLibrary
          Retain,     \* what users choose as the number of snapshots to keep
          None,       \* no document, no row
          Asked,      \* bound: documents for which alone a job is started
          MaxEdits,   \* bound: changes of documents
          MaxRuns,    \* bound: jobs started
          MaxFaults   \* bound: crashes, failed writes to the database and removals

ASSUME UserAssumption == IsFiniteSet(User) /\ Sync15 \subseteq User
ASSUME SlotsAssumption == Slots \in Nat \ {0}
ASSUME RetainAssumption == Retain \subseteq 1..100
ASSUME NoneAssumption == None \notin Doc /\ Asked \subseteq Doc
ASSUME BoundAssumption == MaxEdits \in Nat /\ MaxRuns \in Nat /\ MaxFaults \in Nat

VARIABLES
    doc,       \* where each user's documents are, and their versions
    server,    \* "up", "stopping" after CloseLibrary's cancel, "down"
    job,       \* the goroutine of each user's job
    slots,     \* tokens in s.slots
    open,      \* rows of each user in runs whose status is running
    index,     \* the rows of indexed, with the version of their pages
    snaps,     \* the rows of snapshots, newest first
    files,     \* the snapshot files
    exported,  \* the rows of exported
    backups,   \* the files at the backup's destination
    edits, runs, faults,
    unsaved,   \* users whose FinishRun has failed since the server started
    cut        \* users of whom a job has not seen the whole library

vars == <<doc, server, job, slots, open, index, snaps, files, exported,
          backups, edits, runs, faults, unsaved, cut>>

tables == <<index, snaps, files, exported, backups>>
counts == <<slots, open, edits, runs>>
observed == <<faults, unsaved, cut>>

Idle == [pc |-> "idle"]
Kinds == {"index", "snapshots", "backup"}

Init ==
    /\ doc = [u \in User |-> [d \in Doc |-> [at |-> "library", ver |-> 1]]]
    /\ server = "up"
    /\ job = [u \in User |-> Idle]
    /\ slots = 0
    /\ open = [u \in User |-> 0]
    /\ index = [u \in User |-> [d \in Doc |-> None]]
    /\ snaps = [u \in User |-> [d \in Doc |-> <<>>]]
    /\ files = [u \in User |-> {}]
    /\ exported = [u \in User |-> [d \in Doc |-> 0]]
    /\ backups = [u \in User |-> {}]
    /\ edits = 0 /\ runs = 0 /\ faults = 0
    /\ unsaved = {} /\ cut = {}

At(u, label) == job[u].pc = label
Goto(u, label) == job' = [job EXCEPT ![u].pc = label]
NextDocument(u) == job' = [job EXCEPT ![u].pc = "next", ![u].doc = None, ![u].got = 0]

Fault ==
    /\ faults < MaxFaults
    /\ faults' = faults + 1

-----------------------------------------------------------------------------
(* What tablets and browsers do to the documents meanwhile.                 *)

NextVersions(u, d) ==
    IF u \in Sync15 THEN {doc[u][d].ver + 1} ELSE 1..(doc[u][d].ver + 1)

Change(u, d, place) ==
    /\ edits < MaxEdits
    /\ edits' = edits + 1
    /\ \E v \in NextVersions(u, d) : doc' = [doc EXCEPT ![u][d] = [at |-> place, ver |-> v]]
    /\ UNCHANGED <<server, job, slots, open, tables, runs, observed>>

Edit(u, d) == doc[u][d].at = "library" /\ Change(u, d, "library")
Trash(u, d) == doc[u][d].at = "library" /\ Change(u, d, "trash")
Untrash(u, d) == doc[u][d].at = "trash" /\ Change(u, d, "library")
Delete(u, d) == doc[u][d].at # "gone" /\ Change(u, d, "gone")
Restore(u, d) == doc[u][d].at = "gone" /\ Change(u, d, "library")

Listed(u) == {d \in Doc : doc[u][d].at = "library"}

(* The version the second read of inventory gives; "" (0) when it is gone.  *)
VersionOf(u, d) == IF doc[u][d].at = "gone" THEN 0 ELSE doc[u][d].ver

(* What an export reads now: of a sync10 document anything (0).             *)
Content(u, d) == IF u \in Sync15 THEN VersionOf(u, d) ELSE 0

(* While a commit writes the root of a sync15 account, the mirrored tree is *)
(* empty: a listing has no document, and a document no version.             *)
SeesNothing(u) == u \in Sync15

-----------------------------------------------------------------------------
(* start: refused when the server stops, the user's job runs or all workers *)
(* are busy.  A user starts a job for all documents or one; the scheduler   *)
(* starts one when it is due, here at any time.                             *)

CanStart(u) == server = "up" /\ job[u] = Idle /\ slots < Slots /\ runs < MaxRuns

Start(u, kind, only) ==
    /\ CanStart(u)
    /\ runs' = runs + 1
    /\ slots' = slots + 1
    /\ open' = [open EXCEPT ![u] = @ + 1]
    /\ job' = [job EXCEPT ![u] = [pc |-> "list", kind |-> kind, only |-> only]]
    /\ UNCHANGED <<doc, server, tables, edits, observed>>

(* execute: the inventory is a listing and then a reading of versions; the  *)
(* policy is what the user has saved by now.                                *)
Lists(u, documents) ==
    /\ At(u, "list")
    /\ job' = [job EXCEPT ![u] = [pc |-> "versions", kind |-> @.kind,
                                  only |-> @.only, todo |-> documents]]
    /\ UNCHANGED <<doc, server, counts, tables, faults, unsaved>>

List(u) == Lists(u, Listed(u)) /\ UNCHANGED cut

ListNothing(u) == SeesNothing(u) /\ Lists(u, {}) /\ cut' = cut \cup {u}

ReadVersions(u) ==
    /\ At(u, "versions")
    /\ \E told \in {TRUE, ~SeesNothing(u)}, retain \in (IF job[u].kind = "snapshots" THEN Retain ELSE {0}),
          daily \in (IF job[u].kind = "backup" THEN BOOLEAN ELSE {TRUE}) :
          job' = [job EXCEPT ![u] =
                    [pc |-> "next", kind |-> @.kind, only |-> @.only,
                     todo |-> @.todo, live |-> {}, doc |-> None, got |-> 0,
                     ver |-> [d \in @.todo |-> IF told THEN VersionOf(u, d) ELSE 0],
                     retain |-> retain, daily |-> daily]]
    /\ UNCHANGED <<doc, server, counts, tables, observed>>

(* GetUser, the tree or the policy cannot be read.                          *)
InventoryFails(u) ==
    /\ At(u, "list") \/ At(u, "versions")
    /\ Goto(u, "finish")
    /\ UNCHANGED <<doc, server, counts, tables, observed>>

-----------------------------------------------------------------------------
(* The loop over the listed documents: every one of them is live; only one  *)
(* may be asked for; a shutdown ends the loop.                              *)

Wanted(u, d) == job[u].only \in {None, d}

(* Mutant: the version in use is read again.                                *)
CurrentVersion(u) == VersionOf(u, job[u].doc)

(* The version in the inventory of the document at hand.                    *)
Version(u) == job[u].ver[job[u].doc]

Visit(u) ==
    /\ At(u, "next")
    /\ \E d \in job[u].todo :
          /\ Wanted(u, d) => server = "up"
          /\ job' = [job EXCEPT ![u].todo = @ \ {d},
                                ![u].live = @ \cup {d},
                                ![u].doc = IF Wanted(u, d) THEN d ELSE None,
                                ![u].pc = IF Wanted(u, d) THEN job[u].kind ELSE "next"]
    /\ UNCHANGED <<doc, server, counts, tables, observed>>

Interrupt(u) ==
    /\ At(u, "next") /\ server = "stopping"
    /\ \E d \in {e \in job[u].todo : Wanted(u, e)} :
          job' = [job EXCEPT ![u].todo = {}, ![u].live = @ \cup {d},
                             ![u].pc = "prune"]
    /\ cut' = cut \cup {u}
    /\ UNCHANGED <<doc, server, counts, tables, faults, unsaved>>

LoopEnds(u) ==
    /\ At(u, "next") /\ job[u].todo = {}
    /\ Goto(u, "prune")
    /\ UNCHANGED <<doc, server, counts, tables, observed>>

(* The document's step returns early: nothing to do, or the export, the     *)
(* text extraction, the recognition or the upload failed.                   *)
Current(u) ==
    LET d == job[u].doc IN
    \/ At(u, "index") /\ index[u][d] # None /\ index[u][d].ver = Version(u)
    \/ At(u, "snapshots") /\ snaps[u][d] # <<>> /\ snaps[u][d][1].ver = Version(u)
    \/ At(u, "backup") /\ job[u].daily /\ exported[u][d] = Version(u)

Return(u) ==
    /\ job[u].pc \in Kinds
    /\ NextDocument(u)
    /\ UNCHANGED <<doc, server, counts, tables, observed>>

(* Export reads the tree as it is now; what it reads of it is immutable.    *)
CanExport(u) == job[u].pc \in Kinds /\ ~Current(u) /\ VersionOf(u, job[u].doc) # 0

-----------------------------------------------------------------------------
(* index *)

Export(u) ==
    /\ At(u, "index") /\ CanExport(u)
    /\ job' = [job EXCEPT ![u].pc = "store", ![u].got = Content(u, job[u].doc)]
    /\ UNCHANGED <<doc, server, counts, tables, observed>>

Index(u) ==
    /\ At(u, "store")
    /\ index' = [index EXCEPT ![u][job[u].doc] =
                    [ver |-> Version(u), pages |-> job[u].got]]
    /\ NextDocument(u)
    /\ UNCHANGED <<doc, server, counts, snaps, files, exported, backups, observed>>

(* PruneIndex: the pages of a row that is not live, then the row.           *)
Stale(u) == {d \in Doc \ job[u].live : index[u][d] # None}

PrunePages(u) ==
    /\ At(u, "prune") /\ job[u].kind = "index" /\ job[u].only = None
    /\ \E d \in Stale(u) :
          /\ index' = [index EXCEPT ![u][d].pages = 0]
          /\ job' = [job EXCEPT ![u].doc = d, ![u].pc = "unindex"]
    /\ UNCHANGED <<doc, server, counts, snaps, files, exported, backups, observed>>

PruneRow(u) ==
    /\ At(u, "unindex")
    /\ index' = [index EXCEPT ![u][job[u].doc] = None]
    /\ job' = [job EXCEPT ![u].pc = "prune", ![u].doc = None]
    /\ UNCHANGED <<doc, server, counts, snaps, files, exported, backups, observed>>

PruneEnds(u) ==
    /\ At(u, "prune")
    /\ job[u].kind = "index" /\ job[u].only = None => Stale(u) = {}
    /\ Goto(u, "finish")
    /\ UNCHANGED <<doc, server, counts, tables, observed>>

-----------------------------------------------------------------------------
(* snapshot *)

(* A new uuid: here the least number no row or file has.                    *)
NewId(u) ==
    LET used == {f.id : f \in files[u]}
                  \cup UNION {{snaps[u][d][i].id : i \in DOMAIN snaps[u][d]} : d \in Doc}
    IN  Min(1..(Cardinality(used) + 1) \ used)

File(id, ext, ver) == [id |-> id, ext |-> ext, ver |-> ver]

ExportRaw(u) ==
    /\ At(u, "snapshots") /\ CanExport(u)
    /\ job' = [job EXCEPT ![u].pc = "pdf", ![u].got = NewId(u)]
    /\ files' = [files EXCEPT ![u] =
                    @ \cup {File(NewId(u), "rmdoc", Content(u, job[u].doc))}]
    /\ UNCHANGED <<doc, server, counts, index, snaps, exported, backups, observed>>

(* The PDF may fail; the snapshot is then made without it.                  *)
ExportPdf(u) ==
    /\ At(u, "pdf")
    /\ Goto(u, "relist")
    /\ \/ UNCHANGED files
       \/ /\ VersionOf(u, job[u].doc) # 0
          /\ files' = [files EXCEPT ![u] =
                          @ \cup {File(job[u].got, "pdf", Content(u, job[u].doc))}]
    /\ UNCHANGED <<doc, server, counts, index, snaps, exported, backups, observed>>

(* Mutant: it is enough that the document is still there.                   *)
StillThere(u) == VersionOf(u, job[u].doc) # 0

Stable(u) == VersionOf(u, job[u].doc) = Version(u)

(* The second inventory: the document is listed, and its version is still   *)
(* the one of the first, or still not to be told.                           *)
Relist(u) ==
    /\ At(u, "relist")
    /\ Goto(u, IF job[u].doc \in Listed(u) THEN "recheck" ELSE "discard")
    /\ UNCHANGED <<doc, server, counts, tables, observed>>

Recheck(u) ==
    /\ At(u, "recheck")
    /\ Goto(u, IF Stable(u) THEN "add" ELSE "discard")
    /\ UNCHANGED <<doc, server, counts, tables, observed>>

RecheckNothing(u) ==
    /\ At(u, "recheck") /\ SeesNothing(u)
    /\ Goto(u, IF Version(u) = 0 THEN "add" ELSE "discard")
    /\ UNCHANGED <<doc, server, counts, tables, observed>>

(* The inventory cannot be read, or lists nothing.                          *)
RecheckFails(u) ==
    /\ At(u, "relist") \/ At(u, "recheck")
    /\ Goto(u, "discard")
    /\ UNCHANGED <<doc, server, counts, tables, observed>>

AddFails(u) ==
    /\ At(u, "add")
    /\ Fault
    /\ Goto(u, "discard")
    /\ UNCHANGED <<doc, server, counts, tables, cut, unsaved>>

(* Mutant: only the archive is removed.                                     *)
ArchiveOf(u, id) == {f \in files[u] : f.id = id /\ f.ext = "rmdoc"}

FilesOf(u, id) == {f \in files[u] : f.id = id}

Discard(u) ==
    /\ At(u, "discard")
    /\ files' = [files EXCEPT ![u] = @ \ FilesOf(u, job[u].got)]
    /\ NextDocument(u)
    /\ UNCHANGED <<doc, server, counts, index, snaps, exported, backups, observed>>

AddSnapshot(u) ==
    /\ At(u, "add")
    /\ snaps' = [snaps EXCEPT ![u][job[u].doc] =
                    <<[id |-> job[u].got, ver |-> Version(u),
                       pdf |-> \E f \in FilesOf(u, job[u].got) : f.ext = "pdf"]>> \o @]
    /\ job' = [job EXCEPT ![u].pc = "trim", ![u].got = 0]
    /\ UNCHANGED <<doc, server, counts, index, files, exported, backups, observed>>

(* What is beyond the newest `retain` is deleted, the newer first.          *)
(* Mutant: the new snapshot is counted twice.                               *)
KeepsOneLess(u) == job[u].retain - 1

Kept(u) == job[u].retain

Trim(u) ==
    LET rows == snaps[u][job[u].doc] IN
    /\ At(u, "trim") /\ Len(rows) > Kept(u)
    /\ snaps' = [snaps EXCEPT ![u][job[u].doc] = RemoveAt(@, Kept(u) + 1)]
    /\ job' = [job EXCEPT ![u].pc = "unlink", ![u].got = rows[Kept(u) + 1].id]
    /\ UNCHANGED <<doc, server, counts, index, files, exported, backups, observed>>

Unlink(u) ==
    /\ At(u, "unlink")
    /\ files' = [files EXCEPT ![u] = @ \ FilesOf(u, job[u].got)]
    /\ job' = [job EXCEPT ![u].pc = "trim", ![u].got = 0]
    /\ UNCHANGED <<doc, server, counts, index, snaps, exported, backups, observed>>

(* The error of os.Remove is ignored: files may stay.                       *)
RemoveFails(u) ==
    /\ At(u, "discard") \/ At(u, "unlink")
    /\ Fault
    /\ \E left \in SUBSET FilesOf(u, job[u].got) \ {{}} :
          files' = [files EXCEPT ![u] = (@ \ FilesOf(u, job[u].got)) \cup left]
    /\ IF At(u, "discard") THEN NextDocument(u)
       ELSE job' = [job EXCEPT ![u].pc = "trim", ![u].got = 0]
    /\ UNCHANGED <<doc, server, counts, index, snaps, exported, backups, cut, unsaved>>

TrimEnds(u) ==
    /\ At(u, "trim") /\ Len(snaps[u][job[u].doc]) <= Kept(u)
    /\ NextDocument(u)
    /\ UNCHANGED <<doc, server, counts, tables, observed>>

-----------------------------------------------------------------------------
(* backup: a file with a new name, then the note of what it holds.          *)

Write(u) ==
    /\ At(u, "backup") /\ CanExport(u)
    /\ backups' = [backups EXCEPT ![u] =
                      @ \cup {[doc |-> job[u].doc, ver |-> Content(u, job[u].doc)]}]
    /\ Goto(u, "mark")
    /\ UNCHANGED <<doc, server, counts, index, snaps, files, exported, observed>>

MarkExported(u) ==
    /\ At(u, "mark")
    /\ exported' = [exported EXCEPT ![u][job[u].doc] = Version(u)]
    /\ NextDocument(u)
    /\ UNCHANGED <<doc, server, counts, index, snaps, files, backups, observed>>

(* A statement of the database fails where the code returns its error.      *)
StatementFails(u) ==
    /\ At(u, "store") \/ At(u, "mark") \/ At(u, "trim") \/ At(u, "unindex")
    /\ Fault
    /\ IF At(u, "unindex") THEN Goto(u, "finish") ELSE NextDocument(u)
    /\ UNCHANGED <<doc, server, counts, tables, cut, unsaved>>

-----------------------------------------------------------------------------
(* FinishRun, and the deferred release of the account and of the slot.      *)

End(u) ==
    /\ At(u, "finish")
    /\ job' = [job EXCEPT ![u] = Idle]
    /\ slots' = slots - 1

Finish(u) ==
    /\ End(u)
    /\ open' = [open EXCEPT ![u] = @ - 1]
    /\ UNCHANGED <<doc, server, tables, edits, runs, observed>>

FinishFails(u) ==
    /\ End(u)
    /\ Fault
    /\ unsaved' = unsaved \cup {u}
    /\ UNCHANGED <<doc, server, open, tables, edits, runs, cut>>

(* CloseLibrary cancels the context and waits; what start has begun by then *)
(* is a job that it waits for.  The HTTP server has stopped before.         *)
Stop ==
    /\ server = "up"
    /\ server' = "stopping"
    /\ UNCHANGED <<doc, job, counts, tables, observed>>

Close ==
    /\ server = "stopping" /\ slots = 0
    /\ server' = "down"
    /\ UNCHANGED <<doc, job, counts, tables, observed>>

(* The process is killed, or App.Stop gives up on the HTTP server.          *)
Crash ==
    /\ server # "down"
    /\ Fault
    /\ server' = "down"
    /\ job' = [u \in User |-> Idle]
    /\ slots' = 0
    /\ UNCHANGED <<doc, open, tables, edits, runs, cut, unsaved>>

(* Mutant: the runs that a crash has left running stay so.                  *)
OpensAsItIs ==
    /\ server = "down"
    /\ server' = "up"
    /\ unsaved' = {}
    /\ UNCHANGED <<doc, job, slots, open, tables, edits, runs, faults, cut>>

(* Open ends the runs that were left running.                               *)
Open ==
    /\ server = "down"
    /\ server' = "up"
    /\ open' = [u \in User |-> 0]
    /\ unsaved' = {}
    /\ UNCHANGED <<doc, job, slots, tables, edits, runs, faults, cut>>

Work(u) ==
    \/ List(u) \/ ListNothing(u) \/ ReadVersions(u) \/ InventoryFails(u)
    \/ Visit(u) \/ Interrupt(u) \/ LoopEnds(u) \/ Return(u)
    \/ Export(u) \/ Index(u) \/ PrunePages(u) \/ PruneRow(u) \/ PruneEnds(u)
    \/ ExportRaw(u) \/ ExportPdf(u) \/ Relist(u) \/ Recheck(u) \/ RecheckNothing(u)
    \/ RecheckFails(u) \/ AddFails(u) \/ Discard(u) \/ AddSnapshot(u)
    \/ Trim(u) \/ Unlink(u) \/ RemoveFails(u) \/ TrimEnds(u)
    \/ Write(u) \/ MarkExported(u) \/ StatementFails(u)
    \/ Finish(u) \/ FinishFails(u)

Environment(u) ==
    \E d \in Doc :
        Edit(u, d) \/ Trash(u, d) \/ Untrash(u, d) \/ Delete(u, d) \/ Restore(u, d)

Next ==
    \/ Stop \/ Close \/ Crash \/ Open
    \/ \E u \in User : \/ Work(u) \/ Environment(u)
                       \/ \E kind \in Kinds, only \in Asked \cup {None} : Start(u, kind, only)

Spec == Init /\ [][Next]_vars
-----------------------------------------------------------------------------
Rows(u, d) == {snaps[u][d][i] : i \in DOMAIN snaps[u][d]}

TypeOK ==
    /\ doc \in [User -> [Doc -> [at : {"library", "trash", "gone"}, ver : Nat]]]
    /\ server \in {"up", "stopping", "down"}
    /\ \A u \in User : job[u] = Idle \/ (job[u].kind \in Kinds /\ job[u].only \in Doc \cup {None})
    /\ slots \in 0..Slots
    /\ open \in [User -> Nat]
    /\ index \in [User -> [Doc -> {None} \cup [ver : Nat, pages : Nat]]]
    /\ \A u \in User, d \in Doc : Rows(u, d) \subseteq [id : Nat, ver : Nat, pdf : BOOLEAN]
    /\ \A u \in User : files[u] \subseteq [id : Nat, ext : {"rmdoc", "pdf"}, ver : Nat]
    /\ exported \in [User -> [Doc -> Nat]]
    /\ \A u \in User : backups[u] \subseteq [doc : Doc, ver : Nat]
    /\ edits \in 0..MaxEdits /\ runs \in 0..MaxRuns /\ faults \in 0..MaxFaults
    /\ unsaved \subseteq User /\ cut \subseteq User

(* A recorded snapshot has its files, and for an account of sync15 they     *)
(* hold the very version it is recorded with, if that could be told:        *)
(* whatever changed during the capture, and wherever a crash or an error    *)
(* fell between files and rows (snapshot).                                  *)
SnapshotIsItsVersion ==
    \A u \in User, d \in Doc : \A row \in Rows(u, d) :
        /\ \E f \in FilesOf(u, row.id) : f.ext = "rmdoc"
        /\ row.pdf => \E f \in FilesOf(u, row.id) : f.ext = "pdf"
        /\ u \in Sync15 /\ row.ver # 0 => \A f \in FilesOf(u, row.id) : f.ver = row.ver

(* Without a crash, an error of the database or a file that cannot be       *)
(* removed, no job leaves a file that no snapshot refers to, whichever way  *)
(* the capture ended, also when the documents cannot be listed (snapshot).  *)
NoLitter ==
    faults = 0 => \A u \in User : job[u] = Idle =>
        \A f \in files[u] : \E d \in Doc : \E row \in Rows(u, d) : row.id = f.id

(* Retention deletes only what has `retain` newer snapshots of the same     *)
(* document that stay, also when earlier jobs failed to delete (snapshot).  *)
TrimsOnlyTheOldest ==
    [][\A u \in User, d \in Doc : \A i \in DOMAIN snaps[u][d] :
          snaps[u][d][i] \notin Rows(u, d)'
             => Cardinality({k \in 1..(i - 1) : snaps[u][d][k] \in Rows(u, d)'}) >= job[u].retain]_vars

(* A document of sync15 indexed at its present version is found by its      *)
(* present text: an index made while the document changed is made again     *)
(* (index).  Left out is who had live documents pruned, by a shutdown or by *)
(* a listing while the root was written.                                    *)
IndexIsFresh ==
    \A u \in Sync15 \ cut : \A d \in Listed(u) :
        index[u][d] # None /\ index[u][d].ver = doc[u][d].ver
            => index[u][d].pages = doc[u][d].ver

(* What the daily backup skips is there: a document of sync15 noted as      *)
(* exported at its present version has a file with that content (backup).   *)
SkippedIsBackedUp ==
    \A u \in Sync15, d \in Doc :
        exported[u][d] = VersionOf(u, d) /\ exported[u][d] # 0
            => [doc |-> d, ver |-> exported[u][d]] \in backups[u]

(* The workers that are taken are those of running jobs, and the activity   *)
(* list shows a run as running only while its job runs, or when the end of  *)
(* it could not be written: a crash leaves none behind (start, Open).       *)
JobsAreAccounted ==
    /\ slots = Cardinality({u \in User : job[u] # Idle})
    /\ server # "down" => \A u \in User :
          IF job[u] # Idle THEN open[u] > 0 ELSE open[u] > 0 => u \in unsaved

(* Stopping or replacing the server preserves the library's data: the index *)
(* of a document that is in the library, and unchanged since, stays.        *)
IndexSurvives ==
    [][\A u \in User : \A d \in Listed(u) :
          index[u][d] # None /\ index[u][d].ver = doc[u][d].ver
              => index'[u][d] # None]_vars
=============================================================================
