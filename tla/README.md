# A formal model of rmfakecloud

rmfakecloud is a server that stands in for the cloud of a reMarkable tablet: it
stores and synchronises documents, pairs devices, tells the devices of a user
about each other's changes, shares screens, and hands events to outbound
integrations. Its web UI lists and edits the documents of an account. The modules
in this directory model, check and in part prove the concurrent core of the
server and of the document browser in the web UI.

| file | what it is |
|---|---|
| `RootRegister.tla` | what the root of a sync15 storage promises (abstract) |
| `RootStore.tla`, `MCRootStore.tla` | the root's files, lock and operations; implements `RootRegister` |
| `DocumentEvents.tla` | `RootStore` composed with what the server makes of its own commits |
| `RootStoreProofs.tla` | the theorems about `RootStore` and `DocumentEvents` |
| `SyncTree.tla`, `MCSyncTree.tla` | edits of the document tree through cache, mirror and retry |
| `SyncTreeProofs.tla` | the theorems about `SyncTree` |
| `Hub.tla`, `MCHub.tla` | the websocket notification hub |
| `Automation.tla`, `MCAutomation.tla` | event bus, integrations, deliveries |
| `DeliveryProofs.tla` | the theorems about `Automation` and `Hub`, which have no state in common |
| `Library.tla`, `MCLibrary.tla` | index, snapshot and backup jobs, their database and files |
| `ScreenShare.tla`, `MCScreenShare.tla` | the rooms of a screen share and those who use them |
| `LibraryProofs.tla`, `ScreenShareProofs.tla` | the theorems about them |
| `Browser.tla`, `MCBrowser.tla` | the document browser's pages and jobs, and the tree they work on |
| `BrowserProofs.tla` | the theorems about `Browser` |
| `Accounts.tla`, `MCAccounts.tla` | profiles, the first login, pairing codes, passcode resets |
| `AccountsProofs.tla` | the theorems about profiles, codes and resets |
| `Sync10.tla`, `MCSync10.tla` | the files of documents that are synchronised the old way |
| `Sync10Proofs.tla` | the theorems about `Sync10` |
| `MC*.cfg` | the instances that are model-checked |
| `PROJECT.json` | components, runs, the source lines of every definition, hazards |

Run with `tlc -config MCRootStore.cfg MCRootStore` and `tlapm
RootStoreProofs.tla`, and likewise for the others. `MCRootStore` is the instance
of `DocumentEvents`, and so of `RootStore` within it.

## 1. Inventory

**Sync15 root and blob store** (`internal/storage/fs/blobstore.go`,
`localblobstorage.go`, `app.go`). State per user: blobs named by their content,
the file `root` with the hash of the current index, `.root.history` with one
line per commit, whose length divided by 86 *is* the generation number, and a
lock file on the history. `StoreBlob("root")` checks the generation, appends a
line, truncates and writes `root`, unlocks, and only then publishes
`internal.root_committed`. `LoadBlob("root")` takes the generation under the
lock and returns an open file that the caller reads after unlocking. Callers:
the sync API (v3, v4), signed uploads and downloads, and the tree below. Hard:
the read outside the lock, crashes between the two files, partial appends, and
two writes to the history whose errors are ignored. It is correct when no
accepted commit replaces a root its client has not seen and every change is
announced once, with its own two roots.

**Sync15 document tree** (`models/hashtree.go`, `models/hashdoc.go`,
`blobstore.go`, `ui/backend15.go`). State: the cached tree in the file `.tree`
and, per request, a tree in memory. `GetCachedTree` loads it and mirrors it to
the root, without the documents whose metadata says that they are deleted;
`updateTree` applies a mutation, writes index and root, and on a wrong
generation mirrors again and repeats, three times. Hard: nothing serialises
requests or the cache file; errors are dropped in several places; the root may
be read while it is truncated. It is correct when every commit is one edit of
the root before it, as its client saw it, an answer tells the truth, and the
cache is a committed tree.

**Notification hub** (`internal/app/hub/hub.go`). State: the connections, their
three goroutines each, a queue of five. Operations: connect, publish (four
kinds), dispatch, remove. Publishers: sync handlers, web UI, passcode resets,
screen sharing. Hard: unbuffered channels between goroutines that end at any
time, closing of channels, a circle of waiting. It is correct when it neither
panics nor blocks, keeps order, and misses nobody without a reason.

**Automation** (`internal/automation`). State: integrations and rules in memory
and in `integrations.json`, delivery histories, one queue and worker per
integration. Operations: publish, save, delete, replace rules, restart, test and
manual delivery; a worker routes, tries up to four times and records. Hard: the
manager's mutex is held while subscribers are replaced and workers need it;
workers outlive their subscription. It is correct when an event is delivered at
most once per integration, the settings on disk always load, and nobody waits
for ever.

**Document events** (`fs/automation.go`): subscribes to committed roots and
publishes created, updated and deleted documents, the difference of two trees.
State: the subscriber's queue of 64 and its one worker. Hard: commits are
published after they are unlocked and so in any order, a full queue drops the
newest event, the worker gets its own events back. It is correct when what it
published adds up to what the library holds.

**Screen sharing** (`internal/screenshare/rooms.go`, `ui/handlers.go`,
`app/handlers.go`, `mqtt/broker.go`). State: rooms with participants, messages
and a channel of one notification; a loop expires rooms after a minute. Hard:
viewers wait on a room they looked up earlier, one wake-up for many waiters,
message indexes that a new broadcast invalidates, find-then-create. It is
correct when a browser is handed only what was sent since it asked, is woken by
what is, is always answered, and when a silent room goes.

**Accounts** (`codeconnector.go`, `passcode.go`, `passcodestore`,
`fs/userstorage.go`, `model/user.go`, `ui/handlers.go`). State: one-time pairing
codes with a timer each, passcode resets with a lifetime of a day, profile
files. Hard: timers that outlive their code, requests repeated after the answer,
unlocked read-modify-write of profiles, the first user. It is correct when a
server without users makes one at the first login, however many come at once,
when codes and users always agree, when a change is lost only to one that raced
with it, to a write that was cut short or to an admin who makes the user again,
and when a passcode is reset only by a request that the user approved.

**Sync10 documents** (`fs/documents.go`, `fs/metadata.go`,
`fs/documentcreator.go`, `ui/backend10.go`, `app/handlers.go`). State: two files
per document and a trash. Hard: two renames or writes per operation, unlocked
read-modify-write of metadata, a status update that writes metadata without
looking, files that are written in place. It is correct
when no archive that came in is lost, a deletion is announced once, and metadata
and archive belong together.

**Document tree of the web UI** (`ui/viewmodel`, `ui/handlers.go`): builds the
listing from parents, validates moves. Hard: validation and write are two loads
of the tree. It is correct when no folder ends up in itself.

**Document browser** (`ui/src/pages/Documents`). State: per page the listing it
shows, the number of its newest request, whether it is busy, and the jobs it has
begun: runs of moves and deletes, uploads, new folders. Hard: listings that
arrive out of order, jobs that outlive their page, several requests per job of
which any may fail or lose its answer, deletion of the old document before its
replacement. It is correct when deleting a folder leaves nothing behind in it,
when a page shows what it did, tells what was lost, and becomes free again.

**Library jobs** (`ui/library_jobs.go`, `internal/library`). State: an SQLite
store of indexes, snapshots, policies and runs; two slots; one job per user.
Hard: documents that change during an export, shutdown in the middle of a job,
retention, runs a crash interrupted. It is correct when every row is true of the
files and texts it speaks of, nothing is skipped that was not done, retention
deletes only the oldest, and workers and runs are given back.

**The rest** holds no state between requests or is I/O: tokens and middleware,
storage integrations, mail, export, handwriting, configuration, command line,
and the pages of the web UI that show and send what their user sees.

## 2. Interactions

- Every edit of a sync15 document, from a tablet or from the web UI, ends in
  `StoreBlob` of the root. `SyncTree` uses the root the way `RootStore` provides
  it: a lock that does not wait, and a read after unlocking.
- A commit publishes `internal.root_committed` on the bus (`RootStore.events`),
  from which the document events are derived (`DocumentEvents`) that `Automation`
  delivers.
- `Browser` asks for listings, moves, deletes and uploads through the handlers of
  the web UI, whose storage answers as `SyncTree` shows: a delete that meets a
  held lock is answered as done (`Browser.DeleteSkipped`).
- `Accounts` is what a browser and a tablet do before any of this: register, log
  in, pair.
- The handlers of `Sync10` notify the hub after each request.
- Handlers block on the hub's queue (`Hub.Notify`) after a commit or an answer.
- `Library` reads the tree twice for an inventory, as `SyncTree` lists it, and
  once more for each export; edits come between.
- The handlers of `ScreenShare` also hand each request to the hub and the broker,
  which carry it to the tablet and are not part of it.
- Workers of `Automation` call back into the manager (`MatchRules`, `Records`).

## 3. The modules and the code

Each definition's source lines are in `PROJECT.json` under `map`. Comments that
begin with "Mutant" mark variants of an operator that a property must refute;
they are not part of the specifications.

**RootStore.** One action per step between two points at which another
goroutine can interfere: taking the lock, the generation check, the append, the
creation and the filling of the root, the unlocking, the event; taking the lock
and opening the root, and the later read. `size` counts bytes, so that the
generation is what the code makes of a file's length, partial lines included.
`base` in a history line and `view` are observations: what the client had last
read. `LastGens` are the generations a request may carry: the one its client
saw, or 0. An append can fail and leave part of a line (`StoreAppendFails`), or
go on although one of the two `WriteString` calls failed, whose errors the code
ignores: then the line lacks its time, the space after it or its newline, 64 to
85 bytes are written and the root follows (`StoreAppendShort`). `tears` counts
the failures that part history, generation and root: a line without its root,
and a short line after which the size has the same multiple of 86 as before.
A short line that follows enough bytes of an earlier append still moves the
generation on, and tears nothing.

**RootRegister** is the abstract specification: a log to which a commit is
added only by a client that has seen the last one, until the register is torn.

**SyncTree.** A document's hash is the set of edits in it, a root hash the
function it indexes: content addressing makes equal content equal hashes, and
nothing else of SHA-256 matters here. Each request makes one edit. A tablet may
also mark a document as deleted (`Deleted` in its content). A mirrored tree
leaves such documents out (`Live`, `MirroredFrom`), so the next commit of the
web UI takes them out of the root; a tablet pulls and pushes all of them
(`Pulled`). The cache file can be missing, current or `Corrupt` (being written,
or written by two requests at once). `spoilt` names the documents that a failed
read or a torn root may have damaged. An answer `half done` is an error that the
code returns after the root's history has grown.

**Hub.** A send on an unbuffered channel is one step of both sides. `send` is a
loop with a step per connection, in any order, as Go iterates maps.

**Automation.** `op` is the Save or Delete that holds `Manager.mu`; its later
steps are separate actions because they reach the bus, where publishers and
workers go on. A stopped subscriber stays in `subs`, since its worker may be in
the middle of a delivery. Patterns and filters are abstracted to "takes its
user's events", "by rules only" and "off".

**Library.** The goroutine of a job is `job[u]`, with a label per point at which
an edit, a shutdown or a crash can come between: the two reads of the inventory,
each export, the two reads of the recheck, each statement of the database, each
removal of files. What a version tells depends on the account (`Sync15`). Of a
sync15 document it is the hash of the content, so content is a version number
and every change makes a new one; that a document changes *back* to an earlier
content is therefore not covered. Of a sync10 document it is
`LastModified:Size:Name` of the metadata: the archive is replaced before that,
and a tablet may send what it sent before. So a change may leave the version, or
bring an old one back (`NextVersions`), and what an export reads is left open
(`Content` is 0). The inventory of a sync15 account mirrors the tree, which is
empty while a commit writes the root (`SeesNothing`): the listing may have no
documents (`ListNothing`), and the versions may be missing, at the start or at
the recheck (`RecheckNothing`). It may also fail (`InventoryFails`,
`RecheckFails`), which is no fault, as a held lock is enough. The errors of
`os.Remove` are ignored (`RemoveFails`), and a document that is gone may come
back (`Restore`). A
file appears whole, because `WriteFile` renames it into place. The user's policy
is chosen when a job reads it. The scheduler is a user that starts jobs at any
time. `FinishRun` and the deferred release of the worker are one step. `cut` and
`unsaved` are observations: of whom a job has not seen the whole library, because
of a shutdown or of a listing without documents, and whose end of a run could
not be written.

**ScreenShare.** Each method of `RoomManager` is a step under its lock, and so is
each stage of `WaitForMessages`. A publication by MQTT first refreshes the newest
room and is then handled (`OnPublish`, then one of the others); by HTTP the
same messages come without it. Rooms are numbered in the order of their creation.
`silent` counts the ticks of `expireLoop` since a room's last activity: with a
tick every 15 seconds and a timeout of 60, the fifth removes it. Who owns a room
only matters for the copy that goes through the broker, and is left out.

**DocumentEvents** extends `RootStore`: a step that publishes a commit also puts
it on the queue of the server's own subscriber, if there is room. Reading two
trees by their hashes and publishing the differences is one step, since what has
a hash never changes; it may fail before or after some of the events (`Changed`
are the documents it has events for). `balance`
and `told` are observations: creations less deletions of each document, and what
a listener that follows the events believes.

**Browser.** A request is the step in which the server serves it; a move is two,
as `updateDocument` loads the tree to validate it and `UpdateDocument` loads it
again to change it. What a page *knows* is a listing that it was answered at
some time, and its jobs work from the listing they began with (`before`). A job
has its page and the `mount` it was begun in; when the page is left and opened
again the job goes on and what it tells is lost (`Heard`). `Above`, `Chain` and
`TopLevelSelection` say by closure what `library.js` walks; the walks end
because it keeps the set of what it has visited. Items in folders that do not
exist are shown at the top, and items in a cycle are not listed (`Placed`,
`Listing`), as `DocTreeFromRawMetadata` does. `overlapped` notes a change that
fell between the two steps of a move, `adrift` the items whose folder was
deleted by a page that did not see them in it, `behind` that a listing is older
than the page's own last change. `loads` are the requests for listings that are
under way, unordered.

**Accounts.** A request is a program of at most four steps between which others
come: read the profile, empty the file, fill it, and for the first login clear
`CreateFirstUser`. `inode` tells whether the file being filled is still the one
in the directory. `owed` is the profile there would be had all requests been
served one after the other. An admin's `createUser` writes a new profile without
reading one, so `owed` is then the new one; `lasting` is the profile there would
be had it not replaced any, and `replaced` names the users of whom it did.
`unsure` are the users with overlapping or broken writes. A code
is a model value, never drawn twice; the timer of each is in `timers` until it
fires, whether the code was used or replaced before. For passcode resets, `asks`
are the tablet's requests that have not arrived, `panel.polls` the answers on
their way to the panel.

**Sync10.** A request is the list of its calls (`Calls`), each of which opens,
fills or renames one file. A file has an identity, because a request fills what it
has opened even if it was renamed or opened by another meanwhile; `writer` says
who opened it last. `made` and `deleted` count archives and announced deletions.
An update is possible of every document that was once there, since the tablet's
`updateStatus` writes the metadata it is sent without reading any.
`overtaken` are the documents of which a removal and a write were under way at
the same time, `mixed` those of which two requests had the same file open, and
`revived` those that were updated while their metadata was not in the directory.
All others are `Orderly`.

## 4. What is checked

| run | instance | shows |
|---|---|---|
| `root_store` | 2 clients, 2 hashes, 2 documents, 3 commits, 2 faults, partial lines of 22 or 85 bytes, short lines of 64 or 85, queue of 2, up to the first torn commit | `NoLostUpdate`, `CurrentViewIsRight`, refinement of `RootRegister`; `EventsAddUp`, `FollowersKnow` |
| `sync_tree` | 2 web UI requests, 1 tablet, which may mark as deleted, 2 documents, 3 attempts, 1 fault | `EachCommitIsItsEdit`, `OutcomeIsTruthful`, `CacheIsCommitted` |
| `hub` | 2 connections of one user, 3 notifications, queue of 1 | `NoSendOnClosed`, `DeliveredInOrder`, `MissedOnlyByClosing`, and that the queue drains (`QueuedIsDispatched`) |
| `automation` | 1 integration ID, 2 users, 2 events, queue of 1, 1 retry, 1 history record, 2 subscribers, 1 restart | `DiskLoads`, `OneDeliveryPerEvent`, `SubscribedOnce`, and that events are handled, which fails if Save ever waits for a worker (`QueuedIsHandled`) |
| `library` | 2 users, one of sync15 and one of sync10, 1 document each, 1 worker, keep 1 snapshot, 2 edits, 3 jobs, 1 fault, not all of them at once for each kind of job; one user's jobs work, the other's compete | `SnapshotIsItsVersion`, `NoLitter`, `TrimsOnlyTheOldest`, `IndexIsFresh`, `SkippedIsBackedUp`, `JobsAreAccounted` |
| `screen_share` | 1 tablet, 2 browsers, 2 rooms, 3 messages, expiry after 2 ticks | `HandedIsFresh`, `NoSleepOverMessage`, `OfferReturns`, `RoomsExpire` |
| `browser` | 1 page left once, 2 folders, 2 documents, 2 jobs, 3 listings, 1 edit by the tablet, 1 failed request | `TreeIsWhole`, `NoOrphans`, `ShowsOwnWork`, `LossIsTold`, `PagesGetFree` |
| `accounts` | 2 users, 2 codes, 2 integrations; 3 requests, or 2 with a failure, or 2 requests for a reset with a restart | `NotLockedOut`, `LostForAReason`, `CodesAgree`, `CodeEndsForAReason`, `ApprovedByUser` |
| `sync10` | 1 document, 4 requests, 1 failed call or stop | `ArchiveSurvives`, `OneDeletionPerArchive`, `MetaAndArchive` |

The concrete modules also state their types (`TypeOK`, in `Hub` `HubTypeOK`). They are
checked as an invariant with `root_store`, and proved for every module.

Three more runs end in a violation on purpose; each is a place where the code
does not do what its own comment or document says (`PROJECT.json`, `findings`):

- `sync_tree_listing`: a listing made while a root is being written is empty;
- `library_shutdown`: a shutdown ends an index job early, and its prune then
  deletes the index of every document the job had not reached. `IndexIsFresh`
  sets such users aside (`cut`);
- `browser_orphans`: a delete that could not load the tree is answered as done,
  and the page then deletes the folder under the document. `NoOrphans` is what
  does hold.

Other things the models show the code to do, where no text promises the contrary:

- a history line whose time or newline could not be written is no error: the
  root is committed under the generation it had, and a client that has seen the
  root before is accepted over it (`tears`);
- after a line without its root nothing in the code brings history and root
  together again;
- a commit of the web UI takes a document that a tablet has marked as deleted
  out of the root (`Seen` in `EachCommitIsItsEdit`);
- a request may report an error although its commit was made, because the cache
  could not be written (`half done` in `OutcomeIsTruthful`);
- a rename that meets a held lock is answered as done and changes nothing
  (`SyncTree.MirrorBusy`, `Browser.MoveSkipped`);
- a closing connection ends the dispatch for connections that were not visited
  yet; `MissedOnlyByClosing` is what holds;
- a delivery that outlives its integration is recorded under the same ID, made
  again for another user (`Automation.Records`);
- commits may be published out of order, and a follower of the document events
  then ends with an older version of a document (`crossed` in `FollowersKnow`);
- an event that finds a subscriber's queue full is lost for good; `EventsAddUp`
  and `FollowersKnow` speak of queues that were never full;
- a move that was validated is not checked again, so that two moves can put two
  folders into each other (`overlapped` in `TreeIsWhole`);
- a snapshot, an index or a backup of a sync10 document may hold another content
  than its version stands for, and is not made again while the version stays;
- a sync15 document whose inventory came while a commit wrote the root is
  captured without a version (0), and such a listing without documents has the
  whole index of the user pruned (`cut`);
- the trash and the library of sync10 may part for one document: an update that
  was overtaken by a removal lists a document again whose archive is in the
  trash, and the removal of a document whose archive is still arriving puts half
  an archive over the whole one in the trash (`overtaken`, `mixed`). A status
  update that a tablet sends after a removal lists the document again without
  its archive, and if an upload then breaks off, the next removal puts half an
  archive over the whole one (`revived`);
- two changes of a profile at once lose one of them, or leave a file that cannot
  be read (`unsure`);
- an admin who creates a user under a name that exists replaces that user's
  profile, with all that was changed in it (`replaced`).

**Bounds.** Two clients are enough for any race for the root: a commit competes
with one other at a time, because the lock admits one. Three commits let a stale
client be one and two generations behind; two faults allow a torn commit or a
short line after a partial one. Nothing is promised after a torn commit, so the
run follows no further (`ToTheFirstTear`). The lengths are those on both sides
of what matters: 64 and 22 bytes add up to a whole line, 85 and any other to
more. In `SyncTree` three requests let a web UI request lose the race twice,
once to the tablet and once to its peer, and three attempts are the code's own
number. A queue of one fills and drains as one of five or of 64 does. Two
connections suffice for a dispatch that ends early; two subscribers for every
hand-over, delete and re-creation of one ID. In `Library` an account's jobs
touch no other account, so a second user is there for the worker only, and the
run lets one of the two users have edits and jobs that get beyond their listing
(`OneUserWorks`); either may be that one, so both kinds of account are covered.
Two edits change a document before and after an export, three jobs make a
snapshot, one beyond the retention, and one more after a failure. Of the sync10
account one edit is enough, since it already leaves open what is read, and two
edits and a failure together are tried with snapshots only, which have a step to
repeat (`FewChanges`); with the index and the backup it is two edits, or one and
a failure. In `ScreenShare` three messages are two requests and an offer, in any
order, and two rooms a hidden one and the newest; an expiry of two ticks
separates rooms that were kept alive from those that were not, as one of five
does. The subscriber's queue of `DocumentEvents` holds two commits, so that two
can cross, and can overflow. In `Browser` two jobs of one page are two tabs as
well, since a page that was left goes on working beside the one that is open;
with the tablet's edit three may change the tree at once. Two folders can be put
into each other, or one into the other while that is deleted; two documents are
a replaced one and another of the same batch. In `Accounts` three requests are
two that race and one that comes after. In `Sync10` documents share no file, so
one is enough; four requests make, remove, make again and remove. All counters
in the models are bounded by `MaxSize`, `MaxFaults`, `MaxRestarts`, `MaxSubs`,
`MaxEdits`, `MaxRuns`, `MaxRooms`, `MaxSent`, `MaxJobs`, `MaxLoads`,
`MaxMounts`, `MaxOps`, `Limits` or by finite sets of inputs.

**Symmetry** is used for the clients of `RootStore` and the requests of
`SyncTree`, whose runs check no liveness.

**Deadlock** is checked for `RootStore` and `Library`. The other instances may
stop: each request, notification and event happens once, or its bound is
reached.

**Fairness.** `Hub` assumes that goroutines that can run do run, that a write
ends (it has a deadline of ten seconds), and strong fairness for removals,
because `select` chooses at random among ready channels and removals compete
with notifications. Nothing makes clients close. `Automation` assumes that the
holder of the mutex and each worker go on: attempts have a timeout. `ScreenShare`
assumes that the loop ticks and that a request that can go on does: its wait has
a deadline. `NoSleepOverMessage` is about a browser alone in its room; of several
that wait, one notification wakes one, and the others sleep until the next
message or their deadline, which is why `OfferReturns` rests on the deadline.
`Library` has no liveness: its jobs end only if exports and uploads do. `Browser`
assumes that requests are answered or fail and that the promises of a page are
then resolved; `PagesGetFree` holds without any fairness of its user, who may
leave a question unanswered. Publishers, users and restarts are never obliged to
act. `Accounts`, `Sync10` and `DocumentEvents` state safety only: a request that
is cut short leaves what the invariants describe, and nothing finishes it later.

## 5. What is proved

`RootStoreProofs` proves for every set of clients and hashes, any number of
commits and faults, from the assumptions named in `RootStore`:

- `TypeCorrect`, `MutualExclusion`;
- `NoUpdateIsLost`: `Spec => []NoLostUpdate`;
- `ViewsAreRight`: `Spec => []CurrentViewIsRight`;
- `Implements`: `Spec => ImplementsRegister`.

`NoLostUpdate` is not inductive: a commit is accepted because its generation is
current, so one must know that whoever holds the current generation holds the
current root. That must be followed through every place where a generation is
kept: a client's view (`ViewInv`), a request at the check (`LockedInv`), a
commit under way (`WriteInv`) or unlocked (`UnlockedInv`), and an open file that
has not been read (`OpenedInv`). The last is the interesting one: between the
opening and the reading another client may truncate and refill the file, but
only after it has appended a line, which makes the reader's generation old.
`LockInv` says that the holder of the lock is the one client inside. All but the
types and the lock are promised only while `tears = 0`: a line without its root,
or one so short that the generation stays, ends the correspondence of
generations and roots. A short line after which the generation has moved does
not (`StoreAppendShort`), and a commit moves it by one in either case. It is
assumed that a partial line has at most 85 bytes, since a whole one is no part,
and a short one 64 to 85, since the hash is written or the request fails.
`GenerationOfLine`, `GenerationOfPart` and `GenerationOfShort` are the
arithmetic of lines of 86 bytes.

The same module proves for any documents and any queue, of the root store with
its observer, from the further assumptions named in `DocumentEvents` (a tree
holds finitely many documents):

- `DocInvariant`: `DocSpec => []IInv`, since each of its steps is one of the root
  store or leaves that alone;
- `DocumentsAddUp`: `DocSpec => []EventsAddUp`;
- `ListenersKnow`: `DocSpec => []FollowersKnow`.

Commits are published in any order, so the first cannot be had from what is in
the queue: it counts. For each document, what is published (`balance`) and what
the queued and the unpublished commits will still add (`Awaited`) is what the
library holds (`BalanceInv`); a commit moves one unit from one side to the other,
and order does not enter. The library is, while a commit fills the root, what it
was before (`Committed`). The second does depend on order. As long as no commit
was overtaken, the roots of the generations form a chain (`Ordered`) in which
each unpublished commit leads from its predecessor's root to its own, and the
queue leads from what the listener knows to the newest that was published
(`Followed`). If a newer one was published before it, the older will set
`crossed` when its turn comes (`Doomed`).

`SyncTreeProofs` proves for any requests to the web UI, tablets and documents,
any number of attempts and any number of failures and restarts, from the
assumptions named in `SyncTree` (no client is both a request and a tablet, or is
`Nobody` or `Deleted`; there is an attempt; `NoHash` is no root and `Corrupt` no
tree):

- `Invariant`: `Spec => []Inv`, with `TypeCorrect`: `Spec => []TypeOK`;
- `CommitsAreEdits`: `Spec => []EachCommitIsItsEdit`;
- `OutcomesAreTruthful`: `Spec => []OutcomeIsTruthful`;
- `CacheIsAlwaysCommitted`: `Spec => []CacheIsCommitted`.

A commit is accepted if its generation is that of the history, so the invariant
has to say what follows from that for a tree at each step of its request. Before
the edit, a tree of the present generation names what the present root names;
after it, its hash is the edit of that root, by that request (`TreeOK`, with
`IsEdit`). Of a tree with an older generation nothing need be known: its commit
will be refused. The generation is read under the lock and the root after it was
released, so a commit may come between. Then either that commit has filled the
file, and the tree is newer than its generation says, which is refused; or it is
about to, and the reader may meet an empty file with a generation that is
already behind (`GenOK`). `FileOK` ties the file to the history: it has the root
of the last commit, or is empty because that one is filling it or was cut short.
A commit makes every other tree's generation an old one (`BystanderOfCommit`),
and each step within one request moves it to the next part of `TreeOK`.

What a fault may have damaged is left out document by document: a mirror that
fails leaves one document with the files of another hash, and `Clean` says that
all others have their own. After a torn root all are `spoilt`. `OnceOK` counts
the commits of a request, of which there is one after the check and none before,
and a retry begins only where there was none. Of the cache, which several
requests write without a lock, nothing holds but that what parses was a root of
its generation or later (`WasRoot`, `CacheOK`); that is enough, since a request
that begins with it mirrors it to the present root first.
What the web UI sees of a root is the root less the documents marked as deleted,
and what a tablet sees is all of it (`Seen`): `Clean` says that no mirrored tree
has a marked document, `Shows` and `IsEdit` compare a tree and a commit with the
root as its client sees it. TLC checked this
invariant on the instance of `sync_tree` before it was proved.

`BrowserProofs` proves for any pages, folders, documents and any number of jobs,
listings, edits and failures, from the assumptions named in `Browser` (in the
tree an account begins with no folder is in itself and each item is at the top
or in a folder that exists; what users select, choose and upload are items,
folders and lists of documents):

- `Invariant`: `Spec => []Inv`, with `TypeOK`;
- `TreeStaysWhole`: `Spec => []TreeIsWhole`;
- `PagesKeepUp`: `Spec => []PagesInv`;
- `OwnWorkIsShown`: `Spec => []ShowsOwnWork`;
- `LossesAreTold`: `Spec => []LossIsTold`;
- `NothingIsOrphaned`: `Spec => []NoOrphans`.

`TreeIsWhole` speaks of listings, and what keeps it is about trees: `Acyclic`,
that every set of folders has one whose folder is outside it. `WholeIsListed`
shows that everything in an acyclic tree can be reached from the library or the
trash, by taking the folders above an item, of which one must have its own folder
elsewhere. A validated move keeps a tree acyclic (`ValidMoveKeeps`): a set of
folders that it closed would contain the item and its new folder, and the part of
that set that is above the new folder was closed before. But the tree was
validated one step before it is changed, so `Validated` says that each move that
was validated would still be valid, as long as `overlapped` is false. And making
a folder is a put as well: that it closes no circle needs that its ID is in no
tree, no listing that a page shows or waits for, and no destination of a job
(`NewIds`), and that one job makes it (`Making`). Steps that change no tree are
covered by one lemma (`QuietStep`), those that do by another (`ChangeByJob`).

`ShowsOwnWork` is about a page at rest, and the invariant about one at work: a
page hears of at most one job under way and is busy with it (`OneJob`), the
listing it will accept is the last it asked for (`Numbered`), and whatever is
behind is going to be replaced, because its job has yet to ask for a listing or
the one it asked for was asked after the work was done (`KeptUp`). `LossOK`
follows a batch that replaces documents: what is deleted is still to be uploaded,
or the user knows. `NoOrphans` needs to know what is left of a branch that a
page is deleting: with each item that is still to go, all that is above it is
still to go as well (`BranchOK`), so a folder goes after what was seen in it;
and no folder in any listing is its own parent (`NoLoops`).

`Sync10Proofs` proves for any documents and any number of requests, failures and
stops:

- `Invariant`: `Spec => []Inv`, with `TypeOK`;
- `EachArchiveDeletedOnce`: `Spec => []OneDeletionPerArchive`;
- `DocumentsInOrder`: `Spec => []IInv`;
- `ArchivesSurvive`: `Spec => []ArchiveSurvives`;
- `ListedWithArchive`: `Spec => []MetaAndArchive`.

The invariant (`Accounted`) is an equation: the archives announced as deleted and
the one in the directory are the archives that were made. A rename is the only
step that announces, and it needs the archive that it takes away; opening a file
that is there makes none.

The other two need to know where each request is (`Staged`: what it has left to
call is an end of its list of calls, and what it has open is what it has opened)
and whose each file is (`Ids`: a file bears the number of the request that made
it, and is in one place). On that rest the statements about one document
(`DocInv`): whoever makes a new one is alone with it (`Untouched`), and of one
that was neither overtaken nor mixed nor revived, that writers and removers are
not there together (`Apart`), that a file which is open is in the directory and
its request's own (`Owned`), that the whole archive is beside its metadata or in
the trash (`Kept`), and, without faults, that what is not whole or not matched
has a request that will see to it (`Matched`).

`DeliveryProofs` proves of `Hub`, for any connections and notifications:

- `HubInvariant`: `HubSpec => []HubInv`, with `HubTypeOK`;
- `NeverSendsOnClosed`: `HubSpec => []NoSendOnClosed`;
- `NothingElseIsMissed`: `HubSpec => []MissedOnlyByClosing`;
- `AlwaysInOrder`: `HubSpec => []DeliveredInOrder`.

A send only goes to a channel that is open because one goroutine dispatches and
removes: while it dispatches, all those it still has to send to are among its
clients (`SendsToClients`). That none is missed without a reason is said of the
loop half-way (`PassedKnow`): whom it has passed took the notification, was too
busy, or is its source, and if it was broken off a connection was closing. Order
needs that nothing is dispatched twice (`SentOnce`): what waits was not sent, and
a connection still to come in the loop has not got what the loop sends, so what
it gets is newer than all it has.

The same module proves of `Automation`, for any integrations, rules and events,
with a finite set of IDs and any number of restarts:

- `Invariant`: `Spec => []Inv`, with `TypeOK`;
- `DiskAlwaysLoads`: `Spec => []DiskLoads`;
- `AlwaysSubscribedOnce`: `Spec => []SubscribedOnce`;
- `DeliversAtMostOnce`: `Spec => []OneDeliveryPerEvent`.

The first rests on disk and memory being equal outside an operation
(`DiskIsMemory`) and on what `Save` refuses. The second is not kept by single
steps: `Save` closes the old subscriber before it makes the new one, so the
invariant says it of all integrations but the one that the operation under way
is at (`Settled`, `Halfway`). The third follows from `ReachedOnce`: an event reaches,
in a queue, at a worker or in a delivery that was begun, one subscriber of each
integration, because it is published once, to the live ones, of which
there is at most one (`AtMostOne`).

`LibraryProofs` proves for any documents, a finite set of users, any number of
workers, jobs, edits, crashes and failures:

- `Invariant`: `Spec => []Inv`;
- `SnapshotsHoldTheirVersion`: `Spec => []SnapshotIsItsVersion`;
- `IndexStaysFresh`: `Spec => []IndexIsFresh`;
- `SkippedAreBackedUp`: `Spec => []SkippedIsBackedUp`;
- `AllJobsAccounted`: `Spec => []JobsAreAccounted`;
- `TypeCorrect`: `Spec => []TypeOK`, of which no more jobs than workers is a part;
- `NoFileWithoutRow`: `Spec => []NoLitter`;
- `OnlyTheOldestGo`: `Spec => TrimsOnlyTheOldest`.

The first three properties are about two reads of one sync15 document at
different times (of a sync10 one only that the files exist), and the idea is the
same in each: what a job read first is at most what it reads later, which is at
most what is there now (`Between`). If the first and the last are equal, so is
all between them. `KnowsPast` says it of the inventory, `CaptureOK` of the files
of a snapshot under way, `IndexOK` and `IndexingOK` of the pages, `BackupsOK` of
the files at the destination; `NewerOK` shows that an edit disturbs none of
them. The files of a snapshot also stay because no two rows have one ID, no
capture has the ID of a row (`RowsOK`, `Unused`), and a trimmed row is gone
before its files are. A row whose pages were pruned is, unless a job of the user
was `cut`, one whose document the inventory did not list, and which has either
not come back or come back newer (`Passed`). `RunsOK` counts: `start` and the
deferred release are the only steps that change how many jobs run, and a crash
leaves its runs to `Open`.

`NoLitter` speaks of jobs that have ended. While one is at work, and until the
first crash, error of the database or file that cannot be removed, a file that is
in no row is one the job knows: it is capturing it, or about to discard it, or it
has taken the row away and is unlinking (`FilesAttributed`). An inventory that
fails or shows nothing is no such failure: the capture is then discarded. Of
retention it is proved that only `Trim` takes rows away, since a capture puts its
row before the others (`OnlyTrimDeletes`), and that the rows before the one it
takes are as many as are to be kept and stay (`TrimLeavesNewer`). Newer means
recorded later: the versions of a sync10 account need not grow.

`ScreenShareProofs` proves for any tablets, browsers, rooms and messages:

- `Invariant`: `Spec => []Inv`, with `TypeCorrect`: `Spec => []TypeOK`;
- `AlwaysHandedFresh`: `Spec => []HandedIsFresh`;
- `NeverSleepsOverMessage`: `Spec => []NoSleepOverMessage`.

A list begins with a request, and what is behind it is newer and direct
(`Ordered`). A browser reads from the position after its own request, and the
list may have been cleared since; what saves it is that whoever clears a list
begins it with a newer request. So while the room of an open request exists, it
begins with that request or a later one (`RequestsOK`), and all behind that is
newer than the request.

`AccountsProofs` proves for any users, codes, integrations and requests, from
the assumptions named in `Accounts` (`Nobody` is neither a user nor a code, a
missing, an empty and a broken file are no profiles and not each other, and the
server begins with whole profiles or none):

- `Invariant`: `Spec => []Inv`, and `TypeCorrect`: `Spec => []TypeOK`;
- `CodesAlwaysAgree`: `Spec => []CodesAgree`;
- `EveryCodeEndsForAReason`: `Spec => [][CodeEndsForAReason]_vars`, stated as
  that property;
- `ResetsAreApproved`: `Spec => []ApprovedByUser`;
- `ProfilesInOrder`: `Spec => []ProfileInv`;
- `ChangesAreKept`: `Spec => []LostForAReason`;
- `NobodyLockedOut`: `Spec => []NotLockedOut`.

The two maps of the code connector are inverse to each other, and each code in
them has its timer. Ending a code takes both entries away and no other
(`ConsumeAgrees`), and a new code takes away the one its user had
(`NewCodeAgrees`); so the timer of a code that was replaced finds nothing to end.

Of profiles the invariant says for each user which of these is the case
(`Settled`): the user is `unsure`; a request is writing that read the profile
before another changed it (`late`); one request writes alone, and will leave
what is owed (`WritesAlone`); or nobody writes, and the file has what is owed.
For that a request that is not `late` must have read what is owed now
(`Reading`). What is owed is what lasts, unless an admin has replaced the user's
profile (`Lasting`). Nobody is locked out because `CreateFirstUser` is cleared
only after the first profile is filled (`Somebody`).

Every safety property that a passing run checks is proved. Only model-checked is
liveness (`OfferReturns`, `RoomsExpire`, `PagesGetFree`, `QueuedIsDispatched`,
`QueuedIsHandled`): it rests on fairness, and so on when actions are enabled,
which is out of the prover's reach. The properties of the three runs that end in
a violation are false, and there is nothing to prove of them.

## 6. Not modelled

- `ui/public/pdf.worker.js`, more than nine tenths of the repository's
  JavaScript, is PDF.js as its authors build it: third-party code. The rest of
  the web UI is mapped where it decides something that others can disturb
  (`Documents`, the forms of accounts, `PasscodeResets`); its other pages present
  what the server sends.
- The screen page: the browser and the tablet negotiate a WebRTC session by the
  messages of `ScreenShare`, whose content the server does not read.
- Downloads, previews, sorting and the receipt of a job in `Documents`: they
  change nothing that is shared.
- Tokens and middleware, storage integrations, mail, handwriting, configuration
  and the command line keep no state between requests or are pure I/O; export and
  rendering are formats and layout.
- What is left out of each component that is modelled is said with it in
  `PROJECT.json`, under `components`.

## 7. Plan

1. In `Library`, restoring a snapshot, and the scheduler's idea of what is due.
2. The sync10 export that is cached in place, and the events of sync10.
