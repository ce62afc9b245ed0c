------------------------------- MODULE SyncTree -------------------------------
(***************************************************************************)
(* Edits of one user's sync15 document tree.  The web UI's handlers load   *)
(* the cached tree, mirror it to the current root, apply one mutation and  *)
(* commit the new root (GetCachedTree, HashTree.Mirror, updateTree and the *)
(* mutations of internal/storage/fs/blobstore.go); tablets pull the root,  *)
(* edit, and commit through the sync API.  All of them race for the same   *)
(* root, and nothing but the root's generation keeps them apart: there is  *)
(* no lock around the tree or its cache file.                              *)
(*                                                                         *)
(* Blobs are named by their content, so a document's hash IS its content:  *)
(* the set of edits that went into it, and whether its metadata says that  *)
(* it is deleted.  A root hash is the index it names, a function from      *)
(* documents to their hashes.  The root is used the way RootStore provides *)
(* it: the lock does not wait, and the root's content is read after the    *)
(* lock is released.                                                       *)
(***************************************************************************)
EXTENDS Integers, Sequences, FiniteSets, Functions

CONSTANTS UI,          \* requests to the web UI, one edit each
          Tablet,      \* tablets, one edit each
          Doc,         \* document ids
          NoDoc,       \* a request that names none
          Deleted,     \* in the content of a document marked as deleted
          Nobody,      \* the lock's holder when it is free
          NoHash,      \* "": the root hash or the files of nothing
          Corrupt,     \* a cache file that does not parse
          Attempts,    \* 3 in updateTree
          MaxFaults    \* bound: failed reads and writes, restarts

Client == UI \cup Tablet

ASSUME ClientAssumption ==
    UI \cap Tablet = {} /\ Nobody \notin Client /\ Deleted \notin Client
ASSUME BoundAssumption == Attempts \in Nat \ {0} /\ MaxFaults \in Nat

Edits == SUBSET (Client \cup {Deleted})      \* a document: the edits in it
Root == UNION {[D -> Edits] : D \in SUBSET Doc}

Kind == {"update", "mark", "delete", "create", "list"}

(* A cached document: the hash the root gives it and the files it was last  *)
(* mirrored to.  The two differ only when a mirror failed half way.         *)
CachedDoc == [hash : Edits, files : Edits \cup {NoHash}]
Tree == [hash : Root \cup {NoHash}, gen : Nat,
         docs : UNION {[D -> CachedDoc] : D \in SUBSET Doc}]

(* Nothing is taken for a hash or a cached tree that is none.               *)
ASSUME NothingAssumption == NoHash \notin Root /\ Corrupt \notin Tree

VARIABLES
    log,       \* .root.history: the committed roots, who committed each, and how
    rootFile,  \* the content of the file root
    lock,      \* the holder of the history's lock
    cache,     \* the file .tree
    req,       \* every client's request
    faults,    \* failed reads and writes and restarts so far
    spoilt     \* the documents one of them may have damaged

vars == <<log, rootFile, lock, cache, req, faults, spoilt>>

NoDocs == [d \in {} |-> {}]
NewTree == [hash |-> NoHash, gen |-> 0, docs |-> NoDocs]
NewRequest == [pc |-> "new", kind |-> "list", doc |-> NoDoc, tree |-> NewTree,
               gen |-> 0, attempt |-> 1, outcome |-> "none"]
Answered(r, outcome) ==
    [NewRequest EXCEPT !.pc = "done", !.kind = r.kind, !.outcome = outcome]

Mirrored(root) == [d \in DOMAIN root |-> [hash |-> root[d], files |-> root[d]]]
IndexOf(docs) == [d \in DOMAIN docs |-> docs[d].hash]

(* The documents of a root that a mirrored tree shows.                      *)
Live(root) == Restrict(root, {d \in DOMAIN root : Deleted \notin root[d]})

Generation == Len(log)

(* The tree before the requests: nothing yet, or one document that a tablet *)
(* uploaded; the cache file is missing or current.                          *)
Init ==
    /\ \/ log = <<>> /\ rootFile = NoHash
       \/ \E d \in Doc :
             /\ rootFile = [x \in {d} |-> {}]
             /\ log = <<[root |-> rootFile, by |-> Nobody, kind |-> "create", doc |-> d]>>
    /\ lock = Nobody
    /\ \/ cache = NewTree
       \/ log # <<>> /\ cache = [hash |-> rootFile, gen |-> 1, docs |-> Mirrored(Live(rootFile))]
    /\ req = [c \in Client |-> NewRequest]
    /\ faults = 0
    /\ spoilt = {}

At(c, label) == req[c].pc = label
Goto(c, label) == req' = [req EXCEPT ![c].pc = label]
Answer(c, outcome) == req' = [req EXCEPT ![c] = Answered(req[c], outcome)]

-----------------------------------------------------------------------------
(* A request starts.  LoadTree reads the cache file: a missing one gives    *)
(* the empty tree, and so does one that another request is just writing.    *)
LoadTree(c) == IF c \in Tablet \/ cache = Corrupt THEN NewTree ELSE cache

Begin(c) ==
    /\ At(c, "new")
    /\ \E k \in Kind, d \in Doc \cup {NoDoc} :
          /\ k = "list" <=> d = NoDoc
          /\ k \notin (IF c \in UI THEN {"mark"} ELSE {"list"})
          /\ req' = [req EXCEPT ![c].pc = "mirror", ![c].kind = k, ![c].doc = d,
                                ![c].tree = LoadTree(c)]
    /\ UNCHANGED <<log, rootFile, lock, cache, faults, spoilt>>

(* What an error of Mirror leads to.  In GetCachedTree it ends the request, *)
(* and an update or a delete reports success all the same; in updateTree's  *)
(* retry it is ignored.                                                     *)
MirrorError(c) ==
    \/ /\ c \in UI /\ req[c].attempt = 1
       /\ Answer(c, IF req[c].kind \in {"update", "delete"} THEN "ok" ELSE "error")
    \/ /\ c \in UI /\ req[c].attempt > 1
       /\ req' = [req EXCEPT ![c].pc = "apply", ![c].gen = 0]
    \/ c \in Tablet /\ Answer(c, "error")

(* GetRootIndex finds the lock held.                                        *)
MirrorBusy(c) ==
    /\ At(c, "mirror")
    /\ lock # Nobody
    /\ MirrorError(c)
    /\ UNCHANGED <<log, rootFile, lock, cache, faults, spoilt>>

(* The index blob that the root names cannot be read.                       *)
MirrorIndexFails(c) ==
    /\ At(c, "read")
    /\ faults < MaxFaults
    /\ faults' = faults + 1
    /\ rootFile # NoHash /\ rootFile # req[c].tree.hash
    /\ MirrorError(c)
    /\ UNCHANGED <<log, rootFile, lock, cache, spoilt>>

MirrorLock(c) ==
    /\ At(c, "mirror")
    /\ lock = Nobody
    /\ lock' = c
    /\ Goto(c, "stat")
    /\ UNCHANGED <<log, rootFile, cache, faults, spoilt>>

(* LoadBlob takes the generation and opens the root under the lock.         *)
MirrorStat(c) ==
    /\ At(c, "stat")
    /\ lock' = Nobody
    /\ req' = [req EXCEPT ![c].pc = "read", ![c].gen = Generation]
    /\ UNCHANGED <<log, rootFile, cache, faults, spoilt>>

(* Where a request goes on after Mirror: GetCachedTree saves what changed.  *)
AfterMirror(c, changed) ==
    IF c \in UI /\ req[c].attempt = 1 /\ changed THEN "saveMirrored" ELSE "apply"

Keep(c, tree, changed) ==
    req' = [req EXCEPT ![c].pc = AfterMirror(c, changed), ![c].tree = tree, ![c].gen = 0]

(* Mutant: a document the tree has is not read again.                       *)
KeepsCached(docs, root) ==
    [d \in DOMAIN Live(root) |-> IF d \in DOMAIN docs THEN docs[d]
                                 ELSE [hash |-> root[d], files |-> root[d]]]

(* The root's content is read without the lock.  The root may be missing,   *)
(* or truncated by a commit in progress: then the tree is left without      *)
(* documents.  Otherwise a document that the tree has under its hash stays  *)
(* as it is, and every other one is read from the storage and left out when *)
(* its metadata says that it is deleted.                                    *)
Kept(docs, root) == {d \in DOMAIN root \cap DOMAIN docs : docs[d].hash = root[d]}

MirroredFrom(docs, root) ==
    [d \in DOMAIN Live(root) \cup Kept(docs, root) |->
        IF d \in Kept(docs, root) THEN docs[d]
        ELSE [hash |-> root[d], files |-> root[d]]]

(* A tablet pulls the whole root.                                           *)
Pulled(c, root) ==
    IF c \in Tablet THEN Mirrored(root) ELSE MirroredFrom(req[c].tree.docs, root)

MirrorRead(c) ==
    LET t == req[c].tree
        gen == req[c].gen
    IN  /\ At(c, "read")
        /\ \/ /\ rootFile = NoHash
              /\ Keep(c, [t EXCEPT !.docs = NoDocs, !.gen = gen], FALSE)
           \/ /\ rootFile # NoHash /\ rootFile = t.hash
              /\ Keep(c, [t EXCEPT !.gen = gen], gen # t.gen)
           \/ /\ rootFile # NoHash /\ rootFile # t.hash
              /\ Keep(c, [hash |-> rootFile, gen |-> gen,
                           docs |-> Pulled(c, rootFile)], TRUE)
        /\ UNCHANGED <<log, rootFile, lock, cache, faults, spoilt>>

(* A blob of one changed document cannot be read.  HashDoc.Mirror has       *)
(* already set the new hash, keeps the old files and returns an error that  *)
(* HashTree.Mirror drops.  A document that is marked as deleted is read     *)
(* once more, as a new one without files.                                   *)
OldFiles(docs, root, d) ==
    (IF d \in DOMAIN docs THEN {docs[d].files} ELSE {})
        \cup (IF d \notin DOMAIN docs \/ Deleted \in root[d] THEN {NoHash} ELSE {})

Misread(docs, root, d, files) ==
    [x \in DOMAIN MirroredFrom(docs, root) \cup {d} |->
        IF x = d THEN [hash |-> root[d], files |-> files] ELSE MirroredFrom(docs, root)[x]]

MirrorReadFails(c) ==
    LET t == req[c].tree
    IN  /\ At(c, "read")
        /\ c \in UI
        /\ faults < MaxFaults
        /\ faults' = faults + 1
        /\ rootFile # NoHash /\ rootFile # t.hash
        /\ \E d \in DOMAIN rootFile \ Kept(t.docs, rootFile) :
              /\ spoilt' = spoilt \cup {d}
              /\ \E files \in OldFiles(t.docs, rootFile, d) :
                    Keep(c, [hash |-> rootFile, gen |-> req[c].gen,
                             docs |-> Misread(t.docs, rootFile, d, files)], TRUE)
        /\ UNCHANGED <<log, rootFile, lock, cache>>

-----------------------------------------------------------------------------
(* The cache file is truncated, then written (os.WriteFile).  When another  *)
(* request wrote it in between, the longer of the two texts may leave its   *)
(* tail behind.                                                             *)
SaveCreate(c) ==
    /\ At(c, "saveMirrored") \/ At(c, "saveCommitted")
    /\ cache' = Corrupt
    /\ Goto(c, IF At(c, "saveMirrored") THEN "writeMirrored" ELSE "writeCommitted")
    /\ UNCHANGED <<log, rootFile, lock, faults, spoilt>>

SaveWrite(c) ==
    /\ \/ At(c, "writeMirrored") /\ Goto(c, "apply")
       \/ At(c, "writeCommitted") /\ Answer(c, "ok")
    /\ \/ cache' = req[c].tree
       \/ cache # Corrupt /\ cache # req[c].tree /\ cache' = Corrupt
    /\ UNCHANGED <<log, rootFile, lock, faults, spoilt>>

(* The write fails: GetCachedTree returns the error, and updateTree returns *)
(* it although the root is committed.                                       *)
SaveFails(c) ==
    /\ faults < MaxFaults
    /\ faults' = faults + 1
    /\ \/ At(c, "writeMirrored") /\ MirrorError(c)
       \/ At(c, "writeCommitted") /\ Answer(c, "half done")
    /\ UNCHANGED <<log, rootFile, lock, cache, spoilt>>

-----------------------------------------------------------------------------
(* The mutation, on the tree in memory: UpdateBlobDocument writes the       *)
(* document's files with new metadata, DeleteBlobDocument removes it, and   *)
(* CreateBlobFolder, CreateBlobDocument and createFromRmDoc add one.  A      *)
(* tablet may also leave a document in place and mark it as deleted.        *)
CanApply(kind, doc, docs) ==
    CASE kind \in {"update", "mark"} -> doc \in DOMAIN docs /\ docs[doc].files # NoHash
      [] kind = "delete" -> doc \in DOMAIN docs
      [] kind = "create" -> doc \notin DOMAIN docs

Updated(docs, doc, edits) ==
    [d \in DOMAIN docs |->
        IF d = doc THEN [hash |-> docs[d].files \cup edits, files |-> docs[d].files \cup edits]
        ELSE docs[d]]

Removed(docs, doc) == Restrict(docs, DOMAIN docs \ {doc})

Added(docs, doc, edit) ==
    [d \in DOMAIN docs \cup {doc} |->
        IF d = doc THEN [hash |-> {edit}, files |-> {edit}] ELSE docs[d]]

Applied(kind, doc, docs, edit) ==
    CASE kind = "update" -> Updated(docs, doc, {edit})
      [] kind = "mark"   -> Updated(docs, doc, {edit, Deleted})
      [] kind = "delete" -> Removed(docs, doc)
      [] kind = "create" -> Added(docs, doc, edit)

Apply(c) ==
    LET r == req[c]
        docs == Applied(r.kind, r.doc, r.tree.docs, c)
    IN  /\ At(c, "apply")
        /\ r.kind # "list"
        /\ CanApply(r.kind, r.doc, r.tree.docs)
        /\ req' = [req EXCEPT ![c].pc = "commit", ![c].tree.docs = docs,
                              ![c].tree.hash = IndexOf(docs)]
        /\ UNCHANGED <<log, rootFile, lock, cache, faults, spoilt>>

(* FindDoc, Remove or Add fails, the document has no files, or one of its   *)
(* blobs or the new index cannot be written.                                *)
ApplyFails(c) ==
    /\ At(c, "apply")
    /\ req[c].kind # "list"
    /\ \/ ~CanApply(req[c].kind, req[c].doc, req[c].tree.docs) /\ UNCHANGED faults
       \/ faults < MaxFaults /\ faults' = faults + 1
    /\ Answer(c, "error")
    /\ UNCHANGED <<log, rootFile, lock, cache, spoilt>>

List(c) ==
    /\ At(c, "apply")
    /\ req[c].kind = "list"
    /\ req' = [req EXCEPT ![c].pc = "done", ![c].outcome = "ok"]
    /\ UNCHANGED <<log, rootFile, lock, cache, faults, spoilt>>

-----------------------------------------------------------------------------
(* WriteRootIndex(tree.Generation, tree.Hash), or a tablet's root update.   *)

CommitBusy(c) ==
    /\ At(c, "commit")
    /\ lock # Nobody
    /\ Answer(c, "error")
    /\ UNCHANGED <<log, rootFile, lock, cache, faults, spoilt>>

CommitLock(c) ==
    /\ At(c, "commit")
    /\ lock = Nobody
    /\ lock' = c
    /\ Goto(c, "check")
    /\ UNCHANGED <<log, rootFile, cache, faults, spoilt>>

(* Mutant: a first commit is not protected.                                 *)
FirstIsFree(gen) == gen # Generation /\ Generation > 1

WrongGeneration(gen) == gen # Generation /\ Generation > 0

(* ErrorWrongGeneration: mirror again and repeat the mutation, three times  *)
(* in all.                                                                  *)
CommitReject(c) ==
    /\ At(c, "check")
    /\ WrongGeneration(req[c].tree.gen)
    /\ lock' = Nobody
    /\ \/ /\ req[c].attempt < Attempts
          /\ req' = [req EXCEPT ![c].pc = "mirror", ![c].attempt = @ + 1]
       \/ req[c].attempt = Attempts /\ Answer(c, "error")
    /\ UNCHANGED <<log, rootFile, cache, faults, spoilt>>

CommitAppend(c) ==
    /\ At(c, "check")
    /\ ~WrongGeneration(req[c].tree.gen)
    /\ log' = Append(log, [root |-> req[c].tree.hash, by |-> c,
                           kind |-> req[c].kind, doc |-> req[c].doc])
    /\ rootFile' = NoHash
    /\ Goto(c, "fill")
    /\ UNCHANGED <<lock, cache, faults, spoilt>>

(* Mutant: the loop goes on after the root was written.                     *)
FillAndRetry(c) ==
    /\ At(c, "fill")
    /\ rootFile' = req[c].tree.hash
    /\ lock' = Nobody
    /\ req' = [req EXCEPT ![c].pc = "mirror", ![c].attempt = 2, ![c].tree.gen = Generation]
    /\ UNCHANGED <<log, cache, faults, spoilt>>

CommitFill(c) ==
    /\ At(c, "fill")
    /\ rootFile' = req[c].tree.hash
    /\ lock' = Nobody
    /\ \/ /\ c \in UI
          /\ req' = [req EXCEPT ![c].pc = "saveCommitted", ![c].tree.gen = Generation]
       \/ c \in Tablet /\ Answer(c, "ok")
    /\ UNCHANGED <<log, cache, faults, spoilt>>

(* The root cannot be written: the history has the commit, the file root    *)
(* stays truncated.                                                         *)
CommitFillFails(c) ==
    /\ At(c, "fill")
    /\ faults < MaxFaults
    /\ faults' = faults + 1
    /\ spoilt' = Doc
    /\ lock' = Nobody
    /\ Answer(c, "half done")
    /\ UNCHANGED <<log, rootFile, cache>>

-----------------------------------------------------------------------------
(* The server restarts.  A root that was being written stays truncated.     *)
Crash ==
    /\ faults < MaxFaults
    /\ faults' = faults + 1
    /\ spoilt' = IF \E c \in Client : At(c, "fill") THEN Doc ELSE spoilt
    /\ lock' = Nobody
    /\ req' = [c \in Client |-> IF req[c].pc \in {"new", "done"} THEN req[c]
                                ELSE Answered(req[c], "lost")]
    /\ UNCHANGED <<log, rootFile, cache>>

Step(c) ==
    \/ Begin(c) \/ MirrorBusy(c) \/ MirrorLock(c) \/ MirrorStat(c) \/ MirrorRead(c)
    \/ MirrorIndexFails(c) \/ MirrorReadFails(c)
    \/ SaveCreate(c) \/ SaveWrite(c) \/ SaveFails(c)
    \/ Apply(c) \/ ApplyFails(c) \/ List(c)
    \/ CommitBusy(c) \/ CommitLock(c) \/ CommitReject(c) \/ CommitAppend(c)
    \/ CommitFill(c) \/ CommitFillFails(c)

Next == Crash \/ \E c \in Client : Step(c)

Spec == Init /\ [][Next]_vars

-----------------------------------------------------------------------------
TypeOK ==
    /\ log \in Seq([root : Root, by : Client \cup {Nobody}, kind : Kind, doc : Doc])
    /\ rootFile \in Root \cup {NoHash}
    /\ lock \in Client \cup {Nobody}
    /\ cache \in Tree \cup {Corrupt}
    /\ \A c \in Client :
          /\ req[c].kind \in Kind /\ req[c].doc \in Doc \cup {NoDoc}
          /\ req[c].tree \in Tree
          /\ req[c].gen \in Nat /\ req[c].attempt \in 1..Attempts
          /\ req[c].outcome \in {"none", "ok", "error", "half done", "lost"}
    /\ faults \in 0..MaxFaults
    /\ spoilt \in SUBSET Doc

(* What a client makes its edit on: a mirrored tree, and so what the web UI *)
(* commits, is without the documents that are marked as deleted.            *)
Seen(root, by) == IF by \in Tablet THEN root ELSE Live(root)

(* What a commit should have made of the root before it.                    *)
Expected(root, entry) ==
    IndexOf(Applied(entry.kind, entry.doc, Mirrored(Seen(root, entry.by)), entry.by))

AgreeOutside(r1, r2, D) ==
    /\ DOMAIN r1 \ D = DOMAIN r2 \ D
    /\ \A d \in DOMAIN r1 \ D : r1[d] = r2[d]

RootBefore(i) == IF i = 1 THEN NoDocs ELSE log[i - 1].root

(* Every commit is its own edit applied to the root before it, where one of *)
(* the web UI also takes out the documents that a tablet marked as deleted: *)
(* no edit is lost, repeated or applied to a stale tree, whatever the       *)
(* interleaving of the web UI's retries with the tablets.  A failed read of *)
(* a document may cost that document's edits, never another one's.          *)
EachCommitIsItsEdit ==
    \A i \in {j \in 1..Len(log) : log[j].by # Nobody} :
        LET before == RootBefore(i)
            docs == Mirrored(Seen(before, log[i].by))
        IN  /\ log[i].doc \notin spoilt => CanApply(log[i].kind, log[i].doc, docs)
            /\ AgreeOutside(log[i].root, Expected(before, log[i]), spoilt)

CommitsBy(c) == {i \in 1..Len(log) : log[i].by = c}

(* A request that reports an error has changed nothing, unless the disk     *)
(* refused the root or the cache after the commit, and one that reports a   *)
(* created document has committed it exactly once.                          *)
OutcomeIsTruthful ==
    \A c \in Client :
        /\ req[c].outcome = "error" => CommitsBy(c) = {}
        /\ req[c].outcome = "ok" /\ (req[c].kind = "create" \/ c \in Tablet)
              => Cardinality(CommitsBy(c)) = 1
        /\ Cardinality(CommitsBy(c)) <= 1

(* A cache file that parses holds what its hash names, less the documents   *)
(* marked as deleted, and its generation is not newer than its hash, so     *)
(* that a tree served or changed from the cache is a committed one although *)
(* nothing serialises its writers.                                          *)
CacheIsCommitted ==
    spoilt = {} /\ cache # Corrupt /\ cache.hash # NoHash
        => /\ cache.docs = Mirrored(Live(cache.hash))
           /\ \E i \in 1..Len(log) : i >= cache.gen /\ log[i].root = cache.hash

(* hashtree.go: "Mirror makes the tree look like the storage": a listing    *)
(* made from the mirrored tree should be one of the roots, less what is     *)
(* marked as deleted.                                                       *)
ListingIsARoot ==
    \A c \in UI : req[c].outcome = "ok" /\ req[c].kind = "list" /\ log # <<>>
        => \/ \E i \in 1..Len(log) : IndexOf(req[c].tree.docs) = Live(log[i].root)
           \/ log[1].by # Nobody /\ req[c].tree.docs = NoDocs
=============================================================================
