--------------------------------- MODULE Sync10 ---------------------------------
(***************************************************************************)
(* The documents of an account that synchronises the old way, sync10: for  *)
(* each document a metadata file and an archive in the user's directory,   *)
(* and a trash (internal/storage/fs documents.go, metadata.go and          *)
(* documentcreator.go), under the handlers of the tablet                   *)
(* (internal/app/handlers.go) and of the web UI (internal/ui/backend10.go).*)
(*                                                                         *)
(* Nothing is locked: requests interleave wherever one of them opens, has  *)
(* written or renames a file.  Each such call may fail, and the server may *)
(* stop between any two.  A file is opened by its name and written through *)
(* the handle: what is renamed meanwhile gets its content all the same.    *)
(***************************************************************************)
EXTENDS Integers, Sequences, FiniteSets

CONSTANTS Doc,
          None,     \* no file
          MaxOps,   \* bound: requests
          MaxFaults \* bound: calls that fail, and stops of the server

ASSUME BoundAssumption == MaxOps \in Nat /\ MaxFaults \in Nat

(* A file is known by the request that made it (0: it was there at first),  *)
(* writer is the last that opened it.                                       *)
FileType == [id : Nat, writer : Nat, full : BOOLEAN]

ASSUME NoneAssumption == None \notin Nat /\ None \notin FileType

VARIABLES
    dir,     \* the metadata and the archive of each document
    trash,   \* those that were moved to the trash
    ops,     \* the requests made so far
    deleted, \* how often each document was announced as deleted
    made,    \* how many archives each document has had
    whole,   \* the archive that last came in whole, unless it was written over
    overtaken, \* documents removed while another request was writing them
    revived, \* documents updated when their metadata had gone to the trash
    mixed,   \* documents of which two requests had a file open at once
    faults

vars == <<dir, trash, ops, deleted, made, whole, overtaken, revived, mixed, faults>>

File(o, full) == [id |-> o, writer |-> o, full |-> full]

IsFile(f) == f # None

IsWhole(f) == IsFile(f) /\ f.full

(* GetAllMetadata: what cannot be parsed is not listed.                     *)
Listed(d) == IsWhole(dir[d].meta)

Both(f) == [meta |-> f, zip |-> f]

Init ==
    /\ \E stored \in SUBSET Doc :
          /\ dir = [d \in Doc |-> Both(IF d \in stored THEN File(0, TRUE) ELSE None)]
          /\ made = [d \in Doc |-> IF d \in stored THEN 1 ELSE 0]
          /\ whole = [d \in Doc |-> IF d \in stored THEN 0 ELSE None]
    /\ trash = [d \in Doc |-> Both(None)]
    /\ ops = <<>>
    /\ deleted = [d \in Doc |-> 0]
    /\ overtaken = {}
    /\ revived = {}
    /\ mixed = {}
    /\ faults = 0

-----------------------------------------------------------------------------
(* The requests and their calls.                                            *)

(* A tablet sends the archive, and the metadata when that has arrived.      *)
(* CreateDocument's archive is complete when its deferred call closes it.   *)
Calls == [
    upload   |-> <<"openZip", "fillZip", "openMeta", "fillMeta">>,
    document |-> <<"openZip", "openMeta", "fillMeta", "fillZip">>,
    folder   |-> <<"openMeta", "fillMeta", "openZip", "fillZip">>,
    update   |-> <<"openMeta", "fillMeta">>,
    remove   |-> <<"moveMeta", "moveZip">>]

Running == {o \in DOMAIN ops : ops[o].calls # <<>>}

Calling(o, call) == o \in Running /\ Head(ops[o].calls) = call

D(o) == ops[o].doc

Removes(o) == Calling(o, "moveMeta") \/ Calling(o, "moveZip")

Begin(kind, d) ==
    /\ Len(ops) < MaxOps
    /\ ops' = Append(ops, [doc |-> d, calls |-> Calls[kind], meta |-> None, zip |-> None])
    /\ overtaken' = IF \E o \in Running : D(o) = d /\ (Removes(o) # (kind = "remove"))
                    THEN overtaken \cup {d} ELSE overtaken
    /\ revived' = IF kind = "update" /\ ~IsFile(dir[d].meta) THEN revived \cup {d} ELSE revived
    /\ UNCHANGED <<dir, trash, deleted, made, whole, mixed, faults>>

(* The IDs of new documents are new, and a request about another document   *)
(* comes from someone who has seen it.                                      *)
Known(d) == IsFile(dir[d].meta) \/ IsFile(trash[d].meta)

IsNew(d) == ~Known(d) /\ \A o \in DOMAIN ops : D(o) # d

Over(o) == [ops[o] EXCEPT !.calls = <<>>, !.meta = None, !.zip = None]

Ends(o) == ops' = [ops EXCEPT ![o] = Over(o)]

Done(o) == IF Len(ops[o].calls) = 1 THEN Ends(o) ELSE ops' = [ops EXCEPT ![o].calls = Tail(@)]

(* os.Create and os.WriteFile: the file is cut off, or made.                *)
Opened(o, f) == IF IsFile(f) THEN [id |-> f.id, writer |-> o, full |-> FALSE] ELSE File(o, FALSE)

Open(o, kind) ==
    LET f == dir[D(o)][kind] IN
    /\ dir' = [dir EXCEPT ![D(o)][kind] = Opened(o, f)]
    /\ ops' = [ops EXCEPT ![o].calls = Tail(@), ![o][kind] = Opened(o, f).id]
    /\ mixed' = IF \E p \in Running \ {o} : /\ D(p) = D(o) /\ IsFile(f)
                                            /\ ops[p][kind] = f.id
                THEN mixed \cup {D(o)} ELSE mixed
    /\ UNCHANGED <<trash, deleted, overtaken, revived, faults>>

OpenMeta(o) ==
    /\ Calling(o, "openMeta")
    /\ Open(o, "meta")
    /\ UNCHANGED <<made, whole>>

OpenZip(o) ==
    /\ Calling(o, "openZip")
    /\ Open(o, "zip")
    /\ LET f == dir[D(o)].zip IN
       /\ made' = IF IsFile(f) THEN made ELSE [made EXCEPT ![D(o)] = @ + 1]
       /\ whole' = IF IsFile(f) /\ whole[D(o)] = f.id
                   THEN [whole EXCEPT ![D(o)] = None] ELSE whole

(* The file that o has open, in the directory or in the trash.              *)
IsMine(o, kind, f) == IsFile(f) /\ f.id = ops[o][kind]

Mixes(o, kind) ==
    \E f \in {dir[D(o)][kind], trash[D(o)][kind]} : IsMine(o, kind, f) /\ f.writer # o

(* The content arrives.  When someone else has opened the file since, it    *)
(* may be what one of the two wrote, or some of both.                       *)
Filled(o, kind, f, full) ==
    IF IsMine(o, kind, f)
    THEN [id |-> f.id, writer |-> IF f.writer = o THEN o ELSE 0, full |-> full]
    ELSE f

Fill(o, kind) ==
    \E full \in {TRUE, ~Mixes(o, kind)} :
       /\ dir' = [dir EXCEPT ![D(o)][kind] = Filled(o, kind, @, full)]
       /\ trash' = [trash EXCEPT ![D(o)][kind] = Filled(o, kind, @, full)]
       /\ Done(o)
       /\ UNCHANGED <<deleted, made, overtaken, revived, mixed, faults>>

FillMeta(o) == Calling(o, "fillMeta") /\ Fill(o, "meta") /\ UNCHANGED whole

FillZip(o) ==
    /\ Calling(o, "fillZip")
    /\ Fill(o, "zip")
    /\ whole' = IF Mixes(o, "zip")
                THEN [whole EXCEPT ![D(o)] = IF @ = ops[o].zip THEN None ELSE @]
                ELSE IF IsMine(o, "zip", dir[D(o)].zip)
                THEN [whole EXCEPT ![D(o)] = ops[o].zip]
                ELSE whole

(* RemoveDocument: the metadata is moved to the trash, then the archive.    *)
Move(o, kind) ==
    /\ IsFile(dir[D(o)][kind])
    /\ trash' = [trash EXCEPT ![D(o)][kind] = dir[D(o)][kind]]
    /\ dir' = [dir EXCEPT ![D(o)][kind] = None]
    /\ UNCHANGED <<made, whole, overtaken, revived, mixed, faults>>

(* Mutant: the archive stays where it is.                                   *)
MovesOnlyMeta(o) == Calling(o, "moveMeta") /\ Move(o, "meta") /\ Ends(o) /\ UNCHANGED deleted

MoveMeta(o) == Calling(o, "moveMeta") /\ Move(o, "meta") /\ Done(o) /\ UNCHANGED deleted

(* Mutant: the archive is removed.                                          *)
Unlinks(o) ==
    /\ Calling(o, "moveZip")
    /\ dir' = [dir EXCEPT ![D(o)].zip = None]
    /\ deleted' = [deleted EXCEPT ![D(o)] = @ + 1]
    /\ Done(o)
    /\ UNCHANGED <<trash, made, whole, overtaken, revived, mixed, faults>>

(* The deletion is announced.                                               *)
MoveZip(o) ==
    /\ Calling(o, "moveZip")
    /\ Move(o, "zip")
    /\ deleted' = [deleted EXCEPT ![D(o)] = @ + 1]
    /\ Done(o)

(* Mutant: an archive that is not there need not be moved.                  *)
AnnouncesMissing(o) ==
    /\ Calling(o, "moveZip") /\ ~IsFile(dir[D(o)].zip)
    /\ deleted' = [deleted EXCEPT ![D(o)] = @ + 1]
    /\ Done(o)
    /\ UNCHANGED <<dir, trash, made, whole, overtaken, revived, mixed, faults>>

(* There is nothing to move: the request fails.                             *)
MoveMissing(o) ==
    /\ \/ Calling(o, "moveMeta") /\ ~IsFile(dir[D(o)].meta)
       \/ Calling(o, "moveZip") /\ ~IsFile(dir[D(o)].zip)
    /\ Ends(o)
    /\ UNCHANGED <<dir, trash, deleted, made, whole, overtaken, revived, mixed, faults>>

(* A call fails: the request ends, and leaves what it has done.             *)
CallFails(o) ==
    /\ o \in Running
    /\ faults < MaxFaults
    /\ faults' = faults + 1
    /\ Ends(o)
    /\ UNCHANGED <<dir, trash, deleted, made, whole, overtaken, revived, mixed>>

(* CreateDocument cannot write the metadata, or not all of it: its deferred *)
(* call completes the archive all the same.                                 *)
MetadataFails(o) ==
    /\ Calling(o, "openMeta") \/ Calling(o, "fillMeta")
    /\ ops[o].zip # None /\ ops[o].calls[Len(ops[o].calls)] = "fillZip"
    /\ faults < MaxFaults
    /\ faults' = faults + 1
    /\ ops' = [ops EXCEPT ![o].calls = <<"fillZip">>]
    /\ UNCHANGED <<dir, trash, deleted, made, whole, overtaken, revived, mixed>>

Crash ==
    /\ faults < MaxFaults
    /\ faults' = faults + 1
    /\ ops' = [o \in DOMAIN ops |-> Over(o)]
    /\ UNCHANGED <<dir, trash, deleted, made, whole, overtaken, revived, mixed>>

(* The tablet's updateStatus writes the metadata it is sent, whether or not *)
(* the document is still there.                                             *)
Requests(d) ==
    \/ (IsNew(d) \/ Known(d)) /\ Begin("upload", d)
    \/ IsNew(d) /\ Begin("document", d)
    \/ IsNew(d) /\ Begin("folder", d)
    \/ Known(d) /\ Begin("update", d)
    \/ Known(d) /\ Begin("remove", d)

Call(o) == \/ OpenMeta(o) \/ OpenZip(o) \/ FillMeta(o) \/ FillZip(o)
           \/ MoveMeta(o) \/ MoveZip(o) \/ MoveMissing(o) \/ CallFails(o)
           \/ MetadataFails(o)

Next ==
    \/ \E d \in Doc : Requests(d)
    \/ \E o \in Running : Call(o)
    \/ Crash

Spec == Init /\ [][Next]_vars

-----------------------------------------------------------------------------
CallName == {"openMeta", "openZip", "fillMeta", "fillZip", "moveMeta", "moveZip"}

Files == [meta : FileType \cup {None}, zip : FileType \cup {None}]

Request == [doc : Doc, calls : Seq(CallName), meta : Nat \cup {None}, zip : Nat \cup {None}]

TypeOK ==
    /\ dir \in [Doc -> Files]
    /\ trash \in [Doc -> Files]
    /\ ops \in Seq(Request)
    /\ deleted \in [Doc -> Nat]
    /\ made \in [Doc -> Nat]
    /\ whole \in [Doc -> Nat \cup {None}]
    /\ overtaken \subseteq Doc
    /\ revived \subseteq Doc
    /\ mixed \subseteq Doc
    /\ faults \in Nat

(* Documents of which no requests came upon one another, and that were not  *)
(* updated once they were in the trash.                                     *)
Orderly == Doc \ (mixed \cup overtaken \cup revived)

(* Deleting moves to the trash: the archive that last came in whole is in   *)
(* one of the two places, whatever fails, until it is written over          *)
(* (RemoveDocument).  Not so where two wrote one file, or a removal came    *)
(* upon a write, or an update brought the metadata back (updateStatus):     *)
(* what is half an archive may then be deleted over it.                     *)
ArchiveSurvives ==
    \A d \in Orderly : whole[d] # None =>
        \E f \in {dir[d].zip, trash[d].zip} : IsWhole(f) /\ f.id = whole[d]

(* However many delete a document at once, and whatever fails, each of its  *)
(* archives is announced as deleted once at most (RemoveDocument's event).  *)
OneDeletionPerArchive == \A d \in Doc : deleted[d] <= made[d]

(* At rest, when nothing has failed, what is listed has its archive and     *)
(* what has an archive is listed.  This needs no lock except between two    *)
(* that write one file, and where an update or an upload is overtaken by a  *)
(* removal; an update that comes after the removal lists the document again *)
(* without its archive (updateStatus).                                      *)
MetaAndArchive ==
    Running = {} /\ faults = 0 =>
        \A d \in Orderly : Listed(d) <=> IsWhole(dir[d].zip)

=============================================================================
