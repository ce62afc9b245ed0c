------------------------------ MODULE RootStore ------------------------------
(***************************************************************************)
(* The root of one user's sync15 storage: the files `root` and             *)
(* `.root.history`, the lock on the history, and the two operations that   *)
(* every tablet request and every web UI edit ends in, StoreBlob and       *)
(* LoadBlob with the blob id "root" (internal/storage/fs/blobstore.go).    *)
(*                                                                         *)
(* The lock (gofslock) does not wait: a caller that finds it held gets an  *)
(* error and changes nothing, which is a stutter here.  The content of the *)
(* root is read after LoadBlob has returned and released the lock, so a    *)
(* reader may see an old generation with a newer, or an empty, root.       *)
(***************************************************************************)
EXTENDS Integers, Sequences, FiniteSets

CONSTANTS Client,       \* tablets, and the server's own tree updates
          Hash,         \* the root hashes they commit
          Nobody,       \* the lock's holder when it is free
          NoFile,       \* the root file does not exist
          Empty,        \* the root file exists and holds nothing
          PartialLine,  \* bytes an append that does not end leaves in the history
          ShortLine,    \* bytes of one that goes on after a failed WriteString
          MaxSize,      \* bound: no commit starts on a history of this size
          MaxFaults     \* bound: crashes and failed writes

LineSize == 86          \* RFC 3339 time, a space, 64 hex digits, a newline

ASSUME ClientAssumption == Client # {} /\ Nobody \notin Client
ASSUME HashAssumption == NoFile # Empty /\ NoFile \notin Hash /\ Empty \notin Hash
ASSUME LineAssumption == PartialLine \subseteq 0..85 /\ ShortLine \subseteq 64..85
ASSUME BoundAssumption == MaxSize \in Nat /\ MaxFaults \in Nat

Content == Hash \cup {NoFile, Empty}

VARIABLES
    history,  \* the lines of .root.history that stand for a commit; base is an
              \* observation: the root the committing client had last seen
    size,     \* the length of .root.history in bytes
    root,     \* the content of the file root
    lock,     \* who holds the lock on .root.history
    op,       \* the operation each client has in progress
    view,     \* the root each client last saw, and its generation
    events,   \* internal.root_committed events handed to the bus
    faults,   \* crashes and failed writes so far
    tears     \* how many of them left history, generation and root apart

vars == <<history, size, root, lock, op, view, events, faults, tears>>

(* Mutant: the number of the last line instead of the number of lines.      *)
LastLineNumber(bytes) == bytes \div LineSize - 1

generationFromFileSize(bytes) == bytes \div LineSize

Generation == generationFromFileSize(size)

Idle == [pc |-> "idle"]

Init ==
    /\ history = <<>>
    /\ size = 0
    /\ root = NoFile
    /\ lock = Nobody
    /\ op = [c \in Client |-> Idle]
    /\ view = [c \in Client |-> [gen |-> 0, val |-> NoFile]]
    /\ events = <<>>
    /\ faults = 0
    /\ tears = 0

At(c, label) == op[c].pc = label

-----------------------------------------------------------------------------
(* StoreBlob(uid, "root", hash, lastGen).  A tablet or updateTree sends the *)
(* generation it last saw; a request without the generation header, and a   *)
(* PUT of the file "root", send 0.                                          *)
LastGens(c) == {0, view[c].gen}

StoreLock(c) ==
    /\ At(c, "idle")
    /\ size < MaxSize
    /\ lock = Nobody
    /\ lock' = c
    /\ \E h \in Hash, g \in LastGens(c) :
          op' = [op EXCEPT ![c] = [pc |-> "locked", hash |-> h, lastGen |-> g,
                                   base |-> view[c].val]]
    /\ UNCHANGED <<history, size, root, view, events, faults, tears>>

(* Mutant: a client may be one commit behind.                               *)
OneBehindIsFine(lastGen) ==
    /\ Generation > lastGen + 1
    /\ root # NoFile

WrongGeneration(lastGen) ==
    /\ Generation # lastGen
    /\ Generation > 0
    /\ root # NoFile

Appending(c) == At(c, "locked") /\ ~WrongGeneration(op[c].lastGen)

Release(c) ==
    /\ lock' = Nobody
    /\ op' = [op EXCEPT ![c] = Idle]

(* ErrorWrongGeneration: 412 to a signed upload, 500 to a v3 root update.   *)
StoreReject(c) ==
    /\ At(c, "locked")
    /\ WrongGeneration(op[c].lastGen)
    /\ Release(c)
    /\ UNCHANGED <<history, size, root, view, events, faults, tears>>

(* The line is appended; `before` was read from the root under the lock.    *)
Appends(c, bytes) ==
    /\ Appending(c)
    /\ history' = Append(history, [hash |-> op[c].hash, base |-> op[c].base])
    /\ size' = size + bytes
    /\ op' = [op EXCEPT ![c] = [pc |-> "appended", hash |-> op[c].hash,
                                before |-> root,
                                gen |-> generationFromFileSize(size')]]
    /\ UNCHANGED <<root, lock, view, events>>

StoreAppend(c) == Appends(c, LineSize) /\ UNCHANGED <<faults, tears>>

(* The errors of the two WriteString calls are ignored: the time, its space *)
(* or the newline may be missing, and the commit goes on.  The generation   *)
(* then advances only if earlier appends left enough bytes behind.          *)
StoreAppendShort(c) ==
    /\ faults < MaxFaults
    /\ faults' = faults + 1
    /\ \E bytes \in ShortLine :
          /\ Appends(c, bytes)
          /\ tears' = IF generationFromFileSize(size + bytes) = Generation
                      THEN tears + 1 ELSE tears

(* The history cannot be opened, the request's body breaks off or the disk  *)
(* is full: part of the line stays, StoreBlob returns the error.            *)
StoreAppendFails(c) ==
    /\ Appending(c)
    /\ faults < MaxFaults
    /\ faults' = faults + 1
    /\ \E bytes \in PartialLine : size' = size + bytes
    /\ Release(c)
    /\ UNCHANGED <<history, root, view, events, tears>>

(* os.Create truncates the root file that open readers share.               *)
StoreCreate(c) ==
    /\ At(c, "appended")
    /\ root' = Empty
    /\ op' = [op EXCEPT ![c].pc = "created"]
    /\ UNCHANGED <<history, size, lock, view, events, faults, tears>>

(* io.Copy writes the hash; the deferred calls close the files and release  *)
(* the lock before the one that publishes the event runs.                   *)
StoreCopy(c) ==
    /\ At(c, "created")
    /\ root' = op[c].hash
    /\ lock' = Nobody
    /\ op' = [op EXCEPT ![c].pc = "unlocked"]
    /\ UNCHANGED <<history, size, view, events, faults, tears>>

(* Seek, os.Create or io.Copy fails after the history has grown.            *)
StoreRootFails(c) ==
    /\ At(c, "appended") \/ At(c, "created")
    /\ faults < MaxFaults
    /\ faults' = faults + 1
    /\ tears' = tears + 1
    /\ Release(c)
    /\ UNCHANGED <<history, size, root, view, events>>

StoreReturn(c) ==
    /\ At(c, "unlocked")
    /\ events' = IF op[c].before = op[c].hash THEN events
                 ELSE Append(events, [before |-> op[c].before, after |-> op[c].hash])
    /\ view' = [view EXCEPT ![c] = [gen |-> op[c].gen, val |-> op[c].hash]]
    /\ op' = [op EXCEPT ![c] = Idle]
    /\ UNCHANGED <<history, size, root, lock, faults, tears>>

-----------------------------------------------------------------------------
(* LoadBlob(uid, "root") and the read of the content by its caller          *)
(* (GetRootIndex, syncGetRootV3, syncGetRootV4, downloadBlob).              *)

LoadLock(c) ==
    /\ At(c, "idle")
    /\ lock = Nobody
    /\ lock' = c
    /\ op' = [op EXCEPT ![c] = [pc |-> "loading"]]
    /\ UNCHANGED <<history, size, root, view, events, faults, tears>>

LoadNotFound(c) ==
    /\ At(c, "loading")
    /\ root = NoFile
    /\ view' = [view EXCEPT ![c] = [gen |-> Generation, val |-> NoFile]]
    /\ Release(c)
    /\ UNCHANGED <<history, size, root, events, faults, tears>>

LoadOpen(c) ==
    /\ At(c, "loading")
    /\ root # NoFile
    /\ lock' = Nobody
    /\ op' = [op EXCEPT ![c] = [pc |-> "opened", gen |-> Generation]]
    /\ UNCHANGED <<history, size, root, view, events, faults, tears>>

(* Mutant: the generation is taken with the content, after the lock.        *)
ReadsGenerationLate(c) ==
    /\ At(c, "opened")
    /\ view' = [view EXCEPT ![c] = [gen |-> Generation, val |-> root]]
    /\ op' = [op EXCEPT ![c] = Idle]
    /\ UNCHANGED <<history, size, root, lock, events, faults, tears>>

LoadRead(c) ==
    /\ At(c, "opened")
    /\ view' = [view EXCEPT ![c] = [gen |-> op[c].gen, val |-> root]]
    /\ op' = [op EXCEPT ![c] = Idle]
    /\ UNCHANGED <<history, size, root, lock, events, faults, tears>>

-----------------------------------------------------------------------------
(* The server stops: every operation is gone, the system frees the lock,    *)
(* the files stay as they are (an append may have got only part of its line *)
(* out) and the clients keep what they saw.                                 *)
Crash ==
    /\ faults < MaxFaults
    /\ faults' = faults + 1
    /\ tears' = IF \E c \in Client : At(c, "appended") \/ At(c, "created")
                 THEN tears + 1 ELSE tears
    /\ \/ size' = size
       \/ /\ \E c \in Client : Appending(c)
          /\ \E bytes \in PartialLine : size' = size + bytes
    /\ lock' = Nobody
    /\ op' = [c \in Client |-> Idle]
    /\ UNCHANGED <<history, root, view, events>>

Step(c) ==
    \/ StoreLock(c) \/ StoreReject(c) \/ StoreAppend(c) \/ StoreAppendShort(c)
    \/ StoreAppendFails(c) \/ StoreCreate(c) \/ StoreCopy(c) \/ StoreRootFails(c) \/ StoreReturn(c)
    \/ LoadLock(c) \/ LoadNotFound(c) \/ LoadOpen(c) \/ LoadRead(c)

Next == Crash \/ \E c \in Client : Step(c)

Spec == Init /\ [][Next]_vars

-----------------------------------------------------------------------------
Last(s) == s[Len(s)]

OpType ==
    [pc : {"idle", "loading"}]
      \cup [pc : {"locked"}, hash : Hash, lastGen : Nat, base : Content]
      \cup [pc : {"appended", "created", "unlocked"}, hash : Hash,
            before : Content, gen : Nat]
      \cup [pc : {"opened"}, gen : Nat]

TypeOK ==
    /\ history \in Seq([hash : Hash, base : Content])
    /\ size \in Nat
    /\ root \in Content
    /\ lock \in Client \cup {Nobody}
    /\ op \in [Client -> OpType]
    /\ view \in [Client -> [gen : Nat, val : Content]]
    /\ events \in Seq([before : Content, after : Hash])
    /\ faults \in Nat
    /\ tears \in Nat

(* A commit replaces the root its client had last seen: no accepted commit  *)
(* silently discards another one, although the root is read outside the     *)
(* lock and the generation is only the length of a file (StoreBlob's        *)
(* generation check).  It ends with the first commit that a failure tears:  *)
(* stopped between history and root, or made with a history line so short   *)
(* that the generation stays.                                               *)
NoLostUpdate ==
    tears = 0 => \A i \in 2..Len(history) : history[i].base = history[i - 1].hash

(* A client that holds the current generation holds the current root: what  *)
(* a read pairs up outside the lock is either right or too old to be        *)
(* accepted, until a commit is torn (LoadBlob and its callers).             *)
CurrentViewIsRight ==
    tears = 0 => \A c \in Client :
                history # <<>> /\ view[c].gen = Generation
                    => view[c].val = Last(history).hash

(* StoreBlob and LoadBlob implement the register of RootRegister.           *)
Register == INSTANCE RootRegister WITH log <- history, Unknown <- {NoFile, Empty}

ImplementsRegister == Register!Spec
=============================================================================
