--------------------------- MODULE RootStoreProofs ---------------------------
(***************************************************************************)
(* What holds of RootStore and of DocumentEvents for every set of clients, *)
(* every set of hashes and of documents and every number of faults.        *)
(***************************************************************************)
EXTENDS DocumentEvents, FiniteSetTheorems, TLAPS

(* Growing the history by a line adds one generation; growing it by part of *)
(* a line never takes one away.                                             *)
LEMMA GenerationOfLine ==
    ASSUME NEW n \in Nat
    PROVE  /\ generationFromFileSize(n) \in Nat
           /\ generationFromFileSize(n + LineSize) = generationFromFileSize(n) + 1
           /\ n >= LineSize => generationFromFileSize(n) > 0
  BY DEF generationFromFileSize, LineSize

LEMMA GenerationOfPart ==
    ASSUME NEW n \in Nat, NEW p \in PartialLine
    PROVE  /\ n + p \in Nat
           /\ n + p >= n
           /\ generationFromFileSize(n + p) >= generationFromFileSize(n)
  BY LineAssumption DEF generationFromFileSize, LineSize

(* A short line adds one generation or none.                                *)
LEMMA GenerationOfShort ==
    ASSUME NEW n \in Nat, NEW p \in ShortLine
    PROVE  /\ n + p \in Nat
           /\ \/ generationFromFileSize(n + p) = generationFromFileSize(n)
              \/ generationFromFileSize(n + p) = generationFromFileSize(n) + 1
  BY LineAssumption DEF generationFromFileSize, LineSize

-----------------------------------------------------------------------------
Holding(c) == op[c].pc \in {"locked", "appended", "created", "loading"}

Writing(c) == op[c].pc \in {"appended", "created"}

(* The lock is held by exactly the client that is between Lock and Unlock.  *)
LockInv == \A c \in Client : Holding(c) <=> lock = c

(* Between operations the root file is the history's last line.             *)
RootInv ==
    (\A c \in Client : ~Writing(c))
        => IF history = <<>> THEN root = NoFile ELSE root = Last(history).hash

SizeInv == history # <<>> => size >= LineSize

(* Whoever has a generation in hand has the current root with it, or the    *)
(* generation is no longer the current one.                                 *)
ViewInv ==
    \A c \in Client :
        /\ view[c].gen <= Generation
        /\ history # <<>> /\ view[c].gen = Generation
              => view[c].val = Last(history).hash

LockedInv ==
    \A c \in Client :
        At(c, "locked") /\ history # <<>> /\ op[c].lastGen = Generation
            => op[c].base = Last(history).hash

WriteInv ==
    \A c \in Client :
        Writing(c) => /\ history # <<>>
                      /\ op[c].hash = Last(history).hash
                      /\ op[c].gen = Generation

OpenedInv ==
    \A c \in Client :
        At(c, "opened") => /\ op[c].gen <= Generation
                           /\ op[c].gen = Generation =>
                                /\ history # <<>>
                                /\ root = Last(history).hash
                                /\ \A d \in Client : ~Writing(d)

UnlockedInv ==
    \A c \in Client :
        At(c, "unlocked") => /\ op[c].gen <= Generation
                             /\ op[c].gen = Generation =>
                                  /\ history # <<>>
                                  /\ op[c].hash = Last(history).hash

Chain == \A i \in 2..Len(history) : history[i].base = history[i - 1].hash

Untorn ==
    /\ RootInv /\ SizeInv /\ ViewInv /\ LockedInv
    /\ WriteInv /\ OpenedInv /\ UnlockedInv /\ Chain

IInv == TypeOK /\ LockInv /\ (tears = 0 => Untorn)
-----------------------------------------------------------------------------
LEMMA InitInvariant == Init => IInv
  <1> SUFFICES ASSUME Init PROVE IInv
    OBVIOUS
  <1> USE ClientAssumption, HashAssumption DEF Init, Idle
  <1>1. TypeOK
    BY DEF TypeOK, OpType, Content
  <1>2. LockInv
    BY DEF LockInv, Holding
  <1>3. RootInv /\ SizeInv /\ LockedInv /\ WriteInv /\ OpenedInv /\ UnlockedInv /\ Chain
    BY DEF RootInv, SizeInv, LockedInv, WriteInv, OpenedInv, UnlockedInv, Chain, Writing, At
  <1>4. ViewInv
    BY DEF ViewInv, Generation, generationFromFileSize, LineSize
  <1> QED
    BY <1>1, <1>2, <1>3, <1>4 DEF IInv, Untorn

LEMMA AppendType ==
    ASSUME NEW S, NEW s \in Seq(S), NEW e \in S
    PROVE  Append(s, e) \in Seq(S)
  OBVIOUS

(* What the record of a running operation holds.                            *)
LEMMA OpFields ==
    ASSUME TypeOK, NEW c \in Client
    PROVE  /\ At(c, "locked") => /\ op[c].hash \in Hash
                                 /\ op[c].lastGen \in Nat
                                 /\ op[c].base \in Content
           /\ At(c, "appended") \/ At(c, "created") \/ At(c, "unlocked")
                => /\ op[c].hash \in Hash
                   /\ op[c].before \in Content
                   /\ op[c].gen \in Nat
           /\ At(c, "opened") => op[c].gen \in Nat
  BY DEF TypeOK, OpType, At

LEMMA LastElement ==
    ASSUME NEW S, NEW s \in Seq(S), s # <<>>
    PROVE  Len(s) \in Nat \ {0} /\ s[Len(s)] \in S
  <1>1. Len(s) \in Nat \ {0}
    OBVIOUS
  <1> QED
    BY <1>1, Len(s) \in 1..Len(s)

LEMMA LastType ==
    ASSUME TypeOK, history # <<>>
    PROVE  /\ Len(history) \in Nat \ {0}
           /\ Last(history).hash \in Hash
  <1>1. Last(history) \in [hash : Hash, base : Content] /\ Len(history) \in Nat \ {0}
    BY LastElement DEF TypeOK, Last
  <1> QED
    BY <1>1

LEMMA GenerationType == TypeOK => Generation \in Nat
  BY GenerationOfLine DEF TypeOK, Generation

(* An append that goes on adds a generation, or tears the commit.           *)
LEMMA AppendKinds ==
    ASSUME TypeOK, NEW c \in Client, StoreAppend(c) \/ StoreAppendShort(c)
    PROVE  /\ size' \in Nat
           /\ \E n \in ShortLine \cup {LineSize} : Appends(c, n)
           /\ \/ tears' = tears /\ Generation' = Generation + 1
              \/ tears' = tears + 1
  <1> USE DEF TypeOK
  <1>1. CASE StoreAppend(c)
    <2>1. Appends(c, LineSize) /\ tears' = tears
      BY <1>1 DEF StoreAppend
    <2>2. size' = size + LineSize
      BY <2>1 DEF Appends
    <2>3. size' \in Nat /\ Generation' = Generation + 1
      BY <2>2, GenerationOfLine DEF Generation, LineSize
    <2> QED
      BY <2>1, <2>3
  <1>2. CASE StoreAppendShort(c)
    <2>1. PICK n \in ShortLine :
             /\ Appends(c, n)
             /\ tears' = IF generationFromFileSize(size + n) = Generation
                         THEN tears + 1 ELSE tears
      BY <1>2 DEF StoreAppendShort
    <2>2. size' = size + n
      BY <2>1 DEF Appends
    <2>3. /\ size' \in Nat
          /\ \/ tears' = tears /\ Generation' = Generation + 1
             \/ tears' = tears + 1
      BY <2>1, <2>2, GenerationOfShort DEF Generation
    <2> QED
      BY <2>1, <2>3
  <1> QED
    BY <1>1, <1>2

(* Every step keeps the variables in their types.                           *)
LEMMA TypeInvariant == TypeOK /\ [Next]_vars => TypeOK'
  <1> SUFFICES ASSUME TypeOK, [Next]_vars PROVE TypeOK'
    OBVIOUS
  <1> USE GenerationType DEF TypeOK
  <1>1. ASSUME NEW c \in Client, StoreLock(c) PROVE TypeOK'
    <2>1. op' \in [Client -> OpType]
      BY <1>1 DEF StoreLock, LastGens, OpType
    <2> QED
      BY <1>1, <2>1 DEF StoreLock
  <1>2. ASSUME NEW c \in Client, StoreReject(c) PROVE TypeOK'
    BY <1>2 DEF StoreReject, Release, Idle, OpType
  <1>3. ASSUME NEW c \in Client, StoreAppend(c) \/ StoreAppendShort(c) PROVE TypeOK'
    <2>1. size' \in Nat /\ generationFromFileSize(size') \in Nat
      BY <1>3, AppendKinds, GenerationOfLine
    <2>2. PICK n \in ShortLine \cup {LineSize} : Appends(c, n)
      BY <1>3, AppendKinds
    <2>3. op' \in [Client -> OpType]
      BY <2>1, <2>2, OpFields DEF Appends, Appending, OpType
    <2>4. history' \in Seq([hash : Hash, base : Content])
      BY <2>2, OpFields DEF Appends, Appending
    <2>5. tears' \in Nat /\ faults' \in Nat
      BY <1>3, AppendKinds DEF StoreAppend, StoreAppendShort
    <2> QED
      BY <2>1, <2>2, <2>3, <2>4, <2>5 DEF Appends
  <1>4. ASSUME NEW c \in Client, StoreAppendFails(c) PROVE TypeOK'
    <2>1. size' \in Nat
      BY <1>4, GenerationOfPart DEF StoreAppendFails
    <2>2. op' \in [Client -> OpType]
      BY <1>4 DEF StoreAppendFails, Release, Idle, OpType
    <2> QED
      BY <1>4, <2>1, <2>2 DEF StoreAppendFails, Release
  <1>5. ASSUME NEW c \in Client, StoreCreate(c) PROVE TypeOK'
    BY <1>5, ZenonT(40) DEF StoreCreate, At, OpType, Content
  <1>6. ASSUME NEW c \in Client, StoreCopy(c) PROVE TypeOK'
    BY <1>6, ZenonT(40) DEF StoreCopy, At, OpType, Content
  <1>7. ASSUME NEW c \in Client, StoreRootFails(c) PROVE TypeOK'
    <2>1. op' \in [Client -> OpType]
      BY <1>7 DEF StoreRootFails, Release, Idle, OpType
    <2> QED
      BY <1>7, <2>1 DEF StoreRootFails, Release
  <1>8. ASSUME NEW c \in Client, StoreReturn(c) PROVE TypeOK'
    <2> DEFINE event == [before |-> op[c].before, after |-> op[c].hash]
    <2>1. /\ event \in [before : Content, after : Hash]
          /\ op[c].gen \in Nat /\ op[c].hash \in Content
      BY <1>8, OpFields DEF StoreReturn, Content
    <2>2. events' = events \/ events' = Append(events, event)
      BY <1>8 DEF StoreReturn
    <2>3. events' \in Seq([before : Content, after : Hash])
      <3>1. Append(events, event) \in Seq([before : Content, after : Hash])
        <4> HIDE DEF event
        <4> QED
          BY <2>1, AppendType
      <3> QED
        BY <2>2, <3>1
    <2>4. view' \in [Client -> [gen : Nat, val : Content]]
      BY <1>8, <2>1 DEF StoreReturn
    <2>5. op' \in [Client -> OpType]
      BY <1>8 DEF StoreReturn, Idle, OpType
    <2> QED
      BY <1>8, <2>3, <2>4, <2>5 DEF StoreReturn
  <1>9. ASSUME NEW c \in Client, LoadLock(c) PROVE TypeOK'
    BY <1>9 DEF LoadLock, OpType
  <1>10. ASSUME NEW c \in Client, LoadNotFound(c) PROVE TypeOK'
    BY <1>10 DEF LoadNotFound, Release, Idle, OpType, Content
  <1>11. ASSUME NEW c \in Client, LoadOpen(c) PROVE TypeOK'
    BY <1>11 DEF LoadOpen, OpType
  <1>12. ASSUME NEW c \in Client, LoadRead(c) PROVE TypeOK'
    BY <1>12 DEF LoadRead, At, Idle, OpType
  <1>13. CASE Crash
    <2>1. size' \in Nat /\ tears' \in Nat /\ faults' \in Nat
      BY <1>13, GenerationOfPart DEF Crash
    <2>2. op' \in [Client -> OpType]
      BY <1>13 DEF Crash, Idle, OpType
    <2> QED
      BY <1>13, <2>1, <2>2 DEF Crash
  <1>14. CASE UNCHANGED vars
    BY <1>14 DEF vars
  <1> QED
    BY <1>1, <1>2, <1>3, <1>4, <1>5, <1>6, <1>7, <1>8, <1>9, <1>10, <1>11, <1>12, <1>13,
       <1>14 DEF Next, Step

(* The lock and the program counters agree: no action takes the lock from   *)
(* another client or works on the files without it.                         *)
LEMMA LockInvariant == TypeOK /\ LockInv /\ [Next]_vars => LockInv'
  <1> SUFFICES ASSUME TypeOK, LockInv, [Next]_vars PROVE LockInv'
    OBVIOUS
  <1> USE ClientAssumption DEF TypeOK, LockInv, Holding, At, Idle, Release
  <1>1. ASSUME NEW c \in Client, StoreLock(c) PROVE LockInv'
    BY <1>1 DEF StoreLock
  <1>2. ASSUME NEW c \in Client, StoreReject(c) PROVE LockInv'
    BY <1>2 DEF StoreReject
  <1>3. ASSUME NEW c \in Client, StoreAppend(c) \/ StoreAppendShort(c) PROVE LockInv'
    <2>1. PICK n \in ShortLine \cup {LineSize} : Appends(c, n)
      BY <1>3, AppendKinds
    <2> QED
      BY <2>1 DEF Appends, Appending
  <1>4. ASSUME NEW c \in Client, StoreAppendFails(c) PROVE LockInv'
    BY <1>4 DEF StoreAppendFails, Appending
  <1>5. ASSUME NEW c \in Client, StoreCreate(c) PROVE LockInv'
    BY <1>5 DEF StoreCreate
  <1>6. ASSUME NEW c \in Client, StoreCopy(c) PROVE LockInv'
    BY <1>6 DEF StoreCopy
  <1>7. ASSUME NEW c \in Client, StoreRootFails(c) PROVE LockInv'
    BY <1>7 DEF StoreRootFails
  <1>8. ASSUME NEW c \in Client, StoreReturn(c) PROVE LockInv'
    BY <1>8 DEF StoreReturn
  <1>9. ASSUME NEW c \in Client, LoadLock(c) PROVE LockInv'
    BY <1>9 DEF LoadLock
  <1>10. ASSUME NEW c \in Client, LoadNotFound(c) PROVE LockInv'
    BY <1>10 DEF LoadNotFound
  <1>11. ASSUME NEW c \in Client, LoadOpen(c) PROVE LockInv'
    BY <1>11 DEF LoadOpen
  <1>12. ASSUME NEW c \in Client, LoadRead(c) PROVE LockInv'
    BY <1>12 DEF LoadRead
  <1>13. CASE Crash
    BY <1>13 DEF Crash
  <1>14. CASE UNCHANGED vars
    BY <1>14 DEF vars
  <1> QED
    BY <1>1, <1>2, <1>3, <1>4, <1>5, <1>6, <1>7, <1>8, <1>9, <1>10, <1>11, <1>12, <1>13, <1>14 DEF Next, Step

(* The state that no torn commit has spoilt.                                *)
LEMMA UntornInvariant ==
    TypeOK /\ LockInv /\ Untorn /\ TypeOK' /\ LockInv' /\ tears = 0 /\ tears' = 0 /\ [Next]_vars
        => Untorn'
  <1> SUFFICES ASSUME TypeOK, LockInv, Untorn, TypeOK', LockInv', tears = 0, tears' = 0, [Next]_vars
               PROVE  Untorn'
    OBVIOUS
  <1> USE GenerationType DEF Untorn
  <1>1. ASSUME NEW c \in Client, StoreLock(c) PROVE Untorn'
    <2>1. /\ \A d \in Client : Writing(d)' <=> Writing(d)
          /\ \A d \in Client : d # c => op'[d] = op[d]
          /\ At(c, "locked")'
          /\ op'[c].lastGen \in {0, view[c].gen} /\ op'[c].base = view[c].val
      BY <1>1 DEF StoreLock, LastGens, At, Writing, TypeOK
    <2>2. LockedInv'
      <3>1. history # <<>> => Generation > 0
        BY GenerationOfLine DEF SizeInv, TypeOK, Generation
      <3> QED
        BY <1>1, <2>1, <3>1 DEF StoreLock, LastGens, LockedInv, ViewInv, At, Generation
    <2>3. RootInv' /\ SizeInv' /\ ViewInv' /\ Chain'
      BY <1>1, <2>1 DEF StoreLock, RootInv, SizeInv, ViewInv, Chain, Generation
    <2>4. WriteInv' /\ OpenedInv' /\ UnlockedInv'
      BY <1>1, <2>1 DEF StoreLock, WriteInv, OpenedInv, UnlockedInv, Writing, At, Generation
    <2> QED
      BY <2>2, <2>3, <2>4
  <1>2. ASSUME NEW c \in Client, StoreReject(c) PROVE Untorn'
    <2>1. \A d \in Client : ~Writing(d)' /\ ~Writing(d)
      BY <1>2 DEF StoreReject, Release, Idle, LockInv, Holding, Writing, At, TypeOK
    <2>2. \A d \in Client : d # c => op'[d] = op[d]
      BY <1>2 DEF StoreReject, Release, TypeOK
    <2>3. At(c, "idle")'
      BY <1>2 DEF StoreReject, Release, Idle, At, TypeOK
    <2> QED
      BY <1>2, <2>1, <2>2, <2>3 DEF StoreReject, RootInv, SizeInv, ViewInv, LockedInv, WriteInv,
         OpenedInv, UnlockedInv, Chain, At, Generation
  <1>3. ASSUME NEW c \in Client, StoreAppend(c) \/ StoreAppendShort(c) PROVE Untorn'
    <2>0. PICK n \in ShortLine \cup {LineSize} : Appends(c, n)
      BY <1>3, AppendKinds
    <2> DEFINE entry == [hash |-> op[c].hash, base |-> op[c].base]
    <2>1. /\ history' = Append(history, entry)
          /\ history' # <<>>
          /\ Len(history') = Len(history) + 1
          /\ Last(history)' = entry
          /\ \A i \in 1..Len(history) : history'[i] = history[i]
      <3>1. history' = Append(history, entry)
        BY <2>0 DEF Appends
      <3>2. entry \in [hash : Hash, base : Content] /\ history \in Seq([hash : Hash, base : Content])
        BY <2>0, OpFields DEF Appends, Appending, TypeOK
      <3> HIDE DEF entry
      <3> QED
        BY <3>1, <3>2 DEF Last
    <2>2. Generation' = Generation + 1
      BY <1>3, AppendKinds DEF TypeOK
    <2>3. /\ \A d \in Client : d # c => op'[d] = op[d]
          /\ op'[c].pc = "appended" /\ op'[c].hash = op[c].hash /\ op'[c].gen = Generation'
          /\ \A d \in Client : ~Writing(d)
          /\ UNCHANGED <<root, view>>
      BY <2>0 DEF Appends, Appending, LockInv, Holding, Writing, At, Generation, TypeOK
    <2>4. history # <<>> => op[c].base = Last(history).hash
      <3> SUFFICES ASSUME history # <<>> PROVE op[c].base = Last(history).hash
        OBVIOUS
      <3>1. Generation > 0
        BY GenerationOfLine DEF SizeInv, TypeOK, Generation
      <3>2. root # NoFile
        BY <2>3, HashAssumption, LastType DEF RootInv
      <3> QED
        BY <2>0, <3>1, <3>2 DEF Appends, Appending, WrongGeneration, LockedInv
    <2>5. Chain'
      <3> SUFFICES ASSUME NEW i \in 2..Len(history')
                   PROVE  history'[i].base = history'[i - 1].hash
        BY DEF Chain
      <3>1. Len(history) \in Nat
        BY DEF TypeOK
      <3>2. CASE i = Len(history) + 1
        <4>1. i - 1 = Len(history) /\ history # <<>> /\ Len(history) \in 1..Len(history)
          BY <3>1, <3>2
        <4>2. history'[i - 1] = Last(history)
          BY <2>1, <4>1 DEF Last
        <4>3. history'[i] = entry
          BY <2>1, <3>2 DEF Last
        <4> QED
          BY <2>4, <4>1, <4>2, <4>3
      <3>3. CASE i # Len(history) + 1
        <4>1. i \in 2..Len(history) /\ i \in 1..Len(history) /\ i - 1 \in 1..Len(history)
          BY <2>1, <3>1, <3>3
        <4>2. history'[i] = history[i] /\ history'[i - 1] = history[i - 1]
          BY <2>1, <4>1
        <4> QED
          BY <4>1, <4>2 DEF Chain
      <3> QED
        BY <3>2, <3>3
    <2>6. RootInv' /\ WriteInv'
      BY <2>1, <2>2, <2>3 DEF RootInv, WriteInv, Writing
    <2>7. SizeInv'
      <3>1. size' \in Nat /\ Generation' > 0
        BY <1>3, <2>2, AppendKinds DEF TypeOK
      <3>2. ASSUME NEW m \in Nat, m \div LineSize > 0 PROVE m >= LineSize
        BY <3>2 DEF LineSize
      <3> QED
        BY <3>1, <3>2 DEF SizeInv, Generation, generationFromFileSize
    <2>8. ViewInv' /\ OpenedInv' /\ UnlockedInv'
      <3>1. ViewInv'
        BY <2>2, <2>3 DEF ViewInv, TypeOK
      <3>2. OpenedInv'
        BY <2>2, <2>3, OpFields DEF OpenedInv, At
      <3>3. UnlockedInv'
        BY <2>2, <2>3, OpFields DEF UnlockedInv, At
      <3> QED
        BY <3>1, <3>2, <3>3
    <2>9. LockedInv'
      BY <2>0, <2>3 DEF LockedInv, LockInv, Holding, Appends, Appending, At
    <2> QED
      BY <2>5, <2>6, <2>7, <2>8, <2>9
  <1>4. ASSUME NEW c \in Client, StoreAppendFails(c) PROVE Untorn'
    <2>1. /\ Generation' \in Nat /\ Generation' >= Generation
          /\ size' \in Nat /\ size' >= size
      <3>1. PICK p \in PartialLine : size' = size + p
        BY <1>4 DEF StoreAppendFails
      <3> QED
        BY <3>1, GenerationOfLine, GenerationOfPart DEF Generation, TypeOK
    <2>2. /\ \A d \in Client : d # c => op'[d] = op[d]
          /\ op'[c].pc = "idle"
          /\ \A d \in Client : ~Writing(d) /\ ~Writing(d)'
          /\ \A d \in Client : op[d].pc = "locked" => d = c
          /\ UNCHANGED <<history, root, view>>
      BY <1>4 DEF StoreAppendFails, Appending, Release, Idle, LockInv, Holding, Writing, At,
         TypeOK
    <2>3. RootInv' /\ WriteInv' /\ LockedInv' /\ Chain'
      BY <2>2 DEF RootInv, WriteInv, LockedInv, Chain, At
    <2>4. SizeInv'
      BY <2>1, <2>2 DEF SizeInv, TypeOK, LineSize
    <2>5. ViewInv'
      BY <2>1, <2>2 DEF ViewInv, TypeOK
    <2>6. OpenedInv'
      BY <2>1, <2>2, OpFields DEF OpenedInv, At
    <2>7. UnlockedInv'
      BY <2>1, <2>2, OpFields DEF UnlockedInv, At
    <2> QED
      BY <2>3, <2>4, <2>5, <2>6, <2>7
  <1>5. ASSUME NEW c \in Client, StoreCreate(c) PROVE Untorn'
    BY <1>5 DEF StoreCreate, Idle, LockInv, Holding, Writing, At, TypeOK, RootInv, SizeInv,
       ViewInv, LockedInv, WriteInv, OpenedInv, UnlockedInv, Chain, Generation
  <1>6. ASSUME NEW c \in Client, StoreCopy(c) PROVE Untorn'
    BY <1>6 DEF StoreCopy, Idle, LockInv, Holding, Writing, At, TypeOK, RootInv, SizeInv,
       ViewInv, LockedInv, WriteInv, OpenedInv, UnlockedInv, Chain, Generation
  <1>7. ASSUME NEW c \in Client, StoreRootFails(c) PROVE Untorn'
    BY <1>7 DEF StoreRootFails, Release, Idle, LockInv, Holding, Writing, At, TypeOK, RootInv, SizeInv,
       ViewInv, LockedInv, WriteInv, OpenedInv, UnlockedInv, Chain, Generation
  <1>8. ASSUME NEW c \in Client, StoreReturn(c) PROVE Untorn'
    BY <1>8 DEF StoreReturn, Idle, LockInv, Holding, Writing, At, TypeOK, RootInv, SizeInv,
       ViewInv, LockedInv, WriteInv, OpenedInv, UnlockedInv, Chain, Generation
  <1>9. ASSUME NEW c \in Client, LoadLock(c) PROVE Untorn'
    BY <1>9 DEF LoadLock, Idle, LockInv, Holding, Writing, At, TypeOK, RootInv, SizeInv,
       ViewInv, LockedInv, WriteInv, OpenedInv, UnlockedInv, Chain, Generation
  <1>10. ASSUME NEW c \in Client, LoadNotFound(c) PROVE Untorn'
    BY <1>10 DEF LoadNotFound, Release, Idle, LockInv, Holding, Writing, At, TypeOK, RootInv, SizeInv,
       ViewInv, LockedInv, WriteInv, OpenedInv, UnlockedInv, Chain, Generation
  <1>11. ASSUME NEW c \in Client, LoadOpen(c) PROVE Untorn'
    BY <1>11 DEF LoadOpen, Idle, LockInv, Holding, Writing, At, TypeOK, RootInv, SizeInv,
       ViewInv, LockedInv, WriteInv, OpenedInv, UnlockedInv, Chain, Generation
  <1>12. ASSUME NEW c \in Client, LoadRead(c) PROVE Untorn'
    BY <1>12 DEF LoadRead, Idle, LockInv, Holding, Writing, At, TypeOK, RootInv, SizeInv,
       ViewInv, LockedInv, WriteInv, OpenedInv, UnlockedInv, Chain, Generation
  <1>13. CASE Crash
    <2>1. /\ size' \in Nat /\ size' >= size
          /\ Generation' \in Nat /\ Generation' >= Generation
      <3>1. CASE size' = size
        BY <3>1, GenerationType DEF Generation, TypeOK
      <3>2. CASE \E p \in PartialLine : size' = size + p
        <4>1. PICK p \in PartialLine : size' = size + p
          BY <3>2
        <4> QED
          BY <4>1, GenerationOfLine, GenerationOfPart DEF Generation, TypeOK
      <3> QED
        BY <1>13, <3>1, <3>2 DEF Crash
    <2>2. /\ \A d \in Client : ~Writing(d)
          /\ \A d \in Client : op'[d].pc = "idle"
          /\ UNCHANGED <<history, root, view>>
      BY <1>13 DEF Crash, Writing, At, Idle, TypeOK
    <2>3. RootInv' /\ SizeInv' /\ Chain'
      BY <2>1, <2>2 DEF RootInv, SizeInv, Chain, TypeOK, LineSize
    <2>4. ViewInv'
      BY <2>1, <2>2 DEF ViewInv, TypeOK
    <2>5. LockedInv' /\ WriteInv' /\ OpenedInv' /\ UnlockedInv'
      BY <2>2 DEF LockedInv, WriteInv, OpenedInv, UnlockedInv, Writing, At
    <2> QED
      BY <2>3, <2>4, <2>5
  <1>14. CASE UNCHANGED vars
    BY <1>14 DEF vars, Writing, At, RootInv, SizeInv, ViewInv, LockedInv, WriteInv, OpenedInv,
       UnlockedInv, Chain, Generation
  <1> QED
    BY <1>1, <1>2, <1>3, <1>4, <1>5, <1>6, <1>7, <1>8, <1>9, <1>10, <1>11, <1>12, <1>13,
       <1>14 DEF Next, Step

LEMMA Invariance == IInv /\ [Next]_vars => IInv'
  <1> SUFFICES ASSUME IInv, [Next]_vars PROVE IInv'
    OBVIOUS
  <1>1. TypeOK' /\ LockInv'
    BY TypeInvariant, LockInvariant DEF IInv
  <1>2. tears' = tears \/ tears' = tears + 1
    <2>1. CASE Crash
      BY <2>1 DEF Crash
    <2>2. ASSUME NEW c \in Client, Step(c) PROVE tears' = tears \/ tears' = tears + 1
      BY <2>2, AppendKinds DEF IInv, Step, StoreLock, StoreReject, StoreAppendFails, StoreCreate,
         StoreCopy, StoreRootFails, StoreReturn, LoadLock, LoadNotFound, LoadOpen, LoadRead
    <2>3. CASE UNCHANGED vars
      BY <2>3 DEF vars
    <2> QED
      BY <2>1, <2>2, <2>3 DEF Next
  <1>3. tears' = 0 => tears = 0
    BY <1>2 DEF IInv, TypeOK
  <1> QED
    BY <1>1, <1>3, UntornInvariant DEF IInv

-----------------------------------------------------------------------------
(* The inductive invariant holds of every behaviour.                        *)
THEOREM Invariant == Spec => []IInv
  BY InitInvariant, Invariance, PTL DEF Spec

THEOREM TypeCorrect == Spec => []TypeOK
  BY Invariant, PTL DEF IInv

(* No two operations are ever between Lock and Unlock.                      *)
THEOREM MutualExclusion ==
    Spec => [](\A c, d \in Client : Holding(c) /\ Holding(d) => c = d)
  <1>1. IInv => \A c, d \in Client : Holding(c) /\ Holding(d) => c = d
    BY DEF IInv, LockInv
  <1> QED
    BY <1>1, Invariant, PTL

(* No accepted commit silently discards another one, however many clients   *)
(* race for the root, as long as no commit was torn by a failure.           *)
THEOREM NoUpdateIsLost == Spec => []NoLostUpdate
  <1>1. IInv => NoLostUpdate
    BY DEF IInv, Untorn, Chain, NoLostUpdate
  <1> QED
    BY <1>1, Invariant, PTL

(* A client with the current generation in hand has the current root.       *)
THEOREM ViewsAreRight == Spec => []CurrentViewIsRight
  <1>1. IInv => CurrentViewIsRight
    BY DEF IInv, Untorn, ViewInv, CurrentViewIsRight
  <1> QED
    BY <1>1, Invariant, PTL

-----------------------------------------------------------------------------
(* The files, the lock and the generations implement RootRegister.          *)
LEMMA StepImplements ==
    IInv /\ [Next]_vars => [Register!Next]_<<history, tears>>
  <1> SUFFICES ASSUME IInv, [Next]_vars PROVE [Register!Next]_<<history, tears>>
    OBVIOUS
  <1>1. ASSUME NEW c \in Client, StoreAppend(c) \/ StoreAppendShort(c)
        PROVE  Register!Next
    <2>0. PICK n \in ShortLine \cup {LineSize} : Appends(c, n)
      BY <1>1, AppendKinds DEF IInv
    <2>1. /\ op[c].hash \in Hash /\ op[c].base \in Hash \cup {NoFile, Empty}
          /\ history' = Append(history, [hash |-> op[c].hash, base |-> op[c].base])
          /\ tears' \in {tears, tears + 1}
      BY <1>1, <2>0, AppendKinds, OpFields DEF IInv, Appends, Appending, Content
    <2>2. tears > 0 \/ history = <<>> \/ op[c].base = history[Len(history)].hash
      <3> SUFFICES ASSUME tears = 0, history # <<>>
                   PROVE  op[c].base = history[Len(history)].hash
        BY DEF IInv, TypeOK
      <3>1. Generation > 0
        BY GenerationOfLine DEF IInv, Untorn, SizeInv, TypeOK, Generation
      <3>2. root = Last(history).hash
        BY <2>0 DEF IInv, Untorn, RootInv, LockInv, Holding, Writing, Appends, Appending, At
      <3>3. root # NoFile
        BY <3>2, LastType, HashAssumption DEF IInv
      <3> QED
        BY <2>0, <3>1, <3>3 DEF Appends, Appending, WrongGeneration, IInv, Untorn,
           LockedInv, Last
    <2> QED
      BY <2>1, <2>2 DEF Register!Next, Register!Commit
  <1>2. CASE UNCHANGED <<history, tears>>
    BY <1>2
  <1>3. CASE UNCHANGED history /\ tears' = tears + 1
    BY <1>3 DEF Register!Next, Register!Tear
  <1>4. \/ \E c \in Client : StoreAppend(c) \/ StoreAppendShort(c)
        \/ UNCHANGED <<history, tears>>
        \/ UNCHANGED history /\ tears' = tears + 1
    BY DEF Next, Step, vars, Crash, StoreLock, StoreReject, StoreAppendFails, StoreCreate,
       StoreCopy, StoreRootFails, StoreReturn, LoadLock, LoadNotFound, LoadOpen, LoadRead
  <1> QED
    BY <1>1, <1>2, <1>3, <1>4

THEOREM Implements == Spec => ImplementsRegister
  <1>1. Init => Register!Init
    BY DEF Init, Register!Init
  <1> QED
    BY <1>1, StepImplements, Invariant, PTL DEF Spec, ImplementsRegister, Register!Spec
-----------------------------------------------------------------------------
(* DocumentEvents adds an observer: whatever it does, the root and its      *)
(* operations go on as RootStore says.                                      *)
LEMMA DocStep == DocNext => [Next]_vars
  BY DEF DocNext, RootStep, DocCrash, Handle, HandleFails, Next

(* The invariants of RootStore hold with the observer attached.             *)
THEOREM DocInvariant == DocSpec => []IInv
  <1>1. DocInit => IInv
    BY InitInvariant DEF DocInit
  <1>2. IInv /\ [DocNext]_<<vars, docVars>> => IInv'
    BY DocStep, Invariance DEF vars
  <1> QED
    BY <1>1, <1>2, PTL DEF DocSpec

-----------------------------------------------------------------------------
(* What the library is once the commits that are made are told: the root,   *)
(* or while a commit writes it, what it was before.                         *)
Committed == IF \E c \in Client : Writing(c) THEN op[lock].before ELSE root

(* Commits that have an event to come.                                      *)
Live(c) == op[c].pc \in {"appended", "created", "unlocked"}

(* The event that the commit of c publishes.                                *)
EventOf(c) == [before |-> op[c].before, after |-> op[c].hash]

(* A step that neither makes a commit nor publishes one.                    *)
Quiet ==
    /\ \A c \in Client :
          /\ Live(c)' <=> Live(c)
          /\ Live(c) => /\ Writing(c)' <=> Writing(c)
                        /\ EventOf(c)' = EventOf(c)
                        /\ op'[c].gen = op[c].gen
    /\ Generation' >= Generation
    /\ Committed' = Committed
    /\ Len(events') = Len(events)

(* A commit starts: its line is appended.                                   *)
Starts(c) ==
    /\ At(c, "locked") /\ \A d \in Client : ~Writing(d)
    /\ op'[c].pc = "appended"
    /\ \A d \in Client \ {c} : op'[d] = op[d]
    /\ op'[c].gen = Generation' /\ Generation' = Generation + 1
    /\ Committed' = Committed
    /\ Len(events') = Len(events)

(* A commit is made: the root is its hash.                                  *)
Commits(c) ==
    /\ At(c, "created")
    /\ op' = [op EXCEPT ![c].pc = "unlocked"]
    /\ Committed = op[c].before /\ Committed' = op[c].hash
    /\ \A d \in Client : ~Writing(d)'
    /\ Generation' = Generation
    /\ Len(events') = Len(events)

(* A commit is published, or not worth it.                                  *)
Returns(c) ==
    /\ At(c, "unlocked")
    /\ op' = [op EXCEPT ![c] = Idle]
    /\ Committed' = Committed
    /\ Generation' = Generation
    /\ IF op[c].before = op[c].hash
       THEN Len(events') = Len(events)
       ELSE Len(events') > Len(events) /\ Last(events') = EventOf(c)

LEMMA OneWriter ==
    ASSUME TypeOK, LockInv, NEW c \in Client, Writing(c)
    PROVE  lock = c /\ Committed = op[c].before
  BY DEF LockInv, Holding, Writing, Committed

LEMMA SameCommitted ==
    ASSUME LockInv, LockInv', root' = root,
           \A c \in Client : Writing(c)' <=> Writing(c),
           \A c \in Client : Writing(c) => op'[c].before = op[c].before
    PROVE  Committed' = Committed
  <1>1. CASE \E c \in Client : Writing(c)
    <2>1. PICK c \in Client : Writing(c)
      BY <1>1
    <2>2. lock = c /\ lock' = c
      BY <2>1 DEF LockInv, Holding, Writing
    <2> QED
      BY <2>1, <2>2 DEF Committed
  <1>2. CASE ~\E c \in Client : Writing(c)
    BY <1>2 DEF Committed
  <1> QED
    BY <1>1, <1>2

LEMMA StepKinds ==
    ASSUME TypeOK, LockInv, LockInv', NEW c \in Client, Step(c), tears' = 0
    PROVE  Quiet \/ Starts(c) \/ Commits(c) \/ Returns(c)
  <1> USE DEF TypeOK
  <1>1. CASE StoreLock(c) \/ StoreReject(c) \/ LoadLock(c) \/ LoadNotFound(c) \/ LoadOpen(c) \/ LoadRead(c)
    <2>1. /\ UNCHANGED <<root, events, size>>
          /\ \A d \in Client : d # c => op'[d] = op[d]
          /\ ~Live(c) /\ ~Live(c)'
      BY <1>1 DEF StoreLock, StoreReject, LoadLock, LoadNotFound, LoadOpen, LoadRead, Release, Idle, At, Live
    <2>2. \A d \in Client : /\ Writing(d)' <=> Writing(d)
                            /\ Live(d) => op'[d] = op[d]
                            /\ Live(d)' <=> Live(d)
      BY <2>1 DEF Writing, Live
    <2>3. Committed' = Committed
      BY <2>1, <2>2, SameCommitted DEF Writing, Live
    <2> QED
      BY <2>1, <2>2, <2>3, GenerationType DEF Quiet, EventOf, Generation
  <1>2. CASE StoreAppendFails(c)
    <2>1. /\ UNCHANGED <<root, events>>
          /\ \A d \in Client : d # c => op'[d] = op[d]
          /\ ~Live(c) /\ ~Live(c)'
      BY <1>2 DEF StoreAppendFails, Appending, Release, Idle, At, Live
    <2>2. \A d \in Client : /\ Writing(d)' <=> Writing(d)
                            /\ Live(d) => op'[d] = op[d]
                            /\ Live(d)' <=> Live(d)
      BY <2>1 DEF Writing, Live
    <2>3. Committed' = Committed
      BY <2>1, <2>2, SameCommitted DEF Writing, Live
    <2>4. Generation' >= Generation
      BY <1>2, GenerationOfPart DEF StoreAppendFails, Generation
    <2> QED
      BY <2>1, <2>2, <2>3, <2>4 DEF Quiet, EventOf
  <1>3. CASE StoreAppend(c) \/ StoreAppendShort(c)
    <2>0. PICK n \in ShortLine \cup {LineSize} : Appends(c, n)
      BY <1>3, AppendKinds
    <2>1. /\ UNCHANGED <<root, events>>
          /\ \A d \in Client : d # c => op'[d] = op[d]
          /\ At(c, "locked") /\ \A d \in Client : ~Writing(d)
          /\ op'[c].pc = "appended" /\ op'[c].before = root
          /\ op'[c].gen = Generation'
      BY <2>0 DEF Appends, Appending, LockInv, Holding, Writing, At, Generation
    <2>2. Generation' = Generation + 1
      BY <1>3, AppendKinds
    <2>3. Committed = root /\ lock' = c /\ Writing(c)'
      BY <2>0, <2>1 DEF Appends, Committed, LockInv, Holding, Writing
    <2>4. Committed' = root
      BY <2>1, <2>3 DEF Committed
    <2> QED
      BY <2>1, <2>2, <2>3, <2>4 DEF Starts
  <1>4. CASE StoreCreate(c)
    <2>1. /\ UNCHANGED <<events, size>>
          /\ op' = [op EXCEPT ![c].pc = "created"]
          /\ At(c, "appended") /\ lock = c /\ lock' = c
      BY <1>4 DEF StoreCreate, LockInv, Holding, At
    <2>2. /\ op'[c].before = op[c].before /\ op'[c].hash = op[c].hash /\ op'[c].gen = op[c].gen
          /\ op'[c].pc = "created"
          /\ \A d \in Client : d # c => op'[d] = op[d]
      BY <2>1, OpFields DEF At, OpType
    <2>3. Committed' = Committed
      BY <2>1, <2>2 DEF Committed, Writing, At
    <2> QED
      BY <2>1, <2>2, <2>3, GenerationType DEF Quiet, EventOf, Writing, Live, At, Generation
  <1>5. CASE StoreCopy(c)
    <2>1. /\ UNCHANGED <<events, size>>
          /\ op' = [op EXCEPT ![c].pc = "unlocked"]
          /\ At(c, "created") /\ lock = c
          /\ root' = op[c].hash
          /\ \A d \in Client : ~Writing(d)'
      BY <1>5 DEF StoreCopy, LockInv, Holding, At, Writing
    <2>2. Committed = op[c].before /\ Committed' = op[c].hash
      BY <2>1 DEF Committed, Writing, At
    <2> QED
      BY <2>1, <2>2 DEF Commits, Generation
  <1>6. CASE StoreRootFails(c)
    BY <1>6 DEF StoreRootFails
  <1>7. CASE StoreReturn(c)
    <2>1. /\ UNCHANGED <<root, size>>
          /\ At(c, "unlocked")
          /\ op' = [op EXCEPT ![c] = Idle]
          /\ \A d \in Client : d # c => op'[d] = op[d]
          /\ ~Writing(c) /\ ~Writing(c)'
      BY <1>7 DEF StoreReturn, At, Writing, Idle
    <2>2. Committed' = Committed
      BY <2>1, SameCommitted DEF Writing
    <2>3. CASE op[c].before = op[c].hash
      BY <1>7, <2>1, <2>2, <2>3 DEF Returns, StoreReturn, Generation
    <2>4. CASE op[c].before # op[c].hash
      <3>1. events' = Append(events, EventOf(c))
        BY <1>7, <2>4 DEF StoreReturn, EventOf
      <3>2. Len(events') = Len(events) + 1 /\ Last(events') = EventOf(c) /\ Len(events) \in Nat
        BY <3>1 DEF Last
      <3> QED
        BY <2>1, <2>2, <2>4, <3>2 DEF Returns, Generation
    <2> QED
      BY <2>3, <2>4
  <1> QED
    BY <1>1, <1>2, <1>3, <1>4, <1>5, <1>6, <1>7 DEF Step

(* How many elements of s are in E.                                         *)
Places(s, E) == {i \in 1..Len(s) : s[i] \in E}

Count(s, E) == Cardinality(Places(s, E))

Once(b) == IF b THEN 1 ELSE 0

LEMMA PlacesFinite ==
    ASSUME NEW S, NEW s \in Seq(S), NEW E
    PROVE  IsFiniteSet(Places(s, E)) /\ Count(s, E) \in Nat
  <1>1. IsFiniteSet(1..Len(s))
    BY FS_Interval
  <1>2. IsFiniteSet(Places(s, E))
    BY <1>1, FS_Subset DEF Places
  <1> QED
    BY <1>2, FS_CardinalityType DEF Count

LEMMA CountAppend ==
    ASSUME NEW S, NEW s \in Seq(S), NEW e \in S, NEW E
    PROVE  Count(Append(s, e), E) = Count(s, E) + Once(e \in E)
  <1> DEFINE n == Len(s) + 1
  <1>1. /\ Len(Append(s, e)) = n
        /\ Append(s, e)[n] = e
        /\ \A i \in 1..Len(s) : Append(s, e)[i] = s[i]
        /\ Len(s) \in Nat
    OBVIOUS
  <1>2. CASE e \in E
    <2>1. Places(Append(s, e), E) = Places(s, E) \cup {n}
      BY <1>1, <1>2 DEF Places
    <2>2. n \notin Places(s, E)
      BY <1>1 DEF Places
    <2> QED
      BY <1>2, <2>1, <2>2, PlacesFinite, FS_AddElement DEF Count, Once
  <1>3. CASE e \notin E
    <2>1. Places(Append(s, e), E) = Places(s, E)
      BY <1>1, <1>3 DEF Places
    <2> QED
      BY <1>3, <2>1, PlacesFinite DEF Count, Once
  <1> QED
    BY <1>2, <1>3

(* The head goes, and k elements that are not in E come.                    *)
LEMMA CountRest ==
    ASSUME NEW S, NEW s \in Seq(S), s # <<>>, NEW o \in S, NEW k \in Nat, NEW E, o \notin E
    PROVE  Count(Tail(s) \o [i \in 1..k |-> o], E) = Count(s, E) - Once(Head(s) \in E)
  <1> DEFINE r == Tail(s) \o [i \in 1..k |-> o]
             P == Places(s, E) \ {1}
             f == [i \in P |-> i - 1]
  <1>1. /\ Len(s) \in Nat \ {0} /\ Head(s) = s[1]
        /\ Tail(s) \in Seq(S) /\ Len(Tail(s)) = Len(s) - 1
        /\ \A i \in 1..Len(s) - 1 : Tail(s)[i] = s[i + 1]
    OBVIOUS
  <1>2. [i \in 1..k |-> o] \in Seq(S) /\ Len([i \in 1..k |-> o]) = k
    OBVIOUS
  <1>3. /\ Len(r) = Len(s) - 1 + k
        /\ \A i \in 1..Len(s) - 1 : r[i] = s[i + 1]
        /\ \A i \in Len(s)..(Len(s) - 1 + k) : r[i] = o
    BY <1>1, <1>2
  <1> HIDE DEF r
  <1>4. f \in Bijection(P, Places(r, E))
    <2>1. \A i \in P : i - 1 \in Places(r, E)
      BY <1>1, <1>3 DEF Places
    <2>2. \A j \in Places(r, E) : j + 1 \in P /\ (j + 1) - 1 = j
      <3> SUFFICES ASSUME NEW j \in Places(r, E) PROVE j + 1 \in P /\ (j + 1) - 1 = j
        OBVIOUS
      <3>1. j \in 1..(Len(s) - 1 + k) /\ r[j] \in E
        BY <1>3 DEF Places
      <3>2. j \in 1..Len(s) - 1
        BY <1>1, <1>3, <3>1
      <3> QED
        BY <1>1, <1>3, <3>1, <3>2 DEF Places
    <2>3. \A i, j \in P : i - 1 = j - 1 => i = j
      BY <1>1 DEF Places
    <2>4. f \in [P -> Places(r, E)]
      BY <2>1
    <2>5. \A i, j \in P : f[i] = f[j] => i = j
      BY <2>3
    <2>6. \A j \in Places(r, E) : \E i \in P : f[i] = j
      BY <2>2
    <2> HIDE DEF P, f
    <2> QED
      BY <2>4, <2>5, <2>6 DEF Bijection, Injection, Surjection, IsInjective
  <1>5. IsFiniteSet(P) /\ Cardinality(P) = Count(s, E) - Once(Head(s) \in E)
    <2>1. 1 \in Places(s, E) <=> Head(s) \in E
      BY <1>1 DEF Places
    <2> QED
      BY <2>1, PlacesFinite, FS_RemoveElement DEF Count, Once
  <1>6. ExistsBijection(P, Places(r, E))
    BY <1>4 DEF ExistsBijection
  <1>7. Count(r, E) = Cardinality(P)
    BY <1>5, <1>6, FS_Bijection DEF Count
  <1> QED
    BY <1>5, <1>7 DEF r
-----------------------------------------------------------------------------
Event == [before : Content, after : Content]

Creates(d) == {e \in Event : d \in Created(e)}

Deletes(d) == {e \in Event : d \in Deleted(e)}

Has(content, d) == Once(Docs(content)[d] # Absent)

(* Commits of E that are made and not yet published.                        *)
Unpublished(E) == {c \in Client : At(c, "unlocked") /\ EventOf(c) \in E}

Awaited(E) == Count(queue, E) + Cardinality(Unpublished(E))

DocTypeOK ==
    /\ queue \in Seq(Event)
    /\ Len(queue) <= Capacity
    /\ balance \in [Doc -> Int]
    /\ newest \in Nat
    /\ lost \in BOOLEAN /\ crossed \in BOOLEAN

(* What is published and what is still to come add up to the library.       *)
BalanceInv ==
    \A d \in Doc : balance[d] + Awaited(Creates(d)) - Awaited(Deletes(d)) = Has(Committed, d)

UnlockedFinite == IsFiniteSet({c \in Client : At(c, "unlocked")})

Accounted == UnlockedFinite /\ BalanceInv

LEMMA DocsType ==
    ASSUME NEW content
    PROVE  Docs(content) = [d \in Doc |-> Docs(content)[d]]
  BY TreeAssumption DEF Docs

(* The changes of a commit are finitely many.                               *)
LEMMA ChangesFinite ==
    ASSUME NEW e \in Event, NEW D \in SUBSET Changed(e)
    PROVE  Cardinality(D) \in Nat
  <1> DEFINE P(content) == {d \in Doc : Docs(content)[d] # Absent}
  <1>1. ASSUME NEW content PROVE IsFiniteSet(P(content))
    <2>1. CASE content \in Hash
      <3>1. P(content) = {d \in Doc : Tree[content][d] # Absent}
        BY <2>1 DEF Docs
      <3> QED
        BY <2>1, <3>1, TreeAssumption
    <2>2. CASE content \notin Hash
      <3>1. P(content) = {}
        BY <2>2 DEF Docs
      <3> QED
        BY <3>1, FS_EmptySet
    <2> QED
      BY <2>1, <2>2
  <1>2. IsFiniteSet(P(e.before) \cup P(e.after))
    <2> HIDE DEF P
    <2> QED
      BY <1>1, FS_Union
  <1>3. Changed(e) \subseteq P(e.before) \cup P(e.after)
    <2> SUFFICES ASSUME NEW d \in Changed(e) PROVE d \in P(e.before) \/ d \in P(e.after)
      OBVIOUS
    <2>1. d \in Doc
      BY DEF Changed, Created, Updated, Deleted
    <2>2. Docs(e.before)[d] # Absent \/ Docs(e.after)[d] # Absent
      BY DEF Changed, Created, Updated, Deleted
    <2> QED
      BY <2>1, <2>2
  <1>4. IsFiniteSet(D)
    <2> HIDE DEF P
    <2> QED
      BY <1>2, <1>3, FS_Subset
  <1> QED
    BY <1>4, FS_CardinalityType

LEMMA OwnIsNothing ==
    /\ Own \in Event
    /\ \A d \in Doc : Own \notin Creates(d) /\ Own \notin Deletes(d)
  BY DEF Own, Event, Content, Creates, Deletes, Created, Deleted

LEMMA ConcatType ==
    ASSUME NEW S, NEW s \in Seq(S), NEW t \in Seq(S)
    PROVE  s \o t \in Seq(S) /\ Len(s \o t) = Len(s) + Len(t)
  OBVIOUS

(* The queue after its head is handled.                                     *)
LEMMA RestOfQueue ==
    ASSUME DocTypeOK, queue # <<>>, NEW n \in Nat, Requeues(n)
    PROVE  \E k \in Nat : /\ queue' = Tail(queue) \o [i \in 1..k |-> Own]
                          /\ Len(queue) - 1 + k <= Capacity
                          /\ queue' \in Seq(Event) /\ Len(queue') = Len(queue) - 1 + k
  <1> DEFINE room == Capacity - Len(Tail(queue))
             k == IF n < room THEN n ELSE room
  <1>1. Len(Tail(queue)) = Len(queue) - 1 /\ Len(queue) \in Nat \ {0} /\ Tail(queue) \in Seq(Event)
    BY DEF DocTypeOK
  <1>2. k \in Nat /\ Len(queue) - 1 + k <= Capacity
    BY <1>1, CapacityAssumption DEF DocTypeOK
  <1>3. queue' = Tail(queue) \o [i \in 1..k |-> Own]
    BY DEF Requeues
  <1> HIDE DEF k
  <1>4. [i \in 1..k |-> Own] \in Seq(Event) /\ Len([i \in 1..k |-> Own]) = k
    BY <1>2, OwnIsNothing
  <1>5. queue' \in Seq(Event) /\ Len(queue') = Len(queue) - 1 + k
    BY <1>1, <1>3, <1>4, ConcatType
  <1> QED
    BY <1>2, <1>3, <1>5

LEMMA DocTypeInvariant ==
    ASSUME TypeOK, LockInv, LockInv', DocTypeOK, [DocNext]_<<vars, docVars>>
    PROVE  DocTypeOK'
  <1>1. ASSUME NEW c \in Client, RootStep(c) PROVE DocTypeOK'
    <2>1. CASE ~Published
      BY <1>1, <2>1 DEF RootStep, DocTypeOK
    <2>2. CASE Published
      <3>1. events' = Append(events, EventOf(c)) /\ At(c, "unlocked")
        BY <1>1, <2>2 DEF RootStep, Published, Step, StoreLock, StoreReject, StoreAppend,
           StoreAppendShort, Appends, StoreAppendFails, StoreCreate, StoreCopy, StoreRootFails, StoreReturn, LoadLock,
           LoadNotFound, LoadOpen, LoadRead, EventOf
      <3>2. Last(events') = EventOf(c)
        BY <3>1 DEF TypeOK, Last
      <3>3. EventOf(c) \in Event /\ op[c].gen \in Nat
        BY <3>1, OpFields DEF EventOf, Event, Content
      <3>4. newest' \in Nat /\ balance' = balance /\ crossed' \in BOOLEAN /\ lost' \in BOOLEAN
        BY <1>1, <2>2, <3>3 DEF RootStep, Enqueue, DocTypeOK
      <3>5. queue' \in Seq(Event) /\ Len(queue') <= Capacity
        <4>1. CASE Len(queue) < Capacity
          <5>1. queue' = Append(queue, EventOf(c))
            BY <1>1, <2>2, <3>2, <4>1 DEF RootStep, Enqueue
          <5>2. queue' \in Seq(Event)
            BY <3>3, <5>1, AppendType DEF DocTypeOK
          <5>3. Len(queue') = Len(queue) + 1 /\ Len(queue) \in Nat
            BY <5>1 DEF DocTypeOK
          <5> QED
            BY <4>1, <5>2, <5>3, CapacityAssumption
        <4>2. CASE ~(Len(queue) < Capacity)
          BY <1>1, <2>2, <4>2 DEF RootStep, Enqueue, DocTypeOK
        <4> QED
          BY <4>1, <4>2
      <3> QED
        BY <3>4, <3>5 DEF DocTypeOK
    <2> QED
      BY <2>1, <2>2
  <1>2. CASE DocCrash
    BY <1>2, CapacityAssumption DEF DocCrash, DocTypeOK
  <1>3. ASSUME NEW e \in Event, NEW D, Publishes(e, D) PROVE balance' \in [Doc -> Int]
    BY <1>3 DEF Publishes, DocTypeOK
  <1>4. queue # <<>> => Head(queue) \in Event
    BY DEF DocTypeOK
  <1>5. CASE Handle
    <2>1. balance' \in [Doc -> Int]
      BY <1>3, <1>4, <1>5 DEF Handle
    <2>2. queue' \in Seq(Event) /\ Len(queue') <= Capacity
      BY <1>4, <1>5, ChangesFinite, RestOfQueue DEF Handle
    <2> QED
      BY <1>5, <2>1, <2>2 DEF Handle, DocTypeOK
  <1>6. CASE HandleFails
    <2>1. PICK D \in SUBSET Changed(Head(queue)) :
                Publishes(Head(queue), D) /\ Requeues(Cardinality(D))
      BY <1>6 DEF HandleFails
    <2>2. balance' \in [Doc -> Int]
      BY <1>3, <1>4, <1>6, <2>1 DEF HandleFails
    <2>3. queue' \in Seq(Event) /\ Len(queue') <= Capacity
      BY <1>4, <1>6, <2>1, ChangesFinite, RestOfQueue DEF HandleFails
    <2> QED
      BY <1>6, <2>2, <2>3 DEF HandleFails, DocTypeOK
  <1>7. CASE UNCHANGED <<vars, docVars>>
    BY <1>7 DEF docVars, DocTypeOK
  <1> QED
    BY <1>1, <1>2, <1>5, <1>6, <1>7 DEF DocNext

LEMMA OneChange ==
    ASSUME NEW e \in Event, NEW d \in Doc
    PROVE  /\ Has(e.before, d) + Once(e \in Creates(d)) - Once(e \in Deletes(d)) = Has(e.after, d)
           /\ Has(e.before, d) \in Int /\ Has(e.after, d) \in Int
           /\ Once(e \in Creates(d)) \in Int /\ Once(e \in Deletes(d)) \in Int
           /\ e.before = e.after => e \notin Creates(d) /\ e \notin Deletes(d)
  BY DEF Has, Once, Creates, Deletes, Created, Deleted

LEMMA UnlockedEvent ==
    ASSUME TypeOK, NEW c \in Client, At(c, "created") \/ At(c, "unlocked")
    PROVE  EventOf(c) \in Event
  BY OpFields DEF EventOf, Event, Content

LEMMA UnpublishedFinite ==
    ASSUME UnlockedFinite, NEW E
    PROVE  IsFiniteSet(Unpublished(E)) /\ Cardinality(Unpublished(E)) \in Nat
  <1>1. Unpublished(E) \subseteq {c \in Client : At(c, "unlocked")}
    BY DEF Unpublished
  <1> QED
    BY <1>1, FS_Subset, FS_CardinalityType DEF UnlockedFinite

(* What is awaited is a number.                                             *)
LEMMA AwaitedType ==
    ASSUME DocTypeOK, UnlockedFinite, NEW E
    PROVE  Awaited(E) \in Int /\ Count(queue, E) \in Nat /\ Cardinality(Unpublished(E)) \in Nat
  BY UnpublishedFinite, PlacesFinite DEF Awaited, DocTypeOK

LEMMA AwaitedNumber == DocTypeOK /\ UnlockedFinite => \A E : Awaited(E) \in Int
  BY AwaitedType

LEMMA AwaitedNext == (DocTypeOK /\ UnlockedFinite => \A E : Awaited(E) \in Int)'
  BY AwaitedNumber, PTL

LEMMA QuietCounts ==
    ASSUME UnlockedFinite, Quiet
    PROVE  UnlockedFinite' /\ \A E : Unpublished(E)' = Unpublished(E)
  <1>1. \A c \in Client : At(c, "unlocked")' <=> At(c, "unlocked")
    BY DEF Quiet, Live, Writing, At
  <1>2. \A c \in Client : At(c, "unlocked") => EventOf(c)' = EventOf(c)
    BY DEF Quiet, Live, At
  <1>3. {c \in Client : At(c, "unlocked")}' = {c \in Client : At(c, "unlocked")}
    BY <1>1
  <1> QED
    BY <1>1, <1>2, <1>3 DEF UnlockedFinite, Unpublished

LEMMA StartsCounts ==
    ASSUME UnlockedFinite, NEW c \in Client, Starts(c)
    PROVE  UnlockedFinite' /\ \A E : Unpublished(E)' = Unpublished(E)
  <1>1. \A d \in Client : At(d, "unlocked")' <=> At(d, "unlocked")
    BY DEF Starts, At
  <1>2. \A d \in Client : At(d, "unlocked") => EventOf(d)' = EventOf(d)
    BY DEF Starts, At, EventOf
  <1>3. {d \in Client : At(d, "unlocked")}' = {d \in Client : At(d, "unlocked")}
    BY <1>1
  <1> QED
    BY <1>1, <1>2, <1>3 DEF UnlockedFinite, Unpublished

LEMMA CommitsCounts ==
    ASSUME TypeOK, UnlockedFinite, NEW c \in Client, Commits(c)
    PROVE  /\ UnlockedFinite'
           /\ \A E : Cardinality(Unpublished(E))'
                        = Cardinality(Unpublished(E)) + Once(EventOf(c) \in E)
  <1>1. /\ \A d \in Client : At(d, "unlocked")' <=> At(d, "unlocked") \/ d = c
        /\ ~At(c, "unlocked")
    BY DEF Commits, At, TypeOK
  <1>2. \A d \in Client : At(d, "unlocked")' => EventOf(d)' = EventOf(d)
    BY OpFields DEF Commits, At, EventOf, TypeOK
  <1>3. {d \in Client : At(d, "unlocked")}' = {d \in Client : At(d, "unlocked")} \cup {c}
    BY <1>1
  <1>4. UnlockedFinite'
    BY <1>3, FS_AddElement DEF UnlockedFinite
  <1>5. ASSUME NEW E
        PROVE  Cardinality(Unpublished(E))' = Cardinality(Unpublished(E)) + Once(EventOf(c) \in E)
    <2>1. CASE EventOf(c) \in E
      <3>1. Unpublished(E)' = Unpublished(E) \cup {c} /\ c \notin Unpublished(E)
        BY <1>1, <1>2, <2>1 DEF Unpublished
      <3> QED
        BY <2>1, <3>1, UnpublishedFinite, FS_AddElement DEF Once
    <2>2. CASE EventOf(c) \notin E
      <3>1. Unpublished(E)' = Unpublished(E)
        BY <1>1, <1>2, <2>2 DEF Unpublished
      <3> QED
        BY <2>2, <3>1, UnpublishedFinite DEF Once
    <2> QED
      BY <2>1, <2>2
  <1> QED
    BY <1>4, <1>5

LEMMA ReturnsCounts ==
    ASSUME TypeOK, UnlockedFinite, NEW c \in Client, Returns(c)
    PROVE  /\ UnlockedFinite'
           /\ \A E : Cardinality(Unpublished(E))'
                        = Cardinality(Unpublished(E)) - Once(EventOf(c) \in E)
  <1>1. /\ \A d \in Client : At(d, "unlocked")' <=> At(d, "unlocked") /\ d # c
        /\ At(c, "unlocked")
    BY DEF Returns, At, TypeOK, Idle
  <1>2. \A d \in Client : At(d, "unlocked")' => EventOf(d)' = EventOf(d)
    BY DEF Returns, At, EventOf, TypeOK, Idle
  <1>3. {d \in Client : At(d, "unlocked")}' = {d \in Client : At(d, "unlocked")} \ {c}
    BY <1>1
  <1>4. UnlockedFinite'
    BY <1>3, FS_RemoveElement DEF UnlockedFinite
  <1>5. ASSUME NEW E
        PROVE  Cardinality(Unpublished(E))' = Cardinality(Unpublished(E)) - Once(EventOf(c) \in E)
    <2>1. Unpublished(E)' = Unpublished(E) \ {c} /\ (c \in Unpublished(E) <=> EventOf(c) \in E)
      BY <1>1, <1>2 DEF Unpublished
    <2> QED
      BY <2>1, UnpublishedFinite, FS_RemoveElement DEF Once
  <1> QED
    BY <1>4, <1>5

(* A published commit joins the queue; nothing else changes it in a step of *)
(* the root, unless an event is lost.                                       *)
LEMMA RootStepQueue ==
    ASSUME NEW c \in Client, RootStep(c), ~lost'
    PROVE  /\ balance' = balance /\ told' = told
           /\ Len(events') > Len(events) =>
                 /\ queue' = Append(queue, Last(events'))
                 /\ newest' = IF op[c].gen > newest THEN op[c].gen ELSE newest
                 /\ crossed' = (crossed \/ op[c].gen < newest)
           /\ ~(Len(events') > Len(events)) => UNCHANGED <<queue, newest, crossed>>
           /\ lost' = lost
  BY DEF RootStep, Enqueue, Published

(* By how much the events to come would miss the library.                   *)
Gap(d) == Awaited(Creates(d)) - Awaited(Deletes(d)) - Has(Committed, d)

LEMMA GapType ==
    ASSUME DocTypeOK, UnlockedFinite, NEW d
    PROVE  Gap(d) \in Int /\ Has(Committed, d) \in Int
  BY AwaitedType DEF Gap, Has, Once

LEMMA AccountedRootStep ==
    ASSUME TypeOK, TypeOK', LockInv, LockInv', DocTypeOK, DocTypeOK', Accounted, tears' = 0, ~lost',
           NEW c \in Client, RootStep(c)
    PROVE  Accounted'
  <1>1. Len(events) \in Nat /\ Len(events') \in Nat /\ Len(queue) \in Nat
    BY SMTT(20) DEF TypeOK, DocTypeOK
  <1>2. UnlockedFinite /\ balance' = balance
    BY RootStepQueue DEF Accounted
  <1>3. ASSUME UnlockedFinite', \A d \in Doc : Gap(d)' = Gap(d)
        PROVE  Accounted'
    <2>1. \A d \in Doc : /\ Awaited(Creates(d)) \in Int /\ Awaited(Deletes(d)) \in Int
                         /\ Has(Committed, d) \in Int /\ Gap(d) \in Int
                         /\ balance[d] \in Int /\ balance[d] + Gap(d) = 0
      BY <1>2, GapType, AwaitedType, SMTT(20) DEF Accounted, BalanceInv, Gap, DocTypeOK
    <2>2. \A d \in Doc : /\ Awaited(Creates(d))' \in Int /\ Awaited(Deletes(d))' \in Int
                         /\ Has(Committed, d)' \in Int
      BY <1>3, AwaitedNext DEF Has, Once, Creates, Deletes
    <2>3. \A d \in Doc : balance'[d] + Awaited(Creates(d))' - Awaited(Deletes(d))' = Has(Committed, d)'
      <3> TAKE d \in Doc
      <3>1. Gap(d)' = Awaited(Creates(d))' - Awaited(Deletes(d))' - Has(Committed, d)'
        BY DEF Gap
      <3>2. Gap(d)' = Gap(d) /\ balance'[d] = balance[d]
        BY <1>2, <1>3
      <3> QED
        BY <2>1, <2>2, <3>1, <3>2, SMTT(20)
    <2> QED
      BY <1>3, <2>3 DEF Accounted, BalanceInv
  <1>4. ASSUME Committed' = Committed, UnlockedFinite', queue' = queue,
               \A E : Unpublished(E)' = Unpublished(E)
        PROVE  Accounted'
    <2>1. \A E : Awaited(E)' = Awaited(E)
      BY <1>4 DEF Awaited, Count, Places
    <2>2. \A d \in Doc : Gap(d)' = Gap(d)
      BY <1>4, <2>1 DEF Gap, Has, Creates, Deletes
    <2> QED
      BY <1>3, <1>4, <2>2
  <1>5. CASE Quiet
    BY <1>1, <1>2, <1>4, <1>5, QuietCounts, RootStepQueue DEF Quiet
  <1>6. CASE Starts(c)
    BY <1>1, <1>2, <1>4, <1>6, StartsCounts, RootStepQueue DEF Starts
  <1>7. CASE Commits(c)
    <2>1. queue' = queue
      BY <1>1, <1>7, RootStepQueue DEF Commits
    <2>2. /\ UnlockedFinite'
          /\ \A E : Cardinality(Unpublished(E))'
                        = Cardinality(Unpublished(E)) + Once(EventOf(c) \in E)
      BY <1>2, <1>7, CommitsCounts
    <2>3. EventOf(c) \in Event
      BY <1>7, UnlockedEvent DEF Commits
    <2>4. ASSUME NEW d \in Doc PROVE Gap(d)' = Gap(d)
      <3> DEFINE e == EventOf(c)
                 C == Creates(d)
                 D == Deletes(d)
      <3>1. C' = C /\ D' = D
        BY DEF Creates, Deletes
      <3>2. /\ Awaited(C)' = Awaited(C) + Once(e \in C)
            /\ Awaited(D)' = Awaited(D) + Once(e \in D)
        <4>1. \A E : Awaited(E)' = Awaited(E) + Once(e \in E)
          <5> SUFFICES ASSUME NEW E PROVE Awaited(E)' = Awaited(E) + Once(e \in E)
            OBVIOUS
          <5>1. Count(queue, E)' = Count(queue, E)
            BY <2>1 DEF Count, Places
          <5>2. Once(e \in E) \in Int /\ Count(queue, E) \in Nat /\ Cardinality(Unpublished(E)) \in Nat
            BY <1>2, AwaitedType DEF Once
          <5> HIDE DEF e
          <5> QED
            BY <2>2, <5>1, <5>2 DEF Awaited, e
        <4> QED
          BY <3>1, <4>1
      <3>3. Has(Committed, d)' = Has(Committed, d) + Once(e \in C) - Once(e \in D)
        <4>1. e.before = Committed /\ e.after = Committed'
          BY <1>7 DEF Commits, EventOf
        <4> HIDE DEF e
        <4>2. Has(e.after, d) = Has(e.before, d) + Once(e \in C) - Once(e \in D)
          BY <2>3, OneChange DEF e
        <4>3. Has(Committed, d)' = Has(Committed', d)
          BY DEF Has
        <4> QED
          BY <4>1, <4>2, <4>3
      <3>4. /\ Awaited(C) \in Int /\ Awaited(D) \in Int /\ Has(Committed, d) \in Int
            /\ Once(e \in C) \in Int /\ Once(e \in D) \in Int
        BY <1>2, AwaitedType, GapType DEF Once
      <3> HIDE DEF C, D, e
      <3>5. Gap(d) = Awaited(C) - Awaited(D) - Has(Committed, d)
        BY DEF Gap, C, D
      <3>6. Gap(d)' = Awaited(C)' - Awaited(D)' - Has(Committed, d)'
        BY DEF Gap, C, D
      <3> QED
        BY <3>2, <3>3, <3>4, <3>5, <3>6
    <2> QED
      BY <1>3, <2>2, <2>4
  <1>8. CASE Returns(c)
    <2>1. /\ UnlockedFinite'
          /\ \A E : Cardinality(Unpublished(E))'
                        = Cardinality(Unpublished(E)) - Once(EventOf(c) \in E)
      BY <1>2, <1>8, ReturnsCounts
    <2>2. EventOf(c) \in Event
      BY <1>8, UnlockedEvent DEF Returns
    <2>3. ASSUME NEW d \in Doc, NEW E \in {Creates(d), Deletes(d)}
          PROVE  Awaited(E)' = Awaited(E)
      <3>1. Count(queue, E)' = Count(queue, E) + Once(EventOf(c) \in E)
        <4>1. CASE op[c].before = op[c].hash
          <5>1. EventOf(c) \notin E
            BY <2>2, <4>1, OneChange DEF EventOf
          <5>2. queue' = queue
            BY <1>1, <1>8, <4>1, RootStepQueue DEF Returns
          <5>3. Count(queue, E) \in Nat
            BY <1>2, AwaitedType
          <5> QED
            BY <5>1, <5>2, <5>3 DEF Count, Places, Once
        <4>2. CASE op[c].before # op[c].hash
          <5>1. queue' = Append(queue, EventOf(c))
            BY <1>8, <4>2, RootStepQueue DEF Returns
          <5>2. Count(queue', E) = Count(queue, E) + Once(EventOf(c) \in E)
            BY <2>2, <5>1, CountAppend DEF DocTypeOK
          <5> QED
            BY <5>2 DEF Count, Places
        <4> QED
          BY <4>1, <4>2
      <3>2. Once(EventOf(c) \in E) \in Int /\ Count(queue, E) \in Nat /\ Cardinality(Unpublished(E)) \in Nat
        BY <1>2, AwaitedType DEF Once
      <3> QED
        BY <2>1, <3>1, <3>2 DEF Awaited
    <2>4. \A d \in Doc : Gap(d)' = Gap(d)
      BY <1>8, <2>3 DEF Gap, Has, Creates, Deletes, Returns
    <2> QED
      BY <1>3, <2>1, <2>4
  <1> QED
    BY <1>5, <1>6, <1>7, <1>8, StepKinds DEF RootStep

(* A stop that loses nothing finds nothing under way.                       *)
LEMMA CrashLosesNothing ==
    ASSUME TypeOK, LockInv, LockInv', DocCrash, tears = 0, tears' = 0, ~lost'
    PROVE  /\ queue = <<>> /\ queue' = <<>>
           /\ \A c \in Client : ~Live(c) /\ ~Live(c)'
           /\ Committed' = Committed
           /\ Generation' >= Generation
           /\ UNCHANGED <<balance, told, newest, crossed>>
  <1>1. \A c \in Client : ~At(c, "unlocked")
    BY DEF DocCrash
  <1>2. \A c \in Client : ~At(c, "appended") /\ ~At(c, "created")
    BY DEF DocCrash, Crash
  <1>3. \A c \in Client : op'[c].pc = "idle"
    BY DEF DocCrash, Crash, Idle
  <1>4. Committed' = Committed
    BY <1>2, <1>3, SameCommitted DEF DocCrash, Crash, Writing, At
  <1>5. Generation' >= Generation
    <2>1. CASE size' = size
      BY <2>1, GenerationType DEF Generation
    <2>2. CASE \E p \in PartialLine : size' = size + p
      <3>1. PICK p \in PartialLine : size' = size + p
        BY <2>2
      <3> QED
        BY <3>1, GenerationOfPart DEF Generation, TypeOK
    <2> QED
      BY <2>1, <2>2 DEF DocCrash, Crash
  <1> QED
    BY <1>1, <1>2, <1>3, <1>4, <1>5 DEF DocCrash, Live, At

LEMMA AccountedCrash ==
    ASSUME TypeOK, LockInv, LockInv', Accounted, DocCrash, tears = 0, tears' = 0, ~lost'
    PROVE  Accounted'
  <1>1. /\ queue' = queue /\ balance' = balance /\ Committed' = Committed
        /\ \A c \in Client : ~At(c, "unlocked") /\ ~At(c, "unlocked")'
    BY CrashLosesNothing DEF Live, At
  <1>2. {c \in Client : At(c, "unlocked")} = {c \in Client : At(c, "unlocked")}'
    BY <1>1
  <1>3. \A E : Unpublished(E)' = Unpublished(E)
    BY <1>1 DEF Unpublished
  <1>4. \A E : Awaited(E)' = Awaited(E)
    BY <1>1, <1>3 DEF Awaited, Count, Places
  <1> QED
    BY <1>1, <1>2, <1>4 DEF Accounted, UnlockedFinite, BalanceInv, Has, Creates, Deletes

LEMMA AccountedHandle ==
    ASSUME TypeOK, DocTypeOK, DocTypeOK', Accounted, Handle
    PROVE  Accounted'
  <1> DEFINE e == Head(queue)
  <1>1. queue # <<>> /\ e \in Event /\ UNCHANGED vars
    BY DEF Handle, DocTypeOK
  <1>2. PICK k \in Nat : queue' = Tail(queue) \o [i \in 1..k |-> Own]
    BY ChangesFinite, RestOfQueue, <1>1 DEF Handle
  <1>3. /\ UnlockedFinite /\ UnlockedFinite' /\ Committed' = Committed
        /\ \A E : Unpublished(E)' = Unpublished(E)
    BY <1>1 DEF vars, Accounted, UnlockedFinite, Unpublished, At, Committed, Writing, EventOf
  <1>4. ASSUME NEW E, Own \notin E PROVE Awaited(E)' = Awaited(E) - Once(e \in E)
    <2>1. Count(queue', E) = Count(queue, E) - Once(e \in E)
      BY <1>1, <1>2, <1>4, OwnIsNothing, CountRest DEF DocTypeOK
    <2>2. Count(queue, E)' = Count(queue', E)
      BY DEF Count, Places
    <2>3. Count(queue, E) \in Nat /\ Cardinality(Unpublished(E)) \in Nat /\ Once(e \in E) \in Int
      BY <1>3, AwaitedType DEF Once
    <2> HIDE DEF e
    <2> QED
      BY <1>3, <2>1, <2>2, <2>3 DEF Awaited
  <1>5. ASSUME NEW d \in Doc
        PROVE  balance'[d] = balance[d] + Once(e \in Creates(d)) - Once(e \in Deletes(d))
    <2>1. /\ Created(e) \cap Doc = Created(e) /\ Deleted(e) \cap Doc = Deleted(e)
          /\ e \in Creates(d) <=> d \in Created(e)
          /\ e \in Deletes(d) <=> d \in Deleted(e)
      BY <1>1 DEF Created, Deleted, Creates, Deletes
    <2> HIDE DEF e
    <2>2. Publishes(e, Doc)
      BY DEF Handle, e
    <2> QED
      BY <2>1, <2>2 DEF Publishes, Once
  <1>6. ASSUME NEW d \in Doc
        PROVE  (balance[d] + Awaited(Creates(d)) - Awaited(Deletes(d)) = Has(Committed, d))'
    <2> DEFINE C == Creates(d)
               D == Deletes(d)
    <2>1. C' = C /\ D' = D /\ Has(Committed, d)' = Has(Committed, d)
      BY <1>3 DEF Creates, Deletes, Has
    <2>2. Awaited(C)' = Awaited(C) - Once(e \in C) /\ Awaited(D)' = Awaited(D) - Once(e \in D)
      BY <1>4, <2>1, OwnIsNothing
    <2>3. balance'[d] = balance[d] + Once(e \in C) - Once(e \in D)
      BY <1>5
    <2>4. balance[d] + Awaited(C) - Awaited(D) = Has(Committed, d)
      BY DEF Accounted, BalanceInv
    <2>5. /\ Awaited(C) \in Int /\ Awaited(D) \in Int /\ balance[d] \in Int
          /\ Once(e \in C) \in Int /\ Once(e \in D) \in Int
      BY <1>3, AwaitedType DEF Once, DocTypeOK
    <2>6. Awaited(Creates(d))' = Awaited(C)' /\ Awaited(Deletes(d))' = Awaited(D)'
      OBVIOUS
    <2> HIDE DEF C, D, e
    <2> QED
      BY <2>1, <2>2, <2>3, <2>4, <2>5, <2>6
  <1> QED
    BY <1>3, <1>6 DEF Accounted, BalanceInv

LEMMA AccountedStutters ==
    ASSUME Accounted, UNCHANGED <<vars, docVars>>
    PROVE  Accounted'
  <1>1. Committed' = Committed /\ UNCHANGED <<op, queue, balance>>
    BY DEF vars, docVars, Committed, Writing
  <1>2. \A E : Awaited(E)' = Awaited(E)
    BY <1>1 DEF Awaited, Count, Places, Unpublished, At, EventOf
  <1> QED
    BY <1>1, <1>2 DEF Accounted, UnlockedFinite, At, BalanceInv, Has, Creates, Deletes

(* The invariant of the observer: the numbers hold as long as nothing is    *)
(* lost or torn.                                                            *)
DocInv == DocTypeOK /\ (Complete => Accounted)

LEMMA CompleteBefore ==
    ASSUME TypeOK, DocTypeOK, [DocNext]_<<vars, docVars>>, Complete'
    PROVE  Complete
  <1>1. tears' = tears \/ tears' = tears + 1
    <2>1. [Next]_vars
      BY DocStep DEF vars
    <2> QED
      BY <2>1, AppendKinds DEF Next, vars, Crash, Step, StoreLock, StoreReject, StoreAppendFails, StoreCreate,
         StoreCopy, StoreRootFails, StoreReturn, LoadLock, LoadNotFound, LoadOpen, LoadRead
  <1>2. lost => lost'
    BY DEF DocNext, RootStep, Enqueue, DocCrash, Handle, HandleFails, docVars
  <1> QED
    BY <1>1, <1>2 DEF Complete, TypeOK

LEMMA DocInvariance ==
    IInv /\ IInv' /\ DocInv /\ [DocNext]_<<vars, docVars>> => DocInv'
  <1> SUFFICES ASSUME IInv, IInv', DocInv, [DocNext]_<<vars, docVars>> PROVE DocInv'
    OBVIOUS
  <1>1. TypeOK /\ LockInv /\ TypeOK' /\ LockInv' /\ DocTypeOK /\ DocTypeOK'
    BY DocTypeInvariant DEF IInv, DocInv
  <1> SUFFICES ASSUME Complete' PROVE Accounted'
    BY <1>1 DEF DocInv
  <1>2. Accounted /\ tears = 0 /\ tears' = 0 /\ ~lost'
    BY <1>1, CompleteBefore DEF DocInv, Complete
  <1>3. CASE \E c \in Client : RootStep(c)
    BY <1>1, <1>2, <1>3, AccountedRootStep
  <1>4. CASE DocCrash
    BY <1>1, <1>2, <1>4, AccountedCrash
  <1>5. CASE Handle
    BY <1>1, <1>2, <1>5, AccountedHandle
  <1>6. CASE HandleFails
    BY <1>2, <1>6 DEF HandleFails
  <1>7. CASE UNCHANGED <<vars, docVars>>
    BY <1>2, <1>7, AccountedStutters
  <1> QED
    BY <1>3, <1>4, <1>5, <1>6, <1>7 DEF DocNext

LEMMA DocInitInvariant == DocInit => DocInv
  <1> SUFFICES ASSUME DocInit PROVE DocInv
    OBVIOUS
  <1>1. DocTypeOK
    <2>1. queue \in Seq(Event) /\ Len(queue) <= Capacity
      BY CapacityAssumption DEF DocInit
    <2>2. balance \in [Doc -> Int] /\ newest \in Nat
      BY DEF DocInit
    <2>3. lost \in BOOLEAN /\ crossed \in BOOLEAN
      BY DEF DocInit
    <2> QED
      BY <2>1, <2>2, <2>3 DEF DocTypeOK
  <1>2. \A c \in Client : ~At(c, "unlocked") /\ ~Writing(c)
    BY DEF DocInit, Init, Idle, At, Writing
  <1>3. Committed = NoFile /\ {c \in Client : At(c, "unlocked")} = {} /\ \A E : Unpublished(E) = {}
    BY <1>2 DEF DocInit, Init, Committed, Unpublished
  <1>4. \A E : Places(queue, E) = {}
    BY DEF DocInit, Places
  <1>5. \A E : Awaited(E) = 0
    BY <1>3, <1>4, FS_EmptySet DEF Awaited, Count
  <1>6. \A d \in Doc : Has(NoFile, d) = 0
    BY HashAssumption DEF Has, Once, Docs
  <1> QED
    BY <1>1, <1>3, <1>5, <1>6, FS_EmptySet DEF DocInit, DocInv, Accounted, UnlockedFinite, BalanceInv

LEMMA DocumentInvariant == DocSpec => []DocInv
  BY DocInitInvariant, DocInvariance, DocInvariant, PTL DEF DocSpec

(* Every document has been created once more than it was deleted if the     *)
(* library holds it, in whatever order commits are published.               *)
THEOREM DocumentsAddUp == DocSpec => []EventsAddUp
  <1>1. IInv /\ DocInv => EventsAddUp
    <2> SUFFICES ASSUME IInv, DocInv, Settled, Complete, NEW d \in Doc
                 PROVE  balance[d] = IF Docs(root)[d] = Absent THEN 0 ELSE 1
      BY DEF EventsAddUp
    <2>1. \A c \in Client : ~Writing(c) /\ ~At(c, "unlocked")
      BY DEF Settled, Writing, At
    <2>2. Committed = root /\ \A E : Unpublished(E) = {}
      BY <2>1 DEF Committed, Unpublished
    <2>3. \A E : Places(queue, E) = {}
      BY DEF Settled, Places
    <2>4. \A E : Awaited(E) = 0
      BY <2>2, <2>3, FS_EmptySet DEF Awaited, Count
    <2>5. balance[d] \in Int /\ balance[d] + 0 - 0 = Has(root, d)
      BY <2>2, <2>4 DEF DocInv, Accounted, BalanceInv, DocTypeOK
    <2> QED
      BY <2>5 DEF Has, Once
  <1> QED
    BY <1>1, DocInvariant, DocumentInvariant, PTL
-----------------------------------------------------------------------------
(* The generations of the commits that are not yet published are distinct,  *)
(* and none is the newest that was.                                         *)
GenInv ==
    /\ newest <= Generation
    /\ \A c \in Client :
          Live(c) => /\ op[c].gen \in 1..Generation
                     /\ op[c].gen # newest
    /\ \A c \in Client : Writing(c) => op[c].gen = Generation /\ newest < Generation
    /\ \A c, d \in Client : Live(c) /\ Live(d) /\ op[c].gen = op[d].gen => c = d

(* The newest generation that has its root.                                 *)
Made == IF \E c \in Client : Writing(c) THEN Generation - 1 ELSE Generation

(* Commits whose event is certain.                                          *)
Pending(c) == At(c, "unlocked") /\ op[c].before # op[c].hash

(* A commit will be published after a newer one.                            *)
Doomed == \E c \in Client : Pending(c) /\ op[c].gen < newest

(* at[g] is the root of generation g: a commit that is made replaces the    *)
(* root of the generation before, and from the newest that was published    *)
(* only commits still to be published change it.                            *)
Ordered(at) ==
    /\ \A g \in Nat : g >= Made => at[g] = Committed
    /\ \A c \in Client :
          At(c, "unlocked") => at[op[c].gen] = op[c].hash /\ at[op[c].gen - 1] = op[c].before
    /\ \A g, h \in Nat :
          /\ newest <= g /\ g <= h
          /\ \A c \in Client : Pending(c) => ~(g < op[c].gen /\ op[c].gen <= h)
          => at[g] = at[h]

(* The events in the queue lead from what the listener knows to content.    *)
Followed(content) ==
    \E seen \in [Nat -> Content] :
        /\ told = Docs(seen[0]) /\ seen[Len(queue)] = content
        /\ \A i \in 1..Len(queue) :
              \/ queue[i] = Own /\ seen[i] = seen[i - 1]
              \/ queue[i].before = seen[i - 1] /\ queue[i].after = seen[i]

Linked == \E at \in [Nat -> Content] : Ordered(at) /\ Followed(at[newest])

FollowInv == ~crossed => Doomed \/ Linked

LEMMA LiveFields ==
    ASSUME TypeOK, NEW c \in Client, Live(c)
    PROVE  op[c].gen \in Nat /\ op[c].hash \in Content /\ op[c].before \in Content
  BY OpFields DEF Live, At, Content

LEMMA GenerationNext == (TypeOK => Generation \in Nat)'
  BY GenerationType, PTL

LEMMA GenRootStep ==
    ASSUME TypeOK, TypeOK', LockInv, LockInv', DocTypeOK, GenInv, WriteInv, WriteInv', tears' = 0, ~lost',
           NEW c \in Client, RootStep(c)
    PROVE  GenInv'
  <1>1. /\ Generation \in Nat /\ newest \in Nat /\ Len(events) \in Nat
        /\ \A d \in Client : Live(d) => op[d].gen \in Nat
    BY GenerationType, LiveFields DEF DocTypeOK, TypeOK
  <1>2. \A d \in Client : Writing(d)' => op'[d].gen = Generation'
    BY DEF WriteInv
  <1>3. CASE Quiet
    <2>1. newest' = newest
      BY <1>1, <1>3, RootStepQueue DEF Quiet
    <2>2. \A d \in Client : Live(d)' => Live(d) /\ op'[d].gen = op[d].gen
      BY <1>3 DEF Quiet
    <2>3. \A d \in Client : Writing(d)' => Writing(d)
      BY <1>3 DEF Quiet, Live, Writing
    <2>4. Generation' \in Int /\ Generation' >= Generation
      BY <1>3, GenerationNext DEF Quiet
    <2> QED
      BY <1>1, <1>2, <2>1, <2>2, <2>3, <2>4, <1>3 DEF GenInv
  <1>4. CASE Starts(c)
    <2>1. newest' = newest
      BY <1>1, <1>4, RootStepQueue DEF Starts
    <2>2. \A d \in Client : d # c => op'[d] = op[d]
      BY <1>4 DEF Starts
    <2>3. Generation' = Generation + 1 /\ op'[c].gen = Generation'
      BY <1>4 DEF Starts
    <2>4. \A d \in Client : d # c => (Live(d)' <=> Live(d)) /\ ~Writing(d)'
      BY <1>4, <2>2 DEF Starts, Live, Writing
    <2> QED
      BY <1>1, <2>1, <2>2, <2>3, <2>4 DEF GenInv
  <1>5. CASE Commits(c)
    <2>1. newest' = newest /\ Generation' = Generation
      BY <1>1, <1>5, RootStepQueue DEF Commits
    <2>2. \A d \in Client : op'[d].gen = op[d].gen /\ (Live(d)' => Live(d)) /\ ~Writing(d)'
      BY <1>5 DEF Commits, Live, Writing, At, TypeOK, OpType
    <2>3. \A d, e \in Client : Live(d)' /\ Live(e)' /\ op'[d].gen = op'[e].gen => d = e
      BY <2>2 DEF GenInv
    <2>4. \A d \in Client : Live(d)' => op'[d].gen \in 1..Generation /\ op'[d].gen # newest
      BY <2>2 DEF GenInv
    <2> QED
      BY <1>1, <2>1, <2>2, <2>3, <2>4 DEF GenInv
  <1>6. CASE Returns(c)
    <2>1. /\ Generation' = Generation
          /\ \A d \in Client : Live(d)' => Live(d) /\ op'[d].gen = op[d].gen /\ d # c
          /\ \A d \in Client : Writing(d)' => Writing(d)
          /\ Live(c)
      BY <1>6 DEF Returns, Live, Writing, At, TypeOK, Idle
    <2>2. newest' = newest \/ (newest' = op[c].gen /\ op[c].gen > newest)
      BY <1>1, <1>6, RootStepQueue DEF Returns
    <2>3. \A d \in Client : Writing(d) => op[c].gen < Generation
      <3>1. \A d \in Client : Writing(d) => d # c /\ Live(d)
        BY <1>6 DEF Returns, At, Writing, Live
      <3> QED
        BY <1>1, <2>1, <3>1 DEF GenInv
    <2>4. \A d \in Client : Live(d)' => op'[d].gen \in 1..Generation /\ op'[d].gen # newest'
      BY <2>1, <2>2 DEF GenInv
    <2>5. newest' <= Generation /\ \A d \in Client : Writing(d)' => newest' < Generation
      BY <1>1, <2>1, <2>2, <2>3 DEF GenInv
    <2>6. \A d, e \in Client : Live(d)' /\ Live(e)' /\ op'[d].gen = op'[e].gen => d = e
      BY <2>1 DEF GenInv
    <2> QED
      BY <1>2, <2>1, <2>4, <2>5, <2>6 DEF GenInv
  <1> QED
    BY <1>3, <1>4, <1>5, <1>6, StepKinds DEF RootStep

LEMMA GenOther ==
    ASSUME TypeOK, TypeOK', LockInv, LockInv', DocTypeOK, GenInv, WriteInv, tears = 0, tears' = 0, ~lost',
           DocCrash \/ Handle \/ UNCHANGED <<vars, docVars>>
    PROVE  GenInv'
  <1>1. CASE DocCrash
    <2>1. Generation \in Nat /\ newest \in Nat /\ Generation' >= Generation /\ newest' = newest
      BY <1>1, CrashLosesNothing, GenerationType DEF DocTypeOK
    <2>2. \A c \in Client : ~Live(c)' /\ ~Writing(c)'
      BY <1>1, CrashLosesNothing DEF Live, Writing
    <2>3. Generation' \in Int
      BY GenerationNext
    <2> QED
      BY <2>1, <2>2, <2>3 DEF GenInv
  <1>2. CASE UNCHANGED <<op, size, newest>>
    BY <1>2 DEF GenInv, Live, Writing, Generation
  <1> QED
    BY <1>1, <1>2 DEF Handle, vars, docVars

(* An event that starts where the listener is takes it to where it ends.    *)
LEMMA ListenerFollows ==
    ASSUME NEW e \in Event, told = Docs(e.before), Publishes(e, Doc)
    PROVE  told' = Docs(e.after)
  <1>1. \A d \in Doc : told'[d] = Docs(e.after)[d]
    BY DEF Publishes, Created, Updated, Deleted
  <1>2. told' = [d \in Doc |-> told'[d]]
    BY DEF Publishes
  <1> QED
    BY <1>1, <1>2, DocsType

LEMMA FollowedAppend ==
    ASSUME DocTypeOK, NEW e \in Event, Followed(e.before),
           queue' = Append(queue, e), told' = told
    PROVE  Followed(e.after)'
  <1>1. PICK seen \in [Nat -> Content] :
            /\ told = Docs(seen[0]) /\ seen[Len(queue)] = e.before
            /\ \A i \in 1..Len(queue) :
                  \/ queue[i] = Own /\ seen[i] = seen[i - 1]
                  \/ queue[i].before = seen[i - 1] /\ queue[i].after = seen[i]
    BY DEF Followed
  <1> DEFINE n == Len(queue)
             s == [seen EXCEPT ![n + 1] = e.after]
  <1>2. /\ n \in Nat /\ Len(queue') = n + 1 /\ queue'[n + 1] = e
        /\ \A i \in 1..n : queue'[i] = queue[i]
    BY DEF DocTypeOK
  <1>3. /\ s \in [Nat -> Content] /\ s[n + 1] = e.after
        /\ \A i \in 0..n : s[i] = seen[i]
    BY <1>2 DEF Event
  <1> HIDE DEF s
  <1>4. told' = Docs(s[0]) /\ s[Len(queue')] = e.after
    BY <1>1, <1>2, <1>3
  <1>5. ASSUME NEW i \in 1..Len(queue')
        PROVE  \/ queue'[i] = Own /\ s[i] = s[i - 1]
               \/ queue'[i].before = s[i - 1] /\ queue'[i].after = s[i]
    <2>1. CASE i = n + 1
      BY <1>1, <1>2, <1>3, <2>1
    <2>2. CASE i # n + 1
      <3>1. i \in 1..n /\ i \in 0..n /\ i - 1 \in 0..n
        BY <1>2, <2>2
      <3> QED
        BY <1>1, <1>2, <1>3, <3>1
    <2> QED
      BY <2>1, <2>2
  <1> QED
    BY <1>3, <1>4, <1>5 DEF Followed, Docs

LEMMA FollowedHandle ==
    ASSUME DocTypeOK, Handle, NEW content, Followed(content)
    PROVE  Followed(content)'
  <1>1. PICK seen \in [Nat -> Content] :
            /\ told = Docs(seen[0]) /\ seen[Len(queue)] = content
            /\ \A i \in 1..Len(queue) :
                  \/ queue[i] = Own /\ seen[i] = seen[i - 1]
                  \/ queue[i].before = seen[i - 1] /\ queue[i].after = seen[i]
    BY DEF Followed
  <1> DEFINE n == Len(queue)
             e == Head(queue)
             s == [i \in Nat |-> IF i < n THEN seen[i + 1] ELSE content]
  <1>2. n \in Nat \ {0} /\ e = queue[1] /\ e \in Event
    BY DEF Handle, DocTypeOK
  <1>3. PICK k \in Nat : queue' = Tail(queue) \o [i \in 1..k |-> Own]
    BY <1>2, ChangesFinite, RestOfQueue DEF Handle
  <1>4. /\ Len(queue') = n - 1 + k
        /\ \A i \in 1..n - 1 : queue'[i] = queue[i + 1]
        /\ \A i \in n..(n - 1 + k) : queue'[i] = Own
    <2>1. [i \in 1..k |-> Own] \in Seq(Event) /\ Len([i \in 1..k |-> Own]) = k
      BY OwnIsNothing
    <2>2. /\ Tail(queue) \in Seq(Event) /\ Len(Tail(queue)) = n - 1
          /\ \A i \in 1..n - 1 : Tail(queue)[i] = queue[i + 1]
      BY <1>2 DEF DocTypeOK
    <2> QED
      BY <1>2, <1>3, <2>1, <2>2
  <1>5. content \in Content
    BY <1>1, <1>2
  <1>6. s \in [Nat -> Content] /\ (\A i \in 0..n - 1 : s[i] = seen[i + 1])
        /\ (\A i \in Nat : i >= n => s[i] = content) /\ s[n - 1] = content
    BY <1>1, <1>2, <1>5
  <1> HIDE DEF s
  <1>7. told' = Docs(s[0])
    <2>1. Publishes(e, Doc)
      BY DEF Handle
    <2>2. s[0] = seen[1]
      BY <1>2, <1>6
    <2>3. CASE e = Own /\ seen[1] = seen[0]
      <3>1. Created(e) = {} /\ Updated(e) = {} /\ Deleted(e) = {}
        BY <2>3 DEF Own, Created, Updated, Deleted
      <3>2. told' = [d \in Doc |-> told[d]]
        BY <2>1, <3>1 DEF Publishes
      <3> QED
        BY <1>1, <2>2, <2>3, <3>2, DocsType
    <2>4. CASE e.before = seen[0] /\ e.after = seen[1]
      BY <1>1, <1>2, <2>1, <2>2, <2>4, ListenerFollows
    <2> QED
      BY <1>1, <1>2, <2>3, <2>4
  <1>8. s[Len(queue')] = content
    BY <1>2, <1>4, <1>6
  <1>9. ASSUME NEW i \in 1..Len(queue')
        PROVE  \/ queue'[i] = Own /\ s[i] = s[i - 1]
               \/ queue'[i].before = s[i - 1] /\ queue'[i].after = s[i]
    <2>1. CASE i <= n - 1
      <3>1. i \in 1..n - 1 /\ i + 1 \in 1..n /\ i \in 0..n - 1 /\ i - 1 \in 0..n - 1
        BY <1>2, <2>1
      <3>2. s[i] = seen[i + 1] /\ s[i - 1] = seen[i] /\ queue'[i] = queue[i + 1]
        BY <1>4, <1>6, <3>1
      <3> QED
        BY <1>1, <3>1, <3>2
    <2>2. CASE i > n - 1
      <3>1. i \in n..(n - 1 + k)
        BY <1>2, <1>4, <2>2
      <3>2. s[i] = content /\ s[i - 1] = content
        <4>1. i \in Nat /\ i >= n /\ (i - 1 = n - 1 \/ (i - 1 \in Nat /\ i - 1 >= n))
          BY <1>2, <3>1
        <4> QED
          BY <1>6, <4>1
      <3> QED
        BY <1>4, <3>1, <3>2
    <2> QED
      BY <1>2, <2>1, <2>2
  <1> QED
    BY <1>6, <1>7, <1>8, <1>9 DEF Followed, Docs

LEMMA FollowedStays ==
    ASSUME UNCHANGED <<queue, told>>, NEW content, Followed(content)
    PROVE  Followed(content)'
  BY DEF Followed, Docs

LEMMA CommittedType == TypeOK /\ LockInv => Committed \in Content
  <1> SUFFICES ASSUME TypeOK, LockInv PROVE Committed \in Content
    OBVIOUS
  <1>1. ASSUME NEW c \in Client, Writing(c) PROVE Committed \in Content
    BY <1>1, OneWriter, OpFields DEF Writing, At
  <1>2. CASE ~\E c \in Client : Writing(c)
    BY <1>2 DEF Committed, TypeOK
  <1> QED
    BY <1>1, <1>2

LEMMA MadeType ==
    ASSUME TypeOK, GenInv
    PROVE  Made \in Nat /\ Generation \in Nat /\ Made <= Generation
  BY GenerationType DEF Made, GenInv, Live, Writing

(* As long as the commits to be published and the newest that was stay the  *)
(* same, so does what was said of their roots.                              *)
LEMMA FollowStays ==
    ASSUME TypeOK, GenInv, FollowInv, ~crossed', crossed' = crossed, newest' = newest,
           Made' >= Made, Made' \in Nat, Committed' = Committed, UNCHANGED <<queue, told>>,
           \A c \in Client :
                /\ At(c, "unlocked")' <=> At(c, "unlocked")
                /\ At(c, "unlocked") => EventOf(c)' = EventOf(c) /\ op'[c].gen = op[c].gen
    PROVE  FollowInv'
  <1>1. \A c \in Client :
            /\ Pending(c)' <=> Pending(c)
            /\ At(c, "unlocked") => /\ op'[c].before = op[c].before
                                    /\ op'[c].hash = op[c].hash
                                    /\ op'[c].gen = op[c].gen
    BY DEF Pending, EventOf
  <1>2. Doomed => Doomed'
    BY <1>1 DEF Doomed, Pending
  <1>3. ASSUME NEW at \in [Nat -> Content], Ordered(at), Followed(at[newest])
        PROVE  Linked'
    <2>1. Made \in Nat
      BY MadeType
    <2>2. \A g \in Nat : g >= Made' => at[g] = Committed'
      BY <1>3, <2>1 DEF Ordered
    <2>3. \A c \in Client :
              At(c, "unlocked")' => at[op'[c].gen] = op'[c].hash /\ at[op'[c].gen - 1] = op'[c].before
      BY <1>1, <1>3 DEF Ordered
    <2>4. ASSUME NEW g \in Nat, NEW h \in Nat, newest' <= g, g <= h,
                 \A c \in Client : Pending(c)' => ~(g < op'[c].gen /\ op'[c].gen <= h)
          PROVE  at[g] = at[h]
      <3>1. \A c \in Client : Pending(c) => ~(g < op[c].gen /\ op[c].gen <= h)
        BY <1>1, <2>4 DEF Pending
      <3> QED
        BY <1>3, <2>4, <3>1 DEF Ordered
    <2>5. Ordered(at)'
      BY <2>2, <2>3, <2>4 DEF Ordered
    <2>6. Followed(at[newest])'
      BY <1>3, FollowedStays DEF Followed, Docs
    <2> QED
      BY <2>5, <2>6 DEF Linked
  <1> QED
    BY <1>2, <1>3 DEF FollowInv, Linked

LEMMA MadeStays ==
    ASSUME TypeOK, TypeOK', GenInv, GenInv', Generation' >= Generation,
           \A c \in Client : Writing(c)' <=> Writing(c),
           \A c \in Client : Writing(c) => op'[c].gen = op[c].gen
    PROVE  Made' >= Made /\ Made' \in Nat
  <1>1. Generation \in Nat /\ Generation' \in Nat
    BY GenerationType, GenerationNext
  <1>2. CASE \E c \in Client : Writing(c)
    <2>1. PICK c \in Client : Writing(c)
      BY <1>2
    <2>2. Generation' = Generation /\ Generation >= 1
      BY <1>1, <2>1 DEF GenInv, Live, Writing
    <2> QED
      BY <1>1, <2>1, <2>2 DEF Made
  <1>3. CASE ~\E c \in Client : Writing(c)
    BY <1>1, <1>3 DEF Made
  <1> QED
    BY <1>2, <1>3

LEMMA FollowCommits ==
    ASSUME TypeOK, TypeOK', LockInv, LockInv', DocTypeOK, GenInv, GenInv', FollowInv, ~lost', ~crossed',
           NEW c \in Client, RootStep(c), Commits(c)
    PROVE  FollowInv'
  <1>1. /\ UNCHANGED <<queue, told, newest, crossed>>
        /\ Generation \in Nat /\ newest \in Nat
    <2>1. Len(events) \in Nat /\ Generation \in Nat /\ newest \in Nat
      BY GenerationType DEF TypeOK, DocTypeOK
    <2>2. ~(Len(events') > Len(events))
      BY <2>1 DEF Commits
    <2> QED
      BY <2>1, <2>2, RootStepQueue
  <1>2. /\ Writing(c) /\ Live(c) /\ op[c].gen = Generation /\ newest < Generation
        /\ Generation >= 1 /\ Made = Generation - 1
        /\ \A d \in Client : ~Writing(d)'
    BY <1>1 DEF Commits, Writing, Live, At, GenInv, Made
  <1>3. /\ Made' = Generation /\ Committed = op[c].before /\ Committed' = op[c].hash
        /\ op[c].hash \in Content
    BY <1>2, LiveFields DEF Made, Commits
  <1>4. /\ \A d \in Client : /\ d # c => op'[d] = op[d]
                             /\ At(d, "unlocked") => d # c /\ op[d].gen \in 1..(Generation - 1)
        /\ At(c, "unlocked")' /\ op'[c].hash = op[c].hash /\ op'[c].before = op[c].before
        /\ op'[c].gen = Generation
    <2>1. /\ \A d \in Client : d # c => op'[d] = op[d]
          /\ At(c, "unlocked")' /\ op'[c].hash = op[c].hash /\ op'[c].before = op[c].before
          /\ op'[c].gen = Generation
      BY <1>2, LiveFields DEF Commits, At, TypeOK, OpType
    <2>2. ASSUME NEW d \in Client, At(d, "unlocked")
          PROVE  d # c /\ op[d].gen \in 1..(Generation - 1)
      <3>1. d # c /\ Live(d)
        BY <2>2 DEF Commits, At, Live
      <3>2. op[d].gen \in 1..Generation /\ op[d].gen # Generation
        BY <1>2, <3>1 DEF GenInv
      <3> QED
        BY <1>1, <3>1, <3>2
    <2> QED
      BY <2>1, <2>2
  <1>5. \A d \in Client : Pending(d) => Pending(d)' /\ op'[d].gen = op[d].gen
    BY <1>4 DEF Pending, At
  <1>6. Doomed => Doomed'
    BY <1>1, <1>5 DEF Doomed
  <1>7. ASSUME NEW at \in [Nat -> Content], Ordered(at), Followed(at[newest])
        PROVE  Linked'
    <2> DEFINE G == Generation
    <2>1. PICK t \in [Nat -> Content] :
              /\ \A g \in Nat : g >= G => t[g] = op[c].hash
              /\ \A g \in Nat : g < G => t[g] = at[g]
      <3> DEFINE f == [g \in Nat |-> IF g >= G THEN op[c].hash ELSE at[g]]
      <3>1. f \in [Nat -> Content]
        BY <1>3
      <3>2. /\ \A g \in Nat : g >= G => f[g] = op[c].hash
            /\ \A g \in Nat : g < G => f[g] = at[g]
        BY <1>1
      <3> QED
        BY <3>1, <3>2
    <2>2. at[G - 1] = op[c].before
      BY <1>1, <1>2, <1>3, <1>7 DEF Ordered
    <2>3. \A g \in Nat : g >= Made' => t[g] = Committed'
      BY <1>3, <2>1
    <2>4. ASSUME NEW d \in Client, At(d, "unlocked")'
          PROVE  t[op'[d].gen] = op'[d].hash /\ t[op'[d].gen - 1] = op'[d].before
      <3>1. CASE d = c
        <4>1. G \in Nat /\ G - 1 \in Nat /\ G - 1 < G
          BY <1>1, <1>2
        <4> QED
          BY <1>4, <2>1, <2>2, <3>1, <4>1
      <3>2. CASE d # c
        <4>1. At(d, "unlocked") /\ op'[d] = op[d]
          BY <1>4, <2>4, <3>2 DEF At
        <4>2. /\ op[d].gen \in Nat /\ op[d].gen < G /\ op[d].gen - 1 \in Nat /\ op[d].gen - 1 < G
          BY <1>1, <1>4, <4>1
        <4> QED
          BY <1>7, <2>1, <4>1, <4>2 DEF Ordered
      <3> QED
        BY <3>1, <3>2
    <2>5. ASSUME NEW g \in Nat, NEW h \in Nat, newest' <= g, g <= h,
                 \A d \in Client : Pending(d)' => ~(g < op'[d].gen /\ op'[d].gen <= h)
          PROVE  t[g] = t[h]
      <3>1. \A d \in Client : Pending(d) => ~(g < op[d].gen /\ op[d].gen <= h)
        BY <1>5, <2>5
      <3>2. CASE h < G
        BY <1>1, <1>7, <2>1, <2>5, <3>1, <3>2 DEF Ordered
      <3>3. CASE g >= G
        BY <1>1, <2>1, <2>5, <3>3
      <3>4. CASE g < G /\ h >= G
        <4>1. ~Pending(c)'
          BY <1>1, <1>4, <2>5, <3>4
        <4>2. op[c].before = op[c].hash
          BY <1>4, <4>1 DEF Pending
        <4>3. /\ G - 1 \in Nat /\ newest <= g /\ g <= G - 1
              /\ \A d \in Client : Pending(d) => ~(g < op[d].gen /\ op[d].gen <= G - 1)
          <5>1. \A d \in Client : Pending(d) => op[d].gen \in 1..(Generation - 1)
            BY <1>4 DEF Pending
          <5> QED
            BY <1>1, <1>2, <2>5, <3>1, <3>4, <5>1
        <4>4. at[g] = at[G - 1]
          BY <1>7, <4>3 DEF Ordered
        <4> QED
          BY <2>1, <2>2, <3>4, <4>2, <4>4
      <3> QED
        BY <1>1, <3>2, <3>3, <3>4
    <2>6. Ordered(t)'
      BY <2>3, <2>4, <2>5 DEF Ordered
    <2>7. Followed(t[newest])'
      <3>1. t[newest] = at[newest] /\ t[newest'] = at[newest]
        BY <1>1, <1>2, <2>1
      <3> QED
        BY <1>1, <1>7, <3>1, FollowedStays, SMTT(20) DEF Followed, Docs
    <2> QED
      BY <2>1, <2>6, <2>7 DEF Linked
  <1> QED
    BY <1>1, <1>6, <1>7 DEF FollowInv, Linked

LEMMA FollowReturns ==
    ASSUME TypeOK, TypeOK', LockInv, LockInv', DocTypeOK, GenInv, GenInv', FollowInv, ~lost', ~crossed',
           NEW c \in Client, RootStep(c), Returns(c), op[c].before # op[c].hash
    PROVE  FollowInv'
  <1>1. /\ queue' = Append(queue, EventOf(c)) /\ told' = told
        /\ newest' = IF op[c].gen > newest THEN op[c].gen ELSE newest
        /\ ~crossed /\ ~(op[c].gen < newest)
    BY RootStepQueue DEF Returns
  <1>2. /\ newest \in Nat /\ Generation \in Nat
        /\ Live(c) /\ op[c].gen \in 1..Generation /\ op[c].gen # newest
        /\ EventOf(c) \in Event
    BY GenerationType, UnlockedEvent DEF DocTypeOK, Returns, Live, At, GenInv
  <1>3. op[c].gen > newest /\ newest' = op[c].gen
    BY <1>1, <1>2
  <1>4. /\ \A d \in Client : At(d, "unlocked")' <=> At(d, "unlocked") /\ d # c
        /\ \A d \in Client : d # c => op'[d] = op[d]
    BY DEF Returns, At, TypeOK, Idle
  <1>5. CASE \E d \in Client : d # c /\ Pending(d) /\ op[d].gen < op[c].gen
    <2>1. Doomed'
      BY <1>3, <1>4, <1>5 DEF Doomed, Pending
    <2> QED
      BY <2>1 DEF FollowInv
  <1>6. CASE \A d \in Client : d # c /\ Pending(d) => ~(op[d].gen < op[c].gen)
    <2>1. ~Doomed
      <3> SUFFICES ASSUME NEW d \in Client, Pending(d), op[d].gen < newest PROVE FALSE
        BY DEF Doomed
      <3>1. op[d].gen \in Nat
        BY LiveFields DEF Pending, At, Live
      <3> QED
        BY <1>2, <1>3, <1>6, <3>1
    <2>2. PICK at \in [Nat -> Content] : Ordered(at) /\ Followed(at[newest])
      BY <1>1, <2>1 DEF FollowInv, Linked
    <2> DEFINE n == op[c].gen
    <2>3. at[n] = op[c].hash /\ at[n - 1] = op[c].before
      BY <2>2 DEF Ordered, Returns
    <2>4. at[newest] = at[n - 1]
      <3>1. newest <= n - 1 /\ n - 1 \in Nat
        BY <1>2, <1>3
      <3>2. ASSUME NEW d \in Client, Pending(d), newest < op[d].gen, op[d].gen <= n - 1 PROVE FALSE
        <4>1. op[d].gen \in Nat
          BY <3>2, LiveFields DEF Pending, At, Live
        <4> QED
          BY <1>2, <1>6, <3>2, <4>1
      <3> QED
        BY <1>2, <2>2, <3>1, <3>2 DEF Ordered
    <2>5. Followed(op[c].before)
      BY <2>2, <2>3, <2>4
    <2>6. Followed(at[newest])'
      <3>1. PICK e \in Event : e = EventOf(c)
        BY <1>2
      <3>2. Followed(e.before)
        BY <2>5, <3>1 DEF EventOf
      <3>3. queue' = Append(queue, e)
        BY <1>1, <3>1
      <3>4. Followed(e.after)'
        BY <1>1, <3>2, <3>3, FollowedAppend
      <3>5. at[newest'] = e.after
        BY <1>3, <2>3, <3>1 DEF EventOf
      <3> QED
        BY <3>4, <3>5
    <2>7. /\ Committed' = Committed /\ Made' = Made
      <3>1. \A d \in Client : Writing(d)' <=> Writing(d)
        BY <1>4 DEF Writing, Returns, At, TypeOK, Idle
      <3> QED
        BY <3>1 DEF Returns, Made
    <2>8. \A g \in Nat : g >= Made' => at[g] = Committed'
      BY <2>2, <2>7 DEF Ordered
    <2>9. ASSUME NEW d \in Client, At(d, "unlocked")'
          PROVE  at[op'[d].gen] = op'[d].hash /\ at[op'[d].gen - 1] = op'[d].before
      BY <1>4, <2>2, <2>9 DEF Ordered
    <2>10. ASSUME NEW g \in Nat, NEW h \in Nat, newest' <= g, g <= h,
                  \A d \in Client : Pending(d)' => ~(g < op'[d].gen /\ op'[d].gen <= h)
           PROVE  at[g] = at[h]
      <3>1. \A d \in Client : d # c /\ Pending(d) => ~(g < op[d].gen /\ op[d].gen <= h)
        BY <1>4, <2>10 DEF Pending
      <3>2. ~(g < op[c].gen)
        BY <1>2, <1>3, <2>10
      <3>3. newest <= g
        BY <1>2, <1>3, <2>10
      <3> QED
        BY <2>2, <2>10, <3>1, <3>2, <3>3 DEF Ordered
    <2>11. Ordered(at)'
      BY <2>8, <2>9, <2>10 DEF Ordered
    <2> QED
      BY <2>6, <2>11 DEF FollowInv, Linked
  <1> QED
    BY <1>5, <1>6

LEMMA FollowRootStep ==
    ASSUME TypeOK, TypeOK', LockInv, LockInv', DocTypeOK, GenInv, GenInv', FollowInv,
           tears' = 0, ~lost', NEW c \in Client, RootStep(c)
    PROVE  FollowInv'
  <1> SUFFICES ASSUME ~crossed' PROVE FollowInv'
    BY DEF FollowInv
  <1>1. Len(events) \in Nat /\ Generation \in Nat
    BY GenerationType DEF TypeOK
  <1>2. CASE Quiet
    <2>1. UNCHANGED <<queue, told, newest, crossed>>
      BY <1>1, <1>2, RootStepQueue DEF Quiet
    <2>2. \A d \in Client : /\ Writing(d)' <=> Writing(d)
                            /\ Writing(d) => op'[d].gen = op[d].gen
                            /\ At(d, "unlocked")' <=> At(d, "unlocked")
                            /\ At(d, "unlocked") => EventOf(d)' = EventOf(d) /\ op'[d].gen = op[d].gen
      BY <1>2 DEF Quiet, Live, Writing, At
    <2>3. Generation' >= Generation /\ Committed' = Committed
      BY <1>2 DEF Quiet
    <2>4. Made' >= Made /\ Made' \in Nat
      BY <2>2, <2>3, MadeStays
    <2> QED
      BY <2>1, <2>2, <2>3, <2>4, FollowStays
  <1>3. CASE Starts(c)
    <2>1. UNCHANGED <<queue, told, newest, crossed>>
      BY <1>1, <1>3, RootStepQueue DEF Starts
    <2>2. \A d \in Client : /\ At(d, "unlocked")' <=> At(d, "unlocked")
                            /\ At(d, "unlocked") => EventOf(d)' = EventOf(d) /\ op'[d].gen = op[d].gen
      BY <1>3 DEF Starts, At, EventOf
    <2>3. Made = Generation /\ Made' = Generation /\ Committed' = Committed
      BY <1>1, <1>3 DEF Starts, Made, Writing
    <2> QED
      BY <1>1, <2>1, <2>2, <2>3, FollowStays
  <1>4. CASE Commits(c)
    BY <1>4, FollowCommits
  <1>5. CASE Returns(c) /\ op[c].before # op[c].hash
    BY <1>5, FollowReturns
  <1>6. CASE Returns(c) /\ op[c].before = op[c].hash
    <2>1. UNCHANGED <<queue, told, newest, crossed>> /\ Committed' = Committed /\ Generation' = Generation
      BY <1>1, <1>6, RootStepQueue DEF Returns
    <2>2. \A d \in Client : /\ Writing(d)' <=> Writing(d)
                            /\ Writing(d) => op'[d].gen = op[d].gen
                            /\ At(d, "unlocked")' <=> At(d, "unlocked") /\ d # c
                            /\ At(d, "unlocked")' => EventOf(d)' = EventOf(d) /\ op'[d].gen = op[d].gen
      BY <1>6 DEF Returns, Writing, At, EventOf, TypeOK, Idle
    <2>3. Made' = Made
      BY <2>1, <2>2 DEF Made
    <2>4. \A d \in Client : /\ Pending(d)' <=> Pending(d)
                            /\ Pending(d) => op'[d].gen = op[d].gen
      BY <1>6, <2>2 DEF Pending, EventOf
    <2>5. Doomed => Doomed'
      BY <2>1, <2>4 DEF Doomed
    <2>6. ASSUME NEW at \in [Nat -> Content], Ordered(at), Followed(at[newest])
          PROVE  Linked'
      <3>1. \A g \in Nat : g >= Made' => at[g] = Committed'
        BY <2>1, <2>3, <2>6 DEF Ordered
      <3>2. ASSUME NEW d \in Client, At(d, "unlocked")'
            PROVE  at[op'[d].gen] = op'[d].hash /\ at[op'[d].gen - 1] = op'[d].before
        BY <2>2, <2>6, <3>2 DEF Ordered, EventOf
      <3>3. ASSUME NEW g \in Nat, NEW h \in Nat, newest' <= g, g <= h,
                   \A d \in Client : Pending(d)' => ~(g < op'[d].gen /\ op'[d].gen <= h)
            PROVE  at[g] = at[h]
        BY <2>1, <2>4, <2>6, <3>3 DEF Ordered
      <3>4. Ordered(at)'
        BY <3>1, <3>2, <3>3 DEF Ordered
      <3>5. Followed(at[newest])'
        BY <2>1, <2>6, FollowedStays DEF Followed, Docs
      <3> QED
        BY <3>4, <3>5 DEF Linked
    <2> QED
      BY <2>1, <2>5, <2>6 DEF FollowInv, Linked
  <1> QED
    BY <1>2, <1>3, <1>4, <1>5, <1>6, StepKinds DEF RootStep

LEMMA FollowCrash ==
    ASSUME TypeOK, TypeOK', LockInv, LockInv', DocTypeOK, GenInv, GenInv', FollowInv, DocCrash,
           tears = 0, tears' = 0, ~lost'
    PROVE  FollowInv'
  <1> SUFFICES ASSUME ~crossed' PROVE FollowInv'
    BY DEF FollowInv
  <1>1. \A c \in Client : ~Live(c) /\ ~Live(c)'
    BY CrashLosesNothing
  <1>2. \A c \in Client : /\ ~Writing(c) /\ ~Writing(c)'
                          /\ ~At(c, "unlocked") /\ ~At(c, "unlocked")'
    BY <1>1 DEF Live, Writing, At
  <1>3. Generation' >= Generation /\ Committed' = Committed /\ UNCHANGED <<queue, told, newest, crossed>>
    BY CrashLosesNothing
  <1>4. Made' >= Made /\ Made' \in Nat
    BY <1>2, <1>3, MadeStays
  <1> QED
    BY <1>2, <1>3, <1>4, FollowStays

LEMMA FollowHandle ==
    ASSUME TypeOK, DocTypeOK, GenInv, FollowInv, Handle
    PROVE  FollowInv'
  <1>1. UNCHANGED <<op, lock, root, size, newest, crossed>>
    BY DEF Handle, vars
  <1>2. Doomed => Doomed'
    BY <1>1 DEF Doomed, Pending, At
  <1>3. ASSUME NEW at \in [Nat -> Content], Ordered(at), Followed(at[newest])
        PROVE  Linked'
    <2>1. Ordered(at)'
      BY <1>1, <1>3 DEF Ordered, Made, Committed, Writing, Pending, At, Generation
    <2>2. PICK content : content = at[newest]
      OBVIOUS
    <2>3. Followed(content)'
      BY <1>3, <2>2, FollowedHandle
    <2>4. Followed(at[newest])'
      BY <1>1, <2>2, <2>3
    <2> QED
      BY <2>1, <2>4 DEF Linked
  <1> QED
    BY <1>1, <1>2, <1>3 DEF FollowInv, Linked

LEMMA FollowStutters ==
    ASSUME FollowInv, UNCHANGED <<vars, docVars>>
    PROVE  FollowInv'
  <1>1. UNCHANGED <<op, lock, root, size, newest, crossed, queue, told>>
    BY DEF vars, docVars
  <1>2. /\ Committed' = Committed /\ Made' = Made
        /\ \A c \in Client : Pending(c)' <=> Pending(c)
    BY <1>1 DEF Committed, Made, Writing, Generation, Pending, At
  <1>3. Doomed => Doomed'
    BY <1>1, <1>2 DEF Doomed
  <1>4. ASSUME NEW at \in [Nat -> Content], Ordered(at), Followed(at[newest])
        PROVE  Linked'
    <2>1. Ordered(at)'
      BY <1>1, <1>2, <1>4 DEF Ordered, At
    <2>2. Followed(at[newest])'
      BY <1>1, <1>4 DEF Followed, Docs
    <2> QED
      BY <2>1, <2>2 DEF Linked
  <1> QED
    BY <1>1, <1>3, <1>4 DEF FollowInv, Linked

(* The invariant of the observer: what it says holds as long as no event is *)
(* lost and no commit torn.                                                 *)
OrderInv == Complete => GenInv /\ FollowInv

LEMMA OrderInvariance ==
    IInv /\ IInv' /\ DocInv /\ OrderInv /\ [DocNext]_<<vars, docVars>> => OrderInv'
  <1> SUFFICES ASSUME IInv, IInv', DocInv, OrderInv, [DocNext]_<<vars, docVars>>, Complete'
               PROVE  GenInv' /\ FollowInv'
    BY DEF OrderInv
  <1>1. /\ TypeOK /\ LockInv /\ TypeOK' /\ LockInv' /\ DocTypeOK
        /\ tears = 0 /\ tears' = 0 /\ ~lost' /\ GenInv /\ FollowInv
    BY CompleteBefore DEF IInv, DocInv, OrderInv, Complete
  <1>2. WriteInv /\ WriteInv'
    BY <1>1 DEF IInv, Untorn
  <1>3. ASSUME NEW c \in Client, RootStep(c) PROVE GenInv' /\ FollowInv'
    BY <1>1, <1>2, <1>3, GenRootStep, FollowRootStep
  <1>4. CASE DocCrash
    BY <1>1, <1>2, <1>4, GenOther, FollowCrash
  <1>5. CASE Handle
    BY <1>1, <1>2, <1>5, GenOther, FollowHandle
  <1>6. CASE HandleFails
    BY <1>1, <1>6 DEF HandleFails
  <1>7. CASE UNCHANGED <<vars, docVars>>
    BY <1>1, <1>2, <1>7, GenOther, FollowStutters
  <1> QED
    BY <1>3, <1>4, <1>5, <1>6, <1>7 DEF DocNext

LEMMA OrderInit == DocInit => OrderInv
  <1> SUFFICES ASSUME DocInit PROVE GenInv /\ Linked
    BY DEF OrderInv, FollowInv
  <1>1. \A c \in Client : ~At(c, "unlocked") /\ ~Writing(c) /\ ~Live(c)
    BY DEF DocInit, Init, Idle, At, Writing, Live
  <1>2. Generation = 0 /\ newest = 0 /\ Committed = NoFile
    BY <1>1 DEF DocInit, Init, Generation, generationFromFileSize, LineSize, Committed
  <1>3. GenInv
    BY <1>1, <1>2 DEF GenInv
  <1>4. PICK at \in [Nat -> Content] : \A g \in Nat : at[g] = NoFile
    <2>1. [g \in Nat |-> NoFile] \in [Nat -> Content]
      BY DEF Content
    <2> QED
      BY <2>1
  <1>5. Ordered(at)
    BY <1>1, <1>2, <1>4 DEF Ordered, Pending
  <1>6. Followed(at[newest])
    <2>1. told = Docs(at[0])
      BY <1>4, HashAssumption DEF DocInit, Docs
    <2>2. Len(queue) = 0
      BY DEF DocInit
    <2> QED
      BY <1>2, <2>1, <2>2 DEF Followed
  <1> QED
    BY <1>3, <1>5, <1>6 DEF Linked

(* A listener that follows the events knows the library, updates included,  *)
(* for every number of clients, commits and documents.                      *)
THEOREM ListenersKnow == DocSpec => []FollowersKnow
  <1>1. DocSpec => []OrderInv
    BY OrderInit, OrderInvariance, DocInvariant, DocumentInvariant, PTL DEF DocSpec
  <1>2. IInv /\ DocInv /\ OrderInv => FollowersKnow
    <2> SUFFICES ASSUME IInv, DocInv, OrderInv, Settled, Complete, ~crossed PROVE told = Docs(root)
      BY DEF FollowersKnow
    <2>1. \A c \in Client : ~Writing(c) /\ ~At(c, "unlocked")
      BY DEF Settled, Writing, At
    <2>2. Committed = root /\ Made = Generation /\ GenInv /\ Generation \in Nat
      BY <2>1, GenerationType DEF Committed, Made, OrderInv, IInv
    <2>3. PICK at \in [Nat -> Content] : Ordered(at) /\ Followed(at[newest])
      BY <2>1 DEF OrderInv, FollowInv, Doomed, Pending, Linked
    <2>4. newest \in Nat /\ Len(queue) = 0
      BY DEF DocInv, DocTypeOK, Settled
    <2>5. at[newest] = at[Generation] /\ at[Generation] = root
      BY <2>1, <2>2, <2>3, <2>4 DEF Ordered, GenInv, Pending
    <2> QED
      BY <2>3, <2>4, <2>5 DEF Followed
  <1> QED
    BY <1>1, <1>2, DocInvariant, DocumentInvariant, PTL
=============================================================================
