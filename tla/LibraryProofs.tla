----------------------------- MODULE LibraryProofs -----------------------------
(***************************************************************************)
(* What is proved of Library, for any users and documents, and any number  *)
(* of workers, jobs, changes, crashes and failures.                        *)
(***************************************************************************)
EXTENDS Library, FiniteSetTheorems, SequenceTheorems, TLAPS

DocType == [at : {"library", "trash", "gone"}, ver : Nat \ {0}]
PageType == [ver : Nat, pages : Nat]
RowType == [id : Nat, ver : Nat, pdf : BOOLEAN]
FileType == [id : Nat, ext : {"rmdoc", "pdf"}, ver : Nat]
BackupType == [doc : Doc, ver : Nat]

(* Where a job has a document at hand, and where its loop has begun.        *)
Capture == {"pdf", "relist", "recheck", "add"}
AtDocument == Kinds \cup Capture \cup {"store", "mark", "discard", "trim", "unlink"}
Loop == AtDocument \cup {"next", "prune", "unindex"}

Versions == UNION {[S -> Nat] : S \in SUBSET Doc}
Which == Doc \cup {None}

LoopJob == [pc : Loop, kind : Kinds, only : Which, todo : SUBSET Doc, live : SUBSET Doc,
            doc : Which, got : Nat, ver : Versions, retain : Nat, daily : BOOLEAN]

JobType ==
    {Idle} \cup [pc : {"list"}, kind : Kinds, only : Which]
    \cup [pc : {"versions"}, kind : Kinds, only : Which, todo : SUBSET Doc]
    \cup LoopJob

Typed ==
    /\ doc \in [User -> [Doc -> DocType]]
    /\ DOMAIN job = User /\ \A u \in User : job[u] \in JobType \/ job[u].pc = "finish"
    /\ index \in [User -> [Doc -> {None} \cup PageType]]
    /\ snaps \in [User -> [Doc -> Seq(RowType)]]
    /\ files \in [User -> SUBSET FileType] /\ \A u \in User : IsFiniteSet(files[u])
    /\ exported \in [User -> [Doc -> Nat]]
    /\ backups \in [User -> SUBSET BackupType]

(* A job knows no version that was not there before: a document of sync15   *)
(* only gets newer.                                                         *)
KnowsPast(u) ==
    job[u].pc \in Loop =>
        /\ job[u].todo \cup job[u].live \subseteq DOMAIN job[u].ver
        /\ job[u].pc \in AtDocument => job[u].doc \in job[u].live
        /\ job[u].pc = "unindex" => job[u].doc \in Doc
        /\ u \in Sync15 => \A d \in DOMAIN job[u].ver : job[u].ver[d] <= doc[u][d].ver

(* For a user of sync15: content no older than low, and no newer than now. *)
Between(u, low, v, d) == u \in Sync15 => low <= v /\ v <= d.ver

(* Not in the library, or there with something newer, or of a version that  *)
(* tells nothing.                                                           *)
Passed(u, d) ==
    u \notin Sync15 \/ doc[u][d].at # "library" \/ index[u][d].ver < doc[u][d].ver

IndexOK(u) == \A d \in Doc :
    index[u][d] # None =>
        /\ u \in Sync15 => index[u][d].ver <= doc[u][d].ver
        /\ IF index[u][d].pages = 0 THEN u \in cut \/ Passed(u, d)
           ELSE Between(u, index[u][d].ver, index[u][d].pages, doc[u][d])

Seen(u) == IF At(u, "versions") THEN job[u].todo ELSE job[u].todo \cup job[u].live

(* What a job is about to put into the index, and to take out of it.        *)
IndexingOK(u) ==
    /\ At(u, "store") =>
          (u \in Sync15 => job[u].got # 0) /\ Between(u, Version(u), job[u].got, doc[u][job[u].doc])
    /\ u \notin cut =>
          /\ job[u].pc \in {"prune", "unindex"} => job[u].todo = {}
          /\ job[u].pc \in Loop \cup {"versions"} =>
                \A d \in Doc \ Seen(u) : index[u][d] # None => Passed(u, d)

HasFiles(u, row) ==
    /\ \E f \in FilesOf(u, row.id) : f.ext = "rmdoc"
    /\ row.pdf => \E f \in FilesOf(u, row.id) : f.ext = "pdf"
    /\ u \in Sync15 /\ row.ver # 0 => \A f \in FilesOf(u, row.id) : f.ver = row.ver

(* Which ID is in which row.                                                *)
RowsOK(u) ==
    /\ \A d \in Doc : \A i \in DOMAIN snaps[u][d] : HasFiles(u, snaps[u][d][i])
    /\ \A d, e \in Doc : \A i \in DOMAIN snaps[u][d], k \in DOMAIN snaps[u][e] :
          snaps[u][d][i].id = snaps[u][e][k].id => d = e /\ i = k

(* The ID of a capture is in no row, and its files hold a version between   *)
(* the one of the inventory and the present one, or the recorded one.       *)
Unused(u) == \A d \in Doc : \A i \in DOMAIN snaps[u][d] : snaps[u][d][i].id # job[u].got

CaptureOK(u) ==
    /\ job[u].pc \in Capture \cup {"discard", "unlink"} => Unused(u)
    /\ job[u].pc \in Capture =>
          /\ \E f \in FilesOf(u, job[u].got) : f.ext = "rmdoc"
          /\ \A f \in FilesOf(u, job[u].got) :
                /\ Between(u, Version(u), f.ver, doc[u][job[u].doc])
                /\ At(u, "add") /\ u \in Sync15 /\ Version(u) # 0 => f.ver = Version(u)

(* What is noted as exported is backed up, as it was then or newer.         *)
HasBackup(u, d, low) ==
    \E b \in backups[u] : b.doc = d /\ Between(u, low, b.ver, doc[u][d])

BackupsOK(u) ==
    /\ \A d \in Doc : exported[u][d] # 0 => HasBackup(u, d, exported[u][d])
    /\ At(u, "mark") => HasBackup(u, job[u].doc, Version(u))

UserOK(u) ==
    /\ KnowsPast(u)
    /\ IndexOK(u) /\ IndexingOK(u)
    /\ RowsOK(u) /\ CaptureOK(u)
    /\ BackupsOK(u)

(* Each running job has a run of its own and a worker.                      *)
Busy == {u \in User : job[u] # Idle}

RunsOK ==
    /\ open \in [User -> Nat] /\ slots = Cardinality(Busy)
    /\ server \in {"up", "stopping", "down"} /\ (server = "down" => Busy = {})
    /\ \A u \in User :
          /\ job[u] # Idle => open[u] > 0
          /\ server # "down" /\ job[u] = Idle /\ open[u] > 0 => u \in unsaved
          /\ job[u] # Idle /\ open[u] > 1 => u \in unsaved

Inv == Typed /\ RunsOK /\ \A u \in User : UserOK(u)

-----------------------------------------------------------------------------
(* The actions by what they leave alone.                                    *)

Same(u) ==
    /\ doc'[u] = doc[u] /\ job'[u] = job[u] /\ index'[u] = index[u]
    /\ snaps'[u] = snaps[u] /\ files'[u] = files[u]
    /\ exported'[u] = exported[u] /\ backups'[u] = backups[u]
    /\ (u \in cut' <=> u \in cut)

LEMMA SameOK == ASSUME NEW u, UserOK(u), Same(u) PROVE UserOK(u)'
<1>1. KnowsPast(u)'
  BY DEF UserOK, Same, KnowsPast
<1>2. IndexOK(u)' /\ IndexingOK(u)'
  BY DEF UserOK, Same, IndexOK, IndexingOK, Seen, At, Passed, Version
<1>3. RowsOK(u)' /\ CaptureOK(u)'
  BY DEF UserOK, Same, RowsOK, HasFiles, CaptureOK, Unused, At, Version, FilesOf
<1>4. BackupsOK(u)'
  BY DEF UserOK, Same, BackupsOK, HasBackup, At, Version
<1> QED
  BY <1>1, <1>2, <1>3, <1>4 DEF UserOK

LEMMA LabelFacts ==
    /\ Kinds \subseteq AtDocument /\ Capture \subseteq AtDocument /\ AtDocument \subseteq Loop
    /\ "idle" \notin Loop /\ "list" \notin Loop /\ "versions" \notin Loop /\ "finish" \notin Loop
    /\ {"next", "prune", "unindex"} \cap AtDocument = {}
BY DEF Kinds, Capture, AtDocument, Loop

(* What the label of a job tells of its shape.                              *)
LEMMA JobFacts ==
    ASSUME Typed, NEW u \in User
    PROVE  /\ job[u] = Idle => job[u].pc = "idle"
           /\ job[u].pc = "idle" => job[u] = Idle
           /\ job[u].pc = "list" => job[u] \in [pc : {"list"}, kind : Kinds, only : Which]
           /\ job[u].pc = "versions" =>
                 job[u] \in [pc : {"versions"}, kind : Kinds, only : Which, todo : SUBSET Doc]
           /\ job[u].pc \in Loop => job[u] \in LoopJob
           /\ job[u].pc \in {"idle", "list", "versions", "finish"} \cup Loop
<1>1. job[u] \in JobType \/ job[u].pc = "finish"
  BY DEF Typed
<1>2. CASE job[u].pc = "finish"
  BY <1>2, LabelFacts DEF Idle
<1>3. CASE job[u] = Idle
  BY <1>3, LabelFacts DEF Idle
<1>4. CASE job[u] \in [pc : {"list"}, kind : Kinds, only : Which]
  BY <1>4, LabelFacts DEF Idle
<1>5. CASE job[u] \in [pc : {"versions"}, kind : Kinds, only : Which, todo : SUBSET Doc]
  BY <1>5, LabelFacts DEF Idle
<1>6. CASE job[u] \in LoopJob
  BY <1>6, LabelFacts DEF Idle, LoopJob
<1> QED
  BY <1>1, <1>2, <1>3, <1>4, <1>5, <1>6 DEF JobType

LEMMA LoopFacts ==
    ASSUME Typed, NEW u \in User, UserOK(u), job[u].pc \in Loop
    PROVE  /\ job[u] \in LoopJob
           /\ job[u].ver \in [DOMAIN job[u].ver -> Nat] /\ DOMAIN job[u].ver \subseteq Doc
           /\ job[u].todo \subseteq DOMAIN job[u].ver /\ job[u].live \subseteq DOMAIN job[u].ver
           /\ \A d \in DOMAIN job[u].ver :
                 /\ job[u].ver[d] \in Nat
                 /\ u \in Sync15 => job[u].ver[d] <= doc[u][d].ver
           /\ job[u].pc \in AtDocument =>
                 /\ job[u].doc \in job[u].live /\ job[u].doc \in Doc
                 /\ job[u].doc \in DOMAIN job[u].ver
                 /\ Version(u) \in Nat
<1>1. job[u] \in LoopJob
  BY JobFacts
<1>2. PICK S \in SUBSET Doc : job[u].ver \in [S -> Nat]
  BY <1>1 DEF LoopJob, Versions
<1> QED
  BY <1>1, <1>2 DEF UserOK, KnowsPast, Version

LEMMA DocFacts ==
    ASSUME Typed, NEW u \in User, NEW d \in Doc
    PROVE  /\ doc[u][d] \in DocType
           /\ doc[u][d].ver \in Nat /\ doc[u][d].ver # 0
           /\ VersionOf(u, d) \in Nat
           /\ VersionOf(u, d) # 0 => VersionOf(u, d) = doc[u][d].ver /\ doc[u][d].at # "gone"
           /\ VersionOf(u, d) <= doc[u][d].ver
           /\ index[u][d] # None => index[u][d] \in PageType
           /\ snaps[u][d] \in Seq(RowType)
           /\ exported[u][d] \in Nat
<1>1. doc[u][d] \in DocType
  BY DEF Typed
<1>2. doc[u][d].ver \in Nat /\ doc[u][d].ver # 0
  BY <1>1 DEF DocType
<1> QED
  BY <1>1, <1>2 DEF Typed, VersionOf

(* A step of a job that leaves the tables alone and promises nothing of     *)
(* files and backups.                                                       *)
LEMMA QuietStep ==
    ASSUME NEW u \in User, UserOK(u), doc' = doc, UNCHANGED tables, u \in cut => u \in cut',
           KnowsPast(u)', IndexingOK(u)',
           job'[u].pc \notin Capture \cup {"discard", "unlink", "mark"}
    PROVE  UserOK(u)'
<1>1. IndexOK(u)'
  BY DEF UserOK, tables, IndexOK, Passed
<1>2. RowsOK(u)'
  BY DEF UserOK, tables, RowsOK, HasFiles, FilesOf
<1>3. CaptureOK(u)'
  BY DEF CaptureOK
<1>4. BackupsOK(u)'
  BY DEF UserOK, tables, BackupsOK, HasBackup, At
<1> QED
  BY <1>1, <1>2, <1>3, <1>4 DEF UserOK

(* The record of a job in its loop, with another label.                     *)
LEMMA WithLabel ==
    ASSUME Typed, NEW u \in User, job[u].pc \in Loop, NEW label, Goto(u, label)
    PROVE  /\ job'[u] = [job[u] EXCEPT !.pc = label]
           /\ DOMAIN job' = User /\ \A v \in User \ {u} : job'[v] = job[v]
           /\ job'[u].pc = label
           /\ job'[u].kind = job[u].kind /\ job'[u].only = job[u].only
           /\ job'[u].todo = job[u].todo /\ job'[u].live = job[u].live
           /\ job'[u].doc = job[u].doc /\ job'[u].got = job[u].got
           /\ job'[u].ver = job[u].ver /\ job'[u].retain = job[u].retain
           /\ job'[u].daily = job[u].daily
           /\ label \in Loop => job'[u] \in LoopJob
<1>1. job[u] \in LoopJob
  BY JobFacts
<1>2. DOMAIN job = User
  BY DEF Typed
<1>3. job'[u] = [job[u] EXCEPT !.pc = label]
  BY <1>2 DEF Goto
<1>4. DOMAIN job' = User /\ \A v \in User \ {u} : job'[v] = job[v]
  BY <1>2 DEF Goto
<1>5. /\ job'[u].pc = label /\ job'[u].kind = job[u].kind /\ job'[u].only = job[u].only
      /\ job'[u].todo = job[u].todo /\ job'[u].live = job[u].live
  BY <1>1, <1>3 DEF LoopJob
<1>6. /\ job'[u].doc = job[u].doc /\ job'[u].got = job[u].got /\ job'[u].ver = job[u].ver
      /\ job'[u].retain = job[u].retain /\ job'[u].daily = job[u].daily
  BY <1>1, <1>3 DEF LoopJob
<1>7. ASSUME label \in Loop PROVE job'[u] \in LoopJob
  BY <1>1, <1>3, <1>7 DEF LoopJob
<1> QED
  BY <1>3, <1>4, <1>5, <1>6, <1>7

LEMMA NextFacts ==
    ASSUME Typed, NEW u \in User, job[u].pc \in Loop, NextDocument(u)
    PROVE  /\ DOMAIN job' = User /\ \A v \in User \ {u} : job'[v] = job[v]
           /\ job'[u].pc = "next" /\ job'[u] \in LoopJob
           /\ job'[u].todo = job[u].todo /\ job'[u].live = job[u].live
           /\ job'[u].ver = job[u].ver
<1> DEFINE r1 == [job[u] EXCEPT !.pc = "next"]
           r2 == [r1 EXCEPT !.doc = None]
           r3 == [r2 EXCEPT !.got = 0]
<1>1. job[u] \in LoopJob /\ DOMAIN job = User
  BY JobFacts DEF Typed
<1>2. "next" \in Loop /\ None \in Which
  BY DEF Loop, Which
<1>3. /\ r1 \in LoopJob /\ r1.pc = "next"
      /\ r1.todo = job[u].todo /\ r1.live = job[u].live /\ r1.ver = job[u].ver
  BY <1>1, <1>2 DEF LoopJob
<1> HIDE DEF r1
<1>4. /\ r2 \in LoopJob /\ r2.pc = "next"
      /\ r2.todo = r1.todo /\ r2.live = r1.live /\ r2.ver = r1.ver
  BY <1>2, <1>3 DEF LoopJob
<1> HIDE DEF r2
<1>5. /\ r3 \in LoopJob /\ r3.pc = "next"
      /\ r3.todo = r2.todo /\ r3.live = r2.live /\ r3.ver = r2.ver
  BY <1>4 DEF LoopJob
<1>6. job'[u] = r3
  BY <1>1 DEF NextDocument, r1, r2
<1>7. DOMAIN job' = User /\ \A v \in User \ {u} : job'[v] = job[v]
  BY <1>1 DEF NextDocument
<1> QED
  BY <1>3, <1>4, <1>5, <1>6, <1>7

(* The job goes on to the next document, or ends.                           *)
LEMMA ToNext ==
    ASSUME Typed, NEW u \in User, UserOK(u), job[u].pc \in Loop, NextDocument(u),
           doc' = doc, UNCHANGED <<tables, cut>>
    PROVE  UserOK(u)'
<1>1. /\ job'[u].pc = "next" /\ job'[u].todo = job[u].todo /\ job'[u].live = job[u].live
      /\ job'[u].ver = job[u].ver
  BY NextFacts
<1>2. KnowsPast(u)'
  BY <1>1, LabelFacts DEF KnowsPast, UserOK
<1>3. job[u].pc # "versions" /\ index' = index
  BY LabelFacts DEF tables
<1>4. IndexingOK(u)'
  BY <1>1, <1>3 DEF IndexingOK, UserOK, Seen, At, Passed
<1> QED
  BY <1>1, <1>2, <1>4, QuietStep DEF Capture

LEMMA ToFinish ==
    ASSUME Typed, NEW u \in User, UserOK(u), job'[u].pc \in {"finish", "idle", "list"},
           doc' = doc, UNCHANGED <<tables, cut>>
    PROVE  UserOK(u)'
<1>1. KnowsPast(u)' /\ IndexingOK(u)'
  BY LabelFacts DEF KnowsPast, IndexingOK, At
<1> QED
  BY <1>1, QuietStep DEF Capture

(* A running job of one user goes on.                                       *)
MovesOn(u) ==
    /\ job[u] # Idle /\ job'[u] # Idle
    /\ job'[u] \in JobType \/ job'[u].pc = "finish"
    /\ DOMAIN job' = User /\ \A v \in User \ {u} : job'[v] = job[v]

LEMMA LabelMoves ==
    ASSUME Typed, NEW u \in User, job[u].pc \in Loop,
           NEW label \in Loop \cup {"finish"}, Goto(u, label)
    PROVE  MovesOn(u)
<1>1. job'[u].pc = label /\ (label \in Loop => job'[u] \in LoopJob)
  BY WithLabel
<1>2. DOMAIN job' = User /\ \A v \in User \ {u} : job'[v] = job[v]
  BY WithLabel
<1>3. job[u] # Idle /\ job'[u] # Idle
  BY <1>1, LabelFacts DEF Idle
<1> QED
  BY <1>1, <1>2, <1>3 DEF MovesOn, JobType

LEMMA NextMoves ==
    ASSUME Typed, NEW u \in User, job[u].pc \in Loop, NextDocument(u)
    PROVE  MovesOn(u)
<1>1. job'[u].pc = "next" /\ job'[u] \in LoopJob
  BY NextFacts
<1>2. DOMAIN job' = User /\ \A v \in User \ {u} : job'[v] = job[v]
  BY NextFacts
<1>3. job[u] # Idle /\ job'[u] # Idle
  BY <1>1, LabelFacts DEF Idle
<1> QED
  BY <1>1, <1>2, <1>3 DEF MovesOn, JobType

-----------------------------------------------------------------------------
(* The inventory and the loop.                                              *)

LEMMA InventorySteps ==
    ASSUME Typed, NEW u \in User, UserOK(u),
           List(u) \/ ListNothing(u) \/ ReadVersions(u) \/ InventoryFails(u)
    PROVE  UserOK(u)' /\ MovesOn(u)
<1>1. DOMAIN job = User /\ Listed(u) \subseteq Doc
  BY DEF Typed, Listed
<1>2. ASSUME NEW S \in SUBSET Doc, Lists(u, S),
             (cut' = cut /\ S = Listed(u)) \/ cut' = cut \cup {u}
      PROVE  UserOK(u)' /\ MovesOn(u)
  <2> DEFINE new == [pc |-> "versions", kind |-> job[u].kind, only |-> job[u].only, todo |-> S]
  <2>1. job[u] \in [pc : {"list"}, kind : Kinds, only : Which]
    BY <1>2, JobFacts DEF Lists, At
  <2>2. job'[u] = new /\ DOMAIN job' = User /\ \A v \in User \ {u} : job'[v] = job[v]
    BY <1>1, <1>2 DEF Lists
  <2>3. doc' = doc /\ UNCHANGED tables /\ index' = index /\ (u \in cut => u \in cut')
    BY <1>2 DEF Lists, tables
  <2>4. new \in JobType /\ new # Idle
    BY <2>1 DEF JobType, Idle
  <2>5. KnowsPast(u)'
    BY <2>2, LabelFacts DEF KnowsPast
  <2>6. IndexingOK(u)'
    <3>1. u \notin cut' => \A d \in Doc \ S : doc[u][d].at # "library"
      BY <1>2 DEF Listed
    <3> QED
      BY <2>2, <2>3, <3>1 DEF IndexingOK, At, Seen, Passed
  <2>7. UserOK(u)'
    BY <2>2, <2>3, <2>5, <2>6, QuietStep DEF Capture
  <2> QED
    BY <2>1, <2>2, <2>4, <2>7 DEF Idle, MovesOn
<1>3. CASE ReadVersions(u)
  <2>1. job[u] \in [pc : {"versions"}, kind : Kinds, only : Which, todo : SUBSET Doc]
    BY <1>3, JobFacts DEF ReadVersions, At
  <2>0. PICK told \in {TRUE, ~SeesNothing(u)} :
           \E retain \in (IF job[u].kind = "snapshots" THEN Retain ELSE {0}),
              daily \in (IF job[u].kind = "backup" THEN BOOLEAN ELSE {TRUE}) :
              job' = [job EXCEPT ![u] =
                        [pc |-> "next", kind |-> job[u].kind, only |-> job[u].only,
                         todo |-> job[u].todo, live |-> {}, doc |-> None, got |-> 0,
                         ver |-> [d \in job[u].todo |-> IF told THEN VersionOf(u, d) ELSE 0],
                         retain |-> retain, daily |-> daily]]
    BY <1>3 DEF ReadVersions
  <2> DEFINE ver == [d \in job[u].todo |-> IF told THEN VersionOf(u, d) ELSE 0]
  <2>2. PICK retain \in (IF job[u].kind = "snapshots" THEN Retain ELSE {0}),
             daily \in (IF job[u].kind = "backup" THEN BOOLEAN ELSE {TRUE}) :
           job' = [job EXCEPT ![u] =
                      [pc |-> "next", kind |-> job[u].kind, only |-> job[u].only,
                       todo |-> job[u].todo, live |-> {}, doc |-> None, got |-> 0,
                       ver |-> ver, retain |-> retain, daily |-> daily]]
    BY <2>0
  <2> DEFINE new == [pc |-> "next", kind |-> job[u].kind, only |-> job[u].only,
                     todo |-> job[u].todo, live |-> {}, doc |-> None, got |-> 0,
                     ver |-> ver, retain |-> retain, daily |-> daily]
  <2>3. job'[u] = new /\ DOMAIN job' = User /\ \A v \in User \ {u} : job'[v] = job[v]
    BY <1>1, <2>2
  <2>4. doc' = doc /\ UNCHANGED tables /\ cut' = cut /\ index' = index
    BY <1>3 DEF ReadVersions, tables, observed
  <2>5. retain \in Nat /\ daily \in BOOLEAN
    <3>1. retain \in Nat
      BY RetainAssumption
    <3>2. CASE job[u].kind = "backup"
      BY <3>1, <3>2, Zenon
    <3>3. CASE job[u].kind # "backup"
      <4>1. daily = TRUE
        BY <3>3, Zenon
      <4> QED
        BY <3>1, <4>1, Zenon
    <3> QED
      BY <3>2, <3>3
  <2>6. job[u].todo \in SUBSET Doc /\ \A d \in job[u].todo : VersionOf(u, d) \in Nat
    BY <2>1, DocFacts
  <2>7. ver \in [job[u].todo -> Nat]
    BY <2>6
  <2>8. ver \in Versions
    BY <2>6, <2>7 DEF Versions
  <2>9. new \in LoopJob /\ new # Idle
    <3> HIDE DEF ver
    <3>1. "next" \in Loop /\ None \in Which
      BY DEF Loop, Which
    <3>2. new \in LoopJob
      BY <2>1, <2>5, <2>6, <2>8, <3>1 DEF LoopJob
    <3> QED
      BY <3>2 DEF Idle
  <2>10. \A d \in job[u].todo : ver[d] <= doc[u][d].ver
    BY <2>6, DocFacts
  <2>11. DOMAIN ver = job[u].todo
    OBVIOUS
  <2> HIDE DEF ver
  <2>12. KnowsPast(u)'
    BY <2>3, <2>4, <2>10, <2>11, LabelFacts DEF KnowsPast
  <2>13. IndexingOK(u)'
    <3>1. Seen(u)' = Seen(u)
      BY <1>3, <2>3 DEF Seen, At, ReadVersions
    <3>2. job[u].pc = "versions"
      BY <1>3 DEF ReadVersions, At
    <3> QED
      BY <2>3, <2>4, <3>1, <3>2 DEF IndexingOK, UserOK, At, Passed
  <2>14. UserOK(u)'
    BY <2>3, <2>4, <2>12, <2>13, QuietStep DEF Capture
  <2> QED
    BY <2>1, <2>3, <2>9, <2>14 DEF JobType, Idle, MovesOn
<1>4. CASE InventoryFails(u)
  <2>1. job[u].pc \in {"list", "versions"}
    BY <1>4 DEF InventoryFails, At
  <2>2. job'[u].pc = "finish"
    BY <1>1, <1>4, <2>1, JobFacts DEF InventoryFails, Goto
  <2>3. DOMAIN job' = User /\ \A v \in User \ {u} : job'[v] = job[v]
    BY <1>1, <1>4 DEF InventoryFails, Goto
  <2>4. doc' = doc /\ UNCHANGED <<tables, cut>>
    BY <1>4 DEF InventoryFails, tables, observed
  <2> QED
    BY <2>1, <2>2, <2>3, <2>4, ToFinish DEF Idle, MovesOn
<1>5. CASE List(u)
  BY <1>1, <1>2, <1>5 DEF List
<1>6. CASE ListNothing(u)
  BY <1>2, <1>6 DEF ListNothing
<1> QED
  BY <1>3, <1>4, <1>5, <1>6

LEMMA VisitFacts ==
    ASSUME Typed, NEW u \in User, UserOK(u), Visit(u)
    PROVE  \E d \in job[u].todo :
              /\ job[u].pc = "next" /\ job'[u] \in LoopJob
              /\ job'[u].todo = job[u].todo \ {d} /\ job'[u].live = job[u].live \cup {d}
              /\ job'[u].ver = job[u].ver
              /\ \/ job'[u].pc \in Kinds /\ job'[u].doc = d
                 \/ job'[u].pc = "next"
              /\ DOMAIN job' = User /\ \A v \in User \ {u} : job'[v] = job[v]
<1>1. job[u].pc = "next" /\ "next" \in Loop
  BY DEF Visit, At, Loop
<1>2. PICK d \in job[u].todo :
         job' = [job EXCEPT ![u].todo = @ \ {d},
                            ![u].live = @ \cup {d},
                            ![u].doc = IF Wanted(u, d) THEN d ELSE None,
                            ![u].pc = IF Wanted(u, d) THEN job[u].kind ELSE "next"]
  BY DEF Visit
<1> DEFINE r1 == [job[u] EXCEPT !.todo = job[u].todo \ {d}]
           r2 == [r1 EXCEPT !.live = r1.live \cup {d}]
           r3 == [r2 EXCEPT !.doc = IF Wanted(u, d) THEN d ELSE None]
           r4 == [r3 EXCEPT !.pc = IF Wanted(u, d) THEN job[u].kind ELSE "next"]
<1>3. job[u] \in LoopJob /\ DOMAIN job = User /\ job[u].todo \subseteq Doc
  BY <1>1, JobFacts DEF Typed, LoopJob
<1>4. job'[u] = r4 /\ DOMAIN job' = User /\ \A v \in User \ {u} : job'[v] = job[v]
  BY <1>2, <1>3
<1>5. /\ r1 \in LoopJob /\ r1.todo = job[u].todo \ {d} /\ r1.live = job[u].live
      /\ r1.ver = job[u].ver
  BY <1>3 DEF LoopJob
<1> HIDE DEF r1
<1>6. r2 \in LoopJob /\ r2.todo = r1.todo /\ r2.live = r1.live \cup {d} /\ r2.ver = r1.ver
  BY <1>3, <1>5 DEF LoopJob
<1> HIDE DEF r2
<1>7. /\ r3 \in LoopJob /\ r3.todo = r2.todo /\ r3.live = r2.live /\ r3.ver = r2.ver
      /\ r3.doc = IF Wanted(u, d) THEN d ELSE None
  BY <1>3, <1>6 DEF LoopJob, Which
<1> HIDE DEF r3
<1>8. (IF Wanted(u, d) THEN job[u].kind ELSE "next") \in Kinds \cup {"next"}
  BY <1>3 DEF LoopJob
<1>9. /\ r4 \in LoopJob /\ r4.todo = r3.todo /\ r4.live = r3.live /\ r4.ver = r3.ver
      /\ r4.doc = r3.doc /\ r4.pc = IF Wanted(u, d) THEN job[u].kind ELSE "next"
  BY <1>1, <1>7, <1>8, LabelFacts DEF LoopJob
<1>10. \/ r4.pc \in Kinds /\ r4.doc = d
       \/ r4.pc = "next"
  BY <1>3, <1>7, <1>9 DEF LoopJob
<1> HIDE DEF r4
<1> QED
  BY <1>1, <1>4, <1>5, <1>6, <1>7, <1>9, <1>10

LEMMA VisitStep ==
    ASSUME Typed, NEW u \in User, UserOK(u), Visit(u)
    PROVE  UserOK(u)' /\ MovesOn(u)
<1>1. PICK d \in job[u].todo :
         /\ job[u].pc = "next" /\ job'[u] \in LoopJob
         /\ job'[u].todo = job[u].todo \ {d} /\ job'[u].live = job[u].live \cup {d}
         /\ job'[u].ver = job[u].ver
         /\ \/ job'[u].pc \in Kinds /\ job'[u].doc = d
            \/ job'[u].pc = "next"
         /\ DOMAIN job' = User /\ \A v \in User \ {u} : job'[v] = job[v]
  BY VisitFacts
<1>2. doc' = doc /\ UNCHANGED tables /\ cut' = cut /\ index' = index
  BY DEF Visit, tables, observed
<1>3. job[u].pc \in Loop /\ job[u].pc \notin AtDocument /\ job'[u].pc \in Kinds \cup {"next"}
  BY <1>1, LabelFacts DEF Loop
<1>4. KnowsPast(u)'
  BY <1>1, <1>2, <1>3, LabelFacts DEF KnowsPast, UserOK
<1>5. job'[u].pc \notin Capture \cup {"discard", "unlink", "mark", "store", "prune", "unindex", "versions"}
  BY <1>3 DEF Kinds, Capture
<1>6. IndexingOK(u)'
  <2>1. Seen(u)' = Seen(u)
    BY <1>1, <1>5 DEF Seen, At
  <2> QED
    BY <1>2, <1>3, <1>5, <2>1 DEF IndexingOK, UserOK, At, Passed
<1>7. UserOK(u)'
  BY <1>2, <1>4, <1>5, <1>6, QuietStep
<1>8. job[u] # Idle /\ job'[u] # Idle
  BY <1>1, <1>3, LabelFacts DEF Idle
<1> QED
  BY <1>1, <1>7, <1>8 DEF MovesOn, JobType

LEMMA InterruptStep ==
    ASSUME Typed, NEW u \in User, UserOK(u), Interrupt(u)
    PROVE  UserOK(u)' /\ MovesOn(u)
<1>1. job[u].pc = "next" /\ "next" \in Loop /\ "prune" \in Loop
  BY DEF Interrupt, At, Loop
<1>2. PICK d \in job[u].todo :
         job' = [job EXCEPT ![u].todo = {}, ![u].live = @ \cup {d}, ![u].pc = "prune"]
  BY DEF Interrupt
<1> DEFINE r1 == [job[u] EXCEPT !.todo = {}]
           r2 == [r1 EXCEPT !.live = r1.live \cup {d}]
           r3 == [r2 EXCEPT !.pc = "prune"]
<1>3. job[u] \in LoopJob /\ DOMAIN job = User /\ job[u].todo \subseteq Doc
  BY <1>1, JobFacts DEF Typed, LoopJob
<1>4. job'[u] = r3 /\ DOMAIN job' = User /\ \A v \in User \ {u} : job'[v] = job[v]
  BY <1>2, <1>3
<1>5. r1 \in LoopJob /\ r1.todo = {} /\ r1.live = job[u].live /\ r1.ver = job[u].ver
  BY <1>3 DEF LoopJob
<1> HIDE DEF r1
<1>6. r2 \in LoopJob /\ r2.todo = r1.todo /\ r2.live = r1.live \cup {d} /\ r2.ver = r1.ver
  BY <1>3, <1>5 DEF LoopJob
<1> HIDE DEF r2
<1>7. /\ r3 \in LoopJob /\ r3.todo = r2.todo /\ r3.live = r2.live /\ r3.ver = r2.ver
      /\ r3.pc = "prune"
  BY <1>1, <1>6 DEF LoopJob
<1> HIDE DEF r3
<1>8. doc' = doc /\ UNCHANGED tables /\ u \in cut'
  BY DEF Interrupt, tables
<1>9. "prune" \notin AtDocument \cup {"unindex", "store"}
  BY LabelFacts
<1>10. KnowsPast(u)'
  BY <1>1, <1>4, <1>5, <1>6, <1>7, <1>8, <1>9 DEF KnowsPast, UserOK
<1>11. IndexingOK(u)'
  BY <1>4, <1>7, <1>8 DEF IndexingOK, At
<1>12. UserOK(u)'
  BY <1>4, <1>7, <1>8, <1>10, <1>11, QuietStep DEF Capture
<1>13. job[u] # Idle /\ job'[u] # Idle
  BY <1>1, <1>4, <1>7 DEF Idle
<1> QED
  BY <1>4, <1>7, <1>12, <1>13 DEF MovesOn, JobType

LEMMA LoopEndsStep ==
    ASSUME Typed, NEW u \in User, UserOK(u), LoopEnds(u)
    PROVE  UserOK(u)' /\ MovesOn(u)
<1>1. job[u].pc = "next" /\ job[u].todo = {} /\ Goto(u, "prune")
  BY DEF LoopEnds, At
<1>2. job[u].pc \in Loop /\ "prune" \in Loop
  BY <1>1 DEF Loop
<1>3. /\ job'[u].pc = "prune" /\ job'[u].todo = job[u].todo /\ job'[u].live = job[u].live
      /\ job'[u].ver = job[u].ver
  BY <1>1, <1>2, WithLabel
<1>4. doc' = doc /\ UNCHANGED tables /\ cut' = cut /\ index' = index
  BY DEF LoopEnds, tables, observed
<1>5. KnowsPast(u)'
  BY <1>2, <1>3, <1>4, LabelFacts DEF KnowsPast, UserOK
<1>6. IndexingOK(u)'
  BY <1>1, <1>2, <1>3, <1>4, LabelFacts DEF IndexingOK, UserOK, At, Seen, Passed
<1>7. UserOK(u)'
  BY <1>3, <1>4, <1>5, <1>6, QuietStep DEF Capture
<1> QED
  BY <1>1, <1>2, <1>7, LabelMoves

(* The job is done with a document, or with the loop.                       *)
LEMMA SkippingSteps ==
    ASSUME Typed, NEW u \in User, UserOK(u),
           Return(u) \/ PruneEnds(u) \/ TrimEnds(u) \/ StatementFails(u)
    PROVE  UserOK(u)' /\ MovesOn(u)
<1>1. doc' = doc /\ UNCHANGED <<tables, cut>>
  BY DEF Return, PruneEnds, TrimEnds, StatementFails, tables, observed
<1>2. job[u].pc \in Loop
  <2>1. Kinds \cup {"prune", "trim", "store", "mark", "unindex"} \subseteq Loop
    BY DEF Loop, AtDocument
  <2> QED
    BY <2>1 DEF Return, PruneEnds, TrimEnds, StatementFails, At
<1>3. CASE NextDocument(u)
  BY <1>1, <1>2, <1>3, ToNext, NextMoves
<1>4. CASE Goto(u, "finish")
  <2>1. job'[u].pc = "finish"
    BY <1>2, <1>4, WithLabel
  <2> QED
    BY <1>1, <1>2, <1>4, <2>1, ToFinish, LabelMoves
<1> QED
  BY <1>3, <1>4 DEF Return, PruneEnds, TrimEnds, StatementFails

-----------------------------------------------------------------------------
(* index                                                                    *)

LEMMA ExportStep ==
    ASSUME Typed, NEW u \in User, UserOK(u), Export(u)
    PROVE  UserOK(u)' /\ MovesOn(u)
<1>1. /\ job[u].pc = "index" /\ VersionOf(u, job[u].doc) # 0
      /\ job' = [job EXCEPT ![u].pc = "store", ![u].got = Content(u, job[u].doc)]
  BY DEF Export, At, CanExport
<1>2. job[u].pc \in AtDocument /\ job[u].pc \in Loop /\ "store" \in Loop
  BY <1>1, LabelFacts DEF AtDocument, Kinds, Loop
<1> DEFINE r1 == [job[u] EXCEPT !.pc = "store"]
           r2 == [r1 EXCEPT !.got = Content(u, job[u].doc)]
<1>3. job[u] \in LoopJob /\ DOMAIN job = User
  BY <1>2, JobFacts DEF Typed
<1>4. job'[u] = r2 /\ DOMAIN job' = User /\ \A v \in User \ {u} : job'[v] = job[v]
  BY <1>1, <1>3
<1>5. /\ r1 \in LoopJob /\ r1.pc = "store" /\ r1.todo = job[u].todo /\ r1.live = job[u].live
      /\ r1.ver = job[u].ver /\ r1.doc = job[u].doc
  BY <1>2, <1>3 DEF LoopJob
<1> HIDE DEF r1
<1>6. /\ job[u].doc \in job[u].live /\ job[u].doc \in Doc /\ Version(u) \in Nat
      /\ u \in Sync15 => Version(u) <= doc[u][job[u].doc].ver
  BY <1>2, LoopFacts DEF Version
<1>7. /\ Content(u, job[u].doc) \in Nat
      /\ u \in Sync15 => Content(u, job[u].doc) = doc[u][job[u].doc].ver
      /\ doc[u][job[u].doc].ver \in Nat \ {0}
  BY <1>1, <1>6, DocFacts DEF Content
<1>8. /\ r2 \in LoopJob /\ r2.pc = "store" /\ r2.todo = r1.todo /\ r2.live = r1.live
      /\ r2.ver = r1.ver /\ r2.doc = r1.doc /\ r2.got = Content(u, job[u].doc)
  BY <1>5, <1>7 DEF LoopJob
<1> HIDE DEF r2
<1>9. doc' = doc /\ UNCHANGED tables /\ cut' = cut /\ index' = index
  BY DEF Export, tables, observed
<1>10. KnowsPast(u)'
  BY <1>2, <1>4, <1>5, <1>6, <1>8, <1>9 DEF KnowsPast, UserOK
<1>11. IndexingOK(u)'
  <2>1. Version(u)' = Version(u)
    BY <1>4, <1>5, <1>8 DEF Version
  <2>2. (u \in Sync15 => job'[u].got # 0) /\ Between(u, Version(u)', job'[u].got, doc'[u][job'[u].doc])
    BY <1>4, <1>5, <1>6, <1>7, <1>8, <1>9, <2>1, <1>1 DEF Between
  <2>3. Seen(u)' = Seen(u) /\ job'[u].pc \notin {"prune", "unindex"}
    BY <1>1, <1>4, <1>5, <1>8 DEF Seen, At
  <2> QED
    BY <1>2, <1>9, <2>2, <2>3 DEF IndexingOK, UserOK, At, Passed
<1>12. UserOK(u)'
  BY <1>4, <1>8, <1>9, <1>10, <1>11, QuietStep DEF Capture
<1>13. job[u] # Idle /\ job'[u] # Idle
  <2>1. job[u].pc = "index" /\ job'[u].pc = "store"
    BY <1>1, <1>4, <1>8
  <2> QED
    BY <2>1 DEF Idle
<1>14. job'[u] \in JobType
  BY <1>4, <1>8 DEF JobType
<1> QED
  BY <1>4, <1>12, <1>13, <1>14 DEF MovesOn

(* A step that changes only the index.                                      *)
LEMMA IndexStep ==
    ASSUME NEW u \in User, UserOK(u), doc' = doc, cut' = cut,
           UNCHANGED <<snaps, files, exported, backups>>,
           KnowsPast(u)', IndexOK(u)', IndexingOK(u)',
           job'[u].pc \notin Capture \cup {"discard", "unlink", "mark"}
    PROVE  UserOK(u)'
<1>1. RowsOK(u)'
  BY DEF UserOK, RowsOK, HasFiles, FilesOf
<1>2. CaptureOK(u)'
  BY DEF CaptureOK
<1>3. BackupsOK(u)'
  BY DEF UserOK, BackupsOK, HasBackup, At
<1> QED
  BY <1>1, <1>2, <1>3 DEF UserOK

IndexTyped == index \in [User -> [Doc -> {None} \cup PageType]]

LEMMA StoreStep ==
    ASSUME Typed, NEW u \in User, UserOK(u), Index(u)
    PROVE  /\ UserOK(u)' /\ MovesOn(u) /\ IndexTyped'
           /\ \A v \in User \ {u} : index'[v] = index[v]
<1> DEFINE d == job[u].doc
           row == [ver |-> Version(u), pages |-> job[u].got]
<1>1. /\ job[u].pc = "store" /\ NextDocument(u)
      /\ index' = [index EXCEPT ![u][d] = row]
  BY DEF Index, At
<1>2. job[u].pc \in AtDocument /\ job[u].pc \in Loop
  BY <1>1, LabelFacts DEF AtDocument
<1>3. /\ job'[u].pc = "next" /\ job'[u].todo = job[u].todo /\ job'[u].live = job[u].live
      /\ job'[u].ver = job[u].ver
  BY <1>1, <1>2, NextFacts
<1>4. /\ d \in job[u].live /\ d \in Doc /\ Version(u) \in Nat /\ job[u].got \in Nat
      /\ u \in Sync15 => Version(u) <= doc[u][d].ver
  BY <1>2, LoopFacts DEF Version, LoopJob
<1>5. (u \in Sync15 => job[u].got # 0) /\ Between(u, Version(u), job[u].got, doc[u][d])
  BY <1>1 DEF UserOK, IndexingOK, At
<1>6. row \in PageType /\ row.ver = Version(u) /\ row.pages = job[u].got
  BY <1>4 DEF PageType
<1> HIDE DEF row, d
<1>7. /\ index'[u][d] = row /\ \A e \in Doc \ {d} : index'[u][e] = index[u][e]
      /\ \A v \in User \ {u} : index'[v] = index[v]
  BY <1>1, <1>4 DEF Typed
<1>8. IndexTyped'
  BY <1>1, <1>4, <1>6 DEF Typed, IndexTyped
<1>9. doc' = doc /\ UNCHANGED <<snaps, files, exported, backups>> /\ cut' = cut
  BY DEF Index, observed
<1>10. KnowsPast(u)'
  BY <1>2, <1>3, <1>9, LabelFacts DEF KnowsPast, UserOK
<1>11. IndexOK(u)'
  <2> SUFFICES ASSUME NEW e \in Doc, index'[u][e] # None
               PROVE  /\ u \in Sync15 => index'[u][e].ver <= doc[u][e].ver
                      /\ IF index'[u][e].pages = 0 THEN u \in cut \/ Passed(u, e)'
                         ELSE Between(u, index'[u][e].ver, index'[u][e].pages, doc[u][e])
    BY <1>9 DEF IndexOK, Between
  <2>1. CASE e = d
    <3>1. index'[u][e].pages # 0 \/ Passed(u, e)'
      BY <1>5, <1>6, <1>7, <2>1 DEF Passed
    <3>2. Between(u, index'[u][e].ver, index'[u][e].pages, doc[u][e])
      BY <1>5, <1>6, <1>7, <2>1
    <3>3. u \in Sync15 => index'[u][e].ver <= doc[u][e].ver
      BY <1>4, <1>6, <1>7, <2>1
    <3> QED
      BY <3>1, <3>2, <3>3
  <2>2. CASE e # d
    BY <1>7, <1>9, <2>2 DEF UserOK, IndexOK, Passed
  <2> QED
    BY <2>1, <2>2
<1>12. IndexingOK(u)'
  <2>1. Seen(u)' = Seen(u) /\ d \in Seen(u)
    BY <1>1, <1>3, <1>4 DEF Seen, At
  <2>2. \A e \in Doc \ Seen(u) : index'[u][e] = index[u][e]
    BY <1>7, <2>1
  <2> QED
    BY <1>2, <1>3, <1>9, <2>1, <2>2 DEF IndexingOK, UserOK, At, Passed
<1>13. UserOK(u)'
  BY <1>3, <1>9, <1>10, <1>11, <1>12, IndexStep DEF Capture
<1> QED
  BY <1>1, <1>2, <1>7, <1>8, <1>13, NextMoves

LEMMA PrunePagesStep ==
    ASSUME Typed, NEW u \in User, UserOK(u), PrunePages(u)
    PROVE  /\ UserOK(u)' /\ MovesOn(u) /\ IndexTyped'
           /\ \A v \in User \ {u} : index'[v] = index[v]
<1>1. job[u].pc = "prune" /\ job[u].pc \in Loop /\ "unindex" \in Loop
  BY DEF PrunePages, At, Loop
<1>2. PICK d \in Doc :
         /\ d \notin job[u].live /\ index[u][d] # None
         /\ index' = [index EXCEPT ![u][d].pages = 0]
         /\ job' = [job EXCEPT ![u].doc = d, ![u].pc = "unindex"]
  BY DEF PrunePages, Stale
<1> DEFINE r1 == [job[u] EXCEPT !.doc = d]
           r2 == [r1 EXCEPT !.pc = "unindex"]
           row == [index[u][d] EXCEPT !.pages = 0]
<1>3. job[u] \in LoopJob /\ DOMAIN job = User
  BY <1>1, JobFacts DEF Typed
<1>4. job'[u] = r2 /\ DOMAIN job' = User /\ \A v \in User \ {u} : job'[v] = job[v]
  BY <1>2, <1>3
<1>5. /\ r1 \in LoopJob /\ r1.todo = job[u].todo /\ r1.live = job[u].live
      /\ r1.ver = job[u].ver /\ r1.doc = d
  BY <1>3 DEF LoopJob, Which
<1> HIDE DEF r1
<1>6. /\ r2 \in LoopJob /\ r2.pc = "unindex" /\ r2.todo = r1.todo /\ r2.live = r1.live
      /\ r2.ver = r1.ver /\ r2.doc = r1.doc
  BY <1>1, <1>5 DEF LoopJob
<1> HIDE DEF r2
<1>7. index[u][d] \in PageType
  BY <1>2, DocFacts
<1>8. row \in PageType /\ row.ver = index[u][d].ver /\ row.pages = 0
  BY <1>7 DEF PageType
<1>9. /\ index'[u][d] = row /\ \A e \in Doc \ {d} : index'[u][e] = index[u][e]
      /\ \A v \in User \ {u} : index'[v] = index[v]
  BY <1>2 DEF Typed
<1>10. IndexTyped'
  <2>1. index' = [index EXCEPT ![u] = [index[u] EXCEPT ![d] = row]]
    BY <1>2 DEF Typed
  <2> HIDE DEF row
  <2> QED
    BY <1>8, <2>1 DEF Typed, IndexTyped
<1> HIDE DEF row
<1>11. doc' = doc /\ UNCHANGED <<snaps, files, exported, backups>> /\ cut' = cut
  BY DEF PrunePages, observed
<1>12. KnowsPast(u)'
  BY <1>1, <1>4, <1>5, <1>6, <1>11, LabelFacts DEF KnowsPast, UserOK
<1>13. u \notin cut => job[u].todo = {} /\ Passed(u, d)
  BY <1>1, <1>2 DEF UserOK, IndexingOK, Seen, At
<1>14. \A e \in Doc : /\ Passed(u, e)' <=> Passed(u, e)
                      /\ index'[u][e] # None => index[u][e] # None
  BY <1>2, <1>8, <1>9, <1>11 DEF Passed
<1>15. IndexOK(u)'
  <2> SUFFICES ASSUME NEW e \in Doc, index'[u][e] # None
               PROVE  /\ u \in Sync15 => index'[u][e].ver <= doc[u][e].ver
                      /\ IF index'[u][e].pages = 0 THEN u \in cut \/ Passed(u, e)'
                         ELSE Between(u, index'[u][e].ver, index'[u][e].pages, doc[u][e])
    BY <1>11 DEF IndexOK, Between
  <2>1. CASE e = d
    BY <1>2, <1>8, <1>9, <1>13, <1>14, <2>1 DEF UserOK, IndexOK
  <2>2. CASE e # d
    BY <1>9, <1>14, <2>2 DEF UserOK, IndexOK
  <2> QED
    BY <2>1, <2>2
<1>16. IndexingOK(u)'
  <2>1. Seen(u)' = Seen(u) /\ job[u].pc # "versions" /\ job'[u].pc # "store"
    BY <1>1, <1>4, <1>5, <1>6 DEF Seen, At
  <2> QED
    BY <1>1, <1>4, <1>5, <1>6, <1>11, <1>13, <1>14, <2>1 DEF IndexingOK, UserOK, At
<1>17. UserOK(u)'
  BY <1>4, <1>6, <1>11, <1>12, <1>15, <1>16, IndexStep DEF Capture
<1>18. job[u] # Idle /\ job'[u] # Idle
  BY <1>1, <1>4, <1>6 DEF Idle
<1>19. job'[u] \in JobType
  BY <1>4, <1>6 DEF JobType
<1> QED
  BY <1>4, <1>9, <1>10, <1>17, <1>18, <1>19 DEF MovesOn

LEMMA PruneRowStep ==
    ASSUME Typed, NEW u \in User, UserOK(u), PruneRow(u)
    PROVE  /\ UserOK(u)' /\ MovesOn(u) /\ IndexTyped'
           /\ \A v \in User \ {u} : index'[v] = index[v]
<1> DEFINE d == job[u].doc
           r1 == [job[u] EXCEPT !.pc = "prune"]
           r2 == [r1 EXCEPT !.doc = None]
<1>1. job[u].pc = "unindex" /\ job[u].pc \in Loop /\ "prune" \in Loop
  BY DEF PruneRow, At, Loop
<1>2. job[u] \in LoopJob /\ DOMAIN job = User /\ d \in Doc
  BY <1>1, JobFacts DEF Typed, UserOK, KnowsPast
<1>3. job'[u] = r2 /\ DOMAIN job' = User /\ \A v \in User \ {u} : job'[v] = job[v]
  BY <1>2 DEF PruneRow
<1>4. /\ r1 \in LoopJob /\ r1.todo = job[u].todo /\ r1.live = job[u].live
      /\ r1.ver = job[u].ver /\ r1.pc = "prune"
  BY <1>1, <1>2 DEF LoopJob
<1> HIDE DEF r1
<1>5. /\ r2 \in LoopJob /\ r2.pc = "prune" /\ r2.todo = r1.todo /\ r2.live = r1.live
      /\ r2.ver = r1.ver
  BY <1>4 DEF LoopJob, Which
<1> HIDE DEF r2
<1>6. index' = [index EXCEPT ![u][d] = None]
  BY DEF PruneRow
<1> HIDE DEF d
<1>7. /\ index'[u][d] = None /\ \A e \in Doc \ {d} : index'[u][e] = index[u][e]
      /\ \A v \in User \ {u} : index'[v] = index[v]
  BY <1>2, <1>6 DEF Typed
<1>8. IndexTyped'
  BY <1>2, <1>6 DEF Typed, IndexTyped
<1>9. doc' = doc /\ UNCHANGED <<snaps, files, exported, backups>> /\ cut' = cut
  BY DEF PruneRow, observed
<1>10. KnowsPast(u)'
  BY <1>1, <1>3, <1>4, <1>5, <1>9, LabelFacts DEF KnowsPast, UserOK
<1>11. IndexOK(u)'
  BY <1>2, <1>7, <1>9 DEF UserOK, IndexOK, Passed
<1>12. IndexingOK(u)'
  <2>1. Seen(u)' = Seen(u) /\ job[u].pc # "versions" /\ job'[u].pc # "store"
    BY <1>1, <1>3, <1>4, <1>5 DEF Seen, At
  <2> QED
    BY <1>1, <1>3, <1>4, <1>5, <1>7, <1>9, <2>1 DEF IndexingOK, UserOK, At, Passed
<1>13. UserOK(u)'
  BY <1>3, <1>5, <1>9, <1>10, <1>11, <1>12, IndexStep DEF Capture
<1>14. job[u] # Idle /\ job'[u] # Idle
  BY <1>1, <1>3, <1>5 DEF Idle
<1>15. job'[u] \in JobType
  BY <1>3, <1>5 DEF JobType
<1> QED
  BY <1>3, <1>7, <1>8, <1>13, <1>14, <1>15 DEF MovesOn

-----------------------------------------------------------------------------
(* snapshot: the IDs of files                                               *)

(* As for any finite set of numbers: of the sets of smaller elements one    *)
(* has no smaller one in it.                                                *)
LEMMA MinIsMember ==
    ASSUME NEW S \in SUBSET Nat, IsFiniteSet(S), S # {}
    PROVE  Min(S) \in S
<1> DEFINE Below(x) == {y \in S : y < x}
           R == StrictSubsetOrdering(S)
           T == {Below(x) : x \in S}
<1>1. IsWellFoundedOn(R, FiniteSubsetsOf(S))
  BY FS_StrictSubsetOrderingWellFounded
<1>2. T \subseteq FiniteSubsetsOf(S) /\ T # {}
  <2>1. ASSUME NEW x \in S PROVE Below(x) \in FiniteSubsetsOf(S)
    <3>1. Below(x) \in SUBSET S
      OBVIOUS
    <3>2. IsFiniteSet(Below(x))
      BY <3>1, FS_Subset
    <3> QED
      BY <3>1, <3>2 DEF FiniteSubsetsOf
  <2> QED
    BY <2>1
<1>3. \A A, B \in FiniteSubsetsOf(S) : A \subseteq B /\ A # B => <<A, B>> \in R
  BY DEF StrictSubsetOrdering, FiniteSubsetsOf
<1> HIDE DEF R
<1>4. \E A \in T : \A B \in T : ~(<<B, A>> \in R)
  <2> HIDE DEF T
  <2> QED
    BY <1>1, <1>2, WFMin
<1>5. PICK x \in S : \A y \in S : ~(<<Below(y), Below(x)>> \in R)
  BY <1>4
<1>6. ASSUME NEW y \in S, y < x PROVE FALSE
  <2>1. y \in Below(x) /\ y \notin Below(y)
    BY <1>6
  <2>2. \A z \in S : z < y => z < x
    BY <1>6
  <2>3. Below(y) \subseteq Below(x) /\ Below(y) # Below(x)
    BY <2>1, <2>2
  <2>4. Below(x) \in FiniteSubsetsOf(S) /\ Below(y) \in FiniteSubsetsOf(S)
    BY <1>2
  <2>5. <<Below(y), Below(x)>> \in R
    <3> HIDE DEF Below
    <3> QED
      BY <1>3, <2>3, <2>4
  <2> QED
    BY <1>5, <2>5
<1>7. \A y \in S : x <= y
  <2>1. \A y \in S : ~(y < x)
    BY <1>6
  <2> QED
    BY <2>1
<1> QED
  BY <1>7 DEF Min

LEMMA NewIdIsNew ==
    ASSUME Typed, NEW u \in User, RowsOK(u)
    PROVE  /\ NewId(u) \in Nat
           /\ \A f \in files[u] : f.id # NewId(u)
           /\ \A d \in Doc : \A i \in DOMAIN snaps[u][d] : snaps[u][d][i].id # NewId(u)
<1> DEFINE ids == {f.id : f \in files[u]}
           inRows == UNION {{snaps[u][d][i].id : i \in DOMAIN snaps[u][d]} : d \in Doc}
           used == ids \cup inRows
           free == (1..(Cardinality(used) + 1)) \ used
<1>1. ASSUME NEW d \in Doc, NEW i \in DOMAIN snaps[u][d] PROVE snaps[u][d][i].id \in ids
  <2>1. \E f \in FilesOf(u, snaps[u][d][i].id) : f.ext = "rmdoc"
    BY DEF RowsOK, HasFiles
  <2> QED
    BY <2>1 DEF FilesOf
<1>2. used = ids
  BY <1>1
<1>3. IsFiniteSet(ids)
  <2> DEFINE f == [x \in files[u] |-> x.id]
  <2>1. f \in Surjection(files[u], ids)
    BY DEF Surjection
  <2> QED
    BY <2>1, FS_Surjection DEF Typed
<1> HIDE DEF ids
<1>4. IsFiniteSet(used) /\ Cardinality(used) \in Nat
  BY <1>2, <1>3, FS_CardinalityType
<1> HIDE DEF used
<1>5. IsFiniteSet(1..(Cardinality(used) + 1)) /\ Cardinality(1..(Cardinality(used) + 1)) = Cardinality(used) + 1
  BY <1>4, FS_Interval
<1>6. free # {}
  <2> SUFFICES ASSUME (1..(Cardinality(used) + 1)) \subseteq used PROVE FALSE
    OBVIOUS
  <2>1. Cardinality(1..(Cardinality(used) + 1)) <= Cardinality(used)
    BY <1>4, FS_Subset
  <2> QED
    BY <1>4, <1>5, <2>1
<1>7. free \subseteq Nat /\ IsFiniteSet(free)
  BY <1>4, <1>5, FS_Subset
<1>8. Min(free) \in free
  BY <1>6, <1>7, MinIsMember
<1>9. NewId(u) = Min(free)
  BY DEF NewId, used, ids
<1>10. NewId(u) \in Nat /\ NewId(u) \notin used
  BY <1>7, <1>8, <1>9
<1>11. \A f \in files[u] : f.id \in used
  BY DEF used, ids
<1>12. \A d \in Doc : \A i \in DOMAIN snaps[u][d] : snaps[u][d][i].id \in used
  BY <1>1, <1>2
<1> QED
  BY <1>10, <1>11, <1>12

-----------------------------------------------------------------------------
(* snapshot: its steps                                                      *)

LEMMA KeepsLoop ==
    ASSUME NEW u \in User, UserOK(u), job[u].pc \in Loop, doc' = doc, index' = index, cut' = cut,
           job'[u].todo = job[u].todo, job'[u].live = job[u].live, job'[u].ver = job[u].ver,
           job'[u].pc \in Loop \ {"store", "prune", "unindex"},
           job'[u].pc \in AtDocument => job[u].pc \in AtDocument /\ job'[u].doc = job[u].doc
    PROVE  KnowsPast(u)' /\ IndexingOK(u)'
<1>1. KnowsPast(u)'
  BY DEF KnowsPast, UserOK
<1>2. IndexingOK(u)'
  BY LabelFacts DEF IndexingOK, UserOK, At, Seen, Passed
<1> QED
  BY <1>1, <1>2

LEMMA SnapshotStep ==
    ASSUME NEW u \in User, UserOK(u), doc' = doc, cut' = cut,
           UNCHANGED <<index, exported, backups>>, job'[u].pc # "mark",
           KnowsPast(u)', IndexingOK(u)', RowsOK(u)', CaptureOK(u)'
    PROVE  UserOK(u)'
<1>1. IndexOK(u)'
  BY DEF UserOK, IndexOK, Passed
<1>2. BackupsOK(u)'
  BY DEF UserOK, BackupsOK, HasBackup, At
<1> QED
  BY <1>1, <1>2 DEF UserOK

FilesTyped == files \in [User -> SUBSET FileType] /\ \A u \in User : IsFiniteSet(files[u])
RowsTyped == snaps \in [User -> [Doc -> Seq(RowType)]]

(* What a capture in hand is about.                                         *)
LEMMA CaptureFacts ==
    ASSUME Typed, NEW u \in User, UserOK(u), job[u].pc \in Capture
    PROVE  /\ job[u].pc \in AtDocument /\ job[u].pc \in Loop
           /\ job[u].doc \in Doc /\ job[u].got \in Nat
           /\ Version(u) \in Nat /\ doc[u][job[u].doc].ver \in Nat
           /\ u \in Sync15 => Version(u) <= doc[u][job[u].doc].ver
<1>1. job[u].pc \in AtDocument /\ job[u].pc \in Loop
  BY LabelFacts
<1>2. job[u].doc \in Doc /\ job[u].got \in Nat /\ Version(u) \in Nat
  BY <1>1, LoopFacts DEF LoopJob
<1>3. u \in Sync15 => Version(u) <= doc[u][job[u].doc].ver
  BY <1>1, LoopFacts DEF Version
<1> QED
  BY <1>1, <1>2, <1>3, DocFacts

(* The files of rows stay, if only files of another ID come or go.          *)
LEMMA RowsKeepFiles ==
    ASSUME NEW u, RowsOK(u), snaps'[u] = snaps[u], NEW id,
           \A d \in Doc : \A i \in DOMAIN snaps[u][d] : snaps[u][d][i].id # id,
           \A f \in files[u] \cup files'[u] : f.id # id => f \in files[u] /\ f \in files'[u]
    PROVE  RowsOK(u)'
<1>1. ASSUME NEW d \in Doc, NEW i \in DOMAIN snaps[u][d] PROVE HasFiles(u, snaps[u][d][i])'
  <2>1. snaps'[u][d][i] = snaps[u][d][i] /\ snaps[u][d][i].id # id
    BY <1>1
  <2>2. FilesOf(u, snaps[u][d][i].id)' = FilesOf(u, snaps[u][d][i].id)
    BY <2>1 DEF FilesOf
  <2> QED
    BY <2>1, <2>2 DEF RowsOK, HasFiles
<1> QED
  BY <1>1 DEF RowsOK

LEMMA ExportRawStep ==
    ASSUME Typed, NEW u \in User, UserOK(u), ExportRaw(u)
    PROVE  /\ UserOK(u)' /\ MovesOn(u) /\ FilesTyped'
           /\ \A v \in User \ {u} : files'[v] = files[v]
<1> DEFINE d == job[u].doc
           id == NewId(u)
           new == File(id, "rmdoc", Content(u, d))
           r1 == [job[u] EXCEPT !.pc = "pdf"]
           r2 == [r1 EXCEPT !.got = id]
<1>1. /\ job[u].pc = "snapshots" /\ VersionOf(u, d) # 0
      /\ job' = [job EXCEPT ![u].pc = "pdf", ![u].got = id]
      /\ files' = [files EXCEPT ![u] = @ \cup {new}]
  BY DEF ExportRaw, At, CanExport
<1>2. /\ job[u].pc \in AtDocument /\ job[u].pc \in Loop
      /\ "pdf" \in Loop \ {"store", "prune", "unindex"} /\ "pdf" \in Capture
  BY <1>1 DEF AtDocument, Kinds, Loop, Capture
<1>3. job[u] \in LoopJob /\ DOMAIN job = User
  BY <1>2, JobFacts DEF Typed
<1>4. /\ id \in Nat /\ \A f \in files[u] : f.id # id
      /\ \A e \in Doc : \A i \in DOMAIN snaps[u][e] : snaps[u][e][i].id # id
  BY NewIdIsNew DEF UserOK
<1>5. /\ d \in Doc /\ Version(u) \in Nat
      /\ u \in Sync15 => Version(u) <= doc[u][d].ver
  BY <1>2, LoopFacts DEF Version
<1>6. /\ Content(u, d) \in Nat /\ doc[u][d].ver \in Nat
      /\ u \in Sync15 => Content(u, d) = doc[u][d].ver
  BY <1>1, <1>5, DocFacts DEF Content
<1>7. job'[u] = r2 /\ DOMAIN job' = User /\ \A v \in User \ {u} : job'[v] = job[v]
  BY <1>1, <1>3
<1> HIDE DEF id
<1>8. /\ r1 \in LoopJob /\ r1.pc = "pdf" /\ r1.todo = job[u].todo /\ r1.live = job[u].live
      /\ r1.ver = job[u].ver /\ r1.doc = d
  BY <1>2, <1>3 DEF LoopJob
<1> HIDE DEF r1
<1>9. /\ r2 \in LoopJob /\ r2.pc = "pdf" /\ r2.todo = r1.todo /\ r2.live = r1.live
      /\ r2.ver = r1.ver /\ r2.doc = r1.doc /\ r2.got = id
  BY <1>4, <1>8 DEF LoopJob
<1> HIDE DEF r2
<1>10. new \in FileType /\ new.id = id /\ new.ext = "rmdoc" /\ new.ver = Content(u, d)
  BY <1>4, <1>6 DEF File, FileType
<1> HIDE DEF new, d
<1>11. files'[u] = files[u] \cup {new} /\ \A v \in User \ {u} : files'[v] = files[v]
  BY <1>1 DEF Typed
<1>12. FilesTyped'
  <2>1. files' \in [User -> SUBSET FileType]
    BY <1>1, <1>10 DEF Typed
  <2>2. IsFiniteSet(files'[u])
    <3>1. IsFiniteSet(files[u])
      BY DEF Typed
    <3>2. IsFiniteSet(files[u] \cup {new})
      BY <3>1, FS_AddElement
    <3> QED
      BY <1>11, <3>2
  <2> QED
    BY <1>11, <2>1, <2>2 DEF Typed, FilesTyped
<1>13. /\ doc' = doc /\ cut' = cut /\ snaps' = snaps /\ index' = index
       /\ UNCHANGED <<index, exported, backups>>
  BY DEF ExportRaw, observed
<1>14. KnowsPast(u)' /\ IndexingOK(u)'
  BY <1>2, <1>7, <1>8, <1>9, <1>13, KeepsLoop DEF d
<1>15. RowsOK(u)'
  BY <1>4, <1>10, <1>11, <1>13, RowsKeepFiles DEF UserOK
<1>16. CaptureOK(u)'
  <2>1. job'[u].got = id /\ job'[u].pc = "pdf" /\ job'[u].doc = d /\ Version(u)' = Version(u)
    BY <1>7, <1>8, <1>9 DEF Version, d
  <2>2. Unused(u)'
    BY <1>4, <1>13, <2>1 DEF Unused
  <2>3. FilesOf(u, job[u].got)' = {new}
    BY <1>4, <1>10, <1>11, <2>1 DEF FilesOf
  <2>4. Between(u, Version(u), new.ver, doc[u][d])
    BY <1>5, <1>6, <1>10 DEF Between
  <2> QED
    BY <1>10, <1>13, <2>1, <2>2, <2>3, <2>4 DEF CaptureOK, At
<1>17. UserOK(u)'
  BY <1>7, <1>9, <1>13, <1>14, <1>15, <1>16, SnapshotStep
<1>18. job[u] # Idle /\ job'[u] # Idle /\ job'[u] \in JobType
  <2>1. job[u].pc = "snapshots" /\ job'[u].pc = "pdf" /\ job'[u] \in LoopJob
    BY <1>1, <1>7, <1>9
  <2> QED
    BY <2>1 DEF Idle, JobType
<1> QED
  BY <1>7, <1>11, <1>12, <1>17, <1>18 DEF MovesOn

(* The checks after the exports change no table.                            *)
Checks(u) ==
    \/ Relist(u) \/ Recheck(u) \/ RecheckNothing(u) \/ RecheckFails(u) \/ AddFails(u)

LEMMA CheckingSteps ==
    ASSUME Typed, NEW u \in User, UserOK(u), Checks(u)
    PROVE  UserOK(u)' /\ MovesOn(u)
<1>1. job[u].pc \in Capture
  BY DEF Checks, Relist, Recheck, RecheckNothing, RecheckFails, AddFails, At, Capture
<1>2. PICK label \in {"recheck", "add", "discard"} :
         Goto(u, label) /\ (label = "add" => Stable(u) \/ Version(u) = 0)
  BY DEF Checks, Relist, Recheck, RecheckNothing, RecheckFails, AddFails
<1>3. job[u].pc \in Loop /\ job[u].pc \in AtDocument
  BY <1>1, LabelFacts
<1>4. label \in Loop \ {"store", "prune", "unindex"} /\ label \in AtDocument
  BY DEF Loop, AtDocument, Capture
<1>5. /\ job'[u].pc = label /\ job'[u].todo = job[u].todo /\ job'[u].live = job[u].live
      /\ job'[u].doc = job[u].doc /\ job'[u].got = job[u].got /\ job'[u].ver = job[u].ver
  BY <1>2, <1>3, WithLabel
<1>6. doc' = doc /\ cut' = cut /\ index' = index /\ snaps' = snaps /\ files' = files
  BY DEF Checks, Relist, Recheck, RecheckNothing, RecheckFails, AddFails, tables, observed
<1>7. UNCHANGED <<index, exported, backups>>
  BY DEF Checks, Relist, Recheck, RecheckNothing, RecheckFails, AddFails, tables
<1>8. KnowsPast(u)' /\ IndexingOK(u)'
  BY <1>3, <1>4, <1>5, <1>6, KeepsLoop
<1>9. RowsOK(u)'
  BY <1>6 DEF UserOK, RowsOK, HasFiles, FilesOf
<1>10. CaptureOK(u)'
  <2>1. Version(u)' = Version(u) /\ (Unused(u)' <=> Unused(u)) /\ FilesOf(u, job[u].got)' = FilesOf(u, job[u].got)
    BY <1>5, <1>6 DEF Version, Unused, FilesOf
  <2>2. ASSUME label = "add", u \in Sync15, Version(u) # 0, NEW f \in FilesOf(u, job[u].got)
        PROVE  f.ver = Version(u)
    <3>1. VersionOf(u, job[u].doc) = Version(u)
      BY <1>2, <2>2 DEF Stable
    <3>2. Version(u) \in Nat /\ job[u].doc \in Doc
      BY <1>1, CaptureFacts
    <3>3. doc[u][job[u].doc].ver = Version(u)
      BY <2>2, <3>1, <3>2, DocFacts
    <3>4. Between(u, Version(u), f.ver, doc[u][job[u].doc])
      BY <1>1, <2>2 DEF UserOK, CaptureOK
    <3>5. f.ver \in Nat
      BY <2>2 DEF FilesOf, Typed, FileType
    <3> QED
      BY <2>2, <3>2, <3>3, <3>4, <3>5 DEF Between
  <2> QED
    BY <1>1, <1>5, <1>6, <2>1, <2>2 DEF CaptureOK, UserOK, At
<1>11. job'[u].pc # "mark"
  BY <1>5
<1>12. UserOK(u)'
  BY <1>6, <1>7, <1>8, <1>9, <1>10, <1>11, SnapshotStep
<1> QED
  BY <1>2, <1>3, <1>4, <1>12, LabelMoves

LEMMA ExportPdfStep ==
    ASSUME Typed, NEW u \in User, UserOK(u), ExportPdf(u)
    PROVE  /\ UserOK(u)' /\ MovesOn(u) /\ FilesTyped'
           /\ \A v \in User \ {u} : files'[v] = files[v]
<1> DEFINE d == job[u].doc
           new == File(job[u].got, "pdf", Content(u, d))
<1>1. job[u].pc = "pdf" /\ Goto(u, "relist") /\ job[u].pc \in Capture
  BY DEF ExportPdf, At, Capture
<1>2. /\ job[u].pc \in Loop /\ job[u].pc \in AtDocument
      /\ "relist" \in Loop \ {"store", "prune", "unindex"} /\ "relist" \in AtDocument
      /\ "relist" \in Capture
  BY <1>1, LabelFacts DEF Loop, AtDocument, Capture
<1>3. /\ job'[u].pc = "relist" /\ job'[u].todo = job[u].todo /\ job'[u].live = job[u].live
      /\ job'[u].doc = d /\ job'[u].got = job[u].got /\ job'[u].ver = job[u].ver
  BY <1>1, <1>2, WithLabel
<1>4. /\ d \in Doc /\ job[u].got \in Nat /\ Version(u) \in Nat
      /\ u \in Sync15 => Version(u) <= doc[u][d].ver
  BY <1>1, CaptureFacts
<1>5. /\ doc' = doc /\ cut' = cut /\ snaps' = snaps /\ index' = index
      /\ UNCHANGED <<index, exported, backups>>
  BY DEF ExportPdf, observed
<1>6. KnowsPast(u)' /\ IndexingOK(u)'
  BY <1>2, <1>3, <1>5, KeepsLoop
<1>7. /\ Version(u)' = Version(u) /\ (Unused(u)' <=> Unused(u))
      /\ Unused(u)
      /\ \E f \in FilesOf(u, job[u].got) : f.ext = "rmdoc"
      /\ \A f \in FilesOf(u, job[u].got) : Between(u, Version(u), f.ver, doc[u][d])
  BY <1>1, <1>3, <1>5 DEF Version, Unused, UserOK, CaptureOK
<1>8. files \in [User -> SUBSET FileType] /\ \A v \in User : IsFiniteSet(files[v])
  BY DEF Typed
<1>9. \E more \in {{}, {new}} :
         /\ files' = [files EXCEPT ![u] = @ \cup more]
         /\ more # {} => VersionOf(u, d) # 0
  <2>1. files' = files \/ (VersionOf(u, d) # 0 /\ files' = [files EXCEPT ![u] = @ \cup {new}])
    BY DEF ExportPdf
  <2>2. files = [files EXCEPT ![u] = @ \cup {}]
    BY <1>8
  <2> QED
    BY <2>1, <2>2
<1>10. PICK more \in {{}, {new}} :
         /\ files' = [files EXCEPT ![u] = @ \cup more]
         /\ more # {} => VersionOf(u, d) # 0
  BY <1>9
<1>11. ASSUME NEW f \in more
       PROVE  f \in FileType /\ f.id = job[u].got /\ Between(u, Version(u), f.ver, doc[u][d])
  <2>1. /\ f = new /\ Content(u, d) \in Nat /\ doc[u][d].ver \in Nat
        /\ u \in Sync15 => Content(u, d) = doc[u][d].ver
    BY <1>4, <1>10, <1>11, DocFacts DEF Content
  <2>2. new \in FileType /\ new.id = job[u].got /\ new.ver = Content(u, d)
    BY <1>4, <2>1 DEF File, FileType
  <2> HIDE DEF new
  <2>3. f \in FileType /\ f.id = job[u].got /\ f.ver = Content(u, d)
    BY <2>1, <2>2
  <2> QED
    BY <1>4, <2>1, <2>3 DEF Between
<1>12. IsFiniteSet(files[u] \cup more)
  <2>1. IsFiniteSet(files[u] \cup {new})
    BY <1>8, FS_AddElement
  <2>2. files[u] \cup {} = files[u]
    OBVIOUS
  <2> QED
    BY <1>8, <1>10, <2>1, <2>2
<1> HIDE DEF new, d
<1>13. files'[u] = files[u] \cup more /\ \A v \in User \ {u} : files'[v] = files[v]
  BY <1>8, <1>10
<1>14. FilesTyped'
  <2>1. files' \in [User -> SUBSET FileType]
    BY <1>8, <1>10, <1>11
  <2> QED
    BY <1>8, <1>12, <1>13, <2>1 DEF FilesTyped
<1>15. RowsOK(u)'
  <2>1. /\ RowsOK(u) /\ \A e \in Doc : \A i \in DOMAIN snaps[u][e] : snaps[u][e][i].id # job[u].got
    BY <1>7 DEF UserOK, Unused
  <2>2. \A f \in files[u] \cup files'[u] : f.id # job[u].got => f \in files[u] /\ f \in files'[u]
    BY <1>11, <1>13
  <2> QED
    BY <1>5, <2>1, <2>2, RowsKeepFiles
<1>16. CaptureOK(u)'
  <2>1. FilesOf(u, job[u].got)' = FilesOf(u, job[u].got) \cup more
    BY <1>3, <1>11, <1>13 DEF FilesOf
  <2> QED
    BY <1>3, <1>5, <1>7, <1>11, <2>1 DEF CaptureOK, At
<1>17. UserOK(u)'
  BY <1>3, <1>5, <1>6, <1>15, <1>16, SnapshotStep
<1> QED
  BY <1>1, <1>2, <1>13, <1>14, <1>17, LabelMoves

(* Removing files, all of an ID or some.                                    *)
LEMMA RemovalFacts ==
    ASSUME Typed, NEW u \in User, Discard(u) \/ Unlink(u) \/ RemoveFails(u)
    PROVE  /\ \A f \in files[u] \cup files'[u] : f.id # job[u].got => f \in files[u] /\ f \in files'[u]
           /\ files'[u] \subseteq files[u]
           /\ \A v \in User \ {u} : files'[v] = files[v]
           /\ FilesTyped'
<1>1. PICK left \in SUBSET FilesOf(u, job[u].got) :
         files' = [files EXCEPT ![u] = (@ \ FilesOf(u, job[u].got)) \cup left]
  <2>1. CASE RemoveFails(u)
    BY <2>1 DEF RemoveFails
  <2>2. CASE Discard(u) \/ Unlink(u)
    <3>1. files' = [files EXCEPT ![u] = (@ \ FilesOf(u, job[u].got)) \cup {}]
      BY <2>2 DEF Discard, Unlink
    <3> QED
      BY <3>1
  <2> QED
    BY <2>1, <2>2
<1>2. files \in [User -> SUBSET FileType] /\ \A v \in User : IsFiniteSet(files[v])
  BY DEF Typed
<1>3. /\ files'[u] = (files[u] \ FilesOf(u, job[u].got)) \cup left
      /\ \A v \in User \ {u} : files'[v] = files[v]
  BY <1>1, <1>2
<1>4. files'[u] \in SUBSET files[u]
  BY <1>3 DEF FilesOf
<1>5. IsFiniteSet(files'[u])
  BY <1>2, <1>4, FS_Subset
<1>6. files' \in [User -> SUBSET FileType]
  BY <1>1, <1>2 DEF FilesOf
<1> QED
  BY <1>2, <1>3, <1>4, <1>5, <1>6 DEF FilesOf, FilesTyped

LEMMA DiscardStep ==
    ASSUME Typed, NEW u \in User, UserOK(u), Discard(u) \/ (At(u, "discard") /\ RemoveFails(u))
    PROVE  /\ UserOK(u)' /\ MovesOn(u) /\ FilesTyped'
           /\ \A v \in User \ {u} : files'[v] = files[v]
<1>1. job[u].pc = "discard" /\ NextDocument(u)
  BY DEF Discard, RemoveFails, At
<1>2. job[u].pc \in Loop /\ "next" \in Loop \ {"store", "prune", "unindex"} /\ "next" \notin AtDocument
  BY <1>1, LabelFacts DEF Loop, AtDocument
<1>3. /\ job'[u].pc = "next" /\ job'[u].todo = job[u].todo /\ job'[u].live = job[u].live
      /\ job'[u].ver = job[u].ver
  BY <1>1, <1>2, NextFacts
<1>4. /\ doc' = doc /\ cut' = cut /\ snaps' = snaps /\ index' = index
      /\ UNCHANGED <<index, exported, backups>>
  BY DEF Discard, RemoveFails, observed
<1>5. KnowsPast(u)' /\ IndexingOK(u)'
  BY <1>2, <1>3, <1>4, KeepsLoop
<1>6. /\ \A f \in files[u] \cup files'[u] : f.id # job[u].got => f \in files[u] /\ f \in files'[u]
      /\ \A v \in User \ {u} : files'[v] = files[v]
      /\ FilesTyped'
  BY RemovalFacts
<1>7. FilesTyped'
  BY <1>6
<1>8. Unused(u)
  BY <1>1 DEF UserOK, CaptureOK
<1>9. RowsOK(u)'
  BY <1>4, <1>6, <1>8, RowsKeepFiles DEF UserOK, Unused
<1>10. CaptureOK(u)'
  BY <1>3 DEF CaptureOK, Capture
<1>11. UserOK(u)'
  BY <1>3, <1>4, <1>5, <1>9, <1>10, SnapshotStep
<1> QED
  BY <1>1, <1>2, <1>6, <1>7, <1>11, NextMoves

LEMMA PrependIs ==
    ASSUME NEW S, NEW s \in Seq(S), NEW x \in S
    PROVE  /\ <<x>> \o s \in Seq(S) /\ DOMAIN (<<x>> \o s) = 1..(Len(s) + 1)
           /\ DOMAIN s = 1..Len(s) /\ Len(s) \in Nat
           /\ (<<x>> \o s)[1] = x
           /\ \A j \in 2..(Len(s) + 1) : j - 1 \in DOMAIN s /\ (<<x>> \o s)[j] = s[j - 1]
<1>1. <<x>> \in Seq(S) /\ Len(<<x>>) = 1 /\ <<x>>[1] = x
  OBVIOUS
<1>2. /\ <<x>> \o s \in Seq(S) /\ Len(<<x>> \o s) = Len(s) + 1 /\ Len(s) \in Nat
      /\ \A j \in 1..(Len(s) + 1) : (<<x>> \o s)[j] = IF j <= 1 THEN <<x>>[j] ELSE s[j - 1]
  BY <1>1
<1>3. DOMAIN s = 1..Len(s) /\ DOMAIN (<<x>> \o s) = 1..(Len(s) + 1)
  BY <1>2
<1> QED
  BY <1>1, <1>2, <1>3

LEMMA AddSnapshotStep ==
    ASSUME Typed, NEW u \in User, UserOK(u), AddSnapshot(u)
    PROVE  /\ UserOK(u)' /\ MovesOn(u) /\ RowsTyped'
           /\ \A v \in User \ {u} : snaps'[v] = snaps[v]
<1> DEFINE d == job[u].doc
           id == job[u].got
           hasPdf == \E f \in FilesOf(u, id) : f.ext = "pdf"
           row == [id |-> id, ver |-> Version(u), pdf |-> hasPdf]
           old == snaps[u][d]
           new == <<row>> \o old
           r1 == [job[u] EXCEPT !.pc = "trim"]
           r2 == [r1 EXCEPT !.got = 0]
<1>1. /\ job[u].pc = "add" /\ job[u].pc \in Capture
      /\ job' = [job EXCEPT ![u].pc = "trim", ![u].got = 0]
      /\ snaps' = [snaps EXCEPT ![u][d] = <<row>> \o @]
  BY DEF AddSnapshot, At, Capture
<1>2. /\ job[u].pc \in AtDocument /\ job[u].pc \in Loop
      /\ "trim" \in Loop \ {"store", "prune", "unindex"} /\ "trim" \notin Capture
  BY <1>1, LabelFacts DEF AtDocument, Loop, Capture
<1>3. job[u] \in LoopJob /\ DOMAIN job = User
  BY <1>2, JobFacts DEF Typed
<1>4. job'[u] = r2 /\ DOMAIN job' = User /\ \A v \in User \ {u} : job'[v] = job[v]
  BY <1>1, <1>3
<1>5. /\ r1 \in LoopJob /\ r1.pc = "trim" /\ r1.todo = job[u].todo /\ r1.live = job[u].live
      /\ r1.ver = job[u].ver /\ r1.doc = d
  BY <1>2, <1>3 DEF LoopJob
<1> HIDE DEF r1
<1>6. /\ r2 \in LoopJob /\ r2.pc = "trim" /\ r2.todo = r1.todo /\ r2.live = r1.live
      /\ r2.ver = r1.ver /\ r2.doc = r1.doc
  BY <1>5 DEF LoopJob
<1> HIDE DEF r2
<1>7. /\ d \in Doc /\ id \in Nat /\ Version(u) \in Nat
      /\ Unused(u) /\ RowsOK(u)
      /\ \E f \in FilesOf(u, id) : f.ext = "rmdoc"
      /\ u \in Sync15 /\ Version(u) # 0 => \A f \in FilesOf(u, id) : f.ver = Version(u)
  BY <1>1, CaptureFacts DEF UserOK, CaptureOK, At
<1>8. hasPdf => \E f \in FilesOf(u, id) : f.ext = "pdf"
  OBVIOUS
<1>10. hasPdf \in BOOLEAN
  OBVIOUS
<1> HIDE DEF hasPdf
<1>11. row \in RowType /\ row.id = id /\ row.ver = Version(u) /\ HasFiles(u, row)
  <2>1. row \in RowType
    BY <1>7, <1>10 DEF RowType
  <2>2. row.id = id /\ row.ver = Version(u)
    OBVIOUS
  <2>3. row.pdf => \E f \in FilesOf(u, id) : f.ext = "pdf"
    BY <1>8
  <2> HIDE DEF row
  <2> QED
    BY <1>7, <2>1, <2>2, <2>3 DEF HasFiles
<1> HIDE DEF row
<1>12. old \in Seq(RowType)
  BY <1>7, DocFacts
<1>13. /\ new \in Seq(RowType) /\ DOMAIN new = 1..(Len(old) + 1)
       /\ DOMAIN old = 1..Len(old) /\ Len(old) \in Nat
       /\ new[1] = row
       /\ \A j \in 2..(Len(old) + 1) : j - 1 \in DOMAIN old /\ new[j] = old[j - 1]
  BY <1>11, <1>12, PrependIs
<1> HIDE DEF new, old, id
<1>14. /\ snaps'[u][d] = new /\ \A e \in Doc \ {d} : snaps'[u][e] = snaps[u][e]
       /\ \A v \in User \ {u} : snaps'[v] = snaps[v]
  BY <1>1, <1>7 DEF Typed, new, old
<1>15. RowsTyped'
  <2>1. snaps' = [snaps EXCEPT ![u] = [snaps[u] EXCEPT ![d] = new]]
    BY <1>1, <1>7 DEF Typed, new, old
  <2> QED
    BY <1>7, <1>13, <2>1 DEF Typed, RowsTyped
<1>16. /\ doc' = doc /\ cut' = cut /\ files' = files /\ index' = index
       /\ UNCHANGED <<index, exported, backups>>
  BY DEF AddSnapshot, observed
<1>17. KnowsPast(u)' /\ IndexingOK(u)'
  BY <1>2, <1>4, <1>5, <1>6, <1>16, KeepsLoop
(* A row after the step is the new one, or was there.                       *)
<1>18. ASSUME NEW e \in Doc, NEW j \in DOMAIN snaps'[u][e]
       PROVE  \/ e = d /\ j = 1 /\ snaps'[u][e][j] = row
              \/ e = d /\ j \in Nat /\ j - 1 \in DOMAIN old /\ snaps'[u][e][j] = old[j - 1]
              \/ e # d /\ j \in DOMAIN snaps[u][e] /\ snaps'[u][e][j] = snaps[u][e][j]
  <2>1. CASE e # d
    BY <1>14, <1>18, <2>1
  <2>2. CASE e = d
    <3>1. j \in 1..(Len(old) + 1) /\ snaps'[u][e][j] = new[j]
      BY <1>13, <1>14, <1>18, <2>2
    <3>2. CASE j = 1
      BY <1>13, <2>2, <3>1, <3>2
    <3>3. CASE j \in 2..(Len(old) + 1)
      BY <1>13, <2>2, <3>1, <3>3
    <3> QED
      BY <1>13, <3>1, <3>2, <3>3
  <2> QED
    BY <2>1, <2>2
<1>19. RowsOK(u)'
  <2>1. ASSUME NEW e \in Doc, NEW j \in DOMAIN snaps'[u][e]
        PROVE  HasFiles(u, snaps'[u][e][j])
    <3>1. CASE snaps'[u][e][j] = row
      BY <1>11, <3>1
    <3>2. CASE snaps'[u][e][j] # row
      BY <1>7, <1>18, <2>1, <3>2 DEF RowsOK, old
    <3> QED
      BY <3>1, <3>2
  <2>2. ASSUME NEW e \in Doc, NEW g \in Doc, NEW j \in DOMAIN snaps'[u][e], NEW k \in DOMAIN snaps'[u][g],
               snaps'[u][e][j].id = snaps'[u][g][k].id
        PROVE  e = g /\ j = k
    <3>1. \A h \in Doc : \A i \in DOMAIN snaps[u][h] : snaps[u][h][i].id # id
      BY <1>7 DEF Unused, id
    <3>2. \A h, q \in Doc : \A i \in DOMAIN snaps[u][h], m \in DOMAIN snaps[u][q] :
             snaps[u][h][i].id = snaps[u][q][m].id => h = q /\ i = m
      BY <1>7 DEF RowsOK
    <3>3. CASE e # d /\ g # d
      <4>1. /\ j \in DOMAIN snaps[u][e] /\ snaps'[u][e][j] = snaps[u][e][j]
            /\ k \in DOMAIN snaps[u][g] /\ snaps'[u][g][k] = snaps[u][g][k]
        BY <1>18, <2>2, <3>3
      <4> QED
        BY <2>2, <3>2, <4>1
    <3>4. CASE e = d /\ g # d
      <4>1. k \in DOMAIN snaps[u][g] /\ snaps'[u][g][k] = snaps[u][g][k]
        BY <1>18, <2>2, <3>4
      <4>2. \/ snaps'[u][e][j].id = id
            \/ j - 1 \in DOMAIN snaps[u][d] /\ snaps'[u][e][j] = snaps[u][d][j - 1]
        BY <1>11, <1>18, <2>2, <3>4 DEF old
      <4> QED
        BY <1>7, <2>2, <3>1, <3>2, <3>4, <4>1, <4>2
    <3>5. CASE e # d /\ g = d
      <4>1. j \in DOMAIN snaps[u][e] /\ snaps'[u][e][j] = snaps[u][e][j]
        BY <1>18, <2>2, <3>5
      <4>2. \/ snaps'[u][g][k].id = id
            \/ k - 1 \in DOMAIN snaps[u][d] /\ snaps'[u][g][k] = snaps[u][d][k - 1]
        BY <1>11, <1>18, <2>2, <3>5 DEF old
      <4> QED
        BY <1>7, <2>2, <3>1, <3>2, <3>5, <4>1, <4>2
    <3>6. CASE e = d /\ g = d
      <4>1. \/ j = 1 /\ snaps'[u][e][j].id = id
            \/ j \in Nat /\ j - 1 \in DOMAIN snaps[u][d] /\ snaps'[u][e][j] = snaps[u][d][j - 1]
        BY <1>11, <1>18, <2>2, <3>6 DEF old
      <4>2. \/ k = 1 /\ snaps'[u][g][k].id = id
            \/ k \in Nat /\ k - 1 \in DOMAIN snaps[u][d] /\ snaps'[u][g][k] = snaps[u][d][k - 1]
        BY <1>11, <1>18, <2>2, <3>6 DEF old
      <4> QED
        BY <1>7, <2>2, <3>1, <3>2, <3>6, <4>1, <4>2
    <3> QED
      BY <3>3, <3>4, <3>5, <3>6
  <2>3. ASSUME NEW e \in Doc, NEW j \in DOMAIN snaps'[u][e] PROVE HasFiles(u, snaps[u][e][j])'
    BY <1>16, <2>1 DEF HasFiles, FilesOf
  <2> QED
    BY <2>2, <2>3 DEF RowsOK
<1>20. job'[u].pc = "trim"
  BY <1>4, <1>6
<1>21. CaptureOK(u)'
  BY <1>20 DEF CaptureOK, Capture
<1>22. UserOK(u)'
  BY <1>16, <1>17, <1>19, <1>20, <1>21, SnapshotStep
<1>23. job[u] # Idle /\ job'[u] # Idle /\ job'[u] \in JobType
  <2>1. job[u].pc = "add" /\ job'[u].pc = "trim" /\ job'[u] \in LoopJob
    BY <1>1, <1>4, <1>6
  <2> QED
    BY <2>1 DEF Idle, JobType
<1> QED
  BY <1>4, <1>14, <1>15, <1>22, <1>23 DEF MovesOn

LEMMA RemoveAtIs ==
    ASSUME NEW S, NEW s \in Seq(S), NEW k \in 1..Len(s)
    PROVE  /\ RemoveAt(s, k) \in Seq(S) /\ DOMAIN s = 1..Len(s)
           /\ \A j \in DOMAIN RemoveAt(s, k) :
                 \/ j < k /\ j \in DOMAIN s /\ RemoveAt(s, k)[j] = s[j]
                 \/ j >= k /\ j + 1 \in DOMAIN s /\ RemoveAt(s, k)[j] = s[j + 1]
           /\ DOMAIN RemoveAt(s, k) \subseteq Nat
<1> DEFINE a == SubSeq(s, 1, k - 1)
           b == SubSeq(s, k + 1, Len(s))
<1>0. Len(s) \in Nat /\ k \in Nat /\ 1 <= k /\ k <= Len(s)
  OBVIOUS
<1>1. a \in Seq(S) /\ Len(a) = k - 1 /\ \A j \in 1..(k - 1) : a[j] = s[j]
  BY SubSeqProperties
<1>2. /\ b \in Seq(S) /\ Len(b) = Len(s) - k
      /\ \A j \in 1..(Len(s) - k) : b[j] = s[k + j]
  BY SubSeqProperties
<1> HIDE DEF a, b
<1>3. /\ a \o b \in Seq(S) /\ DOMAIN (a \o b) = 1..(Len(s) - 1) /\ DOMAIN s = 1..Len(s)
      /\ \A j \in 1..(Len(s) - 1) : (a \o b)[j] = IF j <= k - 1 THEN a[j] ELSE b[j - (k - 1)]
  BY <1>1, <1>2
<1>4. ASSUME NEW j \in 1..(Len(s) - 1)
      PROVE  \/ j < k /\ j \in DOMAIN s /\ (a \o b)[j] = s[j]
             \/ j >= k /\ j + 1 \in DOMAIN s /\ (a \o b)[j] = s[j + 1]
  <2>1. j \in Nat /\ 1 <= j /\ j <= Len(s) - 1
    BY <1>0
  <2>2. (a \o b)[j] = IF j <= k - 1 THEN a[j] ELSE b[j - (k - 1)]
    BY <1>3
  <2>3. CASE j <= k - 1
    <3>1. j < k /\ j \in 1..(k - 1) /\ j \in 1..Len(s)
      BY <1>0, <2>1, <2>3
    <3> QED
      BY <1>1, <1>3, <2>2, <2>3, <3>1
  <2>4. CASE ~(j <= k - 1)
    <3>1. /\ j >= k /\ j + 1 \in 1..Len(s) /\ j - (k - 1) \in 1..(Len(s) - k)
          /\ k + (j - (k - 1)) = j + 1
      BY <1>0, <2>1, <2>4
    <3>2. b[j - (k - 1)] = s[j + 1]
      BY <1>2, <3>1
    <3> QED
      BY <1>3, <2>2, <2>4, <3>1, <3>2
  <2> QED
    BY <2>3, <2>4
<1>5. RemoveAt(s, k) = a \o b
  BY DEF RemoveAt, a, b
<1>6. 1..(Len(s) - 1) \subseteq Nat
  OBVIOUS
<1> QED
  BY <1>3, <1>4, <1>5, <1>6

LEMMA TrimStep ==
    ASSUME Typed, NEW u \in User, UserOK(u), Trim(u)
    PROVE  /\ UserOK(u)' /\ MovesOn(u) /\ RowsTyped'
           /\ \A v \in User \ {u} : snaps'[v] = snaps[v]
<1> DEFINE d == job[u].doc
           old == snaps[u][d]
           k == Kept(u) + 1
           new == RemoveAt(old, k)
           id == old[k].id
           r1 == [job[u] EXCEPT !.pc = "unlink"]
           r2 == [r1 EXCEPT !.got = id]
<1>1. /\ job[u].pc = "trim" /\ Len(old) > Kept(u)
      /\ job' = [job EXCEPT ![u].pc = "unlink", ![u].got = id]
      /\ snaps' = [snaps EXCEPT ![u][d] = RemoveAt(@, k)]
  BY DEF Trim, At
<1>2. /\ job[u].pc \in AtDocument /\ job[u].pc \in Loop
      /\ "unlink" \in Loop \ {"store", "prune", "unindex"} /\ "unlink" \notin Capture
  BY <1>1, LabelFacts DEF AtDocument, Loop, Capture
<1>3. job[u] \in LoopJob /\ DOMAIN job = User
  BY <1>2, JobFacts DEF Typed
<1>4. job'[u] = r2 /\ DOMAIN job' = User /\ \A v \in User \ {u} : job'[v] = job[v]
  BY <1>1, <1>3
<1>5. d \in Doc /\ RowsOK(u)
  BY <1>2, LoopFacts DEF UserOK
<1>6. old \in Seq(RowType)
  BY <1>5, DocFacts
<1>7. k \in 1..Len(old) /\ k \in Nat
  BY <1>1, <1>3, <1>6 DEF LoopJob, Kept
<1> HIDE DEF k
<1>8. id \in Nat
  <2>1. old[k] \in RowType
    BY <1>6, <1>7
  <2> QED
    BY <2>1 DEF RowType
<1>9. /\ r1 \in LoopJob /\ r1.pc = "unlink" /\ r1.todo = job[u].todo /\ r1.live = job[u].live
      /\ r1.ver = job[u].ver /\ r1.doc = d
  BY <1>2, <1>3 DEF LoopJob
<1> HIDE DEF r1, id
<1>10. /\ r2 \in LoopJob /\ r2.pc = "unlink" /\ r2.todo = r1.todo /\ r2.live = r1.live
       /\ r2.ver = r1.ver /\ r2.doc = r1.doc /\ r2.got = id
  BY <1>8, <1>9 DEF LoopJob
<1> HIDE DEF r2
<1>11. /\ new \in Seq(RowType) /\ DOMAIN old = 1..Len(old) /\ DOMAIN new \subseteq Nat
       /\ \A j \in DOMAIN new :
             \/ j < k /\ j \in DOMAIN old /\ new[j] = old[j]
             \/ j >= k /\ j + 1 \in DOMAIN old /\ new[j] = old[j + 1]
  BY <1>6, <1>7, RemoveAtIs
<1> HIDE DEF new, old
<1>12. /\ snaps'[u][d] = new /\ \A e \in Doc \ {d} : snaps'[u][e] = snaps[u][e]
       /\ \A v \in User \ {u} : snaps'[v] = snaps[v]
  BY <1>1, <1>5 DEF Typed, new, old
<1>13. RowsTyped'
  <2>1. snaps' = [snaps EXCEPT ![u] = [snaps[u] EXCEPT ![d] = new]]
    BY <1>1, <1>5 DEF Typed, new, old
  <2> QED
    BY <1>5, <1>11, <2>1 DEF Typed, RowsTyped
<1>14. /\ doc' = doc /\ cut' = cut /\ files' = files /\ index' = index
       /\ UNCHANGED <<index, exported, backups>>
  BY DEF Trim, observed
<1>15. KnowsPast(u)' /\ IndexingOK(u)'
  BY <1>2, <1>4, <1>9, <1>10, <1>14, KeepsLoop
(* Each row that stays was at the same place, or the next, and not at k.    *)
<1>16. ASSUME NEW e \in Doc, NEW j \in DOMAIN snaps'[u][e]
       PROVE  \E i \in DOMAIN snaps[u][e] :
                 /\ snaps'[u][e][j] = snaps[u][e][i]
                 /\ e = d => j \in Nat /\ i # k /\ i = IF j < k THEN j ELSE j + 1
                 /\ e # d => i = j
  <2>1. CASE e # d
    BY <1>12, <1>16, <2>1
  <2>2. CASE e = d
    <3>1. j \in DOMAIN new /\ snaps'[u][e][j] = new[j] /\ j \in Nat
      BY <1>11, <1>12, <1>16, <2>2
    <3>2. CASE j < k
      <4>1. j \in DOMAIN old /\ new[j] = old[j] /\ j # k
        BY <1>7, <1>11, <3>1, <3>2
      <4> QED
        BY <2>2, <3>1, <3>2, <4>1 DEF old
    <3>3. CASE ~(j < k)
      <4>1. j + 1 \in DOMAIN old /\ new[j] = old[j + 1] /\ j + 1 # k
        BY <1>7, <1>11, <3>1, <3>3
      <4> QED
        BY <2>2, <3>1, <3>3, <4>1 DEF old
    <3> QED
      BY <3>2, <3>3
  <2> QED
    BY <2>1, <2>2
<1>17. RowsOK(u)'
  <2>1. ASSUME NEW e \in Doc, NEW j \in DOMAIN snaps'[u][e]
        PROVE  HasFiles(u, snaps'[u][e][j])
    BY <1>5, <1>16, <2>1 DEF RowsOK
  <2>2. ASSUME NEW e \in Doc, NEW g \in Doc, NEW j \in DOMAIN snaps'[u][e], NEW m \in DOMAIN snaps'[u][g],
               snaps'[u][e][j].id = snaps'[u][g][m].id
        PROVE  e = g /\ j = m
    <3>1. PICK i \in DOMAIN snaps[u][e] :
             /\ snaps'[u][e][j] = snaps[u][e][i]
             /\ e = d => j \in Nat /\ i # k /\ i = IF j < k THEN j ELSE j + 1
             /\ e # d => i = j
      BY <1>16, <2>2
    <3>2. PICK h \in DOMAIN snaps[u][g] :
             /\ snaps'[u][g][m] = snaps[u][g][h]
             /\ g = d => m \in Nat /\ h # k /\ h = IF m < k THEN m ELSE m + 1
             /\ g # d => h = m
      BY <1>16, <2>2
    <3>3. e = g /\ i = h
      BY <1>5, <2>2, <3>1, <3>2 DEF RowsOK
    <3> QED
      BY <1>7, <3>1, <3>2, <3>3
  <2>3. ASSUME NEW e \in Doc, NEW j \in DOMAIN snaps'[u][e] PROVE HasFiles(u, snaps[u][e][j])'
    BY <1>14, <2>1 DEF HasFiles, FilesOf
  <2> QED
    BY <2>2, <2>3 DEF RowsOK
<1>18. job'[u].pc = "unlink" /\ job'[u].got = id
  BY <1>4, <1>10
<1>19. CaptureOK(u)'
  <2>1. Unused(u)'
    <3> SUFFICES ASSUME NEW e \in Doc, NEW j \in DOMAIN snaps'[u][e], snaps'[u][e][j].id = id
                 PROVE  FALSE
      BY <1>18 DEF Unused
    <3>1. PICK i \in DOMAIN snaps[u][e] :
             snaps'[u][e][j] = snaps[u][e][i] /\ (e = d => i # k)
      BY <1>16
    <3>2. k \in DOMAIN snaps[u][d] /\ id = snaps[u][d][k].id
      BY <1>7, <1>11 DEF old, id
    <3>3. e = d /\ i = k
      BY <1>5, <3>1, <3>2 DEF RowsOK
    <3> QED
      BY <3>1, <3>3
  <2> QED
    BY <1>2, <1>18, <2>1 DEF CaptureOK
<1>20. UserOK(u)'
  BY <1>14, <1>15, <1>17, <1>18, <1>19, SnapshotStep
<1>21. job[u] # Idle /\ job'[u] # Idle /\ job'[u] \in JobType
  <2>1. job[u].pc = "trim" /\ job'[u].pc = "unlink" /\ job'[u] \in LoopJob
    BY <1>1, <1>4, <1>10
  <2> QED
    BY <2>1 DEF Idle, JobType
<1> QED
  BY <1>4, <1>12, <1>13, <1>20, <1>21 DEF MovesOn

LEMMA UnlinkStep ==
    ASSUME Typed, NEW u \in User, UserOK(u), Unlink(u) \/ (At(u, "unlink") /\ RemoveFails(u))
    PROVE  /\ UserOK(u)' /\ MovesOn(u) /\ FilesTyped'
           /\ \A v \in User \ {u} : files'[v] = files[v]
<1> DEFINE r1 == [job[u] EXCEPT !.pc = "trim"]
           r2 == [r1 EXCEPT !.got = 0]
<1>1. /\ job[u].pc = "unlink"
      /\ job' = [job EXCEPT ![u].pc = "trim", ![u].got = 0]
  BY DEF Unlink, RemoveFails, At
<1>2. /\ job[u].pc \in AtDocument /\ job[u].pc \in Loop
      /\ "trim" \in Loop \ {"store", "prune", "unindex"}
  BY <1>1 DEF AtDocument, Loop, Capture
<1>3. job[u] \in LoopJob /\ DOMAIN job = User
  BY <1>2, JobFacts DEF Typed
<1>4. job'[u] = r2 /\ DOMAIN job' = User /\ \A v \in User \ {u} : job'[v] = job[v]
  BY <1>1, <1>3
<1>5. /\ r1 \in LoopJob /\ r1.pc = "trim" /\ r1.todo = job[u].todo /\ r1.live = job[u].live
      /\ r1.ver = job[u].ver /\ r1.doc = job[u].doc
  BY <1>2, <1>3 DEF LoopJob
<1> HIDE DEF r1
<1>6. /\ r2 \in LoopJob /\ r2.pc = "trim" /\ r2.todo = r1.todo /\ r2.live = r1.live
      /\ r2.ver = r1.ver /\ r2.doc = r1.doc
  BY <1>5 DEF LoopJob
<1> HIDE DEF r2
<1>7. /\ doc' = doc /\ cut' = cut /\ snaps' = snaps /\ index' = index
      /\ UNCHANGED <<index, exported, backups>>
  BY DEF Unlink, RemoveFails, observed
<1>8. KnowsPast(u)' /\ IndexingOK(u)'
  BY <1>2, <1>4, <1>5, <1>6, <1>7, KeepsLoop
<1>9. /\ \A f \in files[u] \cup files'[u] : f.id # job[u].got => f \in files[u] /\ f \in files'[u]
      /\ \A v \in User \ {u} : files'[v] = files[v]
      /\ FilesTyped'
  BY RemovalFacts
<1>10. FilesTyped'
  BY <1>9
<1>11. Unused(u)
  BY <1>1 DEF UserOK, CaptureOK
<1>12. RowsOK(u)'
  BY <1>7, <1>9, <1>11, RowsKeepFiles DEF UserOK, Unused
<1>13. job'[u].pc = "trim"
  BY <1>4, <1>6
<1>14. CaptureOK(u)'
  BY <1>13 DEF CaptureOK, Capture
<1>15. UserOK(u)'
  BY <1>7, <1>8, <1>12, <1>13, <1>14, SnapshotStep
<1>16. job[u] # Idle /\ job'[u] # Idle /\ job'[u] \in JobType
  <2>1. job[u].pc = "unlink" /\ job'[u].pc = "trim" /\ job'[u] \in LoopJob
    BY <1>1, <1>4, <1>6
  <2> QED
    BY <2>1 DEF Idle, JobType
<1> QED
  BY <1>4, <1>9, <1>10, <1>15, <1>16 DEF MovesOn

-----------------------------------------------------------------------------
(* backup                                                                   *)

LEMMA BackupStep ==
    ASSUME NEW u \in User, UserOK(u), doc' = doc, cut' = cut,
           UNCHANGED <<index, snaps, files>>,
           KnowsPast(u)', IndexingOK(u)', BackupsOK(u)',
           job'[u].pc \notin Capture \cup {"discard", "unlink"}
    PROVE  UserOK(u)'
<1>1. IndexOK(u)'
  BY DEF UserOK, IndexOK, Passed
<1>2. RowsOK(u)'
  BY DEF UserOK, RowsOK, HasFiles, FilesOf
<1>3. CaptureOK(u)'
  BY DEF CaptureOK
<1> QED
  BY <1>1, <1>2, <1>3 DEF UserOK

LEMMA WriteStep ==
    ASSUME Typed, NEW u \in User, UserOK(u), Write(u)
    PROVE  /\ UserOK(u)' /\ MovesOn(u) /\ backups' \in [User -> SUBSET BackupType]
           /\ \A v \in User \ {u} : backups'[v] = backups[v]
<1> DEFINE d == job[u].doc
           new == [doc |-> d, ver |-> Content(u, d)]
<1>1. /\ job[u].pc = "backup" /\ VersionOf(u, d) # 0 /\ Goto(u, "mark")
      /\ backups' = [backups EXCEPT ![u] = @ \cup {new}]
  BY DEF Write, At, CanExport
<1>2. /\ job[u].pc \in Loop /\ job[u].pc \in AtDocument
      /\ "mark" \in Loop \ {"store", "prune", "unindex"} /\ "mark" \notin Capture
  BY <1>1 DEF Loop, AtDocument, Kinds, Capture
<1>3. /\ job'[u].pc = "mark" /\ job'[u].todo = job[u].todo /\ job'[u].live = job[u].live
      /\ job'[u].doc = d /\ job'[u].ver = job[u].ver
  BY <1>1, <1>2, WithLabel
<1>4. d \in Doc /\ Version(u) \in Nat /\ (u \in Sync15 => Version(u) <= doc[u][d].ver)
  BY <1>2, LoopFacts DEF Version
<1>5. /\ Content(u, d) \in Nat /\ doc[u][d].ver \in Nat
      /\ u \in Sync15 => Content(u, d) = doc[u][d].ver
  BY <1>1, <1>4, DocFacts DEF Content
<1>6. doc' = doc /\ cut' = cut /\ exported' = exported /\ index' = index
  BY DEF Write, observed
<1>7. UNCHANGED <<index, snaps, files>>
  BY DEF Write
<1>8. KnowsPast(u)' /\ IndexingOK(u)'
  BY <1>2, <1>3, <1>6, KeepsLoop
<1>9. new \in BackupType /\ new.doc = d /\ Between(u, Version(u), new.ver, doc[u][d])
  BY <1>4, <1>5 DEF BackupType, Between
<1> HIDE DEF new, d
<1>10. /\ backups'[u] = backups[u] \cup {new}
       /\ \A v \in User \ {u} : backups'[v] = backups[v]
       /\ backups' \in [User -> SUBSET BackupType]
  BY <1>1, <1>9 DEF Typed
<1>11. BackupsOK(u)'
  <2>1. HasBackup(u, job[u].doc, Version(u))'
    <3>1. Version(u)' = Version(u)
      BY <1>3 DEF Version, d
    <3> QED
      BY <1>3, <1>6, <1>9, <1>10, <3>1 DEF HasBackup
  <2>2. \A e \in Doc : exported[u][e] # 0 => HasBackup(u, e, exported[u][e])'
    BY <1>6, <1>10 DEF UserOK, BackupsOK, HasBackup
  <2> QED
    BY <1>6, <2>1, <2>2 DEF BackupsOK
<1>12. UserOK(u)'
  BY <1>2, <1>3, <1>6, <1>7, <1>8, <1>11, BackupStep
<1> QED
  BY <1>1, <1>2, <1>10, <1>12, LabelMoves

LEMMA MarkExportedStep ==
    ASSUME Typed, NEW u \in User, UserOK(u), MarkExported(u)
    PROVE  /\ UserOK(u)' /\ MovesOn(u) /\ exported' \in [User -> [Doc -> Nat]]
           /\ \A v \in User \ {u} : exported'[v] = exported[v]
<1> DEFINE d == job[u].doc
           low == Version(u)
<1>1. /\ job[u].pc = "mark" /\ NextDocument(u)
      /\ exported' = [exported EXCEPT ![u][d] = low]
  BY DEF MarkExported, At
<1>2. /\ job[u].pc \in Loop /\ job[u].pc \in AtDocument
      /\ "next" \in Loop \ {"store", "prune", "unindex"} /\ "next" \notin AtDocument
  BY <1>1, LabelFacts DEF Loop, AtDocument
<1>3. /\ job'[u].pc = "next" /\ job'[u].todo = job[u].todo /\ job'[u].live = job[u].live
      /\ job'[u].ver = job[u].ver
  BY <1>1, <1>2, NextFacts
<1>4. d \in Doc /\ low \in Nat
  BY <1>2, LoopFacts
<1>5. HasBackup(u, d, low)
  BY <1>1 DEF UserOK, BackupsOK, At
<1> HIDE DEF d, low
<1>6. /\ exported'[u][d] = low /\ \A e \in Doc \ {d} : exported'[u][e] = exported[u][e]
      /\ \A v \in User \ {u} : exported'[v] = exported[v]
      /\ exported' \in [User -> [Doc -> Nat]]
  BY <1>1, <1>4 DEF Typed
<1>7. doc' = doc /\ cut' = cut /\ backups' = backups /\ index' = index
  BY DEF MarkExported, observed
<1>8. UNCHANGED <<index, snaps, files>>
  BY DEF MarkExported
<1>9. KnowsPast(u)' /\ IndexingOK(u)'
  BY <1>2, <1>3, <1>7, KeepsLoop
<1>10. BackupsOK(u)'
  <2>1. ASSUME NEW e \in Doc, exported'[u][e] # 0 PROVE HasBackup(u, e, exported[u][e])'
    <3>1. CASE e = d
      BY <1>5, <1>6, <1>7, <3>1 DEF HasBackup
    <3>2. CASE e # d
      BY <1>6, <1>7, <2>1, <3>2 DEF UserOK, BackupsOK, HasBackup
    <3> QED
      BY <3>1, <3>2
  <2> QED
    BY <1>3, <2>1 DEF BackupsOK, At
<1>11. UserOK(u)'
  BY <1>3, <1>7, <1>8, <1>9, <1>10, BackupStep DEF Capture
<1> QED
  BY <1>1, <1>2, <1>6, <1>11, NextMoves

-----------------------------------------------------------------------------
(* All steps of a job that goes on.                                         *)

TablesTyped ==
    /\ IndexTyped /\ RowsTyped /\ FilesTyped
    /\ exported \in [User -> [Doc -> Nat]] /\ backups \in [User -> SUBSET BackupType]

LeavesOthers(u) ==
    \A v \in User \ {u} :
        /\ index'[v] = index[v] /\ snaps'[v] = snaps[v] /\ files'[v] = files[v]
        /\ exported'[v] = exported[v] /\ backups'[v] = backups[v]
        /\ (v \in cut' <=> v \in cut)

LEMMA TablesStay ==
    ASSUME Typed, NEW u \in User
    PROVE  /\ index' = index => IndexTyped' /\ \A v \in User \ {u} : index'[v] = index[v]
           /\ snaps' = snaps => RowsTyped' /\ \A v \in User \ {u} : snaps'[v] = snaps[v]
           /\ files' = files => FilesTyped' /\ \A v \in User \ {u} : files'[v] = files[v]
           /\ exported' = exported =>
                 exported' \in [User -> [Doc -> Nat]] /\ \A v \in User \ {u} : exported'[v] = exported[v]
           /\ backups' = backups =>
                 backups' \in [User -> SUBSET BackupType] /\ \A v \in User \ {u} : backups'[v] = backups[v]
           /\ cut' = cut \/ cut' = cut \cup {u} => \A v \in User \ {u} : v \in cut' <=> v \in cut
<1>1. index' = index => IndexTyped'
  BY DEF Typed, IndexTyped
<1>2. snaps' = snaps => RowsTyped'
  BY DEF Typed, RowsTyped
<1>3. files' = files => FilesTyped'
  BY DEF Typed, FilesTyped
<1>4. exported' = exported => exported' \in [User -> [Doc -> Nat]]
  BY DEF Typed
<1>5. backups' = backups => backups' \in [User -> SUBSET BackupType]
  BY DEF Typed
<1> QED
  BY <1>1, <1>2, <1>3, <1>4, <1>5

Working(u) ==
    \/ List(u) \/ ListNothing(u) \/ ReadVersions(u) \/ InventoryFails(u)
    \/ Visit(u) \/ Interrupt(u) \/ LoopEnds(u) \/ Return(u)
    \/ Export(u) \/ Index(u) \/ PrunePages(u) \/ PruneRow(u) \/ PruneEnds(u)
    \/ ExportRaw(u) \/ ExportPdf(u) \/ Checks(u) \/ Discard(u) \/ AddSnapshot(u)
    \/ Trim(u) \/ Unlink(u) \/ RemoveFails(u) \/ TrimEnds(u)
    \/ Write(u) \/ MarkExported(u) \/ StatementFails(u)

LEMMA WorkingFacts ==
    ASSUME Typed, NEW u \in User, UserOK(u), Working(u)
    PROVE  UserOK(u)' /\ MovesOn(u) /\ TablesTyped' /\ LeavesOthers(u)
<1> USE DEF LeavesOthers, TablesTyped, tables, observed
<1>1. CASE List(u) \/ ListNothing(u) \/ ReadVersions(u) \/ InventoryFails(u)
  BY <1>1, InventorySteps, TablesStay DEF List, ListNothing, Lists, ReadVersions, InventoryFails
<1>2. CASE Visit(u)
  BY <1>2, VisitStep, TablesStay DEF Visit
<1>3. CASE Interrupt(u)
  BY <1>3, InterruptStep, TablesStay DEF Interrupt
<1>4. CASE LoopEnds(u)
  BY <1>4, LoopEndsStep, TablesStay DEF LoopEnds
<1>5. CASE Return(u) \/ PruneEnds(u) \/ TrimEnds(u) \/ StatementFails(u)
  BY <1>5, SkippingSteps, TablesStay DEF Return, PruneEnds, TrimEnds, StatementFails
<1>6. CASE Export(u)
  BY <1>6, ExportStep, TablesStay DEF Export
<1>7. CASE Index(u)
  BY <1>7, StoreStep, TablesStay DEF Index
<1>8. CASE PrunePages(u)
  BY <1>8, PrunePagesStep, TablesStay DEF PrunePages
<1>9. CASE PruneRow(u)
  BY <1>9, PruneRowStep, TablesStay DEF PruneRow
<1>10. CASE ExportRaw(u)
  BY <1>10, ExportRawStep, TablesStay DEF ExportRaw
<1>11. CASE ExportPdf(u)
  BY <1>11, ExportPdfStep, TablesStay DEF ExportPdf
<1>12. CASE Checks(u)
  BY <1>12, CheckingSteps, TablesStay DEF Checks, Relist, Recheck, RecheckNothing, RecheckFails, AddFails
<1>13. CASE Discard(u) \/ (At(u, "discard") /\ RemoveFails(u))
  BY <1>13, DiscardStep, TablesStay DEF Discard, RemoveFails
<1>14. CASE AddSnapshot(u)
  BY <1>14, AddSnapshotStep, TablesStay DEF AddSnapshot
<1>15. CASE Trim(u)
  BY <1>15, TrimStep, TablesStay DEF Trim
<1>16. CASE Unlink(u) \/ (At(u, "unlink") /\ RemoveFails(u))
  BY <1>16, UnlinkStep, TablesStay DEF Unlink, RemoveFails
<1>17. CASE Write(u)
  BY <1>17, WriteStep, TablesStay DEF Write
<1>18. CASE MarkExported(u)
  BY <1>18, MarkExportedStep, TablesStay DEF MarkExported
<1> QED
  BY <1>1, <1>2, <1>3, <1>4, <1>5, <1>6, <1>7, <1>8, <1>9, <1>10, <1>11, <1>12, <1>13,
     <1>14, <1>15, <1>16, <1>17, <1>18 DEF Working, RemoveFails

LEMMA WorkingKeeps ==
    ASSUME NEW u \in User, Working(u)
    PROVE  /\ doc' = doc /\ server' = server /\ slots' = slots /\ open' = open
           /\ unsaved' = unsaved
<1> USE DEF counts, observed
<1>1. CASE List(u) \/ ListNothing(u) \/ ReadVersions(u) \/ InventoryFails(u) \/ Visit(u) \/ Interrupt(u) \/ LoopEnds(u)
  BY <1>1 DEF List, ListNothing, Lists, ReadVersions, InventoryFails, Visit, Interrupt, LoopEnds
<1>2. CASE Return(u) \/ PruneEnds(u) \/ TrimEnds(u) \/ StatementFails(u) \/ Export(u) \/ Index(u)
  BY <1>2 DEF Return, PruneEnds, TrimEnds, StatementFails, Export, Index
<1>3. CASE PrunePages(u) \/ PruneRow(u) \/ ExportRaw(u) \/ ExportPdf(u) \/ Discard(u)
  BY <1>3 DEF PrunePages, PruneRow, ExportRaw, ExportPdf, Discard
<1>4. CASE Checks(u) \/ AddSnapshot(u) \/ Trim(u)
  BY <1>4 DEF Checks, Relist, Recheck, RecheckNothing, RecheckFails, AddFails, AddSnapshot, Trim
<1>5. CASE Unlink(u) \/ RemoveFails(u) \/ Write(u) \/ MarkExported(u)
  BY <1>5 DEF Unlink, RemoveFails, Write, MarkExported
<1> QED
  BY <1>1, <1>2, <1>3, <1>4, <1>5 DEF Working

LEMMA OthersStay ==
    ASSUME Typed, NEW u \in User, NEW v \in User \ {u}, UserOK(v),
           LeavesOthers(u), doc'[v] = doc[v], job'[v] = job[v]
    PROVE  UserOK(v)'
BY SameOK DEF LeavesOthers, Same

LEMMA WorkStep ==
    ASSUME Inv, NEW u \in User, Working(u)
    PROVE  Inv'
<1>1. Typed /\ RunsOK /\ \A v \in User : UserOK(v)
  BY DEF Inv
<1>2. UserOK(u)' /\ MovesOn(u) /\ TablesTyped' /\ LeavesOthers(u)
  BY <1>1, WorkingFacts
<1>3. doc' = doc /\ server' = server /\ slots' = slots /\ open' = open /\ unsaved' = unsaved
  BY WorkingKeeps
<1>4. \A v \in User : UserOK(v)'
  <2> SUFFICES ASSUME NEW v \in User, v # u PROVE UserOK(v)'
    BY <1>2
  <2>1. job'[v] = job[v] /\ v \in User \ {u}
    BY <1>2 DEF MovesOn
  <2> QED
    BY <1>1, <1>2, <1>3, <2>1, OthersStay
<1>5. Typed'
  <2>1. DOMAIN job' = User /\ \A v \in User : job'[v] \in JobType \/ job'[v].pc = "finish"
    BY <1>1, <1>2 DEF MovesOn, Typed
  <2>2. doc' \in [User -> [Doc -> DocType]]
    BY <1>1, <1>3 DEF Typed
  <2> QED
    BY <1>2, <2>1, <2>2 DEF Typed, TablesTyped, IndexTyped, RowsTyped, FilesTyped
<1>6. RunsOK'
  <2>1. \A v \in User : job'[v] = Idle <=> job[v] = Idle
    BY <1>2 DEF MovesOn
  <2>2. Busy' = Busy
    BY <2>1 DEF Busy
  <2> QED
    BY <1>1, <1>3, <2>1, <2>2 DEF RunsOK
<1> QED
  BY <1>4, <1>5, <1>6 DEF Inv

-----------------------------------------------------------------------------
(* A job starts and ends.                                                   *)

LEMMA BusyFinite == IsFiniteSet(Busy) /\ Busy \subseteq User
<1>1. Busy \in SUBSET User
  BY DEF Busy
<1> QED
  BY <1>1, UserAssumption, FS_Subset

LEMMA StartStep ==
    ASSUME Inv, NEW u \in User, NEW kind \in Kinds, NEW only \in Asked \cup {None},
           Start(u, kind, only)
    PROVE  Inv'
<1> DEFINE new == [pc |-> "list", kind |-> kind, only |-> only]
<1>1. Typed /\ RunsOK /\ \A v \in User : UserOK(v)
  BY DEF Inv
<1>2. /\ server = "up" /\ job[u] = Idle /\ slots' = slots + 1
      /\ open' = [open EXCEPT ![u] = @ + 1] /\ job' = [job EXCEPT ![u] = new]
      /\ doc' = doc /\ server' = server /\ UNCHANGED <<tables, faults, unsaved, cut>>
  BY DEF Start, CanStart, observed
<1>3. job'[u] = new /\ DOMAIN job' = User /\ \A v \in User \ {u} : job'[v] = job[v]
  BY <1>1, <1>2 DEF Typed
<1>4. new \in JobType /\ new.pc = "list" /\ new # Idle
  BY NoneAssumption DEF JobType, Which, Idle
<1> HIDE DEF new
<1>5. \A v \in User : UserOK(v)'
  <2>1. UserOK(u)'
    BY <1>1, <1>2, <1>3, <1>4, ToFinish
  <2>2. LeavesOthers(u)
    BY <1>2 DEF LeavesOthers, tables
  <2>3. ASSUME NEW v \in User, v # u PROVE UserOK(v)'
    <3>1. job'[v] = job[v] /\ v \in User \ {u}
      BY <1>3, <2>3
    <3> QED
      BY <1>1, <1>2, <2>2, <3>1, OthersStay
  <2> QED
    BY <2>1, <2>3
<1>6. Typed'
  BY <1>1, <1>2, <1>3, <1>4 DEF Typed, tables
<1>7. RunsOK'
  <2>1. Busy' = Busy \cup {u} /\ u \notin Busy
    BY <1>2, <1>3, <1>4 DEF Busy
  <2>2. Cardinality(Busy') = Cardinality(Busy) + 1
    BY <2>1, BusyFinite, FS_AddElement
  <2>3. /\ open' \in [User -> Nat] /\ open'[u] = open[u] + 1 /\ open[u] \in Nat
        /\ \A v \in User \ {u} : open'[v] = open[v]
    BY <1>1, <1>2 DEF RunsOK
  <2>4. slots' = Cardinality(Busy')
    BY <1>1, <1>2, <2>2 DEF RunsOK
  <2>5. ASSUME NEW v \in User
        PROVE  /\ job'[v] # Idle => open'[v] > 0
               /\ server' # "down" /\ job'[v] = Idle /\ open'[v] > 0 => v \in unsaved'
               /\ job'[v] # Idle /\ open'[v] > 1 => v \in unsaved'
    <3>1. CASE v = u
      BY <1>1, <1>2, <1>3, <1>4, <2>3, <3>1 DEF RunsOK
    <3>2. CASE v # u
      <4>1. job'[v] = job[v] /\ open'[v] = open[v] /\ unsaved' = unsaved /\ server' = server
        BY <1>2, <1>3, <2>3, <3>2
      <4> QED
        BY <1>1, <4>1 DEF RunsOK
    <3> QED
      BY <3>1, <3>2
  <2> QED
    BY <1>1, <1>2, <2>3, <2>4, <2>5 DEF RunsOK
<1> QED
  BY <1>5, <1>6, <1>7 DEF Inv

LEMMA FinishStep ==
    ASSUME Inv, NEW u \in User, Finish(u) \/ FinishFails(u)
    PROVE  Inv'
<1>1. Typed /\ RunsOK /\ \A v \in User : UserOK(v)
  BY DEF Inv
<1>2. /\ job[u].pc = "finish" /\ job' = [job EXCEPT ![u] = Idle] /\ slots' = slots - 1
      /\ doc' = doc /\ server' = server /\ cut' = cut /\ UNCHANGED tables
      /\ \/ open' = [open EXCEPT ![u] = @ - 1] /\ unsaved' = unsaved
         \/ open' = open /\ unsaved' = unsaved \cup {u}
  BY DEF Finish, FinishFails, End, At, observed
<1>3. job'[u] = Idle /\ DOMAIN job' = User /\ \A v \in User \ {u} : job'[v] = job[v]
  BY <1>1, <1>2 DEF Typed
<1>4. Idle.pc = "idle" /\ job[u] # Idle /\ Idle \in JobType
  BY <1>2 DEF Idle, JobType
<1>5. \A v \in User : UserOK(v)'
  <2>1. UserOK(u)'
    BY <1>1, <1>2, <1>3, <1>4, ToFinish
  <2>2. LeavesOthers(u)
    BY <1>2 DEF LeavesOthers, tables
  <2>3. ASSUME NEW v \in User, v # u PROVE UserOK(v)'
    <3>1. job'[v] = job[v] /\ v \in User \ {u}
      BY <1>3, <2>3
    <3> QED
      BY <1>1, <1>2, <2>2, <3>1, OthersStay
  <2> QED
    BY <2>1, <2>3
<1>6. Typed'
  BY <1>1, <1>2, <1>3, <1>4 DEF Typed, tables
<1>7. RunsOK'
  <2>1. Busy' = Busy \ {u} /\ u \in Busy
    BY <1>2, <1>3, <1>4 DEF Busy
  <2>2. Cardinality(Busy') = Cardinality(Busy) - 1
    BY <2>1, BusyFinite, FS_RemoveElement
  <2>3. open[u] \in Nat /\ open[u] > 0 /\ (open[u] > 1 => u \in unsaved)
    BY <1>1, <1>4 DEF RunsOK
  <2>4. /\ open' \in [User -> Nat]
        /\ \/ open'[u] = open[u] - 1 /\ unsaved' = unsaved
           \/ open'[u] = open[u] /\ unsaved' = unsaved \cup {u}
        /\ \A v \in User \ {u} : open'[v] = open[v]
    BY <1>1, <1>2, <2>3 DEF RunsOK
  <2>5. slots' = Cardinality(Busy')
    BY <1>1, <1>2, <2>2 DEF RunsOK
  <2>6. ASSUME NEW v \in User
        PROVE  /\ job'[v] # Idle => open'[v] > 0
               /\ server' # "down" /\ job'[v] = Idle /\ open'[v] > 0 => v \in unsaved'
               /\ job'[v] # Idle /\ open'[v] > 1 => v \in unsaved'
    <3>1. CASE v = u
      BY <1>3, <2>3, <2>4, <3>1
    <3>2. CASE v # u
      <4>1. job'[v] = job[v] /\ open'[v] = open[v] /\ server' = server
            /\ (v \in unsaved => v \in unsaved')
        BY <1>2, <1>3, <2>4, <3>2
      <4> QED
        BY <1>1, <4>1 DEF RunsOK
    <3> QED
      BY <3>1, <3>2
  <2>7. server' \in {"up", "stopping", "down"} /\ (server' = "down" => Busy' = {})
    BY <1>1, <1>2, <2>1 DEF RunsOK
  <2> QED
    BY <2>4, <2>5, <2>6, <2>7 DEF RunsOK
<1> QED
  BY <1>5, <1>6, <1>7 DEF Inv

-----------------------------------------------------------------------------
(* The documents change while the jobs run.                                 *)

Newer(u, d) ==
    /\ doc'[u][d] \in DocType
    /\ \/ doc'[u][d] = doc[u][d]
       \/ u \in Sync15 => doc'[u][d].ver > doc[u][d].ver

LEMMA NewerOK ==
    ASSUME Typed, NEW u \in User, UserOK(u), \A d \in Doc : Newer(u, d),
           job' = job, UNCHANGED <<tables, cut>>
    PROVE  UserOK(u)'
<1>1. ASSUME NEW d \in Doc
      PROVE  /\ doc'[u][d].ver \in Nat /\ doc[u][d].ver \in Nat
             /\ u \in Sync15 =>
                   /\ doc[u][d].ver <= doc'[u][d].ver
                   /\ doc'[u][d] = doc[u][d] \/ doc[u][d].ver < doc'[u][d].ver
  BY <1>1, DocFacts DEF Newer, DocType
<1>2. /\ job' = job /\ index' = index /\ snaps' = snaps /\ files' = files
      /\ exported' = exported /\ backups' = backups /\ cut' = cut
  BY DEF tables
<1>3. ASSUME NEW d \in Doc, NEW low \in Nat, NEW v \in Nat, Between(u, low, v, doc[u][d])
      PROVE  Between(u, low, v, doc'[u][d])
  BY <1>1, <1>3 DEF Between
<1>4. KnowsPast(u)'
  <2> SUFFICES ASSUME job[u].pc \in Loop, u \in Sync15, NEW d \in DOMAIN job[u].ver
               PROVE  job[u].ver[d] <= doc'[u][d].ver
    BY <1>2 DEF UserOK, KnowsPast
  <2>1. d \in Doc /\ job[u].ver[d] \in Nat /\ job[u].ver[d] <= doc[u][d].ver
    BY LoopFacts
  <2> QED
    BY <1>1, <2>1
<1>5. ASSUME NEW d \in Doc, index[u][d] # None
      PROVE  /\ index[u][d].ver \in Nat /\ index[u][d].pages \in Nat
             /\ u \in Sync15 => index[u][d].ver <= doc'[u][d].ver
             /\ Passed(u, d) => Passed(u, d)'
  <2>1. /\ index[u][d].ver \in Nat /\ index[u][d].pages \in Nat
        /\ u \in Sync15 => index[u][d].ver <= doc[u][d].ver
    BY <1>5, DocFacts DEF PageType, UserOK, IndexOK
  <2> QED
    BY <1>1, <1>2, <2>1 DEF Passed
<1>6. IndexOK(u)'
  BY <1>2, <1>3, <1>5 DEF UserOK, IndexOK
<1>7. IndexingOK(u)'
  <2>1. ASSUME At(u, "store") PROVE Between(u, Version(u), job[u].got, doc'[u][job[u].doc])
    <3>1. job[u].pc \in Loop /\ job[u].pc \in AtDocument
      BY <2>1, LabelFacts DEF At, AtDocument, Loop
    <3>2. job[u].doc \in Doc /\ Version(u) \in Nat /\ job[u].got \in Nat
      BY <3>1, LoopFacts DEF LoopJob
    <3> QED
      BY <1>3, <2>1, <3>2 DEF UserOK, IndexingOK
  <2>2. At(u, "store")' <=> At(u, "store")
    BY <1>2 DEF At
  <2>3. Version(u)' = Version(u) /\ Seen(u)' = Seen(u)
    BY <1>2 DEF Version, Seen, At
  <2> QED
    BY <1>2, <1>5, <2>1, <2>2, <2>3 DEF UserOK, IndexingOK
<1>8. RowsOK(u)'
  BY <1>2 DEF UserOK, RowsOK, HasFiles, FilesOf
<1>9. CaptureOK(u)'
  <2>1. Unused(u)' <=> Unused(u)
    BY <1>2 DEF Unused
  <2>2. Version(u)' = Version(u) /\ FilesOf(u, job[u].got)' = FilesOf(u, job[u].got)
    BY <1>2 DEF Version, FilesOf
  <2>3. ASSUME job[u].pc \in Capture, NEW f \in FilesOf(u, job[u].got)
        PROVE  Between(u, Version(u), f.ver, doc'[u][job[u].doc])
    <3>1. job[u].doc \in Doc /\ Version(u) \in Nat
      BY <2>3, CaptureFacts
    <3>2. f.ver \in Nat
      BY <2>3 DEF FilesOf, Typed, FileType
    <3> QED
      BY <1>3, <2>3, <3>1, <3>2 DEF UserOK, CaptureOK
  <2>4. At(u, "add")' <=> At(u, "add")
    BY <1>2 DEF At
  <2>5. job'[u].pc \in Capture \cup {"discard", "unlink"} => Unused(u)'
    BY <1>2, <2>1 DEF UserOK, CaptureOK
  <2>6. ASSUME job[u].pc \in Capture
        PROVE  /\ \E f \in FilesOf(u, job[u].got) : f.ext = "rmdoc"
               /\ \A f \in FilesOf(u, job[u].got) :
                     /\ Between(u, Version(u), f.ver, doc'[u][job[u].doc])
                     /\ At(u, "add") /\ u \in Sync15 /\ Version(u) # 0 => f.ver = Version(u)
    BY <2>3, <2>6 DEF UserOK, CaptureOK
  <2> QED
    BY <1>2, <2>2, <2>4, <2>5, <2>6 DEF CaptureOK
<1>10. BackupsOK(u)'
  <2>1. ASSUME NEW d \in Doc, NEW low \in Nat, HasBackup(u, d, low)
        PROVE  \E b \in backups[u] : b.doc = d /\ Between(u, low, b.ver, doc'[u][d])
    <3>1. PICK b \in backups[u] : b.doc = d /\ Between(u, low, b.ver, doc[u][d])
      BY <2>1 DEF HasBackup
    <3>2. b.ver \in Nat
      BY DEF Typed, BackupType
    <3> QED
      BY <1>3, <3>1, <3>2
  <2>2. ASSUME At(u, "mark") PROVE job[u].doc \in Doc /\ Version(u) \in Nat
    <3>1. job[u].pc \in Loop /\ job[u].pc \in AtDocument
      BY <2>2, LabelFacts DEF At, AtDocument, Loop
    <3> QED
      BY <3>1, LoopFacts
  <2>3. /\ Version(u)' = Version(u) /\ (At(u, "mark")' <=> At(u, "mark"))
        /\ \A d \in Doc : exported[u][d] \in Nat
    BY <1>2, DocFacts DEF Version, At
  <2>4. \A d \in Doc : exported[u][d] # 0 =>
           \E b \in backups[u] : b.doc = d /\ Between(u, exported[u][d], b.ver, doc'[u][d])
    BY <2>1, <2>3 DEF UserOK, BackupsOK
  <2>5. At(u, "mark") => \E b \in backups[u] :
           b.doc = job[u].doc /\ Between(u, Version(u), b.ver, doc'[u][job[u].doc])
    BY <2>1, <2>2 DEF UserOK, BackupsOK
  <2> QED
    BY <1>2, <2>3, <2>4, <2>5 DEF BackupsOK, HasBackup
<1> QED
  BY <1>4, <1>6, <1>7, <1>8, <1>9, <1>10 DEF UserOK

LEMMA ChangeStep ==
    ASSUME Inv, NEW u \in User, NEW d \in Doc, NEW place \in {"library", "trash", "gone"},
           Change(u, d, place)
    PROVE  Inv'
<1>1. Typed /\ RunsOK /\ \A v \in User : UserOK(v)
  BY DEF Inv
<1>2. /\ \E v \in NextVersions(u, d) : doc' = [doc EXCEPT ![u][d] = [at |-> place, ver |-> v]]
      /\ UNCHANGED <<server, job, slots, open, tables, unsaved, cut>>
  BY DEF Change, observed
<1> PICK ver \in NextVersions(u, d) : doc' = [doc EXCEPT ![u][d] = [at |-> place, ver |-> ver]]
  BY <1>2
<1>3. \A v \in User : doc[v] \in [Doc -> DocType]
  BY <1>1 DEF Typed
<1> DEFINE new == [at |-> place, ver |-> ver]
<1>4. new \in DocType /\ (u \in Sync15 => new.ver > doc[u][d].ver)
  <2>1. ver \in Nat \ {0} /\ (u \in Sync15 => ver > doc[u][d].ver)
    BY <1>1, DocFacts DEF NextVersions
  <2> QED
    BY <2>1 DEF DocType
<1> HIDE DEF new
<1>5. doc' = [doc EXCEPT ![u] = [doc[u] EXCEPT ![d] = new]]
  BY <1>1, <1>2 DEF Typed, new
<1>6. doc'[u][d] = new /\ \A e \in Doc \ {d} : doc'[u][e] = doc[u][e]
  BY <1>1, <1>3, <1>5 DEF Typed
<1>7. \A v \in User \ {u} : doc'[v] = doc[v]
  BY <1>1, <1>5 DEF Typed
<1>8. doc' \in [User -> [Doc -> DocType]]
  BY <1>1, <1>3, <1>4, <1>5 DEF Typed
<1>9. ASSUME NEW v \in User PROVE UserOK(v)'
  <2>1. \A e \in Doc : Newer(v, e)
    BY <1>4, <1>6, <1>7, <1>8 DEF Newer
  <2> QED
    BY <1>1, <1>2, <2>1, NewerOK
<1>10. Typed'
  BY <1>1, <1>2, <1>8 DEF Typed, tables
<1>11. RunsOK'
  BY <1>1, <1>2 DEF RunsOK, Busy
<1> QED
  BY <1>9, <1>10, <1>11 DEF Inv

LEMMA EnvironmentStep ==
    ASSUME Inv, NEW u \in User, Environment(u)
    PROVE  Inv'
<1>1. PICK d \in Doc : Edit(u, d) \/ Trash(u, d) \/ Untrash(u, d) \/ Delete(u, d) \/ Restore(u, d)
  BY DEF Environment
<1>2. CASE Edit(u, d) \/ Untrash(u, d) \/ Restore(u, d)
  BY <1>2, ChangeStep DEF Edit, Untrash, Restore
<1>3. CASE Trash(u, d)
  BY <1>3, ChangeStep DEF Trash
<1>4. CASE Delete(u, d)
  BY <1>4, ChangeStep DEF Delete
<1> QED
  BY <1>1, <1>2, <1>3, <1>4

-----------------------------------------------------------------------------
(* The server stops, is killed, and starts again.                           *)

LEMMA ServerStep ==
    ASSUME Inv, Stop \/ Close \/ Crash \/ Open
    PROVE  Inv'
<1>1. Typed /\ RunsOK /\ \A v \in User : UserOK(v)
  BY DEF Inv
<1>2. doc' = doc /\ cut' = cut /\ UNCHANGED tables
  BY DEF Stop, Close, Crash, Open, observed
<1>3. job' = job \/ (DOMAIN job' = User /\ \A v \in User : job'[v] = Idle)
  BY DEF Stop, Close, Crash, Open
<1>4. Idle.pc = "idle" /\ Idle \in JobType
  BY DEF Idle, JobType
<1>5. ASSUME NEW v \in User PROVE UserOK(v)'
  <2>1. CASE job' = job
    BY <1>1, <1>2, <2>1, SameOK DEF Same, tables
  <2>2. CASE job'[v] = Idle
    BY <1>1, <1>2, <1>4, <2>2, ToFinish
  <2> QED
    BY <1>3, <2>1, <2>2
<1>6. Typed'
  BY <1>1, <1>2, <1>3, <1>4 DEF Typed, tables
<1>7. RunsOK'
  <2>1. CASE Stop
    BY <1>1, <2>1 DEF Stop, counts, observed, RunsOK, Busy
  <2>2. CASE Close
    <3>1. Busy = {}
      BY <1>1, <2>2, BusyFinite, FS_EmptySet DEF Close, RunsOK
    <3> QED
      BY <1>1, <2>2, <3>1 DEF Close, counts, observed, RunsOK, Busy
  <2>3. CASE Crash
    <3>1. slots' = 0 /\ server' = "down" /\ open' = open /\ \A v \in User : job'[v] = Idle
      BY <2>3 DEF Crash
    <3>2. Busy' = {} /\ Cardinality(Busy') = 0
      BY <3>1, FS_EmptySet DEF Busy
    <3> QED
      BY <1>1, <3>1, <3>2 DEF RunsOK
  <2>4. CASE Open
    <3>1. /\ job' = job /\ slots' = slots /\ server = "down" /\ server' = "up"
          /\ open' = [v \in User |-> 0]
      BY <2>4 DEF Open
    <3>2. Busy' = Busy /\ Busy = {}
      BY <1>1, <3>1 DEF Busy, RunsOK
    <3>3. \A v \in User : job'[v] = Idle /\ open'[v] = 0
      BY <3>1, <3>2 DEF Busy
    <3> QED
      BY <1>1, <3>1, <3>2, <3>3 DEF RunsOK
  <2> QED
    BY <2>1, <2>2, <2>3, <2>4
<1> QED
  BY <1>5, <1>6, <1>7 DEF Inv

-----------------------------------------------------------------------------
LEMMA InitInv == Init => Inv
<1> SUFFICES ASSUME Init PROVE Inv
  OBVIOUS
<1>1. /\ doc = [u \in User |-> [d \in Doc |-> [at |-> "library", ver |-> 1]]]
      /\ server = "up" /\ job = [u \in User |-> Idle] /\ slots = 0
      /\ open = [u \in User |-> 0] /\ index = [u \in User |-> [d \in Doc |-> None]]
      /\ snaps = [u \in User |-> [d \in Doc |-> <<>>]] /\ files = [u \in User |-> {}]
      /\ exported = [u \in User |-> [d \in Doc |-> 0]] /\ backups = [u \in User |-> {}]
  BY DEF Init
<1>2. Idle.pc = "idle" /\ Idle \in JobType
  BY DEF Idle, JobType
<1>3. Typed
  <2>1. doc \in [User -> [Doc -> DocType]]
    BY <1>1 DEF DocType
  <2>2. index \in [User -> [Doc -> {None} \cup PageType]]
    BY <1>1
  <2>3. snaps \in [User -> [Doc -> Seq(RowType)]]
    BY <1>1
  <2>4. files \in [User -> SUBSET FileType] /\ \A u \in User : IsFiniteSet(files[u])
    BY <1>1, FS_EmptySet
  <2>5. exported \in [User -> [Doc -> Nat]] /\ backups \in [User -> SUBSET BackupType]
    BY <1>1
  <2> QED
    BY <1>1, <1>2, <2>1, <2>2, <2>3, <2>4, <2>5 DEF Typed
<1>4. RunsOK
  <2>1. Busy = {} /\ Cardinality(Busy) = 0
    BY <1>1, FS_EmptySet DEF Busy
  <2> QED
    BY <1>1, <2>1 DEF RunsOK
<1>5. ASSUME NEW u \in User PROVE UserOK(u)
  <2>1. job[u].pc = "idle"
    BY <1>1, <1>2
  <2>2. KnowsPast(u) /\ IndexingOK(u)
    BY <2>1, LabelFacts DEF KnowsPast, IndexingOK, At
  <2>3. IndexOK(u)
    BY <1>1 DEF IndexOK
  <2>4. RowsOK(u)
    BY <1>1 DEF RowsOK
  <2>5. CaptureOK(u)
    BY <2>1 DEF CaptureOK, Capture
  <2>6. BackupsOK(u)
    BY <1>1, <2>1 DEF BackupsOK, At
  <2> QED
    BY <2>2, <2>3, <2>4, <2>5, <2>6 DEF UserOK
<1> QED
  BY <1>3, <1>4, <1>5 DEF Inv

LEMMA StutterStep == Inv /\ UNCHANGED vars => Inv'
<1> SUFFICES ASSUME Inv, UNCHANGED vars PROVE Inv'
  OBVIOUS
<1>1. Typed /\ RunsOK /\ \A v \in User : UserOK(v)
  BY DEF Inv
<1>2. /\ doc' = doc /\ server' = server /\ job' = job /\ slots' = slots /\ open' = open
      /\ UNCHANGED tables /\ unsaved' = unsaved /\ cut' = cut
  BY DEF vars, tables
<1>3. \A v \in User : UserOK(v)'
  BY <1>1, <1>2, SameOK DEF Same, tables
<1>4. Typed' /\ RunsOK'
  BY <1>1, <1>2 DEF Typed, RunsOK, Busy, tables
<1> QED
  BY <1>3, <1>4 DEF Inv

(* Every reachable state satisfies the invariant: what jobs hold, what they *)
(* have written and what is counted of them agree with the documents.       *)
THEOREM Invariant == Spec => []Inv
<1>1. Inv /\ [Next]_vars => Inv'
  <2> SUFFICES ASSUME Inv, Next PROVE Inv'
    BY StutterStep
  <2>1. CASE Stop \/ Close \/ Crash \/ Open
    BY <2>1, ServerStep
  <2>2. ASSUME NEW u \in User, Environment(u) PROVE Inv'
    BY <2>2, EnvironmentStep
  <2>3. ASSUME NEW u \in User, NEW kind \in Kinds, NEW only \in Asked \cup {None},
               Start(u, kind, only)
        PROVE  Inv'
    BY <2>3, StartStep
  <2>4. ASSUME NEW u \in User, Work(u) PROVE Inv'
    <3>1. Working(u) \/ Finish(u) \/ FinishFails(u)
      BY <2>4 DEF Work, Working, Checks
    <3> QED
      BY <3>1, WorkStep, FinishStep
  <2> QED
    BY <2>1, <2>2, <2>3, <2>4 DEF Next
<1> QED
  BY <1>1, InitInv, PTL DEF Spec

-----------------------------------------------------------------------------
(* A recorded snapshot always has its files; for an account of sync15 they  *)
(* hold the version it is recorded with, if it could be told (snapshot).    *)
THEOREM SnapshotsHoldTheirVersion == Spec => []SnapshotIsItsVersion
<1>1. Inv => SnapshotIsItsVersion
  <2> SUFFICES ASSUME Inv, NEW u \in User, NEW d \in Doc, NEW row \in Rows(u, d)
               PROVE  HasFiles(u, row)
    BY DEF SnapshotIsItsVersion, HasFiles
  <2>1. RowsOK(u)
    BY DEF Inv, UserOK
  <2>2. PICK i \in DOMAIN snaps[u][d] : row = snaps[u][d][i]
    BY DEF Rows
  <2> QED
    BY <2>1, <2>2 DEF RowsOK
<1> QED
  BY <1>1, Invariant, PTL

(* A document of sync15 that is indexed at its present version is found by  *)
(* its present text (index), unless a job has not seen the whole library.   *)
THEOREM IndexStaysFresh == Spec => []IndexIsFresh
<1>1. Inv => IndexIsFresh
  <2> SUFFICES ASSUME Inv, NEW u \in Sync15 \ cut, NEW d \in Listed(u),
                      index[u][d] # None, index[u][d].ver = doc[u][d].ver
               PROVE  index[u][d].pages = doc[u][d].ver
    BY DEF IndexIsFresh
  <2>1. Typed /\ u \in User /\ IndexOK(u)
    BY UserAssumption DEF Inv, UserOK
  <2>2. d \in Doc /\ doc[u][d].at = "library"
    BY DEF Listed
  <2>3. doc[u][d].ver \in Nat /\ index[u][d].pages \in Nat
    BY <2>1, <2>2, DocFacts DEF PageType
  <2>4. ~ Passed(u, d)
    BY <2>2, <2>3 DEF Passed
  <2>5. Between(u, index[u][d].ver, index[u][d].pages, doc[u][d])
    BY <2>1, <2>2, <2>4 DEF IndexOK
  <2> QED
    BY <2>3, <2>5 DEF Between
<1> QED
  BY <1>1, Invariant, PTL

(* What the daily backup of an account of sync15 skips is at the            *)
(* destination as it is now (backup).                                       *)
THEOREM SkippedAreBackedUp == Spec => []SkippedIsBackedUp
<1>1. Inv => SkippedIsBackedUp
  <2> SUFFICES ASSUME Inv, NEW u \in Sync15, NEW d \in Doc,
                      exported[u][d] = VersionOf(u, d), exported[u][d] # 0
               PROVE  [doc |-> d, ver |-> exported[u][d]] \in backups[u]
    BY DEF SkippedIsBackedUp
  <2>1. Typed /\ u \in User /\ BackupsOK(u)
    BY UserAssumption DEF Inv, UserOK
  <2>2. PICK b \in backups[u] : b.doc = d /\ Between(u, exported[u][d], b.ver, doc[u][d])
    BY <2>1 DEF BackupsOK, HasBackup
  <2>3. exported[u][d] \in Nat /\ exported[u][d] = doc[u][d].ver /\ b \in BackupType
    BY <2>1, DocFacts DEF Typed
  <2>4. b.ver = exported[u][d]
    BY <2>2, <2>3 DEF Between, BackupType
  <2>5. b = [doc |-> d, ver |-> exported[u][d]]
    BY <2>2, <2>3, <2>4 DEF BackupType
  <2> QED
    BY <2>2, <2>5
<1> QED
  BY <1>1, Invariant, PTL

(* The taken workers are those of running jobs, and no run is shown as      *)
(* running without one, but for those whose end could not be written.       *)
THEOREM AllJobsAccounted == Spec => []JobsAreAccounted
<1>1. Inv => JobsAreAccounted
  BY DEF Inv, RunsOK, Busy, JobsAreAccounted
<1> QED
  BY <1>1, Invariant, PTL

-----------------------------------------------------------------------------
(* What the steps of a job do to its record.                                *)

(* A step that gives a job in its loop a label and an ID.                   *)
LEMMA WithGot ==
    ASSUME Typed, NEW u \in User, job[u].pc \in Loop, NEW label \in Loop, NEW id \in Nat,
           job' = [job EXCEPT ![u].pc = label, ![u].got = id]
    PROVE  /\ job'[u].pc = label /\ job'[u].got = id
           /\ job'[u].doc = job[u].doc /\ job'[u].ver = job[u].ver
           /\ job'[u].retain = job[u].retain
<1> DEFINE r1 == [job[u] EXCEPT !.pc = label]
           r2 == [r1 EXCEPT !.got = id]
<1>1. job[u] \in LoopJob /\ DOMAIN job = User
  BY JobFacts DEF Typed
<1>2. job'[u] = r2
  BY <1>1
<1>3. /\ r1 \in LoopJob /\ r1.pc = label /\ r1.doc = job[u].doc /\ r1.ver = job[u].ver
      /\ r1.retain = job[u].retain
  BY <1>1 DEF LoopJob
<1> HIDE DEF r1
<1>4. /\ r2.pc = label /\ r2.got = id /\ r2.doc = r1.doc /\ r2.ver = r1.ver
      /\ r2.retain = r1.retain
  BY <1>3 DEF LoopJob
<1> QED
  BY <1>2, <1>3, <1>4

-----------------------------------------------------------------------------
(* No file without a row.                                                   *)

(* Where a job holds files that are in no row.                              *)
Holding == Capture \cup {"discard", "unlink"}

HasRow(u, f) == \E d \in Doc : \E i \in DOMAIN snaps[u][d] : snaps[u][d][i].id = f.id

Attributed(u, f) == HasRow(u, f) \/ (job[u].pc \in Holding /\ f.id = job[u].got)

(* Until the first failure every file is in a row, or the job at work knows *)
(* it and removes it or records it before it goes on.                       *)
FilesAttributed ==
    /\ faults \in Nat
    /\ faults = 0 => \A u \in User : \A f \in files[u] : Attributed(u, f)

(* Steps without files and rows, of a job that holds nothing.               *)
LEMMA EmptyHanded ==
    ASSUME NEW u \in User, \A f \in files[u] : Attributed(u, f), job[u].pc \notin Holding,
           files' = files, snaps' = snaps
    PROVE  \A f \in files'[u] : Attributed(u, f)'
BY DEF Attributed, HasRow

LEMMA QuietAttributed ==
    ASSUME NEW u \in User, \A f \in files[u] : Attributed(u, f),
           \/ List(u) \/ ListNothing(u) \/ ReadVersions(u) \/ InventoryFails(u)
           \/ Visit(u) \/ Interrupt(u) \/ LoopEnds(u) \/ Return(u)
           \/ Export(u) \/ Index(u) \/ PrunePages(u) \/ PruneRow(u) \/ PruneEnds(u)
           \/ TrimEnds(u) \/ Write(u) \/ MarkExported(u) \/ StatementFails(u)
    PROVE  \A f \in files'[u] : Attributed(u, f)'
<1>1. files' = files /\ snaps' = snaps
  <2> USE DEF tables
  <2>1. CASE \/ List(u) \/ ListNothing(u) \/ ReadVersions(u) \/ InventoryFails(u)
             \/ Visit(u) \/ Interrupt(u) \/ LoopEnds(u) \/ Return(u)
    BY <2>1 DEF List, ListNothing, Lists, ReadVersions, InventoryFails, Visit, Interrupt, LoopEnds, Return
  <2>2. CASE \/ Export(u) \/ Index(u) \/ PrunePages(u) \/ PruneRow(u) \/ PruneEnds(u)
             \/ TrimEnds(u) \/ Write(u) \/ MarkExported(u) \/ StatementFails(u)
    BY <2>2 DEF Export, Index, PrunePages, PruneRow, PruneEnds, TrimEnds, Write,
       MarkExported, StatementFails
  <2> QED
    BY <2>1, <2>2
<1>2. job[u].pc \notin Holding
  <2> USE DEF At, Holding, Capture, Kinds
  <2>1. CASE \/ List(u) \/ ListNothing(u) \/ ReadVersions(u) \/ InventoryFails(u)
             \/ Visit(u) \/ Interrupt(u) \/ LoopEnds(u) \/ Return(u)
    BY <2>1 DEF List, ListNothing, Lists, ReadVersions, InventoryFails, Visit, Interrupt, LoopEnds, Return
  <2>2. CASE \/ Export(u) \/ Index(u) \/ PrunePages(u) \/ PruneRow(u) \/ PruneEnds(u)
             \/ TrimEnds(u) \/ Write(u) \/ MarkExported(u) \/ StatementFails(u)
    BY <2>2 DEF Export, Index, PrunePages, PruneRow, PruneEnds, TrimEnds, Write,
       MarkExported, StatementFails
  <2> QED
    BY <2>1, <2>2
<1> QED
  BY <1>1, <1>2, EmptyHanded

LEMMA ExportRawAttributed ==
    ASSUME Typed, NEW u \in User, UserOK(u), \A f \in files[u] : Attributed(u, f), ExportRaw(u)
    PROVE  \A f \in files'[u] : Attributed(u, f)'
<1> DEFINE id == NewId(u)
           new == File(id, "rmdoc", Content(u, job[u].doc))
<1>1. /\ job[u].pc = "snapshots" /\ snaps' = snaps
      /\ job' = [job EXCEPT ![u].pc = "pdf", ![u].got = id]
      /\ files' = [files EXCEPT ![u] = @ \cup {new}]
  BY DEF ExportRaw, At
<1>2. job[u].pc \in Loop /\ "pdf" \in Loop /\ id \in Nat
  BY <1>1, NewIdIsNew DEF AtDocument, Kinds, Loop, Capture, UserOK
<1> HIDE DEF id
<1>3. job'[u].pc = "pdf" /\ job'[u].got = id
  BY <1>1, <1>2, WithGot, ZenonT(60)
<1>4. files'[u] = files[u] \cup {new} /\ new.id = id
  BY <1>1 DEF Typed, File
<1>5. "pdf" \in Holding /\ job[u].pc \notin Holding
  BY <1>1 DEF Holding, Capture
<1> QED
  BY <1>1, <1>3, <1>4, <1>5 DEF Attributed, HasRow

LEMMA CapturingAttributed ==
    ASSUME Typed, NEW u \in User, \A f \in files[u] : Attributed(u, f),
           ExportPdf(u) \/ Checks(u)
    PROVE  \A f \in files'[u] : Attributed(u, f)'
<1>1. job[u].pc \in Holding /\ job[u].pc \in Loop /\ snaps' = snaps
  BY DEF ExportPdf, Checks, Relist, Recheck, RecheckNothing, RecheckFails, AddFails, At, Holding, Capture, tables, AtDocument, Loop
<1>2. PICK label \in {"relist", "recheck", "add", "discard"} : Goto(u, label)
  BY DEF ExportPdf, Checks, Relist, Recheck, RecheckNothing, RecheckFails, AddFails
<1>3. job'[u].pc = label /\ job'[u].got = job[u].got
  BY <1>1, <1>2, WithLabel
<1>4. label \in Holding
  BY DEF Holding, Capture
<1>5. \A f \in files'[u] : f \in files[u] \/ f.id = job[u].got
  BY DEF Typed, ExportPdf, Checks, Relist, Recheck, RecheckNothing, RecheckFails, AddFails, tables, File
<1> QED
  BY <1>1, <1>3, <1>4, <1>5 DEF Attributed, HasRow

LEMMA RemovingAttributed ==
    ASSUME Typed, NEW u \in User, \A f \in files[u] : Attributed(u, f), Discard(u) \/ Unlink(u)
    PROVE  \A f \in files'[u] : Attributed(u, f)'
<1>1. /\ files' = [files EXCEPT ![u] = @ \ FilesOf(u, job[u].got)] /\ snaps' = snaps
  BY DEF Discard, Unlink
<1>2. \A f \in files'[u] : f \in files[u] /\ f.id # job[u].got
  BY <1>1 DEF Typed, FilesOf
<1> QED
  BY <1>1, <1>2 DEF Attributed, HasRow

LEMMA AddAttributed ==
    ASSUME Typed, NEW u \in User, UserOK(u), \A f \in files[u] : Attributed(u, f), AddSnapshot(u)
    PROVE  \A f \in files'[u] : Attributed(u, f)'
<1> DEFINE d == job[u].doc
           row == [id |-> job[u].got, ver |-> Version(u),
                   pdf |-> \E f \in FilesOf(u, job[u].got) : f.ext = "pdf"]
           new == <<row>> \o snaps[u][d]
<1>1. /\ job[u].pc = "add" /\ files' = files
      /\ snaps' = [snaps EXCEPT ![u][d] = <<row>> \o @]
  BY DEF AddSnapshot, At
<1>2. job[u].pc \in Capture
  BY <1>1 DEF Capture
<1>3. d \in Doc /\ job[u].got \in Nat /\ Version(u) \in Nat
  BY <1>2, CaptureFacts
<1>4. row \in RowType /\ row.id = job[u].got
  BY <1>3 DEF RowType
<1> HIDE DEF row
<1>5. snaps[u][d] \in Seq(RowType)
  BY <1>3, DocFacts
<1>6. /\ DOMAIN new = 1..(Len(snaps[u][d]) + 1) /\ DOMAIN snaps[u][d] = 1..Len(snaps[u][d])
      /\ Len(snaps[u][d]) \in Nat /\ new[1] = row
      /\ \A j \in 2..(Len(snaps[u][d]) + 1) : new[j] = snaps[u][d][j - 1]
  BY <1>4, <1>5, PrependIs
<1>7. snaps'[u][d] = new /\ \A e \in Doc \ {d} : snaps'[u][e] = snaps[u][e]
  BY <1>1, <1>3 DEF Typed
<1> HIDE DEF new, d
<1> SUFFICES ASSUME NEW f \in files[u] PROVE HasRow(u, f)'
  BY <1>1 DEF Attributed
<1>8. CASE HasRow(u, f)
  <2>0. PICK e \in Doc : \E i \in DOMAIN snaps[u][e] : snaps[u][e][i].id = f.id
    BY <1>8 DEF HasRow
  <2>1. PICK i \in DOMAIN snaps[u][e] : snaps[u][e][i].id = f.id
    BY <2>0
  <2>2. CASE e = d
    <3>1. i + 1 \in 2..(Len(snaps[u][d]) + 1) /\ i + 1 \in DOMAIN new
      BY <1>6, <2>1, <2>2
    <3>2. new[i + 1] = snaps[u][d][i]
      BY <1>6, <2>1, <2>2, <3>1
    <3> QED
      BY <1>7, <2>1, <2>2, <3>1, <3>2 DEF HasRow
  <2>3. CASE e # d
    BY <1>7, <2>1, <2>3 DEF HasRow
  <2> QED
    BY <2>2, <2>3
<1>9. CASE f.id = job[u].got
  <2>1. 1 \in DOMAIN new /\ new[1].id = f.id
    BY <1>4, <1>6, <1>9
  <2> QED
    BY <1>3, <1>7, <2>1 DEF HasRow
<1> QED
  BY <1>8, <1>9 DEF Attributed

(* What RemoveAt leaves in place.                                           *)
LEMMA RemoveAtKeeps ==
    ASSUME NEW S, NEW s \in Seq(S), NEW k \in 1..Len(s)
    PROVE  \A i \in DOMAIN s \ {k} : \E j \in DOMAIN RemoveAt(s, k) : RemoveAt(s, k)[j] = s[i]
<1> DEFINE a == SubSeq(s, 1, k - 1)
           b == SubSeq(s, k + 1, Len(s))
<1>0. Len(s) \in Nat /\ k \in Nat /\ 1 <= k /\ k <= Len(s)
  OBVIOUS
<1>1. a \in Seq(S) /\ Len(a) = k - 1 /\ \A j \in 1..(k - 1) : a[j] = s[j]
  BY SubSeqProperties
<1>2. /\ b \in Seq(S) /\ Len(b) = Len(s) - k
      /\ \A j \in 1..(Len(s) - k) : b[j] = s[k + j]
  BY SubSeqProperties
<1> HIDE DEF a, b
<1>3. /\ DOMAIN (a \o b) = 1..(Len(s) - 1) /\ DOMAIN s = 1..Len(s)
      /\ \A j \in 1..(Len(s) - 1) : (a \o b)[j] = IF j <= k - 1 THEN a[j] ELSE b[j - (k - 1)]
  BY <1>1, <1>2
<1>4. RemoveAt(s, k) = a \o b
  BY DEF RemoveAt, a, b
<1> SUFFICES ASSUME NEW i \in DOMAIN s \ {k}
             PROVE  \E j \in 1..(Len(s) - 1) : (a \o b)[j] = s[i]
  BY <1>3, <1>4
<1>5. i \in Nat /\ 1 <= i /\ i <= Len(s) /\ i # k
  <2>1. i \in 1..Len(s) /\ i # k
    BY <1>3
  <2> QED
    BY <1>0, <2>1
<1>6. CASE i < k
  <2>1. i \in 1..(Len(s) - 1) /\ i <= k - 1 /\ i \in 1..(k - 1)
    BY <1>0, <1>5, <1>6
  <2> QED
    BY <1>1, <1>3, <2>1
<1>7. CASE ~(i < k)
  <2>1. /\ i - 1 \in 1..(Len(s) - 1) /\ ~(i - 1 <= k - 1)
        /\ i - 1 - (k - 1) \in 1..(Len(s) - k) /\ k + (i - 1 - (k - 1)) = i
    BY <1>0, <1>5, <1>7
  <2>2. (a \o b)[i - 1] = b[i - 1 - (k - 1)]
    BY <1>3, <2>1
  <2>3. b[i - 1 - (k - 1)] = s[k + (i - 1 - (k - 1))]
    BY <1>2, <2>1
  <2> QED
    BY <2>1, <2>2, <2>3
<1> QED
  BY <1>6, <1>7

(* What Trim does: one row goes, the one after the first `retain`.          *)
LEMMA TrimFacts ==
    ASSUME Typed, NEW u \in User, UserOK(u), Trim(u)
    PROVE  LET d == job[u].doc
               k == Kept(u) + 1
           IN  /\ d \in Doc /\ job[u].retain \in Nat /\ k = job[u].retain + 1
               /\ snaps[u][d] \in Seq(RowType) /\ k \in 1..Len(snaps[u][d])
               /\ snaps'[u][d] = RemoveAt(snaps[u][d], k)
               /\ \A e \in Doc \ {d} : snaps'[u][e] = snaps[u][e]
               /\ job'[u].pc = "unlink" /\ job'[u].got = snaps[u][d][k].id
               /\ job'[u].doc = d /\ job'[u].ver = job[u].ver
               /\ job[u].pc = "trim" /\ files' = files /\ doc' = doc
<1> DEFINE d == job[u].doc
           old == snaps[u][d]
           k == Kept(u) + 1
           id == old[k].id
<1>1. /\ job[u].pc = "trim" /\ Len(old) > Kept(u)
      /\ job' = [job EXCEPT ![u].pc = "unlink", ![u].got = id]
      /\ snaps' = [snaps EXCEPT ![u][d] = RemoveAt(@, k)]
      /\ files' = files /\ doc' = doc
  BY DEF Trim, At
<1>2. job[u].pc \in AtDocument /\ job[u].pc \in Loop /\ "unlink" \in Loop
  BY <1>1, LabelFacts DEF AtDocument, Loop
<1>3. job[u] \in LoopJob
  BY <1>2, JobFacts
<1>4. d \in Doc
  BY <1>2, LoopFacts
<1>5. old \in Seq(RowType)
  BY <1>4, DocFacts
<1>6. k \in 1..Len(old) /\ k \in Nat /\ job[u].retain \in Nat /\ k = job[u].retain + 1
  BY <1>1, <1>3, <1>5 DEF LoopJob, Kept
<1> HIDE DEF k
<1>7. id \in Nat
  <2>1. old[k] \in RowType
    BY <1>5, <1>6
  <2> QED
    BY <2>1 DEF RowType
<1> HIDE DEF id
<1>8. /\ job'[u].pc = "unlink" /\ job'[u].got = id
      /\ job'[u].doc = d /\ job'[u].ver = job[u].ver
  BY <1>1, <1>2, <1>7, WithGot, ZenonT(60)
<1>9. snaps'[u][d] = RemoveAt(old, k) /\ \A e \in Doc \ {d} : snaps'[u][e] = snaps[u][e]
  BY <1>1, <1>4 DEF Typed
<1> QED
  BY <1>1, <1>4, <1>5, <1>6, <1>8, <1>9 DEF k, id

LEMMA TrimAttributed ==
    ASSUME Typed, NEW u \in User, UserOK(u), \A f \in files[u] : Attributed(u, f), Trim(u)
    PROVE  \A f \in files'[u] : Attributed(u, f)'
<1> DEFINE d == job[u].doc
           k == Kept(u) + 1
           old == snaps[u][d]
<1>1. /\ d \in Doc /\ old \in Seq(RowType) /\ k \in 1..Len(old)
      /\ snaps'[u][d] = RemoveAt(old, k)
      /\ \A e \in Doc \ {d} : snaps'[u][e] = snaps[u][e]
      /\ job'[u].pc = "unlink" /\ job'[u].got = old[k].id
      /\ job[u].pc = "trim" /\ files' = files
  BY TrimFacts
<1> HIDE DEF k, d, old
<1>2. \A i \in DOMAIN old \ {k} : \E j \in DOMAIN RemoveAt(old, k) : RemoveAt(old, k)[j] = old[i]
  BY <1>1, RemoveAtKeeps
<1>3. "trim" \notin Holding /\ "unlink" \in Holding
  BY DEF Holding, Capture
<1> SUFFICES ASSUME NEW f \in files[u] PROVE HasRow(u, f)' \/ f.id = job'[u].got
  BY <1>1, <1>3 DEF Attributed
<1>4. PICK e \in Doc : \E i \in DOMAIN snaps[u][e] : snaps[u][e][i].id = f.id
  BY <1>1, <1>3 DEF Attributed, HasRow
<1>5. PICK i \in DOMAIN snaps[u][e] : snaps[u][e][i].id = f.id
  BY <1>4
<1>6. CASE e # d
  BY <1>1, <1>5, <1>6 DEF HasRow
<1>7. CASE e = d /\ i = k
  BY <1>1, <1>5, <1>7 DEF old
<1>8. CASE e = d /\ i # k
  <2>1. i \in DOMAIN old \ {k}
    BY <1>8 DEF old
  <2>2. PICK j \in DOMAIN snaps'[u][d] : snaps'[u][d][j] = old[i]
    BY <1>1, <1>2, <2>1
  <2> QED
    BY <1>1, <1>5, <1>8, <2>2 DEF HasRow, old
<1> QED
  BY <1>6, <1>7, <1>8

LEMMA WorkAttributed ==
    ASSUME Inv, FilesAttributed, NEW u \in User, Working(u)
    PROVE  FilesAttributed'
<1>1. Typed /\ \A v \in User : UserOK(v)
  BY DEF Inv
<1>2. MovesOn(u) /\ LeavesOthers(u)
  BY <1>1, WorkingFacts
<1>3. faults' = faults \/ faults' = faults + 1
  <2> USE DEF observed, counts, Fault
  <2>1. CASE List(u) \/ ListNothing(u) \/ ReadVersions(u) \/ InventoryFails(u) \/ Visit(u) \/ Interrupt(u) \/ LoopEnds(u)
    BY <2>1 DEF List, ListNothing, Lists, ReadVersions, InventoryFails, Visit, Interrupt, LoopEnds
  <2>2. CASE Return(u) \/ PruneEnds(u) \/ TrimEnds(u) \/ StatementFails(u) \/ Export(u) \/ Index(u)
    BY <2>2 DEF Return, PruneEnds, TrimEnds, StatementFails, Export, Index
  <2>3. CASE PrunePages(u) \/ PruneRow(u) \/ ExportRaw(u) \/ ExportPdf(u) \/ Discard(u)
    BY <2>3 DEF PrunePages, PruneRow, ExportRaw, ExportPdf, Discard
  <2>4. CASE Checks(u) \/ AddSnapshot(u) \/ Trim(u)
    BY <2>4 DEF Checks, Relist, Recheck, RecheckNothing, RecheckFails, AddFails, AddSnapshot, Trim
  <2>5. CASE Unlink(u) \/ RemoveFails(u) \/ Write(u) \/ MarkExported(u)
    BY <2>5 DEF Unlink, RemoveFails, Write, MarkExported
  <2> QED
    BY <2>1, <2>2, <2>3, <2>4, <2>5 DEF Working
<1>4. faults \in Nat /\ faults' \in Nat /\ (faults' = 0 => faults = 0)
  BY <1>3 DEF FilesAttributed
<1> SUFFICES ASSUME faults' = 0, NEW v \in User PROVE \A f \in files'[v] : Attributed(v, f)'
  BY <1>4 DEF FilesAttributed
<1>5. \A f \in files[v] : Attributed(v, f)
  BY <1>4 DEF FilesAttributed
<1>6. CASE v # u
  <2>1. files'[v] = files[v] /\ snaps'[v] = snaps[v] /\ job'[v] = job[v]
    BY <1>2, <1>6 DEF LeavesOthers, MovesOn
  <2> QED
    BY <1>5, <2>1 DEF Attributed, HasRow
<1>7. CASE v = u
  <2>1. ~ RemoveFails(u)
    BY <1>4 DEF RemoveFails, Fault
  <2>2. \A f \in files[u] : Attributed(u, f)
    BY <1>5, <1>7
  <2> QED
    BY <1>1, <1>7, <2>1, <2>2, QuietAttributed, ExportRawAttributed, CapturingAttributed,
       RemovingAttributed, AddAttributed, TrimAttributed DEF Working
<1> QED
  BY <1>6, <1>7

(* Without a crash, an error of the database or a file that cannot be       *)
(* removed, no job leaves a file that no snapshot refers to, whichever way  *)
(* the capture ended (snapshot).                                            *)
THEOREM NoFileWithoutRow == Spec => []NoLitter
<1>1. Init => FilesAttributed
  BY DEF Init, FilesAttributed
<1>2. Inv /\ FilesAttributed /\ [Next]_vars => FilesAttributed'
  <2> SUFFICES ASSUME Inv, FilesAttributed, [Next]_vars PROVE FilesAttributed'
    OBVIOUS
  <2>1. Typed /\ faults \in Nat
    BY DEF Inv, FilesAttributed
  <2>2. CASE \/ UNCHANGED vars \/ Stop \/ Close \/ Open
             \/ \E u \in User : Environment(u)
    <3>1. faults' = faults /\ job' = job /\ snaps' = snaps /\ files' = files
      BY <2>2 DEF vars, Stop, Close, Open, observed, tables, counts, Environment, Edit, Trash,
         Untrash, Delete, Restore, Change
    <3> QED
      BY <3>1 DEF FilesAttributed, Attributed, HasRow
  <2>3. CASE Crash \/ \E u \in User : FinishFails(u)
    <3>1. faults' = faults + 1
      BY <2>3 DEF Crash, FinishFails, Fault
    <3> QED
      BY <2>1, <3>1 DEF FilesAttributed
  <2>4. ASSUME NEW u \in User, NEW kind \in Kinds, NEW only \in Asked \cup {None},
               Start(u, kind, only) \/ Finish(u)
        PROVE  FilesAttributed'
    <3>1. faults' = faults /\ snaps' = snaps /\ files' = files
      BY <2>4 DEF Start, Finish, observed, tables
    <3>2. \A v \in User \ {u} : job'[v] = job[v]
      BY <2>1, <2>4 DEF Start, Finish, End, Typed
    <3>3. job[u].pc \notin Holding
      BY <2>4 DEF Start, CanStart, Idle, Finish, End, At, Holding, Capture
    <3>4. ASSUME NEW v \in User, NEW f \in files[v], Attributed(v, f) PROVE Attributed(v, f)'
      BY <3>1, <3>2, <3>3, <3>4 DEF Attributed, HasRow
    <3> QED
      BY <3>1, <3>4 DEF FilesAttributed
  <2>5. ASSUME NEW u \in User, Working(u) PROVE FilesAttributed'
    BY <2>5, WorkAttributed
  <2>6. ASSUME NEW u \in User, Work(u) PROVE FilesAttributed'
    <3>1. Working(u) \/ Finish(u) \/ FinishFails(u)
      BY <2>6 DEF Work, Working, Checks
    <3>2. "index" \in Kinds /\ None \in Asked \cup {None}
      BY DEF Kinds
    <3> QED
      BY <2>3, <2>4, <2>5, <3>1, <3>2
  <2> QED
    BY <2>2, <2>3, <2>4, <2>6 DEF Next
<1>3. Inv /\ FilesAttributed => NoLitter
  <2> SUFFICES ASSUME Inv, FilesAttributed, faults = 0, NEW u \in User, job[u] = Idle,
                      NEW f \in files[u]
               PROVE  \E d \in Doc : \E row \in Rows(u, d) : row.id = f.id
    BY DEF NoLitter
  <2>1. job[u].pc \notin Holding
    BY DEF Idle, Holding, Capture
  <2> QED
    BY <2>1 DEF FilesAttributed, Attributed, HasRow, Rows
<1> QED
  BY <1>1, <1>2, <1>3, Invariant, PTL DEF Spec

-----------------------------------------------------------------------------
(* What retention deletes.                                                  *)

LEMMA RowFacts ==
    ASSUME Typed, NEW u \in User, NEW d \in Doc, NEW i \in DOMAIN snaps[u][d]
    PROVE  /\ DOMAIN snaps[u][d] = 1..Len(snaps[u][d]) /\ Len(snaps[u][d]) \in Nat
           /\ i \in Nat /\ i >= 1 /\ i <= Len(snaps[u][d])
           /\ snaps[u][d][i] \in RowType /\ snaps[u][d][i].ver \in Nat
<1>1. snaps[u][d] \in Seq(RowType)
  BY DocFacts
<1>2. DOMAIN snaps[u][d] = 1..Len(snaps[u][d]) /\ Len(snaps[u][d]) \in Nat
  BY <1>1
<1>3. snaps[u][d][i] \in RowType
  BY <1>1, <1>2
<1> QED
  BY <1>2, <1>3 DEF RowType

(* A capture puts its row before the others, which stay.                    *)
LEMMA AddFacts ==
    ASSUME Typed, NEW u \in User, UserOK(u), AddSnapshot(u)
    PROVE  LET d == job[u].doc
               old == snaps[u][d]
           IN  /\ job[u].pc \in Capture /\ job[u].pc \in Loop /\ d \in Doc /\ Version(u) \in Nat
               /\ d \in DOMAIN job[u].ver
               /\ job'[u].pc = "trim" /\ job'[u].ver = job[u].ver /\ doc' = doc
               /\ \A e \in Doc \ {d} : snaps'[u][e] = snaps[u][e]
               /\ DOMAIN old = 1..Len(old) /\ Len(old) \in Nat
               /\ DOMAIN snaps'[u][d] = 1..(Len(old) + 1)
               /\ snaps'[u][d][1].ver = Version(u)
               /\ \A j \in 2..(Len(old) + 1) :
                     j - 1 \in DOMAIN old /\ snaps'[u][d][j] = old[j - 1]
<1> DEFINE d == job[u].doc
           old == snaps[u][d]
           row == [id |-> job[u].got, ver |-> Version(u),
                   pdf |-> \E f \in FilesOf(u, job[u].got) : f.ext = "pdf"]
           new == <<row>> \o old
<1>1. /\ job[u].pc = "add" /\ doc' = doc
      /\ snaps' = [snaps EXCEPT ![u][d] = <<row>> \o @]
      /\ job' = [job EXCEPT ![u].pc = "trim", ![u].got = 0]
  BY DEF AddSnapshot, At
<1>2. job[u].pc \in Capture /\ job[u].pc \in Loop /\ "trim" \in Loop
  BY <1>1, LabelFacts DEF Capture, Loop, AtDocument
<1>3. /\ d \in Doc /\ job[u].got \in Nat /\ Version(u) \in Nat /\ d \in DOMAIN job[u].ver
  BY <1>2, CaptureFacts, LoopFacts
<1>4. row \in RowType /\ row.ver = Version(u)
  BY <1>3 DEF RowType
<1> HIDE DEF row
<1>5. old \in Seq(RowType)
  BY <1>3, DocFacts
<1>6. /\ DOMAIN new = 1..(Len(old) + 1) /\ DOMAIN old = 1..Len(old)
      /\ Len(old) \in Nat /\ new[1] = row
      /\ \A j \in 2..(Len(old) + 1) : j - 1 \in DOMAIN old /\ new[j] = old[j - 1]
  BY <1>4, <1>5, PrependIs
<1>7. snaps'[u][d] = new /\ \A e \in Doc \ {d} : snaps'[u][e] = snaps[u][e]
  BY <1>1, <1>3 DEF Typed
<1>8. job'[u].pc = "trim" /\ job'[u].ver = job[u].ver
  BY <1>1, <1>2, WithGot
<1> HIDE DEF new
<1> QED
  BY <1>1, <1>2, <1>3, <1>4, <1>6, <1>7, <1>8

(* The rows before the one that Trim deletes are as many as are kept, and   *)
(* they stay.                                                               *)
LEMMA TrimLeavesNewer ==
    ASSUME Inv, NEW u \in User, Trim(u), NEW d \in Doc, NEW i \in DOMAIN snaps[u][d],
           snaps[u][d][i] \notin Rows(u, d)'
    PROVE  Cardinality({k \in 1..(i - 1) : snaps[u][d][k] \in Rows(u, d)'}) >= job[u].retain
<1> DEFINE n == job[u].retain
           old == snaps[u][d]
           new == snaps'[u][d]
           stays == {k \in 1..(i - 1) : old[k] \in Rows(u, d)'}
<1>1. Typed /\ UserOK(u)
  BY DEF Inv
<1>2. /\ n \in Nat
      /\ d # job[u].doc => new = old
      /\ d = job[u].doc => n + 1 \in 1..Len(old) /\ new = RemoveAt(old, n + 1)
  BY <1>1, TrimFacts
<1>3. Rows(u, d)' = {new[j] : j \in DOMAIN new}
  BY DEF Rows
<1>4. d = job[u].doc
  <2> SUFFICES ASSUME new = old PROVE FALSE
    BY <1>2
  <2> QED
    BY <1>3
<1>5. old \in Seq(RowType) /\ DOMAIN old = 1..Len(old) /\ Len(old) \in Nat
  BY <1>1, DocFacts
<1>6. \A m \in DOMAIN old \ {n + 1} : \E j \in DOMAIN new : new[j] = old[m]
  <2>1. n + 1 \in 1..Len(old) /\ new = RemoveAt(old, n + 1)
    BY <1>2, <1>4
  <2> HIDE DEF n, old, new
  <2>2. \A m \in DOMAIN old \ {n + 1} : \E j \in DOMAIN RemoveAt(old, n + 1) :
           RemoveAt(old, n + 1)[j] = old[m]
    BY <1>5, <2>1, RemoveAtKeeps
  <2> QED
    BY <2>1, <2>2
<1>7. i = n + 1
  BY <1>3, <1>6
<1>8. n + 1 \in 1..Len(old)
  BY <1>2, <1>4
<1> HIDE DEF old, new, n
<1>9. \A k \in 1..n : old[k] \in Rows(u, d)'
  <2> SUFFICES ASSUME NEW k \in 1..n PROVE old[k] \in Rows(u, d)'
    OBVIOUS
  <2>1. k \in DOMAIN old \ {n + 1}
    BY <1>2, <1>5, <1>8
  <2> QED
    BY <1>3, <1>6, <2>1
<1>10. i - 1 = n
  BY <1>2, <1>7
<1>11. stays = 1..n
  BY <1>9, <1>10
<1> HIDE DEF stays
<1>12. Cardinality(1..n) = n
  BY <1>2, FS_Interval
<1>13. Cardinality(stays) >= n
  BY <1>2, <1>11, <1>12
<1> QED
  BY <1>13 DEF stays, old, n

(* No other step takes a row away.                                          *)
LEMMA OnlyTrimDeletes ==
    ASSUME Inv, NEW u \in User, NEW d \in Doc, NEW i \in DOMAIN snaps[u][d], [Next]_vars,
           snaps[u][d][i] \notin Rows(u, d)'
    PROVE  Trim(u)
<1>1. Typed /\ \A v \in User : UserOK(v)
  BY DEF Inv
<1>2. snaps'[u] # snaps[u]
  BY DEF Rows
<1>3. CASE \/ UNCHANGED vars \/ Stop \/ Close \/ Open \/ Crash
           \/ \E v \in User : \/ Environment(v) \/ Finish(v) \/ FinishFails(v)
                              \/ \E kind \in Kinds, only \in Asked \cup {None} : Start(v, kind, only)
  <2>1. snaps' = snaps
    BY <1>3 DEF vars, Stop, Close, Open, Crash, Environment, Edit, Trash, Untrash, Delete, Restore, Change,
       Finish, FinishFails, Start, tables
  <2> QED
    BY <1>2, <2>1
<1>4. ASSUME NEW v \in User, Working(v) PROVE Trim(u)
  <2>1. v = u
    BY <1>1, <1>2, <1>4, WorkingFacts DEF LeavesOthers
  <2>2. CASE \/ List(u) \/ ListNothing(u) \/ ReadVersions(u) \/ InventoryFails(u)
             \/ Visit(u) \/ Interrupt(u) \/ LoopEnds(u) \/ Return(u)
             \/ Export(u) \/ Index(u) \/ PrunePages(u) \/ PruneRow(u) \/ PruneEnds(u)
             \/ TrimEnds(u) \/ Write(u) \/ MarkExported(u) \/ StatementFails(u)
    <3>1. snaps' = snaps
      <4>1. CASE \/ List(u) \/ ListNothing(u) \/ ReadVersions(u) \/ InventoryFails(u)
                 \/ Visit(u) \/ Interrupt(u) \/ LoopEnds(u) \/ Return(u)
        BY <4>1 DEF List, ListNothing, Lists, ReadVersions, InventoryFails, Visit, Interrupt, LoopEnds, Return, tables
      <4>2. CASE \/ Export(u) \/ Index(u) \/ PrunePages(u) \/ PruneRow(u) \/ PruneEnds(u)
                 \/ TrimEnds(u) \/ Write(u) \/ MarkExported(u) \/ StatementFails(u)
        BY <4>2 DEF Export, Index, PrunePages, PruneRow, PruneEnds, TrimEnds, Write,
           MarkExported, StatementFails, tables
      <4> QED
        BY <2>2, <4>1, <4>2
    <3> QED
      BY <1>2, <3>1
  <2>3. CASE ExportRaw(u) \/ ExportPdf(u) \/ Checks(u) \/ Discard(u) \/ Unlink(u) \/ RemoveFails(u)
    <3>1. snaps' = snaps
      <4>1. CASE Checks(u)
        BY <4>1 DEF Checks, Relist, Recheck, RecheckNothing, RecheckFails, AddFails, tables
      <4>2. CASE ExportRaw(u) \/ ExportPdf(u) \/ Discard(u) \/ Unlink(u) \/ RemoveFails(u)
        BY <4>2 DEF ExportRaw, ExportPdf, Discard, Unlink, RemoveFails
      <4> QED
        BY <2>3, <4>1, <4>2
    <3> QED
      BY <1>2, <3>1
  <2>4. CASE AddSnapshot(u)
    <3> DEFINE old == snaps[u][job[u].doc]
    <3>1. /\ \A e \in Doc \ {job[u].doc} : snaps'[u][e] = snaps[u][e]
          /\ DOMAIN old = 1..Len(old) /\ Len(old) \in Nat
          /\ DOMAIN snaps'[u][job[u].doc] = 1..(Len(old) + 1)
          /\ \A j \in 2..(Len(old) + 1) : snaps'[u][job[u].doc][j] = old[j - 1]
      BY <1>1, <2>4, AddFacts
    <3>2. d = job[u].doc
      BY <3>1 DEF Rows
    <3>3. i + 1 \in 2..(Len(old) + 1) /\ i + 1 \in DOMAIN snaps'[u][d] /\ i + 1 - 1 = i
      BY <3>1, <3>2, SMTT(30)
    <3>4. snaps'[u][d][i + 1] = snaps[u][d][i]
      BY <3>1, <3>2, <3>3, SMTT(30)
    <3> QED
      BY <3>3, <3>4 DEF Rows
  <2> QED
    BY <1>4, <2>1, <2>2, <2>3, <2>4 DEF Working
<1>5. ASSUME NEW v \in User, Work(v) PROVE Working(v) \/ Finish(v) \/ FinishFails(v)
  BY <1>5 DEF Work, Working, Checks
<1> QED
  BY <1>3, <1>4, <1>5 DEF Next

(* Retention deletes only what has `retain` newer snapshots of the same     *)
(* document that stay, also when earlier jobs failed to delete (snapshot).  *)
THEOREM OnlyTheOldestGo == Spec => TrimsOnlyTheOldest
<1>1. Inv /\ [Next]_vars =>
         [\A u \in User, d \in Doc : \A i \in DOMAIN snaps[u][d] :
             snaps[u][d][i] \notin Rows(u, d)'
                => Cardinality({k \in 1..(i - 1) : snaps[u][d][k] \in Rows(u, d)'})
                      >= job[u].retain]_vars
  BY OnlyTrimDeletes, TrimLeavesNewer
<1> QED
  BY <1>1, Invariant, PTL DEF Spec, TrimsOnlyTheOldest
-----------------------------------------------------------------------------
(* The types: what the invariant does not say of them is that the workers   *)
(* suffice, and what is left of the record of a job that ends.              *)

WithinBounds ==
    /\ slots <= Slots
    /\ edits \in 0..MaxEdits /\ runs \in 0..MaxRuns /\ faults \in 0..MaxFaults
    /\ unsaved \subseteq User /\ cut \subseteq User

EndKnown(u) ==
    job[u].pc = "finish" => job[u].kind \in Kinds /\ job[u].only \in Which

Values == WithinBounds /\ \A u \in User : EndKnown(u)

(* A job comes to its end by a new label, which leaves the rest.            *)
LEMMA EndingSteps ==
    ASSUME Typed, NEW u \in User, UserOK(u), InventoryFails(u) \/ PruneEnds(u) \/ StatementFails(u)
    PROVE  EndKnown(u)'
<1>1. CASE job[u].pc \in Loop /\ Goto(u, "finish")
  <2>1. job'[u].kind = job[u].kind /\ job'[u].only = job[u].only
    BY <1>1, WithLabel
  <2>2. job[u] \in LoopJob
    BY <1>1, JobFacts
  <2> QED
    BY <2>1, <2>2 DEF LoopJob, EndKnown
<1>2. CASE job[u].pc \in Loop /\ NextDocument(u)
  BY <1>2, NextFacts DEF EndKnown
<1>3. CASE InventoryFails(u)
  <2>1. job[u].pc \in {"list", "versions"} /\ Goto(u, "finish") /\ DOMAIN job = User
    BY <1>3 DEF InventoryFails, At, Typed
  <2>2. job'[u] = [job[u] EXCEPT !.pc = "finish"]
    BY <2>1 DEF Goto
  <2>3. \/ job[u] \in [pc : {"list"}, kind : Kinds, only : Which]
        \/ job[u] \in [pc : {"versions"}, kind : Kinds, only : Which, todo : SUBSET Doc]
    BY <2>1, JobFacts
  <2> QED
    BY <2>2, <2>3 DEF EndKnown
<1>4. CASE PruneEnds(u)
  BY <1>1, <1>4 DEF PruneEnds, At, Loop
<1>5. CASE StatementFails(u)
  <2>1. job[u].pc \in Loop /\ (Goto(u, "finish") \/ NextDocument(u))
    BY <1>5 DEF StatementFails, At, Loop, AtDocument
  <2> QED
    BY <1>1, <1>2, <2>1
<1> QED
  BY <1>3, <1>4, <1>5

LEMMA InterruptLabel ==
    ASSUME Typed, NEW u \in User, UserOK(u), Interrupt(u)
    PROVE  job'[u].pc = "prune"
<1>1. job[u] \in LoopJob /\ DOMAIN job = User
  <2>1. job[u].pc \in Loop
    BY DEF Interrupt, At, Loop
  <2> QED
    BY <2>1, JobFacts DEF Typed
<1>2. PICK d \in job[u].todo :
         job' = [job EXCEPT ![u].todo = {}, ![u].live = @ \cup {d}, ![u].pc = "prune"]
  BY DEF Interrupt
<1> DEFINE r1 == [job[u] EXCEPT !.todo = {}]
           r2 == [r1 EXCEPT !.live = r1.live \cup {d}]
<1>3. job'[u] = [r2 EXCEPT !.pc = "prune"]
  BY <1>1, <1>2
<1>4. "pc" \in DOMAIN r2
  <2>1. "pc" \in DOMAIN r1
    BY <1>1 DEF LoopJob
  <2> HIDE DEF r1
  <2> QED
    BY <2>1
<1> HIDE DEF r2
<1> QED
  BY <1>3, <1>4

(* The others leave it in its loop.                                         *)
LEMMA OtherSteps ==
    ASSUME Typed, NEW u \in User, UserOK(u), Working(u),
           ~(InventoryFails(u) \/ PruneEnds(u) \/ StatementFails(u))
    PROVE  job'[u].pc # "finish"
<1>0. DOMAIN job = User
  BY DEF Typed
<1>1. CASE List(u) \/ ListNothing(u)
  BY <1>0, <1>1 DEF List, ListNothing, Lists
<1>2. CASE ReadVersions(u)
  <2>1. \E told \in {TRUE, ~SeesNothing(u)} :
           \E retain \in (IF job[u].kind = "snapshots" THEN Retain ELSE {0}),
              daily \in (IF job[u].kind = "backup" THEN BOOLEAN ELSE {TRUE}) :
              job' = [job EXCEPT ![u] =
                        [pc |-> "next", kind |-> job[u].kind, only |-> job[u].only,
                         todo |-> job[u].todo, live |-> {}, doc |-> None, got |-> 0,
                         ver |-> [d \in job[u].todo |-> IF told THEN VersionOf(u, d) ELSE 0],
                         retain |-> retain, daily |-> daily]]
    BY <1>2 DEF ReadVersions
  <2> QED
    BY <1>0, <2>1
<1>3. CASE Visit(u)
  BY <1>3, VisitFacts, LabelFacts DEF LoopJob
<1>4. CASE Interrupt(u)
  BY <1>4, InterruptLabel
<1>5. ASSUME NextDocument(u), job[u].pc \in Loop PROVE job'[u].pc # "finish"
  BY <1>5, NextFacts
<1>6. ASSUME NEW label, label # "finish", Goto(u, label), job[u].pc \in Loop
      PROVE  job'[u].pc # "finish"
  <2>1. job'[u].pc = label
    BY <1>6, WithLabel
  <2> QED
    BY <1>6, <2>1
<1>7. CASE \/ Return(u) \/ Index(u) \/ Discard(u) \/ TrimEnds(u) \/ MarkExported(u)
           \/ (At(u, "discard") /\ RemoveFails(u))
  BY <1>5, <1>7 DEF RemoveFails, Return, Index, Discard, TrimEnds, MarkExported, At, Loop, AtDocument
<1>8. CASE LoopEnds(u) \/ ExportPdf(u) \/ Write(u)
  <2>1. job[u].pc \in Loop
    BY <1>8 DEF LoopEnds, ExportPdf, Write, At, Loop, AtDocument, Capture, Kinds
  <2>2. Goto(u, "prune") \/ Goto(u, "relist") \/ Goto(u, "mark")
    BY <1>8 DEF LoopEnds, ExportPdf, Write
  <2> QED
    BY <1>6, <2>1, <2>2
<1>9. CASE Checks(u)
  <2>1. job[u].pc \in Loop
    BY <1>9 DEF Checks, Relist, Recheck, RecheckNothing, RecheckFails, AddFails, At, Loop, AtDocument, Capture
  <2>2. Goto(u, "recheck") \/ Goto(u, "add") \/ Goto(u, "discard")
    BY <1>9 DEF Checks, Relist, Recheck, RecheckNothing, RecheckFails, AddFails
  <2> QED
    BY <1>6, <2>1, <2>2
<1>10. CASE AddSnapshot(u)
  BY <1>10, AddFacts
<1>11. CASE Trim(u)
  BY <1>11, TrimFacts
<1>12. ASSUME NEW label, label # "finish", NEW got, job[u].pc \in Loop,
              job' = [job EXCEPT ![u].pc = label, ![u].got = got]
       PROVE  job'[u].pc # "finish"
  <2> DEFINE r1 == [job[u] EXCEPT !.pc = label]
  <2>1. job[u] \in LoopJob
    BY <1>12, JobFacts
  <2>2. job'[u] = [r1 EXCEPT !.got = got]
    BY <1>0, <1>12
  <2>3. DOMAIN r1 = DOMAIN job[u] /\ "pc" \in DOMAIN r1 /\ r1.pc = label
    BY <2>1 DEF LoopJob
  <2> HIDE DEF r1
  <2> QED
    BY <1>12, <2>2, <2>3
<1>13. CASE Export(u)
  <2>1. job[u].pc \in Loop
    BY <1>13 DEF Export, At, Loop, AtDocument, Kinds
  <2> QED
    BY <1>12, <1>13, <2>1 DEF Export
<1>14. CASE ExportRaw(u)
  <2>1. job[u].pc \in Loop
    BY <1>14 DEF ExportRaw, At, Loop, AtDocument, Kinds
  <2> QED
    BY <1>12, <1>14, <2>1 DEF ExportRaw
<1>15. CASE Unlink(u) \/ (At(u, "unlink") /\ RemoveFails(u))
  <2>1. job[u].pc \in Loop /\ job' = [job EXCEPT ![u].pc = "trim", ![u].got = 0]
    BY <1>15 DEF Unlink, RemoveFails, At, Loop, AtDocument
  <2> QED
    BY <1>12, <2>1
<1>16. CASE PrunePages(u)
  <2>1. PICK d : job' = [job EXCEPT ![u].doc = d, ![u].pc = "unindex"]
    BY <1>16 DEF PrunePages
  <2>2. job[u] \in LoopJob
    BY <1>16, JobFacts DEF PrunePages, At, Loop
  <2> DEFINE r1 == [job[u] EXCEPT !.doc = d]
  <2>3. job'[u] = [r1 EXCEPT !.pc = "unindex"]
    BY <1>0, <2>1
  <2>4. "pc" \in DOMAIN r1
    BY <2>2 DEF LoopJob
  <2> HIDE DEF r1
  <2> QED
    BY <2>3, <2>4
<1>17. CASE PruneRow(u)
  <2>1. job' = [job EXCEPT ![u].pc = "prune", ![u].doc = None]
    BY <1>17 DEF PruneRow
  <2>2. job[u] \in LoopJob
    BY <1>17, JobFacts DEF PruneRow, At, Loop
  <2> DEFINE r1 == [job[u] EXCEPT !.pc = "prune"]
  <2>3. job'[u] = [r1 EXCEPT !.doc = None]
    BY <1>0, <2>1
  <2>4. DOMAIN r1 = DOMAIN job[u] /\ "pc" \in DOMAIN r1 /\ r1.pc = "prune"
    BY <2>2 DEF LoopJob
  <2> HIDE DEF r1
  <2> QED
    BY <2>3, <2>4
<1> QED
  BY <1>1, <1>2, <1>3, <1>4, <1>7, <1>8, <1>9, <1>10, <1>11, <1>13, <1>14, <1>15, <1>16, <1>17
  DEF Working, RemoveFails

LEMMA WorkingBounds ==
    ASSUME WithinBounds, NEW u \in User, Working(u)
    PROVE  WithinBounds'
<1> USE BoundAssumption
<1>1. CASE \/ List(u) \/ ReadVersions(u) \/ Visit(u) \/ LoopEnds(u) \/ Return(u) \/ Export(u)
           \/ Index(u) \/ PrunePages(u) \/ PruneRow(u) \/ PruneEnds(u) \/ InventoryFails(u)
  <2>1. UNCHANGED <<counts, observed>>
    <3>1. CASE \/ List(u) \/ ReadVersions(u) \/ Visit(u) \/ LoopEnds(u) \/ Return(u)
               \/ Export(u) \/ PruneEnds(u) \/ InventoryFails(u)
      BY <3>1 DEF List, Lists, observed, ReadVersions, Visit, LoopEnds, Return, Export,
         PruneEnds, InventoryFails
    <3>2. CASE Index(u) \/ PrunePages(u) \/ PruneRow(u)
      BY <3>2 DEF Index, PrunePages, PruneRow
    <3> QED
      BY <1>1, <3>1, <3>2
  <2> QED
    BY <2>1 DEF counts, observed, WithinBounds
<1>2. CASE \/ ExportRaw(u) \/ ExportPdf(u) \/ Relist(u) \/ Recheck(u) \/ RecheckNothing(u)
           \/ RecheckFails(u) \/ Discard(u)
           \/ AddSnapshot(u) \/ Trim(u) \/ Unlink(u) \/ TrimEnds(u) \/ Write(u) \/ MarkExported(u)
  <2>1. UNCHANGED <<counts, observed>>
    <3>1. CASE ExportRaw(u) \/ ExportPdf(u)
      BY <3>1 DEF ExportRaw, ExportPdf
    <3>2. CASE \/ AddSnapshot(u) \/ Relist(u) \/ Recheck(u) \/ RecheckNothing(u)
               \/ RecheckFails(u) \/ Discard(u)
      BY <3>2 DEF AddSnapshot, Relist, Recheck, RecheckNothing, RecheckFails, Discard
    <3>3. CASE Trim(u) \/ Unlink(u) \/ TrimEnds(u) \/ Write(u) \/ MarkExported(u)
      BY <3>3 DEF Trim, Unlink, TrimEnds, Write, MarkExported
    <3> QED
      BY <1>2, <3>1, <3>2, <3>3
  <2> QED
    BY <2>1 DEF counts, observed, WithinBounds
<1>3. CASE Interrupt(u) \/ ListNothing(u)
  BY <1>3 DEF Interrupt, ListNothing, Lists, counts, WithinBounds
<1>4. CASE AddFails(u) \/ RemoveFails(u) \/ StatementFails(u)
  <2>1. Fault /\ UNCHANGED <<counts, cut, unsaved>>
    BY <1>4 DEF AddFails, RemoveFails, StatementFails
  <2> QED
    BY <2>1 DEF Fault, counts, WithinBounds
<1> QED
  BY <1>1, <1>2, <1>3, <1>4 DEF Working, Checks

LEMMA InitValues == Init => Values
<1> SUFFICES ASSUME Init PROVE Values
  OBVIOUS
<1>1. WithinBounds
  BY SlotsAssumption, BoundAssumption DEF Init, WithinBounds
<1>2. ASSUME NEW u \in User PROVE EndKnown(u)
  BY DEF Init, Idle, EndKnown
<1> QED
  BY <1>1, <1>2 DEF Values

LEMMA ValuesStep == Inv /\ Values /\ [Next]_vars => Values'
<1> SUFFICES ASSUME Inv, Values, [Next]_vars PROVE Values'
  OBVIOUS
<1> USE SlotsAssumption, BoundAssumption
<1>1. Typed /\ RunsOK /\ WithinBounds /\ DOMAIN job = User
      /\ \A u \in User : UserOK(u) /\ EndKnown(u)
  BY DEF Inv, Values, Typed
<1>2. slots \in Nat
  <2>1. IsFiniteSet(Busy)
    BY UserAssumption, FS_Subset DEF Busy
  <2> QED
    BY <1>1, <2>1, FS_CardinalityType DEF RunsOK
<1>3. CASE UNCHANGED vars \/ Stop \/ Close \/ Open
  <2>1. /\ job' = job /\ UNCHANGED <<slots, edits, runs, faults, cut>>
        /\ unsaved' = unsaved \/ unsaved' = {}
    BY <1>3 DEF vars, Stop, Close, Open, counts, observed
  <2> QED
    BY <1>1, <2>1 DEF Values, WithinBounds, EndKnown
<1>4. CASE Crash
  <2>1. /\ Fault /\ \A u \in User : job'[u] = Idle
        /\ slots' = 0 /\ UNCHANGED <<edits, runs, cut, unsaved>>
    BY <1>4 DEF Crash
  <2> QED
    BY <1>1, <2>1 DEF Values, WithinBounds, EndKnown, Fault, Idle
<1>5. ASSUME NEW u \in User, Environment(u) PROVE Values'
  <2>1. /\ edits < MaxEdits /\ edits' = edits + 1
        /\ UNCHANGED <<job, slots, runs, faults, unsaved, cut>>
    BY <1>5 DEF Environment, Edit, Trash, Untrash, Delete, Restore, Change, observed
  <2> QED
    BY <1>1, <2>1 DEF Values, WithinBounds, EndKnown
<1>6. ASSUME NEW u \in User, NEW kind \in Kinds, NEW only \in Asked \cup {None},
             Start(u, kind, only)
      PROVE  Values'
  <2>1. /\ slots < Slots /\ slots' = slots + 1 /\ runs < MaxRuns /\ runs' = runs + 1
        /\ UNCHANGED <<edits, faults, unsaved, cut>>
    BY <1>6 DEF Start, CanStart, observed
  <2>2. job'[u].pc = "list" /\ \A w \in User \ {u} : job'[w] = job[w]
    BY <1>1, <1>6 DEF Start
  <2>3. WithinBounds'
    BY <1>1, <1>2, <2>1 DEF WithinBounds
  <2> QED
    BY <1>1, <2>2, <2>3 DEF Values, EndKnown
<1>7. ASSUME NEW u \in User, Finish(u) \/ FinishFails(u) PROVE Values'
  <2>1. /\ slots' = slots - 1 /\ UNCHANGED <<edits, runs, cut>>
        /\ \/ UNCHANGED <<faults, unsaved>>
           \/ Fault /\ unsaved' = unsaved \cup {u}
    BY <1>7 DEF Finish, FinishFails, End, observed
  <2>2. job'[u] = Idle /\ \A w \in User \ {u} : job'[w] = job[w]
    BY <1>1, <1>7 DEF Finish, FinishFails, End
  <2>3. WithinBounds'
    BY <1>1, <1>2, <2>1 DEF WithinBounds, Fault
  <2>4. ASSUME NEW w \in User PROVE EndKnown(w)'
    BY <1>1, <2>2, <2>4 DEF EndKnown, Idle
  <2> QED
    BY <2>3, <2>4 DEF Values
<1>8. ASSUME NEW u \in User, Working(u) PROVE Values'
  <2>1. EndKnown(u)'
    BY <1>1, <1>8, EndingSteps, OtherSteps DEF EndKnown
  <2>2. \A w \in User \ {u} : job'[w] = job[w]
    BY <1>1, <1>8, WorkingFacts DEF MovesOn
  <2>3. WithinBounds'
    BY <1>1, <1>8, WorkingBounds
  <2> QED
    BY <1>1, <2>1, <2>2, <2>3 DEF Values, EndKnown
<1>9. ASSUME NEW u \in User, Work(u) PROVE Working(u) \/ Finish(u) \/ FinishFails(u)
  BY <1>9 DEF Work, Working, Checks
<1> QED
  BY <1>3, <1>4, <1>5, <1>6, <1>7, <1>8, <1>9 DEF Next

LEMMA ValuesAreTyped == Inv /\ Values => TypeOK
<1> SUFFICES ASSUME Inv, Values PROVE TypeOK
  OBVIOUS
<1>1. Typed /\ RunsOK /\ WithinBounds
  BY DEF Inv, Values
<1>2. ASSUME NEW u \in User
      PROVE  job[u] = Idle \/ (job[u].kind \in Kinds /\ job[u].only \in Doc \cup {None})
  <2>1. CASE job[u].pc = "finish"
    BY <2>1 DEF Values, EndKnown, Which
  <2>2. CASE job[u] \in JobType
    BY <2>2 DEF JobType, LoopJob, Which
  <2> QED
    BY <1>1, <2>1, <2>2 DEF Typed
<1>3. slots \in 0..Slots
  <2>1. IsFiniteSet(Busy)
    BY UserAssumption, FS_Subset DEF Busy
  <2> QED
    BY <1>1, <2>1, FS_CardinalityType, SlotsAssumption DEF RunsOK, WithinBounds
<1>4. ASSUME NEW u \in User, NEW d \in Doc
      PROVE  Rows(u, d) \subseteq [id : Nat, ver : Nat, pdf : BOOLEAN]
  <2>1. \A i \in DOMAIN snaps[u][d] : snaps[u][d][i] \in RowType
    BY <1>1, RowFacts
  <2> QED
    BY <2>1 DEF Rows, RowType
<1>5. doc \in [User -> [Doc -> [at : {"library", "trash", "gone"}, ver : Nat]]]
  BY <1>1 DEF Typed, DocType
<1> QED
  BY <1>1, <1>2, <1>3, <1>4, <1>5
  DEF TypeOK, Typed, RunsOK, WithinBounds, PageType, FileType, BackupType

(* Every variable keeps its type, and no more jobs run than there are       *)
(* workers (start).                                                         *)
THEOREM TypeCorrect == Spec => []TypeOK
BY InitValues, ValuesStep, ValuesAreTyped, Invariant, PTL DEF Spec
=============================================================================
