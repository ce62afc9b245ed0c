---------------------------- MODULE SyncTreeProofs ----------------------------
(***************************************************************************)
(* What is proved of SyncTree, for any requests, tablets and documents and *)
(* any number of attempts and faults.                                      *)
(***************************************************************************)
EXTENDS SyncTree, FiniteSetTheorems, TLAPS

Pc == {"new", "mirror", "stat", "read", "saveMirrored", "writeMirrored", "apply",
       "commit", "check", "fill", "saveCommitted", "writeCommitted", "done"}

(* Where a request holds the lock, where it has a tree to be mirrored, one  *)
(* that was mirrored and not changed, one that was changed, one committed,  *)
(* and one that goes into the cache.                                        *)
Holding == {"stat", "check", "fill"}
Mirroring == {"mirror", "stat", "read"}
Unchanged == {"saveMirrored", "writeMirrored", "apply"}
Committing == {"commit", "check"}
AfterCommit == {"fill", "saveCommitted", "writeCommitted"}
Saving == {"saveMirrored", "writeMirrored", "saveCommitted", "writeCommitted"}

Docs == UNION {[D -> CachedDoc] : D \in SUBSET Doc}
Outcome == {"none", "ok", "error", "half done", "lost"}
Request == [pc : Pc, kind : Kind, doc : Doc \cup {NoDoc}, tree : Tree, gen : Nat,
            attempt : 1..Attempts, outcome : Outcome]
Entry == [root : Root, by : Client \cup {Nobody}, kind : Kind, doc : Doc]

Typed ==
    /\ log \in Seq(Entry)
    /\ rootFile \in Root \cup {NoHash}
    /\ lock \in Client \cup {Nobody}
    /\ cache \in Tree \cup {Corrupt}
    /\ req \in [Client -> Request]
    /\ faults \in 0..MaxFaults
    /\ spoilt \in SUBSET Doc

(* The lock is held by the request that is between Lock and Unlock.         *)
Locked == \A c \in Client : req[c].pc \in Holding <=> lock = c

(* The root of the last commit.                                             *)
Current == IF log = <<>> THEN NoDocs ELSE log[Len(log)].root

Filling == \E c \in Client : At(c, "fill")

(* The file root is that of the last commit or empty; it is empty while a   *)
(* commit fills it, and afterwards if that was cut short.                   *)
FileOK ==
    /\ rootFile # NoHash => log # <<>> /\ rootFile = Current
    /\ rootFile = NoHash => log = <<>> \/ Filling \/ spoilt = Doc
    /\ \A c \in Client :
          At(c, "fill") => log # <<>> /\ rootFile = NoHash /\ Current = req[c].tree.hash

-----------------------------------------------------------------------------
(* What is known of a tree: the files of its documents are those of their   *)
(* hashes and, unless a tablet pulled it, not marked as deleted; its        *)
(* documents are what its hash names, and that was a root which is no older *)
(* than its generation.  The cache belongs to Nobody.                       *)
Clean(docs, by, S) ==
    \A d \in DOMAIN docs \ S : /\ docs[d].files = docs[d].hash
                               /\ by \notin Tablet => Deleted \notin docs[d].hash
Shows(docs, root, by, S) == AgreeOutside(IndexOf(docs), Seen(root, by), S)
Named(t, by, S) == t.hash # NoHash => Shows(t.docs, t.hash, by, S)
WasRoot(t, l) == t.hash # NoHash => \E i \in 1..Len(l) : i >= t.gen /\ l[i].root = t.hash

(* A root is an edit of the one before it, but for the documents of S.      *)
IsEdit(before, root, kind, doc, by, S) ==
    /\ doc \notin S => CanApply(kind, doc, Mirrored(Seen(before, by)))
    /\ AgreeOutside(root, IndexOf(Applied(kind, doc, Mirrored(Seen(before, by)), by)), S)

(* The request names a document and edits it, unless it lists; a tablet     *)
(* does not list and has no cache, and only a tablet marks as deleted.      *)
RequestOK(c) ==
    LET r == req[c] IN
    /\ r.pc \notin {"new", "done"} /\ r.kind # "list" => r.doc \in Doc
    /\ r.pc \in Committing \cup AfterCommit => r.kind # "list"
    /\ c \in Tablet => r.pc \notin Saving
    /\ c \in Tablet /\ r.pc \notin {"new", "done"} => r.kind # "list"
    /\ r.kind = "mark" => c \in Tablet
    /\ r.pc # "done" => r.outcome = "none"
    /\ r.pc = "new" => r.attempt = 1

(* Generations are not ahead of the history.  One that was read before a    *)
(* commit began is behind, and so is that of a tree that was rejected.      *)
GenOK(c) ==
    /\ req[c].tree.gen <= Generation /\ req[c].gen <= Generation
    /\ At(c, "read") /\ Filling => req[c].gen < Generation
    /\ req[c].pc \in Mirroring /\ req[c].attempt > 1 => req[c].tree.gen < Generation

(* A tree whose generation is the present one is the present root, or, when *)
(* it was changed, an edit of it.                                           *)
TreeOK(c) ==
    LET r == req[c]
        t == r.tree
    IN  /\ Clean(t.docs, c, spoilt)
        /\ r.pc \notin {"apply", "done"} => Named(t, c, spoilt)
        /\ r.pc \in Committing \cup AfterCommit \cup Saving => t.hash # NoHash
        /\ r.pc \in Saving \/ (r.pc \in Mirroring /\ r.attempt = 1) => WasRoot(t, log)
        /\ r.pc \in Unchanged /\ t.gen = Generation /\ spoilt # Doc
              => Shows(t.docs, Current, c, spoilt)
        /\ r.pc \in Committing /\ t.gen = Generation
              => IsEdit(Current, t.hash, r.kind, r.doc, c, spoilt)

CacheOK ==
    cache # Corrupt => /\ Clean(cache.docs, Nobody, spoilt) /\ Named(cache, Nobody, spoilt)
                       /\ WasRoot(cache, log)
                       /\ cache.gen <= Generation

(* What a request has committed, and what it says of it.                    *)
OnceOK(c) ==
    LET r == req[c] IN
    /\ \A i, j \in CommitsBy(c) : i = j
    /\ r.pc \in {"new"} \cup Mirroring \cup Unchanged \cup Committing => CommitsBy(c) = {}
    /\ r.pc \in AfterCommit => CommitsBy(c) # {}
    /\ r.outcome = "error" => CommitsBy(c) = {}
    /\ r.outcome = "ok" /\ (r.kind = "create" \/ c \in Tablet) => CommitsBy(c) # {}

LogOK ==
    \A i \in 1..Len(log) :
        log[i].by # Nobody
            => IsEdit(RootBefore(i), log[i].root, log[i].kind, log[i].doc, log[i].by,
                      spoilt)

ClientOK(c) == RequestOK(c) /\ GenOK(c) /\ TreeOK(c) /\ OnceOK(c)

Editing == {"update", "mark", "delete", "create"}

Inv ==
    /\ Typed /\ Locked /\ FileOK /\ CacheOK /\ LogOK
    /\ \A c \in Client : ClientOK(c)

-----------------------------------------------------------------------------
(* Roots, documents and trees.                                              *)

LEMMA RootFacts ==
    ASSUME NEW root \in Root
    PROVE  DOMAIN root \subseteq Doc /\ root \in [DOMAIN root -> Edits]
BY DEF Root

LEMMA IsRoot ==
    ASSUME NEW D \in SUBSET Doc, NEW root \in [D -> Edits]
    PROVE  root \in Root
BY DEF Root

LEMMA DocsFacts ==
    ASSUME NEW docs \in Docs
    PROVE  DOMAIN docs \subseteq Doc /\ docs \in [DOMAIN docs -> CachedDoc]
BY DEF Docs

LEMMA IsDocs ==
    ASSUME NEW D \in SUBSET Doc, NEW docs \in [D -> CachedDoc]
    PROVE  docs \in Docs
BY DEF Docs

LEMMA TreeFacts ==
    /\ Tree = [hash : Root \cup {NoHash}, gen : Nat, docs : Docs]
    /\ NoDocs \in Root /\ NoDocs \in Docs /\ NewTree \in Tree
<1>1. Tree = [hash : Root \cup {NoHash}, gen : Nat, docs : Docs]
  BY DEF Tree, Docs
<1>2. NoDocs \in [{} -> Edits] /\ NoDocs \in [{} -> CachedDoc]
  BY DEF NoDocs
<1>3. NoDocs \in Root /\ NoDocs \in Docs
  BY <1>2, IsRoot, IsDocs
<1>4. NewTree \in Tree
  BY <1>1, <1>3 DEF NewTree
<1> QED
  BY <1>1, <1>3, <1>4

LEMMA IndexType ==
    ASSUME NEW docs \in Docs
    PROVE  IndexOf(docs) \in Root /\ DOMAIN IndexOf(docs) = DOMAIN docs
<1>1. \A d \in DOMAIN docs : docs[d].hash \in Edits
  BY DocsFacts DEF CachedDoc
<1>2. IndexOf(docs) \in [DOMAIN docs -> Edits]
  BY <1>1 DEF IndexOf
<1> QED
  BY <1>2, DocsFacts, IsRoot

LEMMA MirroredType ==
    ASSUME NEW root \in Root
    PROVE  Mirrored(root) \in Docs /\ IndexOf(Mirrored(root)) = root
<1>1. Mirrored(root) \in [DOMAIN root -> CachedDoc]
  BY RootFacts DEF Mirrored, CachedDoc
<1>2. IndexOf(Mirrored(root)) = root
  BY RootFacts DEF Mirrored, IndexOf
<1> QED
  BY <1>1, <1>2, RootFacts, IsDocs

LEMMA LiveType ==
    ASSUME NEW root \in Root
    PROVE  /\ Live(root) \in Root
           /\ DOMAIN Live(root) = {d \in DOMAIN root : Deleted \notin root[d]}
           /\ \A d \in DOMAIN Live(root) : Live(root)[d] = root[d]
<1>1. /\ DOMAIN Live(root) = {d \in DOMAIN root : Deleted \notin root[d]}
      /\ \A d \in DOMAIN Live(root) : Live(root)[d] = root[d]
  BY DEF Live, Restrict
<1>2. Live(root) \in [DOMAIN Live(root) -> Edits]
  BY <1>1, RootFacts DEF Live, Restrict
<1> QED
  BY <1>1, <1>2, RootFacts, IsRoot

LEMMA SeenType ==
    ASSUME NEW root \in Root, NEW by
    PROVE  Seen(root, by) \in Root
BY LiveType DEF Seen

LEMMA IndexValues ==
    ASSUME NEW docs
    PROVE  /\ DOMAIN IndexOf(docs) = DOMAIN docs
           /\ \A d \in DOMAIN docs : IndexOf(docs)[d] = docs[d].hash
BY DEF IndexOf

(* Two indexes agree.                                                       *)
LEMMA Agreeing ==
    ASSUME NEW docs, NEW root, NEW S, DOMAIN docs \ S = DOMAIN root \ S,
           \A d \in DOMAIN docs \ S : docs[d].hash = root[d]
    PROVE  AgreeOutside(IndexOf(docs), root, S)
BY IndexValues DEF AgreeOutside

LEMMA MirroredShows ==
    ASSUME NEW root \in Root, NEW by, NEW S, NEW shown, shown = Seen(root, by)
    PROVE  /\ Mirrored(shown) \in Docs /\ Clean(Mirrored(shown), by, S)
           /\ Shows(Mirrored(shown), root, by, S)
<1>1. shown \in Root
  BY SeenType
<1>2. by \notin Tablet => \A d \in DOMAIN shown : Deleted \notin shown[d]
  BY LiveType DEF Seen
<1>3. DOMAIN Mirrored(shown) = DOMAIN shown
      /\ \A d \in DOMAIN shown : Mirrored(shown)[d] = [hash |-> shown[d], files |-> shown[d]]
  BY DEF Mirrored
<1>4. Clean(Mirrored(shown), by, S)
  BY <1>2, <1>3 DEF Clean
<1>5. Shows(Mirrored(shown), root, by, S)
  BY <1>3, Agreeing DEF Shows
<1> QED
  BY <1>1, <1>4, <1>5, MirroredType

(* What a request of the web UI, or a tablet, makes of its tree.            *)
LEMMA MirroredFromFacts ==
    ASSUME NEW root \in Root, NEW docs \in Docs, NEW by, by \notin Tablet, NEW S,
           Clean(docs, by, S)
    PROVE  LET m == MirroredFrom(docs, root)
           IN  /\ m \in Docs /\ Clean(m, by, S) /\ Shows(m, root, by, S)
               /\ \A d \in DOMAIN m : d \in DOMAIN root /\ m[d].hash = root[d]
<1> DEFINE m == MirroredFrom(docs, root)
           K == Kept(docs, root)
<1>1. /\ K \subseteq DOMAIN root /\ K \subseteq DOMAIN docs
      /\ \A d \in K : docs[d].hash = root[d]
  BY DEF Kept
<1>2. /\ DOMAIN m = DOMAIN Live(root) \cup K
      /\ \A d \in K : m[d] = docs[d]
      /\ \A d \in DOMAIN m \ K : m[d] = [hash |-> root[d], files |-> root[d]]
  BY DEF MirroredFrom
<1>3. DOMAIN m \subseteq DOMAIN root
  BY <1>1, <1>2, LiveType
<1>4. m \in Docs
  <2>1. \A d \in DOMAIN m : m[d] \in CachedDoc
    <3> TAKE d \in DOMAIN m
    <3>1. CASE d \in K
      BY <1>1, <1>2, <3>1, DocsFacts
    <3>2. CASE d \notin K
      <4>1. m[d] = [hash |-> root[d], files |-> root[d]] /\ d \in DOMAIN root
        BY <1>2, <1>3, <3>2
      <4>2. root[d] \in Edits
        BY <4>1, RootFacts
      <4> QED
        BY <4>1, <4>2 DEF CachedDoc
    <3> QED
      BY <3>1, <3>2
  <2>2. m \in [DOMAIN m -> CachedDoc]
    BY <2>1 DEF MirroredFrom
  <2> QED
    BY <1>3, <2>2, RootFacts, IsDocs
<1>5. \A d \in DOMAIN m : d \in DOMAIN root /\ m[d].hash = root[d]
  <2> HIDE DEF m, K
  <2> TAKE d \in DOMAIN m
  <2>1. CASE d \in K
    BY <1>1, <1>2, <2>1
  <2>2. CASE d \notin K
    <3>1. m[d] = [hash |-> root[d], files |-> root[d]]
      BY <1>2, <2>2
    <3> QED
      BY <1>3, <3>1
  <2> QED
    BY <2>1, <2>2
<1>6. \A d \in K \ S : Deleted \notin root[d] /\ docs[d].files = root[d]
  <2> HIDE DEF K
  <2> TAKE d \in K \ S
  <2>1. d \in DOMAIN docs \ S /\ docs[d].hash = root[d]
    BY <1>1
  <2> QED
    BY <2>1 DEF Clean
<1>7. \A d \in DOMAIN m \ S : Deleted \notin root[d]
  BY <1>2, <1>6, LiveType
<1> HIDE DEF m, K
<1>8. Clean(m, by, S)
  <2> SUFFICES ASSUME NEW d \in DOMAIN m \ S
               PROVE  m[d].files = m[d].hash /\ Deleted \notin m[d].hash
    BY DEF Clean
  <2>1. m[d].hash = root[d] /\ Deleted \notin root[d]
    BY <1>5, <1>7
  <2>2. CASE d \in K
    BY <1>2, <1>6, <2>1, <2>2
  <2>3. CASE d \notin K
    <3>1. m[d] = [hash |-> root[d], files |-> root[d]]
      BY <1>2, <2>3
    <3> QED
      BY <2>1, <3>1
  <2> QED
    BY <2>2, <2>3
<1>9. Shows(m, root, by, S)
  <2>1. Seen(root, by) = Live(root)
    BY DEF Seen
  <2>2. DOMAIN m \ S = DOMAIN Live(root) \ S
    BY <1>2, <1>3, <1>7, LiveType
  <2>3. \A d \in DOMAIN m \ S : m[d].hash = Live(root)[d]
    BY <1>5, <2>2, LiveType
  <2> QED
    BY <2>1, <2>2, <2>3, Agreeing DEF Shows
<1> QED
  BY <1>4, <1>5, <1>8, <1>9 DEF m

LEMMA PulledFacts ==
    ASSUME NEW root \in Root, NEW c \in Client, req[c].tree.docs \in Docs, NEW S,
           Clean(req[c].tree.docs, c, S)
    PROVE  /\ Pulled(c, root) \in Docs /\ Clean(Pulled(c, root), c, S)
           /\ Shows(Pulled(c, root), root, c, S)
<1>1. CASE c \in Tablet
  BY <1>1, MirroredShows DEF Pulled, Seen
<1>2. CASE c \notin Tablet
  BY <1>2, MirroredFromFacts DEF Pulled
<1> QED
  BY <1>1, <1>2

(* The tree of a mirror that failed at one document.                        *)
LEMMA MisreadFacts ==
    ASSUME NEW root \in Root, NEW docs \in Docs, NEW by, by \notin Tablet, NEW S,
           Clean(docs, by, S), NEW d \in DOMAIN root, NEW files \in OldFiles(docs, root, d)
    PROVE  LET half == Misread(docs, root, d, files)
           IN  half \in Docs /\ Clean(half, by, S \cup {d}) /\ Shows(half, root, by, S \cup {d})
<1> DEFINE m == MirroredFrom(docs, root)
           half == Misread(docs, root, d, files)
<1>1. m \in Docs /\ Clean(m, by, S) /\ Shows(m, root, by, S)
  BY MirroredFromFacts
<1>2. files \in Edits \cup {NoHash}
  BY DocsFacts DEF OldFiles, CachedDoc
<1>3. m \in [DOMAIN m -> CachedDoc] /\ DOMAIN m \subseteq Doc
  BY <1>1, DocsFacts
<1>4. root[d] \in Edits /\ d \in Doc
  BY RootFacts
<1>5. /\ DOMAIN half = DOMAIN m \cup {d}
      /\ half[d] = [hash |-> root[d], files |-> files]
      /\ \A x \in DOMAIN m \ {d} : half[x] = m[x]
  BY DEF Misread
<1>6. half \in [DOMAIN half -> CachedDoc]
  <2>1. \A x \in DOMAIN half : half[x] \in CachedDoc
    BY <1>2, <1>3, <1>4, <1>5 DEF CachedDoc
  <2> QED
    BY <2>1 DEF Misread
<1> HIDE DEF half, m
<1>7. half \in Docs
  BY <1>3, <1>4, <1>5, <1>6, IsDocs
<1>8. Clean(half, by, S \cup {d})
  BY <1>1, <1>5 DEF Clean
<1>9. Shows(half, root, by, S \cup {d})
  BY <1>1, <1>5, IndexValues DEF Shows, AgreeOutside
<1> QED
  BY <1>7, <1>8, <1>9 DEF half

(* What an update adds to a document.                                       *)
Writes(kind, c) == IF kind = "mark" THEN {c, Deleted} ELSE {c}

LEMMA UpdateOrMark ==
    ASSUME NEW kind \in {"update", "mark"}, NEW doc, NEW docs, NEW c
    PROVE  Applied(kind, doc, docs, c) = Updated(docs, doc, Writes(kind, c))
BY DEF Applied, Writes

LEMMA UpdatedValues ==
    ASSUME NEW docs, NEW doc, NEW edits
    PROVE  LET u == Updated(docs, doc, edits)
           IN  /\ DOMAIN u = DOMAIN docs
               /\ \A d \in DOMAIN docs \ {doc} : u[d] = docs[d]
               /\ doc \in DOMAIN docs
                     => u[doc] = [hash |-> docs[doc].files \cup edits,
                                  files |-> docs[doc].files \cup edits]
BY DEF Updated

LEMMA AppliedType ==
    ASSUME NEW docs \in Docs, NEW kind \in Editing, NEW doc \in Doc,
           NEW c \in Client,
           kind \in {"update", "mark"} => doc \in DOMAIN docs /\ docs[doc].files # NoHash
    PROVE  Applied(kind, doc, docs, c) \in Docs
<1>1. docs \in [DOMAIN docs -> CachedDoc] /\ DOMAIN docs \subseteq Doc
  BY DocsFacts
<1>2. CASE kind \in {"update", "mark"}
  <2> DEFINE edits == Writes(kind, c)
             u == Updated(docs, doc, edits)
  <2>1. docs[doc].files \in Edits
    BY <1>1, <1>2 DEF CachedDoc
  <2>2. docs[doc].files \cup edits \in Edits
    BY <2>1 DEF Edits, Writes
  <2> HIDE DEF edits
  <2>3. /\ DOMAIN u = DOMAIN docs
        /\ \A d \in DOMAIN docs \ {doc} : u[d] = docs[d]
        /\ u[doc] = [hash |-> docs[doc].files \cup edits, files |-> docs[doc].files \cup edits]
    BY <1>2, UpdatedValues
  <2>4. \A d \in DOMAIN docs : u[d] \in CachedDoc
    <3> TAKE d \in DOMAIN docs
    <3>1. CASE d = doc
      BY <2>2, <2>3, <3>1 DEF CachedDoc
    <3>2. CASE d # doc
      BY <1>1, <2>3, <3>2
    <3> QED
      BY <3>1, <3>2
  <2>5. u \in [DOMAIN docs -> CachedDoc]
    BY <2>4 DEF Updated
  <2> HIDE DEF u
  <2> QED
    BY <1>1, <1>2, <2>5, IsDocs, UpdateOrMark DEF u, edits
<1>3. CASE kind = "delete"
  <2>1. Removed(docs, doc) \in [DOMAIN docs \ {doc} -> CachedDoc]
    BY <1>1 DEF Removed, Restrict
  <2> QED
    BY <1>1, <1>3, <2>1, IsDocs DEF Applied
<1>4. CASE kind = "create"
  <2>1. {c} \in Edits
    BY DEF Edits
  <2>2. Added(docs, doc, c) \in [DOMAIN docs \cup {doc} -> CachedDoc]
    BY <1>1, <2>1 DEF Added, CachedDoc
  <2> QED
    BY <1>1, <1>4, <2>2, IsDocs DEF Applied
<1> QED
  BY <1>2, <1>3, <1>4 DEF Editing

-----------------------------------------------------------------------------
(* Types.                                                                   *)

LEMMA RequestFacts ==
    ASSUME Typed, NEW c \in Client
    PROVE  LET r == req[c] IN
           /\ r \in Request /\ r.pc \in Pc /\ r.kind \in Kind /\ r.doc \in Doc \cup {NoDoc}
           /\ r.gen \in Nat /\ r.attempt \in 1..Attempts /\ r.outcome \in Outcome
           /\ r.tree \in Tree /\ r.tree.gen \in Nat
           /\ r.tree.hash \in Root \cup {NoHash} /\ r.tree.docs \in Docs
<1>1. req[c] \in Request
  BY DEF Typed
<1>2. req[c].tree \in Tree
  BY <1>1 DEF Request
<1> QED
  BY <1>1, <1>2, TreeFacts DEF Request

LEMMA LogFacts ==
    ASSUME Typed
    PROVE  /\ Generation \in Nat /\ Current \in Root /\ DOMAIN log = 1..Generation
           /\ \A i \in 1..Generation : log[i] \in Entry /\ log[i].root \in Root /\ log[i].doc \in Doc
                                       /\ log[i].kind \in Kind /\ log[i].by \in Client \cup {Nobody}
           /\ log # <<>> <=> Generation > 0
           /\ \A i \in 1..Generation : RootBefore(i) \in Root
<1>1. log \in Seq(Entry)
  BY DEF Typed
<1>2. Generation \in Nat /\ DOMAIN log = 1..Generation /\ (log # <<>> <=> Generation > 0)
  BY <1>1 DEF Generation
<1>3. \A i \in 1..Generation : log[i] \in Entry
  BY <1>1, <1>2
<1>4. \A i \in 1..Generation : log[i] \in Entry /\ log[i].root \in Root /\ log[i].doc \in Doc
                               /\ log[i].kind \in Kind /\ log[i].by \in Client \cup {Nobody}
  BY <1>3 DEF Entry
<1>5. Current \in Root
  BY <1>2, <1>4, TreeFacts DEF Current, Generation
<1>6. \A i \in 1..Generation : RootBefore(i) \in Root
  BY <1>2, <1>4, TreeFacts DEF RootBefore
<1> QED
  BY <1>2, <1>4, <1>5, <1>6

LEMMA AnsweredType ==
    ASSUME NEW r \in Request, NEW outcome \in Outcome
    PROVE  /\ Answered(r, outcome) \in Request
           /\ Answered(r, outcome).pc = "done" /\ Answered(r, outcome).kind = r.kind
           /\ Answered(r, outcome).tree = NewTree /\ Answered(r, outcome).outcome = outcome
           /\ Answered(r, outcome).gen = 0 /\ Answered(r, outcome).attempt = 1
<1>1. NewRequest \in Request
  <2>1. 1 \in 1..Attempts
    BY BoundAssumption
  <2> QED
    BY <2>1, TreeFacts DEF NewRequest, Request, Pc, Kind, Outcome
<1>2. r.kind \in Kind
  BY DEF Request
<1> QED
  BY <1>1, <1>2 DEF Answered, Request, NewRequest, Pc

(* A step of a request changes that request only.                           *)
LEMMA OneMoves ==
    ASSUME Typed, NEW c \in Client, NEW r \in Request, req' = [req EXCEPT ![c] = r]
    PROVE  /\ req' \in [Client -> Request] /\ req'[c] = r
           /\ \A b \in Client \ {c} : req'[b] = req[b]
BY DEF Typed

LEMMA AnswerStep ==
    ASSUME Typed, NEW c \in Client, NEW outcome \in Outcome, Answer(c, outcome)
    PROVE  /\ req' \in [Client -> Request] /\ req'[c] = Answered(req[c], outcome)
           /\ \A b \in Client \ {c} : req'[b] = req[b]
BY RequestFacts, AnsweredType, OneMoves DEF Answer

LEMMA GotoStep ==
    ASSUME Typed, NEW c \in Client, NEW label \in Pc, Goto(c, label)
    PROVE  /\ req' \in [Client -> Request] /\ req'[c] = [req[c] EXCEPT !.pc = label]
           /\ \A b \in Client \ {c} : req'[b] = req[b]
<1>1. [req[c] EXCEPT !.pc = label] \in Request
  BY RequestFacts DEF Request
<1> QED
  BY <1>1, OneMoves DEF Goto, Typed

(* A mirrored tree goes on to be saved or to be changed.                    *)
LEMMA KeepStep ==
    ASSUME Typed, NEW c \in Client, NEW tree \in Tree, NEW changed, Keep(c, tree, changed)
    PROVE  /\ req' \in [Client -> Request] /\ \A b \in Client \ {c} : req'[b] = req[b]
           /\ req'[c].pc = AfterMirror(c, changed) /\ req'[c].gen = 0 /\ req'[c].tree = tree
           /\ req'[c].kind = req[c].kind /\ req'[c].doc = req[c].doc
           /\ req'[c].attempt = req[c].attempt /\ req'[c].outcome = req[c].outcome
<1> DEFINE r == [req[c] EXCEPT !.pc = AfterMirror(c, changed), !.tree = tree, !.gen = 0]
<1>1. AfterMirror(c, changed) \in {"saveMirrored", "apply"}
  BY DEF AfterMirror
<1>2. req[c] \in Request
  BY RequestFacts
<1>3. /\ r \in Request /\ r.pc = AfterMirror(c, changed) /\ r.tree = tree /\ r.gen = 0
      /\ r.attempt = req[c].attempt /\ r.kind = req[c].kind /\ r.doc = req[c].doc
      /\ r.outcome = req[c].outcome
  BY <1>1, <1>2 DEF Request, Pc
<1>4. req' = [req EXCEPT ![c] = r]
  BY <1>2 DEF Keep, Typed
<1> QED
  BY <1>3, <1>4, OneMoves

(* What an error of Mirror makes of a request.                              *)
LEMMA MirrorErrorStep ==
    ASSUME Typed, NEW c \in Client, MirrorError(c)
    PROVE  /\ req' \in [Client -> Request]
           /\ \A b \in Client \ {c} : req'[b] = req[b]
           /\ \/ /\ req'[c] = Answered(req[c], "ok")
                 /\ c \in UI /\ req[c].kind \in {"update", "delete"}
              \/ req'[c] = Answered(req[c], "error")
              \/ /\ c \in UI /\ req[c].attempt > 1
                 /\ req'[c] = [req[c] EXCEPT !.pc = "apply", !.gen = 0]
<1>1. CASE c \in UI /\ req[c].attempt > 1
           /\ req' = [req EXCEPT ![c].pc = "apply", ![c].gen = 0]
  <2>1. [req[c] EXCEPT !.pc = "apply", !.gen = 0] \in Request
    BY RequestFacts DEF Request, Pc
  <2> QED
    BY <1>1, <2>1 DEF Typed
<1>2. CASE c \in UI /\ Answer(c, IF req[c].kind \in {"update", "delete"} THEN "ok" ELSE "error")
  BY <1>2, AnswerStep DEF Outcome
<1>3. CASE Answer(c, "error")
  BY <1>3, AnswerStep DEF Outcome
<1> QED
  BY <1>1, <1>2, <1>3 DEF MirrorError

-----------------------------------------------------------------------------
(* Edits.                                                                   *)

LEMMA CleanLess ==
    ASSUME NEW docs, NEW by, NEW S, NEW T, S \subseteq T, Clean(docs, by, S)
    PROVE  Clean(docs, by, T)
BY DEF Clean

LEMMA AgreeLess ==
    ASSUME NEW r, NEW q, NEW S, NEW T, S \subseteq T, AgreeOutside(r, q, S)
    PROVE  AgreeOutside(r, q, T)
BY DEF AgreeOutside

LEMMA ShowsLess ==
    ASSUME NEW docs, NEW root, NEW by, NEW S, NEW T, S \subseteq T, Shows(docs, root, by, S)
    PROVE  Shows(docs, root, by, T)
BY AgreeLess DEF Shows

LEMMA NamedLess ==
    ASSUME NEW t, NEW by, NEW S, NEW T, S \subseteq T, Named(t, by, S)
    PROVE  Named(t, by, T)
BY ShowsLess DEF Named

LEMMA EditLess ==
    ASSUME NEW before, NEW root, NEW kind, NEW doc, NEW by, NEW S, NEW T, S \subseteq T,
           IsEdit(before, root, kind, doc, by, S)
    PROVE  IsEdit(before, root, kind, doc, by, T)
BY AgreeLess DEF IsEdit

(* Whoever is no tablet sees the same of a root.                            *)
LEMMA SameEyes ==
    ASSUME NEW t, NEW S, NEW a, NEW b, a \notin Tablet, b \notin Tablet
    PROVE  /\ Clean(t.docs, a, S) => Clean(t.docs, b, S)
           /\ Named(t, a, S) => Named(t, b, S)
BY DEF Clean, Named, Shows, Seen

(* If everything is spoilt there is nothing to say.                         *)
LEMMA AllSpoilt ==
    ASSUME NEW before \in Root, NEW root \in Root, NEW kind \in Editing,
           NEW doc \in Doc, NEW c \in Client
    PROVE  IsEdit(before, root, kind, doc, c, Doc)
<1> DEFINE m == Mirrored(Seen(before, c))
<1>1. SUFFICES AgreeOutside(root, IndexOf(Applied(kind, doc, m, c)), Doc)
  BY DEF IsEdit
<1>2. m \in Docs
  BY MirroredShows
<1> HIDE DEF m
<1>3. DOMAIN m \subseteq Doc
  BY <1>2, DocsFacts
<1>4. DOMAIN Removed(m, doc) = DOMAIN m \ {doc} /\ DOMAIN Added(m, doc, c) = DOMAIN m \cup {doc}
  BY DEF Removed, Restrict, Added
<1>5. DOMAIN Applied(kind, doc, m, c) \subseteq Doc
  <2>1. CASE kind \in {"update", "mark"}
    <3>1. DOMAIN Updated(m, doc, Writes(kind, c)) = DOMAIN m
      BY DEF Updated
    <3>2. Applied(kind, doc, m, c) = Updated(m, doc, Writes(kind, c))
      BY <2>1, UpdateOrMark
    <3> QED
      BY <1>3, <3>1, <3>2
  <2>2. CASE kind = "delete"
    BY <1>3, <1>4, <2>2 DEF Applied
  <2>3. CASE kind = "create"
    BY <1>3, <1>4, <2>3 DEF Applied
  <2> QED
    BY <2>1, <2>2, <2>3 DEF Editing
<1>6. DOMAIN IndexOf(Applied(kind, doc, m, c)) \subseteq Doc /\ DOMAIN root \subseteq Doc
  BY <1>5, RootFacts, IndexValues
<1> QED
  BY <1>6 DEF AgreeOutside

LEMMA IndexesAgree ==
    ASSUME NEW u, NEW v, NEW S, DOMAIN u \ S = DOMAIN v \ S,
           \A d \in DOMAIN u \ S : u[d].hash = v[d].hash
    PROVE  AgreeOutside(IndexOf(u), IndexOf(v), S)
BY DEF AgreeOutside, IndexOf

(* What a mutation makes of a tree that is clean and shows a root is the    *)
(* edit of that root.                                                       *)
LEMMA AppliedIsEdit ==
    ASSUME NEW before \in Root, NEW docs \in Docs, NEW kind \in Editing, NEW doc \in Doc,
           NEW c \in Client, NEW S \in SUBSET Doc,
           CanApply(kind, doc, docs), Clean(docs, c, S), Shows(docs, before, c, S)
    PROVE  IsEdit(before, IndexOf(Applied(kind, doc, docs, c)), kind, doc, c, S)
<1> DEFINE seen == Seen(before, c)
           m == Mirrored(seen)
<1>1. /\ DOMAIN m = DOMAIN seen
      /\ \A d \in DOMAIN m : m[d] = [hash |-> seen[d], files |-> seen[d]]
  BY DEF Mirrored
<1>2. DOMAIN IndexOf(docs) = DOMAIN docs
      /\ \A d \in DOMAIN docs : IndexOf(docs)[d] = docs[d].hash
  BY IndexValues
<1> HIDE DEF m, seen
<1>3. /\ DOMAIN docs \ S = DOMAIN m \ S
      /\ \A d \in DOMAIN docs \ S : docs[d].hash = m[d].hash /\ docs[d].files = m[d].files
  <2>1. DOMAIN docs \ S = DOMAIN seen \ S
        /\ \A d \in DOMAIN docs \ S : docs[d].hash = seen[d]
    BY <1>2 DEF Shows, AgreeOutside, seen
  <2>2. \A d \in DOMAIN docs \ S : docs[d].files = docs[d].hash
    BY DEF Clean
  <2>3. \A d \in DOMAIN docs \ S : m[d] = [hash |-> seen[d], files |-> seen[d]]
    BY <1>1, <2>1
  <2> QED
    BY <1>1, <2>1, <2>2, <2>3
<1>4. doc \notin S => CanApply(kind, doc, m)
  BY <1>1, <1>3 DEF CanApply, Editing
<1>5. CASE kind \in {"update", "mark"}
  <2> DEFINE edits == Writes(kind, c)
             u == Updated(docs, doc, edits)
             v == Updated(m, doc, edits)
  <2> HIDE DEF edits
  <2>1. DOMAIN u = DOMAIN docs /\ DOMAIN v = DOMAIN m
    BY UpdatedValues
  <2>2. \A d \in DOMAIN docs \ S : u[d].hash = v[d].hash
    <3> TAKE d \in DOMAIN docs \ S
    <3>1. d \in DOMAIN m /\ docs[d].hash = m[d].hash /\ docs[d].files = m[d].files
      BY <1>3
    <3>2. CASE d = doc
      <4>1. u[d] = [hash |-> docs[d].files \cup edits, files |-> docs[d].files \cup edits]
            /\ v[d] = [hash |-> m[d].files \cup edits, files |-> m[d].files \cup edits]
        BY <3>1, <3>2 DEF Updated
      <4> QED
        BY <3>1, <4>1
    <3>3. CASE d # doc
      <4>1. u[d] = docs[d] /\ v[d] = m[d]
        BY <3>1, <3>3 DEF Updated
      <4> QED
        BY <3>1, <4>1
    <3> QED
      BY <3>2, <3>3
  <2> HIDE DEF u, v
  <2>3. AgreeOutside(IndexOf(u), IndexOf(v), S)
    <3>1. DOMAIN u \ S = DOMAIN v \ S
      BY <1>3, <2>1
    <3>2. \A d \in DOMAIN u \ S : u[d].hash = v[d].hash
      BY <2>1, <2>2
    <3> QED
      BY <3>1, <3>2, IndexesAgree
  <2> QED
    BY <1>4, <1>5, <2>3, UpdateOrMark DEF IsEdit, u, v, edits, m, seen
<1>6. CASE kind = "delete"
  <2> DEFINE u == Removed(docs, doc)
             v == Removed(m, doc)
  <2>1. /\ DOMAIN u = DOMAIN docs \ {doc} /\ DOMAIN v = DOMAIN m \ {doc}
        /\ \A d \in DOMAIN u : u[d] = docs[d]
        /\ \A d \in DOMAIN v : v[d] = m[d]
    BY DEF Removed, Restrict
  <2> HIDE DEF u, v
  <2>2. AgreeOutside(IndexOf(u), IndexOf(v), S)
    <3>1. DOMAIN u \ S = DOMAIN v \ S
      BY <1>3, <2>1
    <3>2. \A d \in DOMAIN u \ S : u[d].hash = v[d].hash
      BY <1>3, <2>1
    <3> QED
      BY <3>1, <3>2, IndexesAgree
  <2> QED
    BY <1>4, <1>6, <2>2 DEF IsEdit, Applied, u, v, m, seen
<1>7. CASE kind = "create"
  <2> DEFINE u == Added(docs, doc, c)
             v == Added(m, doc, c)
  <2>1. /\ DOMAIN u = DOMAIN docs \cup {doc} /\ DOMAIN v = DOMAIN m \cup {doc}
        /\ u[doc] = v[doc]
        /\ \A d \in DOMAIN docs \ {doc} : u[d] = docs[d]
        /\ \A d \in DOMAIN m \ {doc} : v[d] = m[d]
    BY DEF Added
  <2> HIDE DEF u, v
  <2>2. AgreeOutside(IndexOf(u), IndexOf(v), S)
    <3>1. DOMAIN u \ S = DOMAIN v \ S
      BY <1>3, <2>1
    <3>2. \A d \in DOMAIN u \ S : u[d].hash = v[d].hash
      BY <1>3, <2>1
    <3> QED
      BY <3>1, <3>2, IndexesAgree
  <2> QED
    BY <1>4, <1>7, <2>2 DEF IsEdit, Applied, u, v, m, seen
<1> QED
  BY <1>5, <1>6, <1>7 DEF Editing

(* A mutation keeps a tree clean: what it writes is what it names, and only *)
(* a tablet marks documents as deleted.                                     *)
LEMMA AppliedIsClean ==
    ASSUME NEW docs \in Docs, NEW kind \in Editing, NEW doc \in Doc,
           NEW c \in Client, NEW S, CanApply(kind, doc, docs), Clean(docs, c, S),
           kind = "mark" => c \in Tablet
    PROVE  Clean(Applied(kind, doc, docs, c), c, S)
<1>1. c # Deleted
  BY ClientAssumption
<1>2. CASE kind \in {"update", "mark"}
  <2> DEFINE edits == Writes(kind, c)
             u == Updated(docs, doc, edits)
  <2>1. c \notin Tablet => Deleted \notin edits
    BY <1>1 DEF Writes
  <2>2. doc \in DOMAIN docs
    BY <1>2 DEF CanApply
  <2> HIDE DEF edits
  <2>3. /\ DOMAIN u = DOMAIN docs
        /\ \A d \in DOMAIN docs \ {doc} : u[d] = docs[d]
        /\ u[doc] = [hash |-> docs[doc].files \cup edits, files |-> docs[doc].files \cup edits]
    BY <2>2, UpdatedValues
  <2> HIDE DEF u
  <2>4. Clean(u, c, S)
    <3>1. ASSUME NEW d \in DOMAIN u \ S
          PROVE  u[d].files = u[d].hash /\ (c \notin Tablet => Deleted \notin u[d].hash)
      <4>1. CASE d = doc
        <5>1. d \in DOMAIN docs \ S
          BY <2>3, <3>1
        <5>2. docs[d].files = docs[d].hash /\ (c \notin Tablet => Deleted \notin docs[d].hash)
          BY <5>1 DEF Clean
        <5> QED
          BY <2>1, <2>3, <4>1, <5>2
      <4>2. CASE d # doc
        BY <2>3, <3>1, <4>2 DEF Clean
      <4> QED
        BY <4>1, <4>2
    <3> QED
      BY <3>1 DEF Clean
  <2> QED
    BY <1>2, <2>4, UpdateOrMark DEF u, edits
<1>3. CASE kind = "delete"
  <2>1. Clean(Removed(docs, doc), c, S)
    BY DEF Clean, Removed, Restrict
  <2> QED
    BY <1>3, <2>1 DEF Applied
<1>4. CASE kind = "create"
  <2>1. Clean(Added(docs, doc, c), c, S)
    BY <1>1 DEF Clean, Added
  <2> QED
    BY <1>4, <2>1 DEF Applied
<1> QED
  BY <1>2, <1>3, <1>4 DEF Editing

(* A tree that is clean shows its own index.                                *)
LEMMA CleanShowsItself ==
    ASSUME NEW docs \in Docs, NEW by, NEW S, Clean(docs, by, S)
    PROVE  Shows(docs, IndexOf(docs), by, S)
<1>1. IndexOf(docs) \in Root
  BY IndexType
<1>2. CASE by \in Tablet
  BY <1>2 DEF Shows, Seen, AgreeOutside
<1>3. CASE by \notin Tablet
  <2>1. Seen(IndexOf(docs), by) = Live(IndexOf(docs))
    BY <1>3 DEF Seen
  <2>2. \A d \in DOMAIN docs \ S : Deleted \notin IndexOf(docs)[d]
    BY <1>3 DEF Clean, IndexOf
  <2> QED
    BY <1>1, <2>1, <2>2, LiveType, IndexValues DEF Shows, AgreeOutside
<1> QED
  BY <1>2, <1>3

-----------------------------------------------------------------------------
(* Steps that commit nothing.                                               *)

LEMMA ClientFacts ==
    ASSUME Inv, NEW c \in Client
    PROVE  RequestOK(c) /\ GenOK(c) /\ TreeOK(c) /\ OnceOK(c)
BY DEF Inv, ClientOK

LEMMA Bystander ==
    ASSUME Inv, NEW b \in Client, req'[b] = req[b], log' = log,
           spoilt \subseteq spoilt', spoilt' \in SUBSET Doc, Filling' => Filling
    PROVE  ClientOK(b)'
<1>1. Generation' = Generation /\ Current' = Current /\ CommitsBy(b)' = CommitsBy(b)
  BY DEF Generation, Current, CommitsBy
<1>2. RequestOK(b)'
  BY ClientFacts DEF RequestOK
<1>3. GenOK(b)'
  BY <1>1, ClientFacts DEF GenOK, At
<1>4. OnceOK(b)'
  BY <1>1, ClientFacts DEF OnceOK
<1>5. TreeOK(b)'
  <2> DEFINE r == req[b]
             t == r.tree
  <2>1. TreeOK(b)
    BY ClientFacts
  <2>2. /\ Clean(t.docs, b, spoilt')
        /\ r.pc \notin {"apply", "done"} => Named(t, b, spoilt')
        /\ r.pc \in Unchanged /\ t.gen = Generation /\ spoilt' # Doc
              => Shows(t.docs, Current, b, spoilt')
    BY <2>1, CleanLess, NamedLess, ShowsLess DEF TreeOK
  <2>3. r.pc \in Committing /\ t.gen = Generation
           => IsEdit(Current, t.hash, r.kind, r.doc, b, spoilt')
    BY <2>1, EditLess DEF TreeOK
  <2>4. spoilt' # Doc => spoilt # Doc
    OBVIOUS
  <2>6. r' = r /\ t' = t
    OBVIOUS
  <2> QED
    BY <1>1, <2>1, <2>2, <2>3, <2>4, <2>6 DEF TreeOK
<1> QED
  BY <1>2, <1>3, <1>4, <1>5 DEF ClientOK

LEMMA CacheLeft ==
    ASSUME Inv, cache' = cache, log' = log, spoilt \subseteq spoilt'
    PROVE  CacheOK'
<1>1. CacheOK
  BY DEF Inv
<1>2. cache # Corrupt => Clean(cache.docs, Nobody, spoilt') /\ Named(cache, Nobody, spoilt')
  BY <1>1, CleanLess, NamedLess DEF CacheOK
<1> QED
  BY <1>1, <1>2 DEF CacheOK, WasRoot, Generation

LEMMA LogLeft ==
    ASSUME Inv, log' = log, spoilt \subseteq spoilt'
    PROVE  LogOK'
<1>1. LogOK
  BY DEF Inv
<1>2. \A i \in 1..Len(log) : log[i].by # Nobody =>
          IsEdit(RootBefore(i), log[i].root, log[i].kind, log[i].doc, log[i].by, spoilt')
  BY <1>1, EditLess DEF LogOK
<1> QED
  BY <1>2 DEF LogOK, RootBefore

(* A step of one request that commits nothing keeps the invariant if it     *)
(* keeps what is said of that request, of the cache, the lock and the file. *)
LEMMA QuietStep ==
    ASSUME Inv, NEW c \in Client, req' \in [Client -> Request],
           \A b \in Client \ {c} : req'[b] = req[b],
           log' = log, spoilt \subseteq spoilt', spoilt' \in SUBSET Doc,
           faults' \in 0..MaxFaults, req'[c].pc # "fill",
           rootFile' \in Root \cup {NoHash}, lock' \in Client \cup {Nobody},
           cache' \in Tree \cup {Corrupt},
           ClientOK(c)', CacheOK', Locked', FileOK'
    PROVE  Inv'
<1>1. Typed'
  BY DEF Inv, Typed
<1>2. Filling' => Filling
  BY DEF Filling, At
<1>3. \A b \in Client : ClientOK(b)'
  <2> TAKE b \in Client
  <2>1. CASE b = c
    BY <2>1
  <2>2. CASE b # c
    BY <1>2, <2>2, Bystander
  <2> QED
    BY <2>1, <2>2
<1> QED
  BY <1>1, <1>3, LogLeft DEF Inv

(* The lock and the file root, when a step without the lock leaves them.    *)
LEMMA LockLeft ==
    ASSUME Inv, NEW c \in Client, req[c].pc \notin Holding, req'[c].pc \notin Holding,
           \A b \in Client \ {c} : req'[b] = req[b],
           UNCHANGED <<log, rootFile, lock>>, spoilt \subseteq spoilt', spoilt' \in SUBSET Doc
    PROVE  Locked' /\ FileOK'
<1>1. Locked /\ FileOK
  BY DEF Inv
<1>2. Locked'
  BY <1>1 DEF Locked
<1>3. Filling => Filling'
  BY DEF Filling, At, Holding
<1>4. \A b \in Client : At(b, "fill")' => At(b, "fill") /\ req'[b] = req[b]
  BY DEF At, Holding
<1>5. FileOK'
  BY <1>1, <1>3, <1>4 DEF FileOK, Current
<1> QED
  BY <1>2, <1>5

(* A step of a request alone.                                               *)
LEMMA OwnStep ==
    ASSUME Inv, NEW c \in Client, req' \in [Client -> Request],
           \A b \in Client \ {c} : req'[b] = req[b],
           req[c].pc \notin Holding, req'[c].pc \notin Holding,
           UNCHANGED <<log, rootFile, lock, cache>>,
           spoilt \subseteq spoilt', spoilt' \in SUBSET Doc, faults' \in 0..MaxFaults,
           ClientOK(c)'
    PROVE  Inv'
<1>1. Locked' /\ FileOK'
  BY LockLeft
<1>2. CacheOK'
  BY CacheLeft
<1>3. req'[c].pc # "fill"
  BY DEF Holding
<1>4. rootFile' \in Root \cup {NoHash} /\ lock' \in Client \cup {Nobody} /\ cache' \in Tree \cup {Corrupt}
  BY DEF Inv, Typed
<1> QED
  BY <1>1, <1>2, <1>3, <1>4, QuietStep

(* An answer is true.                                                       *)
LEMMA AnswerOK ==
    ASSUME Inv, NEW c \in Client, NEW outcome \in Outcome,
           req'[c] = Answered(req[c], outcome), log' = log,
           outcome = "error" => CommitsBy(c) = {},
           outcome = "ok" /\ (req[c].kind = "create" \/ c \in Tablet) => CommitsBy(c) # {}
    PROVE  ClientOK(c)'
<1> DEFINE r == Answered(req[c], outcome)
<1>1. /\ r.pc = "done" /\ r.kind = req[c].kind /\ r.outcome = outcome
      /\ r.tree = NewTree /\ r.gen = 0 /\ r.attempt = 1
  BY RequestFacts, AnsweredType DEF Inv
<1>2. Generation' = Generation /\ CommitsBy(c)' = CommitsBy(c) /\ Generation \in Nat
  BY LogFacts DEF Inv, Generation, CommitsBy
<1>3. RequestOK(c)'
  BY <1>1, ClientFacts DEF RequestOK, Committing, AfterCommit, Saving
<1>4. GenOK(c)'
  BY <1>1, <1>2 DEF GenOK, At, Mirroring, NewTree
<1>5. TreeOK(c)'
  BY <1>1 DEF TreeOK, NewTree, NoDocs, Clean, Named, Mirroring, Saving, Committing, AfterCommit, Unchanged
<1>6. OnceOK(c)'
  BY <1>1, <1>2, ClientFacts DEF OnceOK, Mirroring, Unchanged, Committing, AfterCommit
<1> QED
  BY <1>3, <1>4, <1>5, <1>6 DEF ClientOK

-----------------------------------------------------------------------------
(* The steps.                                                               *)

LEMMA InitInv == Init => Inv
<1> SUFFICES ASSUME Init PROVE Inv
  OBVIOUS
<1> DEFINE fresh == [x \in {} |-> {}]
<1>1. NewRequest \in Request /\ NewRequest.tree = NewTree /\ NewRequest.gen = 0
      /\ NewRequest.pc = "new" /\ NewRequest.outcome = "none" /\ NewRequest.attempt = 1
      /\ NewRequest.kind = "list"
  <2>1. 1 \in 1..Attempts
    BY BoundAssumption
  <2> QED
    BY <2>1, TreeFacts DEF NewRequest, Request, Pc, Kind, Outcome
<1>2. req = [c \in Client |-> NewRequest] /\ spoilt = {} /\ faults = 0 /\ lock = Nobody
  BY DEF Init
<1>3. /\ log \in Seq(Entry) /\ rootFile \in Root \cup {NoHash}
      /\ \/ log = <<>> /\ rootFile = NoHash
         \/ Len(log) = 1 /\ log # <<>> /\ rootFile \in Root /\ log[1].root = rootFile
            /\ log[1].by = Nobody
  <2>1. CASE log = <<>> /\ rootFile = NoHash
    BY <2>1
  <2>2. CASE \E d \in Doc :
                /\ rootFile = [x \in {d} |-> {}]
                /\ log = <<[root |-> rootFile, by |-> Nobody, kind |-> "create", doc |-> d]>>
    <3> PICK d \in Doc : /\ rootFile = [x \in {d} |-> {}]
                         /\ log = <<[root |-> rootFile, by |-> Nobody, kind |-> "create", doc |-> d]>>
      BY <2>2
    <3>1. rootFile \in [{d} -> Edits]
      BY DEF Edits
    <3>2. rootFile \in Root
      BY <3>1, IsRoot
    <3>3. [root |-> rootFile, by |-> Nobody, kind |-> "create", doc |-> d] \in Entry
      BY <3>2 DEF Entry, Kind
    <3> QED
      BY <3>2, <3>3
  <2> QED
    BY <2>1, <2>2 DEF Init
<1>4. cache = NewTree \/ (log # <<>> /\ cache = [hash |-> rootFile, gen |-> 1, docs |-> Mirrored(Live(rootFile))])
  BY DEF Init
<1>5. cache \in Tree /\ CacheOK
  <2>1. CASE cache = NewTree
    <3>1. Clean(NewTree.docs, Nobody, spoilt) /\ NewTree.hash = NoHash /\ NewTree.gen = 0
      BY DEF NewTree, NoDocs, Clean
    <3>2. Generation \in Nat
      BY <1>3 DEF Generation
    <3> QED
      BY <2>1, <3>1, <3>2, TreeFacts DEF CacheOK, Named, WasRoot
  <2>2. CASE log # <<>> /\ cache = [hash |-> rootFile, gen |-> 1, docs |-> Mirrored(Live(rootFile))]
    <3>1. Seen(rootFile, Nobody) = Live(rootFile)
      BY ClientAssumption DEF Seen, Client
    <3>2. /\ Mirrored(Live(rootFile)) \in Docs
          /\ Clean(Mirrored(Live(rootFile)), Nobody, spoilt)
          /\ Shows(Mirrored(Live(rootFile)), rootFile, Nobody, spoilt)
      BY <1>3, <2>2, <3>1, MirroredShows
    <3> QED
      BY <1>3, <2>2, <3>2, TreeFacts DEF CacheOK, Named, WasRoot, Generation
  <2> QED
    BY <1>4, <2>1, <2>2
<1>6. Typed
  BY <1>1, <1>2, <1>3, <1>5, BoundAssumption DEF Typed
<1>7. Locked
  BY <1>1, <1>2, ClientAssumption DEF Locked, Holding
<1>8. FileOK
  BY <1>1, <1>2, <1>3, NothingAssumption DEF FileOK, Current, At
<1>9. LogOK
  BY <1>3 DEF LogOK
<1>10. \A c \in Client : ClientOK(c)
  <2> TAKE c \in Client
  <2>1. req[c] = NewRequest /\ req[c].tree = NewTree /\ req[c].gen = 0
        /\ req[c].pc = "new" /\ req[c].outcome = "none" /\ req[c].attempt = 1
        /\ req[c].kind = "list"
    BY <1>1, <1>2
  <2>2. RequestOK(c)
    BY <2>1 DEF RequestOK, Committing, AfterCommit, Saving
  <2>3. GenOK(c)
    BY <1>3, <2>1 DEF GenOK, At, Mirroring, NewTree, Generation
  <2>4. TreeOK(c)
    BY <2>1 DEF TreeOK, NewTree, NoDocs, Clean, Named, Mirroring, Saving, Committing,
                AfterCommit, Unchanged
  <2>5. CommitsBy(c) = {}
    BY <1>3, ClientAssumption DEF CommitsBy
  <2>6. OnceOK(c)
    BY <2>1, <2>5 DEF OnceOK, AfterCommit
  <2> QED
    BY <2>2, <2>3, <2>4, <2>6 DEF ClientOK
<1> QED
  BY <1>5, <1>6, <1>7, <1>8, <1>9, <1>10 DEF Inv

LEMMA BeginOK ==
    ASSUME Inv, NEW c \in Client, Begin(c)
    PROVE  Inv'
<1>1. PICK k \in Kind, d \in Doc \cup {NoDoc} :
          /\ k = "list" <=> d = NoDoc
          /\ k \notin (IF c \in UI THEN {"mark"} ELSE {"list"})
          /\ req' = [req EXCEPT ![c].pc = "mirror", ![c].kind = k, ![c].doc = d,
                                ![c].tree = LoadTree(c)]
  BY DEF Begin
<1>2. req[c] \in Request /\ Typed /\ req[c].pc = "new"
  BY RequestFacts DEF Inv, Begin, At
<1>3. LoadTree(c) \in Tree
  BY <1>2, TreeFacts DEF LoadTree, Typed
<1> DEFINE r == [req[c] EXCEPT !.pc = "mirror", !.kind = k, !.doc = d, !.tree = LoadTree(c)]
<1>4. /\ r \in Request /\ r.pc = "mirror" /\ r.kind = k /\ r.doc = d /\ r.tree = LoadTree(c)
      /\ r.gen = req[c].gen /\ r.attempt = req[c].attempt /\ r.outcome = req[c].outcome
  BY <1>2, <1>3 DEF Request, Pc
<1>5. req' = [req EXCEPT ![c] = r]
  BY <1>1, <1>2 DEF Typed
<1>6. /\ req' \in [Client -> Request] /\ req'[c] = r
      /\ \A b \in Client \ {c} : req'[b] = req[b]
  BY <1>2, <1>4, <1>5, OneMoves
<1> HIDE DEF r
<1>7. UNCHANGED <<log, rootFile, lock, cache, faults, spoilt>>
  BY DEF Begin
<1>8. /\ Clean(r.tree.docs, c, spoilt) /\ Named(r.tree, c, spoilt) /\ WasRoot(r.tree, log)
      /\ r.tree.gen <= Generation
  <2>1. CASE LoadTree(c) = NewTree
    <3>1. Clean(NewTree.docs, c, spoilt) /\ NewTree.hash = NoHash /\ NewTree.gen = 0
      BY DEF NewTree, NoDocs, Clean
    <3> QED
      BY <1>2, <1>4, <2>1, <3>1, LogFacts DEF Named, WasRoot
  <2>2. CASE LoadTree(c) = cache /\ cache # Corrupt /\ c \notin Tablet
    <3>1. Nobody \notin Tablet
      BY ClientAssumption DEF Client
    <3> QED
      BY <1>4, <2>2, <3>1, SameEyes DEF Inv, CacheOK
  <2> QED
    BY <2>1, <2>2 DEF LoadTree
<1>9. Generation' = Generation /\ CommitsBy(c)' = CommitsBy(c)
  BY <1>7 DEF Generation, CommitsBy
<1>10. RequestOK(c)'
  <2>1. (c \in Tablet => k # "list") /\ (k = "mark" => c \in Tablet)
    BY <1>1, ClientAssumption DEF Client
  <2> QED
    BY <1>1, <1>2, <1>4, <1>6, <2>1, ClientFacts DEF RequestOK, Committing, AfterCommit, Saving
<1>11. req[c].attempt = 1
  BY <1>2, ClientFacts DEF RequestOK
<1>12. GenOK(c)'
  BY <1>4, <1>6, <1>8, <1>9, <1>11, ClientFacts DEF GenOK, At, Mirroring
<1>13. TreeOK(c)'
  BY <1>4, <1>6, <1>7, <1>8, <1>9
     DEF TreeOK, Mirroring, Saving, Committing, AfterCommit, Unchanged
<1>14. OnceOK(c)'
  BY <1>2, <1>4, <1>6, <1>9, ClientFacts
     DEF OnceOK, RequestOK, Mirroring, AfterCommit
<1>15. req[c].pc \notin Holding /\ req'[c].pc \notin Holding
  BY <1>2, <1>4, <1>6 DEF Holding
<1> QED
  BY <1>2, <1>6, <1>7, <1>10, <1>12, <1>13, <1>14, <1>15, OwnStep DEF ClientOK, Typed

(* A request that goes on to change its tree as it is.                      *)
LEMMA ToApplyOK ==
    ASSUME Inv, NEW c \in Client, req[c].pc \in Mirroring \cup {"writeMirrored"},
           req'[c] = [req[c] EXCEPT !.pc = "apply", !.gen = 0],
           req[c].pc \in Mirroring => req[c].attempt > 1,
           log' = log, spoilt' = spoilt
    PROVE  ClientOK(c)'
<1>1. req[c] \in Request
  BY RequestFacts DEF Inv
<1>2. /\ req'[c].pc = "apply" /\ req'[c].gen = 0 /\ req'[c].tree = req[c].tree
      /\ req'[c].kind = req[c].kind /\ req'[c].doc = req[c].doc
      /\ req'[c].attempt = req[c].attempt /\ req'[c].outcome = req[c].outcome
  BY <1>1 DEF Request
<1>3. /\ Generation' = Generation /\ CommitsBy(c)' = CommitsBy(c) /\ Current' = Current
      /\ Generation \in Nat
  BY LogFacts DEF Inv, Generation, CommitsBy, Current
<1>4. RequestOK(c) /\ GenOK(c) /\ TreeOK(c) /\ OnceOK(c)
  BY ClientFacts
<1>5. RequestOK(c)'
  BY <1>2, <1>4 DEF RequestOK, Committing, AfterCommit, Saving, Mirroring
<1>6. GenOK(c)'
  BY <1>2, <1>3, <1>4 DEF GenOK, At, Mirroring
<1>7. req[c].tree.gen = Generation /\ spoilt # Doc => Shows(req[c].tree.docs, Current, c, spoilt)
  BY <1>1, <1>3, <1>4 DEF GenOK, TreeOK, Mirroring, Unchanged
<1>8. TreeOK(c)'
  BY <1>2, <1>3, <1>4, <1>7 DEF TreeOK, Mirroring, Saving, Committing, AfterCommit, Unchanged
<1>9. OnceOK(c)'
  BY <1>2, <1>3, <1>4 DEF OnceOK, RequestOK, Mirroring, AfterCommit, Unchanged
<1> QED
  BY <1>5, <1>6, <1>8, <1>9 DEF ClientOK

LEMMA MirrorErrorOK ==
    ASSUME Inv, NEW c \in Client, req[c].pc \in Mirroring \cup {"writeMirrored"}, MirrorError(c),
           log' = log, spoilt' = spoilt
    PROVE  /\ req' \in [Client -> Request] /\ \A b \in Client \ {c} : req'[b] = req[b]
           /\ req'[c].pc \notin Holding
           /\ ClientOK(c)'
<1>1. Typed /\ req[c] \in Request
  BY RequestFacts DEF Inv
<1>2. CommitsBy(c) = {}
  BY ClientFacts DEF OnceOK, Mirroring, Unchanged
<1>3. CASE req'[c] = Answered(req[c], "ok") /\ c \in UI /\ req[c].kind \in {"update", "delete"}
  <2>1. ClientOK(c)'
    BY <1>3, AnswerOK, ClientAssumption DEF Outcome
  <2> QED
    BY <1>1, <1>3, <2>1, MirrorErrorStep, AnsweredType DEF Outcome, Holding
<1>4. CASE req'[c] = Answered(req[c], "error")
  <2>1. ClientOK(c)'
    BY <1>2, <1>4, AnswerOK DEF Outcome
  <2> QED
    BY <1>1, <1>4, <2>1, MirrorErrorStep, AnsweredType DEF Outcome, Holding
<1>5. CASE req[c].attempt > 1 /\ req'[c] = [req[c] EXCEPT !.pc = "apply", !.gen = 0]
  <2>1. ClientOK(c)'
    BY <1>5, ToApplyOK
  <2>2. req'[c].pc = "apply"
    BY <1>1, <1>5 DEF Request
  <2> QED
    BY <1>1, <2>1, <2>2, MirrorErrorStep DEF Holding
<1> QED
  BY <1>1, <1>3, <1>4, <1>5, MirrorErrorStep

LEMMA MirrorBusyOK ==
    ASSUME Inv, NEW c \in Client, MirrorBusy(c)
    PROVE  Inv'
<1>1. req[c].pc = "mirror" /\ MirrorError(c)
      /\ UNCHANGED <<log, rootFile, lock, cache, faults, spoilt>>
  BY DEF MirrorBusy, At
<1>2. /\ req' \in [Client -> Request] /\ \A b \in Client \ {c} : req'[b] = req[b]
      /\ req'[c].pc \notin Holding /\ ClientOK(c)'
  BY <1>1, MirrorErrorOK DEF Mirroring
<1> QED
  BY <1>1, <1>2, OwnStep DEF Inv, Typed, Holding

LEMMA MoreFaults ==
    ASSUME Typed, faults < MaxFaults, faults' = faults + 1
    PROVE  faults' \in 0..MaxFaults
BY BoundAssumption DEF Typed

LEMMA MirrorIndexFailsOK ==
    ASSUME Inv, NEW c \in Client, MirrorIndexFails(c)
    PROVE  Inv'
<1>1. req[c].pc = "read" /\ MirrorError(c)
      /\ UNCHANGED <<log, rootFile, lock, cache, spoilt>>
  BY DEF MirrorIndexFails, At
<1>2. faults' \in 0..MaxFaults
  BY MoreFaults DEF MirrorIndexFails, Inv
<1>3. /\ req' \in [Client -> Request] /\ \A b \in Client \ {c} : req'[b] = req[b]
      /\ req'[c].pc \notin Holding /\ ClientOK(c)'
  BY <1>1, MirrorErrorOK DEF Mirroring
<1> QED
  BY <1>1, <1>2, <1>3, OwnStep DEF Inv, Typed, Holding

(* A label changes, and nothing that is said of the request.                *)
LEMMA LabelOK ==
    ASSUME Inv, NEW c \in Client, NEW label \in Pc,
           req' = [req EXCEPT ![c].pc = label], log' = log, spoilt' = spoilt,
           \/ req[c].pc \in Mirroring /\ label \in Mirroring \ {"read"}
           \/ req[c].pc \in Committing /\ label \in Committing
    PROVE  /\ req' \in [Client -> Request] /\ \A b \in Client \ {c} : req'[b] = req[b]
           /\ req'[c].pc = label
           /\ ClientOK(c)'
<1>1. Typed /\ req[c] \in Request
  BY RequestFacts DEF Inv
<1>2. /\ req' \in [Client -> Request] /\ \A b \in Client \ {c} : req'[b] = req[b]
      /\ req'[c] = [req[c] EXCEPT !.pc = label]
  BY <1>1, GotoStep DEF Goto
<1>3. /\ req'[c].pc = label /\ req'[c].gen = req[c].gen /\ req'[c].tree = req[c].tree
      /\ req'[c].kind = req[c].kind /\ req'[c].doc = req[c].doc
      /\ req'[c].attempt = req[c].attempt /\ req'[c].outcome = req[c].outcome
  BY <1>1, <1>2 DEF Request
<1>4. /\ Generation' = Generation /\ CommitsBy(c)' = CommitsBy(c) /\ Current' = Current
  BY DEF Generation, CommitsBy, Current
<1>5. RequestOK(c) /\ GenOK(c) /\ TreeOK(c) /\ OnceOK(c)
  BY ClientFacts
<1>6. RequestOK(c)'
  BY <1>3, <1>5 DEF RequestOK, Committing, AfterCommit, Saving, Mirroring
<1>7. GenOK(c)'
  BY <1>3, <1>4, <1>5 DEF GenOK, At, Mirroring, Committing
<1>8. TreeOK(c)'
  BY <1>3, <1>4, <1>5 DEF TreeOK, Mirroring, Saving, Committing, AfterCommit, Unchanged
<1>9. OnceOK(c)'
  BY <1>3, <1>4, <1>5 DEF OnceOK, RequestOK, Mirroring, AfterCommit, Unchanged, Committing
<1> QED
  BY <1>2, <1>3, <1>6, <1>7, <1>8, <1>9 DEF ClientOK

(* A request takes the lock.                                                *)
LEMMA TakesLock ==
    ASSUME Inv, NEW c \in Client, lock = Nobody, lock' = c, req'[c].pc \in {"stat", "check"},
           \A b \in Client \ {c} : req'[b] = req[b],
           UNCHANGED <<log, rootFile, spoilt>>
    PROVE  Locked' /\ FileOK'
<1>1. Locked /\ FileOK
  BY DEF Inv
<1>2. \A b \in Client : req[b].pc \notin Holding
  BY <1>1, ClientAssumption DEF Locked
<1>3. Locked'
  BY <1>2 DEF Locked, Holding
<1>4. ~Filling /\ ~Filling'
  BY <1>2 DEF Filling, At, Holding
<1> QED
  BY <1>1, <1>3, <1>4 DEF FileOK, Filling, Current

(* And gives it back.                                                       *)
LEMMA ReturnsLock ==
    ASSUME Inv, NEW c \in Client, req[c].pc \in {"stat", "check"}, lock' = Nobody,
           req'[c].pc \notin Holding,
           \A b \in Client \ {c} : req'[b] = req[b],
           UNCHANGED <<log, rootFile, spoilt>>
    PROVE  Locked' /\ FileOK' /\ ~Filling
<1>1. Locked /\ FileOK
  BY DEF Inv
<1>2. lock = c /\ \A b \in Client \ {c} : req[b].pc \notin Holding
  BY <1>1 DEF Locked, Holding
<1>3. Locked'
  BY <1>2, ClientAssumption DEF Locked
<1>4. ~Filling /\ ~Filling'
  BY <1>2 DEF Filling, At, Holding
<1> QED
  BY <1>1, <1>3, <1>4 DEF FileOK, Filling, Current

LEMMA MirrorLockOK ==
    ASSUME Inv, NEW c \in Client, MirrorLock(c)
    PROVE  Inv'
<1>1. req[c].pc = "mirror" /\ lock = Nobody /\ lock' = c
      /\ req' = [req EXCEPT ![c].pc = "stat"]
      /\ UNCHANGED <<log, rootFile, cache, faults, spoilt>>
  BY DEF MirrorLock, At, Goto
<1>2. /\ req' \in [Client -> Request] /\ \A b \in Client \ {c} : req'[b] = req[b]
      /\ req'[c].pc = "stat" /\ ClientOK(c)'
  <2>1. "stat" \in Pc
    BY DEF Pc
  <2>2. \/ req[c].pc \in Mirroring /\ "stat" \in Mirroring \ {"read"}
        \/ req[c].pc \in Committing /\ "stat" \in Committing
    BY <1>1 DEF Mirroring
  <2> QED
    BY <1>1, <2>1, <2>2, LabelOK
<1>3. Locked' /\ FileOK'
  BY <1>1, <1>2, TakesLock
<1>4. CacheOK'
  BY <1>1, CacheLeft
<1> QED
  BY <1>1, <1>2, <1>3, <1>4, QuietStep DEF Inv, Typed

LEMMA CommitLockOK ==
    ASSUME Inv, NEW c \in Client, CommitLock(c)
    PROVE  Inv'
<1>1. req[c].pc = "commit" /\ lock = Nobody /\ lock' = c
      /\ req' = [req EXCEPT ![c].pc = "check"]
      /\ UNCHANGED <<log, rootFile, cache, faults, spoilt>>
  BY DEF CommitLock, At, Goto
<1>2. /\ req' \in [Client -> Request] /\ \A b \in Client \ {c} : req'[b] = req[b]
      /\ req'[c].pc = "check" /\ ClientOK(c)'
  <2>1. "check" \in Pc
    BY DEF Pc
  <2>2. \/ req[c].pc \in Mirroring /\ "check" \in Mirroring \ {"read"}
        \/ req[c].pc \in Committing /\ "check" \in Committing
    BY <1>1 DEF Committing
  <2> QED
    BY <1>1, <2>1, <2>2, LabelOK
<1>3. Locked' /\ FileOK'
  BY <1>1, <1>2, TakesLock
<1>4. CacheOK'
  BY <1>1, CacheLeft
<1> QED
  BY <1>1, <1>2, <1>3, <1>4, QuietStep DEF Inv, Typed

(* The generation is read while nobody fills the root.                      *)
LEMMA MirrorStatOK ==
    ASSUME Inv, NEW c \in Client, MirrorStat(c)
    PROVE  Inv'
<1>1. req[c].pc = "stat" /\ lock' = Nobody
      /\ req' = [req EXCEPT ![c].pc = "read", ![c].gen = Generation]
      /\ UNCHANGED <<log, rootFile, cache, faults, spoilt>>
  BY DEF MirrorStat, At
<1>2. req[c] \in Request /\ Typed /\ Generation \in Nat
  BY RequestFacts, LogFacts DEF Inv
<1> DEFINE r == [req[c] EXCEPT !.pc = "read", !.gen = Generation]
<1>3. /\ r \in Request /\ r.pc = "read" /\ r.kind = req[c].kind /\ r.doc = req[c].doc
      /\ r.tree = req[c].tree /\ r.gen = Generation /\ r.attempt = req[c].attempt
      /\ r.outcome = req[c].outcome
  BY <1>2 DEF Request, Pc
<1>4. req' = [req EXCEPT ![c] = r]
  BY <1>1, <1>2 DEF Typed
<1>5. /\ req' \in [Client -> Request] /\ req'[c] = r
      /\ \A b \in Client \ {c} : req'[b] = req[b]
  BY <1>2, <1>3, <1>4, OneMoves
<1> HIDE DEF r
<1>6. Locked' /\ FileOK' /\ ~Filling
  BY <1>1, <1>3, <1>5, ReturnsLock DEF Holding
<1>7. ~Filling'
  BY <1>3, <1>5, <1>6 DEF Filling, At
<1>8. /\ Generation' = Generation /\ CommitsBy(c)' = CommitsBy(c) /\ Current' = Current
  BY <1>1 DEF Generation, CommitsBy, Current
<1>9. RequestOK(c) /\ GenOK(c) /\ TreeOK(c) /\ OnceOK(c)
  BY ClientFacts
<1>10. RequestOK(c)'
  BY <1>1, <1>3, <1>5, <1>9 DEF RequestOK, Committing, AfterCommit, Saving
<1>11. GenOK(c)'
  BY <1>1, <1>2, <1>3, <1>5, <1>7, <1>8, <1>9 DEF GenOK, At, Mirroring
<1>12. TreeOK(c)'
  BY <1>1, <1>3, <1>5, <1>8, <1>9
     DEF TreeOK, Mirroring, Saving, Committing, AfterCommit, Unchanged
<1>13. OnceOK(c)'
  BY <1>1, <1>3, <1>5, <1>8, <1>9 DEF OnceOK, RequestOK, Mirroring, AfterCommit
<1>14. CacheOK'
  BY <1>1, CacheLeft
<1> QED
  BY <1>1, <1>3, <1>5, <1>6, <1>10, <1>11, <1>12, <1>13, <1>14, QuietStep DEF ClientOK, Inv, Typed

(* A tree that was mirrored, and is to be saved if it is another.           *)
LEMMA MirroredOK ==
    ASSUME Inv, NEW c \in Client, req[c].pc = "read", NEW tree \in Tree, NEW changed,
           Keep(c, tree, changed), log' = log,
           spoilt \subseteq spoilt', Clean(tree.docs, c, spoilt'),
           changed => tree.hash # NoHash /\ Named(tree, c, spoilt') /\ WasRoot(tree, log),
           tree.gen = req[c].gen,
           tree.gen = Generation /\ spoilt' # Doc => Shows(tree.docs, Current, c, spoilt')
    PROVE  /\ req' \in [Client -> Request] /\ \A b \in Client \ {c} : req'[b] = req[b]
           /\ req'[c].pc \notin Holding
           /\ ClientOK(c)'
<1>1. /\ req' \in [Client -> Request] /\ \A b \in Client \ {c} : req'[b] = req[b]
      /\ req'[c].pc = AfterMirror(c, changed) /\ req'[c].gen = 0 /\ req'[c].tree = tree
      /\ req'[c].kind = req[c].kind /\ req'[c].doc = req[c].doc
      /\ req'[c].attempt = req[c].attempt /\ req'[c].outcome = req[c].outcome
  BY KeepStep DEF Inv
<1>2. /\ req'[c].pc \in {"saveMirrored", "apply"}
      /\ req'[c].pc = "saveMirrored" => changed /\ c \in UI
  BY <1>1 DEF AfterMirror
<1>3. /\ Generation' = Generation /\ CommitsBy(c)' = CommitsBy(c) /\ Current' = Current
      /\ Generation \in Nat
  BY LogFacts DEF Inv, Generation, CommitsBy, Current
<1>4. RequestOK(c) /\ GenOK(c) /\ TreeOK(c) /\ OnceOK(c)
  BY ClientFacts
<1>5. RequestOK(c)'
  BY <1>1, <1>2, <1>4, ClientAssumption DEF RequestOK, Committing, AfterCommit, Saving
<1>6. GenOK(c)'
  BY <1>1, <1>2, <1>3, <1>4 DEF GenOK, At, Mirroring
<1>7. TreeOK(c)'
  BY <1>1, <1>2, <1>3 DEF TreeOK, Mirroring, Saving, Committing, AfterCommit, Unchanged
<1>8. OnceOK(c)'
  BY <1>1, <1>2, <1>3, <1>4 DEF OnceOK, RequestOK, Mirroring, AfterCommit, Unchanged
<1> QED
  BY <1>1, <1>2, <1>5, <1>6, <1>7, <1>8 DEF ClientOK, Holding

(* What a read of the file root finds is the last commit, if the generation *)
(* that was read before is still that of the last commit.                   *)
LEMMA ReadsCurrent ==
    ASSUME Inv, NEW c \in Client, req[c].pc = "read", req[c].gen = Generation, spoilt # Doc
    PROVE  Current = IF rootFile = NoHash THEN NoDocs ELSE rootFile
<1>1. FileOK /\ GenOK(c) /\ Generation \in Nat
  BY ClientFacts, LogFacts DEF Inv
<1>2. ~Filling
  BY <1>1 DEF GenOK, At
<1> QED
  BY <1>1, <1>2 DEF FileOK, Current

LEMMA MirrorReadOK ==
    ASSUME Inv, NEW c \in Client, MirrorRead(c)
    PROVE  Inv'
<1> DEFINE t == req[c].tree
           gen == req[c].gen
<1>1. req[c].pc = "read" /\ UNCHANGED <<log, rootFile, lock, cache, faults, spoilt>>
  BY DEF MirrorRead, At
<1>2. /\ Typed /\ t \in Tree /\ gen \in Nat /\ t.docs \in Docs /\ t.hash \in Root \cup {NoHash}
      /\ Generation \in Nat /\ Clean(t.docs, c, spoilt) /\ Named(t, c, spoilt)
      /\ gen <= Generation
      /\ FileOK /\ Current \in Root
  BY <1>1, RequestFacts, LogFacts, ClientFacts DEF Inv, TreeOK, GenOK
<1>3. gen = Generation /\ spoilt # Doc => Current = IF rootFile = NoHash THEN NoDocs ELSE rootFile
  BY <1>1, ReadsCurrent
<1>4. rootFile # NoHash => /\ rootFile \in Root /\ log # <<>> /\ rootFile = log[Len(log)].root
                           /\ Len(log) \in 1..Len(log) /\ Len(log) >= gen
  BY <1>2, LogFacts DEF FileOK, Typed, Current, Generation
<1>5. /\ req' \in [Client -> Request] /\ \A b \in Client \ {c} : req'[b] = req[b]
      /\ req'[c].pc \notin Holding /\ ClientOK(c)'
  <2>1. CASE rootFile = NoHash /\ Keep(c, [t EXCEPT !.docs = NoDocs, !.gen = gen], FALSE)
    <3> DEFINE tree == [t EXCEPT !.docs = NoDocs, !.gen = gen]
    <3>1. tree \in Tree /\ tree.docs = NoDocs /\ tree.gen = gen
      BY <1>2, TreeFacts
    <3>2. Clean(NoDocs, c, spoilt) /\ Shows(NoDocs, NoDocs, c, spoilt)
      BY TreeFacts, LiveType, IndexValues DEF Clean, NoDocs, Shows, Seen, AgreeOutside
    <3> HIDE DEF tree
    <3> QED
      BY <1>1, <1>3, <2>1, <3>1, <3>2, MirroredOK DEF tree
  <2>2. CASE /\ rootFile # NoHash /\ rootFile = t.hash
             /\ Keep(c, [t EXCEPT !.gen = gen], gen # t.gen)
    <3> DEFINE tree == [t EXCEPT !.gen = gen]
               changed == gen # t.gen
    <3>1. tree \in Tree /\ tree.docs = t.docs /\ tree.gen = gen /\ tree.hash = t.hash
      BY <1>2, TreeFacts
    <3>2. Keep(c, tree, changed)
      BY <2>2
    <3> HIDE DEF tree, changed
    <3>3. /\ Shows(tree.docs, rootFile, c, spoilt) /\ Named(tree, c, spoilt)
          /\ tree.hash # NoHash
      BY <1>2, <2>2, <3>1 DEF Named
    <3>4. WasRoot(tree, log)
      BY <1>4, <2>2, <3>1 DEF WasRoot
    <3> QED
      BY <1>1, <1>2, <1>3, <2>2, <3>1, <3>2, <3>3, <3>4, MirroredOK
  <2>3. CASE /\ rootFile # NoHash /\ rootFile # t.hash
             /\ Keep(c, [hash |-> rootFile, gen |-> gen,
                         docs |-> Pulled(c, rootFile)], TRUE)
    <3> DEFINE tree == [hash |-> rootFile, gen |-> gen, docs |-> Pulled(c, rootFile)]
    <3>1. /\ Pulled(c, rootFile) \in Docs /\ Clean(Pulled(c, rootFile), c, spoilt)
          /\ Shows(Pulled(c, rootFile), rootFile, c, spoilt)
      BY <1>2, <1>4, <2>3, PulledFacts
    <3>2. /\ tree \in Tree /\ tree.docs = Pulled(c, rootFile)
          /\ tree.gen = gen /\ tree.hash = rootFile /\ Keep(c, tree, TRUE)
      BY <1>2, <1>4, <2>3, <3>1, TreeFacts
    <3> HIDE DEF tree
    <3>3. Clean(tree.docs, c, spoilt)
      BY <3>1, <3>2
    <3>4. Named(tree, c, spoilt) /\ WasRoot(tree, log)
      BY <1>4, <2>3, <3>1, <3>2 DEF Named, WasRoot
    <3> QED
      BY <1>1, <1>3, <2>3, <3>1, <3>2, <3>3, <3>4, MirroredOK
  <2> QED
    BY <2>1, <2>2, <2>3 DEF MirrorRead
<1> QED
  BY <1>1, <1>5, OwnStep DEF Inv, Typed, Holding

LEMMA MirrorReadFailsOK ==
    ASSUME Inv, NEW c \in Client, MirrorReadFails(c)
    PROVE  Inv'
<1> DEFINE t == req[c].tree
           gen == req[c].gen
<1>1. req[c].pc = "read" /\ UNCHANGED <<log, rootFile, lock, cache>>
      /\ faults' \in 0..MaxFaults /\ rootFile # NoHash /\ rootFile # t.hash
  BY MoreFaults DEF MirrorReadFails, At, Inv
<1>2. /\ Typed /\ t \in Tree /\ gen \in Nat /\ t.docs \in Docs
      /\ Generation \in Nat /\ Clean(t.docs, c, spoilt) /\ gen <= Generation
      /\ FileOK
  BY <1>1, RequestFacts, LogFacts, ClientFacts DEF Inv, TreeOK, GenOK
<1>3. PICK d \in DOMAIN rootFile \ Kept(t.docs, rootFile) :
          /\ spoilt' = spoilt \cup {d}
          /\ \E files \in OldFiles(t.docs, rootFile, d) :
                Keep(c, [hash |-> rootFile, gen |-> gen,
                         docs |-> Misread(t.docs, rootFile, d, files)], TRUE)
  BY DEF MirrorReadFails
<1>4. /\ rootFile \in Root /\ log # <<>> /\ rootFile = log[Len(log)].root
      /\ Len(log) \in 1..Len(log) /\ Len(log) >= gen
  BY <1>1, <1>2, LogFacts DEF FileOK, Typed, Current, Generation
<1>13. PICK files \in OldFiles(t.docs, rootFile, d) :
          Keep(c, [hash |-> rootFile, gen |-> gen,
                   docs |-> Misread(t.docs, rootFile, d, files)], TRUE)
  BY <1>3
<1> DEFINE docs == Misread(t.docs, rootFile, d, files)
           tree == [hash |-> rootFile, gen |-> gen, docs |-> docs]
<1>5. c \notin Tablet
  BY ClientAssumption DEF MirrorReadFails
<1>6. docs \in Docs /\ Clean(docs, c, spoilt') /\ Shows(docs, rootFile, c, spoilt')
  BY <1>2, <1>3, <1>4, <1>5, MisreadFacts
<1>7. Keep(c, tree, TRUE)
  BY <1>13
<1> HIDE DEF docs
<1>8. /\ tree \in Tree /\ tree.docs = docs /\ tree.gen = gen /\ tree.hash = rootFile
  BY <1>2, <1>4, <1>6, TreeFacts
<1> HIDE DEF tree
<1>9. Named(tree, c, spoilt') /\ WasRoot(tree, log)
  BY <1>4, <1>6, <1>8 DEF Named, WasRoot
<1>10. spoilt' \in SUBSET Doc /\ spoilt \subseteq spoilt'
  BY <1>2, <1>3, <1>4, RootFacts DEF Typed
<1>11. tree.gen = Generation /\ spoilt' # Doc => Shows(tree.docs, Current, c, spoilt')
  BY <1>4, <1>6, <1>8 DEF Current
<1>12. /\ req' \in [Client -> Request] /\ \A b \in Client \ {c} : req'[b] = req[b]
       /\ req'[c].pc \notin Holding /\ ClientOK(c)'
  BY <1>1, <1>6, <1>7, <1>8, <1>9, <1>10, <1>11, MirroredOK
<1> QED
  BY <1>1, <1>10, <1>12, OwnStep DEF Holding

(* A step of a request that writes the cache file.                          *)
LEMMA CacheStep ==
    ASSUME Inv, NEW c \in Client, req' \in [Client -> Request],
           \A b \in Client \ {c} : req'[b] = req[b],
           req[c].pc \notin Holding, req'[c].pc \notin Holding,
           UNCHANGED <<log, rootFile, lock, spoilt, faults>>,
           cache' = Corrupt \/ (cache' = req[c].tree /\ req[c].pc \in Saving),
           ClientOK(c)'
    PROVE  Inv'
<1>1. Typed /\ GenOK(c) /\ TreeOK(c) /\ req[c].tree \in Tree
  BY ClientFacts, RequestFacts DEF Inv
<1>2. cache' \in Tree \cup {Corrupt}
  BY <1>1
<1>3. CacheOK'
  <2>1. CASE cache' = Corrupt
    BY <2>1 DEF CacheOK
  <2>2. CASE cache' = req[c].tree /\ req[c].pc \in Saving
    <3>1. c \notin Tablet /\ Nobody \notin Tablet
      BY <2>2, ClientFacts, ClientAssumption DEF RequestOK, Client
    <3>2. /\ Clean(cache'.docs, c, spoilt) /\ Named(cache', c, spoilt) /\ WasRoot(cache', log)
          /\ cache'.gen <= Generation
      BY <1>1, <2>2 DEF TreeOK, GenOK, Saving
    <3>3. Clean(cache'.docs, Nobody, spoilt) /\ Named(cache', Nobody, spoilt)
      BY <3>1, <3>2, SameEyes
    <3> QED
      BY <3>2, <3>3 DEF CacheOK, Generation
  <2> QED
    BY <2>1, <2>2
<1>4. Locked' /\ FileOK'
  BY <1>1, LockLeft DEF Typed
<1>5. req'[c].pc # "fill"
  BY DEF Holding
<1> QED
  BY <1>1, <1>2, <1>3, <1>4, <1>5, QuietStep DEF Typed

LEMMA SaveCreateOK ==
    ASSUME Inv, NEW c \in Client, SaveCreate(c)
    PROVE  Inv'
<1>1. /\ req[c].pc \in {"saveMirrored", "saveCommitted"} /\ cache' = Corrupt
      /\ UNCHANGED <<log, rootFile, lock, faults, spoilt>>
  BY DEF SaveCreate, At
<1>2. Typed /\ req[c] \in Request
  BY RequestFacts DEF Inv
<1> DEFINE label == IF At(c, "saveMirrored") THEN "writeMirrored" ELSE "writeCommitted"
<1>3. label \in Pc /\ Goto(c, label)
  BY DEF SaveCreate, Pc
<1>4. /\ req[c].pc = "saveMirrored" => label = "writeMirrored"
      /\ req[c].pc = "saveCommitted" => label = "writeCommitted"
  BY DEF At
<1> HIDE DEF label
<1>5. /\ req' \in [Client -> Request] /\ \A b \in Client \ {c} : req'[b] = req[b]
      /\ req'[c] = [req[c] EXCEPT !.pc = label]
  BY <1>2, <1>3, GotoStep
<1>6. /\ req'[c].pc = label /\ req'[c].gen = req[c].gen /\ req'[c].tree = req[c].tree
      /\ req'[c].kind = req[c].kind /\ req'[c].doc = req[c].doc
      /\ req'[c].attempt = req[c].attempt /\ req'[c].outcome = req[c].outcome
  BY <1>2, <1>5 DEF Request
<1>7. /\ Generation' = Generation /\ CommitsBy(c)' = CommitsBy(c) /\ Current' = Current
  BY <1>1 DEF Generation, CommitsBy, Current
<1>8. RequestOK(c) /\ GenOK(c) /\ TreeOK(c) /\ OnceOK(c)
  BY ClientFacts
<1>9. RequestOK(c)'
  BY <1>1, <1>4, <1>6, <1>8 DEF RequestOK, Committing, AfterCommit, Saving
<1>10. GenOK(c)'
  BY <1>1, <1>4, <1>6, <1>7, <1>8 DEF GenOK, At, Mirroring
<1>11. TreeOK(c)'
  BY <1>1, <1>4, <1>6, <1>7, <1>8
     DEF TreeOK, Mirroring, Saving, Committing, AfterCommit, Unchanged
<1>12. OnceOK(c)'
  BY <1>1, <1>4, <1>6, <1>7, <1>8
     DEF OnceOK, RequestOK, Mirroring, AfterCommit, Unchanged, Committing
<1>13. req[c].pc \notin Holding /\ req'[c].pc \notin Holding
  BY <1>1, <1>4, <1>6 DEF Holding
<1> QED
  BY <1>1, <1>5, <1>9, <1>10, <1>11, <1>12, <1>13, CacheStep DEF ClientOK

(* A request goes on to its mutation with the tree it has saved.            *)
LEMMA SavedOK ==
    ASSUME Inv, NEW c \in Client, req[c].pc = "writeMirrored", Goto(c, "apply"),
           log' = log, spoilt' = spoilt
    PROVE  /\ req' \in [Client -> Request] /\ \A b \in Client \ {c} : req'[b] = req[b]
           /\ req'[c].pc = "apply"
           /\ ClientOK(c)'
<1>1. Typed /\ req[c] \in Request /\ "apply" \in Pc
  BY RequestFacts DEF Inv, Pc
<1>2. /\ req' \in [Client -> Request] /\ \A b \in Client \ {c} : req'[b] = req[b]
      /\ req'[c] = [req[c] EXCEPT !.pc = "apply"]
  BY <1>1, GotoStep
<1>3. /\ req'[c].pc = "apply" /\ req'[c].gen = req[c].gen /\ req'[c].tree = req[c].tree
      /\ req'[c].kind = req[c].kind /\ req'[c].doc = req[c].doc
      /\ req'[c].attempt = req[c].attempt /\ req'[c].outcome = req[c].outcome
  BY <1>1, <1>2 DEF Request
<1>4. /\ Generation' = Generation /\ CommitsBy(c)' = CommitsBy(c) /\ Current' = Current
  BY DEF Generation, CommitsBy, Current
<1>5. RequestOK(c) /\ GenOK(c) /\ TreeOK(c) /\ OnceOK(c)
  BY ClientFacts
<1>6. RequestOK(c)'
  BY <1>3, <1>5 DEF RequestOK, Committing, AfterCommit, Saving
<1>7. GenOK(c)'
  BY <1>3, <1>4, <1>5 DEF GenOK, At, Mirroring
<1>8. TreeOK(c)'
  BY <1>3, <1>4, <1>5 DEF TreeOK, Mirroring, Saving, Committing, AfterCommit, Unchanged
<1>9. OnceOK(c)'
  BY <1>3, <1>4, <1>5 DEF OnceOK, RequestOK, Mirroring, AfterCommit, Unchanged
<1> QED
  BY <1>2, <1>3, <1>6, <1>7, <1>8, <1>9 DEF ClientOK

(* An answer of a request that has committed.                               *)
LEMMA CommittedAnswer ==
    ASSUME Inv, NEW c \in Client, req[c].pc \in AfterCommit, NEW outcome \in {"ok", "half done"},
           Answer(c, outcome), log' = log
    PROVE  /\ req' \in [Client -> Request] /\ \A b \in Client \ {c} : req'[b] = req[b]
           /\ req'[c].pc = "done"
           /\ ClientOK(c)'
<1>1. Typed /\ req[c] \in Request /\ outcome \in Outcome
  BY RequestFacts DEF Inv, Outcome
<1>2. /\ req' \in [Client -> Request] /\ \A b \in Client \ {c} : req'[b] = req[b]
      /\ req'[c] = Answered(req[c], outcome)
  BY <1>1, AnswerStep
<1>3. CommitsBy(c) # {}
  BY ClientFacts DEF OnceOK
<1>4. ClientOK(c)'
  BY <1>1, <1>2, <1>3, AnswerOK
<1>5. Answered(req[c], outcome).pc = "done"
  BY <1>1, AnsweredType
<1> QED
  BY <1>2, <1>4, <1>5

LEMMA SaveWriteOK ==
    ASSUME Inv, NEW c \in Client, SaveWrite(c)
    PROVE  Inv'
<1>1. UNCHANGED <<log, rootFile, lock, faults, spoilt>>
  BY DEF SaveWrite
<1>2. cache' = Corrupt \/ cache' = req[c].tree
  BY DEF SaveWrite
<1>3. CASE At(c, "writeMirrored") /\ Goto(c, "apply")
  <2>1. /\ req' \in [Client -> Request] /\ \A b \in Client \ {c} : req'[b] = req[b]
        /\ req'[c].pc = "apply" /\ ClientOK(c)'
    BY <1>1, <1>3, SavedOK DEF At
  <2> QED
    BY <1>1, <1>2, <1>3, <2>1, CacheStep DEF At, Holding, Saving
<1>4. CASE At(c, "writeCommitted") /\ Answer(c, "ok")
  <2>1. /\ req' \in [Client -> Request] /\ \A b \in Client \ {c} : req'[b] = req[b]
        /\ req'[c].pc = "done" /\ ClientOK(c)'
    BY <1>1, <1>4, CommittedAnswer DEF At, AfterCommit
  <2> QED
    BY <1>1, <1>2, <1>4, <2>1, CacheStep DEF At, Holding, Saving
<1> QED
  BY <1>3, <1>4 DEF SaveWrite

LEMMA SaveFailsOK ==
    ASSUME Inv, NEW c \in Client, SaveFails(c)
    PROVE  Inv'
<1>1. UNCHANGED <<log, rootFile, lock, cache, spoilt>> /\ faults' \in 0..MaxFaults /\ Typed
  BY MoreFaults DEF SaveFails, Inv
<1>2. CASE At(c, "writeMirrored") /\ MirrorError(c)
  <2>1. /\ req' \in [Client -> Request] /\ \A b \in Client \ {c} : req'[b] = req[b]
        /\ req'[c].pc \notin Holding /\ ClientOK(c)'
    BY <1>1, <1>2, MirrorErrorOK DEF At
  <2> QED
    BY <1>1, <1>2, <2>1, OwnStep DEF At, Holding, Typed
<1>3. CASE At(c, "writeCommitted") /\ Answer(c, "half done")
  <2>1. /\ req' \in [Client -> Request] /\ \A b \in Client \ {c} : req'[b] = req[b]
        /\ req'[c].pc = "done" /\ ClientOK(c)'
    BY <1>1, <1>3, CommittedAnswer DEF At, AfterCommit
  <2> QED
    BY <1>1, <1>3, <2>1, OwnStep DEF At, Holding, Typed
<1> QED
  BY <1>2, <1>3 DEF SaveFails

(* An error of a request that has not committed.                            *)
LEMMA ErrorAnswer ==
    ASSUME Inv, NEW c \in Client, req[c].pc \in Unchanged \cup Committing, Answer(c, "error"),
           log' = log
    PROVE  /\ req' \in [Client -> Request] /\ \A b \in Client \ {c} : req'[b] = req[b]
           /\ req'[c].pc = "done"
           /\ ClientOK(c)'
<1>1. Typed /\ req[c] \in Request /\ "error" \in Outcome
  BY RequestFacts DEF Inv, Outcome
<1>2. /\ req' \in [Client -> Request] /\ \A b \in Client \ {c} : req'[b] = req[b]
      /\ req'[c] = Answered(req[c], "error")
  BY <1>1, AnswerStep
<1>3. CommitsBy(c) = {}
  BY ClientFacts DEF OnceOK
<1>4. ClientOK(c)'
  BY <1>1, <1>2, <1>3, AnswerOK
<1> QED
  BY <1>1, <1>2, <1>4, AnsweredType

LEMMA ApplyFailsOK ==
    ASSUME Inv, NEW c \in Client, ApplyFails(c)
    PROVE  Inv'
<1>1. /\ req[c].pc = "apply" /\ Answer(c, "error")
      /\ UNCHANGED <<log, rootFile, lock, cache, spoilt>> /\ Typed
  BY DEF ApplyFails, At, Inv
<1>2. faults' \in 0..MaxFaults
  BY <1>1, MoreFaults DEF ApplyFails, Typed
<1>3. /\ req' \in [Client -> Request] /\ \A b \in Client \ {c} : req'[b] = req[b]
      /\ req'[c].pc = "done" /\ ClientOK(c)'
  BY <1>1, ErrorAnswer DEF Unchanged
<1> QED
  BY <1>1, <1>2, <1>3, OwnStep DEF Holding, Typed

LEMMA CommitBusyOK ==
    ASSUME Inv, NEW c \in Client, CommitBusy(c)
    PROVE  Inv'
<1>1. /\ req[c].pc = "commit" /\ Answer(c, "error")
      /\ UNCHANGED <<log, rootFile, lock, cache, faults, spoilt>> /\ Typed
  BY DEF CommitBusy, At, Inv
<1>2. /\ req' \in [Client -> Request] /\ \A b \in Client \ {c} : req'[b] = req[b]
      /\ req'[c].pc = "done" /\ ClientOK(c)'
  BY <1>1, ErrorAnswer DEF Committing
<1> QED
  BY <1>1, <1>2, OwnStep DEF Holding, Typed

LEMMA ListOK ==
    ASSUME Inv, NEW c \in Client, List(c)
    PROVE  Inv'
<1>1. /\ req[c].pc = "apply" /\ req[c].kind = "list"
      /\ req' = [req EXCEPT ![c].pc = "done", ![c].outcome = "ok"]
      /\ UNCHANGED <<log, rootFile, lock, cache, faults, spoilt>> /\ Typed
  BY DEF List, At, Inv
<1>2. req[c] \in Request
  BY <1>1, RequestFacts
<1> DEFINE r == [req[c] EXCEPT !.pc = "done", !.outcome = "ok"]
<1>3. /\ r \in Request /\ r.pc = "done" /\ r.kind = req[c].kind /\ r.doc = req[c].doc
      /\ r.tree = req[c].tree /\ r.gen = req[c].gen /\ r.attempt = req[c].attempt
      /\ r.outcome = "ok"
  BY <1>2 DEF Request, Pc, Outcome
<1>4. req' = [req EXCEPT ![c] = r]
  BY <1>1, <1>2 DEF Typed
<1>5. /\ req' \in [Client -> Request] /\ req'[c] = r
      /\ \A b \in Client \ {c} : req'[b] = req[b]
  BY <1>1, <1>3, <1>4, OneMoves
<1> HIDE DEF r
<1>6. /\ Generation' = Generation /\ CommitsBy(c)' = CommitsBy(c) /\ Current' = Current
  BY <1>1 DEF Generation, CommitsBy, Current
<1>7. RequestOK(c) /\ GenOK(c) /\ TreeOK(c) /\ OnceOK(c)
  BY ClientFacts
<1>8. RequestOK(c)'
  BY <1>3, <1>5, <1>7 DEF RequestOK, Committing, AfterCommit, Saving
<1>9. GenOK(c)'
  BY <1>3, <1>5, <1>6, <1>7 DEF GenOK, At, Mirroring
<1>10. TreeOK(c)'
  BY <1>1, <1>3, <1>5, <1>7 DEF TreeOK, Mirroring, Saving, Committing, AfterCommit, Unchanged
<1>11. c \notin Tablet
  BY <1>1, <1>7 DEF RequestOK
<1>12. OnceOK(c)'
  BY <1>1, <1>3, <1>5, <1>6, <1>7, <1>11
     DEF OnceOK, Mirroring, AfterCommit, Unchanged, Committing
<1> QED
  BY <1>1, <1>3, <1>5, <1>8, <1>9, <1>10, <1>12, OwnStep DEF ClientOK, Holding, Typed

LEMMA ApplyOK ==
    ASSUME Inv, NEW c \in Client, Apply(c)
    PROVE  Inv'
<1> DEFINE kind == req[c].kind
           doc == req[c].doc
           old == req[c].tree.docs
           docs == Applied(kind, doc, old, c)
<1>1. /\ req[c].pc = "apply" /\ kind # "list" /\ CanApply(kind, doc, old)
      /\ req' = [req EXCEPT ![c].pc = "commit", ![c].tree.docs = docs,
                            ![c].tree.hash = IndexOf(docs)]
      /\ UNCHANGED <<log, rootFile, lock, cache, faults, spoilt>> /\ Typed
  BY DEF Apply, At, Inv
<1>2. RequestOK(c) /\ GenOK(c) /\ TreeOK(c) /\ OnceOK(c)
  BY ClientFacts
<1>3. /\ req[c] \in Request /\ req[c].tree \in Tree /\ old \in Docs
      /\ kind \in Editing /\ doc \in Doc
      /\ spoilt \in SUBSET Doc /\ Current \in Root
  BY <1>1, <1>2, RequestFacts, LogFacts DEF RequestOK, Kind, Editing, Typed
<1>4. docs \in Docs
  <2>1. kind \in {"update", "mark"} => doc \in DOMAIN old /\ old[doc].files # NoHash
    BY <1>1 DEF CanApply
  <2> QED
    BY <1>3, <2>1, AppliedType
<1>5. IndexOf(docs) \in Root /\ IndexOf(docs) # NoHash
  BY <1>4, IndexType, NothingAssumption
<1>6. Clean(old, c, spoilt) /\ (kind = "mark" => c \in Tablet)
  BY <1>2 DEF TreeOK, RequestOK
<1>7. Clean(docs, c, spoilt)
  BY <1>1, <1>3, <1>6, AppliedIsClean
<1>8. req[c].tree.gen = Generation => IsEdit(Current, IndexOf(docs), kind, doc, c, spoilt)
  <2>1. CASE spoilt = Doc
    BY <1>3, <1>5, <2>1, AllSpoilt
  <2>2. CASE spoilt # Doc /\ req[c].tree.gen = Generation
    <3>1. Shows(old, Current, c, spoilt)
      BY <1>1, <1>2, <2>2 DEF TreeOK, Unchanged
    <3> QED
      BY <1>1, <1>3, <1>6, <3>1, AppliedIsEdit
  <2> QED
    BY <2>1, <2>2
<1> DEFINE tree == [req[c].tree EXCEPT !.docs = docs, !.hash = IndexOf(docs)]
           r == [req[c] EXCEPT !.pc = "commit", !.tree = tree]
<1> HIDE DEF docs
<1>9. /\ tree \in Tree /\ tree.docs = docs /\ tree.hash = IndexOf(docs)
      /\ tree.gen = req[c].tree.gen /\ Named(tree, c, spoilt)
  BY <1>3, <1>4, <1>5, <1>7, TreeFacts, CleanShowsItself DEF Named
<1>10. req' = [req EXCEPT ![c] = r]
  BY <1>1, <1>3 DEF Typed, Request
<1> HIDE DEF tree
<1>11. /\ r \in Request /\ r.pc = "commit" /\ r.kind = kind /\ r.doc = doc
       /\ r.tree = tree /\ r.gen = req[c].gen /\ r.attempt = req[c].attempt
       /\ r.outcome = req[c].outcome
  BY <1>3, <1>9 DEF Request, Pc
<1>12. /\ req' \in [Client -> Request] /\ req'[c] = r
       /\ \A b \in Client \ {c} : req'[b] = req[b]
  BY <1>1, <1>10, <1>11, OneMoves
<1> HIDE DEF r
<1>13. /\ Generation' = Generation /\ CommitsBy(c)' = CommitsBy(c) /\ Current' = Current
  BY <1>1 DEF Generation, CommitsBy, Current
<1>14. RequestOK(c)'
  BY <1>1, <1>2, <1>3, <1>11, <1>12 DEF RequestOK, Committing, AfterCommit, Saving
<1>15. GenOK(c)'
  BY <1>2, <1>9, <1>11, <1>12, <1>13 DEF GenOK, At, Mirroring
<1>16. TreeOK(c)'
  <2>1. /\ req'[c].pc = "commit" /\ req'[c].tree = tree /\ req'[c].kind = kind
        /\ req'[c].doc = doc /\ spoilt' = spoilt
    BY <1>1, <1>11, <1>12
  <2>2. Clean(tree.docs, c, spoilt) /\ Named(tree, c, spoilt) /\ tree.hash # NoHash
    BY <1>5, <1>7, <1>9
  <2>3. tree.gen = Generation => IsEdit(Current, tree.hash, kind, doc, c, spoilt)
    BY <1>8, <1>9
  <2> HIDE DEF kind, doc
  <2> QED
    BY <1>13, <2>1, <2>2, <2>3
       DEF TreeOK, Mirroring, Saving, Committing, AfterCommit, Unchanged
<1>17. OnceOK(c)'
  BY <1>1, <1>2, <1>11, <1>12, <1>13
     DEF OnceOK, RequestOK, Mirroring, AfterCommit, Unchanged, Committing
<1> QED
  BY <1>1, <1>11, <1>12, <1>14, <1>15, <1>16, <1>17, OwnStep DEF ClientOK, Holding, Typed

LEMMA CommitRejectOK ==
    ASSUME Inv, NEW c \in Client, CommitReject(c)
    PROVE  Inv'
<1>1. /\ req[c].pc = "check" /\ lock' = Nobody /\ WrongGeneration(req[c].tree.gen)
      /\ UNCHANGED <<log, rootFile, cache, faults, spoilt>> /\ Typed
  BY DEF CommitReject, At, Inv
<1>2. RequestOK(c) /\ GenOK(c) /\ TreeOK(c) /\ OnceOK(c)
  BY ClientFacts
<1>3. req[c] \in Request /\ req[c].tree.gen \in Nat /\ req[c].attempt \in Nat \ {0} /\ Generation \in Nat
  BY <1>1, RequestFacts, LogFacts
<1>4. req[c].tree.gen < Generation
  BY <1>1, <1>2, <1>3 DEF GenOK, WrongGeneration
<1>5. /\ Generation' = Generation /\ CommitsBy(c)' = CommitsBy(c) /\ Current' = Current
  BY <1>1 DEF Generation, CommitsBy, Current
<1>6. /\ req' \in [Client -> Request] /\ \A b \in Client \ {c} : req'[b] = req[b]
      /\ req'[c].pc \notin Holding /\ ClientOK(c)'
  <2>1. CASE req[c].attempt < Attempts
             /\ req' = [req EXCEPT ![c].pc = "mirror", ![c].attempt = @ + 1]
    <3> DEFINE r == [req[c] EXCEPT !.pc = "mirror", !.attempt = @ + 1]
    <3>1. req[c].attempt + 1 \in 1..Attempts
      BY <1>3, <2>1, BoundAssumption
    <3>2. /\ r \in Request /\ r.pc = "mirror" /\ r.kind = req[c].kind /\ r.doc = req[c].doc
          /\ r.tree = req[c].tree /\ r.gen = req[c].gen /\ r.attempt = req[c].attempt + 1
          /\ r.outcome = req[c].outcome
      BY <1>3, <3>1 DEF Request, Pc
    <3>3. req' = [req EXCEPT ![c] = r]
      BY <1>1, <2>1 DEF Typed
    <3>4. /\ req' \in [Client -> Request] /\ req'[c] = r
          /\ \A b \in Client \ {c} : req'[b] = req[b]
      BY <1>1, <3>2, <3>3, OneMoves
    <3> HIDE DEF r
    <3>5. RequestOK(c)'
      BY <1>1, <1>2, <3>2, <3>4 DEF RequestOK, Committing, AfterCommit, Saving
    <3>6. GenOK(c)'
      BY <1>2, <1>4, <1>5, <3>2, <3>4 DEF GenOK, At
    <3>7. req'[c].attempt # 1
      BY <1>3, <3>2, <3>4
    <3>8. TreeOK(c)'
      BY <1>1, <1>2, <1>5, <3>2, <3>4, <3>7
         DEF TreeOK, Mirroring, Saving, Committing, AfterCommit, Unchanged
    <3>9. OnceOK(c)'
      BY <1>1, <1>2, <1>5, <3>2, <3>4
         DEF OnceOK, RequestOK, Mirroring, AfterCommit, Unchanged, Committing
    <3> QED
      BY <3>2, <3>4, <3>5, <3>6, <3>8, <3>9 DEF ClientOK, Holding
  <2>2. CASE Answer(c, "error")
    <3>1. /\ req' \in [Client -> Request] /\ \A b \in Client \ {c} : req'[b] = req[b]
          /\ req'[c].pc = "done" /\ ClientOK(c)'
      BY <1>1, <2>2, ErrorAnswer DEF Committing
    <3> QED
      BY <3>1 DEF Holding
  <2> QED
    BY <2>1, <2>2 DEF CommitReject
<1>7. Locked' /\ FileOK'
  BY <1>1, <1>6, ReturnsLock
<1>8. CacheOK'
  BY <1>1, CacheLeft
<1> QED
  BY <1>1, <1>6, <1>7, <1>8, QuietStep DEF Typed, Holding

(* What was a root remains one when the history grows.                      *)
LEMMA HistoryGrows ==
    ASSUME Typed, NEW entry \in Entry, log' = Append(log, entry)
    PROVE  /\ log' \in Seq(Entry) /\ Generation' = Generation + 1 /\ Len(log') = Len(log) + 1
           /\ \A i \in 1..Len(log) : log'[i] = log[i]
           /\ log'[Len(log) + 1] = entry /\ log' # <<>> /\ Current' = entry.root
           /\ \A t \in Tree : WasRoot(t, log) => WasRoot(t, log')
           /\ \A c \in Client : CommitsBy(c)' = IF c = entry.by THEN CommitsBy(c) \cup {Len(log) + 1}
                                               ELSE CommitsBy(c)
<1>1. log \in Seq(Entry) /\ Len(log) \in Nat
  BY DEF Typed
<1>2. /\ log' \in Seq(Entry) /\ Len(log') = Len(log) + 1
      /\ \A i \in 1..Len(log) : log'[i] = log[i]
      /\ log'[Len(log) + 1] = entry /\ log' # <<>>
  BY <1>1
<1>3. Generation' = Generation + 1 /\ Current' = entry.root
  BY <1>1, <1>2 DEF Generation, Current
<1>4. 1..Len(log') = 1..Len(log) \cup {Len(log) + 1}
  BY <1>1, <1>2
<1>5. \A t \in Tree : WasRoot(t, log) => WasRoot(t, log')
  BY <1>2, <1>4 DEF WasRoot
<1>6. \A c \in Client : CommitsBy(c)' = {i \in 1..Len(log') : log'[i].by = c}
  BY DEF CommitsBy
<1>7. \A c \in Client : CommitsBy(c)' = IF c = entry.by THEN CommitsBy(c) \cup {Len(log) + 1}
                                      ELSE CommitsBy(c)
  BY <1>2, <1>4, <1>6 DEF CommitsBy
<1> QED
  BY <1>2, <1>3, <1>5, <1>7

(* A commit makes what others know of the generation old.                   *)
LEMMA BystanderOfCommit ==
    ASSUME Inv, NEW b \in Client, NEW entry \in Entry, log' = Append(log, entry),
           entry.by # b, req'[b] = req[b], spoilt' = spoilt
    PROVE  ClientOK(b)'
<1>1. /\ Typed /\ req[b].tree \in Tree /\ req[b].tree.gen \in Nat /\ req[b].gen \in Nat
      /\ Generation \in Nat
  BY RequestFacts, LogFacts DEF Inv
<1>2. RequestOK(b) /\ GenOK(b) /\ TreeOK(b) /\ OnceOK(b)
  BY ClientFacts
<1>3. Generation' = Generation + 1 /\ CommitsBy(b)' = CommitsBy(b)
      /\ (WasRoot(req[b].tree, log) => WasRoot(req[b].tree, log'))
  BY <1>1, HistoryGrows
<1>4. RequestOK(b)'
  BY <1>2 DEF RequestOK
<1>5. GenOK(b)'
  BY <1>1, <1>2, <1>3 DEF GenOK
<1>6. req'[b].tree.gen # Generation'
  BY <1>1, <1>2, <1>3 DEF GenOK
<1>7. TreeOK(b)'
  BY <1>2, <1>3, <1>6 DEF TreeOK
<1>8. OnceOK(b)'
  BY <1>2, <1>3 DEF OnceOK
<1> QED
  BY <1>4, <1>5, <1>7, <1>8 DEF ClientOK

LEMMA CommitAppendOK ==
    ASSUME Inv, NEW c \in Client, CommitAppend(c)
    PROVE  Inv'
<1> DEFINE t == req[c].tree
           entry == [root |-> t.hash, by |-> c, kind |-> req[c].kind, doc |-> req[c].doc]
<1>1. /\ req[c].pc = "check" /\ ~WrongGeneration(t.gen) /\ log' = Append(log, entry)
      /\ rootFile' = NoHash /\ req' = [req EXCEPT ![c].pc = "fill"]
      /\ UNCHANGED <<lock, cache, faults, spoilt>> /\ Typed /\ FileOK /\ Locked /\ CacheOK /\ LogOK
  BY DEF CommitAppend, At, Goto, Inv
<1>2. RequestOK(c) /\ GenOK(c) /\ TreeOK(c) /\ OnceOK(c)
  BY ClientFacts
<1>3. /\ req[c] \in Request /\ t \in Tree /\ t.gen \in Nat /\ Generation \in Nat
      /\ t.hash \in Root \cup {NoHash} /\ req[c].kind \in Kind /\ req[c].doc \in Doc \cup {NoDoc}
      /\ req[c].gen \in Nat
  BY <1>1, RequestFacts, LogFacts
<1>4. t.hash \in Root /\ req[c].doc \in Doc
  BY <1>1, <1>2, <1>3 DEF TreeOK, RequestOK, Committing
<1>5. t.gen = Generation
  BY <1>1, <1>2, <1>3 DEF GenOK, WrongGeneration
<1>6. entry \in Entry /\ entry.by = c /\ entry.root = t.hash
      /\ entry.kind = req[c].kind /\ entry.doc = req[c].doc
  BY <1>3, <1>4 DEF Entry
<1> HIDE DEF entry
<1>7. /\ log' \in Seq(Entry) /\ Generation' = Generation + 1 /\ Len(log') = Len(log) + 1
      /\ \A i \in 1..Len(log) : log'[i] = log[i]
      /\ log'[Len(log) + 1] = entry /\ log' # <<>> /\ Current' = t.hash
      /\ \A x \in Tree : WasRoot(x, log) => WasRoot(x, log')
      /\ CommitsBy(c)' = CommitsBy(c) \cup {Len(log) + 1}
  BY <1>1, <1>6, HistoryGrows
<1>8. /\ req' \in [Client -> Request] /\ req'[c] = [req[c] EXCEPT !.pc = "fill"]
      /\ \A b \in Client \ {c} : req'[b] = req[b]
  <2>1. "fill" \in Pc
    BY DEF Pc
  <2> QED
    BY <1>1, <2>1, GotoStep DEF Goto
<1>9. /\ req'[c].pc = "fill" /\ req'[c].gen = req[c].gen /\ req'[c].tree = req[c].tree
      /\ req'[c].kind = req[c].kind /\ req'[c].doc = req[c].doc
      /\ req'[c].attempt = req[c].attempt /\ req'[c].outcome = req[c].outcome
  BY <1>3, <1>8 DEF Request
<1>10. Typed'
  BY <1>1, <1>7, <1>8 DEF Typed
<1>11. lock = c /\ \A b \in Client \ {c} : req[b].pc \notin Holding
  BY <1>1 DEF Locked, Holding
<1>12. Locked'
  BY <1>1, <1>8, <1>9, <1>11 DEF Locked, Holding
<1>13. FileOK'
  <2>1. \A b \in Client : At(b, "fill")' => b = c
    BY <1>8, <1>11 DEF At, Holding
  <2>2. Filling'
    BY <1>9 DEF Filling, At
  <2> QED
    BY <1>1, <1>7, <1>9, <2>1, <2>2 DEF FileOK
<1>14. CacheOK'
  <2>1. cache # Corrupt => cache \in Tree /\ cache.gen \in Nat
    BY <1>1, TreeFacts DEF Typed
  <2>2. cache # Corrupt => WasRoot(cache, log') /\ cache.gen <= Generation'
    BY <1>1, <1>3, <1>7, <2>1 DEF CacheOK
  <2> QED
    BY <1>1, <2>2 DEF CacheOK
<1>15. LogOK'
  <2> SUFFICES ASSUME NEW i \in 1..Len(log'), log'[i].by # Nobody
               PROVE  IsEdit(RootBefore(i)', log'[i].root, log'[i].kind, log'[i].doc, log'[i].by, spoilt)
    BY <1>1 DEF LogOK
  <2>1. Len(log) \in Nat
    BY <1>3 DEF Generation
  <2>2. CASE i \in 1..Len(log)
    <3>1. RootBefore(i)' = RootBefore(i) /\ log'[i] = log[i]
      BY <1>7, <2>1, <2>2 DEF RootBefore
    <3> QED
      BY <1>1, <2>2, <3>1 DEF LogOK
  <2>3. CASE i = Len(log) + 1
    <3>1. RootBefore(i)' = Current
      <4>1. CASE log = <<>>
        BY <2>3, <4>1 DEF RootBefore, Current
      <4>2. CASE log # <<>>
        <5>1. Len(log) \in 1..Len(log) /\ i # 1 /\ i - 1 = Len(log)
          BY <1>3, <2>1, <2>3, <4>2, LogFacts, <1>1 DEF Generation
        <5> QED
          BY <1>7, <4>2, <5>1 DEF RootBefore, Current
      <4> QED
        BY <4>1, <4>2
    <3>2. IsEdit(Current, t.hash, req[c].kind, req[c].doc, c, spoilt)
      BY <1>1, <1>2, <1>5 DEF TreeOK, Committing
    <3> QED
      BY <1>6, <1>7, <2>3, <3>1, <3>2
  <2> QED
    BY <1>7, <2>1, <2>2, <2>3
<1>16. \A b \in Client \ {c} : ClientOK(b)'
  BY <1>1, <1>6, <1>8, BystanderOfCommit
<1>17. RequestOK(c)'
  BY <1>1, <1>2, <1>3, <1>4, <1>9 DEF RequestOK, Committing, AfterCommit, Saving
<1>18. GenOK(c)'
  BY <1>2, <1>3, <1>7, <1>9 DEF GenOK, At, Mirroring
<1>19. TreeOK(c)'
  BY <1>1, <1>2, <1>9 DEF TreeOK, Named, Mirroring, Saving, Committing, AfterCommit, Unchanged
<1>20. OnceOK(c)'
  BY <1>1, <1>2, <1>7, <1>9
     DEF OnceOK, RequestOK, Mirroring, AfterCommit, Unchanged, Committing
<1>21. \A b \in Client : ClientOK(b)'
  BY <1>16, <1>17, <1>18, <1>19, <1>20 DEF ClientOK
<1> QED
  BY <1>10, <1>12, <1>13, <1>14, <1>15, <1>21 DEF Inv

(* A commit ends, and nobody fills the root any more.                       *)
LEMMA FillEnds ==
    ASSUME Inv, NEW c \in Client, req[c].pc = "fill", lock' = Nobody, req'[c].pc \notin Holding,
           \A b \in Client \ {c} : req'[b] = req[b]
    PROVE  Locked' /\ \A b \in Client : ~At(b, "fill")'
<1>1. Locked
  BY DEF Inv
<1>2. lock = c /\ \A b \in Client \ {c} : req[b].pc \notin Holding
  BY <1>1 DEF Locked, Holding
<1>3. \A b \in Client : req'[b].pc \notin Holding
  BY <1>2
<1> QED
  BY <1>3, ClientAssumption DEF Locked, At, Holding

LEMMA CommitFillOK ==
    ASSUME Inv, NEW c \in Client, CommitFill(c)
    PROVE  Inv'
<1> DEFINE t == req[c].tree
<1>1. /\ req[c].pc = "fill" /\ rootFile' = t.hash /\ lock' = Nobody
      /\ UNCHANGED <<log, cache, faults, spoilt>> /\ Typed /\ FileOK
  BY DEF CommitFill, At, Inv
<1>2. RequestOK(c) /\ GenOK(c) /\ TreeOK(c) /\ OnceOK(c)
  BY ClientFacts
<1>3. /\ req[c] \in Request /\ t \in Tree /\ t.gen \in Nat /\ Generation \in Nat
      /\ t.hash \in Root \cup {NoHash}
  BY <1>1, RequestFacts, LogFacts
<1>4. log # <<>> /\ Current = t.hash /\ t.hash # NoHash
  BY <1>1, <1>2 DEF FileOK, TreeOK, AfterCommit, At
<1>5. /\ Generation' = Generation /\ CommitsBy(c)' = CommitsBy(c) /\ Current' = Current
  BY <1>1 DEF Generation, CommitsBy, Current
<1>6. /\ req' \in [Client -> Request] /\ \A b \in Client \ {c} : req'[b] = req[b]
      /\ req'[c].pc \notin Holding /\ ClientOK(c)'
  <2>1. CASE c \in UI /\ req' = [req EXCEPT ![c].pc = "saveCommitted", ![c].tree.gen = Generation]
    <3> DEFINE tree == [t EXCEPT !.gen = Generation]
               r == [req[c] EXCEPT !.pc = "saveCommitted", !.tree = tree]
    <3>1. tree \in Tree /\ tree.docs = t.docs /\ tree.hash = t.hash /\ tree.gen = Generation
      BY <1>3, TreeFacts
    <3>2. req' = [req EXCEPT ![c] = r]
      BY <1>1, <1>3, <2>1 DEF Typed, Request
    <3> HIDE DEF tree
    <3>3. /\ r \in Request /\ r.pc = "saveCommitted" /\ r.kind = req[c].kind /\ r.doc = req[c].doc
          /\ r.tree = tree /\ r.gen = req[c].gen /\ r.attempt = req[c].attempt
          /\ r.outcome = req[c].outcome
      BY <1>3, <3>1 DEF Request, Pc
    <3>4. /\ req' \in [Client -> Request] /\ req'[c] = r
          /\ \A b \in Client \ {c} : req'[b] = req[b]
      BY <1>1, <3>2, <3>3, OneMoves
    <3> HIDE DEF r
    <3>5. RequestOK(c)'
      BY <1>1, <1>2, <2>1, <3>3, <3>4, ClientAssumption DEF RequestOK, Committing, AfterCommit, Saving
    <3>6. GenOK(c)'
      BY <1>2, <1>3, <1>5, <3>1, <3>3, <3>4 DEF GenOK, At, Mirroring
    <3>7. WasRoot(tree, log)
      <4>1. Len(log) \in 1..Len(log) /\ Len(log) >= tree.gen /\ log[Len(log)].root = tree.hash
        BY <1>1, <1>3, <1>4, <3>1, LogFacts DEF Current, Generation
      <4> QED
        BY <4>1 DEF WasRoot
    <3>8. TreeOK(c)'
      BY <1>1, <1>2, <1>4, <3>1, <3>3, <3>4, <3>7
         DEF TreeOK, Named, Mirroring, Saving, Committing, AfterCommit, Unchanged
    <3>9. OnceOK(c)'
      BY <1>1, <1>2, <1>5, <3>3, <3>4
         DEF OnceOK, RequestOK, Mirroring, AfterCommit, Unchanged, Committing
    <3> QED
      BY <3>3, <3>4, <3>5, <3>6, <3>8, <3>9 DEF ClientOK, Holding
  <2>2. CASE Answer(c, "ok")
    <3>1. /\ req' \in [Client -> Request] /\ \A b \in Client \ {c} : req'[b] = req[b]
          /\ req'[c].pc = "done" /\ ClientOK(c)'
      BY <1>1, <2>2, CommittedAnswer DEF AfterCommit
    <3> QED
      BY <3>1 DEF Holding
  <2> QED
    BY <2>1, <2>2 DEF CommitFill
<1>7. Locked' /\ \A b \in Client : ~At(b, "fill")'
  BY <1>1, <1>6, FillEnds
<1>8. FileOK'
  BY <1>1, <1>4, <1>5, <1>7 DEF FileOK
<1>9. CacheOK'
  BY <1>1, CacheLeft
<1> QED
  BY <1>1, <1>3, <1>6, <1>7, <1>8, <1>9, QuietStep DEF Typed, Holding

LEMMA CommitFillFailsOK ==
    ASSUME Inv, NEW c \in Client, CommitFillFails(c)
    PROVE  Inv'
<1>1. /\ req[c].pc = "fill" /\ lock' = Nobody /\ spoilt' = Doc /\ Answer(c, "half done")
      /\ UNCHANGED <<log, rootFile, cache>> /\ Typed /\ FileOK /\ faults' \in 0..MaxFaults
  BY MoreFaults DEF CommitFillFails, At, Inv
<1>2. /\ req' \in [Client -> Request] /\ \A b \in Client \ {c} : req'[b] = req[b]
      /\ req'[c].pc = "done" /\ ClientOK(c)'
  BY <1>1, CommittedAnswer DEF AfterCommit
<1>3. Locked' /\ \A b \in Client : ~At(b, "fill")'
  BY <1>1, <1>2, FillEnds DEF Holding
<1>4. FileOK'
  BY <1>1, <1>3 DEF FileOK, Current
<1>5. spoilt \subseteq spoilt'
  BY <1>1 DEF Typed
<1>6. CacheOK'
  BY <1>1, <1>5, CacheLeft
<1> QED
  BY <1>1, <1>2, <1>3, <1>4, <1>5, <1>6, QuietStep DEF Typed

LEMMA CrashOK ==
    ASSUME Inv, Crash
    PROVE  Inv'
<1>1. /\ lock' = Nobody /\ UNCHANGED <<log, rootFile, cache>> /\ Typed /\ FileOK
      /\ faults' \in 0..MaxFaults
      /\ spoilt' = IF Filling THEN Doc ELSE spoilt
      /\ req' = [c \in Client |-> IF req[c].pc \in {"new", "done"} THEN req[c]
                                  ELSE Answered(req[c], "lost")]
  BY MoreFaults DEF Crash, Filling, Inv
<1>2. "lost" \in Outcome /\ \A c \in Client : req[c] \in Request
  BY <1>1, RequestFacts DEF Outcome
<1>3. \A c \in Client : /\ Answered(req[c], "lost") \in Request
                        /\ Answered(req[c], "lost").pc = "done"
  BY <1>2, AnsweredType
<1>4. req' \in [Client -> Request] /\ \A c \in Client : req'[c].pc \in {"new", "done"}
  BY <1>1, <1>2, <1>3
<1>5. spoilt \subseteq spoilt' /\ spoilt' \in SUBSET Doc
  BY <1>1 DEF Typed
<1>6. Typed'
  BY <1>1, <1>4, <1>5 DEF Typed
<1>7. Locked'
  BY <1>1, <1>4, ClientAssumption DEF Locked, Holding
<1>8. ~Filling'
  BY <1>4 DEF Filling, At
<1>9. FileOK'
  BY <1>1, <1>4, <1>8 DEF FileOK, Current, Filling, At
<1>10. CacheOK' /\ LogOK'
  BY <1>1, <1>5, CacheLeft, LogLeft
<1>11. \A c \in Client : ClientOK(c)'
  <2> TAKE c \in Client
  <2>1. CASE req[c].pc \in {"new", "done"}
    BY <1>1, <1>5, <1>8, <2>1, Bystander
  <2>2. CASE req[c].pc \notin {"new", "done"}
    <3>1. req'[c] = Answered(req[c], "lost")
      BY <1>1, <2>2
    <3> QED
      BY <1>1, <1>2, <3>1, AnswerOK
  <2> QED
    BY <2>1, <2>2
<1> QED
  BY <1>6, <1>7, <1>9, <1>10, <1>11 DEF Inv

LEMMA NothingOK ==
    ASSUME Inv, UNCHANGED vars
    PROVE  Inv'
<1>1. UNCHANGED <<log, rootFile, lock, cache, req, faults, spoilt>>
  BY DEF vars
<1>2. Filling' = Filling
  BY <1>1 DEF Filling, At
<1>3. \A c \in Client : ClientOK(c)'
  BY <1>1, <1>2, Bystander DEF Inv, Typed
<1>4. CacheOK' /\ LogOK'
  BY <1>1, CacheLeft, LogLeft
<1>5. Typed' /\ Locked' /\ FileOK'
  BY <1>1, <1>2 DEF Inv, Typed, Locked, FileOK, Current, At
<1> QED
  BY <1>3, <1>4, <1>5 DEF Inv

LEMMA NextInv == Inv /\ [Next]_vars => Inv'
<1> SUFFICES ASSUME Inv, [Next]_vars PROVE Inv'
  OBVIOUS
<1>1. CASE Crash
  BY <1>1, CrashOK
<1>2. CASE \E c \in Client : Step(c)
  <2> PICK c \in Client : Step(c)
    BY <1>2
  <2>1. CASE Begin(c)
    BY <2>1, BeginOK
  <2>2. CASE MirrorBusy(c)
    BY <2>2, MirrorBusyOK
  <2>3. CASE MirrorLock(c)
    BY <2>3, MirrorLockOK
  <2>4. CASE MirrorStat(c)
    BY <2>4, MirrorStatOK
  <2>5. CASE MirrorRead(c)
    BY <2>5, MirrorReadOK
  <2>6. CASE MirrorIndexFails(c)
    BY <2>6, MirrorIndexFailsOK
  <2>7. CASE MirrorReadFails(c)
    BY <2>7, MirrorReadFailsOK
  <2>8. CASE SaveCreate(c)
    BY <2>8, SaveCreateOK
  <2>9. CASE SaveWrite(c)
    BY <2>9, SaveWriteOK
  <2>10. CASE SaveFails(c)
    BY <2>10, SaveFailsOK
  <2>11. CASE Apply(c)
    BY <2>11, ApplyOK
  <2>12. CASE ApplyFails(c)
    BY <2>12, ApplyFailsOK
  <2>13. CASE List(c)
    BY <2>13, ListOK
  <2>14. CASE CommitBusy(c)
    BY <2>14, CommitBusyOK
  <2>15. CASE CommitLock(c)
    BY <2>15, CommitLockOK
  <2>16. CASE CommitReject(c)
    BY <2>16, CommitRejectOK
  <2>17. CASE CommitAppend(c)
    BY <2>17, CommitAppendOK
  <2>18. CASE CommitFill(c)
    BY <2>18, CommitFillOK
  <2>19. CASE CommitFillFails(c)
    BY <2>19, CommitFillFailsOK
  <2> QED
    BY <2>1, <2>2, <2>3, <2>4, <2>5, <2>6, <2>7, <2>8, <2>9, <2>10, <2>11, <2>12, <2>13,
       <2>14, <2>15, <2>16, <2>17, <2>18, <2>19 DEF Step
<1>3. CASE UNCHANGED vars
  BY <1>3, NothingOK
<1> QED
  BY <1>1, <1>2, <1>3 DEF Next

-----------------------------------------------------------------------------
(* Every state of the specification satisfies the invariant.                *)
THEOREM Invariant == Spec => []Inv
<1>1. Init => Inv
  BY InitInv
<1>2. Inv /\ [Next]_vars => Inv'
  BY NextInv
<1> QED
  BY <1>1, <1>2, PTL DEF Spec

(* The types of the roots, of the cached trees and of the requests.         *)
THEOREM TypeCorrect == Spec => []TypeOK
<1>1. Inv => TypeOK
  <2> SUFFICES ASSUME Inv PROVE TypeOK
    OBVIOUS
  <2>1. Typed
    BY DEF Inv
  <2> QED
    BY <2>1, RequestFacts DEF TypeOK, Typed, Entry, Outcome
<1> QED
  BY <1>1, Invariant, PTL

(* Every commit of the web UI's updateTree or of a tablet is its own edit   *)
(* applied to the root before it, where one of the web UI also takes out    *)
(* the documents that are marked as deleted; outside the documents that a   *)
(* failed read, write or restart may have damaged.                          *)
THEOREM CommitsAreEdits == Spec => []EachCommitIsItsEdit
<1>1. Inv => EachCommitIsItsEdit
  BY DEF Inv, LogOK, IsEdit, EachCommitIsItsEdit, Expected
<1> QED
  BY <1>1, Invariant, PTL

(* A request that reports an error has committed nothing, one that reports  *)
(* a created document, or the success of a tablet, has committed once, and  *)
(* no request commits twice, however often it is rejected and repeated.     *)
THEOREM OutcomesAreTruthful == Spec => []OutcomeIsTruthful
<1>1. Inv => OutcomeIsTruthful
  <2> SUFFICES ASSUME Inv, NEW c \in Client
               PROVE  /\ req[c].outcome = "error" => CommitsBy(c) = {}
                      /\ req[c].outcome = "ok" /\ (req[c].kind = "create" \/ c \in Tablet)
                            => Cardinality(CommitsBy(c)) = 1
                      /\ Cardinality(CommitsBy(c)) <= 1
    BY DEF OutcomeIsTruthful
  <2>1. OnceOK(c)
    BY ClientFacts
  <2>2. CASE CommitsBy(c) = {}
    BY <2>1, <2>2, FS_EmptySet DEF OnceOK
  <2>3. CASE CommitsBy(c) # {}
    <3>1. PICK i : CommitsBy(c) = {i}
      BY <2>1, <2>3 DEF OnceOK
    <3>2. Cardinality(CommitsBy(c)) = 1
      BY <3>1, FS_Singleton
    <3> QED
      BY <2>1, <2>3, <3>2 DEF OnceOK
  <2> QED
    BY <2>2, <2>3
<1> QED
  BY <1>1, Invariant, PTL

(* The tree in a cache file that parses is what its hash names, less the    *)
(* documents marked as deleted, and its hash is a root committed no earlier *)
(* than its generation says, although the web UI's requests write the file  *)
(* without a lock.                                                          *)
THEOREM CacheIsAlwaysCommitted == Spec => []CacheIsCommitted
<1>1. Inv => CacheIsCommitted
  <2> SUFFICES ASSUME Inv, spoilt = {}, cache # Corrupt, cache.hash # NoHash
               PROVE  /\ cache.docs = Mirrored(Live(cache.hash))
                      /\ \E i \in 1..Len(log) : i >= cache.gen /\ log[i].root = cache.hash
    BY DEF CacheIsCommitted
  <2> DEFINE shown == Live(cache.hash)
  <2>1. /\ Clean(cache.docs, Nobody, {}) /\ Shows(cache.docs, cache.hash, Nobody, {})
        /\ \E i \in 1..Len(log) : i >= cache.gen /\ log[i].root = cache.hash
    BY DEF Inv, CacheOK, Named, WasRoot
  <2>2. cache.docs \in Docs /\ cache.docs \in [DOMAIN cache.docs -> CachedDoc]
    BY TreeFacts, DocsFacts DEF Inv, Typed
  <2>3. Seen(cache.hash, Nobody) = shown
    BY ClientAssumption DEF Seen, Client
  <2> HIDE DEF shown
  <2>4. DOMAIN shown = DOMAIN cache.docs
        /\ \A d \in DOMAIN cache.docs : shown[d] = cache.docs[d].hash
    BY <2>1, <2>3, IndexValues DEF Shows, AgreeOutside
  <2>5. \A d \in DOMAIN cache.docs :
            cache.docs[d] = [hash |-> shown[d], files |-> shown[d]]
    <3> TAKE d \in DOMAIN cache.docs
    <3>1. cache.docs[d] \in CachedDoc
      BY <2>2
    <3>2. cache.docs[d].files = cache.docs[d].hash /\ shown[d] = cache.docs[d].hash
      BY <2>1, <2>4 DEF Clean
    <3> QED
      BY <3>1, <3>2 DEF CachedDoc
  <2>6. cache.docs = Mirrored(shown)
    BY <2>2, <2>4, <2>5 DEF Mirrored
  <2> QED
    BY <2>1, <2>6 DEF shown
<1> QED
  BY <1>1, Invariant, PTL
=============================================================================
