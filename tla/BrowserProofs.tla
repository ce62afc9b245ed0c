----------------------------- MODULE BrowserProofs -----------------------------
(***************************************************************************)
(* What is proved of Browser, for any pages, items, trees and bounds.      *)
(***************************************************************************)
EXTENDS Browser, SequenceTheorems, TLAPS

-----------------------------------------------------------------------------
(* Trees: what is above an item, and what a listing shows.                  *)

LEMMA AboveIsClosed ==
    ASSUME NEW t, NEW i
    PROVE  /\ Above(t, i) \subseteq Folder
           /\ t[i] \in Folder => t[i] \in Above(t, i)
           /\ UpClosed(t, Above(t, i))
BY DEF Above, UpClosed

LEMMA AboveIsLeast ==
    ASSUME NEW t, NEW i, NEW S \in SUBSET Folder,
           t[i] \in Folder => t[i] \in S, UpClosed(t, S)
    PROVE  Above(t, i) \subseteq S
BY DEF Above

LEMMA ChainIsClosed ==
    ASSUME NEW t, NEW i, NEW a \in Chain(t, i), t[a] \in Folder
    PROVE  t[a] \in Chain(t, i)
BY AboveIsClosed DEF Chain, UpClosed

LEMMA PlacedType ==
    ASSUME NEW t \in Tree
    PROVE  /\ Placed(t) \in Tree
           /\ \A i \in Item : /\ Placed(t)[i] \in Folder =>
                                    /\ Placed(t)[i] = t[i]
                                    /\ Exists(t, t[i])
                              /\ Placed(t)[i] = Absent <=> t[i] = Absent
<1>1. Absent \notin Folder /\ Root # Absent /\ Root \notin Folder
  BY ItemAssumption DEF Item
<1> QED
  BY <1>1 DEF Placed, Tree, Place, Exists

(* In a tree in which no folder is in itself, every item can be reached.    *)
LEMMA Reached ==
    ASSUME NEW t \in Tree, Acyclic(t), NEW i \in Item, Exists(t, i)
    PROVE  \E a \in Chain(Placed(t), i) : Placed(t)[a] \in {Root, Trash}
<1> DEFINE q == Placed(t)
           A == Above(q, i)
           B == {a \in A : Exists(t, a)}
<1>1. q \in Tree /\ Folder \subseteq Item
  BY PlacedType DEF Item
<1>2. CASE q[i] \notin Folder
  <2>1. q[i] \in {Root, Trash}
    BY <1>1, <1>2, PlacedType DEF Tree, Place, Exists
  <2> QED
    BY <2>1 DEF Chain
<1>3. CASE q[i] \in Folder
  <2>1. B \in SUBSET Folder /\ q[i] \in B
    BY <1>3, PlacedType, AboveIsClosed
  <2>2. UpClosed(q, B)
    BY <1>1, <2>1, PlacedType, AboveIsClosed DEF UpClosed
  <2>3. A \subseteq B
    BY <2>1, <2>2, AboveIsLeast
  <2>4. PICK f \in A : t[f] \notin A
    BY <2>1, AboveIsClosed DEF Acyclic
  <2>5. f \in Item /\ Exists(t, f)
    BY <1>1, <2>1, <2>3
  <2>6. q[f] \notin Folder
    BY <2>4, <2>5, PlacedType, AboveIsClosed DEF UpClosed
  <2>7. q[f] \in {Root, Trash}
    BY <1>1, <2>5, <2>6, PlacedType DEF Tree, Place, Exists
  <2> QED
    BY <2>7 DEF Chain
<1> QED
  BY <1>2, <1>3

LEMMA ListingType ==
    ASSUME NEW t \in Tree
    PROVE  /\ Listing(t) \in Tree
           /\ \A i \in Item : Exists(Listing(t), i) => Exists(t, i)
BY PlacedType DEF Listing, Tree, Exists

LEMMA ListingIsPlaced ==
    ASSUME NEW t \in Tree, Acyclic(t)
    PROVE  Listing(t) = Placed(t)
<1>1. ASSUME NEW i \in Item PROVE Listing(t)[i] = Placed(t)[i]
  <2>1. CASE Exists(t, i)
    BY <2>1, Reached DEF Listing
  <2>2. CASE ~Exists(t, i)
    BY <2>2, PlacedType DEF Listing, Exists
  <2> QED
    BY <2>1, <2>2
<1> QED
  BY <1>1, PlacedType DEF Listing, Tree, Placed

LEMMA WholeIsListed ==
    ASSUME NEW t \in Tree, Acyclic(t), NEW i \in Item, Exists(t, i)
    PROVE  Exists(Listing(t), i)
BY ListingIsPlaced, PlacedType DEF Exists

-----------------------------------------------------------------------------
(* Changes that keep folders out of themselves.                             *)

(* An item is put into a folder that is not below it.  c says where folders *)
(* are as t does, except for those whose parent does not exist.             *)
LEMMA PutAbove ==
    ASSUME NEW t \in Tree, Acyclic(t), NEW i \in Item, Exists(t, i), NEW dest \in Place,
           NEW c, dest \in Folder => i \notin Chain(c, dest),
           \A f \in Folder : t[f] \in Folder /\ Exists(t, t[f]) => c[f] = t[f]
    PROVE  Acyclic([t EXCEPT ![i] = dest])
<1> DEFINE u == [t EXCEPT ![i] = dest]
<1> SUFFICES ASSUME NEW S \in SUBSET Folder, S # {}, \A f \in S : u[f] \in S
             PROVE  FALSE
  BY DEF Acyclic
<1>1. \A f \in Folder : u[f] = IF f = i THEN dest ELSE t[f]
  BY DEF Tree, Item
<1>2. i \in S
  BY <1>1 DEF Acyclic
<1>3. dest \in S /\ i \notin Chain(c, dest)
  BY <1>1, <1>2
<1>4. \A f \in S : Exists(t, f)
  BY <1>1, ItemAssumption DEF Exists, Item
<1> DEFINE T == S \cap Chain(c, dest)
<1>5. ASSUME NEW f \in T PROVE t[f] \in T
  <2>1. f # i /\ t[f] \in S
    BY <1>1, <1>3
  <2>2. c[f] = t[f]
    BY <1>4, <2>1
  <2> QED
    BY <2>1, <2>2, ChainIsClosed
<1>6. T \in SUBSET Folder /\ dest \in T
  BY <1>3 DEF Chain
<1> QED
  BY <1>5, <1>6 DEF Acyclic

LEMMA ValidMoveKeeps ==
    ASSUME NEW t \in Tree, Acyclic(t), NEW i \in Item, NEW dest \in Folder \cup {Root},
           ValidateMove(t, i, dest)
    PROVE  Acyclic([t EXCEPT ![i] = dest])
<1>1. Exists(t, i) /\ dest \in Place
  BY ListingType DEF ValidateMove, Place
<1>2. dest \in Folder => i \notin Chain(Placed(t), dest)
  BY ListingIsPlaced DEF ValidateMove
<1>3. \A f \in Folder : t[f] \in Folder /\ Exists(t, t[f]) => Placed(t)[f] = t[f]
  BY DEF Placed, Item
<1> QED
  BY <1>1, <1>2, <1>3, PutAbove

(* A new folder is no one's parent.                                         *)
LEMMA MakingKeeps ==
    ASSUME NEW t \in Tree, Acyclic(t), NEW f \in Folder, NEW dest, dest # f,
           \A g \in Folder : t[g] # f
    PROVE  Acyclic([t EXCEPT ![f] = dest])
<1> DEFINE u == [t EXCEPT ![f] = dest]
<1> SUFFICES ASSUME NEW S \in SUBSET Folder, S # {}, \A g \in S : u[g] \in S
             PROVE  FALSE
  BY DEF Acyclic
<1>1. \A g \in Folder : u[g] = IF g = f THEN dest ELSE t[g]
  BY DEF Tree, Item
<1>2. CASE S \ {f} = {}
  BY <1>1, <1>2
<1>3. CASE S \ {f} # {}
  <2>1. PICK g \in S \ {f} : t[g] \notin S \ {f}
    BY <1>3 DEF Acyclic
  <2> QED
    BY <1>1, <2>1
<1> QED
  BY <1>2, <1>3

(* Documents, and removals, make no folder part of itself.                  *)
LEMMA FewerKeeps ==
    ASSUME NEW t \in Tree, Acyclic(t), NEW i, NEW v, i \notin Folder \/ v \notin Folder
    PROVE  Acyclic([t EXCEPT ![i] = v])
<1> DEFINE u == [t EXCEPT ![i] = v]
<1> SUFFICES ASSUME NEW S \in SUBSET Folder, S # {}, \A g \in S : u[g] \in S
             PROVE  FALSE
  BY DEF Acyclic
<1>1. \A g \in Folder : u[g] = IF g = i THEN v ELSE t[g]
  BY DEF Tree, Item
<1> QED
  BY <1>1 DEF Acyclic

-----------------------------------------------------------------------------
(* The invariant.                                                           *)

(* The ID of a folder that is not made yet is in no tree, on no page and in *)
(* no request as a destination.                                             *)
Unused(f) ==
    /\ ~Exists(parent, f)
    /\ \A g \in Folder : parent[g] # f

Unseen(f) ==
    /\ \A p \in Page : ~Exists(page[p].shown, f)
    /\ \A l \in loads : ~Exists(l.list, f)

NewIds == /\ \A f \in fresh : Unused(f) /\ Unseen(f)
          /\ \A j \in Begun : jobs[j].dest \notin fresh

(* Each folder that is being made is made by one job.                       *)
Makes(j, f) == j \in Begun /\ jobs[j].pc = "create" /\ jobs[j].now = f

Making ==
    \A j \in Begun : jobs[j].pc = "create" =>
        /\ jobs[j].now \in fresh
        /\ \A k \in Begun \ {j} : ~Makes(k, jobs[j].now)

(* What was validated still holds while nothing came between.               *)
Validated ==
    ~overlapped =>
        /\ Acyclic(parent)
        /\ \A j \in Moving : ValidateMove(parent, jobs[j].now, jobs[j].dest)

Inv == TypeOK /\ NewIds /\ Making /\ Validated

LEMMA NothingType ==
    Nothing \in Tree /\ \A i \in Item : ~Exists(Nothing, i)
BY DEF Nothing, Tree, Exists

LEMMA JobOf ==
    ASSUME TypeOK, NEW j \in Begun
    PROVE  j \in 1..Len(jobs) /\ jobs[j] \in JobType
BY DEF TypeOK, Begun

-----------------------------------------------------------------------------
(* What a step does to the pages and the jobs.                              *)

Seen == {Nothing, Listing(parent)}
          \cup {page[p].shown : p \in Page} \cup {l.list : l \in loads}

(* Nothing is shown, or on its way, that was not, except for a listing.     *)
PagesStep ==
    /\ page' \in [Page -> PageType]
    /\ loads' \subseteq LoadType
    /\ \A p \in Page : page'[p].shown \in Seen
    /\ \A l \in loads' : l.list \in Seen

LEMMA PagesStepKeeps ==
    ASSUME TypeOK, NewIds, PagesStep, NEW f \in fresh
    PROVE  Unseen(f)'
<1>1. \A t \in Seen : ~Exists(t, f)
  <2>1. f \in Item /\ ~Exists(Listing(parent), f)
    BY ListingType DEF TypeOK, NewIds, Unused, Item
  <2> QED
    BY <2>1, NothingType DEF Seen, NewIds, Unseen
<1> QED
  BY <1>1 DEF PagesStep, Unseen

LEMMA SamePages ==
    ASSUME TypeOK, UNCHANGED <<page, loads>>
    PROVE  PagesStep
BY DEF TypeOK, PagesStep, Seen

(* A job that makes no folder and has, if it moves, validated it.           *)
Sound(r) ==
    /\ r \in JobType
    /\ r.dest \notin fresh
    /\ r.pc # "create"
    /\ r.pc = "apply" => r.now \in Item /\ ValidateMove(parent, r.now, r.dest)
    /\ r.pc \in {"confirm", "replace"} => r.at <= Len(r.files)

LEMMA QuietStep ==
    ASSUME Inv, PagesStep, UNCHANGED <<parent, fresh, overlapped>>, adrift' \subseteq Item,
           spent' \in [mounts : Nat, edits : Nat, faults : Nat],
           jobs' \in Seq(JobType),
           \A k \in DOMAIN jobs' :
              \/ k \in Begun /\ jobs'[k] = jobs[k]
              \/ Sound(jobs'[k])
              \/ /\ jobs'[k].pc = "create"
                 /\ jobs'[k].now \in fresh /\ jobs'[k].dest \notin fresh
                 /\ \A m \in DOMAIN jobs' \ {k} : jobs'[m].now # jobs'[k].now
    PROVE  Inv'
<1>1. TypeOK'
  BY DEF Inv, TypeOK, PagesStep, Sound, Begun
<1>2. NewIds'
  <2>1. \A f \in fresh : Unseen(f)' /\ Unused(f)'
    BY PagesStepKeeps DEF Inv, NewIds, Unused
  <2>2. \A k \in DOMAIN jobs' : jobs'[k].dest \notin fresh
    BY DEF Inv, NewIds, Sound
  <2> QED
    BY <2>1, <2>2 DEF NewIds, Begun
<1>3. Making'
  BY DEF Inv, Making, Makes, Sound, Begun
<1>4. Validated'
  <2>1. ASSUME NEW k \in DOMAIN jobs', jobs'[k].pc = "apply", ~overlapped
        PROVE  ValidateMove(parent, jobs'[k].now, jobs'[k].dest)
    BY <2>1 DEF Inv, Validated, Moving, Sound
  <2> QED
    BY <2>1 DEF Inv, Validated, Moving, Begun
<1> QED
  BY <1>1, <1>2, <1>3, <1>4 DEF Inv

(* One job goes on.                                                         *)
LEMMA QuietJobStep ==
    ASSUME Inv, PagesStep, UNCHANGED <<parent, fresh, overlapped>>, adrift' \subseteq Item,
           spent' \in [mounts : Nat, edits : Nat, faults : Nat],
           NEW j \in Begun, NEW r, Sound(r), Step(j, r)
    PROVE  Inv'
<1>1. j \in 1..Len(jobs) /\ r \in JobType /\ jobs \in Seq(JobType)
  BY DEF Inv, TypeOK, Begun, Sound
<1>2. /\ jobs' \in Seq(JobType) /\ Len(jobs') = Len(jobs)
      /\ \A k \in 1..Len(jobs) : jobs'[k] = IF k = j THEN r ELSE jobs[k]
  BY <1>1, ExceptSeq DEF Step
<1>3. \A k \in DOMAIN jobs' : (k \in Begun /\ jobs'[k] = jobs[k]) \/ Sound(jobs'[k])
  BY <1>1, <1>2 DEF Begun
<1> QED
  BY <1>2, <1>3, QuietStep

(* The tree changes, by a job or (0) by the tablet.                         *)
LEMMA ChangeStep ==
    ASSUME Inv, PagesStep, NEW j, Overtakes(j), adrift' \subseteq Item,
           spent' \in [mounts : Nat, edits : Nat, faults : Nat],
           jobs' \in Seq(JobType), DOMAIN jobs' = Begun,
           \A k \in Begun \ {j} : jobs'[k] = jobs[k],
           j \in Begun => /\ jobs'[j].dest \notin fresh
                         /\ jobs'[j].pc \notin {"create", "apply", "confirm", "replace"},
           parent' \in Tree, fresh' \subseteq fresh,
           ~overlapped' => Acyclic(parent'),
           \A f \in fresh' : Unused(f)',
           \A k \in Begun \ {j} : jobs[k].pc = "create" => jobs[k].now \in fresh'
    PROVE  Inv'
<1>1. TypeOK'
  <2>1. overlapped' \in BOOLEAN
    BY DEF Overtakes, Inv, TypeOK
  <2>2. \A k \in Begun : /\ jobs'[k].pc = "apply" => jobs'[k].now \in Item
                        /\ jobs'[k].pc \in {"confirm", "replace"}
                              => jobs'[k].at <= Len(jobs'[k].files)
    BY DEF Inv, TypeOK
  <2> QED
    BY <2>1, <2>2 DEF Inv, TypeOK, PagesStep, Begun
<1>2. NewIds'
  <2>1. \A f \in fresh' : Unseen(f)'
    BY PagesStepKeeps DEF Inv
  <2>2. \A k \in DOMAIN jobs' : jobs'[k].dest \notin fresh'
    BY DEF Inv, NewIds
  <2> QED
    BY <2>1, <2>2 DEF NewIds, Begun
<1>3. Making'
  BY DEF Inv, Making, Makes, Begun
<1>4. Validated'
  <2>1. ASSUME ~overlapped' PROVE Moving' = {}
    BY <2>1 DEF Overtakes, Moving, Begun
  <2> QED
    BY <2>1 DEF Validated
<1> QED
  BY <1>1, <1>2, <1>3, <1>4 DEF Inv

-----------------------------------------------------------------------------
(* What the operators of the pages and of the jobs make.  A record with     *)
(* several new fields is made field by field.                               *)

LEMMA PageFields ==
    ASSUME NEW pg \in PageType
    PROVE  /\ \A v \in BOOLEAN :
                 /\ [pg EXCEPT !.behind = v] \in PageType
                 /\ [pg EXCEPT !.behind = v].shown = pg.shown
                 /\ [pg EXCEPT !.loading = v] \in PageType
                 /\ [pg EXCEPT !.loading = v].shown = pg.shown
                 /\ [pg EXCEPT !.error = v] \in PageType
                 /\ [pg EXCEPT !.error = v].shown = pg.shown
                 /\ [pg EXCEPT !.toast = v] \in PageType
                 /\ [pg EXCEPT !.toast = v].shown = pg.shown
                 /\ [pg EXCEPT !.busy = v] \in PageType
                 /\ [pg EXCEPT !.busy = v].shown = pg.shown
           /\ \A n \in Nat : /\ [pg EXCEPT !.request = n] \in PageType
                             /\ [pg EXCEPT !.request = n].shown = pg.shown
           /\ \A t \in Tree : /\ [pg EXCEPT !.shown = t] \in PageType
                              /\ [pg EXCEPT !.shown = t].shown = t
BY DEF PageType

(* r is job but for its pc, its item and what concerns no one else.         *)
Like(r, job) == r \in JobType /\ r.dest = job.dest /\ r.files = job.files

LEMMA JobFields ==
    ASSUME NEW job \in JobType
    PROVE  /\ \A v \in Pc : /\ Like([job EXCEPT !.pc = v], job)
                            /\ [job EXCEPT !.pc = v].pc = v
                            /\ [job EXCEPT !.pc = v].now = job.now
                            /\ [job EXCEPT !.pc = v].at = job.at
           /\ \A v \in Item \cup {Root} : /\ Like([job EXCEPT !.now = v], job)
                                           /\ [job EXCEPT !.now = v].pc = job.pc
                                           /\ [job EXCEPT !.now = v].now = v
           /\ \A v \in Nat \ {0} : /\ Like([job EXCEPT !.at = v], job)
                                   /\ [job EXCEPT !.at = v].pc = job.pc
BY DEF JobType, Like

LEMMA OtherJobFields ==
    ASSUME NEW job \in JobType
    PROVE  /\ \A S \in SUBSET Item : /\ Like([job EXCEPT !.todo = S], job)
                                     /\ [job EXCEPT !.todo = S].pc = job.pc
                                     /\ Like([job EXCEPT !.rest = S], job)
                                     /\ [job EXCEPT !.rest = S].pc = job.pc
           /\ \A S \in SUBSET Doc : /\ Like([job EXCEPT !.lost = S], job)
                                    /\ [job EXCEPT !.lost = S].pc = job.pc
           /\ \A n \in Nat : /\ Like([job EXCEPT !.mount = n], job)
                             /\ [job EXCEPT !.mount = n].pc = job.pc
                             /\ Like([job EXCEPT !.awaited = n], job)
                             /\ [job EXCEPT !.awaited = n].pc = job.pc
           /\ \A v \in Told : /\ Like([job EXCEPT !.told = v], job)
                              /\ [job EXCEPT !.told = v].pc = job.pc
           /\ \A v \in BOOLEAN : /\ Like([job EXCEPT !.again = v], job)
                                 /\ [job EXCEPT !.again = v].pc = job.pc
           /\ \A t \in Tree : /\ Like([job EXCEPT !.before = t], job)
                              /\ [job EXCEPT !.before = t].pc = job.pc
BY DEF JobType, Like


LEMMA HereType ==
    ASSUME TypeOK, NEW j \in Begun
    PROVE  jobs[j].page \in Page /\ Here(j) \in PageType
BY JobOf DEF JobType, TypeOK, Here

LEMMA OnPageStep ==
    ASSUME TypeOK, NEW j \in Begun, NEW pg \in PageType, pg.shown = Here(j).shown,
           page' = OnPage(j, pg), UNCHANGED loads
    PROVE  PagesStep
<1>1. jobs[j].page \in Page /\ page \in [Page -> PageType] /\ loads \subseteq LoadType
  BY HereType DEF TypeOK
<1>2. page' = page \/ page' = [page EXCEPT ![jobs[j].page] = pg]
  BY DEF OnPage
<1>3. page' \in [Page -> PageType] /\ \A p \in Page : page'[p].shown = page[p].shown
  BY <1>1, <1>2 DEF Here
<1> QED
  BY <1>1, <1>3 DEF PagesStep, Seen

LEMMA BehindStep ==
    ASSUME TypeOK, NEW j \in Begun, Behind(j)
    PROVE  PagesStep
<1>1. Here(j) \in PageType /\ jobs[j].page \in Page
  BY HereType
<1> DEFINE pg == [Here(j) EXCEPT !.behind = TRUE]
<1>2. pg \in PageType /\ pg.shown = Here(j).shown
  BY <1>1, PageFields
<1>3. page' = page \/ page' = [page EXCEPT ![jobs[j].page] = pg]
  BY DEF Behind, OnPage
<1>4. page' \in [Page -> PageType] /\ \A p \in Page : page'[p].shown = page[p].shown
  BY <1>1, <1>2, <1>3 DEF Here, TypeOK
<1>5. \A l \in LoadType : /\ [l EXCEPT !.behind = TRUE] \in LoadType
                          /\ [l EXCEPT !.behind = TRUE].list = l.list
  BY DEF LoadType
<1>6. ASSUME NEW m \in loads' PROVE m \in LoadType /\ \E l \in loads : m.list = l.list
  <2>1. PICK l \in loads : m = l \/ m = [l EXCEPT !.behind = TRUE]
    BY DEF Behind
  <2> QED
    BY <1>5, <2>1 DEF TypeOK
<1> QED
  BY <1>4, <1>6 DEF PagesStep, Seen

LEMMA RefreshesStep ==
    ASSUME TypeOK, NEW p \in Page, NEW pg \in PageType, pg.shown = page[p].shown,
           Refreshes(p, pg)
    PROVE  PagesStep
<1> DEFINE n  == pg.request + 1
           p1 == [pg EXCEPT !.request = n]
           p2 == [p1 EXCEPT !.loading = TRUE]
           p3 == [p2 EXCEPT !.toast = FALSE]
<1>1. n \in Nat
  BY DEF PageType
<1>2. Load(p, n) \in LoadType /\ Load(p, n).list = Nothing
  BY <1>1, NothingType DEF Load, LoadType
<1>3. p1 \in PageType /\ p1.shown = pg.shown
  BY <1>1, PageFields
<1>4. p2 \in PageType /\ p2.shown = pg.shown
  BY <1>3, PageFields
<1>5. p3 \in PageType /\ p3.shown = pg.shown
  BY <1>4, PageFields
<1>6. page' = [page EXCEPT ![p] = p3] /\ loads' = loads \cup {Load(p, n)}
  BY DEF Refreshes
<1> HIDE DEF n, p3
<1>7. page' \in [Page -> PageType] /\ \A q \in Page : page'[q].shown = page[q].shown
  BY <1>5, <1>6 DEF TypeOK
<1> QED
  BY <1>2, <1>6, <1>7 DEF PagesStep, Seen, TypeOK

LEMMA NewJob ==
    ASSUME TypeOK, NEW p \in Page, NEW kind \in Kind, NEW dest \in Folder \cup {Root}
    PROVE  /\ Job(p, kind, dest) \in JobType
           /\ Job(p, kind, dest).pc = kind /\ Job(p, kind, dest).dest = dest
<1>1. page[p].mount \in Nat
  BY DEF TypeOK, PageType
<1>2. <<>> \in Seq(Doc) /\ kind \in Pc /\ "no" \in Told
  BY DEF Pc, Told
<1> QED
  BY <1>1, <1>2, NothingType DEF Job, JobType

LEMMA JobsGoOn ==
    ASSUME Inv, NEW j \in Begun
    PROVE  /\ Sound(Over(jobs[j]))
           /\ \A why \in Told : Sound([Over(jobs[j]) EXCEPT !.told = why])
           /\ \A i : Sound(Succeeds(jobs[j], i)) /\ Sound(Fails(jobs[j], i))
<1> DEFINE job == jobs[j]
<1>1. job \in JobType /\ job.dest \notin fresh /\ TypeOK
  BY JobOf DEF Inv, NewIds
<1>2. Root \notin fresh /\ Root \notin Folder
  BY ItemAssumption DEF Inv, TypeOK, Item
<1>3. Sound(Over(job)) /\ \A why \in Told : Sound([Over(job) EXCEPT !.told = why])
  <2> DEFINE new == Job(job.page, "over", Root)
             n1  == [new EXCEPT !.mount = 0]
             n2  == [n1 EXCEPT !.lost = job.lost]
  <2>1. job.page \in Page /\ job.lost \in SUBSET Doc
    BY <1>1 DEF JobType
  <2>2. new \in JobType /\ new.pc = "over" /\ new.dest = Root
    <3>1. "over" \in Kind
      BY DEF Kind
    <3> QED
      BY <1>1, <2>1, <3>1, NewJob
  <2> HIDE DEF new
  <2>3. n1 \in JobType /\ n1.pc = "over" /\ n1.dest = Root
    BY <2>2, OtherJobFields, ZenonT(40) DEF Like
  <2> HIDE DEF n1
  <2>4. n2 \in JobType /\ n2.pc = "over" /\ n2.dest = Root
    BY <2>1, <2>3, OtherJobFields DEF Like
  <2>5. Over(job) = n2
    BY DEF Over, new, n1
  <2> HIDE DEF n2
  <2>6. \A why \in Told : /\ [n2 EXCEPT !.told = why] \in JobType
                            /\ [n2 EXCEPT !.told = why].pc = "over"
                            /\ [n2 EXCEPT !.told = why].dest = Root
    BY <2>4, OtherJobFields DEF Like
  <2> QED
    BY <1>2, <2>4, <2>5, <2>6 DEF Sound
<1>4. ASSUME NEW i PROVE Sound(Succeeds(job, i)) /\ Sound(Fails(job, i))
  <2> DEFINE t == [job EXCEPT !.todo = @ \ {i}]
             r == [t EXCEPT !.rest = {}]
  <2>1. t \in JobType /\ t.dest = job.dest
    <3>1. job.todo \ {i} \in SUBSET Item
      BY <1>1 DEF JobType
    <3> QED
      BY <1>1, <3>1, OtherJobFields DEF Like
  <2>2. r \in JobType /\ r.dest = job.dest
    BY <2>1, OtherJobFields DEF Like
  <2>3. /\ Succeeds(job, i) = [t EXCEPT !.pc = "next"]
        /\ Fails(job, i) = [r EXCEPT !.pc = "next"]
    BY DEF Succeeds, Fails
  <2> HIDE DEF t, r
  <2>4. \A u \in {t, r} : /\ [u EXCEPT !.pc = "next"] \in JobType
                          /\ [u EXCEPT !.pc = "next"].pc = "next"
                          /\ [u EXCEPT !.pc = "next"].dest = u.dest
    <3>1. "next" \in Pc
      BY DEF Pc
    <3> QED
      BY <2>1, <2>2, <3>1, JobFields DEF Like
  <2> QED
    BY <1>1, <2>1, <2>2, <2>3, <2>4 DEF Sound
<1> QED
  BY <1>3, <1>4

LEMMA BranchGoesOn ==
    ASSUME Inv, NEW j \in Begun, jobs[j].pc = "delete", NEW c
    PROVE  Sound(GoesOn(jobs[j], c)) /\ Sound(EndsBranch(jobs[j], c))
<1> DEFINE job == jobs[j]
           r   == [job EXCEPT !.rest = @ \ {c}]
<1>1. job \in JobType /\ job.dest \notin fresh
  BY JobOf DEF Inv, NewIds
<1>2. Sound(EndsBranch(job, c))
  BY JobsGoOn DEF EndsBranch
<1>3. r \in JobType /\ r.dest = job.dest /\ r.pc = job.pc
  <2>1. job.rest \ {c} \in SUBSET Item
    BY <1>1 DEF JobType
  <2> QED
    BY <1>1, <2>1, OtherJobFields DEF Like
<1>4. CASE job.rest # {c}
  BY <1>1, <1>2, <1>3, <1>4 DEF GoesOn, Sound
<1>5. CASE job.rest = {c}
  <2>1. Fails(job, job.now) = Succeeds([job EXCEPT !.rest = {}], job.now)
    BY <1>1 DEF Fails, Succeeds, JobType
  <2> QED
    BY <1>2, <1>5, <2>1 DEF GoesOn, EndsBranch
<1> QED
  BY <1>2, <1>4, <1>5

-----------------------------------------------------------------------------
(* Steps that change no tree.                                               *)

SpentOK == spent \in [mounts : Nat, edits : Nat, faults : Nat]

LEMMA FaultType ==
    ASSUME TypeOK
    PROVE  /\ Fault => SpentOK'
           /\ UNCHANGED spent => SpentOK'
           /\ \A answered : Answered(answered) => SpentOK'
<1>1. SpentOK
  BY DEF TypeOK, SpentOK
<1>2. Fault => SpentOK'
  BY <1>1 DEF Fault, SpentOK
<1> QED
  BY <1>1, <1>2 DEF SpentOK, Answered

LEMMA OnlyStepKeeps ==
    ASSUME Inv, NEW j \in Begun, NEW r, Sound(r), OnlyStep(j, r), SpentOK'
    PROVE  Inv'
<1>1. PagesStep
  BY SamePages DEF OnlyStep, Inv
<1> QED
  BY <1>1, QuietJobStep DEF OnlyStep, TreeUnchanged, SpentOK, Inv, TypeOK

LEMMA QuietPages ==
    ASSUME Inv, PagesStep, UNCHANGED jobs, TreeUnchanged, SpentOK'
    PROVE  Inv'
BY QuietStep DEF TreeUnchanged, SpentOK, Inv, TypeOK, Begun

(* Some jobs are over.                                                      *)
LEMMA QuietOver ==
    ASSUME Inv, PagesStep, TreeUnchanged, SpentOK', NEW E,
           jobs' = [k \in Begun |-> IF k \in E THEN Over(jobs[k]) ELSE jobs[k]]
    PROVE  Inv'
<1>1. jobs \in Seq(JobType) /\ Begun = 1..Len(jobs)
  BY DEF Inv, TypeOK, Begun
<1>2. \A k \in Begun : Sound(Over(jobs[k]))
  BY JobsGoOn
<1>3. \A k \in Begun : (IF k \in E THEN Over(jobs[k]) ELSE jobs[k]) \in JobType
  BY <1>1, <1>2 DEF Sound
<1>4. jobs' \in Seq(JobType)
  BY <1>1, <1>3
<1>5. \A k \in DOMAIN jobs' : (k \in Begun /\ jobs'[k] = jobs[k]) \/ Sound(jobs'[k])
  BY <1>1, <1>2
<1> QED
  BY <1>4, <1>5, QuietStep DEF TreeUnchanged, SpentOK, Inv, TypeOK

LEMMA RefreshKeeps ==
    ASSUME Inv, NEW p \in Page, Refresh(p)
    PROVE  Inv'
<1>1. TypeOK /\ page[p] \in PageType
  BY DEF Inv, TypeOK
<1>2. PagesStep
  BY <1>1, RefreshesStep DEF Refresh
<1> QED
  BY <1>1, <1>2, QuietPages, FaultType DEF Refresh

LEMMA ServeLoadStep ==
    ASSUME TypeOK, NEW l \in loads, ServeLoad(l)
    PROVE  PagesStep
<1> DEFINE m == [l EXCEPT !.read = TRUE, !.list = Listing(parent)]
<1>1. TypeOK /\ l \in LoadType /\ Listing(parent) \in Tree
  BY ListingType DEF TypeOK
<1>2. [l EXCEPT !.read = TRUE] \in LoadType
  BY <1>1 DEF LoadType
<1>3. m \in LoadType /\ m.list = Listing(parent)
  <2> DEFINE n == [l EXCEPT !.read = TRUE]
  <2>1. m = [n EXCEPT !.list = Listing(parent)]
    OBVIOUS
  <2>2. n \in LoadType
    BY <1>2
  <2> HIDE DEF n
  <2> QED
    BY <1>1, <2>1, <2>2 DEF LoadType
<1>4. page' = page /\ loads' = (loads \ {l}) \cup {m}
  BY DEF ServeLoad
<1> HIDE DEF m
<1> QED
  BY <1>1, <1>3, <1>4 DEF PagesStep, Seen, TypeOK

LEMMA ServeLoadKeeps ==
    ASSUME Inv, NEW l \in loads, ServeLoad(l)
    PROVE  Inv'
<1>1. TypeOK /\ PagesStep
  BY ServeLoadStep DEF Inv
<1> QED
  BY <1>1, QuietPages, FaultType DEF ServeLoad

LEMMA DeliveredStep ==
    ASSUME TypeOK, NEW l \in loads, NEW pg \in PageType, pg.shown \in Seen, Delivered(l, pg)
    PROVE  PagesStep
<1> DEFINE shows == IF IsNewestRequest(l) THEN pg ELSE page[l.page]
           free  == ~\E j \in Begun : Awaits(j, l)
           q     == [shows EXCEPT !.busy = @ /\ free]
<1>1. TypeOK /\ l \in LoadType /\ l.page \in Page /\ page[l.page] \in PageType
  BY DEF TypeOK, LoadType
<1>2. shows \in PageType /\ shows.shown \in Seen
  BY <1>1 DEF Seen
<1>3. (shows.busy /\ free) \in BOOLEAN
  OBVIOUS
<1>4. q = [shows EXCEPT !.busy = (shows.busy /\ free)]
  OBVIOUS
<1>5. q \in PageType /\ q.shown \in Seen
  <2> HIDE DEF shows, free
  <2> QED
    BY <1>2, <1>3, <1>4, PageFields, ZenonT(40)
<1>6. page' = [page EXCEPT ![l.page] = q] /\ loads' = loads \ {l}
  BY DEF Delivered
<1> HIDE DEF q
<1>7. page' \in [Page -> PageType]
  BY <1>1, <1>5, <1>6 DEF TypeOK
<1>8. \A p \in Page : page'[p].shown \in Seen
  BY <1>1, <1>5, <1>6 DEF Seen, TypeOK
<1>9. loads' \subseteq LoadType /\ \A m \in loads' : m.list \in Seen
  BY <1>1, <1>6 DEF Seen, TypeOK
<1> QED
  BY <1>7, <1>8, <1>9 DEF PagesStep

LEMMA DeliveredKeeps ==
    ASSUME Inv, NEW l \in loads, NEW pg \in PageType, pg.shown \in Seen, Delivered(l, pg), SpentOK'
    PROVE  Inv'
<1> DEFINE E == {j \in Begun : Awaits(j, l)}
<1>1. jobs' = [k \in Begun |-> IF k \in E THEN Over(jobs[k]) ELSE jobs[k]]
  BY DEF Delivered
<1>2. PagesStep
  BY DeliveredStep DEF Inv
<1> QED
  BY <1>1, <1>2, QuietOver DEF Delivered

LEMMA DeliverKeeps ==
    ASSUME Inv, NEW l \in loads, Deliver(l)
    PROVE  Inv'
<1> DEFINE p1 == [page[l.page] EXCEPT !.shown = l.list]
           p2 == [p1 EXCEPT !.behind = l.behind]
           p3 == [p2 EXCEPT !.loading = FALSE]
           p4 == [p3 EXCEPT !.error = FALSE]
<1>1. /\ TypeOK /\ l.page \in Page /\ page[l.page] \in PageType
      /\ l.list \in Tree /\ l.behind \in BOOLEAN /\ l.list \in Seen
  BY DEF Inv, TypeOK, LoadType, Seen
<1>2. p1 \in PageType /\ p1.shown = l.list
  BY <1>1, PageFields
<1>3. p2 \in PageType /\ p2.shown = l.list
  BY <1>1, <1>2, PageFields
<1>4. p3 \in PageType /\ p3.shown = l.list
  BY <1>3, PageFields
<1>5. p4 \in PageType /\ p4.shown = l.list
  BY <1>4, PageFields
<1>6. Delivered(l, p4)
  BY DEF Deliver
<1> HIDE DEF p4
<1> QED
  BY <1>1, <1>5, <1>6, DeliveredKeeps, FaultType DEF Deliver

LEMMA LoadFailsKeeps ==
    ASSUME Inv, NEW l \in loads, LoadFails(l)
    PROVE  Inv'
<1> DEFINE p1 == [page[l.page] EXCEPT !.loading = FALSE]
           p2 == [p1 EXCEPT !.error = TRUE]
<1>1. TypeOK /\ l.page \in Page /\ page[l.page] \in PageType
  BY DEF Inv, TypeOK, LoadType
<1>2. p1 \in PageType /\ p1.shown = page[l.page].shown
  BY <1>1, PageFields
<1>3. p2 \in PageType /\ p2.shown = page[l.page].shown
  BY <1>2, PageFields
<1>4. Delivered(l, p2)
  BY DEF LoadFails
<1>5. p2.shown \in Seen
  BY <1>1, <1>3 DEF Seen
<1> HIDE DEF p2
<1> QED
  BY <1>1, <1>3, <1>4, <1>5, DeliveredKeeps, FaultType DEF LoadFails

LEMMA RemountStep ==
    ASSUME TypeOK, NEW p \in Page, Remount(p)
    PROVE  PagesStep
<1> DEFINE new == Opened(page[p].mount + 1, page[p].request + 1)
           load == Load(p, new.request)
<1>1. /\ page \in [Page -> PageType] /\ loads \subseteq LoadType
      /\ page[p].mount + 1 \in Nat /\ page[p].request + 1 \in Nat
  BY DEF TypeOK, PageType
<1>2. new \in PageType /\ new.shown = Nothing /\ new.request \in Nat
  BY <1>1, NothingType DEF Opened, PageType
<1>3. load \in LoadType /\ load.list = Nothing
  BY <1>2, NothingType DEF Load, LoadType
<1>4. page' = [page EXCEPT ![p] = new]
  BY DEF Remount
<1>5. loads' = {l \in loads : l.page # p} \cup {load}
  BY <1>1, <1>4 DEF Remount
<1> HIDE DEF new, load
<1> QED
  BY <1>1, <1>2, <1>3, <1>4, <1>5 DEF PagesStep, Seen

LEMMA RemountKeeps ==
    ASSUME Inv, NEW p \in Page, Remount(p)
    PROVE  Inv'
<1> DEFINE E == {j \in Begun : jobs[j].page = p /\ jobs[j].pc = "refresh"}
<1>1. jobs' = [k \in Begun |-> IF k \in E THEN Over(jobs[k]) ELSE jobs[k]]
  BY DEF Remount
<1>2. PagesStep
  BY RemountStep DEF Inv
<1>3. SpentOK'
  BY DEF Remount, Inv, TypeOK, SpentOK
<1> QED
  BY <1>1, <1>2, <1>3, QuietOver DEF Remount

-----------------------------------------------------------------------------
(* Jobs that begin.                                                         *)

LEMMA BeginStep ==
    ASSUME TypeOK, NEW p \in Page, NEW job, Begin(p, job)
    PROVE  PagesStep
<1> DEFINE pg == [page[p] EXCEPT !.busy = TRUE]
<1>1. page[p] \in PageType /\ page \in [Page -> PageType]
  BY DEF TypeOK
<1>2. pg \in PageType /\ pg.shown = page[p].shown
  BY <1>1, PageFields
<1>3. page' = [page EXCEPT ![p] = pg]
  BY DEF Begin
<1> HIDE DEF pg
<1>4. page' \in [Page -> PageType] /\ \A q \in Page : page'[q].shown = page[q].shown
  BY <1>1, <1>2, <1>3
<1> QED
  BY <1>1, <1>4 DEF Begin, PagesStep, Seen, TypeOK

LEMMA BeginKeeps ==
    ASSUME Inv, NEW p \in Page, NEW job \in JobType, Begin(p, job),
           \/ Sound(job)
           \/ /\ job.pc = "create" /\ job.now \in fresh /\ job.dest \notin fresh
              /\ \A k \in Begun : jobs[k].now # job.now
    PROVE  Inv'
<1>1. /\ TypeOK /\ PagesStep
      /\ jobs \in Seq(JobType) /\ Begun = 1..Len(jobs) /\ Len(jobs) \in Nat
  BY BeginStep DEF Inv, TypeOK, Begun
<1>2. jobs' = Append(jobs, job)
  BY DEF Begin
<1>3. /\ jobs' \in Seq(JobType) /\ DOMAIN jobs' = 1..(Len(jobs) + 1)
      /\ jobs'[Len(jobs) + 1] = job
      /\ \A k \in 1..Len(jobs) : jobs'[k] = jobs[k]
  BY <1>1, <1>2
<1>4. \A k \in DOMAIN jobs' :
         \/ k \in Begun /\ jobs'[k] = jobs[k]
         \/ Sound(jobs'[k])
         \/ /\ jobs'[k].pc = "create"
            /\ jobs'[k].now \in fresh /\ jobs'[k].dest \notin fresh
            /\ \A m \in DOMAIN jobs' \ {k} : jobs'[m].now # jobs'[k].now
  BY <1>1, <1>3
<1>5. SpentOK'
  BY <1>1, FaultType DEF Begin
<1> QED
  BY <1>1, <1>3, <1>4, <1>5, QuietStep DEF Begin, TreeUnchanged, SpentOK, TypeOK

(* A folder that can be seen is not one that is still to be made.           *)
LEMMA ShownDest ==
    ASSUME Inv, NEW p \in Page, NEW dest \in Folder \cup {Root},
           dest \in Folder => Exists(page[p].shown, dest)
    PROVE  dest \notin fresh
BY ItemAssumption DEF Inv, NewIds, Unseen, TypeOK, Item

LEMMA RunKeeps ==
    ASSUME Inv, NEW p \in Page, NEW kind \in {"move", "delete"}, NEW ids \in SUBSET Item,
           NEW dest \in Folder \cup {Root}, kind = "delete" => dest = Root,
           Run(p, kind, ids, dest)
    PROVE  Inv'
<1> DEFINE list == page[p].shown
           work == TopLevelSelection(list, ids)
           j0   == Job(p, kind, dest)
           j1   == [j0 EXCEPT !.pc = "next"]
           j2   == [j1 EXCEPT !.todo = work]
           j3   == [j2 EXCEPT !.before = list]
<1>1. TypeOK /\ list \in Tree /\ work \in SUBSET Item /\ "next" \in Pc /\ kind \in Kind
  BY DEF Inv, TypeOK, PageType, TopLevelSelection, Pc, Kind
<1>2. dest \in Folder => Exists(list, dest)
  BY ItemAssumption DEF Run, CanMove, Item
<1>3. dest \notin fresh
  BY <1>2, ShownDest
<1>4. j0 \in JobType /\ j0.dest = dest
  BY <1>1, NewJob
<1>5. Begin(p, j3)
  BY DEF Run
<1> HIDE DEF list, work, j0
<1>6. j1 \in JobType /\ j1.dest = dest /\ j1.pc = "next"
  BY <1>1, <1>4, JobFields DEF Like
<1> HIDE DEF j1
<1>7. j2 \in JobType /\ j2.dest = dest /\ j2.pc = "next"
  BY <1>1, <1>6, OtherJobFields DEF Like
<1> HIDE DEF j2
<1>8. j3 \in JobType /\ j3.dest = dest /\ j3.pc = "next"
  BY <1>1, <1>7, OtherJobFields DEF Like
<1> HIDE DEF j3
<1>9. Sound(j3)
  BY <1>3, <1>8 DEF Sound
<1> QED
  BY <1>5, <1>8, <1>9, BeginKeeps

LEMMA CreateFolderKeeps ==
    ASSUME Inv, NEW p \in Page, NEW f \in Folder, NEW dest \in Dest, CreateFolder(p, f, dest)
    PROVE  Inv'
<1> DEFINE j0 == Job(p, "create", dest)
           j1 == [j0 EXCEPT !.now = f]
<1>1. TypeOK /\ dest \in Folder \cup {Root} /\ f \in Item \cup {Root} /\ "create" \in Kind
  BY InputAssumption DEF Inv, Kind, Item
<1>2. dest \notin fresh
  BY <1>1, ShownDest DEF CreateFolder, CanCreate
<1>3. j0 \in JobType /\ j0.dest = dest /\ j0.pc = "create"
  BY <1>1, NewJob
<1>4. Begin(p, j1)
  BY DEF CreateFolder
<1> HIDE DEF j0
<1>5. j1 \in JobType /\ j1.dest = dest /\ j1.pc = "create" /\ j1.now = f
  BY <1>1, <1>3, JobFields DEF Like
<1> HIDE DEF j1
<1> QED
  BY <1>2, <1>4, <1>5, BeginKeeps DEF CreateFolder

LEMMA UploadKeeps ==
    ASSUME Inv, NEW p \in Page, NEW files \in Batches, NEW dest \in Dest, Upload(p, files, dest)
    PROVE  Inv'
<1> DEFINE j0 == Job(p, "upload", dest)
           j1 == [j0 EXCEPT !.files = files]
<1>1. TypeOK /\ dest \in Folder \cup {Root} /\ "upload" \in Kind /\ files \in Seq(Doc)
  BY InputAssumption DEF Inv, Kind
<1>2. dest \notin fresh
  BY <1>1, ShownDest DEF Upload, CanCreate
<1>3. j0 \in JobType /\ j0.dest = dest /\ j0.pc = "upload"
  BY <1>1, NewJob
<1>4. Begin(p, j1)
  BY DEF Upload
<1> HIDE DEF j0
<1>5. j1 \in JobType /\ j1.dest = dest /\ j1.pc = "upload"
  BY <1>1, <1>3 DEF JobType
<1> HIDE DEF j1
<1>6. Sound(j1)
  BY <1>2, <1>5 DEF Sound
<1> QED
  BY <1>4, <1>5, <1>6, BeginKeeps

LEMMA UserKeeps ==
    ASSUME Inv, NEW p \in Page, User(p)
    PROVE  Inv'
<1>1. CASE Refresh(p)
  BY <1>1, RefreshKeeps
<1>2. CASE Remount(p)
  BY <1>2, RemountKeeps
<1>3. CASE \E ids \in Selections : Run(p, "delete", ids, Root)
  BY <1>3, RunKeeps, InputAssumption
<1>4. CASE \E ids \in Selections, dest \in Dest : Run(p, "move", ids, dest)
  BY <1>4, RunKeeps, InputAssumption
<1>5. CASE \E f \in Folder, dest \in Dest : CreateFolder(p, f, dest)
  BY <1>5, CreateFolderKeeps
<1>6. CASE \E files \in Batches, dest \in Dest : Upload(p, files, dest)
  BY <1>6, UploadKeeps
<1> QED
  BY <1>1, <1>2, <1>3, <1>4, <1>5, <1>6 DEF User

-----------------------------------------------------------------------------
(* Jobs that go on and change no tree.                                      *)

(* A job's pc changes, and what else r is given concerns no one else.       *)
LEMMA PcStep ==
    ASSUME Inv, NEW j \in Begun, NEW v \in Pc \ {"create", "apply", "confirm", "replace"}
    PROVE  Sound([jobs[j] EXCEPT !.pc = v])
<1>1. jobs[j] \in JobType /\ jobs[j].dest \notin fresh
  BY JobOf DEF Inv, NewIds
<1>2. Like([jobs[j] EXCEPT !.pc = v], jobs[j]) /\ [jobs[j] EXCEPT !.pc = v].pc = v
  BY <1>1, JobFields
<1> QED
  BY <1>1, <1>2 DEF Sound, Like

LEMMA ValidateKeeps ==
    ASSUME Inv, NEW j \in Begun, NEW i \in Item, Validate(j, i)
    PROVE  Inv'
<1> DEFINE r1 == [jobs[j] EXCEPT !.pc = "apply"]
           r2 == [r1 EXCEPT !.now = i]
<1>1. jobs[j] \in JobType /\ jobs[j].dest \notin fresh /\ "apply" \in Pc /\ TypeOK
  BY JobOf DEF Inv, NewIds, Pc
<1>2. r1 \in JobType /\ r1.dest = jobs[j].dest /\ r1.pc = "apply"
  BY <1>1, JobFields DEF Like
<1>3. r2 \in JobType /\ r2.dest = jobs[j].dest /\ r2.pc = "apply" /\ r2.now = i
  <2> HIDE DEF r1
  <2> QED
    BY <1>2, JobFields DEF Like
<1>4. OnlyStep(j, r2)
  BY DEF Validate
<1> HIDE DEF r2
<1>5. Sound(r2)
  BY <1>1, <1>3 DEF Sound, Validate
<1> QED
  BY <1>1, <1>4, <1>5, OnlyStepKeeps, FaultType DEF Validate

LEMMA TakeBranchKeeps ==
    ASSUME Inv, NEW j \in Begun, NEW i \in Item, TakeBranch(j, i)
    PROVE  Inv'
<1> DEFINE r1 == [jobs[j] EXCEPT !.pc = "delete"]
           r2 == [r1 EXCEPT !.now = i]
           r3 == [r2 EXCEPT !.rest = Descendants(jobs[j].before, i)]
<1>1. /\ jobs[j] \in JobType /\ jobs[j].dest \notin fresh /\ "delete" \in Pc /\ TypeOK
      /\ Descendants(jobs[j].before, i) \in SUBSET Item
  BY JobOf DEF Inv, NewIds, Pc, Kind, Descendants
<1>2. r1 \in JobType /\ r1.dest = jobs[j].dest /\ r1.pc = "delete"
  BY <1>1, JobFields DEF Like
<1>3. r2 \in JobType /\ r2.dest = jobs[j].dest /\ r2.pc = "delete"
  <2> HIDE DEF r1
  <2> QED
    BY <1>2, JobFields DEF Like
<1>4. r3 \in JobType /\ r3.dest = jobs[j].dest /\ r3.pc = "delete"
  <2> HIDE DEF r2
  <2> QED
    BY <1>1, <1>3, OtherJobFields DEF Like
<1>5. OnlyStep(j, r3)
  BY DEF TakeBranch
<1> HIDE DEF r3
<1>6. Sound(r3)
  BY <1>1, <1>4 DEF Sound
<1> QED
  BY <1>1, <1>5, <1>6, OnlyStepKeeps, FaultType DEF TakeBranch

LEMMA DeleteSkippedKeeps ==
    ASSUME Inv, NEW j \in Begun, NEW c \in Item, DeleteSkipped(j, c)
    PROVE  Inv'
<1>1. TypeOK /\ jobs[j].pc = "delete"
  BY DEF Inv, DeleteSkipped
<1>2. PagesStep /\ SpentOK' /\ adrift' \subseteq Item
  BY <1>1, SamePages, FaultType DEF DeleteSkipped, TypeOK
<1> QED
  BY <1>1, <1>2, BranchGoesOn, QuietJobStep DEF DeleteSkipped, SpentOK

LEMMA AwaitsRefreshKeeps ==
    ASSUME Inv, NEW j \in Begun, AwaitsRefresh(j)
    PROVE  Inv'
<1>1. TypeOK /\ Here(j) \in PageType /\ jobs[j].page \in Page
  BY HereType DEF Inv
<1>2. SpentOK' /\ TreeUnchanged
  BY <1>1, FaultType DEF AwaitsRefresh
<1>3. CASE Heard(j)
  <2> DEFINE n  == Here(j).request + 1
             r1 == [jobs[j] EXCEPT !.pc = "refresh"]
             r2 == [r1 EXCEPT !.awaited = n]
  <2>1. PagesStep
    BY <1>1, <1>3, RefreshesStep DEF AwaitsRefresh, Here
  <2>2. n \in Nat /\ "refresh" \in Pc /\ jobs[j] \in JobType /\ jobs[j].dest \notin fresh
    BY <1>1, JobOf DEF PageType, Pc, Inv, NewIds
  <2>3. r1 \in JobType /\ r1.dest = jobs[j].dest /\ r1.pc = "refresh"
    BY <2>2, JobFields DEF Like
  <2>4. r2 \in JobType /\ r2.dest = jobs[j].dest /\ r2.pc = "refresh"
    <3> HIDE DEF r1, n
    <3> QED
      BY <2>2, <2>3, OtherJobFields DEF Like
  <2>5. Step(j, r2)
    BY <1>3 DEF AwaitsRefresh
  <2> HIDE DEF r2
  <2>6. Sound(r2)
    BY <2>2, <2>4 DEF Sound
  <2> QED
    BY <1>1, <1>2, <2>1, <2>5, <2>6, QuietJobStep DEF TreeUnchanged, SpentOK, TypeOK
<1>4. CASE ~Heard(j)
  BY <1>1, <1>2, <1>4, SamePages, JobsGoOn, QuietJobStep DEF AwaitsRefresh, TreeUnchanged, SpentOK, TypeOK
<1> QED
  BY <1>3, <1>4

LEMMA GivesUpKeeps ==
    ASSUME Inv, NEW j \in Begun, NEW why \in Told, GivesUp(j, why), SpentOK'
    PROVE  Inv'
<1> DEFINE p1 == [Here(j) EXCEPT !.busy = FALSE]
           p2 == [p1 EXCEPT !.toast = TRUE]
<1>1. TypeOK /\ Here(j) \in PageType
  BY HereType DEF Inv
<1>2. p1 \in PageType /\ p1.shown = Here(j).shown
  BY <1>1, PageFields
<1>3. p2 \in PageType /\ p2.shown = Here(j).shown
  <2> HIDE DEF p1
  <2> QED
    BY <1>2, PageFields
<1>4. page' = OnPage(j, p2)
  BY DEF GivesUp
<1> HIDE DEF p2
<1>5. PagesStep
  BY <1>1, <1>3, <1>4, OnPageStep DEF GivesUp
<1> QED
  BY <1>1, <1>5, JobsGoOn, QuietJobStep DEF GivesUp, TreeUnchanged, SpentOK, TypeOK

LEMMA UploadedKeeps ==
    ASSUME Inv, NEW j \in Begun, Uploaded(j)
    PROVE  Inv'
<1> DEFINE pg == [Here(j) EXCEPT !.busy = FALSE]
<1>1. TypeOK /\ Here(j) \in PageType /\ jobs[j].page \in Page
  BY HereType DEF Inv
<1>2. pg \in PageType /\ pg.shown = page[jobs[j].page].shown
  BY <1>1, PageFields DEF Here
<1>3. IF Heard(j) THEN Refreshes(jobs[j].page, pg) ELSE UNCHANGED <<page, loads>>
  BY DEF Uploaded
<1> HIDE DEF pg
<1>4. PagesStep
  BY <1>1, <1>2, <1>3, RefreshesStep, SamePages
<1>5. SpentOK'
  BY <1>1, FaultType DEF Uploaded
<1> QED
  BY <1>1, <1>4, <1>5, JobsGoOn, QuietJobStep DEF Uploaded, TreeUnchanged, SpentOK, TypeOK

(* The user is asked whether to replace a document, and answers.            *)
LEMMA ConfirmKeeps ==
    ASSUME Inv, NEW j \in Begun, NEW v \in {"confirm", "replace"},
           jobs[j].at <= Len(jobs[j].files), UNCHANGED spent,
           OnlyStep(j, [jobs[j] EXCEPT !.pc = v])
    PROVE  Inv'
<1> DEFINE r == [jobs[j] EXCEPT !.pc = v]
<1>1. jobs[j] \in JobType /\ jobs[j].dest \notin fresh /\ v \in Pc /\ TypeOK
  BY JobOf DEF Inv, NewIds, Pc
<1>2. Like(r, jobs[j]) /\ r.pc = v /\ r.at = jobs[j].at
  BY <1>1, JobFields
<1>3. Sound(r)
  BY <1>1, <1>2 DEF Sound, Like
<1> QED
  BY <1>1, <1>3, OnlyStepKeeps, FaultType

LEMMA ReplaceSkippedKeeps ==
    ASSUME Inv, NEW j \in Begun, ReplaceSkipped(j)
    PROVE  Inv'
<1> DEFINE r1 == [jobs[j] EXCEPT !.pc = "upload"]
           r2 == [r1 EXCEPT !.at = 1]
           r3 == [r2 EXCEPT !.again = TRUE]
<1>1. jobs[j] \in JobType /\ jobs[j].dest \notin fresh /\ "upload" \in Pc /\ TypeOK
  BY JobOf DEF Inv, NewIds, Pc, Kind
<1>2. r1 \in JobType /\ r1.dest = jobs[j].dest /\ r1.pc = "upload"
  BY <1>1, JobFields DEF Like
<1>3. r2 \in JobType /\ r2.dest = jobs[j].dest /\ r2.pc = "upload"
  <2> HIDE DEF r1
  <2> QED
    BY <1>2, JobFields DEF Like
<1>4. r3 \in JobType /\ r3.dest = jobs[j].dest /\ r3.pc = "upload"
  <2> HIDE DEF r2
  <2> QED
    BY <1>3, OtherJobFields DEF Like
<1>5. OnlyStep(j, r3)
  BY DEF ReplaceSkipped
<1> HIDE DEF r3
<1>6. Sound(r3)
  BY <1>1, <1>4 DEF Sound
<1> QED
  BY <1>1, <1>5, <1>6, OnlyStepKeeps, FaultType DEF ReplaceSkipped

-----------------------------------------------------------------------------
(* Steps that change the tree.                                              *)

LEMMA PutTree ==
    ASSUME Inv, NEW i \in Item, NEW place \in Place, place \notin fresh, NEW j, Put(i, place, j)
    PROVE  /\ parent' = [parent EXCEPT ![i] = place] /\ parent' \in Tree
           /\ fresh' = fresh \ {i} /\ adrift' \subseteq Item
           /\ \A f \in fresh' : Unused(f)'
<1>1. parent \in Tree /\ fresh \subseteq Folder /\ adrift \subseteq Item
  BY DEF Inv, TypeOK
<1>2. parent' = [parent EXCEPT ![i] = place] /\ fresh' = fresh \ {i}
  BY DEF Put
<1>3. \A k \in Item : parent'[k] = IF k = i THEN place ELSE parent[k]
  BY <1>1, <1>2 DEF Tree
<1>4. \A f \in fresh' : Unused(f)'
  BY <1>1, <1>2, <1>3 DEF Inv, NewIds, Unused, Exists, Item
<1> QED
  BY <1>1, <1>2, <1>4 DEF Put, Tree

LEMMA RemoveTree ==
    ASSUME Inv, NEW i \in Item, NEW known, NEW j, Remove(i, known, j)
    PROVE  /\ parent' = [parent EXCEPT ![i] = Absent] /\ parent' \in Tree
           /\ fresh' = fresh /\ adrift' \subseteq Item
           /\ \A f \in fresh' : Unused(f)'
           /\ ~overlapped' => Acyclic(parent')
<1>1. parent \in Tree /\ fresh \subseteq Folder /\ adrift \subseteq Item
  BY DEF Inv, TypeOK
<1>2. parent' = [parent EXCEPT ![i] = Absent] /\ fresh' = fresh
  BY DEF Remove
<1>3. \A k \in Item : parent'[k] = IF k = i THEN Absent ELSE parent[k]
  BY <1>1, <1>2 DEF Tree
<1>4. \A f \in fresh' : Unused(f)'
  BY <1>1, <1>2, <1>3, ItemAssumption DEF Inv, NewIds, Unused, Exists, Item
<1>5. ~overlapped' => Acyclic(parent)
  BY DEF Remove, Overtakes, Inv, Validated
<1>6. ~overlapped' => Acyclic(parent')
  BY <1>1, <1>2, <1>5, FewerKeeps, ItemAssumption DEF Item
<1> QED
  BY <1>1, <1>2, <1>4, <1>6 DEF Remove, Tree

(* A job changes the tree and goes on as r.                                 *)
LEMMA ChangeByJob ==
    ASSUME Inv, PagesStep, NEW j \in Begun, NEW r \in JobType, Step(j, r),
           r.dest = jobs[j].dest, r.pc \notin {"create", "apply", "confirm", "replace"},
           Overtakes(j), adrift' \subseteq Item, SpentOK',
           parent' \in Tree, NEW i, fresh' = fresh \ {i},
           ~overlapped' => Acyclic(parent'),
           \A f \in fresh' : Unused(f)',
           \A k \in Begun \ {j} : jobs[k].pc = "create" => jobs[k].now # i
    PROVE  Inv'
<1>1. jobs \in Seq(JobType) /\ Begun = 1..Len(jobs) /\ Len(jobs) \in Nat
  BY DEF Inv, TypeOK, Begun
<1>2. /\ jobs' \in Seq(JobType) /\ Len(jobs') = Len(jobs)
      /\ \A k \in 1..Len(jobs) : jobs'[k] = IF k = j THEN r ELSE jobs[k]
  BY <1>1, ExceptSeq DEF Step
<1>3. DOMAIN jobs' = Begun /\ jobs'[j] = r /\ \A k \in Begun \ {j} : jobs'[k] = jobs[k]
  BY <1>1, <1>2
<1>4. jobs'[j].dest \notin fresh
  BY <1>3 DEF Inv, NewIds
<1>5. \A k \in Begun \ {j} : jobs[k].pc = "create" => jobs[k].now \in fresh'
  BY DEF Inv, Making
<1> QED
  BY <1>2, <1>3, <1>4, <1>5, ChangeStep DEF SpentOK

LEMMA NextPc ==
    ASSUME NEW job \in JobType, NEW i
    PROVE  /\ Succeeds(job, i) \in JobType /\ Fails(job, i) \in JobType
           /\ Succeeds(job, i).pc = "next" /\ Fails(job, i).pc = "next"
           /\ Succeeds(job, i).dest = job.dest /\ Fails(job, i).dest = job.dest
<1> DEFINE t == [job EXCEPT !.todo = @ \ {i}]
           r == [t EXCEPT !.rest = {}]
<1>1. t \in JobType /\ t.dest = job.dest
  <2>1. job.todo \ {i} \in SUBSET Item
    BY DEF JobType
  <2> QED
    BY <2>1, OtherJobFields DEF Like
<1>2. r \in JobType /\ r.dest = job.dest
  BY <1>1, OtherJobFields DEF Like
<1>3. /\ Succeeds(job, i) = [t EXCEPT !.pc = "next"]
      /\ Fails(job, i) = [r EXCEPT !.pc = "next"]
  BY DEF Succeeds, Fails
<1> HIDE DEF t, r
<1>4. "next" \in Pc
  BY DEF Pc
<1> QED
  BY <1>1, <1>2, <1>3, <1>4, JobFields DEF Like

LEMMA MoveKeeps ==
    ASSUME Inv, NEW j \in Begun, NEW answered \in BOOLEAN, Move(j, answered)
    PROVE  Inv'
<1> DEFINE job == jobs[j]
           i   == job.now
           r   == IF answered THEN Succeeds(job, i) ELSE Fails(job, i)
<1>1. /\ TypeOK /\ job \in JobType /\ job.dest \notin fresh
      /\ job.pc = "apply" /\ i \in Item /\ Exists(parent, i)
  BY JobOf DEF Inv, NewIds, Move, TypeOK
<1>2. job.dest \in Folder \cup {Root} /\ job.dest \in Place
  BY <1>1 DEF JobType, Place
<1>3. Put(i, job.dest, j) /\ Overtakes(j) /\ Behind(j) /\ Step(j, r) /\ SpentOK'
  BY <1>1, FaultType DEF Move, Put
<1>4. ~overlapped' => Acyclic(parent) /\ ValidateMove(parent, i, job.dest)
  BY <1>1, <1>3 DEF Overtakes, Inv, Validated, Moving
<1>5. PagesStep
  BY <1>1, <1>3, BehindStep
<1>6. r \in JobType /\ r.dest = job.dest /\ r.pc = "next"
  BY <1>1, NextPc
<1> HIDE DEF r
<1>7. ~overlapped' => Acyclic(parent')
  <2>1. parent' = [parent EXCEPT ![i] = job.dest] /\ parent \in Tree
    BY <1>1, <1>3 DEF Put, TypeOK
  <2> HIDE DEF job, i
  <2> QED
    BY <1>1, <1>2, <1>4, <2>1, ValidMoveKeeps
<1>8. \A k \in Begun \ {j} : jobs[k].pc = "create" => jobs[k].now # i
  BY <1>1 DEF Inv, Making, NewIds, Unused
<1> QED
  BY <1>1, <1>2, <1>3, <1>5, <1>6, <1>7, <1>8, PutTree, ChangeByJob

LEMMA DeleteKeeps ==
    ASSUME Inv, NEW j \in Begun, NEW c \in Item, NEW answered \in BOOLEAN,
           Delete(j, c, answered)
    PROVE  Inv'
<1> DEFINE job == jobs[j]
           r   == IF answered THEN GoesOn(job, c) ELSE EndsBranch(job, c)
<1>1. TypeOK /\ job \in JobType /\ job.pc = "delete" /\ Exists(parent, c)
  BY JobOf DEF Inv, Delete
<1>2. /\ Remove(c, Descendants(job.before, c), j)
      /\ Overtakes(j) /\ Behind(j) /\ Step(j, r) /\ SpentOK'
  BY <1>1, FaultType DEF Delete, Remove
<1>3. PagesStep
  BY <1>1, <1>2, BehindStep
<1>4. r \in JobType /\ r.dest = job.dest /\ r.pc \in {"next", "delete"}
  <2> DEFINE s == [job EXCEPT !.rest = @ \ {c}]
             e == [job EXCEPT !.rest = {}]
  <2>1. job.rest \ {c} \in SUBSET Item
    BY <1>1 DEF JobType
  <2>2. s \in JobType /\ s.dest = job.dest /\ s.pc = job.pc
    BY <1>1, <2>1, OtherJobFields DEF Like
  <2>3. e \in JobType /\ e.dest = job.dest
    BY <1>1, OtherJobFields DEF Like
  <2>4. r \in {s, Succeeds(e, job.now), Fails(job, job.now)}
    BY DEF GoesOn, EndsBranch
  <2> HIDE DEF s, e, r
  <2> QED
    BY <1>1, <2>2, <2>3, <2>4, NextPc
<1> HIDE DEF r
<1>5. \A k \in Begun \ {j} : jobs[k].pc = "create" => jobs[k].now # c
  BY <1>1 DEF Inv, Making, NewIds, Unused
<1>6. c \notin fresh
  BY <1>1 DEF Inv, NewIds, Unused
<1>7. /\ parent' \in Tree /\ fresh' = fresh \ {c} /\ adrift' \subseteq Item
      /\ \A f \in fresh' : Unused(f)'
      /\ ~overlapped' => Acyclic(parent')
  BY <1>2, <1>6, RemoveTree
<1> QED
  BY <1>2, <1>3, <1>4, <1>5, <1>7, ChangeByJob

LEMMA MakeFolderKeeps ==
    ASSUME Inv, NEW j \in Begun, MakeFolder(j)
    PROVE  Inv'
<1> DEFINE job == jobs[j]
           f   == job.now
           r   == [job EXCEPT !.pc = "created"]
<1>1. TypeOK /\ job \in JobType /\ job.dest \notin fresh /\ job.pc = "create" /\ "created" \in Pc
  BY JobOf DEF Inv, NewIds, MakeFolder, Pc
<1>2. f \in fresh /\ f \in Folder /\ f \in Item /\ Unused(f)
  BY <1>1 DEF Inv, Making, NewIds, TypeOK, Item
<1>3. \A k \in Begun \ {j} : jobs[k].pc = "create" => jobs[k].now # f
  BY <1>1 DEF Inv, Making, Makes
<1>4. job.dest \in Place
  BY <1>1 DEF JobType, Place
<1>5. Put(f, job.dest, j) /\ Overtakes(j) /\ Behind(j) /\ Step(j, r) /\ SpentOK'
  BY <1>1, FaultType DEF MakeFolder, Put
<1>6. PagesStep
  BY <1>1, <1>5, BehindStep
<1>7. r \in JobType /\ r.dest = job.dest /\ r.pc = "created"
  BY <1>1, JobFields DEF Like
<1> HIDE DEF r
<1>8. ~overlapped' => Acyclic(parent)
  BY <1>5 DEF Overtakes, Inv, Validated
<1>9. ~overlapped' => Acyclic(parent')
  <2>1. parent' = [parent EXCEPT ![f] = job.dest] /\ parent \in Tree
    BY <1>5, <1>1 DEF Put, TypeOK
  <2>2. job.dest # f /\ \A g \in Folder : parent[g] # f
    BY <1>1, <1>2 DEF Unused
  <2> HIDE DEF job, f
  <2> QED
    BY <1>2, <1>8, <2>1, <2>2, MakingKeeps
<1>10. /\ parent' \in Tree /\ fresh' = fresh \ {f} /\ adrift' \subseteq Item
       /\ \A g \in fresh' : Unused(g)'
  BY <1>1, <1>2, <1>4, <1>5, PutTree
<1>11. r.dest = jobs[j].dest /\ r.pc \notin {"create", "apply", "confirm", "replace"}
  BY <1>7
<1> HIDE DEF job, f
<1> QED
  BY <1>3, <1>5, <1>6, <1>7, <1>9, <1>10, <1>11, ChangeByJob

(* The file that an upload is at is one of its files.                       *)
LEMMA FileType ==
    ASSUME NEW job \in JobType, job.at <= Len(job.files)
    PROVE  File(job) \in Doc
BY DEF JobType, File

LEMMA StoreFileKeeps ==
    ASSUME Inv, NEW j \in Begun, StoreFile(j)
    PROVE  Inv'
<1> DEFINE job == jobs[j]
           d   == File(job)
           r1  == [job EXCEPT !.at = @ + 1]
           r2  == [r1 EXCEPT !.lost = @ \ {d}]
<1>1. TypeOK /\ job \in JobType /\ job.dest \notin fresh /\ job.pc = "upload"
  BY JobOf DEF Inv, NewIds, StoreFile
<1>2. d \in Doc /\ d \in Item /\ d \notin Folder
  BY <1>1, FileType, ItemAssumption DEF StoreFile, Item
<1>3. job.dest \in Place
  BY <1>1 DEF JobType, Place
<1>4. Put(d, job.dest, j) /\ Overtakes(j) /\ Behind(j) /\ SpentOK'
  BY <1>1, FaultType DEF StoreFile, Put
<1>5. PagesStep
  BY <1>1, <1>4, BehindStep
<1>6. r1 \in JobType /\ r1.dest = job.dest /\ r1.pc = "upload" /\ r1.lost = job.lost
  <2>1. job.at + 1 \in Nat \ {0}
    BY <1>1 DEF JobType
  <2> QED
    BY <1>1, <2>1, JobFields DEF Like, JobType
<1>7. Step(j, r2)
  BY <1>1, <1>6 DEF StoreFile
<1>8. r2 \in JobType /\ r2.dest = job.dest /\ r2.pc = "upload"
  <2>1. r1.lost \ {d} \in SUBSET Doc
    BY <1>1, <1>6 DEF JobType
  <2> HIDE DEF r1
  <2> QED
    BY <1>6, <2>1, OtherJobFields DEF Like
<1> HIDE DEF r2
<1>9. ~overlapped' => Acyclic(parent')
  <2>1. parent' = [parent EXCEPT ![d] = job.dest] /\ parent \in Tree
    BY <1>4, <1>1 DEF Put, TypeOK
  <2>2. ~overlapped' => Acyclic(parent)
    BY <1>4 DEF Overtakes, Inv, Validated
  <2> HIDE DEF d, job
  <2> QED
    BY <1>2, <2>1, <2>2, FewerKeeps
<1>10. \A k \in Begun \ {j} : jobs[k].pc = "create" => jobs[k].now # d
  BY <1>1, <1>2 DEF Inv, Making, TypeOK
<1> QED
  BY <1>1, <1>2, <1>3, <1>4, <1>5, <1>7, <1>8, <1>9, <1>10, PutTree, ChangeByJob

LEMMA ReplaceKeeps ==
    ASSUME Inv, NEW j \in Begun, Replace(j)
    PROVE  Inv'
<1> DEFINE job == jobs[j]
           d   == File(job)
           r1  == [job EXCEPT !.pc = "upload"]
           r2  == [r1 EXCEPT !.at = 1]
           r3  == [r2 EXCEPT !.again = TRUE]
           r4  == [r3 EXCEPT !.lost = job.lost \cup {d}]
<1>1. TypeOK /\ job \in JobType /\ job.pc = "replace" /\ job.at <= Len(job.files)
  BY JobOf DEF Inv, Replace, TypeOK
<1>2. d \in Doc /\ d \in Item /\ Exists(parent, d)
  BY <1>1, FileType DEF Replace, Item
<1>3. Remove(d, {}, j) /\ Overtakes(j) /\ Behind(j) /\ SpentOK'
  BY <1>1, FaultType DEF Replace, Remove
<1>4. PagesStep
  BY <1>1, <1>3, BehindStep
<1>5. r1 \in JobType /\ r1.dest = job.dest /\ r1.pc = "upload"
  <2>1. "upload" \in Pc
    BY DEF Pc, Kind
  <2> QED
    BY <1>1, <2>1, JobFields DEF Like
<1>6. r2 \in JobType /\ r2.dest = job.dest /\ r2.pc = "upload"
  <2> HIDE DEF r1
  <2> QED
    BY <1>5, JobFields DEF Like
<1>7. r3 \in JobType /\ r3.dest = job.dest /\ r3.pc = "upload"
  <2> HIDE DEF r2
  <2> QED
    BY <1>6, OtherJobFields DEF Like
<1>8. Step(j, r4)
  BY <1>1 DEF Replace
<1>9. r4 \in JobType /\ r4.dest = job.dest /\ r4.pc = "upload"
  <2>1. job.lost \cup {d} \in SUBSET Doc
    BY <1>1, <1>2 DEF JobType
  <2> HIDE DEF r3
  <2> QED
    BY <1>7, <2>1, OtherJobFields DEF Like
<1> HIDE DEF r4
<1>10. d \notin fresh
  BY <1>2 DEF Inv, NewIds, Unused
<1>11. \A k \in Begun \ {j} : jobs[k].pc = "create" => jobs[k].now # d
  BY <1>10 DEF Inv, Making
<1>12. /\ parent' \in Tree /\ fresh' = fresh \ {d} /\ adrift' \subseteq Item
       /\ \A f \in fresh' : Unused(f)'
       /\ ~overlapped' => Acyclic(parent')
  BY <1>2, <1>3, <1>10, RemoveTree
<1> QED
  BY <1>3, <1>4, <1>8, <1>9, <1>11, <1>12, ChangeByJob

LEMMA EditKeeps ==
    ASSUME Inv, NEW i \in Item, NEW place \in Place, Edit(i, place)
    PROVE  Inv'
<1>1. TypeOK /\ parent \in Tree /\ Exists(parent, i) /\ i \notin fresh
  BY DEF Inv, TypeOK, Edit, NewIds, Unused
<1>2. place \notin fresh
  BY DEF Edit, Inv, NewIds, Unused, TypeOK
<1>3. Put(i, place, 0) /\ Overtakes(0) /\ UNCHANGED jobs /\ SpentOK'
  BY <1>1 DEF Edit, Put, TypeOK, SpentOK
<1>4. PagesStep
  BY <1>1, SamePages DEF Edit
<1>5. /\ parent' = [parent EXCEPT ![i] = place] /\ parent' \in Tree
      /\ fresh' = fresh /\ adrift' \subseteq Item
      /\ \A f \in fresh' : Unused(f)'
  <2>1. /\ parent' = [parent EXCEPT ![i] = place] /\ parent' \in Tree
        /\ fresh' = fresh \ {i} /\ adrift' \subseteq Item
        /\ \A f \in fresh' : Unused(f)'
    BY <1>2, <1>3, PutTree
  <2> QED
    BY <1>1, <2>1
<1>6. ~overlapped' => Acyclic(parent)
  BY <1>3 DEF Overtakes, Inv, Validated
<1>7. ~overlapped' => Acyclic(parent')
  BY <1>1, <1>5, <1>6, PutAbove DEF Edit
<1>8. 0 \notin Begun /\ jobs' \in Seq(JobType) /\ DOMAIN jobs' = Begun
  BY <1>1, <1>3 DEF TypeOK, Begun
<1>9. \A k \in Begun : jobs[k].pc = "create" => jobs[k].now \in fresh'
  BY <1>5 DEF Inv, Making
<1> QED
  BY <1>3, <1>4, <1>5, <1>7, <1>8, <1>9, ChangeStep DEF SpentOK

-----------------------------------------------------------------------------
(* Every step keeps the invariant.                                          *)

LEMMA RunStepKeeps ==
    ASSUME Inv, NEW j \in Begun, RunStep(j)
    PROVE  Inv'
<1>0. TypeOK
  BY DEF Inv
<1>1. ASSUME NEW i \in Item, Validate(j, i) \/ TakeBranch(j, i) PROVE Inv'
  BY <1>1, ValidateKeeps, TakeBranchKeeps
<1>2. ASSUME NEW i \in Item, Refuse(j, i) PROVE Inv'
  BY <1>0, <1>2, FaultType, JobsGoOn, OnlyStepKeeps DEF Refuse
<1>3. ASSUME NEW answered \in BOOLEAN, Move(j, answered) PROVE Inv'
  BY <1>3, MoveKeeps
<1>4. CASE MoveFails(j)
  BY <1>0, <1>4, FaultType, JobsGoOn, OnlyStepKeeps DEF MoveFails
<1>5. CASE MoveSkipped(j)
  BY <1>0, <1>5, FaultType, JobsGoOn, OnlyStepKeeps DEF MoveSkipped
<1>6. ASSUME NEW c \in Item, NEW answered \in BOOLEAN, Delete(j, c, answered) PROVE Inv'
  BY <1>6, DeleteKeeps
<1>7. ASSUME NEW c \in Item, DeleteFails(j, c) PROVE Inv'
  BY <1>0, <1>7, FaultType, BranchGoesOn, OnlyStepKeeps DEF DeleteFails
<1>8. ASSUME NEW c \in Item, DeleteSkipped(j, c) PROVE Inv'
  BY <1>8, DeleteSkippedKeeps
<1>9. CASE EndRun(j)
  BY <1>9, AwaitsRefreshKeeps DEF EndRun
<1> QED
  BY <1>1, <1>2, <1>3, <1>4, <1>5, <1>6, <1>7, <1>8, <1>9 DEF RunStep

LEMMA MakeStepKeeps ==
    ASSUME Inv, NEW j \in Begun, MakeStep(j)
    PROVE  Inv'
<1>0. TypeOK /\ "failed" \in Told /\ "conflict" \in Told
  BY DEF Inv, Told
<1>1. CASE MakeFolder(j)
  BY <1>1, MakeFolderKeeps
<1>2. CASE FolderMade(j)
  BY <1>2, AwaitsRefreshKeeps DEF FolderMade
<1>3. CASE MakingFails(j)
  BY <1>0, <1>3, FaultType, GivesUpKeeps DEF MakingFails
<1>4. CASE StoreFile(j)
  BY <1>4, StoreFileKeeps
<1>5. CASE Conflict(j)
  BY <1>5, ConfirmKeeps DEF Conflict, Conflicts
<1>6. CASE ConflictAgain(j)
  BY <1>0, <1>6, FaultType, GivesUpKeeps DEF ConflictAgain
<1>7. CASE UploadEnds(j)
  BY <1>7, UploadedKeeps DEF UploadEnds
<1>8. CASE Replace(j)
  BY <1>8, ReplaceKeeps
<1>9. CASE ReplaceFails(j)
  BY <1>0, <1>9, FaultType, GivesUpKeeps DEF ReplaceFails
<1>10. CASE ReplaceSkipped(j)
  BY <1>10, ReplaceSkippedKeeps
<1> QED
  BY <1>1, <1>2, <1>3, <1>4, <1>5, <1>6, <1>7, <1>8, <1>9, <1>10 DEF MakeStep

LEMMA AnswerKeeps ==
    ASSUME Inv, Answer
    PROVE  Inv'
<1>1. PICK j \in Begun : Decline(j) \/ Accept(j)
  BY DEF Answer
<1>2. CASE Decline(j)
  BY <1>2, UploadedKeeps DEF Decline
<1>3. CASE Accept(j)
  <2>1. jobs[j].at <= Len(jobs[j].files)
    BY <1>3 DEF Accept, Inv, TypeOK
  <2> QED
    BY <1>3, <2>1, ConfirmKeeps DEF Accept
<1> QED
  BY <1>1, <1>2, <1>3

LEMMA InitInv ==
    ASSUME Init
    PROVE  Inv
<1>1. parent \in Tree /\ Acyclic(parent)
  BY TreesAssumption DEF Init
<1>2. \A f \in fresh : Unused(f)
  BY TreesAssumption DEF Init, Unused, Item
<1>3. Opened(0, 1) \in PageType /\ Opened(0, 1).shown = Nothing
  BY NothingType DEF Opened, PageType
<1>4. \A p \in Page : Load(p, 1) \in LoadType /\ Load(p, 1).list = Nothing
  BY NothingType DEF Load, LoadType
<1>5. TypeOK
  <2>1. page \in [Page -> PageType] /\ loads \subseteq LoadType
    BY <1>3, <1>4 DEF Init
  <2>2. jobs \in Seq(JobType) /\ Begun = {}
    BY DEF Init, Begun
  <2>3. spent \in [mounts : Nat, edits : Nat, faults : Nat]
    BY DEF Init
  <2> QED
    BY <1>1, <2>1, <2>2, <2>3 DEF Init, TypeOK
<1>6. \A f \in fresh : Unseen(f)
  BY <1>3, <1>4, NothingType DEF Init, Unseen, Item
<1>7. Begun = {}
  BY DEF Init, Begun
<1> QED
  BY <1>1, <1>2, <1>5, <1>6, <1>7 DEF Init, Inv, NewIds, Making, Validated, Moving

LEMMA NextKeeps ==
    ASSUME Inv, [Next]_vars
    PROVE  Inv'
<1>1. ASSUME NEW p \in Page, User(p) PROVE Inv'
  BY <1>1, UserKeeps
<1>2. CASE Answer
  BY <1>2, AnswerKeeps
<1>3. CASE Tablet
  BY <1>3, InputAssumption, EditKeeps DEF Tablet
<1>4. CASE LoadStep
  BY <1>4, ServeLoadKeeps, DeliverKeeps, LoadFailsKeeps DEF LoadStep
<1>5. ASSUME NEW j \in JobId, JobStep(j) PROVE Inv'
  BY <1>5, RunStepKeeps, MakeStepKeeps DEF JobStep
<1>6. CASE UNCHANGED vars
  BY <1>6 DEF vars, Inv, TypeOK, NewIds, Unused, Unseen, Making, Makes, Validated, Moving, Begun
<1> QED
  BY <1>1, <1>2, <1>3, <1>4, <1>5, <1>6 DEF Next

(* The library keeps its types, no ID of a folder that is still to be made  *)
(* is used, and as long as nothing came between a validation and its move   *)
(* no folder is in itself and every move that was validated still may be.   *)
THEOREM Invariant == Spec => []Inv
<1>1. Init => Inv
  BY InitInv
<1>2. Inv /\ [Next]_vars => Inv'
  BY NextKeeps
<1> QED
  BY <1>1, <1>2, PTL DEF Spec

(* Every page that is opened, whoever else edits the tree, finds all that   *)
(* exists, unless a change came between the two steps of a move.            *)
THEOREM TreeStaysWhole == Spec => []TreeIsWhole
<1>1. Inv => TreeIsWhole
  BY WholeIsListed DEF Inv, TypeOK, Validated, TreeIsWhole
<1> QED
  BY <1>1, Invariant, PTL

-----------------------------------------------------------------------------
(* The pages and their jobs.                                                *)

Newest(l) == l.n = page[l.page].request

(* The jobs that the page that began them still hears of.                   *)
Active(p) == {j \in Begun : jobs[j].page = p /\ Heard(j) /\ jobs[j].pc # "over"}

(* Those that have something to do before they ask for a listing.           *)
AtWork(p) == {j \in Active(p) : jobs[j].pc # "refresh"}

OneJob(p) ==
    /\ \A j, k \in Active(p) : j = k
    /\ Active(p) # {} => page[p].busy
    /\ \A j \in Active(p) : jobs[j].pc = "refresh" =>
          /\ jobs[j].awaited = page[p].request
          /\ page[p].loading
          /\ \A l \in loads : l.page = p /\ Newest(l) => ~l.behind

Mounts == \A j \in Begun : jobs[j].mount <= page[jobs[j].page].mount

Numbered ==
    /\ \A l \in loads : l.n <= page[l.page].request
    /\ \A l, m \in loads : l.page = m.page /\ l.n = m.n => l = m

(* What a page shows is no older than its own last change, unless it will   *)
(* ask for another listing or says that something is wrong.                 *)
KeptUp(p) ==
    /\ page[p].behind => \/ page[p].loading \/ page[p].error \/ page[p].toast
                         \/ AtWork(p) # {}
    /\ \A l \in loads : l.page = p /\ Newest(l) =>
          /\ page[p].loading
          /\ l.behind => page[p].toast \/ AtWork(p) # {}

PagesInv == Mounts /\ Numbered /\ \A p \in Page : OneJob(p) /\ KeptUp(p)

(* What the operators of the jobs leave alone.                              *)

LEMMA OverFields ==
    ASSUME NEW job \in JobType
    PROVE  /\ Over(job).page = job.page /\ Over(job).pc = "over"
           /\ Over(job).mount = 0 /\ Over(job).lost = job.lost
           /\ Over(job).before = Nothing
BY DEF Over, Job, JobType

LEMMA OverToldFields ==
    ASSUME NEW job \in JobType, NEW why
    PROVE  /\ [Over(job) EXCEPT !.told = why].page = job.page
           /\ [Over(job) EXCEPT !.told = why].pc = "over"
           /\ [Over(job) EXCEPT !.told = why].mount = 0
           /\ [Over(job) EXCEPT !.told = why].told = why
           /\ [Over(job) EXCEPT !.told = why].before = Nothing
BY DEF Over, Job, JobType

LEMMA RunFields ==
    ASSUME NEW job \in JobType, NEW i
    PROVE  /\ Succeeds(job, i).page = job.page /\ Succeeds(job, i).mount = job.mount
           /\ Succeeds(job, i).lost = job.lost /\ Succeeds(job, i).before = job.before
           /\ Succeeds(job, i).pc = "next"
           /\ Fails(job, i).page = job.page /\ Fails(job, i).mount = job.mount
           /\ Fails(job, i).lost = job.lost /\ Fails(job, i).before = job.before
           /\ Fails(job, i).pc = "next"
BY DEF Succeeds, Fails, JobType

LEMMA ThreeFields ==
    ASSUME NEW job \in JobType, NEW v, NEW w, NEW S
    PROVE  LET r == [job EXCEPT !.pc = v, !.now = w, !.rest = S] IN
           /\ r.page = job.page /\ r.mount = job.mount /\ r.lost = job.lost
           /\ r.before = job.before /\ r.pc = v /\ r.now = w /\ r.rest = S
BY DEF JobType

LEMMA JobGoes ==
    ASSUME TypeOK, NEW j \in Begun, NEW r, Step(j, r)
    PROVE  /\ DOMAIN jobs' = Begun /\ jobs'[j] = r
           /\ \A k \in Begun \ {j} : jobs'[k] = jobs[k]
BY DEF Step, Begun, TypeOK

(* A job goes on that is at work, or one is over of which its page no       *)
(* longer hears.                                                            *)
Alike(k) ==
    \/ jobs'[k] = jobs[k]
    \/ /\ jobs'[k].page = jobs[k].page /\ jobs'[k].mount = jobs[k].mount
       /\ jobs[k].pc \notin {"over", "refresh"} /\ jobs'[k].pc \notin {"over", "refresh"}
    \/ /\ jobs'[k].page = jobs[k].page /\ jobs'[k].mount = 0
       /\ jobs'[k].pc = "over" /\ ~Heard(k)

LEMMA ActiveStays ==
    ASSUME TypeOK, Mounts, DOMAIN jobs' = Begun, \A k \in Begun : Alike(k),
           \A p \in Page : page'[p].mount = page[p].mount
    PROVE  /\ Mounts'
           /\ \A p \in Page : /\ Active(p)' = Active(p) /\ AtWork(p)' = AtWork(p)
                              /\ \A k \in Active(p) : jobs'[k].pc = "refresh" =>
                                    jobs[k].pc = "refresh" /\ jobs'[k].awaited = jobs[k].awaited
<1>1. ASSUME NEW k \in Begun
      PROVE  /\ jobs[k].page \in Page /\ jobs'[k].page = jobs[k].page
             /\ page'[jobs[k].page].mount = page[jobs[k].page].mount
             /\ page[jobs[k].page].mount \in Nat
             /\ jobs'[k].mount <= page'[jobs[k].page].mount
  <2>1. jobs[k].page \in Page /\ page[jobs[k].page] \in PageType
    BY HereType DEF Here
  <2>2. page[jobs[k].page].mount \in Nat /\ jobs[k].mount <= page[jobs[k].page].mount
    BY <2>1 DEF PageType, Mounts
  <2> QED
    BY <2>1, <2>2 DEF Alike
<1>2. Mounts'
  BY <1>1 DEF Mounts, Begun
<1>3. ASSUME NEW p \in Page, NEW k \in Begun
      PROVE  /\ k \in Active(p)' <=> k \in Active(p)
             /\ k \in Active(p) => (jobs'[k].pc = "refresh" <=> jobs[k].pc = "refresh")
             /\ k \in Active(p) /\ jobs[k].pc = "refresh" => jobs'[k].awaited = jobs[k].awaited
  BY <1>1 DEF Alike, Active, Heard, Begun
<1>4. ASSUME NEW p \in Page
      PROVE  Active(p)' = Active(p) /\ AtWork(p)' = AtWork(p)
  <2>1. Active(p)' \subseteq Begun /\ Active(p) \subseteq Begun
    BY DEF Active, Begun
  <2>2. Active(p)' = Active(p)
    BY <1>3, <2>1
  <2> QED
    BY <1>3, <2>1, <2>2 DEF AtWork
<1> QED
  BY <1>2, <1>3, <1>4 DEF Active

(* Nothing that matters here changes.                                       *)
LEMMA PagesStay ==
    ASSUME TypeOK, PagesInv, UNCHANGED <<page, loads>>,
           DOMAIN jobs' = Begun, \A k \in Begun : Alike(k)
    PROVE  PagesInv'
<1>1. /\ Mounts'
      /\ \A p \in Page : /\ Active(p)' = Active(p) /\ AtWork(p)' = AtWork(p)
                         /\ \A k \in Active(p) : jobs'[k].pc = "refresh" =>
                               jobs[k].pc = "refresh" /\ jobs'[k].awaited = jobs[k].awaited
  BY ActiveStays DEF PagesInv
<1>2. Numbered'
  BY DEF PagesInv, Numbered
<1>3. ASSUME NEW p \in Page PROVE OneJob(p)' /\ KeptUp(p)'
  BY <1>1 DEF PagesInv, OneJob, KeptUp, Newest
<1> QED
  BY <1>1, <1>2, <1>3 DEF PagesInv

(* A page has changed the tree, and what it was shown is behind.            *)
LEMMA BehindKeepsPages ==
    ASSUME TypeOK, PagesInv, NEW j \in Begun, Behind(j),
           jobs[j].pc \notin {"over", "refresh"},
           DOMAIN jobs' = Begun, \A k \in Begun : Alike(k)
    PROVE  PagesInv'
<1> DEFINE q  == jobs[j].page
           Mark(l) == IF Heard(j) /\ l.page = q /\ l.read THEN [l EXCEPT !.behind = TRUE] ELSE l
<1>1. q \in Page /\ Here(j) \in PageType /\ page \in [Page -> PageType]
  BY HereType DEF TypeOK
<1>2. \A p \in Page :
         /\ page'[p].mount = page[p].mount /\ page'[p].request = page[p].request
         /\ page'[p].loading = page[p].loading /\ page'[p].error = page[p].error
         /\ page'[p].toast = page[p].toast /\ page'[p].busy = page[p].busy
         /\ page'[p].behind = page[p].behind \/ (p = q /\ Heard(j))
  <2>1. CASE Heard(j)
    <3>1. page' = [page EXCEPT ![q] = [Here(j) EXCEPT !.behind = TRUE]]
      BY <2>1 DEF Behind, OnPage
    <3> QED
      BY <1>1, <2>1, <3>1 DEF Here, PageType
  <2>2. CASE ~Heard(j)
    BY <2>2 DEF Behind, OnPage
  <2> QED
    BY <2>1, <2>2
<1>3. loads' = {Mark(l) : l \in loads}
  BY DEF Behind
<1>4. \A l \in loads : /\ Mark(l).page = l.page /\ Mark(l).n = l.n
                       /\ Mark(l).behind => l.behind \/ (l.page = q /\ Heard(j))
  BY DEF TypeOK, LoadType
<1> HIDE DEF Mark
<1>5. /\ Mounts'
      /\ \A p \in Page : /\ Active(p)' = Active(p) /\ AtWork(p)' = AtWork(p)
                         /\ \A k \in Active(p) : jobs'[k].pc = "refresh" =>
                               jobs[k].pc = "refresh" /\ jobs'[k].awaited = jobs[k].awaited
  BY <1>2, ActiveStays DEF PagesInv
<1>6. Heard(j) => j \in AtWork(q)
  BY DEF AtWork, Active
<1>7. Numbered'
  <2>1. \A l \in loads : l.page \in Page
    BY DEF TypeOK, LoadType
  <2>2. ASSUME NEW m \in loads' PROVE m.n <= page'[m.page].request
    BY <1>2, <1>3, <1>4, <2>1 DEF PagesInv, Numbered
  <2>3. ASSUME NEW m1 \in loads', NEW m2 \in loads', m1.page = m2.page, m1.n = m2.n
        PROVE  m1 = m2
    <3>1. PICK l1 \in loads : m1 = Mark(l1)
      BY <1>3
    <3>2. PICK l2 \in loads : m2 = Mark(l2)
      BY <1>3
    <3>3. l1 = l2
      BY <3>1, <3>2, <2>3, <1>4 DEF PagesInv, Numbered
    <3> QED
      BY <3>1, <3>2, <3>3
  <2> QED
    BY <2>2, <2>3 DEF Numbered
<1>8. ASSUME NEW p \in Page PROVE OneJob(p)'
  <2>0. OneJob(p)
    BY DEF PagesInv
  <2>1. ASSUME NEW k \in Active(p), jobs[k].pc = "refresh",
               NEW m \in loads', m.page = p, m.n = page[p].request
        PROVE  ~m.behind
    <3>1. PICK l \in loads : m = Mark(l)
      BY <1>3
    <3>2. l.page = p /\ Newest(l) /\ ~l.behind
      BY <2>0, <2>1, <3>1, <1>4 DEF OneJob, Newest
    <3>3. ~(p = q /\ Heard(j))
      BY <2>0, <2>1, <1>6 DEF OneJob, AtWork
    <3> QED
      BY <3>1, <3>2, <3>3, <1>4
  <2> QED
    BY <1>2, <1>5, <2>0, <2>1 DEF OneJob, Newest
<1>9. ASSUME NEW p \in Page PROVE KeptUp(p)'
  <2>0. KeptUp(p)
    BY DEF PagesInv
  <2>1. ASSUME NEW m \in loads', m.page = p, m.n = page[p].request
        PROVE  /\ page[p].loading
               /\ m.behind => page[p].toast \/ AtWork(p) # {}
    <3>1. PICK l \in loads : m = Mark(l)
      BY <1>3
    <3>2. l.page = p /\ Newest(l)
      BY <2>1, <3>1, <1>4 DEF Newest
    <3> QED
      BY <2>0, <3>1, <3>2, <1>4, <1>6 DEF KeptUp
  <2> QED
    BY <1>2, <1>5, <1>6, <2>0, <2>1 DEF KeptUp, Newest
<1> QED
  BY <1>5, <1>7, <1>8, <1>9 DEF PagesInv

(* What happens on another page.                                            *)
LEMMA ElsewhereStays ==
    ASSUME PagesInv, NEW q \in Page, page'[q] = page[q],
           Begun \subseteq DOMAIN jobs',
           \A k \in DOMAIN jobs' : \/ k \in Begun /\ jobs'[k] = jobs[k]
                                   \/ jobs'[k].page # q /\ (k \in Begun => jobs[k].page # q),
           \A l \in loads \cup loads' : l.page = q => (l \in loads' <=> l \in loads)
    PROVE  OneJob(q)' /\ KeptUp(q)'
<1>1. Active(q)' = Active(q) /\ \A k \in Active(q) : jobs'[k] = jobs[k]
  BY DEF Active, Heard, Begun
<1>2. AtWork(q)' = AtWork(q)
  BY <1>1 DEF AtWork
<1>3. OneJob(q) /\ KeptUp(q)
  BY DEF PagesInv
<1>4. OneJob(q)'
  BY <1>1, <1>3 DEF OneJob, Newest
<1>5. KeptUp(q)'
  BY <1>2, <1>3 DEF KeptUp, Newest
<1> QED
  BY <1>4, <1>5

(* Page p asks for a listing.  No listing that it has asked for before will *)
(* be shown.                                                                *)
LEMMA AsksKeepsPages ==
    ASSUME TypeOK, PagesInv, NEW p \in Page, NEW pg \in PageType,
           pg.mount = page[p].mount, pg.request = page[p].request,
           Refreshes(p, pg),
           DOMAIN jobs' = Begun,
           \A k \in Begun : jobs'[k] = jobs[k] \/ (jobs[k].page = p /\ jobs'[k].page = p),
           Mounts',
           \A j, k \in Active(p)' : j = k,
           Active(p)' # {} => pg.busy,
           \A j \in Active(p)' : jobs'[j].pc = "refresh" =>
                                    jobs'[j].awaited = page[p].request + 1
    PROVE  PagesInv'
<1> DEFINE n   == page[p].request + 1
           new == Load(p, n)
<1>1. page[p].request \in Nat /\ page \in [Page -> PageType]
  BY DEF TypeOK, PageType
<1>2. page' = [page EXCEPT ![p] = [pg EXCEPT !.request = n, !.loading = TRUE, !.toast = FALSE]]
  BY DEF Refreshes
<1>3. /\ page'[p].mount = page[p].mount /\ page'[p].request = n /\ page'[p].loading
      /\ page'[p].busy = pg.busy
      /\ \A q \in Page \ {p} : page'[q] = page[q]
  BY <1>1, <1>2 DEF PageType
<1>4. loads' = loads \cup {new}
  BY DEF Refreshes
<1>5. new.page = p /\ new.n = n /\ ~new.behind
  BY DEF Load
<1> HIDE DEF new
<1>6. \A l \in loads : l.page = p => l.n < n
  <2>1. \A l \in loads : l.n \in Nat
    BY DEF TypeOK, LoadType
  <2> QED
    BY <1>1, <2>1 DEF PagesInv, Numbered
<1>7. \A l \in loads' : l.page = p /\ l.n = n => l = new
  BY <1>1, <1>4, <1>6
<1>8. Numbered'
  <2>1. ASSUME NEW l \in loads' PROVE l.n <= page'[l.page].request
    <3>1. CASE l = new
      BY <3>1, <1>1, <1>3, <1>5
    <3>2. CASE l \in loads
      <4>1. l.page \in Page /\ l.n \in Nat /\ l.n <= page[l.page].request
        BY <3>2 DEF TypeOK, LoadType, PagesInv, Numbered
      <4>2. CASE l.page = p
        BY <4>1, <4>2, <1>1, <1>3
      <4>3. CASE l.page # p
        BY <4>1, <4>3, <1>3
      <4> QED
        BY <4>2, <4>3
    <3> QED
      BY <3>1, <3>2, <1>4
  <2>2. ASSUME NEW l \in loads', NEW m \in loads', l.page = m.page, l.n = m.n
        PROVE  l = m
    BY <2>2, <1>4, <1>5, <1>6, <1>7 DEF PagesInv, Numbered
  <2> QED
    BY <2>1, <2>2 DEF Numbered
<1>9. OneJob(p)'
  BY <1>3, <1>5, <1>7 DEF OneJob, Newest
<1>10. KeptUp(p)'
  BY <1>3, <1>5, <1>7 DEF KeptUp, Newest
<1>11. ASSUME NEW q \in Page \ {p} PROVE OneJob(q)' /\ KeptUp(q)'
  <2>1. \A l \in loads \cup loads' : l.page = q => (l \in loads' <=> l \in loads)
    BY <1>4, <1>5
  <2>2. \A k \in DOMAIN jobs' : \/ k \in Begun /\ jobs'[k] = jobs[k]
                                \/ jobs'[k].page # q /\ (k \in Begun => jobs[k].page # q)
    OBVIOUS
  <2> QED
    BY <1>3, <2>1, <2>2, ElsewhereStays
<1> QED
  BY <1>8, <1>9, <1>10, <1>11 DEF PagesInv

LEMMA RefreshKeepsPages ==
    ASSUME TypeOK, PagesInv, NEW p \in Page, Refresh(p)
    PROVE  PagesInv'
<1>1. page[p] \in PageType /\ Refreshes(p, page[p]) /\ jobs' = jobs /\ ~page[p].loading
  BY DEF Refresh, TypeOK
<1>2. page'[p].mount = page[p].mount /\ \A q \in Page \ {p} : page'[q] = page[q]
  BY <1>1 DEF Refreshes, TypeOK, PageType
<1>3. \A k \in Begun : jobs[k].page \in Page
  BY HereType
<1>4. Mounts'
  BY <1>1, <1>2, <1>3 DEF PagesInv, Mounts, Begun
<1>5. Active(p)' = Active(p)
  BY <1>1, <1>2 DEF Active, Heard, Begun
<1>6. OneJob(p)
  BY DEF PagesInv
<1>7. DOMAIN jobs' = Begun /\ \A k \in Begun : jobs'[k] = jobs[k]
  BY <1>1 DEF Begun
<1>8. /\ \A j, k \in Active(p)' : j = k
      /\ Active(p)' # {} => page[p].busy
      /\ \A j \in Active(p)' : jobs'[j].pc # "refresh"
  BY <1>1, <1>5, <1>6 DEF OneJob
<1> QED
  BY <1>1, <1>4, <1>7, <1>8, AsksKeepsPages

LEMMA AwaitsRefreshKeepsPages ==
    ASSUME TypeOK, PagesInv, NEW j \in Begun, jobs[j].pc \notin {"over", "refresh"},
           AwaitsRefresh(j)
    PROVE  PagesInv'
<1> DEFINE p == jobs[j].page
<1>0. jobs[j] \in JobType
  BY JobOf
<1>1. CASE Heard(j)
  <2> DEFINE n == page[p].request + 1
             r == [jobs[j] EXCEPT !.pc = "refresh", !.awaited = n]
  <2>1. p \in Page /\ page[p] \in PageType /\ Refreshes(p, page[p]) /\ Step(j, r)
    BY <1>1, HereType DEF AwaitsRefresh, Here
  <2>2. /\ r.page = p /\ r.mount = jobs[j].mount /\ r.pc = "refresh" /\ r.awaited = n
    BY <1>0 DEF JobType
  <2> HIDE DEF r
  <2>3. /\ DOMAIN jobs' = Begun /\ jobs'[j] = r
        /\ \A k \in Begun \ {j} : jobs'[k] = jobs[k]
    BY <2>1, JobGoes
  <2>4. page'[p].mount = page[p].mount /\ \A q \in Page \ {p} : page'[q] = page[q]
    BY <2>1 DEF Refreshes, TypeOK, PageType
  <2>5. \A k \in Begun : jobs[k].page \in Page
    BY HereType
  <2>6. Mounts'
    BY <2>2, <2>3, <2>4, <2>5 DEF PagesInv, Mounts, Begun
  <2>7. PICK q \in Page : q = p
    BY <2>1
  <2>8. Active(q)' = Active(q) /\ j \in Active(q)
    BY <1>1, <2>2, <2>3, <2>4, <2>7 DEF Active, Heard, Begun
  <2>9. OneJob(q)
    BY DEF PagesInv
  <2>10. /\ \A i, k \in Active(q)' : i = k
         /\ Active(q)' # {} => page[q].busy
         /\ \A k \in Active(q)' : jobs'[k].pc = "refresh" => jobs'[k].awaited = page[q].request + 1
    BY <2>2, <2>3, <2>7, <2>8, <2>9 DEF OneJob
  <2>11. \A k \in Begun : jobs'[k] = jobs[k] \/ (jobs[k].page = q /\ jobs'[k].page = q)
    BY <2>2, <2>3, <2>7
  <2>12. page[q] \in PageType /\ Refreshes(q, page[q])
    BY <2>1, <2>7
  <2> HIDE DEF n
  <2> QED
    BY <2>3, <2>6, <2>10, <2>11, <2>12, AsksKeepsPages
<1>2. CASE ~Heard(j)
  <2>1. Step(j, Over(jobs[j])) /\ UNCHANGED <<page, loads>>
    BY <1>2 DEF AwaitsRefresh
  <2>2. DOMAIN jobs' = Begun /\ \A k \in Begun : Alike(k)
    BY <1>0, <1>2, <2>1, JobGoes, OverFields DEF Alike
  <2> QED
    BY <2>1, <2>2, PagesStay
<1> QED
  BY <1>1, <1>2

LEMMA UploadedKeepsPages ==
    ASSUME TypeOK, PagesInv, NEW j \in Begun, jobs[j].pc \notin {"over", "refresh"},
           Uploaded(j)
    PROVE  PagesInv'
<1> DEFINE p == jobs[j].page
<1>0. jobs[j] \in JobType /\ Step(j, Over(jobs[j]))
  BY JobOf DEF Uploaded
<1>1. CASE Heard(j)
  <2> DEFINE pg == [page[p] EXCEPT !.busy = FALSE]
  <2>1. p \in Page /\ page[p] \in PageType /\ Refreshes(p, pg)
    BY <1>1, HereType DEF Uploaded, Here
  <2>2. pg \in PageType /\ pg.mount = page[p].mount /\ pg.request = page[p].request
    BY <2>1 DEF PageType
  <2> HIDE DEF pg
  <2>3. /\ DOMAIN jobs' = Begun /\ jobs'[j] = Over(jobs[j])
        /\ \A k \in Begun \ {j} : jobs'[k] = jobs[k]
    BY <1>0, JobGoes
  <2>4. page'[p].mount = page[p].mount /\ \A q \in Page \ {p} : page'[q] = page[q]
    BY <2>1, <2>2 DEF Refreshes, TypeOK, PageType
  <2>5. \A k \in Begun : jobs[k].page \in Page
    BY HereType
  <2>6. jobs'[j].page = p /\ jobs'[j].mount = 0 /\ jobs'[j].pc = "over"
    BY <1>0, <2>3, OverFields
  <2>7. Mounts'
    <3>1. page[p].mount \in Nat
      BY <2>1 DEF PageType
    <3> QED
      BY <2>3, <2>4, <2>5, <2>6, <3>1 DEF PagesInv, Mounts, Begun
  <2>8. PICK q \in Page : q = p
    BY <2>1
  <2>9. Active(q)' = {}
    <3>1. j \in Active(q) /\ OneJob(q)
      BY <1>1, <2>8 DEF Active, PagesInv
    <3>2. ASSUME NEW k \in Active(q)' PROVE FALSE
      <4>1. k \in Begun \ {j} /\ jobs'[k] = jobs[k] /\ k \in Active(q)
        BY <2>3, <2>4, <2>6, <2>8 DEF Active, Heard, Begun
      <4> QED
        BY <3>1, <4>1 DEF OneJob
    <3> QED
      BY <3>2
  <2>10. \A k \in Begun : jobs'[k] = jobs[k] \/ (jobs[k].page = q /\ jobs'[k].page = q)
    BY <2>3, <2>6, <2>8
  <2>11. Refreshes(q, pg) /\ pg.mount = page[q].mount /\ pg.request = page[q].request
    BY <2>1, <2>2, <2>8
  <2>12. /\ \A i, k \in Active(q)' : i = k
         /\ Active(q)' # {} => pg.busy
         /\ \A k \in Active(q)' : jobs'[k].pc = "refresh" => jobs'[k].awaited = page[q].request + 1
    BY <2>9
  <2> QED
    BY <2>2, <2>3, <2>7, <2>10, <2>11, <2>12, AsksKeepsPages
<1>2. CASE ~Heard(j)
  <2>1. UNCHANGED <<page, loads>>
    BY <1>2 DEF Uploaded
  <2>2. DOMAIN jobs' = Begun /\ \A k \in Begun : Alike(k)
    BY <1>0, <1>2, JobGoes, OverFields DEF Alike
  <2> QED
    BY <2>1, <2>2, PagesStay
<1> QED
  BY <1>1, <1>2

LEMMA GivesUpKeepsPages ==
    ASSUME TypeOK, PagesInv, NEW j \in Begun, NEW why, GivesUp(j, why),
           jobs[j].pc \notin {"over", "refresh"}
    PROVE  PagesInv'
<1> DEFINE p == jobs[j].page
           r == [Over(jobs[j]) EXCEPT !.told = why]
<1>1. jobs[j] \in JobType /\ p \in Page /\ page[p] \in PageType /\ Step(j, r)
  BY JobOf, HereType DEF GivesUp, Here
<1>2. r.page = p /\ r.mount = 0 /\ r.pc = "over"
  BY <1>1, OverToldFields
<1> HIDE DEF r
<1>3. /\ DOMAIN jobs' = Begun /\ jobs'[j] = r
      /\ \A k \in Begun \ {j} : jobs'[k] = jobs[k]
  BY <1>1, JobGoes
<1>4. UNCHANGED loads
  BY DEF GivesUp
<1>5. CASE Heard(j)
  <2>1. page' = [page EXCEPT ![p] = [page[p] EXCEPT !.busy = FALSE, !.toast = TRUE]]
    BY <1>5 DEF GivesUp, OnPage, Here
  <2>2. /\ page'[p].mount = page[p].mount /\ page'[p].request = page[p].request
        /\ page'[p].loading = page[p].loading /\ page'[p].toast
        /\ \A q \in Page \ {p} : page'[q] = page[q]
    BY <1>1, <2>1 DEF TypeOK, PageType
  <2>3. PICK q \in Page : q = p
    BY <1>1
  <2>4. Active(q)' = {}
    <3>1. j \in Active(q) /\ OneJob(q)
      BY <1>5, <2>3 DEF Active, PagesInv
    <3>2. ASSUME NEW k \in Active(q)' PROVE FALSE
      <4>1. k \in Begun \ {j} /\ jobs'[k] = jobs[k] /\ k \in Active(q)
        BY <1>2, <1>3, <2>2, <2>3 DEF Active, Heard, Begun
      <4> QED
        BY <3>1, <4>1 DEF OneJob
    <3> QED
      BY <3>2
  <2>5. \A k \in Begun : jobs[k].page \in Page
    BY HereType
  <2>6. Mounts'
    <3>1. page[p].mount \in Nat
      BY <1>1 DEF PageType
    <3> QED
      BY <1>2, <1>3, <2>2, <2>5, <3>1 DEF PagesInv, Mounts, Begun
  <2>7. Numbered'
    <3>1. \A m \in Page : page'[m].request = page[m].request
      BY <2>2
    <3> QED
      BY <1>4, <3>1 DEF PagesInv, Numbered, TypeOK, LoadType
  <2>8. OneJob(q)'
    BY <2>4 DEF OneJob
  <2>9. KeptUp(q)'
    <3>1. KeptUp(q)
      BY DEF PagesInv
    <3> QED
      BY <1>4, <2>2, <2>3, <3>1 DEF KeptUp, Newest
  <2>10. ASSUME NEW m \in Page \ {q} PROVE OneJob(m)' /\ KeptUp(m)'
    <3>1. \A k \in DOMAIN jobs' : \/ k \in Begun /\ jobs'[k] = jobs[k]
                                  \/ jobs'[k].page # m /\ (k \in Begun => jobs[k].page # m)
      BY <1>2, <1>3, <2>3
    <3> QED
      BY <1>3, <1>4, <2>2, <2>3, <3>1, ElsewhereStays
  <2> QED
    BY <2>6, <2>7, <2>8, <2>9, <2>10 DEF PagesInv
<1>6. CASE ~Heard(j)
  <2>1. UNCHANGED <<page, loads>>
    BY <1>6 DEF GivesUp, OnPage
  <2>2. \A k \in Begun : Alike(k)
    BY <1>2, <1>3, <1>6 DEF Alike
  <2> QED
    BY <1>3, <2>1, <2>2, PagesStay
<1> QED
  BY <1>5, <1>6

LEMMA BeginKeepsPages ==
    ASSUME TypeOK, PagesInv, NEW p \in Page, NEW job, Begin(p, job),
           job.page = p, job.mount = page[p].mount, job.pc \notin {"over", "refresh"}
    PROVE  PagesInv'
<1>1. /\ page[p] \in PageType /\ ~page[p].busy /\ jobs' = Append(jobs, job)
      /\ UNCHANGED loads
  BY DEF Begin, TypeOK
<1>2. page' = [page EXCEPT ![p] = [page[p] EXCEPT !.busy = TRUE]]
  BY DEF Begin
<1>3. /\ page'[p].mount = page[p].mount /\ page'[p].request = page[p].request
      /\ page'[p].loading = page[p].loading /\ page'[p].toast = page[p].toast
      /\ page'[p].error = page[p].error /\ page'[p].behind = page[p].behind
      /\ page'[p].busy
      /\ \A q \in Page \ {p} : page'[q] = page[q]
  BY <1>1, <1>2 DEF TypeOK, PageType
<1>4. PICK n : n = Len(jobs) + 1
  OBVIOUS
<1>5. /\ DOMAIN jobs' = Begun \cup {n} /\ n \notin Begun /\ jobs'[n] = job
      /\ \A k \in Begun : jobs'[k] = jobs[k]
  BY <1>1, <1>4 DEF TypeOK, Begun
<1>6. OneJob(p) /\ KeptUp(p) /\ Active(p) = {}
  BY <1>1 DEF PagesInv, OneJob
<1>7. \A k \in Begun : jobs[k].page \in Page
  BY HereType
<1>8. Active(p)' = {n}
  <2>1. n \in Active(p)'
    BY <1>3, <1>5 DEF Active, Heard, Begun
  <2>2. ASSUME NEW k \in Active(p)', k # n PROVE FALSE
    <3>1. k \in Begun /\ k \in Active(p)
      BY <2>2, <1>3, <1>5 DEF Active, Heard, Begun
    <3> QED
      BY <3>1, <1>6
  <2> QED
    BY <2>1, <2>2
<1>9. AtWork(p)' = {n}
  BY <1>5, <1>8 DEF AtWork
<1>10. Mounts'
  <2>1. job.mount <= page[p].mount
    BY <1>1 DEF PageType
  <2>2. \A q \in Page : page'[q].mount = page[q].mount
    BY <1>3
  <2> QED
    BY <1>5, <1>7, <2>1, <2>2 DEF PagesInv, Mounts, Begun
<1>11. Numbered'
  <2>1. \A m \in Page : page'[m].request = page[m].request
    BY <1>3
  <2> QED
    BY <1>1, <2>1 DEF PagesInv, Numbered, TypeOK, LoadType
<1>12. OneJob(p)'
  BY <1>3, <1>5, <1>8 DEF OneJob
<1>13. KeptUp(p)'
  BY <1>1, <1>3, <1>6, <1>9 DEF KeptUp, Newest
<1>14. ASSUME NEW m \in Page \ {p} PROVE OneJob(m)' /\ KeptUp(m)'
  <2>1. /\ Begun \subseteq DOMAIN jobs'
        /\ \A k \in DOMAIN jobs' : \/ k \in Begun /\ jobs'[k] = jobs[k]
                                   \/ jobs'[k].page # m /\ (k \in Begun => jobs[k].page # m)
    BY <1>5
  <2> QED
    BY <1>1, <1>3, <2>1, ElsewhereStays
<1> QED
  BY <1>10, <1>11, <1>12, <1>13, <1>14 DEF PagesInv

LEMMA ServeLoadKeepsPages ==
    ASSUME TypeOK, PagesInv, NEW l \in loads, ServeLoad(l)
    PROVE  PagesInv'
<1> DEFINE new == [l EXCEPT !.read = TRUE, !.list = Listing(parent)]
<1>1. /\ loads' = (loads \ {l}) \cup {new} /\ UNCHANGED <<page, jobs>>
  BY DEF ServeLoad
<1>2. new.page = l.page /\ new.n = l.n /\ new.behind = l.behind
  BY DEF TypeOK, LoadType
<1> HIDE DEF new
<1>3. Mounts'
  BY <1>1 DEF PagesInv, Mounts, Begun
<1>4. Numbered'
  BY <1>1, <1>2 DEF PagesInv, Numbered
<1>5. ASSUME NEW p \in Page PROVE OneJob(p)' /\ KeptUp(p)'
  <2>1. Active(p)' = Active(p) /\ AtWork(p)' = AtWork(p)
    BY <1>1 DEF Active, AtWork, Heard, Begun
  <2>2. OneJob(p) /\ KeptUp(p)
    BY DEF PagesInv
  <2>3. ASSUME NEW m \in loads', m.page = p, m.n = page[p].request
        PROVE  \E k \in loads : k.page = p /\ Newest(k) /\ k.behind = m.behind
    BY <2>3, <1>1, <1>2 DEF Newest
  <2>4. OneJob(p)'
    BY <1>1, <2>1, <2>2, <2>3 DEF OneJob, Newest
  <2>5. KeptUp(p)'
    BY <1>1, <2>1, <2>2, <2>3 DEF KeptUp, Newest
  <2> QED
    BY <2>4, <2>5
<1> QED
  BY <1>3, <1>4, <1>5 DEF PagesInv

(* The job that awaits l is the one that its page has, and l is the newest. *)
LEMMA AwaitedIs ==
    ASSUME TypeOK, PagesInv, NEW l \in loads, NEW j \in Begun, Awaits(j, l)
    PROVE  /\ Active(l.page) = {j} /\ Newest(l) /\ ~l.behind
<1>1. j \in Active(l.page) /\ l.page \in Page /\ jobs[j].pc = "refresh"
      /\ jobs[j].awaited = l.n
  BY DEF Awaits, Active, TypeOK, LoadType
<1>2. OneJob(l.page)
  BY <1>1 DEF PagesInv
<1> QED
  BY <1>1, <1>2 DEF OneJob, Newest

LEMMA DeliveredKeepsPages ==
    ASSUME TypeOK, PagesInv, NEW l \in loads, NEW pg \in PageType,
           pg.mount = page[l.page].mount, pg.request = page[l.page].request,
           pg.toast = page[l.page].toast, pg.busy = page[l.page].busy, ~pg.loading,
           pg.error \/ pg.behind = l.behind,
           Delivered(l, pg)
    PROVE  PagesInv'
<1> DEFINE p     == l.page
           some  == \E j \in Begun : Awaits(j, l)
           shows == IF IsNewestRequest(l) THEN pg ELSE page[p]
           new   == [shows EXCEPT !.busy = @ /\ ~some]
<1>1. p \in Page /\ page[p] \in PageType /\ shows \in PageType /\ some \in BOOLEAN
  BY DEF TypeOK, LoadType
<1>2. page' = [page EXCEPT ![p] = new] /\ loads' = loads \ {l}
      /\ jobs' = [j \in Begun |-> IF Awaits(j, l) THEN Over(jobs[j]) ELSE jobs[j]]
  BY DEF Delivered
<1>3. /\ page'[p].mount = page[p].mount /\ page'[p].request = page[p].request
      /\ page'[p].toast = page[p].toast /\ page'[p].error = shows.error
      /\ page'[p].loading = shows.loading /\ page'[p].behind = shows.behind
      /\ page'[p].busy = (page[p].busy /\ ~some)
      /\ \A q \in Page \ {p} : page'[q] = page[q]
  <2>1. /\ shows.mount = page[p].mount /\ shows.request = page[p].request
        /\ shows.toast = page[p].toast /\ shows.busy = page[p].busy
    OBVIOUS
  <2>2. page'[p] = new /\ \A q \in Page \ {p} : page'[q] = page[q]
    BY <1>1, <1>2 DEF TypeOK
  <2> HIDE DEF shows, some
  <2> QED
    BY <1>1, <2>1, <2>2 DEF PageType
<1>4. \A k \in Begun : jobs[k].page \in Page
  BY HereType
<1>5. Numbered'
  <2>1. \A m \in Page : page'[m].request = page[m].request
    BY <1>3
  <2> QED
    BY <1>2, <2>1 DEF PagesInv, Numbered, TypeOK, LoadType
<1>6. Newest(l) <=> IsNewestRequest(l)
  BY DEF Newest, IsNewestRequest
<1>7. OneJob(p) /\ KeptUp(p)
  BY <1>1 DEF PagesInv
<1>8. Newest(l) => \A m \in loads' : m.page = p => m.n # page[p].request
  BY <1>2 DEF PagesInv, Numbered, Newest
<1>9. DOMAIN jobs' = Begun
  BY <1>2
<1>10. PICK q \in Page : q = p
  BY <1>1
<1>11. CASE some
  <2>1. PICK j \in Begun : Awaits(j, l)
    BY <1>11
  <2>2. Active(q) = {j} /\ Newest(l) /\ ~l.behind /\ jobs[j] \in JobType
    BY <2>1, <1>10, AwaitedIs, JobOf
  <2>3. \A k \in Begun : Awaits(k, l) => k = j
    <3>1. ASSUME NEW k \in Begun, Awaits(k, l) PROVE Active(q) = {k}
      BY <3>1, <1>10, AwaitedIs
    <3> QED
      BY <2>2, <3>1
  <2>4. jobs'[j] = Over(jobs[j]) /\ \A k \in Begun \ {j} : jobs'[k] = jobs[k]
    BY <1>2, <2>1, <2>3
  <2>5. jobs[j].page = q /\ jobs'[j].page = q /\ jobs'[j].mount = 0 /\ jobs'[j].pc = "over"
    BY <2>1, <2>2, <2>4, <1>10, OverFields DEF Awaits
  <2>6. Active(q)' = {}
    <3>1. ASSUME NEW k \in Active(q)' PROVE FALSE
      <4>1. k \in Begun \ {j} /\ jobs'[k] = jobs[k] /\ k \in Active(q)
        BY <1>3, <1>9, <1>10, <2>4, <2>5 DEF Active, Heard, Begun
      <4> QED
        BY <2>2, <4>1
    <3> QED
      BY <3>1
  <2>7. Mounts'
    <3>1. page[p].mount \in Nat
      BY <1>1 DEF PageType
    <3>2. \A m \in Page : page'[m].mount = page[m].mount
      BY <1>3
    <3> QED
      BY <1>4, <1>9, <1>10, <2>4, <2>5, <3>1, <3>2 DEF PagesInv, Mounts, Begun
  <2>8. OneJob(q)'
    BY <2>6 DEF OneJob
  <2>9. KeptUp(q)'
    <3>1. shows.error \/ ~shows.behind
      BY <1>6, <2>2
    <3> QED
      BY <1>3, <1>8, <1>10, <2>2, <3>1 DEF KeptUp, Newest
  <2>10. ASSUME NEW m \in Page \ {q} PROVE OneJob(m)' /\ KeptUp(m)'
    <3>1. \A k \in DOMAIN jobs' : \/ k \in Begun /\ jobs'[k] = jobs[k]
                                  \/ jobs'[k].page # m /\ (k \in Begun => jobs[k].page # m)
      BY <1>9, <2>4, <2>5
    <3>2. \A k \in loads \cup loads' : k.page = m => (k \in loads' <=> k \in loads)
      BY <1>2, <1>10
    <3> QED
      BY <1>3, <1>9, <1>10, <3>1, <3>2, ElsewhereStays
  <2> QED
    BY <1>5, <1>10, <2>7, <2>8, <2>9, <2>10 DEF PagesInv
<1>12. CASE ~some
  <2>1. \A k \in Begun : jobs'[k] = jobs[k]
    BY <1>2, <1>12
  <2>2. /\ Mounts'
        /\ \A m \in Page : Active(m)' = Active(m) /\ AtWork(m)' = AtWork(m)
    <3>1. \A m \in Page : page'[m].mount = page[m].mount
      BY <1>3
    <3> QED
      BY <1>9, <2>1, <3>1, ActiveStays DEF Alike, PagesInv
  <2>3. Active(q) \subseteq Begun
    BY DEF Active
  <2>4. page'[q].busy = page[q].busy
    BY <1>1, <1>3, <1>10, <1>12 DEF PageType
  <2>5. CASE Newest(l)
    <3>1. shows = pg
      BY <1>6, <2>5
    <3>2. \A j \in Active(q) : jobs[j].pc # "refresh"
      BY <1>7, <1>10, <1>12, <2>5 DEF OneJob, Active, Awaits, Newest
    <3>3. OneJob(q)'
      BY <1>7, <1>10, <2>1, <2>2, <2>3, <2>4, <3>2 DEF OneJob
    <3>4. KeptUp(q)'
      <4>1. l.behind => page[p].toast \/ AtWork(p) # {}
        BY <1>7, <2>5 DEF KeptUp
      <4>2. ~page'[p].loading /\ (page'[p].error \/ page'[p].behind = l.behind)
        BY <1>3, <3>1
      <4> QED
        BY <1>3, <1>8, <1>10, <2>2, <2>5, <4>1, <4>2 DEF KeptUp, Newest
    <3>5. ASSUME NEW m \in Page \ {q} PROVE OneJob(m)' /\ KeptUp(m)'
      <4>1. \A k \in DOMAIN jobs' : k \in Begun /\ jobs'[k] = jobs[k]
        BY <1>9, <2>1
      <4>2. \A k \in loads \cup loads' : k.page = m => (k \in loads' <=> k \in loads)
        BY <1>2, <1>10
      <4> QED
        BY <1>3, <1>9, <1>10, <4>1, <4>2, ElsewhereStays
    <3> QED
      BY <1>5, <2>2, <3>3, <3>4, <3>5 DEF PagesInv
  <2>6. CASE ~Newest(l)
    <3>1. shows = page[p]
      BY <1>6, <2>6
    <3>2. /\ page'[q].request = page[q].request /\ page'[q].loading = page[q].loading
          /\ page'[q].error = page[q].error /\ page'[q].toast = page[q].toast
          /\ page'[q].behind = page[q].behind
      BY <1>3, <1>10, <3>1
    <3>3. OneJob(q)'
      BY <1>2, <1>7, <1>10, <2>1, <2>2, <2>3, <2>4, <3>2 DEF OneJob, Newest
    <3>4. KeptUp(q)'
      BY <1>2, <1>7, <1>10, <2>2, <3>2 DEF KeptUp, Newest
    <3>5. ASSUME NEW m \in Page \ {q} PROVE OneJob(m)' /\ KeptUp(m)'
      <4>1. \A k \in DOMAIN jobs' : k \in Begun /\ jobs'[k] = jobs[k]
        BY <1>9, <2>1
      <4>2. \A k \in loads \cup loads' : k.page = m => (k \in loads' <=> k \in loads)
        BY <1>2, <1>10
      <4> QED
        BY <1>3, <1>9, <1>10, <4>1, <4>2, ElsewhereStays
    <3> QED
      BY <1>5, <2>2, <3>3, <3>4, <3>5 DEF PagesInv
  <2> QED
    BY <2>5, <2>6
<1> QED
  BY <1>11, <1>12

LEMMA DeliverKeepsPages ==
    ASSUME TypeOK, PagesInv, NEW l \in loads, Deliver(l)
    PROVE  PagesInv'
<1> DEFINE pg == [page[l.page] EXCEPT !.shown = l.list, !.behind = l.behind,
                                      !.loading = FALSE, !.error = FALSE]
<1>1. /\ page[l.page] \in PageType /\ l.list \in Tree /\ l.behind \in BOOLEAN
      /\ Delivered(l, pg)
  BY DEF TypeOK, LoadType, Deliver
<1>2. /\ pg.mount = page[l.page].mount /\ pg.request = page[l.page].request
      /\ pg.toast = page[l.page].toast /\ pg.busy = page[l.page].busy /\ ~pg.loading
      /\ pg.behind = l.behind
  BY <1>1 DEF PageType
<1>3. pg \in PageType
  BY <1>1 DEF PageType
<1> HIDE DEF pg
<1> QED
  BY <1>1, <1>2, <1>3, DeliveredKeepsPages

LEMMA LoadFailsKeepsPages ==
    ASSUME TypeOK, PagesInv, NEW l \in loads, LoadFails(l)
    PROVE  PagesInv'
<1> DEFINE pg == [page[l.page] EXCEPT !.loading = FALSE, !.error = TRUE]
<1>1. page[l.page] \in PageType /\ Delivered(l, pg)
  BY DEF TypeOK, LoadType, LoadFails
<1>2. /\ pg.mount = page[l.page].mount /\ pg.request = page[l.page].request
      /\ pg.toast = page[l.page].toast /\ pg.busy = page[l.page].busy /\ ~pg.loading
      /\ pg.error
  BY <1>1 DEF PageType
<1>3. pg \in PageType
  BY <1>1 DEF PageType
<1> HIDE DEF pg
<1> QED
  BY <1>1, <1>2, <1>3, DeliveredKeepsPages

LEMMA RemountKeepsPages ==
    ASSUME TypeOK, PagesInv, NEW p \in Page, Remount(p)
    PROVE  PagesInv'
<1> DEFINE new == Load(p, page[p].request + 1)
           E   == {j \in Begun : jobs[j].page = p /\ jobs[j].pc = "refresh"}
<1>1. /\ page \in [Page -> PageType] /\ page[p].mount \in Nat /\ page[p].request \in Nat
      /\ \A k \in Begun : jobs[k] \in JobType /\ jobs[k].page \in Page
  BY JobOf, HereType DEF TypeOK, PageType
<1>2. page' = [page EXCEPT ![p] = Opened(page[p].mount + 1, page[p].request + 1)]
  BY DEF Remount
<1>3. /\ page'[p].mount = page[p].mount + 1 /\ page'[p].request = page[p].request + 1
      /\ page'[p].loading /\ ~page'[p].behind
      /\ \A q \in Page \ {p} : page'[q] = page[q]
  BY <1>1, <1>2 DEF Opened
<1>4. loads' = {l \in loads : l.page # p} \cup {new}
  BY <1>3 DEF Remount
<1>5. new.page = p /\ new.n = page[p].request + 1 /\ ~new.behind
  BY DEF Load
<1> HIDE DEF new
<1>6. /\ DOMAIN jobs' = Begun
      /\ \A k \in E : jobs'[k] = Over(jobs[k])
      /\ \A k \in Begun \ E : jobs'[k] = jobs[k]
  BY DEF Remount
<1>7. ASSUME NEW k \in Begun
      PROVE  /\ jobs'[k].page = jobs[k].page
             /\ jobs'[k].mount = jobs[k].mount \/ jobs'[k].mount = 0
             /\ jobs[k].page # p => jobs'[k] = jobs[k]
  BY <1>1, <1>6, OverFields
<1>8. Mounts'
  <2>1. ASSUME NEW k \in Begun PROVE jobs'[k].mount <= page'[jobs'[k].page].mount
    <3>1. PICK q \in Page : q = jobs[k].page
      BY <1>1
    <3>2. page[q].mount \in Nat /\ jobs[k].mount <= page[q].mount /\ jobs[k].mount \in Nat
      BY <1>1, <3>1 DEF TypeOK, PageType, JobType, PagesInv, Mounts
    <3>3. page'[q].mount = page[q].mount \/ page'[q].mount = page[q].mount + 1
      BY <1>3
    <3> QED
      BY <1>7, <3>1, <3>2, <3>3
  <2> QED
    BY <1>6, <2>1 DEF Mounts, Begun
<1>9. Numbered'
  <2>1. \A l \in loads : l.page \in Page /\ l.n <= page[l.page].request
    BY DEF TypeOK, LoadType, PagesInv, Numbered
  <2>2. ASSUME NEW m \in loads' PROVE m.n <= page'[m.page].request
    BY <1>1, <1>3, <1>4, <1>5, <2>1
  <2>3. ASSUME NEW m1 \in loads', NEW m2 \in loads', m1.page = m2.page, m1.n = m2.n
        PROVE  m1 = m2
    BY <1>4, <1>5, <2>3 DEF PagesInv, Numbered
  <2> QED
    BY <2>2, <2>3 DEF Numbered
<1>10. Active(p)' = {}
  <2>1. ASSUME NEW k \in Active(p)' PROVE FALSE
    <3>1. k \in Begun /\ jobs[k].page = p /\ jobs'[k].mount = page[p].mount + 1
      BY <1>3, <1>6, <1>7 DEF Active, Heard, Begun
    <3>2. jobs[k].mount <= page[p].mount /\ jobs[k].mount \in Nat
      BY <1>1, <3>1 DEF PagesInv, Mounts, JobType
    <3> QED
      BY <1>1, <1>7, <3>1, <3>2
  <2> QED
    BY <2>1
<1>11. OneJob(p)'
  BY <1>10 DEF OneJob
<1>12. KeptUp(p)'
  BY <1>3, <1>4, <1>5 DEF KeptUp, Newest
<1>13. ASSUME NEW m \in Page \ {p} PROVE OneJob(m)' /\ KeptUp(m)'
  <2>1. \A k \in DOMAIN jobs' : \/ k \in Begun /\ jobs'[k] = jobs[k]
                                \/ jobs'[k].page # m /\ (k \in Begun => jobs[k].page # m)
    BY <1>6, <1>7
  <2>2. \A l \in loads \cup loads' : l.page = m => (l \in loads' <=> l \in loads)
    BY <1>4, <1>5
  <2> QED
    BY <1>3, <1>6, <2>1, <2>2, ElsewhereStays
<1> QED
  BY <1>8, <1>9, <1>11, <1>12, <1>13 DEF PagesInv

(* A job begins that is not yet over.                                       *)
LEMMA UserKeepsPages ==
    ASSUME TypeOK, PagesInv, NEW p \in Page, User(p)
    PROVE  PagesInv'
<1>1. CASE Refresh(p)
  BY <1>1, RefreshKeepsPages
<1>2. CASE Remount(p)
  BY <1>2, RemountKeepsPages
<1>3. ASSUME NEW kind, NEW ids, NEW dest, Run(p, kind, ids, dest) PROVE PagesInv'
  <2> DEFINE job == [Job(p, kind, dest) EXCEPT !.pc = "next",
                        !.todo = TopLevelSelection(page[p].shown, ids), !.before = page[p].shown]
  <2>1. Begin(p, job)
    BY <1>3 DEF Run
  <2>2. job.page = p /\ job.mount = page[p].mount /\ job.pc = "next"
    BY DEF Job
  <2> HIDE DEF job
  <2> QED
    BY <2>1, <2>2, BeginKeepsPages
<1>4. ASSUME NEW f, NEW dest, CreateFolder(p, f, dest) PROVE PagesInv'
  <2> DEFINE job == [Job(p, "create", dest) EXCEPT !.now = f]
  <2>1. Begin(p, job)
    BY <1>4 DEF CreateFolder
  <2>2. job.page = p /\ job.mount = page[p].mount /\ job.pc = "create"
    BY DEF Job
  <2> HIDE DEF job
  <2> QED
    BY <2>1, <2>2, BeginKeepsPages
<1>5. ASSUME NEW files, NEW dest, Upload(p, files, dest) PROVE PagesInv'
  <2> DEFINE job == [Job(p, "upload", dest) EXCEPT !.files = files]
  <2>1. Begin(p, job)
    BY <1>5 DEF Upload
  <2>2. job.page = p /\ job.mount = page[p].mount /\ job.pc = "upload"
    BY DEF Job
  <2> HIDE DEF job
  <2> QED
    BY <2>1, <2>2, BeginKeepsPages
<1> QED
  BY <1>1, <1>2, <1>3, <1>4, <1>5 DEF User

(* A job that is at work goes on with its work.                             *)
LEMMA WorkGoesOn ==
    ASSUME TypeOK, NEW j \in Begun, NEW r, Step(j, r),
           jobs[j].pc \notin {"over", "refresh"}, r.pc \notin {"over", "refresh"},
           r.page = jobs[j].page, r.mount = jobs[j].mount
    PROVE  DOMAIN jobs' = Begun /\ \A k \in Begun : Alike(k)
BY JobGoes DEF Alike

LEMMA BranchFields ==
    ASSUME NEW job \in JobType, NEW c, job.pc = "delete",
           NEW r \in {GoesOn(job, c), EndsBranch(job, c)}
    PROVE  /\ r.page = job.page /\ r.mount = job.mount /\ r.pc \in {"next", "delete"}
           /\ r.lost = job.lost /\ r.before = job.before
BY ZenonT(40) DEF GoesOn, EndsBranch, Succeeds, Fails, JobType

LEMMA RunStepKeepsPages ==
    ASSUME TypeOK, PagesInv, NEW j \in Begun, RunStep(j)
    PROVE  PagesInv'
<1> DEFINE job == jobs[j]
<1>0. job \in JobType
  BY JobOf
<1>1. ASSUME NEW r, OnlyStep(j, r) \/ (Step(j, r) /\ UNCHANGED <<page, loads>>),
             job.pc \notin {"over", "refresh"}, r.pc \notin {"over", "refresh"},
             r.page = job.page, r.mount = job.mount
      PROVE  PagesInv'
  BY <1>1, WorkGoesOn, PagesStay DEF OnlyStep
<1>2. ASSUME NEW i \in Item, Validate(j, i) PROVE PagesInv'
  <2> DEFINE r == [job EXCEPT !.pc = "apply", !.now = i]
  <2>1. r.page = job.page /\ r.mount = job.mount /\ r.pc = "apply"
    BY <1>0 DEF JobType
  <2>2. OnlyStep(j, r) /\ job.pc = "next"
    BY <1>2 DEF Validate, TakesUp
  <2> HIDE DEF r
  <2> QED
    BY <1>1, <2>1, <2>2
<1>3. ASSUME NEW i \in Item, TakeBranch(j, i) PROVE PagesInv'
  <2> DEFINE r == [job EXCEPT !.pc = "delete", !.now = i, !.rest = Descendants(job.before, i)]
  <2>1. r.page = job.page /\ r.mount = job.mount /\ r.pc = "delete"
    BY <1>0 DEF JobType
  <2>2. OnlyStep(j, r) /\ job.pc = "next"
    BY <1>3 DEF TakeBranch, TakesUp
  <2> HIDE DEF r
  <2> QED
    BY <1>1, <2>1, <2>2
<1>4. ASSUME NEW i \in Item, Refuse(j, i) PROVE PagesInv'
  BY <1>0, <1>1, <1>4, RunFields DEF Refuse, TakesUp
<1>5. CASE MoveFails(j)
  BY <1>0, <1>1, <1>5, RunFields DEF MoveFails
<1>6. CASE MoveSkipped(j)
  BY <1>0, <1>1, <1>6, RunFields DEF MoveSkipped
<1>7. ASSUME NEW answered \in BOOLEAN, Move(j, answered) PROVE PagesInv'
  <2> DEFINE r == IF answered THEN Succeeds(job, job.now) ELSE Fails(job, job.now)
  <2>1. Step(j, r) /\ Behind(j) /\ job.pc = "apply"
    BY <1>7 DEF Move
  <2>2. r.page = job.page /\ r.mount = job.mount /\ r.pc = "next"
    BY <1>0, RunFields
  <2> HIDE DEF r
  <2>3. DOMAIN jobs' = Begun /\ \A k \in Begun : Alike(k)
    BY <2>1, <2>2, WorkGoesOn
  <2> QED
    BY <2>1, <2>3, BehindKeepsPages
<1>8. ASSUME NEW c \in Item, NEW answered \in BOOLEAN, Delete(j, c, answered) PROVE PagesInv'
  <2> DEFINE r == IF answered THEN GoesOn(job, c) ELSE EndsBranch(job, c)
  <2>1. Step(j, r) /\ Behind(j) /\ job.pc = "delete"
    BY <1>8 DEF Delete
  <2>2. r.page = job.page /\ r.mount = job.mount /\ r.pc \in {"next", "delete"}
    BY <1>0, <2>1, BranchFields
  <2> HIDE DEF r
  <2>3. DOMAIN jobs' = Begun /\ \A k \in Begun : Alike(k)
    BY <2>1, <2>2, WorkGoesOn
  <2> QED
    BY <2>1, <2>3, BehindKeepsPages
<1>9. ASSUME NEW c \in Item, DeleteFails(j, c) PROVE PagesInv'
  <2> DEFINE r == EndsBranch(job, c)
  <2>1. OnlyStep(j, r) /\ job.pc = "delete"
    BY <1>9 DEF DeleteFails
  <2>2. r.page = job.page /\ r.mount = job.mount /\ r.pc \in {"next", "delete"}
    BY <1>0, <2>1, BranchFields
  <2> HIDE DEF r
  <2> QED
    BY <1>1, <2>1, <2>2
<1>10. ASSUME NEW c \in Item, DeleteSkipped(j, c) PROVE PagesInv'
  <2> DEFINE r == GoesOn(job, c)
  <2>1. Step(j, r) /\ UNCHANGED <<page, loads>> /\ job.pc = "delete"
    BY <1>10 DEF DeleteSkipped
  <2>2. r.page = job.page /\ r.mount = job.mount /\ r.pc \in {"next", "delete"}
    BY <1>0, <2>1, BranchFields
  <2> HIDE DEF r
  <2> QED
    BY <1>1, <2>1, <2>2
<1>11. CASE EndRun(j)
  BY <1>11, AwaitsRefreshKeepsPages DEF EndRun
<1> QED
  BY <1>2, <1>3, <1>4, <1>5, <1>6, <1>7, <1>8, <1>9, <1>10, <1>11 DEF RunStep

LEMMA MakeStepKeepsPages ==
    ASSUME TypeOK, PagesInv, NEW j \in Begun, MakeStep(j)
    PROVE  PagesInv'
<1> DEFINE job == jobs[j]
<1>0. job \in JobType
  BY JobOf
<1>1. ASSUME NEW r, Behind(j), Step(j, r),
             job.pc \notin {"over", "refresh"}, r.pc \notin {"over", "refresh"},
             r.page = job.page, r.mount = job.mount
      PROVE  PagesInv'
  BY <1>1, WorkGoesOn, BehindKeepsPages
<1>2. ASSUME NEW r, OnlyStep(j, r),
             job.pc \notin {"over", "refresh"}, r.pc \notin {"over", "refresh"},
             r.page = job.page, r.mount = job.mount
      PROVE  PagesInv'
  BY <1>2, WorkGoesOn, PagesStay DEF OnlyStep
<1>3. CASE MakeFolder(j)
  <2> DEFINE r == [job EXCEPT !.pc = "created"]
  <2>1. r.page = job.page /\ r.mount = job.mount /\ r.pc = "created"
    BY <1>0 DEF JobType
  <2>2. Step(j, r) /\ Behind(j) /\ job.pc = "create"
    BY <1>3 DEF MakeFolder
  <2> HIDE DEF r
  <2> QED
    BY <1>1, <2>1, <2>2
<1>4. CASE FolderMade(j)
  BY <1>4, AwaitsRefreshKeepsPages DEF FolderMade
<1>5. CASE MakingFails(j)
  BY <1>5, GivesUpKeepsPages DEF MakingFails
<1>6. CASE StoreFile(j)
  <2> DEFINE r == [job EXCEPT !.at = @ + 1, !.lost = @ \ {File(job)}]
  <2>1. r.page = job.page /\ r.mount = job.mount /\ r.pc = job.pc
    BY <1>0 DEF JobType
  <2>2. Step(j, r) /\ Behind(j) /\ job.pc = "upload"
    BY <1>6 DEF StoreFile
  <2> HIDE DEF r
  <2> QED
    BY <1>1, <2>1, <2>2
<1>7. CASE Conflict(j)
  <2> DEFINE r == [job EXCEPT !.pc = "confirm"]
  <2>1. r.page = job.page /\ r.mount = job.mount /\ r.pc = "confirm"
    BY <1>0 DEF JobType
  <2>2. OnlyStep(j, r) /\ job.pc = "upload"
    BY <1>7 DEF Conflict, Conflicts
  <2> HIDE DEF r
  <2> QED
    BY <1>2, <2>1, <2>2
<1>8. CASE ConflictAgain(j)
  BY <1>8, GivesUpKeepsPages DEF ConflictAgain, Conflicts
<1>9. CASE UploadEnds(j)
  BY <1>9, UploadedKeepsPages DEF UploadEnds
<1>10. CASE Replace(j)
  <2> DEFINE r == [job EXCEPT !.pc = "upload", !.at = 1, !.again = TRUE,
                              !.lost = @ \cup {File(job)}]
  <2>1. r.page = job.page /\ r.mount = job.mount /\ r.pc = "upload"
    BY <1>0 DEF JobType
  <2>2. Step(j, r) /\ Behind(j) /\ job.pc = "replace"
    BY <1>10 DEF Replace
  <2> HIDE DEF r
  <2> QED
    BY <1>1, <2>1, <2>2
<1>11. CASE ReplaceFails(j)
  BY <1>11, GivesUpKeepsPages DEF ReplaceFails
<1>12. CASE ReplaceSkipped(j)
  <2> DEFINE r == [job EXCEPT !.pc = "upload", !.at = 1, !.again = TRUE]
  <2>1. r.page = job.page /\ r.mount = job.mount /\ r.pc = "upload"
    BY <1>0 DEF JobType
  <2>2. OnlyStep(j, r) /\ job.pc = "replace"
    BY <1>12 DEF ReplaceSkipped
  <2> HIDE DEF r
  <2> QED
    BY <1>2, <2>1, <2>2
<1> QED
  BY <1>3, <1>4, <1>5, <1>6, <1>7, <1>8, <1>9, <1>10, <1>11, <1>12 DEF MakeStep

LEMMA AnswerKeepsPages ==
    ASSUME TypeOK, PagesInv, Answer
    PROVE  PagesInv'
<1>1. PICK j \in Begun : Decline(j) \/ Accept(j)
  BY DEF Answer
<1>2. CASE Decline(j)
  BY <1>2, UploadedKeepsPages DEF Decline
<1>3. CASE Accept(j)
  <2> DEFINE r == [jobs[j] EXCEPT !.pc = "replace"]
  <2>1. r.page = jobs[j].page /\ r.mount = jobs[j].mount /\ r.pc = "replace"
    BY JobOf DEF JobType
  <2>2. OnlyStep(j, r) /\ jobs[j].pc = "confirm"
    BY <1>3 DEF Accept
  <2> HIDE DEF r
  <2> QED
    BY <2>1, <2>2, WorkGoesOn, PagesStay DEF OnlyStep
<1> QED
  BY <1>1, <1>2, <1>3

LEMMA NextKeepsPages ==
    ASSUME TypeOK, PagesInv, [Next]_vars
    PROVE  PagesInv'
<1>1. ASSUME NEW p \in Page, User(p) PROVE PagesInv'
  BY <1>1, UserKeepsPages
<1>2. CASE Answer
  BY <1>2, AnswerKeepsPages
<1>3. ASSUME UNCHANGED <<page, loads, jobs>> PROVE PagesInv'
  <2>1. DOMAIN jobs' = Begun /\ \A k \in Begun : Alike(k)
    BY <1>3 DEF Begun, Alike
  <2> QED
    BY <1>3, <2>1, PagesStay
<1>4. CASE Tablet
  BY <1>3, <1>4 DEF Tablet, Edit
<1>5. CASE LoadStep
  BY <1>5, ServeLoadKeepsPages, DeliverKeepsPages, LoadFailsKeepsPages DEF LoadStep
<1>6. ASSUME NEW j \in JobId, JobStep(j) PROVE PagesInv'
  BY <1>6, RunStepKeepsPages, MakeStepKeepsPages DEF JobStep
<1>7. CASE UNCHANGED vars
  BY <1>3, <1>7 DEF vars
<1> QED
  BY <1>1, <1>2, <1>4, <1>5, <1>6, <1>7 DEF Next

LEMMA InitPages ==
    ASSUME Init
    PROVE  PagesInv
<1>1. Begun = {}
  BY DEF Init, Begun
<1>2. \A p \in Page : page[p].request = 1 /\ page[p].loading /\ ~page[p].behind
  BY DEF Init, Opened
<1>3. \A l \in loads : l.page \in Page /\ l = Load(l.page, 1) /\ l.n = 1 /\ ~l.behind
  BY DEF Init, Load
<1>4. Numbered
  BY <1>2, <1>3 DEF Numbered
<1>5. ASSUME NEW p \in Page PROVE OneJob(p) /\ KeptUp(p)
  <2>1. Active(p) = {}
    BY <1>1 DEF Active
  <2> QED
    BY <1>2, <1>3, <2>1 DEF OneJob, KeptUp
<1> QED
  BY <1>1, <1>4, <1>5 DEF PagesInv, Mounts

(* A page has at most one job under way that it hears of and is busy with   *)
(* it, and whatever is behind its own work is going to be replaced.         *)
THEOREM PagesKeepUp == Spec => []PagesInv
<1>1. Init => PagesInv
  BY InitPages
<1>2. Inv /\ PagesInv /\ [Next]_vars => PagesInv'
  BY NextKeepsPages DEF Inv
<1> QED
  BY <1>1, <1>2, Invariant, PTL DEF Spec

(* What a page at rest shows, unless it says that something went wrong, is  *)
(* no older than its own last change: no answer that comes late hides what  *)
(* the user did.                                                            *)
THEOREM OwnWorkIsShown == Spec => []ShowsOwnWork
<1>1. ASSUME PagesInv PROVE ShowsOwnWork
  <2>1. ASSUME NEW p \in Page, AtWork(p) # {} PROVE page[p].busy
    BY <1>1, <2>1 DEF PagesInv, OneJob, AtWork
  <2> QED
    BY <1>1, <2>1 DEF PagesInv, KeptUp, ShowsOwnWork
<1>2. PagesInv => ShowsOwnWork
  BY <1>1
<1> QED
  BY <1>2, PagesKeepUp, PTL

-----------------------------------------------------------------------------
(* What an upload has deleted and not yet replaced.                         *)
ToCome(job) == {job.files[n] : n \in job.at..Len(job.files)}

(* Either nothing is missing, or the batch is being uploaded once more and  *)
(* has yet to come to it, or the user knows.                                *)
LossOK(job) ==
    \/ job.lost = {}
    \/ job.pc = "upload" /\ job.again /\ job.lost \subseteq ToCome(job)
    \/ job.pc = "over" /\ job.told # "no"

LostInv == \A j \in Begun : LossOK(jobs[j])

LEMMA OneLossChanges ==
    ASSUME TypeOK, LostInv, NEW j \in Begun, NEW r, Step(j, r), LossOK(r)
    PROVE  LostInv'
<1>1. /\ DOMAIN jobs' = Begun /\ jobs'[j] = r
      /\ \A k \in Begun \ {j} : jobs'[k] = jobs[k]
  BY JobGoes
<1>2. ASSUME NEW k \in Begun PROVE LossOK(jobs[k])'
  BY <1>1, <1>2 DEF LostInv, LossOK, ToCome
<1> QED
  BY <1>1, <1>2 DEF LostInv, Begun

(* A job that has lost nothing and loses nothing.                           *)
LEMMA NothingLost ==
    ASSUME TypeOK, LostInv, NEW j \in Begun, NEW r, Step(j, r),
           jobs[j].pc \notin {"upload", "over"}, r.lost = jobs[j].lost
    PROVE  LostInv'
BY OneLossChanges DEF LostInv, LossOK

LEMMA GivesUpTells ==
    ASSUME TypeOK, LostInv, NEW j \in Begun, NEW why, why # "no", GivesUp(j, why)
    PROVE  LostInv'
<1> DEFINE r == [Over(jobs[j]) EXCEPT !.told = why]
<1>1. r.pc = "over" /\ r.told = why /\ Step(j, r)
  BY JobOf, OverToldFields DEF GivesUp
<1> HIDE DEF r
<1> QED
  BY <1>1, OneLossChanges DEF LossOK

LEMMA AwaitsRefreshLosesNothing ==
    ASSUME TypeOK, LostInv, NEW j \in Begun, jobs[j].pc \in {"next", "created"}, AwaitsRefresh(j)
    PROVE  LostInv'
<1> DEFINE r == [jobs[j] EXCEPT !.pc = "refresh", !.awaited = Here(j).request + 1]
<1>1. r.lost = jobs[j].lost /\ Over(jobs[j]).lost = jobs[j].lost
  BY JobOf, OverFields DEF JobType
<1>2. Step(j, r) \/ Step(j, Over(jobs[j]))
  BY DEF AwaitsRefresh
<1> HIDE DEF r
<1> QED
  BY <1>1, <1>2, NothingLost

(* Jobs that await a listing have lost nothing.                             *)
LEMMA EndsLoseNothing ==
    ASSUME TypeOK, LostInv, NEW E, \A k \in E : jobs[k].pc = "refresh",
           jobs' = [k \in Begun |-> IF k \in E THEN Over(jobs[k]) ELSE jobs[k]]
    PROVE  LostInv'
<1>1. ASSUME NEW k \in Begun PROVE LossOK(jobs[k])'
  <2>1. CASE k \in E
    <3>1. jobs[k].lost = {} /\ Over(jobs[k]).lost = {}
      BY <2>1, JobOf, OverFields DEF LostInv, LossOK
    <3> QED
      BY <2>1, <3>1 DEF LossOK
  <2>2. CASE k \notin E
    BY <2>2 DEF LostInv, LossOK, ToCome
  <2> QED
    BY <2>1, <2>2
<1> QED
  BY <1>1 DEF LostInv, Begun

LEMMA BeginLosesNothing ==
    ASSUME TypeOK, LostInv, NEW p, NEW job, job.lost = {}, Begin(p, job)
    PROVE  LostInv'
<1>1. PICK n : n = Len(jobs) + 1
  OBVIOUS
<1>2. /\ DOMAIN jobs' = Begun \cup {n} /\ n \notin Begun /\ jobs'[n] = job
      /\ \A k \in Begun : jobs'[k] = jobs[k]
  BY <1>1 DEF Begin, TypeOK, Begun
<1>3. ASSUME NEW k \in Begun \cup {n} PROVE LossOK(jobs[k])'
  BY <1>2, <1>3 DEF LostInv, LossOK, ToCome
<1> QED
  BY <1>2, <1>3 DEF LostInv, Begun

LEMMA UserLosesNothing ==
    ASSUME TypeOK, LostInv, NEW p, User(p)
    PROVE  LostInv'
<1>1. CASE Refresh(p)
  BY <1>1 DEF Refresh, LostInv, LossOK, ToCome, Begun
<1>2. CASE Remount(p)
  <2> DEFINE E == {j \in Begun : jobs[j].page = p /\ jobs[j].pc = "refresh"}
  <2>1. jobs' = [k \in Begun |-> IF k \in E THEN Over(jobs[k]) ELSE jobs[k]]
    BY <1>2 DEF Remount
  <2>2. \A k \in E : jobs[k].pc = "refresh"
    OBVIOUS
  <2> HIDE DEF E
  <2> QED
    BY <2>1, <2>2, EndsLoseNothing
<1>3. ASSUME NEW kind, NEW ids, NEW dest, Run(p, kind, ids, dest) PROVE LostInv'
  <2> DEFINE job == [Job(p, kind, dest) EXCEPT !.pc = "next",
                        !.todo = TopLevelSelection(page[p].shown, ids), !.before = page[p].shown]
  <2>1. Begin(p, job) /\ job.lost = {}
    BY <1>3 DEF Run, Job
  <2> HIDE DEF job
  <2> QED
    BY <2>1, BeginLosesNothing
<1>4. ASSUME NEW f, NEW dest, CreateFolder(p, f, dest) PROVE LostInv'
  <2> DEFINE job == [Job(p, "create", dest) EXCEPT !.now = f]
  <2>1. Begin(p, job) /\ job.lost = {}
    BY <1>4 DEF CreateFolder, Job
  <2> HIDE DEF job
  <2> QED
    BY <2>1, BeginLosesNothing
<1>5. ASSUME NEW files, NEW dest, Upload(p, files, dest) PROVE LostInv'
  <2> DEFINE job == [Job(p, "upload", dest) EXCEPT !.files = files]
  <2>1. Begin(p, job) /\ job.lost = {}
    BY <1>5 DEF Upload, Job
  <2> HIDE DEF job
  <2> QED
    BY <2>1, BeginLosesNothing
<1> QED
  BY <1>1, <1>2, <1>3, <1>4, <1>5 DEF User

LEMMA RunStepLosesNothing ==
    ASSUME TypeOK, LostInv, NEW j \in Begun, RunStep(j)
    PROVE  LostInv'
<1> DEFINE job == jobs[j]
<1>0. job \in JobType
  BY JobOf
<1>1. ASSUME NEW r, Step(j, r), r.lost = job.lost, job.pc \notin {"upload", "over"}
      PROVE  LostInv'
  BY <1>1, NothingLost
<1>2. ASSUME NEW i \in Item, Validate(j, i) PROVE LostInv'
  <2> DEFINE r == [job EXCEPT !.pc = "apply", !.now = i]
  <2>1. r.lost = job.lost
    BY <1>0 DEF JobType
  <2>2. Step(j, r) /\ job.pc = "next"
    BY <1>2 DEF Validate, TakesUp, OnlyStep
  <2> HIDE DEF r
  <2> QED
    BY <1>1, <2>1, <2>2
<1>3. ASSUME NEW i \in Item, TakeBranch(j, i) PROVE LostInv'
  <2> DEFINE r == [job EXCEPT !.pc = "delete", !.now = i, !.rest = Descendants(job.before, i)]
  <2>1. r.lost = job.lost
    BY <1>0 DEF JobType
  <2>2. Step(j, r) /\ job.pc = "next"
    BY <1>3 DEF TakeBranch, TakesUp, OnlyStep
  <2> HIDE DEF r
  <2> QED
    BY <1>1, <2>1, <2>2
<1>4. ASSUME NEW i \in Item, Refuse(j, i) PROVE LostInv'
  BY <1>0, <1>1, <1>4, RunFields DEF Refuse, TakesUp, OnlyStep
<1>5. CASE MoveFails(j)
  BY <1>0, <1>1, <1>5, RunFields DEF MoveFails, OnlyStep
<1>6. CASE MoveSkipped(j)
  BY <1>0, <1>1, <1>6, RunFields DEF MoveSkipped, OnlyStep
<1>7. ASSUME NEW answered \in BOOLEAN, Move(j, answered) PROVE LostInv'
  BY <1>0, <1>1, <1>7, RunFields DEF Move
<1>8. ASSUME NEW c \in Item, NEW answered \in BOOLEAN, Delete(j, c, answered) PROVE LostInv'
  <2>1. PICK r \in {GoesOn(job, c), EndsBranch(job, c)} : Step(j, r) /\ job.pc = "delete"
    BY <1>8 DEF Delete
  <2> QED
    BY <1>0, <1>1, <2>1, BranchFields
<1>9. ASSUME NEW c \in Item, DeleteFails(j, c) \/ DeleteSkipped(j, c) PROVE LostInv'
  <2>1. PICK r \in {GoesOn(job, c), EndsBranch(job, c)} : Step(j, r) /\ job.pc = "delete"
    BY <1>9 DEF DeleteFails, DeleteSkipped, OnlyStep
  <2> QED
    BY <1>0, <1>1, <2>1, BranchFields
<1>10. CASE EndRun(j)
  BY <1>10, AwaitsRefreshLosesNothing DEF EndRun
<1> QED
  BY <1>2, <1>3, <1>4, <1>5, <1>6, <1>7, <1>8, <1>9, <1>10 DEF RunStep

(* A file that is stored is no longer missing, and what is yet to come is.  *)
LEMMA StoreFileFinds ==
    ASSUME TypeOK, LostInv, NEW j \in Begun, StoreFile(j)
    PROVE  LostInv'
<1> DEFINE job == jobs[j]
           r   == [job EXCEPT !.at = @ + 1, !.lost = @ \ {File(job)}]
<1>1. job \in JobType /\ job.pc = "upload" /\ job.at <= Len(job.files) /\ Step(j, r)
  BY JobOf DEF StoreFile
<1>2. /\ r.pc = "upload" /\ r.again = job.again /\ r.at = job.at + 1 /\ r.files = job.files
      /\ r.lost = job.lost \ {job.files[job.at]}
  BY <1>1 DEF JobType, File
<1> HIDE DEF r
<1>3. job.at \in Nat /\ Len(job.files) \in Nat
  BY <1>1 DEF JobType
<1>4. ToCome(job) \subseteq ToCome(r) \cup {job.files[job.at]}
  <2>1. job.at..Len(job.files) \subseteq (r.at..Len(r.files)) \cup {job.at}
    BY <1>2, <1>3
  <2> QED
    BY <1>2, <2>1 DEF ToCome
<1>5. job.lost = {} \/ (job.again /\ job.lost \subseteq ToCome(job))
  BY <1>1 DEF LostInv, LossOK
<1>6. LossOK(r)
  BY <1>2, <1>4, <1>5 DEF LossOK
<1> QED
  BY <1>1, <1>6, OneLossChanges

(* The batch that is uploaded once more holds the file that was deleted.    *)
LEMMA ReplaceLosesOne ==
    ASSUME TypeOK, LostInv, NEW j \in Begun, Replace(j)
    PROVE  LostInv'
<1> DEFINE job == jobs[j]
           r   == [job EXCEPT !.pc = "upload", !.at = 1, !.again = TRUE,
                              !.lost = @ \cup {File(job)}]
<1>1. job \in JobType /\ job.pc = "replace" /\ job.at <= Len(job.files) /\ Step(j, r)
  BY JobOf DEF Replace, TypeOK
<1>2. /\ r.pc = "upload" /\ r.again /\ r.at = 1 /\ r.files = job.files
      /\ r.lost = job.lost \cup {job.files[job.at]}
  BY <1>1 DEF JobType, File
<1> HIDE DEF r
<1>3. job.at \in 1..Len(job.files)
  BY <1>1 DEF JobType
<1>4. job.lost = {}
  BY <1>1 DEF LostInv, LossOK
<1>5. LossOK(r)
  BY <1>2, <1>3, <1>4 DEF LossOK, ToCome
<1> QED
  BY <1>1, <1>5, OneLossChanges

LEMMA MakeStepTells ==
    ASSUME TypeOK, LostInv, NEW j \in Begun, MakeStep(j)
    PROVE  LostInv'
<1> DEFINE job == jobs[j]
<1>0. job \in JobType
  BY JobOf
<1>1. CASE MakeFolder(j)
  <2> DEFINE r == [job EXCEPT !.pc = "created"]
  <2>1. r.lost = job.lost
    BY <1>0 DEF JobType
  <2>2. Step(j, r) /\ job.pc = "create"
    BY <1>1 DEF MakeFolder
  <2> HIDE DEF r
  <2> QED
    BY <2>1, <2>2, NothingLost
<1>2. CASE FolderMade(j)
  BY <1>2, AwaitsRefreshLosesNothing DEF FolderMade
<1>3. CASE MakingFails(j)
  BY <1>3, GivesUpTells DEF MakingFails
<1>4. CASE StoreFile(j)
  BY <1>4, StoreFileFinds
<1>5. CASE Conflict(j)
  <2> DEFINE r == [job EXCEPT !.pc = "confirm"]
  <2>1. r.lost = job.lost
    BY <1>0 DEF JobType
  <2>2. Step(j, r) /\ job.pc = "upload" /\ ~job.again
    BY <1>5 DEF Conflict, Conflicts, OnlyStep, Asks
  <2> HIDE DEF r
  <2>3. LossOK(r)
    BY <2>1, <2>2 DEF LostInv, LossOK
  <2> QED
    BY <2>2, <2>3, OneLossChanges
<1>6. CASE ConflictAgain(j)
  BY <1>6, GivesUpTells DEF ConflictAgain
<1>7. CASE UploadEnds(j)
  <2>1. Step(j, Over(job)) /\ job.pc = "upload" /\ job.at > Len(job.files)
    BY <1>7 DEF UploadEnds, Uploaded
  <2>2. ToCome(job) = {}
    <3>1. job.at \in Nat /\ Len(job.files) \in Nat
      BY <1>0 DEF JobType
    <3> QED
      BY <2>1, <3>1 DEF ToCome
  <2>3. LossOK(Over(job))
    BY <1>0, <2>1, <2>2, OverFields DEF LostInv, LossOK
  <2> QED
    BY <2>1, <2>3, OneLossChanges
<1>8. CASE Replace(j)
  BY <1>8, ReplaceLosesOne
<1>9. CASE ReplaceFails(j)
  BY <1>9, GivesUpTells DEF ReplaceFails
<1>10. CASE ReplaceSkipped(j)
  <2> DEFINE r == [job EXCEPT !.pc = "upload", !.at = 1, !.again = TRUE]
  <2>1. r.lost = job.lost
    BY <1>0 DEF JobType
  <2>2. Step(j, r) /\ job.pc = "replace"
    BY <1>10 DEF ReplaceSkipped, OnlyStep
  <2> HIDE DEF r
  <2> QED
    BY <2>1, <2>2, NothingLost
<1> QED
  BY <1>1, <1>2, <1>3, <1>4, <1>5, <1>6, <1>7, <1>8, <1>9, <1>10 DEF MakeStep

LEMMA AnswerLosesNothing ==
    ASSUME TypeOK, LostInv, Answer
    PROVE  LostInv'
<1>1. PICK j \in Begun : Decline(j) \/ Accept(j)
  BY DEF Answer
<1>2. CASE Decline(j)
  BY <1>2, JobOf, OverFields, NothingLost DEF Decline, Uploaded
<1>3. CASE Accept(j)
  <2> DEFINE r == [jobs[j] EXCEPT !.pc = "replace"]
  <2>1. r.lost = jobs[j].lost
    BY JobOf DEF JobType
  <2>2. Step(j, r) /\ jobs[j].pc = "confirm"
    BY <1>3 DEF Accept, OnlyStep
  <2> HIDE DEF r
  <2> QED
    BY <2>1, <2>2, NothingLost
<1> QED
  BY <1>1, <1>2, <1>3

LEMMA LoadStepLosesNothing ==
    ASSUME TypeOK, LostInv, LoadStep
    PROVE  LostInv'
<1>1. PICK l \in loads : ServeLoad(l) \/ Deliver(l) \/ LoadFails(l)
  BY DEF LoadStep
<1>2. CASE ServeLoad(l)
  BY <1>2 DEF ServeLoad, LostInv, LossOK, ToCome, Begun
<1>3. ASSUME NEW pg, Delivered(l, pg) PROVE LostInv'
  <2> DEFINE E == {j \in Begun : Awaits(j, l)}
  <2>1. jobs' = [k \in Begun |-> IF k \in E THEN Over(jobs[k]) ELSE jobs[k]]
    BY <1>3 DEF Delivered
  <2>2. \A k \in E : jobs[k].pc = "refresh"
    BY DEF Awaits
  <2> HIDE DEF E
  <2> QED
    BY <2>1, <2>2, EndsLoseNothing
<1> QED
  BY <1>1, <1>2, <1>3 DEF Deliver, LoadFails

LEMMA NextTells ==
    ASSUME TypeOK, LostInv, [Next]_vars
    PROVE  LostInv'
<1>1. ASSUME UNCHANGED jobs PROVE LostInv'
  BY <1>1 DEF LostInv, LossOK, ToCome, Begun
<1>2. CASE Tablet
  BY <1>1, <1>2 DEF Tablet, Edit
<1>3. CASE UNCHANGED vars
  BY <1>1, <1>3 DEF vars
<1>4. ASSUME NEW j \in JobId, JobStep(j) PROVE LostInv'
  BY <1>4, RunStepLosesNothing, MakeStepTells DEF JobStep
<1> QED
  BY <1>2, <1>3, <1>4, UserLosesNothing, AnswerLosesNothing, LoadStepLosesNothing DEF Next

(* An upload that has deleted a document to replace it is on its way to     *)
(* storing it, or has told its user that it failed.                         *)
THEOREM LossesAreTold == Spec => []LossIsTold
<1>1. Init => LostInv
  BY DEF Init, LostInv, Begun
<1>2. Inv /\ LostInv /\ [Next]_vars => LostInv'
  BY NextTells DEF Inv
<1>3. LostInv => LossIsTold
  BY DEF LostInv, LossOK, LossIsTold
<1> QED
  BY <1>1, <1>2, <1>3, Invariant, PTL DEF Spec

-----------------------------------------------------------------------------
(* Branches that are being deleted.                                         *)

Loopless(t) == \A f \in Folder : t[f] # f

NoLoops ==
    /\ \A p \in Page : Loopless(page[p].shown)
    /\ \A l \in loads : Loopless(l.list)
    /\ \A j \in Begun : Loopless(jobs[j].before)

Branch(job) == Descendants(job.before, job.now)

(* What is left of a branch holds with each item what is above it, and what *)
(* of the branch was deleted is gone or has come back unseen.               *)
BranchOK(job) ==
    /\ job.rest \subseteq Branch(job)
    /\ \A k \in job.rest : Branch(job) \cap Chain(job.before, k) \subseteq job.rest
    /\ \A k \in Branch(job) \ job.rest : parent[k] \in job.rest => k \in adrift

OrphansInv ==
    /\ NoOrphans
    /\ NoLoops
    /\ \A j \in Begun : jobs[j].pc = "delete" => BranchOK(jobs[j])

(* An item in a chain but the first is the folder of another of the chain.  *)
LEMMA AboveIsParent ==
    ASSUME NEW t, NEW k, NEW c \in Above(t, k)
    PROVE  \E m \in Chain(t, k) : t[m] = c
<1> DEFINE S == {a \in Above(t, k) : \E m \in Chain(t, k) : t[m] = a}
<1>1. S \in SUBSET Folder
  BY AboveIsClosed
<1>2. t[k] \in Folder => t[k] \in S
  BY AboveIsClosed DEF Chain
<1>3. UpClosed(t, S)
  BY AboveIsClosed DEF Chain, UpClosed
<1> QED
  BY <1>1, <1>2, <1>3, AboveIsLeast

LEMMA ChainInChain ==
    ASSUME NEW t, NEW k, NEW a \in Chain(t, k)
    PROVE  Chain(t, a) \subseteq Chain(t, k)
<1>1. CASE a = k
  BY <1>1
<1>2. CASE a \in Above(t, k)
  <2>1. Above(t, a) \subseteq Above(t, k)
    BY <1>2, AboveIsClosed, AboveIsLeast DEF UpClosed
  <2> QED
    BY <1>2, <2>1 DEF Chain
<1> QED
  BY <1>1, <1>2 DEF Chain

(* What is listed can be reached, so no folder is listed in itself.         *)
LEMMA ListingIsLoopless ==
    ASSUME NEW t \in Tree
    PROVE  Loopless(Listing(t))
<1> DEFINE q == Placed(t)
<1> SUFFICES ASSUME NEW f \in Folder, Listing(t)[f] = f PROVE FALSE
  BY DEF Loopless
<1>1. f \in Item /\ f # Absent /\ f \notin {Root, Trash}
  BY ItemAssumption DEF Item
<1>2. q[f] = f /\ \E a \in Chain(q, f) : q[a] \in {Root, Trash}
  BY <1>1 DEF Listing
<1>3. Above(q, f) \subseteq {f}
  <2>1. {f} \in SUBSET Folder /\ UpClosed(q, {f})
    BY <1>2 DEF UpClosed
  <2> QED
    BY <1>2, <2>1, AboveIsLeast
<1> QED
  BY <1>1, <1>2, <1>3 DEF Chain

LEMMA NothingIsLoopless == Loopless(Nothing)
BY ItemAssumption DEF Loopless, Nothing, Item

-----------------------------------------------------------------------------
(* What is shown, on its way or remembered was listed.                      *)

LEMMA AwaitsRefreshStep ==
    ASSUME TypeOK, NEW j \in Begun, AwaitsRefresh(j)
    PROVE  PagesStep
BY HereType, RefreshesStep, SamePages DEF AwaitsRefresh, Here

LEMMA GivesUpStep ==
    ASSUME TypeOK, NEW j \in Begun, NEW why, GivesUp(j, why)
    PROVE  PagesStep
<1> DEFINE pg == [Here(j) EXCEPT !.busy = FALSE, !.toast = TRUE]
<1>1. pg \in PageType /\ pg.shown = Here(j).shown
  BY HereType DEF PageType
<1>2. page' = OnPage(j, pg) /\ UNCHANGED loads
  BY DEF GivesUp
<1> HIDE DEF pg
<1> QED
  BY <1>1, <1>2, OnPageStep

LEMMA UploadedStep ==
    ASSUME TypeOK, NEW j \in Begun, Uploaded(j)
    PROVE  PagesStep
<1> DEFINE pg == [Here(j) EXCEPT !.busy = FALSE]
<1>1. jobs[j].page \in Page /\ pg \in PageType /\ pg.shown = page[jobs[j].page].shown
  BY HereType, PageFields DEF Here
<1>2. IF Heard(j) THEN Refreshes(jobs[j].page, pg) ELSE UNCHANGED <<page, loads>>
  BY DEF Uploaded
<1> HIDE DEF pg
<1> QED
  BY <1>1, <1>2, RefreshesStep, SamePages

LEMMA DeliverStep ==
    ASSUME TypeOK, NEW l \in loads, Deliver(l) \/ LoadFails(l)
    PROVE  PagesStep
<1>1. /\ page[l.page] \in PageType /\ l.list \in Tree /\ l.behind \in BOOLEAN
      /\ l.list \in Seen /\ page[l.page].shown \in Seen
  BY DEF TypeOK, LoadType, Seen
<1>2. CASE Deliver(l)
  <2> DEFINE pg == [page[l.page] EXCEPT !.shown = l.list, !.behind = l.behind,
                                        !.loading = FALSE, !.error = FALSE]
  <2>1. Delivered(l, pg)
    BY <1>2 DEF Deliver
  <2>2. pg \in PageType /\ pg.shown \in Seen
    BY <1>1 DEF PageType
  <2> HIDE DEF pg
  <2> QED
    BY <2>1, <2>2, DeliveredStep
<1>3. CASE LoadFails(l)
  <2> DEFINE pg == [page[l.page] EXCEPT !.loading = FALSE, !.error = TRUE]
  <2>1. Delivered(l, pg)
    BY <1>3 DEF LoadFails
  <2>2. pg \in PageType /\ pg.shown \in Seen
    BY <1>1 DEF PageType
  <2> HIDE DEF pg
  <2> QED
    BY <2>1, <2>2, DeliveredStep
<1> QED
  BY <1>2, <1>3

Remembered == Seen \cup {jobs[k].before : k \in Begun}

LEMMA NoLoopsStay ==
    ASSUME TypeOK, NoLoops, PagesStep,
           \A k \in DOMAIN jobs' : jobs'[k].before \in Remembered
    PROVE  NoLoops'
<1>1. \A t \in Seen : Loopless(t)
  BY NothingIsLoopless, ListingIsLoopless DEF Seen, NoLoops, TypeOK
<1>2. \A t \in Remembered : Loopless(t)
  BY <1>1 DEF Remembered, NoLoops
<1>3. \A p \in Page : \A f \in Folder : page'[p].shown[f] # f
  BY <1>1 DEF PagesStep, Loopless
<1>4. \A l \in loads' : \A f \in Folder : l.list[f] # f
  BY <1>1 DEF PagesStep, Loopless
<1>5. \A k \in DOMAIN jobs' : \A f \in Folder : jobs'[k].before[f] # f
  BY <1>2 DEF Loopless
<1> QED
  BY <1>3, <1>4, <1>5 DEF NoLoops, Loopless, Begun

-----------------------------------------------------------------------------
(* Branches.                                                                *)

(* Once it is a folder's turn, nothing that is left of the branch was       *)
(* listed below it.                                                         *)
LEMMA NoneBelow ==
    ASSUME NEW job \in JobType, Loopless(job.before), NEW c, IsNext(job, c),
           job.rest \subseteq Branch(job),
           \A k \in job.rest : Branch(job) \cap Chain(job.before, k) \subseteq job.rest,
           NEW k \in job.rest \ {c}
    PROVE  c \notin Chain(job.before, k)
<1> DEFINE t == job.before
<1> SUFFICES ASSUME c \in Chain(t, k) PROVE FALSE
  OBVIOUS
<1>1. c \in Above(t, k) /\ c \in Folder /\ c # Absent
  BY AboveIsClosed, ItemAssumption DEF Chain, Item
<1>2. PICK m \in Chain(t, k) : t[m] = c
  BY <1>1, AboveIsParent
<1>3. m \in Item
  <2>1. k \in Item
    BY DEF Branch, Descendants
  <2> QED
    BY <1>2, <2>1, AboveIsClosed DEF Chain, Item
<1>4. Chain(t, c) \subseteq Chain(t, m)
  <2>1. c \in Chain(t, m)
    BY <1>1, <1>2, AboveIsClosed DEF Chain
  <2> QED
    BY <2>1, ChainInChain
<1>5. m \in Branch(job)
  <2>1. job.now \in Chain(t, c)
    BY DEF Branch, Descendants, IsNext
  <2> QED
    BY <1>1, <1>2, <1>3, <1>4, <2>1 DEF Branch, Descendants, Exists
<1>6. m \in job.rest
  BY <1>2, <1>5
<1>7. m = c
  BY <1>2, <1>6 DEF IsNext
<1> QED
  BY <1>1, <1>2, <1>7 DEF Loopless

(* What was listed below an item of a branch is of the branch.              *)
LEMMA BelowInBranch ==
    ASSUME NEW job, NEW c \in Branch(job)
    PROVE  Descendants(job.before, c) \subseteq Branch(job)
BY ChainInChain DEF Branch, Descendants

(* Nothing in the tree changes, and no branch does but those of which it is *)
(* known.                                                                   *)
LEMMA OrphansStay ==
    ASSUME TypeOK, OrphansInv, PagesStep,
           \A k \in DOMAIN jobs' : jobs'[k].before \in Remembered,
           UNCHANGED parent, adrift \subseteq adrift',
           \A k \in DOMAIN jobs' : jobs'[k].pc = "delete" =>
               (k \in Begun /\ jobs'[k] = jobs[k]) \/ BranchOK(jobs[k])'
    PROVE  OrphansInv'
<1>1. NoLoops'
  BY NoLoopsStay DEF OrphansInv
<1>2. NoOrphans'
  BY DEF OrphansInv, NoOrphans, Exists
<1>3. ASSUME NEW k \in DOMAIN jobs', jobs'[k].pc = "delete" PROVE BranchOK(jobs[k])'
  <2>1. CASE k \in Begun /\ jobs'[k] = jobs[k]
    <3>1. BranchOK(jobs[k])
      BY <1>3, <2>1 DEF OrphansInv
    <3> QED
      BY <2>1, <3>1 DEF BranchOK, Branch
  <2> QED
    BY <1>3, <2>1
<1> QED
  BY <1>1, <1>2, <1>3 DEF OrphansInv, Begun

LEMMA OneStep ==
    ASSUME TypeOK, NEW j \in Begun, NEW r, Step(j, r), r.before \in {jobs[j].before, Nothing}
    PROVE  /\ DOMAIN jobs' = Begun /\ jobs'[j] = r
           /\ \A k \in Begun \ {j} : jobs'[k] = jobs[k]
           /\ \A k \in DOMAIN jobs' : jobs'[k].before \in Remembered
BY JobGoes DEF Remembered, Seen

LEMMA QuietOrphans ==
    ASSUME TypeOK, OrphansInv, PagesStep, NEW j \in Begun, NEW r, Step(j, r),
           r.before \in {jobs[j].before, Nothing}, r.pc # "delete", UNCHANGED <<parent, adrift>>
    PROVE  OrphansInv'
<1>1. /\ DOMAIN jobs' = Begun /\ jobs'[j] = r
      /\ \A k \in Begun \ {j} : jobs'[k] = jobs[k]
      /\ \A k \in DOMAIN jobs' : jobs'[k].before \in Remembered
  BY OneStep
<1> QED
  BY <1>1, OrphansStay

(* An item is put somewhere: unless it sees what becomes of the folder it   *)
(* is put in, it is adrift.                                                 *)
LEMMA PutOrphans ==
    ASSUME TypeOK, OrphansInv, PagesStep, NEW i \in Item, NEW place \in Place, NEW m,
           Put(i, place, m), DOMAIN jobs' = Begun,
           \A k \in Begun : jobs'[k].before \in Remembered,
           \A k \in Begun : jobs'[k] = jobs[k] \/ jobs'[k].pc # "delete"
    PROVE  OrphansInv'
<1>1. parent \in Tree /\ parent' = [parent EXCEPT ![i] = place]
  BY DEF TypeOK, Put
<1>2. parent'[i] = place /\ \A k \in Item \ {i} : parent'[k] = parent[k]
  BY <1>1 DEF Tree
<1>3. place # Absent /\ Folder \subseteq Item
  BY ItemAssumption DEF Place, Item
<1>4. adrift \ {i} \subseteq adrift'
  BY DEF Put
<1>5. place \in Folder /\ (~Exists(parent, place) \/ place \in Doomed) => i \in adrift'
  BY DEF Put
<1>6. NoLoops'
  BY NoLoopsStay DEF OrphansInv
<1>7. NoOrphans'
  <2>1. ASSUME NEW k \in Item, parent'[k] \in Folder, parent'[parent'[k]] = Absent
        PROVE  k \in adrift'
    <3>1. CASE k = i
      <4>1. place # i
        BY <1>2, <1>3, <2>1, <3>1
      <4> QED
        BY <1>2, <1>3, <1>5, <2>1, <3>1, <4>1 DEF Exists
    <3>2. CASE k # i
      <4>1. parent[k] \in Folder /\ parent[k] # i
        BY <1>2, <1>3, <2>1, <3>2
      <4>2. k \in adrift
        BY <1>2, <1>3, <2>1, <3>2, <4>1 DEF OrphansInv, NoOrphans, Exists
      <4> QED
        BY <1>4, <3>2, <4>2
    <3> QED
      BY <3>1, <3>2
  <2> QED
    BY <2>1 DEF NoOrphans, Exists
<1>8. ASSUME NEW k \in Begun, jobs'[k].pc = "delete" PROVE BranchOK(jobs[k])'
  <2> DEFINE job == jobs[k]
  <2>1. jobs'[k] = job /\ BranchOK(job) /\ job \in JobType
    BY <1>8, JobOf DEF OrphansInv
  <2>2. ASSUME NEW d \in Branch(job) \ job.rest, parent'[d] \in job.rest PROVE d \in adrift'
    <3>1. d \in Item /\ job.rest \subseteq Item
      BY <2>1 DEF Branch, Descendants, JobType
    <3>2. CASE d = i
      <4>1. place \in Folder
        BY <1>2, <2>2, <3>1, <3>2, ItemAssumption DEF Place, Item
      <4>2. place \in Doomed
        BY <1>2, <2>2, <3>2 DEF Doomed
      <4> QED
        BY <1>5, <3>2, <4>1, <4>2
    <3>3. CASE d # i
      BY <1>2, <1>4, <2>1, <2>2, <3>1, <3>3 DEF BranchOK
    <3> QED
      BY <3>2, <3>3
  <2>3. /\ job.rest \subseteq Branch(job)
        /\ \A d \in job.rest : Branch(job) \cap Chain(job.before, d) \subseteq job.rest
    BY <2>1 DEF BranchOK
  <2> QED
    BY <2>1, <2>2, <2>3 DEF BranchOK, Branch
<1> QED
  BY <1>6, <1>7, <1>8 DEF OrphansInv, Begun

(* The branches of others, when an item is gone.                            *)
LEMMA RemoveBranches ==
    ASSUME TypeOK, OrphansInv, NEW c \in Item, NEW known, NEW m, Remove(c, known, m),
           NEW job \in JobType, BranchOK(job)
    PROVE  \A d \in Branch(job) \ job.rest : parent'[d] \in job.rest => d \in adrift'
<1>1. /\ \A k \in Item \ {c} : parent'[k] = parent[k]
      /\ parent'[c] = Absent /\ adrift \ {c} \subseteq adrift'
  BY DEF Remove, TypeOK, Tree
<1>2. Branch(job) \subseteq Item /\ Absent \notin job.rest
  BY ItemAssumption DEF Branch, Descendants, JobType
<1> QED
  BY <1>1, <1>2 DEF BranchOK

(* What was in an item that is gone, and not known to be in it, is adrift.  *)
LEMMA RemoveOrphans ==
    ASSUME TypeOK, OrphansInv, PagesStep, NEW c \in Item, NEW known, NEW m, Remove(c, known, m),
           \A k \in known \ {c} : k \in Item /\ parent[k] = c => k \in adrift,
           DOMAIN jobs' = Begun,
           \A k \in Begun : jobs'[k].before \in Remembered,
           \A k \in Begun : jobs'[k].pc = "delete" => jobs'[k] = jobs[k] \/ BranchOK(jobs[k])'
    PROVE  OrphansInv'
<1>1. /\ \A k \in Item \ {c} : parent'[k] = parent[k]
      /\ parent'[c] = Absent /\ adrift \ {c} \subseteq adrift'
      /\ \A k \in Item : parent[k] = c /\ k \notin known => k \in adrift'
  BY DEF Remove, TypeOK, Tree
<1>2. Folder \subseteq Item /\ Absent \notin Item
  BY ItemAssumption DEF Item
<1>3. NoLoops'
  BY NoLoopsStay DEF OrphansInv
<1>4. NoOrphans'
  <2>1. ASSUME NEW k \in Item, parent'[k] \in Folder, parent'[parent'[k]] = Absent
        PROVE  k \in adrift'
    <3>1. k # c /\ parent'[k] = parent[k] /\ parent[k] \in Folder
      BY <1>1, <1>2, <2>1
    <3>2. CASE parent[k] = c
      BY <1>1, <3>1, <3>2
    <3>3. CASE parent[k] # c
      <4>1. k \in adrift
        BY <1>1, <1>2, <2>1, <3>1, <3>3 DEF OrphansInv, NoOrphans, Exists
      <4> QED
        BY <1>1, <3>1, <4>1
    <3> QED
      BY <3>2, <3>3
  <2> QED
    BY <2>1 DEF NoOrphans, Exists
<1>5. ASSUME NEW k \in Begun, jobs'[k].pc = "delete" PROVE BranchOK(jobs[k])'
  <2>1. CASE jobs'[k] = jobs[k]
    <3>1. BranchOK(jobs[k]) /\ jobs[k] \in JobType
      BY <1>5, <2>1, JobOf DEF OrphansInv
    <3>2. \A d \in Branch(jobs[k]) \ jobs[k].rest : parent'[d] \in jobs[k].rest => d \in adrift'
      BY <3>1, RemoveBranches
    <3> QED
      BY <2>1, <3>1, <3>2 DEF BranchOK, Branch
  <2> QED
    BY <1>5, <2>1
<1> QED
  BY <1>3, <1>4, <1>5 DEF OrphansInv, Begun

(* The item whose turn it is has been dealt with, and the branch goes on.   *)
LEMMA BranchShrinks ==
    ASSUME NEW job \in JobType, Loopless(job.before), NEW c, IsNext(job, c),
           job.pc = "delete", BranchOK(job), GoesOn(job, c).pc = "delete",
           \A d \in Branch(job) \ job.rest : parent'[d] \in job.rest => d \in adrift',
           parent'[c] \in job.rest => c \in adrift'
    PROVE  BranchOK(GoesOn(job, c))'
<1> DEFINE r == [job EXCEPT !.rest = @ \ {c}]
<1>1. GoesOn(job, c) = r
  <2>1. Succeeds([job EXCEPT !.rest = {}], job.now).pc = "next"
    BY DEF Succeeds, JobType
  <2> QED
    BY <2>1 DEF GoesOn
<1>2. r.rest = job.rest \ {c} /\ r.before = job.before /\ r.now = job.now
  BY DEF JobType
<1> HIDE DEF r
<1>3. Branch(r) = Branch(job)
  BY <1>2 DEF Branch
<1>4. /\ job.rest \subseteq Branch(job)
      /\ \A k \in job.rest : Branch(job) \cap Chain(job.before, k) \subseteq job.rest
  BY DEF BranchOK
<1>5. \A k \in r.rest : Branch(r) \cap Chain(r.before, k) \subseteq r.rest
  BY <1>2, <1>3, <1>4, NoneBelow
<1>6. \A d \in Branch(r) \ r.rest : parent'[d] \in r.rest => d \in adrift'
  BY <1>2, <1>3
<1>7. r.rest \subseteq Branch(r)
  BY <1>2, <1>3, <1>4
<1> QED
  BY <1>1, <1>2, <1>5, <1>6, <1>7 DEF BranchOK, Branch

LEMMA BeginOrphans ==
    ASSUME TypeOK, OrphansInv, NEW p \in Page, NEW job, Begin(p, job), job.pc # "delete",
           job.before \in Seen
    PROVE  OrphansInv'
<1>1. PagesStep /\ UNCHANGED <<parent, adrift>>
  BY BeginStep DEF Begin, TreeUnchanged
<1>2. PICK n : n = Len(jobs) + 1
  OBVIOUS
<1>3. /\ DOMAIN jobs' = Begun \cup {n} /\ n \notin Begun /\ jobs'[n] = job
      /\ \A k \in Begun : jobs'[k] = jobs[k]
  BY <1>2 DEF Begin, TypeOK, Begun
<1>4. \A k \in DOMAIN jobs' : jobs'[k].before \in Remembered
  BY <1>3 DEF Remembered
<1> QED
  BY <1>1, <1>3, <1>4, OrphansStay

LEMMA OverOrphans ==
    ASSUME TypeOK, OrphansInv, PagesStep, UNCHANGED <<parent, adrift>>, NEW E,
           jobs' = [k \in Begun |-> IF k \in E THEN Over(jobs[k]) ELSE jobs[k]]
    PROVE  OrphansInv'
<1>1. ASSUME NEW k \in Begun
      PROVE  jobs'[k] = jobs[k] \/ (jobs'[k].before = Nothing /\ jobs'[k].pc = "over")
  BY JobOf, OverFields
<1>2. DOMAIN jobs' = Begun
  OBVIOUS
<1>3. \A k \in DOMAIN jobs' : jobs'[k].before \in Remembered
  BY <1>1, <1>2 DEF Remembered, Seen
<1> QED
  BY <1>1, <1>2, <1>3, OrphansStay

LEMMA UserOrphans ==
    ASSUME TypeOK, OrphansInv, NEW p \in Page, User(p)
    PROVE  OrphansInv'
<1>1. CASE Refresh(p)
  <2>1. PagesStep /\ UNCHANGED <<parent, adrift, jobs>>
    BY <1>1, RefreshesStep DEF Refresh, TreeUnchanged, TypeOK
  <2>2. \A k \in DOMAIN jobs' : k \in Begun /\ jobs'[k] = jobs[k]
    BY <2>1 DEF Begun
  <2> QED
    BY <2>1, <2>2, OrphansStay DEF Remembered
<1>2. CASE Remount(p)
  <2> DEFINE E == {j \in Begun : jobs[j].page = p /\ jobs[j].pc = "refresh"}
  <2>1. jobs' = [k \in Begun |-> IF k \in E THEN Over(jobs[k]) ELSE jobs[k]]
    BY <1>2 DEF Remount
  <2>2. PagesStep /\ UNCHANGED <<parent, adrift>>
    BY <1>2, RemountStep DEF Remount, TreeUnchanged
  <2> HIDE DEF E
  <2> QED
    BY <2>1, <2>2, OverOrphans
<1>3. ASSUME NEW kind, NEW ids, NEW dest, Run(p, kind, ids, dest) PROVE OrphansInv'
  <2> DEFINE job == [Job(p, kind, dest) EXCEPT !.pc = "next",
                        !.todo = TopLevelSelection(page[p].shown, ids), !.before = page[p].shown]
  <2>1. Begin(p, job) /\ job.pc = "next" /\ job.before = page[p].shown
    BY <1>3 DEF Run, Job
  <2> HIDE DEF job
  <2> QED
    BY <2>1, BeginOrphans DEF Seen
<1>4. ASSUME NEW f, NEW dest, CreateFolder(p, f, dest) PROVE OrphansInv'
  <2> DEFINE job == [Job(p, "create", dest) EXCEPT !.now = f]
  <2>1. Begin(p, job) /\ job.pc = "create" /\ job.before = Nothing
    BY <1>4 DEF CreateFolder, Job
  <2> HIDE DEF job
  <2> QED
    BY <2>1, BeginOrphans DEF Seen
<1>5. ASSUME NEW files, NEW dest, Upload(p, files, dest) PROVE OrphansInv'
  <2> DEFINE job == [Job(p, "upload", dest) EXCEPT !.files = files]
  <2>1. Begin(p, job) /\ job.pc = "upload" /\ job.before = Nothing
    BY <1>5 DEF Upload, Job
  <2> HIDE DEF job
  <2> QED
    BY <2>1, BeginOrphans DEF Seen
<1> QED
  BY <1>1, <1>2, <1>3, <1>4, <1>5 DEF User

LEMMA LoadStepOrphans ==
    ASSUME TypeOK, OrphansInv, LoadStep
    PROVE  OrphansInv'
<1>1. PICK l \in loads : ServeLoad(l) \/ Deliver(l) \/ LoadFails(l)
  BY DEF LoadStep
<1>2. CASE ServeLoad(l)
  <2>1. PagesStep /\ UNCHANGED <<parent, adrift, jobs>>
    BY <1>2, ServeLoadStep DEF ServeLoad, TreeUnchanged
  <2>2. \A k \in DOMAIN jobs' : k \in Begun /\ jobs'[k] = jobs[k]
    BY <2>1 DEF Begun
  <2> QED
    BY <2>1, <2>2, OrphansStay DEF Remembered
<1>3. ASSUME NEW pg, Delivered(l, pg), PagesStep PROVE OrphansInv'
  <2> DEFINE E == {j \in Begun : Awaits(j, l)}
  <2>1. jobs' = [k \in Begun |-> IF k \in E THEN Over(jobs[k]) ELSE jobs[k]]
    BY <1>3 DEF Delivered
  <2>2. UNCHANGED <<parent, adrift>>
    BY <1>3 DEF Delivered, TreeUnchanged
  <2> HIDE DEF E
  <2> QED
    BY <1>3, <2>1, <2>2, OverOrphans
<1>4. Deliver(l) \/ LoadFails(l) => PagesStep
  BY DeliverStep
<1> QED
  BY <1>1, <1>2, <1>3, <1>4 DEF Deliver, LoadFails

(* A job goes on, and nothing else changes.                                 *)
LEMMA OnlyStepOrphans ==
    ASSUME TypeOK, OrphansInv, NEW j \in Begun, NEW r, OnlyStep(j, r),
           r.before = jobs[j].before, r.pc # "delete"
    PROVE  OrphansInv'
BY SamePages, QuietOrphans DEF OnlyStep, TreeUnchanged

LEMMA AwaitsRefreshOrphans ==
    ASSUME TypeOK, OrphansInv, NEW j \in Begun, AwaitsRefresh(j)
    PROVE  OrphansInv'
<1> DEFINE r == [jobs[j] EXCEPT !.pc = "refresh", !.awaited = Here(j).request + 1]
<1>1. /\ r.before = jobs[j].before /\ r.pc = "refresh"
      /\ Over(jobs[j]).before = Nothing /\ Over(jobs[j]).pc = "over"
  BY JobOf, OverFields DEF JobType
<1>2. Step(j, r) \/ Step(j, Over(jobs[j]))
  BY DEF AwaitsRefresh
<1>3. PagesStep /\ UNCHANGED <<parent, adrift>>
  BY AwaitsRefreshStep DEF AwaitsRefresh, TreeUnchanged
<1> HIDE DEF r
<1> QED
  BY <1>1, <1>2, <1>3, QuietOrphans

LEMMA GivesUpOrphans ==
    ASSUME TypeOK, OrphansInv, NEW j \in Begun, NEW why, GivesUp(j, why)
    PROVE  OrphansInv'
<1> DEFINE r == [Over(jobs[j]) EXCEPT !.told = why]
<1>1. r.before = Nothing /\ r.pc = "over" /\ Step(j, r)
  BY JobOf, OverToldFields DEF GivesUp
<1>2. PagesStep /\ UNCHANGED <<parent, adrift>>
  BY GivesUpStep DEF GivesUp, TreeUnchanged
<1> HIDE DEF r
<1> QED
  BY <1>1, <1>2, QuietOrphans

LEMMA UploadedOrphans ==
    ASSUME TypeOK, OrphansInv, NEW j \in Begun, Uploaded(j)
    PROVE  OrphansInv'
<1>1. Over(jobs[j]).before = Nothing /\ Over(jobs[j]).pc = "over" /\ Step(j, Over(jobs[j]))
  BY JobOf, OverFields DEF Uploaded
<1>2. PagesStep /\ UNCHANGED <<parent, adrift>>
  BY UploadedStep DEF Uploaded, TreeUnchanged
<1> QED
  BY <1>1, <1>2, QuietOrphans

(* A job puts an item somewhere and is not deleting a branch.               *)
LEMMA JobPutsOrphans ==
    ASSUME TypeOK, OrphansInv, NEW j \in Begun, NEW r, Step(j, r), Behind(j),
           r.before = jobs[j].before, r.pc # "delete",
           NEW i \in Item, Put(i, jobs[j].dest, j)
    PROVE  OrphansInv'
<1>1. /\ DOMAIN jobs' = Begun /\ jobs'[j] = r
      /\ \A k \in Begun \ {j} : jobs'[k] = jobs[k]
      /\ \A k \in DOMAIN jobs' : jobs'[k].before \in Remembered
  BY OneStep
<1>2. jobs[j].dest \in Place
  BY JobOf DEF JobType, Place
<1> QED
  BY <1>1, <1>2, BehindStep, PutOrphans

LEMMA TakeBranchOrphans ==
    ASSUME TypeOK, OrphansInv, NEW j \in Begun, NEW i \in Item, TakeBranch(j, i)
    PROVE  OrphansInv'
<1> DEFINE job == jobs[j]
           r   == [job EXCEPT !.pc = "delete", !.now = i, !.rest = Descendants(job.before, i)]
<1>1. OnlyStep(j, r) /\ job \in JobType
  BY JobOf DEF TakeBranch
<1>2. r.before = job.before /\ r.now = i /\ r.rest = Descendants(job.before, i)
  BY <1>1 DEF JobType
<1> HIDE DEF r
<1>3. /\ DOMAIN jobs' = Begun /\ jobs'[j] = r
      /\ \A k \in Begun \ {j} : jobs'[k] = jobs[k]
      /\ \A k \in DOMAIN jobs' : jobs'[k].before \in Remembered
  BY <1>1, <1>2, OneStep DEF OnlyStep
<1>4. BranchOK(jobs[j])'
  BY <1>2, <1>3 DEF BranchOK, Branch
<1>5. PagesStep /\ UNCHANGED <<parent, adrift>>
  BY <1>1, SamePages DEF OnlyStep, TreeUnchanged
<1> QED
  BY <1>3, <1>4, <1>5, OrphansStay

LEMMA DeleteSkippedOrphans ==
    ASSUME TypeOK, OrphansInv, NEW j \in Begun, NEW c \in Item, DeleteSkipped(j, c)
    PROVE  OrphansInv'
<1>0. PICK job : job = jobs[j]
  OBVIOUS
<1> DEFINE r == GoesOn(job, c)
<1>1. job \in JobType /\ job.pc = "delete" /\ IsNext(job, c) /\ Step(j, r) /\ BranchOK(job)
  BY <1>0, JobOf DEF DeleteSkipped, OrphansInv
<1>2. r.before = job.before
  BY <1>1, BranchFields
<1>3. /\ DOMAIN jobs' = Begun /\ jobs'[j] = r
      /\ \A k \in Begun \ {j} : jobs'[k] = jobs[k]
      /\ \A k \in DOMAIN jobs' : jobs'[k].before \in Remembered
  BY <1>0, <1>1, <1>2, OneStep
<1>4. PagesStep /\ UNCHANGED parent /\ adrift \subseteq adrift'
  BY SamePages DEF DeleteSkipped
<1>5. r.pc = "delete" => BranchOK(r)'
  <2>1. \A d \in Branch(job) \ job.rest : parent'[d] \in job.rest => d \in adrift'
    BY <1>1, <1>4 DEF BranchOK
  <2>2. parent'[c] \in job.rest => c \in adrift'
    <3>1. parent'[c] \in job.rest => Exists(parent, c)
      BY <1>1, <1>4, ItemAssumption DEF Exists, JobType
    <3> QED
      BY <1>0, <3>1 DEF DeleteSkipped
  <2>3. Loopless(job.before)
    BY <1>0 DEF OrphansInv, NoLoops
  <2> QED
    BY <1>1, <2>1, <2>2, <2>3, BranchShrinks
<1> HIDE DEF r
<1>6. r.pc = "delete" => BranchOK(jobs[j])'
  BY <1>3, <1>5 DEF BranchOK, Branch
<1> QED
  BY <1>3, <1>4, <1>6, OrphansStay

LEMMA DeleteOrphans ==
    ASSUME TypeOK, OrphansInv, NEW j \in Begun, NEW c \in Item, NEW answered \in BOOLEAN,
           Delete(j, c, answered)
    PROVE  OrphansInv'
<1>0. PICK job : job = jobs[j]
  OBVIOUS
<1> DEFINE r == IF answered THEN GoesOn(job, c) ELSE EndsBranch(job, c)
<1>1. /\ job \in JobType /\ job.pc = "delete" /\ IsNext(job, c) /\ Step(j, r) /\ BranchOK(job)
      /\ Remove(c, Descendants(job.before, c), j) /\ Behind(j)
  BY <1>0, JobOf DEF Delete, OrphansInv
<1>2. Loopless(job.before)
  BY <1>0 DEF OrphansInv, NoLoops
<1>3. r.before = job.before
  BY <1>1, BranchFields
<1>4. /\ DOMAIN jobs' = Begun /\ jobs'[j] = r
      /\ \A k \in Begun \ {j} : jobs'[k] = jobs[k]
      /\ \A k \in DOMAIN jobs' : jobs'[k].before \in Remembered
  BY <1>0, <1>1, <1>3, OneStep
<1>5. r.pc = "delete" => BranchOK(r)'
  <2>1. ASSUME r.pc = "delete" PROVE r = GoesOn(job, c)
    BY <1>1, <2>1, RunFields DEF EndsBranch
  <2>2. \A d \in Branch(job) \ job.rest : parent'[d] \in job.rest => d \in adrift'
    BY <1>1, RemoveBranches
  <2>3. parent'[c] \notin job.rest
    <3>1. parent'[c] = Absent
      BY <1>1 DEF Remove, TypeOK, Tree
    <3> QED
      BY <1>1, <3>1, ItemAssumption DEF JobType
  <2> HIDE DEF r
  <2> QED
    BY <1>1, <1>2, <2>1, <2>2, <2>3, BranchShrinks
<1>6. ASSUME NEW k \in Descendants(job.before, c) \ {c}, parent[k] = c
      PROVE  k \in adrift
  <2>1. job.rest \subseteq Branch(job) /\ c \in job.rest
    BY <1>1 DEF BranchOK, IsNext
  <2>2. k \in Branch(job) /\ c \in Chain(job.before, k)
    BY <2>1, BelowInBranch DEF Descendants
  <2>3. k \notin job.rest
    BY <1>1, <1>2, <1>6, <2>2, NoneBelow DEF BranchOK
  <2> QED
    BY <1>1, <1>6, <2>1, <2>2, <2>3 DEF BranchOK
<1> HIDE DEF r
<1>7. r.pc = "delete" => BranchOK(jobs[j])'
  BY <1>4, <1>5 DEF BranchOK, Branch
<1>8. PagesStep
  BY <1>1, BehindStep
<1>9. \A k \in Begun : jobs'[k].pc = "delete" => jobs'[k] = jobs[k] \/ BranchOK(jobs[k])'
  BY <1>4, <1>7
<1> QED
  BY <1>1, <1>4, <1>6, <1>8, <1>9, RemoveOrphans

LEMMA RunStepOrphans ==
    ASSUME TypeOK, OrphansInv, NEW j \in Begun, RunStep(j)
    PROVE  OrphansInv'
<1> DEFINE job == jobs[j]
<1>0. job \in JobType
  BY JobOf
<1>1. ASSUME NEW i \in Item, Validate(j, i) PROVE OrphansInv'
  <2> DEFINE r == [job EXCEPT !.pc = "apply", !.now = i]
  <2>1. r.before = job.before /\ r.pc = "apply" /\ OnlyStep(j, r)
    BY <1>0, <1>1 DEF Validate, JobType
  <2> HIDE DEF r
  <2> QED
    BY <2>1, OnlyStepOrphans
<1>2. ASSUME NEW i \in Item, Refuse(j, i) PROVE OrphansInv'
  BY <1>0, <1>2, RunFields, OnlyStepOrphans DEF Refuse
<1>3. ASSUME NEW i \in Item, TakeBranch(j, i) PROVE OrphansInv'
  BY <1>3, TakeBranchOrphans
<1>4. ASSUME NEW answered \in BOOLEAN, Move(j, answered) PROVE OrphansInv'
  <2> DEFINE r == IF answered THEN Succeeds(job, job.now) ELSE Fails(job, job.now)
  <2>1. job.now \in Item /\ Put(job.now, job.dest, j) /\ Step(j, r) /\ Behind(j)
    BY <1>4 DEF Move, TypeOK
  <2>2. r.before = job.before /\ r.pc = "next"
    BY <1>0, RunFields
  <2> HIDE DEF r
  <2> QED
    BY <2>1, <2>2, JobPutsOrphans
<1>5. CASE MoveFails(j)
  BY <1>0, <1>5, RunFields, OnlyStepOrphans DEF MoveFails
<1>6. CASE MoveSkipped(j)
  BY <1>0, <1>6, RunFields, OnlyStepOrphans DEF MoveSkipped
<1>7. ASSUME NEW c \in Item, NEW answered \in BOOLEAN, Delete(j, c, answered) PROVE OrphansInv'
  BY <1>7, DeleteOrphans
<1>8. ASSUME NEW c \in Item, DeleteFails(j, c) PROVE OrphansInv'
  BY <1>0, <1>8, RunFields, OnlyStepOrphans DEF DeleteFails, EndsBranch
<1>9. ASSUME NEW c \in Item, DeleteSkipped(j, c) PROVE OrphansInv'
  BY <1>9, DeleteSkippedOrphans
<1>10. CASE EndRun(j)
  BY <1>10, AwaitsRefreshOrphans DEF EndRun
<1> QED
  BY <1>1, <1>2, <1>3, <1>4, <1>5, <1>6, <1>7, <1>8, <1>9, <1>10 DEF RunStep

LEMMA ReplaceOrphans ==
    ASSUME TypeOK, OrphansInv, NEW j \in Begun, Replace(j)
    PROVE  OrphansInv'
<1> DEFINE job == jobs[j]
           r   == [job EXCEPT !.pc = "upload", !.at = 1, !.again = TRUE,
                              !.lost = @ \cup {File(job)}]
<1>1. job \in JobType /\ job.at <= Len(job.files) /\ Step(j, r) /\ Behind(j)
      /\ Remove(File(job), {}, j)
  BY JobOf DEF Replace, TypeOK
<1>2. r.before = job.before /\ r.pc = "upload" /\ File(job) \in Item
  BY <1>1, FileType DEF JobType, Item
<1> HIDE DEF r
<1>3. /\ DOMAIN jobs' = Begun /\ jobs'[j] = r
      /\ \A k \in Begun \ {j} : jobs'[k] = jobs[k]
      /\ \A k \in DOMAIN jobs' : jobs'[k].before \in Remembered
  BY <1>1, <1>2, OneStep
<1>4. PagesStep
  BY <1>1, BehindStep
<1>5. \A k \in Begun : jobs'[k].pc = "delete" => jobs'[k] = jobs[k] \/ BranchOK(jobs[k])'
  BY <1>2, <1>3
<1>6. PICK d \in Item : d = File(job)
  BY <1>2
<1> QED
  BY <1>1, <1>3, <1>4, <1>5, <1>6, RemoveOrphans

LEMMA MakeStepOrphans ==
    ASSUME Inv, OrphansInv, NEW j \in Begun, MakeStep(j)
    PROVE  OrphansInv'
<1> DEFINE job == jobs[j]
<1>0. TypeOK /\ job \in JobType
  BY JobOf DEF Inv
<1>1. CASE MakeFolder(j)
  <2> DEFINE r == [job EXCEPT !.pc = "created"]
  <2>1. r.before = job.before /\ r.pc = "created"
    BY <1>0 DEF JobType
  <2>2. Put(job.now, job.dest, j) /\ Step(j, r) /\ Behind(j)
    BY <1>1 DEF MakeFolder
  <2>3. job.now \in Item
    BY <1>1 DEF MakeFolder, Inv, Making, TypeOK, Item
  <2> HIDE DEF r
  <2> QED
    BY <1>0, <2>1, <2>2, <2>3, JobPutsOrphans
<1>2. CASE FolderMade(j)
  BY <1>0, <1>2, AwaitsRefreshOrphans DEF FolderMade
<1>3. CASE MakingFails(j)
  BY <1>0, <1>3, GivesUpOrphans DEF MakingFails
<1>4. CASE StoreFile(j)
  <2> DEFINE r == [job EXCEPT !.at = @ + 1, !.lost = @ \ {File(job)}]
  <2>1. r.before = job.before /\ r.pc = job.pc
    BY <1>0 DEF JobType
  <2>2. Put(File(job), job.dest, j) /\ Step(j, r) /\ Behind(j) /\ job.pc = "upload"
    BY <1>4 DEF StoreFile
  <2>3. File(job) \in Item
    BY <1>0, <1>4, FileType DEF StoreFile, Item
  <2> HIDE DEF r
  <2> QED
    BY <1>0, <2>1, <2>2, <2>3, JobPutsOrphans
<1>5. CASE Conflict(j)
  <2> DEFINE r == [job EXCEPT !.pc = "confirm"]
  <2>1. r.before = job.before /\ r.pc = "confirm" /\ OnlyStep(j, r)
    BY <1>0, <1>5 DEF Conflict, JobType
  <2> HIDE DEF r
  <2> QED
    BY <1>0, <2>1, OnlyStepOrphans
<1>6. CASE ConflictAgain(j)
  BY <1>0, <1>6, GivesUpOrphans DEF ConflictAgain
<1>7. CASE UploadEnds(j)
  BY <1>0, <1>7, UploadedOrphans DEF UploadEnds
<1>8. CASE Replace(j)
  BY <1>0, <1>8, ReplaceOrphans
<1>9. CASE ReplaceFails(j)
  BY <1>0, <1>9, GivesUpOrphans DEF ReplaceFails
<1>10. CASE ReplaceSkipped(j)
  <2> DEFINE r == [job EXCEPT !.pc = "upload", !.at = 1, !.again = TRUE]
  <2>1. r.before = job.before /\ r.pc = "upload" /\ OnlyStep(j, r)
    BY <1>0, <1>10 DEF ReplaceSkipped, JobType
  <2> HIDE DEF r
  <2> QED
    BY <1>0, <2>1, OnlyStepOrphans
<1> QED
  BY <1>1, <1>2, <1>3, <1>4, <1>5, <1>6, <1>7, <1>8, <1>9, <1>10 DEF MakeStep

LEMMA AnswerOrphans ==
    ASSUME TypeOK, OrphansInv, Answer
    PROVE  OrphansInv'
<1>1. PICK j \in Begun : Decline(j) \/ Accept(j)
  BY DEF Answer
<1>2. CASE Decline(j)
  BY <1>2, UploadedOrphans DEF Decline
<1>3. CASE Accept(j)
  <2> DEFINE r == [jobs[j] EXCEPT !.pc = "replace"]
  <2>1. r.before = jobs[j].before /\ r.pc = "replace" /\ OnlyStep(j, r)
    BY <1>3, JobOf DEF Accept, JobType
  <2> HIDE DEF r
  <2> QED
    BY <2>1, OnlyStepOrphans
<1> QED
  BY <1>1, <1>2, <1>3

LEMMA EditOrphans ==
    ASSUME TypeOK, OrphansInv, NEW i \in Item, NEW place \in Place, Edit(i, place)
    PROVE  OrphansInv'
<1>1. Put(i, place, 0) /\ UNCHANGED <<page, loads, jobs>>
  BY DEF Edit
<1>2. PagesStep /\ DOMAIN jobs' = Begun /\ \A k \in Begun : jobs'[k] = jobs[k]
  BY <1>1, SamePages DEF Begun
<1> QED
  BY <1>1, <1>2, PutOrphans DEF Remembered

LEMMA NextOrphans ==
    ASSUME Inv, OrphansInv, [Next]_vars
    PROVE  OrphansInv'
<1>0. TypeOK
  BY DEF Inv
<1>1. ASSUME NEW p \in Page, User(p) PROVE OrphansInv'
  BY <1>0, <1>1, UserOrphans
<1>2. CASE Answer
  BY <1>0, <1>2, AnswerOrphans
<1>3. CASE Tablet
  BY <1>0, <1>3, InputAssumption, EditOrphans DEF Tablet
<1>4. CASE LoadStep
  BY <1>0, <1>4, LoadStepOrphans
<1>5. ASSUME NEW j \in JobId, JobStep(j) PROVE OrphansInv'
  BY <1>0, <1>5, RunStepOrphans, MakeStepOrphans DEF JobStep
<1>6. CASE UNCHANGED vars
  <2>1. PagesStep /\ UNCHANGED <<parent, adrift>> /\ DOMAIN jobs' = Begun
        /\ \A k \in Begun : jobs'[k] = jobs[k]
    BY <1>0, <1>6, SamePages DEF vars, Begun
  <2> QED
    BY <1>0, <2>1, OrphansStay DEF Remembered
<1> QED
  BY <1>1, <1>2, <1>3, <1>4, <1>5, <1>6 DEF Next

LEMMA InitOrphans ==
    ASSUME Init
    PROVE  OrphansInv
<1>1. NoOrphans
  BY TreesAssumption DEF Init, NoOrphans
<1>2. (\A p \in Page : page[p].shown = Nothing) /\ (\A l \in loads : l.list = Nothing)
  BY DEF Init, Opened, Load
<1>3. Begun = {}
  BY DEF Init, Begun
<1>4. NoLoops
  BY <1>2, <1>3, NothingIsLoopless DEF NoLoops
<1> QED
  BY <1>1, <1>3, <1>4 DEF OrphansInv

(* A folder is deleted after all that was listed in it, by whichever page   *)
(* and after however many failures: what is left without a folder came      *)
(* there unseen, or was answered as deleted and was not.                    *)
THEOREM NothingIsOrphaned == Spec => []NoOrphans
<1>1. Init => OrphansInv
  BY InitOrphans
<1>2. Inv /\ OrphansInv /\ [Next]_vars => OrphansInv'
  BY NextOrphans
<1>3. OrphansInv => NoOrphans
  BY DEF OrphansInv
<1> QED
  BY <1>1, <1>2, <1>3, Invariant, PTL DEF Spec

=============================================================================
