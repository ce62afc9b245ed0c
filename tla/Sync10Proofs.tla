------------------------------ MODULE Sync10Proofs ------------------------------
(***************************************************************************)
(* What is proved of Sync10, for any documents and any number of requests, *)
(* failures and stops.                                                     *)
(***************************************************************************)
EXTENDS Sync10, SequenceTheorems, TLAPS

(* What is in the directory has not been announced as deleted, and every    *)
(* announcement took away an archive.                                       *)
Present(d) == IF IsFile(dir[d].zip) THEN 1 ELSE 0

Accounted == \A d \in Doc : deleted[d] + Present(d) = made[d]

Inv == TypeOK /\ Accounted

-----------------------------------------------------------------------------
(* Files.                                                                   *)

LEMMA InitInv == Init => Inv
<1> SUFFICES ASSUME Init PROVE Inv
  OBVIOUS
<1>1. PICK stored \in SUBSET Doc :
         /\ dir = [d \in Doc |-> Both(IF d \in stored THEN File(0, TRUE) ELSE None)]
         /\ made = [d \in Doc |-> IF d \in stored THEN 1 ELSE 0]
         /\ whole = [d \in Doc |-> IF d \in stored THEN 0 ELSE None]
  BY DEF Init
<1>2. File(0, TRUE) \in FileType
  BY DEF File, FileType
<1>3. \A f \in FileType \cup {None} : Both(f) \in Files /\ Both(f).zip = f
  BY DEF Both, Files
<1>4. dir \in [Doc -> Files] /\ trash \in [Doc -> Files]
  BY <1>1, <1>2, <1>3 DEF Init
<1>5. TypeOK
  <2>1. made \in [Doc -> Nat] /\ deleted \in [Doc -> Nat]
    BY <1>1 DEF Init
  <2>2. whole \in [Doc -> Nat \cup {None}]
    BY <1>1
  <2>3. ops \in Seq(Request)
    BY DEF Init
  <2> QED
    BY <1>4, <2>1, <2>2, <2>3 DEF Init, TypeOK
<1>6. ASSUME NEW d \in Doc PROVE deleted[d] + Present(d) = made[d]
  <2>1. dir[d].zip = IF d \in stored THEN File(0, TRUE) ELSE None
    BY <1>1, <1>2, <1>3
  <2>2. File(0, TRUE) # None
    BY <1>2, NoneAssumption
  <2>3. Present(d) = IF d \in stored THEN 1 ELSE 0
    BY <2>1, <2>2 DEF Present, IsFile
  <2> QED
    BY <1>1, <2>3 DEF Init
<1> QED
  BY <1>5, <1>6 DEF Inv, Accounted

LEMMA FileOf ==
    ASSUME TypeOK, NEW d \in Doc
    PROVE  /\ dir[d].meta \in FileType \cup {None}
           /\ dir[d].zip \in FileType \cup {None}
           /\ trash[d].meta \in FileType \cup {None}
           /\ trash[d].zip \in FileType \cup {None}
BY DEF TypeOK, Files

LEMMA OpenedIsFile ==
    ASSUME NEW o \in Nat, NEW f \in FileType \cup {None}
    PROVE  /\ Opened(o, f) \in FileType
           /\ IsFile(Opened(o, f))
           /\ Opened(o, f).id \in Nat
<1>1. CASE IsFile(f)
  <2>1. f \in FileType /\ Opened(o, f) = [id |-> f.id, writer |-> o, full |-> FALSE]
    BY <1>1 DEF Opened, IsFile
  <2>2. Opened(o, f) \in FileType /\ Opened(o, f).id \in Nat
    BY <2>1 DEF FileType
  <2> QED
    BY <2>2, NoneAssumption DEF IsFile
<1>2. CASE ~IsFile(f)
  <2>1. Opened(o, f) = [id |-> o, writer |-> o, full |-> FALSE]
    BY <1>2 DEF Opened, File
  <2>2. Opened(o, f) \in FileType /\ Opened(o, f).id \in Nat
    BY <2>1 DEF FileType
  <2> QED
    BY <2>2, NoneAssumption DEF IsFile
<1> QED
  BY <1>1, <1>2

LEMMA FilledIsFile ==
    ASSUME NEW o \in Nat, NEW kind \in {"meta", "zip"}, NEW full \in BOOLEAN,
           NEW f \in FileType \cup {None}
    PROVE  /\ Filled(o, kind, f, full) \in FileType \cup {None}
           /\ IsFile(Filled(o, kind, f, full)) <=> IsFile(f)
<1>1. CASE IsMine(o, kind, f)
  <2>1. Filled(o, kind, f, full) \in FileType
    BY <1>1 DEF Filled, IsMine, IsFile, FileType
  <2> QED
    BY <1>1, <2>1, NoneAssumption DEF IsMine, IsFile
<1>2. CASE ~IsMine(o, kind, f)
  BY <1>2 DEF Filled
<1> QED
  BY <1>1, <1>2

-----------------------------------------------------------------------------
(* Requests.                                                                *)

LEMMA RequestOf ==
    ASSUME TypeOK, NEW o \in Running
    PROVE  /\ o \in Nat /\ o \in 1..Len(ops)
           /\ ops[o] \in Request
           /\ D(o) \in Doc
           /\ Tail(ops[o].calls) \in Seq(CallName)
<1>1. o \in 1..Len(ops) /\ ops[o] \in Request /\ ops[o].calls # <<>>
  BY DEF TypeOK, Running
<1>2. D(o) \in Doc /\ ops[o].calls \in Seq(CallName)
  BY <1>1 DEF D, Request
<1> QED
  BY <1>1, <1>2

LEMMA EndsType ==
    ASSUME TypeOK, NEW o \in DOMAIN ops
    PROVE  Over(o) \in Request /\ [ops EXCEPT ![o] = Over(o)] \in Seq(Request)
<1>1. o \in 1..Len(ops) /\ ops[o] \in Request
  BY DEF TypeOK
<1>2. Over(o) \in Request
  <2>1. <<>> \in Seq(CallName)
    OBVIOUS
  <2> QED
    BY <1>1, <2>1 DEF Over, Request
<1> QED
  BY <1>1, <1>2, ExceptSeq DEF TypeOK

LEMMA DoneType ==
    ASSUME TypeOK, NEW o \in Running, Done(o)
    PROVE  ops' \in Seq(Request)
<1>1. CASE Len(ops[o].calls) = 1
  <2>1. o \in DOMAIN ops
    BY DEF Running
  <2> QED
    BY <1>1, <2>1, EndsType DEF Done, Ends
<1>2. CASE Len(ops[o].calls) # 1
  <2>1. [ops[o] EXCEPT !.calls = Tail(@)] \in Request
    BY RequestOf DEF Request
  <2>2. ops' = [ops EXCEPT ![o] = [ops[o] EXCEPT !.calls = Tail(@)]]
    BY <1>2 DEF Done
  <2> QED
    BY <2>1, <2>2, RequestOf, ExceptSeq DEF TypeOK
<1> QED
  BY <1>1, <1>2

-----------------------------------------------------------------------------
(* Calls.                                                                   *)

LEMMA OpenZipStep ==
    ASSUME Inv, NEW o \in Running, OpenZip(o)
    PROVE  Inv'
<1> DEFINE f == Opened(o, dir[D(o)].zip)
<1>1. TypeOK /\ Accounted
  BY DEF Inv
<1>2. o \in Nat /\ o \in 1..Len(ops) /\ ops[o] \in Request /\ D(o) \in Doc
  BY <1>1, RequestOf
<1>3. f \in FileType /\ f # None /\ f.id \in Nat
  BY <1>1, <1>2, FileOf, OpenedIsFile DEF IsFile
<1>4. dir' = [dir EXCEPT ![D(o)].zip = f]
  BY DEF OpenZip, Open
<1>5. dir' \in [Doc -> Files]
  BY <1>1, <1>2, <1>3, <1>4 DEF TypeOK, Files
<1>6. ops' \in Seq(Request)
  <2>1. [ops[o] EXCEPT !.calls = Tail(@), !.zip = f.id] \in Request
    BY <1>1, <1>3, RequestOf DEF Request
  <2>2. ops' = [ops EXCEPT ![o] = [ops[o] EXCEPT !.calls = Tail(@), !.zip = f.id]]
    BY <1>2 DEF OpenZip, Open
  <2> QED
    BY <1>1, <1>2, <2>1, <2>2, ExceptSeq DEF TypeOK
<1>7. TypeOK'
  BY <1>1, <1>2, <1>5, <1>6 DEF OpenZip, Open, TypeOK
<1>8. Accounted'
  BY <1>1, <1>2, <1>3, <1>4 DEF OpenZip, Open, TypeOK, Files, Accounted, Present, IsFile
<1> QED
  BY <1>7, <1>8 DEF Inv

LEMMA OpenMetaStep ==
    ASSUME Inv, NEW o \in Running, OpenMeta(o)
    PROVE  Inv'
<1> DEFINE f == Opened(o, dir[D(o)].meta)
<1>1. TypeOK /\ Accounted
  BY DEF Inv
<1>2. o \in Nat /\ o \in 1..Len(ops) /\ ops[o] \in Request /\ D(o) \in Doc
  BY <1>1, RequestOf
<1>3. f \in FileType /\ f.id \in Nat
  BY <1>1, <1>2, FileOf, OpenedIsFile
<1>4. dir' = [dir EXCEPT ![D(o)].meta = f]
  BY DEF OpenMeta, Open
<1>5. dir' \in [Doc -> Files] /\ \A d \in Doc : dir'[d].zip = dir[d].zip
  BY <1>1, <1>2, <1>3, <1>4 DEF TypeOK, Files
<1>6. ops' \in Seq(Request)
  <2>1. [ops[o] EXCEPT !.calls = Tail(@), !.meta = f.id] \in Request
    BY <1>1, <1>3, RequestOf DEF Request
  <2>2. ops' = [ops EXCEPT ![o] = [ops[o] EXCEPT !.calls = Tail(@), !.meta = f.id]]
    BY <1>2 DEF OpenMeta, Open
  <2> QED
    BY <1>1, <1>2, <2>1, <2>2, ExceptSeq DEF TypeOK
<1>7. TypeOK'
  BY <1>1, <1>2, <1>5, <1>6 DEF OpenMeta, Open, TypeOK
<1>8. Accounted'
  BY <1>1, <1>5 DEF OpenMeta, Open, Accounted, Present
<1> QED
  BY <1>7, <1>8 DEF Inv

LEMMA FillStep ==
    ASSUME Inv, NEW o \in Running, NEW kind \in {"meta", "zip"}, Fill(o, kind),
           whole' \in [Doc -> Nat \cup {None}]
    PROVE  Inv'
<1>1. TypeOK /\ Accounted
  BY DEF Inv
<1>2. o \in Nat /\ D(o) \in Doc
  BY <1>1, RequestOf
<1>3. PICK full \in BOOLEAN :
         /\ dir' = [dir EXCEPT ![D(o)][kind] = Filled(o, kind, @, full)]
         /\ trash' = [trash EXCEPT ![D(o)][kind] = Filled(o, kind, @, full)]
  BY DEF Fill
<1>4. /\ Done(o)
      /\ UNCHANGED <<deleted, made, overtaken, revived, mixed, faults>>
  BY DEF Fill
<1>5. /\ dir' \in [Doc -> Files]
      /\ trash' \in [Doc -> Files]
      /\ \A d \in Doc : IsFile(dir'[d].zip) <=> IsFile(dir[d].zip)
  <2> DEFINE f == dir[D(o)][kind]
             t == trash[D(o)][kind]
  <2>1. f \in FileType \cup {None} /\ t \in FileType \cup {None}
    BY <1>1, <1>2 DEF TypeOK, Files
  <2>2. /\ Filled(o, kind, f, full) \in FileType \cup {None}
        /\ Filled(o, kind, t, full) \in FileType \cup {None}
        /\ IsFile(Filled(o, kind, f, full)) <=> IsFile(f)
    BY <1>2, <2>1, FilledIsFile
  <2>3. /\ dir' = [dir EXCEPT ![D(o)][kind] = Filled(o, kind, f, full)]
        /\ trash' = [trash EXCEPT ![D(o)][kind] = Filled(o, kind, t, full)]
    BY <1>3
  <2>4. dir' \in [Doc -> Files] /\ trash' \in [Doc -> Files]
    BY <1>1, <1>2, <2>2, <2>3 DEF TypeOK, Files
  <2>5. ASSUME NEW d \in Doc PROVE IsFile(dir'[d].zip) <=> IsFile(dir[d].zip)
    <3>1. CASE d = D(o) /\ kind = "zip"
      <4>1. dir'[d].zip = Filled(o, kind, f, full)
        BY <1>1, <1>2, <2>3, <3>1 DEF TypeOK, Files
      <4> QED
        BY <2>2, <3>1, <4>1
    <3>2. CASE d # D(o) \/ kind = "meta"
      BY <1>1, <1>2, <2>3, <3>2 DEF TypeOK, Files
    <3> QED
      BY <3>1, <3>2
  <2> QED
    BY <2>4, <2>5
<1>6. TypeOK'
  BY <1>1, <1>4, <1>5, DoneType DEF TypeOK
<1>7. Accounted'
  BY <1>1, <1>4, <1>5 DEF Accounted, Present
<1> QED
  BY <1>6, <1>7 DEF Inv

LEMMA MoveMetaStep ==
    ASSUME Inv, NEW o \in Running, MoveMeta(o)
    PROVE  Inv'
<1>1. TypeOK /\ Accounted
  BY DEF Inv
<1>2. D(o) \in Doc
  BY <1>1, RequestOf
<1>3. /\ dir' = [dir EXCEPT ![D(o)].meta = None]
      /\ trash' = [trash EXCEPT ![D(o)].meta = dir[D(o)].meta]
  BY DEF MoveMeta, Move
<1>4. dir' \in [Doc -> Files] /\ \A d \in Doc : dir'[d].zip = dir[d].zip
  BY <1>1, <1>2, <1>3, ZenonT(40) DEF TypeOK, Files
<1>5. trash' \in [Doc -> Files]
  <2>1. dir[D(o)].meta \in FileType \cup {None}
    BY <1>1, <1>2, FileOf
  <2> QED
    BY <1>1, <1>2, <1>3, <2>1 DEF TypeOK, Files
<1>6. TypeOK'
  BY <1>1, <1>4, <1>5, DoneType DEF MoveMeta, Move, TypeOK
<1>7. Accounted'
  BY <1>1, <1>4 DEF MoveMeta, Move, Accounted, Present
<1> QED
  BY <1>6, <1>7 DEF Inv

(* The archive leaves the directory as its deletion is announced.           *)
LEMMA MoveZipStep ==
    ASSUME Inv, NEW o \in Running, MoveZip(o)
    PROVE  Inv'
<1>1. TypeOK /\ Accounted
  BY DEF Inv
<1>2. D(o) \in Doc
  BY <1>1, RequestOf
<1>3. /\ IsFile(dir[D(o)].zip)
      /\ dir' = [dir EXCEPT ![D(o)].zip = None]
      /\ trash' = [trash EXCEPT ![D(o)].zip = dir[D(o)].zip]
      /\ deleted' = [deleted EXCEPT ![D(o)] = @ + 1]
      /\ UNCHANGED <<made, whole, overtaken, revived, mixed, faults>>
  BY DEF MoveZip, Move
<1>4. /\ dir' \in [Doc -> Files]
      /\ dir'[D(o)].zip = None
      /\ \A d \in Doc \ {D(o)} : dir'[d] = dir[d]
  BY <1>1, <1>2, <1>3 DEF TypeOK, Files
<1>5. trash' \in [Doc -> Files]
  <2>1. dir[D(o)].zip \in FileType \cup {None}
    BY <1>1, <1>2, FileOf
  <2> QED
    BY <1>1, <1>2, <1>3, <2>1 DEF TypeOK, Files
<1>6. TypeOK'
  BY <1>1, <1>2, <1>3, <1>4, <1>5, DoneType DEF MoveZip, TypeOK
<1>7. ASSUME NEW d \in Doc PROVE deleted'[d] + Present(d)' = made'[d]
  <2>1. deleted[d] + Present(d) = made[d] /\ deleted[d] \in Nat
    BY <1>1 DEF Accounted, TypeOK
  <2>2. CASE d = D(o)
    <3>1. Present(d) = 1 /\ Present(d)' = 0
      BY <1>3, <1>4, <2>2 DEF Present, IsFile
    <3>2. deleted'[d] = deleted[d] + 1
      BY <1>1, <1>3, <2>2 DEF TypeOK
    <3> QED
      BY <1>3, <2>1, <3>1, <3>2
  <2>3. CASE d # D(o)
    <3>1. Present(d)' = Present(d)
      BY <1>4, <2>3 DEF Present
    <3>2. deleted'[d] = deleted[d]
      BY <1>1, <1>3, <2>3 DEF TypeOK
    <3> QED
      BY <1>3, <2>1, <3>1, <3>2
  <2> QED
    BY <2>2, <2>3
<1> QED
  BY <1>6, <1>7 DEF Inv, Accounted

(* What touches no file.                                                    *)
LEMMA OpsStep ==
    ASSUME Inv, ops' \in Seq(Request), overtaken' \subseteq Doc, revived' \subseteq Doc, faults' \in Nat,
           UNCHANGED <<dir, trash, deleted, made, whole, mixed>>
    PROVE  Inv'
<1>1. TypeOK'
  BY DEF Inv, TypeOK
<1>2. Accounted'
  BY DEF Inv, Accounted, Present
<1> QED
  BY <1>1, <1>2 DEF Inv

LEMMA BeginStep ==
    ASSUME Inv, NEW d \in Doc, NEW kind \in DOMAIN Calls, Begin(kind, d)
    PROVE  Inv'
<1>1. Calls[kind] \in Seq(CallName)
  <2>1. /\ Calls.upload \in Seq(CallName) /\ Calls.document \in Seq(CallName)
        /\ Calls.folder \in Seq(CallName) /\ Calls.update \in Seq(CallName)
        /\ Calls.remove \in Seq(CallName)
    BY DEF Calls, CallName
  <2>2. kind \in {"upload", "document", "folder", "update", "remove"}
    BY DEF Calls
  <2> QED
    BY <2>1, <2>2
<1>2. [doc |-> d, calls |-> Calls[kind], meta |-> None, zip |-> None] \in Request
  BY <1>1 DEF Request
<1>3. ops' \in Seq(Request)
  BY <1>2 DEF Begin, Inv, TypeOK
<1>4. overtaken' \subseteq Doc /\ revived' \subseteq Doc /\ faults' \in Nat
  BY DEF Begin, Inv, TypeOK
<1> QED
  BY <1>3, <1>4, OpsStep DEF Begin

LEMMA RequestsStep ==
    ASSUME Inv, NEW d \in Doc, Requests(d)
    PROVE  Inv'
<1>1. {"upload", "document", "folder", "update", "remove"} \subseteq DOMAIN Calls
  BY DEF Calls
<1> QED
  BY <1>1, BeginStep DEF Requests

LEMMA CallStep ==
    ASSUME Inv, NEW o \in Running, Call(o)
    PROVE  Inv'
<1>1. TypeOK /\ o \in DOMAIN ops
  BY DEF Inv, Running
<1>2. CASE OpenMeta(o)
  BY <1>2, OpenMetaStep
<1>3. CASE OpenZip(o)
  BY <1>3, OpenZipStep
<1>4. CASE FillMeta(o)
  BY <1>1, <1>4, FillStep DEF FillMeta, TypeOK
<1>5. CASE FillZip(o)
  <2>1. whole' \in [Doc -> Nat \cup {None}]
    <3>1. ops[o].zip \in Nat \cup {None} /\ whole \in [Doc -> Nat \cup {None}]
      BY <1>1, RequestOf DEF Request, TypeOK
    <3>2. whole' = whole \/ \E v \in Nat \cup {None} : whole' = [whole EXCEPT ![D(o)] = v]
      BY <1>5, <3>1, RequestOf, <1>1 DEF FillZip
    <3> QED
      BY <3>1, <3>2
  <2> QED
    BY <1>5, <2>1, FillStep DEF FillZip
<1>6. CASE MoveMeta(o)
  BY <1>6, MoveMetaStep
<1>7. CASE MoveZip(o)
  BY <1>7, MoveZipStep
<1>8. CASE MoveMissing(o)
  <2>1. ops' \in Seq(Request)
    BY <1>1, <1>8, EndsType DEF MoveMissing, Ends
  <2> QED
    BY <1>1, <1>8, <2>1, OpsStep DEF MoveMissing, TypeOK
<1>9. CASE CallFails(o)
  <2>1. ops' \in Seq(Request)
    BY <1>1, <1>9, EndsType DEF CallFails, Ends
  <2> QED
    BY <1>1, <1>9, <2>1, OpsStep DEF CallFails, TypeOK
<1>10. CASE MetadataFails(o)
  <2> DEFINE r == [ops[o] EXCEPT !.calls = <<"fillZip">>]
  <2>1. ops[o] \in Request /\ o \in 1..Len(ops) /\ ops \in Seq(Request)
    BY <1>1, RequestOf DEF TypeOK
  <2>2. <<"fillZip">> \in Seq(CallName)
    BY DEF CallName
  <2>3. r \in Request
    BY <2>1, <2>2 DEF Request
  <2>4. ops' = [ops EXCEPT ![o] = r]
    BY <1>10 DEF MetadataFails
  <2> HIDE DEF r
  <2>5. ops' \in Seq(Request)
    BY <2>1, <2>3, <2>4
  <2> QED
    BY <1>1, <1>10, <2>5, OpsStep DEF MetadataFails, TypeOK
<1> QED
  BY <1>2, <1>3, <1>4, <1>5, <1>6, <1>7, <1>8, <1>9, <1>10 DEF Call

LEMMA CrashStep ==
    ASSUME Inv, Crash
    PROVE  Inv'
<1>1. TypeOK
  BY DEF Inv
<1>2. \A o \in 1..Len(ops) : Over(o) \in Request
  BY <1>1, EndsType DEF TypeOK
<1>3. ops' = [o \in 1..Len(ops) |-> Over(o)]
  BY <1>1 DEF Crash, TypeOK
<1>4. ops' \in Seq(Request)
  BY <1>1, <1>2, <1>3 DEF TypeOK
<1> QED
  BY <1>1, <1>4, OpsStep DEF Crash, TypeOK

-----------------------------------------------------------------------------
(* In every state, an archive that was made is either in the directory or   *)
(* was announced as deleted, once (RemoveDocument).                         *)
THEOREM Invariant == Spec => []Inv
<1>1. Inv /\ [Next]_vars => Inv'
  <2> SUFFICES ASSUME Inv, [Next]_vars PROVE Inv'
    OBVIOUS
  <2>1. CASE \E d \in Doc : Requests(d)
    BY <2>1, RequestsStep
  <2>2. CASE \E o \in Running : Call(o)
    BY <2>2, CallStep
  <2>3. CASE Crash
    BY <2>3, CrashStep
  <2>4. CASE UNCHANGED vars
    BY <2>4 DEF Inv, TypeOK, Accounted, Present, vars
  <2> QED
    BY <2>1, <2>2, <2>3, <2>4 DEF Next
<1> QED
  BY <1>1, InitInv, PTL DEF Spec

(* However many requests delete a document at once, and whatever fails or   *)
(* stops, no archive is announced as deleted twice (RemoveDocument).        *)
THEOREM EachArchiveDeletedOnce == Spec => []OneDeletionPerArchive
<1>1. ASSUME Inv, NEW d \in Doc PROVE deleted[d] <= made[d]
  <2>1. deleted[d] + Present(d) = made[d] /\ deleted[d] \in Nat /\ made[d] \in Nat
    BY <1>1 DEF Inv, TypeOK, Accounted
  <2>2. Present(d) \in {0, 1}
    BY DEF Present
  <2> QED
    BY <2>1, <2>2
<1>2. Inv => OneDeletionPerArchive
  BY <1>1 DEF OneDeletionPerArchive
<1> QED
  BY <1>2, Invariant, PTL

-----------------------------------------------------------------------------
(* What the calls of a request have left to do.                             *)
Stages == {
    <<"openZip", "fillZip", "openMeta", "fillMeta">>,
    <<"fillZip", "openMeta", "fillMeta">>,
    <<"openZip", "openMeta", "fillMeta", "fillZip">>,
    <<"openMeta", "fillMeta", "fillZip">>,
    <<"fillMeta", "fillZip">>,
    <<"openMeta", "fillMeta", "openZip", "fillZip">>,
    <<"fillMeta", "openZip", "fillZip">>,
    <<"openZip", "fillZip">>,
    <<"fillZip">>,
    <<"openMeta", "fillMeta">>,
    <<"fillMeta">>,
    <<"moveMeta", "moveZip">>,
    <<"moveZip">>,
    <<>>}

In(s, call) == \E i \in 1..Len(s) : s[i] = call

Kind == {"meta", "zip"}

OpenCall(kind) == IF kind = "meta" THEN "openMeta" ELSE "openZip"

FillCall(kind) == IF kind = "meta" THEN "fillMeta" ELSE "fillZip"

Will(o, call) == In(ops[o].calls, call)

LastCall(o) == ops[o].calls[Len(ops[o].calls)]

On(d) == {o \in Running : D(o) = d}

(* A request makes up its calls in their order, and has a file open from    *)
(* the call that opens it.                                                  *)
Staged ==
    \A o \in DOMAIN ops :
        /\ ops[o].calls \in Stages
        /\ \A kind \in Kind :
              /\ Will(o, FillCall(kind)) /\ ~Will(o, OpenCall(kind)) => ops[o][kind] # None
              /\ Will(o, OpenCall(kind)) => ops[o][kind] = None
        /\ Will(o, "openZip") /\ ~Will(o, "openMeta") => ops[o].meta # None
        /\ Removes(o) => ops[o].meta = None /\ ops[o].zip = None

(* A file bears the number of the request that made it, and is in one place.*)
Numbered(kind, f) ==
    IsFile(f) => /\ f.id \in 0..Len(ops)
                 /\ f.id \in DOMAIN ops => ~Will(f.id, OpenCall(kind))

IdsOf(d, kind) ==
    /\ Numbered(kind, dir[d][kind]) /\ Numbered(kind, trash[d][kind])
    /\ IsFile(dir[d][kind]) /\ IsFile(trash[d][kind]) => dir[d][kind].id # trash[d][kind].id

Ids == \A d \in Doc, kind \in Kind : IdsOf(d, kind)

(* Who writes a document and who removes it are not there together.         *)
Apart(d) == \A o, p \in On(d) : Removes(o) <=> Removes(p)

(* The file that a request has open is in the directory, and its own.       *)
Owned(d) ==
    \A o \in On(d), kind \in Kind :
        ops[o][kind] # None => /\ IsFile(dir[d][kind])
                               /\ dir[d][kind].id = ops[o][kind]
                               /\ dir[d][kind].writer = o

(* The archive that last came in whole is in the directory.                 *)
InDir(d) == whole[d] # None => IsWhole(dir[d].zip) /\ dir[d].zip.id = whole[d]

InTrash(d) == IsWhole(trash[d].zip) /\ trash[d].zip.id = whole[d]

(* While the metadata is in the directory the archive is there with it.     *)
Kept(d) ==
    /\ InDir(d) \/ InTrash(d)
    /\ IsFile(dir[d].meta) => InDir(d)
    /\ \A o \in On(d) :
          /\ Calling(o, "moveZip") => ~IsFile(dir[d].meta) /\ (InDir(d) \/ ~IsFile(dir[d].zip))
          /\ ops[o].zip # None /\ ~Will(o, "fillZip") => InDir(d)
          /\ Will(o, "openMeta") /\ ~Will(o, "fillZip") /\ ops[o].zip = None
                => IsFile(dir[d].meta)

(* A request that makes a new document is alone with it.                    *)
Untouched(d) ==
    /\ (\A o \in DOMAIN ops : D(o) # d) => Known(d) \/ whole[d] = None
    /\ \A o \in On(d) :
          Will(o, "openMeta") /\ LastCall(o) = "fillZip"
              => ~Known(d) /\ whole[d] = None /\ On(d) = {o}

(* What is not whole or not matched has a request that will see to it.      *)
Matched(d) ==
    /\ \A kind \in Kind :
          IsFile(dir[d][kind]) =>
              \/ IsWhole(dir[d][kind])
              \/ \E o \in On(d) : ops[o][kind] = dir[d][kind].id /\ Will(o, FillCall(kind))
    /\ IsFile(dir[d].meta) /\ ~IsFile(dir[d].zip) => \E o \in On(d) : Will(o, "openZip")
    /\ IsFile(dir[d].zip) /\ ~IsFile(dir[d].meta)
          => \E o \in On(d) : Will(o, "openMeta") \/ Calling(o, "moveZip")

(* All but the first only where no requests came upon one another and no    *)
(* update brought the metadata back from the trash.                         *)
DocInv(d) ==
    /\ Untouched(d)
    /\ d \notin mixed \cup overtaken \cup revived =>
          /\ Apart(d) /\ Owned(d) /\ Kept(d)
          /\ faults = 0 => Matched(d)

IInv == Inv /\ Staged /\ Ids /\ \A d \in Doc : DocInv(d)

-----------------------------------------------------------------------------
LEMMA InNothing == \A call : ~In(<<>>, call)
  BY DEF In

LEMMA CallSequence ==
    ASSUME NEW S, NEW a \in S, NEW b \in S, NEW c \in S, NEW e \in S
    PROVE  /\ <<a, b, c, e>> \in Seq(S) /\ <<a, b, c>> \in Seq(S)
           /\ <<a, b>> \in Seq(S) /\ <<a>> \in Seq(S) /\ <<>> \in Seq(S)
  OBVIOUS

LEMMA StageType == Stages \subseteq Seq(CallName)
  <1>1. /\ "openMeta" \in CallName /\ "openZip" \in CallName /\ "fillMeta" \in CallName
        /\ "fillZip" \in CallName /\ "moveMeta" \in CallName /\ "moveZip" \in CallName
    BY DEF CallName
  <1>2. <<"openZip", "fillZip", "openMeta", "fillMeta">> \in Seq(CallName)
    BY <1>1, CallSequence
  <1>3. <<"fillZip", "openMeta", "fillMeta">> \in Seq(CallName)
    BY <1>1, CallSequence
  <1>4. <<"openZip", "openMeta", "fillMeta", "fillZip">> \in Seq(CallName)
    BY <1>1, CallSequence
  <1>5. <<"openMeta", "fillMeta", "fillZip">> \in Seq(CallName)
    BY <1>1, CallSequence
  <1>6. <<"fillMeta", "fillZip">> \in Seq(CallName)
    BY <1>1, CallSequence
  <1>7. <<"openMeta", "fillMeta", "openZip", "fillZip">> \in Seq(CallName)
    BY <1>1, CallSequence
  <1>8. <<"fillMeta", "openZip", "fillZip">> \in Seq(CallName)
    BY <1>1, CallSequence
  <1>9. <<"openZip", "fillZip">> \in Seq(CallName)
    BY <1>1, CallSequence
  <1>10. <<"fillZip">> \in Seq(CallName)
    BY <1>1, CallSequence
  <1>11. <<"openMeta", "fillMeta">> \in Seq(CallName)
    BY <1>1, CallSequence
  <1>12. <<"fillMeta">> \in Seq(CallName)
    BY <1>1, CallSequence
  <1>13. <<"moveMeta", "moveZip">> \in Seq(CallName)
    BY <1>1, CallSequence
  <1>14. <<"moveZip">> \in Seq(CallName)
    BY <1>1, CallSequence
  <1>15. <<>> \in Seq(CallName)
    BY <1>1, CallSequence
  <1> QED
    BY <1>2, <1>3, <1>4, <1>5, <1>6, <1>7, <1>8, <1>9, <1>10, <1>11, <1>12, <1>13, <1>14, <1>15 DEF Stages

(* The calls after the first one.                                           *)
LEMMA TailIn ==
    ASSUME NEW s \in Stages, s # <<>>, NEW call
    PROVE  In(s, call) <=> call = Head(s) \/ In(Tail(s), call)
  <1>1. /\ Len(s) \in Nat \ {0} /\ Head(s) = s[1]
        /\ Len(Tail(s)) = Len(s) - 1 /\ \A i \in 1..Len(s) - 1 : Tail(s)[i] = s[i + 1]
    <2>1. s \in Seq(CallName)
      BY StageType
    <2> QED
      BY <2>1
  <1>2. ASSUME In(s, call), call # Head(s) PROVE In(Tail(s), call)
    <2>1. PICK i \in 1..Len(s) : s[i] = call
      BY <1>2 DEF In
    <2>2. i # 1 /\ i - 1 \in 1..Len(Tail(s)) /\ Tail(s)[i - 1] = call
      BY <1>1, <1>2, <2>1
    <2> QED
      BY <2>2 DEF In
  <1>3. ASSUME In(Tail(s), call) PROVE In(s, call)
    <2>1. PICK i \in 1..Len(Tail(s)) : Tail(s)[i] = call
      BY <1>3 DEF In
    <2>2. i + 1 \in 1..Len(s) /\ s[i + 1] = call
      BY <1>1, <2>1
    <2> QED
      BY <2>2 DEF In
  <1>4. In(s, Head(s))
    BY <1>1 DEF In
  <1> QED
    BY <1>2, <1>3, <1>4

LEMMA StageFacts ==
    ASSUME NEW s \in Stages, s # <<>>
    PROVE  /\ Tail(s) \in Stages
           /\ ~In(Tail(s), Head(s))
           /\ Head(s) = "openMeta" => In(Tail(s), "fillMeta")
           /\ Head(s) = "openZip" => In(Tail(s), "fillZip")
           /\ Head(s) = "moveMeta" => Tail(s) # <<>> /\ Head(Tail(s)) = "moveZip"
           /\ Head(s) = "moveZip" => Tail(s) = <<>>
           /\ Head(s) \notin {"moveMeta", "moveZip"}
                 => ~In(Tail(s), "moveMeta") /\ ~In(Tail(s), "moveZip")
           /\ Head(s) \in {"moveMeta", "moveZip"}
                 => \A kind \in Kind : ~In(s, OpenCall(kind)) /\ ~In(s, FillCall(kind))
           /\ Tail(s) # <<>> => Tail(s)[Len(Tail(s))] = s[Len(s)]
           /\ \A kind \in Kind : In(s, OpenCall(kind)) => In(s, FillCall(kind))
           /\ \A kind \in Kind : Head(s) = FillCall(kind) => ~In(s, OpenCall(kind))
           /\ Len(s) = 1 <=> Tail(s) = <<>>
           /\ s[Len(s)] = "fillZip" => In(s, "fillZip")
           /\ Head(s) = "openMeta" /\ In(s, "fillZip") => s[Len(s)] = "fillZip"
           /\ Head(s) = "fillZip" /\ In(s, "openMeta") => s[Len(s)] # "fillZip"
  <1> USE DEF In, Kind, OpenCall, FillCall
  <1>1. CASE s = <<"openZip", "fillZip", "openMeta", "fillMeta">>
    BY <1>1 DEF Stages
  <1>2. CASE s = <<"fillZip", "openMeta", "fillMeta">>
    BY <1>2 DEF Stages
  <1>3. CASE s = <<"openZip", "openMeta", "fillMeta", "fillZip">>
    BY <1>3 DEF Stages
  <1>4. CASE s = <<"openMeta", "fillMeta", "fillZip">>
    BY <1>4 DEF Stages
  <1>5. CASE s = <<"fillMeta", "fillZip">>
    BY <1>5 DEF Stages
  <1>6. CASE s = <<"openMeta", "fillMeta", "openZip", "fillZip">>
    BY <1>6 DEF Stages
  <1>7. CASE s = <<"fillMeta", "openZip", "fillZip">>
    BY <1>7 DEF Stages
  <1>8. CASE s = <<"openZip", "fillZip">>
    BY <1>8 DEF Stages
  <1>9. CASE s = <<"fillZip">>
    BY <1>9 DEF Stages
  <1>10. CASE s = <<"openMeta", "fillMeta">>
    BY <1>10 DEF Stages
  <1>11. CASE s = <<"fillMeta">>
    BY <1>11 DEF Stages
  <1>12. CASE s = <<"moveMeta", "moveZip">>
    BY <1>12 DEF Stages
  <1>13. CASE s = <<"moveZip">>
    BY <1>13 DEF Stages
  <1> QED
    BY <1>1, <1>2, <1>3, <1>4, <1>5, <1>6, <1>7, <1>8, <1>9, <1>10, <1>11, <1>12, <1>13 DEF Stages

-----------------------------------------------------------------------------
(* A document that a step does not concern.                                 *)
Left(d) ==
    /\ dir'[d] = dir[d] /\ trash'[d] = trash[d] /\ whole'[d] = whole[d]
    /\ On(d)' = On(d) /\ \A o \in On(d) : ops'[o] = ops[o]

LEMMA OnRunning ==
    ASSUME NEW d, NEW o \in On(d)
    PROVE  o \in Running /\ D(o) = d /\ o \in DOMAIN ops
  BY DEF On, Running

LEMMA LeftAlone ==
    ASSUME NEW d \in Doc, DocInv(d), Left(d),
           (\A o \in DOMAIN ops : D(o) # d) <=> (\A o \in DOMAIN ops' : D(o)' # d),
           mixed \subseteq mixed', overtaken \subseteq overtaken', revived \subseteq revived',
           faults' = 0 => faults = 0
    PROVE  DocInv(d)'
  <1>1. \A o \in On(d) : /\ o \in Running /\ o \in Running'
                         /\ \A call : (Will(o, call)' <=> Will(o, call))
                                      /\ (Calling(o, call)' <=> Calling(o, call))
                         /\ (Removes(o)' <=> Removes(o)) /\ LastCall(o)' = LastCall(o)
    <2> SUFFICES ASSUME NEW o \in On(d)
                 PROVE  /\ o \in Running /\ o \in Running'
                         /\ \A call : (Will(o, call)' <=> Will(o, call))
                                      /\ (Calling(o, call)' <=> Calling(o, call))
                         /\ (Removes(o)' <=> Removes(o)) /\ LastCall(o)' = LastCall(o)
      OBVIOUS
    <2>1. o \in Running /\ o \in Running' /\ ops'[o] = ops[o]
      BY DEF Left, On
    <2> QED
      BY <2>1 DEF Will, Calling, Removes, LastCall
  <1>2. Untouched(d)'
    BY <1>1 DEF DocInv, Untouched, Known, Left
  <1>3. ASSUME d \notin mixed \cup overtaken \cup revived PROVE Apart(d)' /\ Owned(d)'
    BY <1>1, <1>3 DEF DocInv, Apart, Owned, Left
  <1>4. ASSUME d \notin mixed \cup overtaken \cup revived PROVE Kept(d)'
    BY <1>1, <1>4 DEF DocInv, Kept, InDir, InTrash, Left
  <1>5. ASSUME d \notin mixed \cup overtaken \cup revived, faults = 0 PROVE Matched(d)'
    BY <1>1, <1>5 DEF DocInv, Matched, Left
  <1> QED
    BY <1>2, <1>3, <1>4, <1>5 DEF DocInv

(* One request gets on, the others do not move.                             *)
Only(o) ==
    /\ DOMAIN ops' = DOMAIN ops
    /\ \A p \in DOMAIN ops : p # o => ops'[p] = ops[p]
    /\ ops'[o].doc = ops[o].doc

Advances(o) == Only(o) /\ ops'[o].calls = Tail(ops[o].calls)

Stops(o) == Only(o) /\ ops'[o].calls = <<>>

LEMMA OnlyDomain ==
    ASSUME NEW o \in DOMAIN ops, Only(o), NEW d
    PROVE  (\A p \in DOMAIN ops : D(p) # d) <=> (\A p \in DOMAIN ops' : D(p)' # d)
  <1>1. \A p \in DOMAIN ops : D(p)' = D(p)
    BY DEF Only, D
  <1> QED
    BY <1>1 DEF Only

LEMMA OnlyOn ==
    ASSUME NEW o \in Running, Only(o), NEW d
    PROVE  /\ \A p : p # o => (p \in On(d)' <=> p \in On(d)) /\ (p \in On(d) => ops'[p] = ops[p])
           /\ o \in On(d)' <=> ops'[o].calls # <<>> /\ D(o) = d
           /\ o \in On(d) <=> D(o) = d
           /\ D(o)' = D(o)
  BY DEF Only, On, Running, D

LEMMA OnlyLeft ==
    ASSUME NEW o \in Running, Only(o), NEW d \in Doc \ {D(o)},
           dir'[d] = dir[d], trash'[d] = trash[d], whole'[d] = whole[d]
    PROVE  Left(d)
  <1>1. On(d)' = On(d)
    <2>1. o \notin On(d) /\ o \notin On(d)'
      BY OnlyOn
    <2>2. \A p : p \in On(d)' <=> p \in On(d)
      BY <2>1, OnlyOn
    <2> QED
      BY <2>2, Zenon DEF On
  <1>2. \A p \in On(d) : ops'[p] = ops[p]
    BY OnlyOn
  <1> QED
    BY <1>1, <1>2 DEF Left

LEMMA EndsStops ==
    ASSUME TypeOK, NEW o \in Running, Ends(o)
    PROVE  Stops(o)
  <1>1. o \in 1..Len(ops) /\ ops[o] \in Request /\ DOMAIN ops = 1..Len(ops)
    BY RequestOf DEF TypeOK
  <1>2. Over(o).doc = ops[o].doc /\ Over(o).calls = <<>>
    BY <1>1 DEF Over, Request
  <1>3. ops' = [ops EXCEPT ![o] = Over(o)]
    BY DEF Ends
  <1> QED
    BY <1>1, <1>2, <1>3 DEF Stops, Only, TypeOK

LEMMA DoneAdvances ==
    ASSUME TypeOK, Staged, NEW o \in Running, Done(o)
    PROVE  /\ Advances(o)
           /\ \A kind \in Kind :
                 /\ ops'[o][kind] \in {ops[o][kind], None}
                 /\ Tail(ops[o].calls) # <<>> => ops'[o][kind] = ops[o][kind]
  <1>1. o \in 1..Len(ops) /\ ops[o] \in Request /\ ops[o].calls # <<>> /\ ops[o].calls \in Stages
        /\ DOMAIN ops = 1..Len(ops)
    BY RequestOf DEF Running, Staged, TypeOK
  <1>2. Len(ops[o].calls) = 1 <=> Tail(ops[o].calls) = <<>>
    BY <1>1, StageFacts
  <1>3. CASE Len(ops[o].calls) = 1
    <2>1. ops' = [ops EXCEPT ![o] = Over(o)]
      BY <1>3 DEF Done, Ends
    <2>2. Over(o).doc = ops[o].doc /\ Over(o).calls = <<>> /\ Over(o).meta = None /\ Over(o).zip = None
      BY <1>1 DEF Over, Request
    <2> QED
      BY <1>1, <1>2, <1>3, <2>1, <2>2 DEF Advances, Only, Kind, TypeOK
  <1>4. CASE Len(ops[o].calls) # 1
    <2>1. ops' = [ops EXCEPT ![o].calls = Tail(@)]
      BY <1>4 DEF Done
    <2> QED
      BY <1>1, <2>1 DEF Advances, Only, Kind, TypeOK, Request
  <1> QED
    BY <1>3, <1>4

LEMMA OpenAdvances ==
    ASSUME TypeOK, NEW o \in Running, NEW kind \in Kind, Open(o, kind)
    PROVE  /\ Advances(o)
           /\ ops'[o][kind] = Opened(o, dir[D(o)][kind]).id
           /\ \A other \in Kind \ {kind} : ops'[o][other] = ops[o][other]
  <1>1. o \in 1..Len(ops) /\ ops[o] \in Request /\ DOMAIN ops = 1..Len(ops)
    BY RequestOf DEF TypeOK
  <1>2. ops' = [ops EXCEPT ![o].calls = Tail(@), ![o][kind] = Opened(o, dir[D(o)][kind]).id]
    BY DEF Open
  <1>3. CASE kind = "meta"
    BY <1>1, <1>2, <1>3 DEF Advances, Only, Kind, TypeOK, Request
  <1>4. CASE kind = "zip"
    BY <1>1, <1>2, <1>4 DEF Advances, Only, Kind, TypeOK, Request
  <1> QED
    BY <1>3, <1>4 DEF Kind

LEMMA CallFacts ==
    ASSUME TypeOK, Staged, NEW o \in Running
    PROVE  /\ ops[o].calls \in Stages /\ ops[o].calls # <<>>
           /\ \A call : Will(o, call) <=> call = Head(ops[o].calls) \/ In(Tail(ops[o].calls), call)
           /\ o \in 1..Len(ops) /\ o \in DOMAIN ops
  BY RequestOf, TailIn DEF Running, Staged, Will

-----------------------------------------------------------------------------
(* What a call opens, o has open; what it has open, it keeps.               *)
Keeps(o) ==
    \A kind \in Kind :
        /\ Calling(o, OpenCall(kind)) => ops'[o][kind] # None
        /\ ~Calling(o, OpenCall(kind)) /\ Tail(ops[o].calls) # <<>>
              => ops'[o][kind] = ops[o][kind]

LEMMA AdvanceWill ==
    ASSUME TypeOK, Staged, NEW o \in Running, Advances(o)
    PROVE  /\ \A call : \A p \in DOMAIN ops : Will(p, call)' => Will(p, call)
           /\ \A call : Will(o, call) /\ ~Calling(o, call) => Will(o, call)'
           /\ \A call : call = Head(ops[o].calls) => ~Will(o, call)'
           /\ \A call : \A p \in DOMAIN ops : p # o /\ Will(p, call) => Will(p, call)'
           /\ \A call : Calling(o, call) <=> call = Head(ops[o].calls)
  <1>1. /\ ops[o].calls \in Stages /\ ops[o].calls # <<>>
        /\ \A call : Will(o, call) <=> call = Head(ops[o].calls) \/ In(Tail(ops[o].calls), call)
    BY CallFacts
  <1>2. ~In(Tail(ops[o].calls), Head(ops[o].calls))
    BY <1>1, StageFacts
  <1>3. \A call : Will(o, call)' <=> In(Tail(ops[o].calls), call)
    BY DEF Advances, Will
  <1>4. \A call : \A p \in DOMAIN ops : p # o => (Will(p, call)' <=> Will(p, call))
    BY DEF Advances, Only, Will
  <1> QED
    BY <1>1, <1>2, <1>3, <1>4 DEF Calling

LEMMA StagedAdvances ==
    ASSUME TypeOK, Staged, NEW o \in Running, Advances(o), Keeps(o)
    PROVE  Staged'
  <1> SUFFICES ASSUME NEW p \in DOMAIN ops
               PROVE  /\ ops'[p].calls \in Stages
                      /\ \A kind \in Kind :
                            /\ Will(p, FillCall(kind))' /\ ~Will(p, OpenCall(kind))' => ops'[p][kind] # None
                            /\ Will(p, OpenCall(kind))' => ops'[p][kind] = None
                      /\ Will(p, "openZip")' /\ ~Will(p, "openMeta")' => ops'[p].meta # None
                      /\ Removes(p)' => ops'[p].meta = None /\ ops'[p].zip = None
    BY DEF Staged, Advances, Only
  <1>1. CASE p # o
    <2>1. ops'[p] = ops[p]
      BY <1>1 DEF Advances, Only
    <2>2. /\ \A call : Will(p, call)' <=> Will(p, call)
          /\ Removes(p)' <=> Removes(p)
      BY <2>1 DEF Will, Removes, Calling, Running, Advances, Only
    <2> QED
      BY <2>1, <2>2 DEF Staged
  <1>2. CASE p = o
    <2> DEFINE s == ops[o].calls
    <2>1. s \in Stages /\ s # <<>> /\ ops'[o].calls = Tail(s) /\ o \in DOMAIN ops
      BY CallFacts DEF Advances
    <2>2. Tail(s) \in Stages
      BY <2>1, StageFacts
    <2>3. \A call : Calling(o, call) <=> call = Head(s)
      BY AdvanceWill
    <2>4. \A call : (Will(o, call)' => Tail(s) # <<>>) /\ (Will(o, call)' => Will(o, call))
                    /\ (Will(o, call) /\ call # Head(s) => Will(o, call)')
                    /\ (call = Head(s) => ~Will(o, call)')
      <3>1. \A call : Will(o, call)' => Tail(s) # <<>>
        BY <2>1, InNothing DEF Will
      <3> QED
        BY <2>1, <2>3, <3>1, AdvanceWill
    <2>5. ASSUME NEW kind \in Kind
          PROVE  /\ Will(o, FillCall(kind))' /\ ~Will(o, OpenCall(kind))' => ops'[o][kind] # None
                 /\ Will(o, OpenCall(kind))' => ops'[o][kind] = None
      <3>1. CASE Head(s) = OpenCall(kind)
        BY <2>3, <2>4, <3>1 DEF Keeps
      <3>2. CASE Head(s) # OpenCall(kind)
        BY <2>1, <2>3, <2>4, <3>2 DEF Keeps, Staged
      <3> QED
        BY <3>1, <3>2
    <2>6. Will(o, "openZip")' /\ ~Will(o, "openMeta")' => ops'[o].meta # None
      <3>1. "meta" \in Kind /\ OpenCall("meta") = "openMeta"
        BY DEF Kind, OpenCall
      <3>2. CASE Head(s) = "openMeta"
        BY <2>3, <3>1, <3>2 DEF Keeps
      <3>3. CASE Head(s) # "openMeta"
        BY <2>1, <2>3, <2>4, <3>1, <3>3 DEF Keeps, Staged
      <3> QED
        BY <3>2, <3>3
    <2>7. Removes(o)' => ops'[o].meta = None /\ ops'[o].zip = None
      <3> SUFFICES ASSUME Removes(o)' PROVE ops'[o].meta = None /\ ops'[o].zip = None
        OBVIOUS
      <3>1. Tail(s) # <<>> /\ Head(Tail(s)) \in {"moveMeta", "moveZip"}
        BY <2>1 DEF Removes, Calling, Running
      <3>2. In(Tail(s), Head(Tail(s)))
        BY <2>2, <3>1, TailIn
      <3>3. Head(s) \in {"moveMeta", "moveZip"}
        BY <2>1, <3>1, <3>2, StageFacts
      <3>4. Removes(o)
        BY <2>3, <3>3 DEF Removes
      <3>5. \A kind \in Kind : ops'[o][kind] = ops[o][kind]
        BY <2>3, <3>1, <3>3 DEF Keeps, OpenCall
      <3> QED
        BY <2>1, <3>4, <3>5 DEF Staged, Kind
    <2> QED
      BY <1>2, <2>1, <2>2, <2>5, <2>6, <2>7
  <1> QED
    BY <1>1, <1>2

LEMMA KeepsDone ==
    ASSUME TypeOK, Staged, NEW o \in Running, Done(o),
           ~Calling(o, "openMeta"), ~Calling(o, "openZip")
    PROVE  Advances(o) /\ Keeps(o)
  BY DoneAdvances DEF Keeps, OpenCall

LEMMA KeepsOpen ==
    ASSUME TypeOK, Staged, NEW o \in Running, NEW kind \in Kind, Open(o, kind),
           Calling(o, OpenCall(kind))
    PROVE  Advances(o) /\ Keeps(o)
  <1>1. o \in Nat /\ dir[D(o)][kind] \in FileType \cup {None}
    BY RequestOf, FileOf DEF Kind
  <1>2. Opened(o, dir[D(o)][kind]).id # None
    BY <1>1, OpenedIsFile, NoneAssumption
  <1>3. \A other \in Kind \ {kind} : ~Calling(o, OpenCall(other))
    BY DEF Kind, OpenCall, Calling
  <1> QED
    BY <1>2, <1>3, OpenAdvances DEF Keeps

LEMMA StagedStops ==
    ASSUME TypeOK, Staged, NEW o \in Running, Stops(o)
    PROVE  Staged'
  <1> SUFFICES ASSUME NEW p \in DOMAIN ops
               PROVE  /\ ops'[p].calls \in Stages
                      /\ \A kind \in Kind :
                            /\ Will(p, FillCall(kind))' /\ ~Will(p, OpenCall(kind))' => ops'[p][kind] # None
                            /\ Will(p, OpenCall(kind))' => ops'[p][kind] = None
                      /\ Will(p, "openZip")' /\ ~Will(p, "openMeta")' => ops'[p].meta # None
                      /\ Removes(p)' => ops'[p].meta = None /\ ops'[p].zip = None
    BY DEF Staged, Stops, Only
  <1>1. CASE p # o
    <2>1. ops'[p] = ops[p]
      BY <1>1 DEF Stops, Only
    <2>2. /\ \A call : Will(p, call)' <=> Will(p, call)
          /\ Removes(p)' <=> Removes(p)
      BY <2>1 DEF Will, Removes, Calling, Running, Stops, Only
    <2> QED
      BY <2>1, <2>2 DEF Staged
  <1>2. CASE p = o
    <2>1. ops'[o].calls = <<>>
      BY DEF Stops
    <2>2. (\A call : ~Will(o, call)') /\ ~Removes(o)'
      BY <2>1, InNothing DEF Will, Removes, Calling, Running
    <2> QED
      BY <1>2, <2>1, <2>2 DEF Stages
  <1> QED
    BY <1>1, <1>2

-----------------------------------------------------------------------------
(* No request takes up a call that opens a file after it has begun.         *)
OpensLess ==
    /\ Len(ops') \in Nat /\ Len(ops) <= Len(ops') /\ DOMAIN ops' = 1..Len(ops')
    /\ \A o \in DOMAIN ops, kind \in Kind : Will(o, OpenCall(kind))' => Will(o, OpenCall(kind))

SameId(g, f) == (IsFile(g) <=> IsFile(f)) /\ (IsFile(f) => g.id = f.id)

LEMMA NumberedSame ==
    ASSUME TypeOK, OpensLess, NEW kind \in Kind, NEW f, NEW g, SameId(g, f), Numbered(kind, f)
    PROVE  (Numbered(kind, g))'
  <1>1. Len(ops) \in Nat /\ DOMAIN ops = 1..Len(ops)
    BY DEF TypeOK
  <1>2. (Numbered(kind, g))' <=> (IsFile(g) => /\ g.id \in 0..Len(ops')
                                               /\ g.id \in DOMAIN ops' => ~Will(g.id, OpenCall(kind))')
    BY DEF Numbered, Will, IsFile
  <1>3. ASSUME IsFile(g)
        PROVE g.id \in 0..Len(ops') /\ (g.id \in DOMAIN ops' => ~Will(g.id, OpenCall(kind))')
    <2>1. g.id \in 0..Len(ops) /\ (g.id \in DOMAIN ops => ~Will(g.id, OpenCall(kind)))
      BY <1>3 DEF SameId, Numbered
    <2> QED
      BY <1>1, <2>1 DEF OpensLess
  <1> QED
    BY <1>2, <1>3

LEMMA IdsSame ==
    ASSUME TypeOK, OpensLess, NEW d, NEW kind \in Kind, IdsOf(d, kind),
           SameId(dir'[d][kind], dir[d][kind]), SameId(trash'[d][kind], trash[d][kind])
    PROVE  IdsOf(d, kind)'
  <1>1. PICK f, g : f = dir'[d][kind] /\ g = trash'[d][kind]
    OBVIOUS
  <1>2. (Numbered(kind, f))' /\ (Numbered(kind, g))'
    BY <1>1, NumberedSame DEF IdsOf
  <1>3. Numbered(kind, dir[d][kind])' /\ Numbered(kind, trash[d][kind])'
    BY <1>1, <1>2 DEF Numbered, IsFile
  <1> QED
    BY <1>3 DEF IdsOf, SameId

LEMMA IdsMove ==
    ASSUME TypeOK, OpensLess, NEW d, NEW kind \in Kind, IdsOf(d, kind),
           ~IsFile(dir'[d][kind]), trash'[d][kind] = dir[d][kind]
    PROVE  IdsOf(d, kind)'
  <1>1. PICK f : f = dir[d][kind]
    OBVIOUS
  <1>2. (Numbered(kind, f))'
    BY <1>1, NumberedSame DEF IdsOf, SameId
  <1>3. Numbered(kind, dir[d][kind])' /\ Numbered(kind, trash[d][kind])'
    BY <1>1, <1>2 DEF Numbered, IsFile
  <1> QED
    BY <1>3 DEF IdsOf

LEMMA IdsOpen ==
    ASSUME TypeOK, OpensLess, NEW d \in Doc, NEW kind \in Kind, IdsOf(d, kind),
           NEW o \in DOMAIN ops, Will(o, OpenCall(kind)), ~Will(o, OpenCall(kind))',
           dir'[d][kind] = Opened(o, dir[d][kind]), trash'[d][kind] = trash[d][kind]
    PROVE  IdsOf(d, kind)'
  <1>0. o \in Nat /\ o \in 1..Len(ops) /\ o \in 0..Len(ops') /\ dir[d][kind] \in FileType \cup {None}
    BY FileOf DEF TypeOK, Kind, OpensLess
  <1>1. CASE IsFile(dir[d][kind])
    <2>1. SameId(dir'[d][kind], dir[d][kind])
      <3>1. IsFile(dir'[d][kind])
        BY <1>0, OpenedIsFile
      <3>2. dir'[d][kind].id = dir[d][kind].id
        BY <1>1 DEF Opened
      <3> QED
        BY <1>1, <3>1, <3>2 DEF SameId
    <2> QED
      BY <2>1, IdsSame DEF SameId
  <1>2. CASE ~IsFile(dir[d][kind])
    <2>1. dir'[d][kind].id = o
      BY <1>2 DEF Opened, File
    <2>2. PICK f, g : f = trash[d][kind] /\ g = dir'[d][kind]
      OBVIOUS
    <2>3. (Numbered(kind, f))'
      BY <2>2, NumberedSame DEF IdsOf, SameId
    <2>4. Numbered(kind, trash[d][kind])'
      BY <2>2, <2>3 DEF Numbered, IsFile
    <2>5. Numbered(kind, dir[d][kind])'
      <3>1. dir'[d][kind].id \in 0..Len(ops') /\ ~Will(dir[d][kind].id, OpenCall(kind))'
        BY <1>0, <2>1 DEF Will
      <3> QED
        BY <3>1 DEF Numbered
    <2>6. IsFile(trash[d][kind]) => trash[d][kind].id # o
      BY DEF IdsOf, Numbered
    <2> QED
      BY <2>1, <2>4, <2>5, <2>6 DEF IdsOf
  <1> QED
    BY <1>1, <1>2

LEMMA IdsNone ==
    ASSUME TypeOK, OpensLess, Ids, UNCHANGED <<dir, trash>>
    PROVE  Ids'
  BY IdsSame DEF Ids, SameId

LEMMA OnlyLess ==
    ASSUME TypeOK, NEW o \in DOMAIN ops, Only(o), TypeOK',
           \A kind \in Kind : Will(o, OpenCall(kind))' => Will(o, OpenCall(kind))
    PROVE  OpensLess
  <1>1. /\ Len(ops) \in Nat /\ DOMAIN ops = 1..Len(ops)
        /\ Len(ops') \in Nat /\ DOMAIN ops' = 1..Len(ops')
    BY DEF TypeOK
  <1>2. Len(ops') = Len(ops)
    BY <1>1 DEF Only
  <1>3. \A p \in DOMAIN ops, kind \in Kind : p # o => (Will(p, OpenCall(kind))' <=> Will(p, OpenCall(kind)))
    BY DEF Only, Will
  <1> QED
    BY <1>1, <1>2, <1>3 DEF OpensLess

LEMMA AdvancesLess ==
    ASSUME TypeOK, TypeOK', Staged, NEW o \in Running, Advances(o)
    PROVE  OpensLess
  <1>1. \A kind \in Kind : Will(o, OpenCall(kind))' => Will(o, OpenCall(kind))
    BY AdvanceWill, CallFacts
  <1> QED
    BY <1>1, OnlyLess, CallFacts DEF Advances

LEMMA StopsLess ==
    ASSUME TypeOK, TypeOK', Staged, NEW o \in Running, Stops(o)
    PROVE  OpensLess
  <1>1. \A kind \in Kind : ~Will(o, OpenCall(kind))'
    BY InNothing DEF Stops, Will
  <1> QED
    BY <1>1, OnlyLess, CallFacts DEF Stops

-----------------------------------------------------------------------------
(* The requests on the document of the one that gets on.                    *)
LEMMA OnAdvances ==
    ASSUME TypeOK, Staged, NEW o \in Running, Advances(o), Keeps(o), NEW d, d = D(o)
    PROVE  /\ o \in On(d)
           /\ \A p : p # o => (p \in On(d)' <=> p \in On(d))
           /\ \A p \in On(d)' : /\ p \in On(d)
                                /\ Removes(p)' <=> Removes(p)
                                /\ LastCall(p)' = LastCall(p)
                                /\ \A call : Will(p, call)' => Will(p, call)
           /\ \A p \in On(d) : p # o => /\ ops'[p] = ops[p]
                                        /\ \A call : /\ Will(p, call)' <=> Will(p, call)
                                                     /\ Calling(p, call)' <=> Calling(p, call)
           /\ Tail(ops[o].calls) # <<>> => o \in On(d)'
           /\ Tail(ops[o].calls) = <<>> => o \notin On(d)'
           /\ \A call : Will(o, call) /\ ~Calling(o, call) => o \in On(d)' /\ Will(o, call)'
           /\ o \in On(d)' => \A kind \in Kind :
                 ~Calling(o, OpenCall(kind)) => ops'[o][kind] = ops[o][kind]
  <1>0. /\ ops[o].calls \in Stages /\ ops[o].calls # <<>> /\ ops'[o].calls = Tail(ops[o].calls)
        /\ Only(o) /\ o \in DOMAIN ops
    BY CallFacts DEF Advances
  <1>1. /\ \A p : p # o => (p \in On(d)' <=> p \in On(d)) /\ (p \in On(d) => ops'[p] = ops[p])
        /\ o \in On(d)' <=> Tail(ops[o].calls) # <<>>
        /\ o \in On(d)
    BY <1>0, OnlyOn
  <1>2. \A p \in On(d) : p # o => /\ ops'[p] = ops[p]
                                  /\ \A call : /\ Will(p, call)' <=> Will(p, call)
                                               /\ Calling(p, call)' <=> Calling(p, call)
                                  /\ LastCall(p)' = LastCall(p)
    <2> SUFFICES ASSUME NEW p \in On(d), p # o
                 PROVE  /\ ops'[p] = ops[p]
                                  /\ \A call : /\ Will(p, call)' <=> Will(p, call)
                                               /\ Calling(p, call)' <=> Calling(p, call)
                                  /\ LastCall(p)' = LastCall(p)
      OBVIOUS
    <2>1. ops'[p] = ops[p] /\ p \in Running /\ p \in Running'
      BY <1>1 DEF On
    <2> QED
      BY <2>1 DEF Will, Calling, LastCall
  <1>3. \A call : /\ Will(o, call)' => Will(o, call)
                  /\ Will(o, call) /\ ~Calling(o, call) => Will(o, call)'
    BY AdvanceWill, <1>0
  <1>4. \A call : Will(o, call)' => Tail(ops[o].calls) # <<>>
    BY <1>0, InNothing DEF Will
  <1>5. o \in On(d)' => (Removes(o)' <=> Removes(o)) /\ LastCall(o)' = LastCall(o)
    <2> SUFFICES ASSUME o \in On(d)'
                 PROVE  (Removes(o)' <=> Removes(o)) /\ LastCall(o)' = LastCall(o)
      OBVIOUS
    <2> DEFINE s == ops[o].calls
    <2>1. Tail(s) # <<>> /\ Tail(s) \in Stages /\ s \in Stages /\ s # <<>>
      BY <1>0, <1>1, StageFacts
    <2>2. In(Tail(s), Head(Tail(s)))
      BY <2>1, TailIn
    <2>3. Head(s) \in {"moveMeta", "moveZip"} <=> Head(Tail(s)) \in {"moveMeta", "moveZip"}
      <3>1. CASE Head(s) = "moveMeta"
        <4>1. Head(Tail(s)) = "moveZip"
          BY <2>1, <3>1, StageFacts
        <4> QED
          BY <3>1, <4>1
      <3>2. CASE Head(s) = "moveZip"
        BY <2>1, <3>2, StageFacts
      <3>3. CASE Head(s) \notin {"moveMeta", "moveZip"}
        <4>1. ~In(Tail(s), "moveMeta") /\ ~In(Tail(s), "moveZip")
          BY <2>1, <3>3, StageFacts
        <4> QED
          BY <2>2, <3>3, <4>1
      <3> QED
        BY <3>1, <3>2, <3>3
    <2>4. Removes(o) <=> Head(s) \in {"moveMeta", "moveZip"}
      BY DEF Removes, Calling
    <2>5. Removes(o)' <=> Head(Tail(s)) \in {"moveMeta", "moveZip"}
      <3>1. o \in Running'
        BY DEF On
      <3> QED
        BY <1>0, <3>1 DEF Removes, Calling
    <2>6. LastCall(o)' = LastCall(o)
      BY <1>0, <2>1, StageFacts DEF LastCall
    <2> QED
      BY <2>3, <2>4, <2>5, <2>6
  <1>6. \A p \in On(d) : p # o => (Removes(p)' <=> Removes(p))
    BY <1>2 DEF Removes
  <1>7. o \in On(d)' => \A kind \in Kind :
                 ~Calling(o, OpenCall(kind)) => ops'[o][kind] = ops[o][kind]
    BY <1>1 DEF Keeps
  <1> QED
    BY <1>1, <1>2, <1>3, <1>4, <1>5, <1>6, <1>7

-----------------------------------------------------------------------------
(* Where who removes and who writes are apart, who removes is not writing.  *)
LEMMA Removers ==
    ASSUME TypeOK, Staged, NEW d, Apart(d), NEW o \in On(d), Removes(o)
    PROVE  \A p \in On(d) : /\ Removes(p) /\ ops[p].meta = None /\ ops[p].zip = None
                            /\ \A kind \in Kind : ~Will(p, OpenCall(kind)) /\ ~Will(p, FillCall(kind))
                            /\ ~Will(p, "openMeta") /\ ~Will(p, "openZip")
                            /\ ~Will(p, "fillMeta") /\ ~Will(p, "fillZip")
  <1> SUFFICES ASSUME NEW p \in On(d)
               PROVE  /\ Removes(p) /\ ops[p].meta = None /\ ops[p].zip = None
                      /\ \A kind \in Kind : ~Will(p, OpenCall(kind)) /\ ~Will(p, FillCall(kind))
                      /\ ~Will(p, "openMeta") /\ ~Will(p, "openZip")
                      /\ ~Will(p, "fillMeta") /\ ~Will(p, "fillZip")
    OBVIOUS
  <1>1. Removes(p) /\ p \in Running /\ p \in DOMAIN ops
    BY OnRunning DEF Apart
  <1>2. ops[p].calls \in Stages /\ ops[p].calls # <<>> /\ Head(ops[p].calls) \in {"moveMeta", "moveZip"}
    BY <1>1, CallFacts DEF Removes, Calling
  <1>3. \A kind \in Kind : ~Will(p, OpenCall(kind)) /\ ~Will(p, FillCall(kind))
    BY <1>2, StageFacts DEF Will
  <1>4. /\ "meta" \in Kind /\ "zip" \in Kind
        /\ OpenCall("meta") = "openMeta" /\ OpenCall("zip") = "openZip"
        /\ FillCall("meta") = "fillMeta" /\ FillCall("zip") = "fillZip"
    BY DEF Kind, OpenCall, FillCall
  <1> QED
    BY <1>1, <1>3, <1>4 DEF Staged

LEMMA Names ==
    /\ "meta" \in Kind /\ "zip" \in Kind /\ Kind = {"meta", "zip"}
    /\ OpenCall("meta") = "openMeta" /\ OpenCall("zip") = "openZip"
    /\ FillCall("meta") = "fillMeta" /\ FillCall("zip") = "fillZip"
  BY DEF Kind, OpenCall, FillCall

LEMMA WillStays ==
    ASSUME TypeOK, Staged, NEW o \in Running, Advances(o), Keeps(o), NEW d, d = D(o),
           NEW call, ~Calling(o, call), NEW q \in On(d), Will(q, call)
    PROVE  q \in On(d)' /\ Will(q, call)'
  <1>1. CASE q = o
    BY <1>1, OnAdvances
  <1>2. CASE q # o
    BY <1>2, OnAdvances
  <1> QED
    BY <1>1, <1>2

LEMMA ApartAdvances ==
    ASSUME TypeOK, Staged, NEW o \in Running, Advances(o), Keeps(o), NEW d, d = D(o), Apart(d)
    PROVE  Apart(d)'
  BY OnAdvances DEF Apart

LEMMA UntouchedAdvances ==
    ASSUME TypeOK, Staged, NEW o \in Running, Advances(o), Keeps(o), NEW d, d = D(o), Untouched(d),
           Will(o, "openMeta")' /\ LastCall(o) = "fillZip"
              => (Known(d)' => Known(d)) /\ whole'[d] \in {whole[d], None}
    PROVE  Untouched(d)'
  <1>1. ~\A p \in DOMAIN ops' : D(p)' # d
    BY CallFacts DEF Advances, Only, D
  <1>2. ASSUME NEW p \in On(d)', Will(p, "openMeta")', LastCall(p)' = "fillZip"
        PROVE  ~Known(d)' /\ whole'[d] = None /\ On(d)' = {p}
    <2>1. p \in On(d) /\ Will(p, "openMeta") /\ LastCall(p) = "fillZip"
      BY <1>2, OnAdvances
    <2>2. ~Known(d) /\ whole[d] = None /\ On(d) = {p}
      BY <2>1 DEF Untouched
    <2>3. p = o
      BY <2>2, OnAdvances
    <2>4. \A q \in On(d)' : q = p
      BY <2>2, OnAdvances
    <2> QED
      BY <1>2, <2>1, <2>2, <2>3, <2>4
  <1> QED
    BY <1>1, <1>2 DEF Untouched

LEMMA OpenMetaDoc ==
    ASSUME TypeOK, Staged, Ids, NEW o \in Running, OpenMeta(o), NEW d \in Doc, d = D(o), DocInv(d)
    PROVE  DocInv(d)'
  <1> DEFINE s == ops[o].calls
  <1>1. Advances(o) /\ Keeps(o) /\ ops'[o].meta = Opened(o, dir[d].meta).id
    BY KeepsOpen, OpenAdvances, Names DEF OpenMeta
  <1>2. s \in Stages /\ s # <<>> /\ Head(s) = "openMeta" /\ o \in Nat /\ o \in On(d) /\ o \in DOMAIN ops
    BY CallFacts, OnAdvances, <1>1 DEF OpenMeta, Calling
  <1>3. PICK f, g : f = dir[d].meta /\ g = Opened(o, f)
    OBVIOUS
  <1>4. /\ f \in FileType \cup {None} /\ IsFile(g) /\ g.writer = o
        /\ IsFile(f) => g.id = f.id
    <2>1. f \in FileType \cup {None}
      BY <1>3, FileOf
    <2>2. IsFile(g)
      BY <1>2, <1>3, <2>1, OpenedIsFile
    <2> QED
      BY <1>3, <2>1, <2>2 DEF Opened, File
  <1>5. dir'[d].meta = g /\ dir'[d].zip = dir[d].zip /\ trash'[d] = trash[d] /\ whole'[d] = whole[d]
        /\ ops'[o].meta = g.id /\ faults' = faults /\ overtaken' = overtaken /\ revived' = revived
        /\ mixed \subseteq mixed'
    BY <1>1, <1>3 DEF OpenMeta, Open, TypeOK, Files
  <1>6. Will(o, "openMeta") /\ ~Will(o, "openMeta")' /\ Will(o, "fillMeta")' /\ o \in On(d)'
    <2>1. In(Tail(s), "fillMeta")
      BY <1>2, StageFacts
    <2>2. Will(o, "openMeta") /\ Will(o, "fillMeta") /\ ~Calling(o, "fillMeta")
      BY <1>2, <2>1, CallFacts DEF Calling
    <2> QED
      BY <1>1, <1>2, <2>2, OnAdvances, AdvanceWill
  <1>7. Untouched(d)'
    BY <1>1, <1>6, UntouchedAdvances DEF DocInv
  <1>8. ops'[o].zip = ops[o].zip
    BY <1>1, <1>2, <1>6, OnAdvances, Names DEF Calling
  <1> SUFFICES ASSUME d \notin mixed' \cup overtaken' \cup revived'
               PROVE Apart(d)' /\ Owned(d)' /\ Kept(d)' /\ (faults' = 0 => Matched(d)')
    BY <1>7 DEF DocInv
  <1> HIDE DEF s
  <1>16. ~Calling(o, "openZip") /\ ~Calling(o, "fillZip")
    BY <1>2 DEF Calling, s
  <1>9. d \notin mixed \cup overtaken \cup revived /\ Untouched(d) /\ Apart(d) /\ Owned(d) /\ Kept(d)
        /\ (faults = 0 => Matched(d))
    BY <1>5 DEF DocInv
  <1>10. Apart(d)'
    BY <1>1, <1>9, ApartAdvances
  <1>11. Owned(d)'
    <2> SUFFICES ASSUME NEW p \in On(d)', NEW kind \in Kind, ops'[p][kind] # None
                 PROVE  /\ IsFile(dir'[d][kind])
                        /\ dir'[d][kind].id = ops'[p][kind]
                        /\ dir'[d][kind].writer = p
      BY DEF Owned, IsFile
    <2>1. p \in On(d) /\ (p # o => ops'[p] = ops[p])
      BY <1>1, OnAdvances
    <2>2. CASE kind = "zip"
      BY <1>5, <1>8, <1>9, <2>1, <2>2 DEF Owned
    <2>3. CASE kind = "meta" /\ p = o
      BY <1>4, <1>5, <2>3
    <2>4. CASE kind = "meta" /\ p # o
      <3>1. IsFile(f) /\ f.id = ops[p].meta /\ p \in Running /\ D(p) = D(o)
        BY <1>3, <1>9, <2>1, <2>4, OnRunning DEF Owned
      <3>2. d \in mixed'
        BY <1>3, <2>4, <3>1 DEF OpenMeta, Open
      <3> QED
        BY <3>2
    <2> QED
      BY <2>2, <2>3, <2>4, Names
  <1>12. InDir(d)
    <2>1. CASE Will(o, "fillZip")
      <3>1. LastCall(o) = "fillZip"
        BY <1>2, <2>1, StageFacts DEF Will, LastCall, s
      <3> QED
        BY <1>2, <1>6, <1>9, <3>1 DEF Untouched, InDir
    <2>2. CASE ~Will(o, "fillZip")
      BY <1>2, <1>6, <1>9, <2>2 DEF Kept
    <2> QED
      BY <2>1, <2>2
  <1>13. \A p \in On(d)' : ~Calling(p, "moveZip")'
    <2>1. ~Removes(o)
      BY <1>2 DEF Removes, Calling, s
    <2> QED
      BY <1>1, <1>2, <1>9, <2>1, OnAdvances DEF Apart, Removes
  <1>14. Kept(d)'
    BY <1>4, <1>5, <1>12, <1>13 DEF Kept, InDir
  <1>15. ASSUME faults' = 0 PROVE Matched(d)'
    <2>1. Matched(d)
      BY <1>5, <1>9, <1>15
    <2>2. IsWhole(dir'[d].zip) \/ ~IsFile(dir'[d].zip)
          \/ \E q \in On(d)' : ops'[q].zip = dir'[d].zip.id /\ Will(q, "fillZip")'
      <3> SUFFICES ASSUME IsFile(dir[d].zip), ~IsWhole(dir[d].zip)
                   PROVE \E q \in On(d)' : ops'[q].zip = dir'[d].zip.id /\ Will(q, "fillZip")'
        BY <1>5
      <3>1. PICK q \in On(d) : ops[q].zip = dir[d].zip.id /\ Will(q, "fillZip")
        BY <2>1, Names DEF Matched
      <3>2. q \in On(d)' /\ Will(q, "fillZip")'
        BY <1>1, <1>16, <3>1, WillStays
      <3> QED
        BY <1>1, <1>5, <1>8, <3>1, <3>2, OnAdvances
    <2>3. ops'[o].meta = dir'[d].meta.id /\ Will(o, "fillMeta")' /\ o \in On(d)'
      BY <1>5, <1>6
    <2>4. ASSUME ~IsFile(dir[d].zip) PROVE \E q \in On(d)' : Will(q, "openZip")'
      <3>1. CASE IsFile(f)
        <4>1. PICK q \in On(d) : Will(q, "openZip")
          BY <1>3, <2>1, <2>4, <3>1 DEF Matched
        <4>2. q \in On(d)' /\ Will(q, "openZip")'
          BY <1>1, <1>16, <4>1, WillStays
        <4> QED
          BY <4>2
      <3>2. CASE ~IsFile(f)
        <4>1. ops[o].zip = None
          BY <1>2, <1>9, <2>4, Names DEF Owned
        <4>2. Will(o, "fillZip")
          BY <1>2, <1>3, <1>6, <1>9, <3>2, <4>1 DEF Kept
        <4>3. Will(o, "openZip")
          BY <1>2, <4>1, <4>2, Names DEF Staged
        <4>4. o \in On(d)' /\ Will(o, "openZip")'
          BY <1>1, <1>2, <1>16, <4>3, WillStays
        <4> QED
          BY <4>4
      <3> QED
        BY <3>1, <3>2
    <2>5. IsFile(dir'[d].meta)
      BY <1>4, <1>5
    <2>6. \A kind \in Kind : IsFile(dir'[d][kind]) =>
              \/ IsWhole(dir'[d][kind])
              \/ \E q \in On(d)' : ops'[q][kind] = dir'[d][kind].id /\ Will(q, FillCall(kind))'
      BY <2>2, <2>3, Names
    <2> QED
      BY <1>5, <2>4, <2>5, <2>6 DEF Matched, IsFile, IsWhole
  <1> QED
    BY <1>10, <1>11, <1>14, <1>15

-----------------------------------------------------------------------------
LEMMA OpenZipDoc ==
    ASSUME TypeOK, Staged, Ids, NEW o \in Running, OpenZip(o), NEW d \in Doc, d = D(o), DocInv(d)
    PROVE  DocInv(d)'
  <1> DEFINE s == ops[o].calls
  <1>1. Advances(o) /\ Keeps(o) /\ ops'[o].zip = Opened(o, dir[d].zip).id
    BY KeepsOpen, OpenAdvances, Names DEF OpenZip
  <1>2. s \in Stages /\ s # <<>> /\ Head(s) = "openZip" /\ o \in Nat /\ o \in On(d) /\ o \in DOMAIN ops
    BY CallFacts, OnAdvances, <1>1 DEF OpenZip, Calling
  <1>3. PICK f, g : f = dir[d].zip /\ g = Opened(o, f)
    OBVIOUS
  <1>4. /\ f \in FileType \cup {None} /\ IsFile(g) /\ g.writer = o
        /\ IsFile(f) => g.id = f.id
    <2>1. f \in FileType \cup {None}
      BY <1>3, FileOf
    <2>2. IsFile(g)
      BY <1>2, <1>3, <2>1, OpenedIsFile
    <2> QED
      BY <1>3, <2>1, <2>2 DEF Opened, File
  <1>5. dir'[d].zip = g /\ dir'[d].meta = dir[d].meta /\ trash'[d] = trash[d]
        /\ ops'[o].zip = g.id /\ faults' = faults /\ overtaken' = overtaken /\ revived' = revived
        /\ mixed \subseteq mixed'
    BY <1>1, <1>3 DEF OpenZip, Open, TypeOK, Files
  <1>17. whole'[d] = (IF IsFile(f) /\ whole[d] = f.id THEN None ELSE whole[d])
    BY <1>3 DEF OpenZip, TypeOK
  <1>6. Will(o, "openZip") /\ ~Will(o, "openZip")' /\ Will(o, "fillZip")' /\ o \in On(d)'
    <2>1. In(Tail(s), "fillZip")
      BY <1>2, StageFacts
    <2>2. Will(o, "openZip") /\ Will(o, "fillZip") /\ ~Calling(o, "fillZip")
      BY <1>2, <2>1, CallFacts DEF Calling
    <2> QED
      BY <1>1, <1>2, <2>2, OnAdvances, AdvanceWill
  <1>7. Untouched(d)'
    BY <1>1, <1>5, <1>17, UntouchedAdvances DEF DocInv, Known
  <1>8. ops'[o].meta = ops[o].meta
    BY <1>1, <1>2, <1>6, OnAdvances, Names DEF Calling
  <1> HIDE DEF s
  <1>16. ~Calling(o, "openMeta") /\ ~Calling(o, "fillMeta")
    BY <1>2 DEF Calling, s
  <1> SUFFICES ASSUME d \notin mixed' \cup overtaken' \cup revived'
               PROVE Apart(d)' /\ Owned(d)' /\ Kept(d)' /\ (faults' = 0 => Matched(d)')
    BY <1>7 DEF DocInv
  <1>9. d \notin mixed \cup overtaken \cup revived /\ Untouched(d) /\ Apart(d) /\ Owned(d) /\ Kept(d)
        /\ (faults = 0 => Matched(d))
    BY <1>5 DEF DocInv
  <1>10. Apart(d)'
    BY <1>1, <1>9, ApartAdvances
  <1>11. Owned(d)'
    <2> SUFFICES ASSUME NEW p \in On(d)', NEW kind \in Kind, ops'[p][kind] # None
                 PROVE  /\ IsFile(dir'[d][kind])
                        /\ dir'[d][kind].id = ops'[p][kind]
                        /\ dir'[d][kind].writer = p
      BY DEF Owned, IsFile
    <2>1. p \in On(d) /\ (p # o => ops'[p] = ops[p])
      BY <1>1, OnAdvances
    <2>2. CASE kind = "meta"
      BY <1>5, <1>8, <1>9, <2>1, <2>2 DEF Owned
    <2>3. CASE kind = "zip" /\ p = o
      BY <1>4, <1>5, <2>3
    <2>4. CASE kind = "zip" /\ p # o
      <3>1. IsFile(f) /\ f.id = ops[p].zip /\ p \in Running /\ D(p) = D(o)
        BY <1>3, <1>9, <2>1, <2>4, OnRunning DEF Owned
      <3>2. d \in mixed'
        BY <1>3, <2>4, <3>1 DEF OpenZip, Open
      <3> QED
        BY <3>2
    <2> QED
      BY <2>2, <2>3, <2>4, Names
  <1>12. InDir(d) => InDir(d)'
    BY <1>3, <1>17 DEF InDir, IsWhole, IsFile
  <1>13. \A p \in On(d) : ~Calling(p, "moveZip")
    <2>1. ~Removes(o)
      BY <1>2 DEF Removes, Calling, s
    <2> QED
      BY <1>2, <1>9, <2>1 DEF Apart, Removes
  <1>18. ~Calling(o, "moveZip")'
    <2>1. ~Removes(o)
      BY <1>2 DEF Removes, Calling, s
    <2> QED
      BY <1>1, <1>6, <2>1, OnAdvances DEF Removes
  <1>14. Kept(d)'
    <2>1. InDir(d)' \/ InTrash(d)'
      <3>1. CASE whole'[d] = whole[d] /\ InTrash(d)
        BY <1>5, <3>1 DEF InTrash
      <3>2. CASE whole'[d] = None
        BY <3>2 DEF InDir
      <3> QED
        BY <1>9, <1>12, <1>17, <3>1, <3>2 DEF Kept
    <2>2. IsFile(dir'[d].meta) => InDir(d)'
      BY <1>5, <1>9, <1>12 DEF Kept
    <2>3. ASSUME NEW p \in On(d)'
          PROVE /\ ~Calling(p, "moveZip")'
                /\ ops'[p].zip # None /\ ~Will(p, "fillZip")' => InDir(d)'
                /\ Will(p, "openMeta")' /\ ~Will(p, "fillZip")' /\ ops'[p].zip = None
                      => IsFile(dir'[d].meta)
      <3>1. CASE p = o
        BY <1>6, <1>18, <3>1
      <3>2. CASE p # o
        BY <1>1, <1>5, <1>9, <1>12, <1>13, <3>2, OnAdvances DEF Kept
      <3> QED
        BY <3>1, <3>2
    <2> QED
      BY <2>1, <2>2, <2>3 DEF Kept, IsFile
  <1>15. ASSUME faults' = 0 PROVE Matched(d)'
    <2>1. Matched(d)
      BY <1>5, <1>9, <1>15
    <2>2. IsWhole(dir'[d].meta) \/ ~IsFile(dir'[d].meta)
          \/ \E q \in On(d)' : ops'[q].meta = dir'[d].meta.id /\ Will(q, "fillMeta")'
      <3> SUFFICES ASSUME IsFile(dir[d].meta), ~IsWhole(dir[d].meta)
                   PROVE \E q \in On(d)' : ops'[q].meta = dir'[d].meta.id /\ Will(q, "fillMeta")'
        BY <1>5
      <3>1. PICK q \in On(d) : ops[q].meta = dir[d].meta.id /\ Will(q, "fillMeta")
        BY <2>1, Names DEF Matched
      <3>2. q \in On(d)' /\ Will(q, "fillMeta")'
        BY <1>1, <1>16, <3>1, WillStays
      <3> QED
        BY <1>1, <1>5, <1>8, <3>1, <3>2, OnAdvances
    <2>3. ops'[o].zip = dir'[d].zip.id /\ Will(o, "fillZip")' /\ o \in On(d)'
      BY <1>5, <1>6
    <2>4. ASSUME ~IsFile(dir[d].meta) PROVE \E q \in On(d)' : Will(q, "openMeta")'
      <3>1. CASE IsFile(f)
        <4>1. PICK q \in On(d) : Will(q, "openMeta")
          BY <1>3, <1>13, <2>1, <2>4, <3>1 DEF Matched
        <4>2. q \in On(d)' /\ Will(q, "openMeta")'
          BY <1>1, <1>16, <4>1, WillStays
        <4> QED
          BY <4>2
      <3>2. CASE ~IsFile(f)
        <4>1. ops[o].meta = None
          BY <1>2, <1>9, <2>4, Names DEF Owned
        <4>2. Will(o, "openMeta")
          BY <1>2, <1>6, <4>1 DEF Staged
        <4>4. o \in On(d)' /\ Will(o, "openMeta")'
          BY <1>1, <1>2, <1>16, <4>2, WillStays
        <4> QED
          BY <4>4
      <3> QED
        BY <3>1, <3>2
    <2>5. IsFile(dir'[d].zip)
      BY <1>4, <1>5
    <2>6. \A kind \in Kind : IsFile(dir'[d][kind]) =>
              \/ IsWhole(dir'[d][kind])
              \/ \E q \in On(d)' : ops'[q][kind] = dir'[d][kind].id /\ Will(q, FillCall(kind))'
      BY <2>2, <2>3, Names
    <2> QED
      BY <1>5, <2>4, <2>5, <2>6 DEF Matched, IsFile, IsWhole
  <1> QED
    BY <1>10, <1>11, <1>14, <1>15

-----------------------------------------------------------------------------
(* Nobody else has opened the file since: it is whole now.                  *)
LEMMA FillsOwn ==
    ASSUME TypeOK, Staged, Ids, NEW o \in Running, NEW kind \in Kind, Calling(o, FillCall(kind)),
           Fill(o, kind), NEW d \in Doc, d = D(o), Owned(d)
    PROVE  /\ ~Mixes(o, kind)
           /\ IsMine(o, kind, dir[d][kind])
           /\ dir'[d][kind] = [id |-> ops[o][kind], writer |-> o, full |-> TRUE]
           /\ IsWhole(dir'[d][kind]) /\ ops[o][kind] # None
           /\ trash'[d] = trash[d]
           /\ \A other \in Kind : other # kind => dir'[d][other] = dir[d][other]
  <1>1. /\ ops[o].calls \in Stages /\ ops[o].calls # <<>> /\ Head(ops[o].calls) = FillCall(kind)
        /\ o \in On(d) /\ o \in DOMAIN ops /\ o \in Nat
    BY CallFacts DEF Calling, On
  <1>2. Will(o, FillCall(kind)) /\ ~Will(o, OpenCall(kind))
    <2>1. ~In(ops[o].calls, OpenCall(kind))
      BY <1>1, StageFacts
    <2> QED
      BY <1>1, <2>1, CallFacts DEF Will
  <1>3. ops[o][kind] # None
    BY <1>1, <1>2 DEF Staged
  <1>4. IsFile(dir[d][kind]) /\ dir[d][kind].id = ops[o][kind] /\ dir[d][kind].writer = o
    BY <1>1, <1>3 DEF Owned
  <1>5. ~IsMine(o, kind, trash[d][kind])
    BY <1>4 DEF Ids, IdsOf, IsMine
  <1>6. ~Mixes(o, kind) /\ IsMine(o, kind, dir[d][kind])
    BY <1>4, <1>5 DEF Mixes, IsMine
  <1>7. /\ dir' = [dir EXCEPT ![d][kind] = Filled(o, kind, @, TRUE)]
        /\ trash' = [trash EXCEPT ![d][kind] = Filled(o, kind, @, TRUE)]
    BY <1>6 DEF Fill
  <1>8. dir[d] \in Files /\ trash[d] \in Files /\ dir \in [Doc -> Files] /\ trash \in [Doc -> Files]
    BY DEF TypeOK
  <1>9. /\ Filled(o, kind, dir[d][kind], TRUE) = [id |-> ops[o][kind], writer |-> o, full |-> TRUE]
        /\ Filled(o, kind, trash[d][kind], TRUE) = trash[d][kind]
    BY <1>4, <1>5, <1>6 DEF Filled
  <1>10. /\ dir'[d][kind] = Filled(o, kind, dir[d][kind], TRUE)
         /\ \A other \in Kind : other # kind => dir'[d][other] = dir[d][other]
    BY <1>7, <1>8 DEF Files, Kind
  <1>11. trash'[d] = trash[d]
    BY <1>7, <1>8, <1>9 DEF Files, Kind
  <1>12. IsWhole(dir'[d][kind])
    <2>1. PICK f : f = dir[d][kind]
      OBVIOUS
    <2>2. f \in FileType \cup {None} /\ IsFile(f)
      BY <1>4, <1>8, <2>1, FileOf, Names
    <2>3. IsFile(Filled(o, kind, f, TRUE))
      BY <1>1, <2>2, FilledIsFile, Names
    <2>4. Filled(o, kind, f, TRUE).full
      BY <1>6, <2>1 DEF Filled
    <2> QED
      BY <1>10, <2>1, <2>3, <2>4 DEF IsWhole
  <1> QED
    BY <1>3, <1>6, <1>9, <1>10, <1>11, <1>12

LEMMA FilledOwned ==
    ASSUME TypeOK, Staged, NEW o \in Running, Advances(o), Keeps(o), NEW d, d = D(o), Owned(d),
           ~Calling(o, "openMeta"), ~Calling(o, "openZip"), NEW kind \in Kind, ops[o][kind] # None,
           dir'[d][kind] = [id |-> ops[o][kind], writer |-> o, full |-> TRUE],
           IsWhole(dir'[d][kind]),
           \A other \in Kind : other # kind => dir'[d][other] = dir[d][other]
    PROVE  Owned(d)'
  <1> SUFFICES ASSUME NEW p \in On(d)', NEW k \in Kind, ops'[p][k] # None
               PROVE  /\ IsFile(dir'[d][k])
                      /\ dir'[d][k].id = ops'[p][k]
                      /\ dir'[d][k].writer = p
    BY DEF Owned, IsFile
  <1>1. p \in On(d) /\ o \in On(d)
    BY OnAdvances
  <1>2. ops'[p][k] = ops[p][k]
    <2>1. CASE p = o
      BY <2>1, OnAdvances DEF OpenCall
    <2>2. CASE p # o
      BY <1>1, <2>2, OnAdvances
    <2> QED
      BY <2>1, <2>2
  <1>3. CASE k # kind
    BY <1>1, <1>2, <1>3 DEF Owned
  <1>4. CASE k = kind
    <2>1. p = o
      BY <1>1, <1>2, <1>4 DEF Owned
    <2> QED
      BY <1>2, <1>4, <2>1 DEF IsWhole
  <1> QED
    BY <1>3, <1>4

LEMMA FillKnown ==
    ASSUME TypeOK, NEW o \in Running, NEW kind \in Kind, Fill(o, kind), NEW d \in Doc
    PROVE  Known(d)' <=> Known(d)
  <1>1. PICK full \in BOOLEAN :
           /\ dir' = [dir EXCEPT ![D(o)][kind] = Filled(o, kind, @, full)]
           /\ trash' = [trash EXCEPT ![D(o)][kind] = Filled(o, kind, @, full)]
    BY DEF Fill
  <1>2. o \in Nat /\ D(o) \in Doc
    BY RequestOf
  <1>3. dir \in [Doc -> Files] /\ trash \in [Doc -> Files]
    BY DEF TypeOK
  <1>4. CASE d = D(o) /\ kind = "meta"
    <2>1. /\ IsFile(Filled(o, kind, dir[d].meta, full)) <=> IsFile(dir[d].meta)
          /\ IsFile(Filled(o, kind, trash[d].meta, full)) <=> IsFile(trash[d].meta)
      BY <1>2, FilledIsFile, FileOf, Names
    <2>2. /\ dir'[d].meta = Filled(o, kind, dir[d].meta, full)
          /\ trash'[d].meta = Filled(o, kind, trash[d].meta, full)
      BY <1>1, <1>2, <1>3, <1>4 DEF Files
    <2> QED
      BY <2>1, <2>2 DEF Known, IsFile
  <1>5. CASE d # D(o) \/ kind = "zip"
    <2>1. dir'[d].meta = dir[d].meta /\ trash'[d].meta = trash[d].meta
      BY <1>1, <1>2, <1>3, <1>5 DEF Files
    <2> QED
      BY <2>1 DEF Known
  <1> QED
    BY <1>4, <1>5, Names

LEMMA FillMetaDoc ==
    ASSUME TypeOK, Staged, Ids, NEW o \in Running, FillMeta(o), NEW d \in Doc, d = D(o), DocInv(d)
    PROVE  DocInv(d)'
  <1>1. Done(o) /\ Calling(o, "fillMeta") /\ Fill(o, "meta") /\ whole' = whole /\ faults' = faults
        /\ overtaken' = overtaken /\ revived' = revived /\ mixed' = mixed
    BY DEF FillMeta, Fill
  <1>2. ~Calling(o, "openMeta") /\ ~Calling(o, "openZip") /\ ~Calling(o, "fillZip")
        /\ ~Calling(o, "moveZip") /\ ~Removes(o)
    BY <1>1 DEF Calling, Removes
  <1>3. Advances(o) /\ Keeps(o) /\ o \in On(d)
    BY <1>1, <1>2, KeepsDone, OnAdvances
  <1>4. Untouched(d)'
    BY <1>1, <1>3, FillKnown, UntouchedAdvances, Names DEF DocInv
  <1> SUFFICES ASSUME d \notin mixed' \cup overtaken' \cup revived'
               PROVE Apart(d)' /\ Owned(d)' /\ Kept(d)' /\ (faults' = 0 => Matched(d)')
    BY <1>4 DEF DocInv
  <1>5. d \notin mixed \cup overtaken \cup revived /\ Apart(d) /\ Owned(d) /\ Kept(d)
        /\ (faults = 0 => Matched(d))
    BY <1>1 DEF DocInv
  <1>6. Apart(d)'
    BY <1>3, <1>5, ApartAdvances
  <1>11. /\ ~Mixes(o, "meta")
         /\ IsMine(o, "meta", dir[d]["meta"])
         /\ dir'[d]["meta"] = [id |-> ops[o]["meta"], writer |-> o, full |-> TRUE]
         /\ IsWhole(dir'[d]["meta"]) /\ ops[o]["meta"] # None
         /\ trash'[d] = trash[d]
         /\ \A other \in Kind : other # "meta" => dir'[d][other] = dir[d][other]
    <2>1. "meta" \in Kind /\ Calling(o, FillCall("meta")) /\ Fill(o, "meta") /\ Owned(d)
      BY <1>1, <1>5, Names
    <2> QED
      BY <2>1, FillsOwn
  <1>7. /\ IsWhole(dir'[d].meta) /\ IsFile(dir[d].meta)
        /\ trash'[d] = trash[d] /\ dir'[d].zip = dir[d].zip
    BY <1>11, Names DEF IsMine
  <1>8. Owned(d)'
    BY <1>2, <1>3, <1>5, <1>11, FilledOwned, Names
  <1>9. Kept(d)'
    <2>1. InDir(d)'
      BY <1>1, <1>5, <1>7 DEF Kept, InDir
    <2>2. \A p \in On(d)' : ~Calling(p, "moveZip")'
      BY <1>2, <1>3, <1>5, OnAdvances DEF Apart, Removes
    <2> QED
      BY <1>7, <2>1, <2>2 DEF Kept, IsWhole
  <1>10. ASSUME faults' = 0 PROVE Matched(d)'
    <2>1. Matched(d)
      BY <1>1, <1>5, <1>10
    <2>2. IsWhole(dir'[d].zip) \/ ~IsFile(dir'[d].zip)
          \/ \E q \in On(d)' : ops'[q].zip = dir'[d].zip.id /\ Will(q, "fillZip")'
      <3> SUFFICES ASSUME IsFile(dir[d].zip), ~IsWhole(dir[d].zip)
                   PROVE \E q \in On(d)' : ops'[q].zip = dir'[d].zip.id /\ Will(q, "fillZip")'
        BY <1>7
      <3>1. PICK q \in On(d) : ops[q].zip = dir[d].zip.id /\ Will(q, "fillZip")
        BY <2>1, Names DEF Matched
      <3>2. q \in On(d)' /\ Will(q, "fillZip")'
        BY <1>2, <1>3, <3>1, WillStays
      <3>3. ops'[q].zip = ops[q].zip
        BY <1>2, <1>3, <3>1, <3>2, OnAdvances, Names
      <3> QED
        BY <1>7, <3>1, <3>2, <3>3
    <2>3. ~IsFile(dir[d].zip) => \E q \in On(d)' : Will(q, "openZip")'
      BY <1>2, <1>3, <1>7, <2>1, WillStays DEF Matched
    <2>4. \A kind \in Kind : IsFile(dir'[d][kind]) =>
              \/ IsWhole(dir'[d][kind])
              \/ \E q \in On(d)' : ops'[q][kind] = dir'[d][kind].id /\ Will(q, FillCall(kind))'
      BY <1>7, <2>2, Names
    <2> QED
      BY <1>7, <2>3, <2>4 DEF Matched, IsFile, IsWhole
  <1> QED
    BY <1>6, <1>8, <1>9, <1>10

LEMMA FillZipDoc ==
    ASSUME TypeOK, Staged, Ids, NEW o \in Running, FillZip(o), NEW d \in Doc, d = D(o), DocInv(d)
    PROVE  DocInv(d)'
  <1>1. Done(o) /\ Calling(o, "fillZip") /\ Fill(o, "zip") /\ faults' = faults
        /\ overtaken' = overtaken /\ revived' = revived /\ mixed' = mixed
    BY DEF FillZip, Fill
  <1>2. ~Calling(o, "openMeta") /\ ~Calling(o, "openZip") /\ ~Calling(o, "fillMeta")
        /\ ~Calling(o, "moveZip") /\ ~Removes(o)
    BY <1>1 DEF Calling, Removes
  <1>3. Advances(o) /\ Keeps(o) /\ o \in On(d) /\ o \in DOMAIN ops
    BY <1>1, <1>2, KeepsDone, OnAdvances, CallFacts
  <1>4. Untouched(d)'
    <2>1. Will(o, "openMeta") => LastCall(o) # "fillZip"
      BY <1>1, CallFacts, StageFacts DEF Will, LastCall, Calling
    <2>2. Will(o, "openMeta")' => Will(o, "openMeta")
      BY <1>3, AdvanceWill
    <2> QED
      BY <1>3, <2>1, <2>2, UntouchedAdvances DEF DocInv
  <1> SUFFICES ASSUME d \notin mixed' \cup overtaken' \cup revived'
               PROVE Apart(d)' /\ Owned(d)' /\ Kept(d)' /\ (faults' = 0 => Matched(d)')
    BY <1>4 DEF DocInv
  <1>5. d \notin mixed \cup overtaken \cup revived /\ Apart(d) /\ Owned(d) /\ Kept(d)
        /\ (faults = 0 => Matched(d))
    BY <1>1 DEF DocInv
  <1>6. Apart(d)'
    BY <1>3, <1>5, ApartAdvances
  <1>11. /\ ~Mixes(o, "zip")
         /\ IsMine(o, "zip", dir[d]["zip"])
         /\ dir'[d]["zip"] = [id |-> ops[o]["zip"], writer |-> o, full |-> TRUE]
         /\ IsWhole(dir'[d]["zip"]) /\ ops[o]["zip"] # None
         /\ trash'[d] = trash[d]
         /\ \A other \in Kind : other # "zip" => dir'[d][other] = dir[d][other]
    <2>1. "zip" \in Kind /\ Calling(o, FillCall("zip")) /\ Fill(o, "zip") /\ Owned(d)
      BY <1>1, <1>5, Names
    <2> QED
      BY <2>1, FillsOwn
  <1>7. /\ IsWhole(dir'[d].zip) /\ IsFile(dir[d].zip) /\ dir'[d].zip.id = ops[o].zip
        /\ trash'[d] = trash[d] /\ dir'[d].meta = dir[d].meta
        /\ ~Mixes(o, "zip") /\ IsMine(o, "zip", dir[d].zip) /\ ops[o].zip # None
    BY <1>11, Names DEF IsMine
  <1>8. Owned(d)'
    BY <1>2, <1>3, <1>5, <1>11, FilledOwned, Names
  <1>9. Kept(d)'
    <2>1. whole'[d] = ops[o].zip
      BY <1>7 DEF FillZip, TypeOK
    <2>2. InDir(d)'
      BY <1>7, <2>1 DEF InDir
    <2>3. \A p \in On(d)' : ~Calling(p, "moveZip")'
      BY <1>2, <1>3, <1>5, OnAdvances DEF Apart, Removes
    <2>4. ASSUME NEW p \in On(d)', Will(p, "openMeta")', ~Will(p, "fillZip")', ops'[p].zip = None
          PROVE IsFile(dir'[d].meta)
      <3>1. p # o
        BY <1>2, <1>3, <1>7, <2>4, OnAdvances, Names
      <3> QED
        BY <1>3, <1>5, <1>7, <2>4, <3>1, OnAdvances DEF Kept
    <2> QED
      BY <2>2, <2>3, <2>4 DEF Kept, IsFile
  <1>10. ASSUME faults' = 0 PROVE Matched(d)'
    <2>1. Matched(d)
      BY <1>1, <1>5, <1>10
    <2>2. IsWhole(dir'[d].meta) \/ ~IsFile(dir'[d].meta)
          \/ \E q \in On(d)' : ops'[q].meta = dir'[d].meta.id /\ Will(q, "fillMeta")'
      <3> SUFFICES ASSUME IsFile(dir[d].meta), ~IsWhole(dir[d].meta)
                   PROVE \E q \in On(d)' : ops'[q].meta = dir'[d].meta.id /\ Will(q, "fillMeta")'
        BY <1>7
      <3>1. PICK q \in On(d) : ops[q].meta = dir[d].meta.id /\ Will(q, "fillMeta")
        BY <2>1, Names DEF Matched
      <3>2. q \in On(d)' /\ Will(q, "fillMeta")'
        BY <1>2, <1>3, <3>1, WillStays
      <3>3. ops'[q].meta = ops[q].meta
        BY <1>2, <1>3, <3>1, <3>2, OnAdvances, Names
      <3> QED
        BY <1>7, <3>1, <3>2, <3>3
    <2>3. ~IsFile(dir[d].meta) => \E q \in On(d)' : Will(q, "openMeta")'
      <3>1. \A q \in On(d) : ~Calling(q, "moveZip")
        BY <1>2, <1>3, <1>5 DEF Apart, Removes
      <3> QED
        BY <1>2, <1>3, <1>7, <2>1, <3>1, WillStays DEF Matched
    <2>4. \A kind \in Kind : IsFile(dir'[d][kind]) =>
              \/ IsWhole(dir'[d][kind])
              \/ \E q \in On(d)' : ops'[q][kind] = dir'[d][kind].id /\ Will(q, FillCall(kind))'
      BY <1>7, <2>2, Names
    <2> QED
      BY <1>7, <2>3, <2>4 DEF Matched, IsFile, IsWhole
  <1> QED
    BY <1>6, <1>8, <1>9, <1>10

-----------------------------------------------------------------------------
LEMMA MoveMetaDoc ==
    ASSUME TypeOK, Staged, Ids, NEW o \in Running, MoveMeta(o), NEW d \in Doc, d = D(o), DocInv(d)
    PROVE  DocInv(d)'
  <1>1. /\ Done(o) /\ Calling(o, "moveMeta") /\ Removes(o) /\ IsFile(dir[d].meta)
        /\ whole' = whole /\ faults' = faults /\ overtaken' = overtaken /\ revived' = revived /\ mixed' = mixed
    BY DEF MoveMeta, Move, Removes
  <1>2. ~Calling(o, "openMeta") /\ ~Calling(o, "openZip")
    BY <1>1 DEF Calling
  <1>3. Advances(o) /\ Keeps(o) /\ o \in On(d) /\ o \in DOMAIN ops
    BY <1>1, <1>2, KeepsDone, OnAdvances, CallFacts
  <1>4. Untouched(d)'
    <2>1. ops[o].calls \in Stages /\ ops[o].calls # <<>> /\ Head(ops[o].calls) = "moveMeta"
      BY <1>1, CallFacts DEF Calling
    <2>2. ~Will(o, "openMeta")
      BY <2>1, StageFacts, Names DEF Will
    <2>3. ~Will(o, "openMeta")'
      BY <1>3, <2>2, AdvanceWill
    <2> QED
      BY <1>3, <2>3, UntouchedAdvances DEF DocInv
  <1> SUFFICES ASSUME d \notin mixed' \cup overtaken' \cup revived'
               PROVE Apart(d)' /\ Owned(d)' /\ Kept(d)' /\ (faults' = 0 => Matched(d)')
    BY <1>4 DEF DocInv
  <1>5. d \notin mixed \cup overtaken \cup revived /\ Apart(d) /\ Owned(d) /\ Kept(d)
        /\ (faults = 0 => Matched(d))
    BY <1>1 DEF DocInv
  <1>6. Apart(d)'
    BY <1>3, <1>5, ApartAdvances
  <1>7. dir'[d].meta = None /\ dir'[d].zip = dir[d].zip /\ trash'[d].zip = trash[d].zip
    BY DEF MoveMeta, Move, TypeOK, Files
  <1>8. \A p \in On(d)' : /\ ops'[p].meta = None /\ ops'[p].zip = None
                          /\ ~Will(p, "openMeta")' /\ ~Will(p, "openZip")'
                          /\ ~Will(p, "fillMeta")' /\ ~Will(p, "fillZip")'
    <2> SUFFICES ASSUME NEW p \in On(d)'
                 PROVE /\ ops'[p].meta = None /\ ops'[p].zip = None
                       /\ ~Will(p, "openMeta")' /\ ~Will(p, "openZip")'
                       /\ ~Will(p, "fillMeta")' /\ ~Will(p, "fillZip")'
      OBVIOUS
    <2>1. p \in On(d)
      BY <1>3, OnAdvances
    <2>2. /\ ops[p].meta = None /\ ops[p].zip = None
          /\ ~Will(p, "openMeta") /\ ~Will(p, "openZip")
          /\ ~Will(p, "fillMeta") /\ ~Will(p, "fillZip")
      BY <1>1, <1>3, <1>5, <2>1, Removers
    <2>3. ops'[p].meta = ops[p].meta /\ ops'[p].zip = ops[p].zip
      <3>1. CASE p = o
        BY <1>2, <1>3, <3>1, OnAdvances, Names
      <3>2. CASE p # o
        BY <1>3, <2>1, <3>2, OnAdvances
      <3> QED
        BY <3>1, <3>2
    <2> QED
      BY <1>3, <2>2, <2>3, OnAdvances
  <1>9. Owned(d)'
    BY <1>8, Names DEF Owned
  <1>10. Kept(d)'
    <2>1. InDir(d)'
      BY <1>1, <1>5, <1>7 DEF Kept, InDir
    <2> QED
      BY <1>7, <1>8, <2>1 DEF Kept, IsFile
  <1>11. ASSUME faults' = 0 PROVE Matched(d)'
    <2>1. Matched(d)
      BY <1>1, <1>5, <1>11
    <2>2. IsFile(dir[d].zip) => IsWhole(dir[d].zip)
      BY <1>1, <1>3, <1>5, <2>1, Removers, Names DEF Matched
    <2>3. o \in On(d)' /\ Calling(o, "moveZip")'
      <3>1. Tail(ops[o].calls) # <<>> /\ Head(Tail(ops[o].calls)) = "moveZip"
        BY <1>1, CallFacts, StageFacts DEF Calling
      <3>2. o \in On(d)' /\ ops'[o].calls = Tail(ops[o].calls)
        BY <1>3, <3>1, OnAdvances DEF Advances
      <3> QED
        BY <3>1, <3>2 DEF Calling, On
    <2> QED
      BY <1>7, <2>2, <2>3, Names DEF Matched, IsFile, IsWhole
  <1> QED
    BY <1>6, <1>9, <1>10, <1>11

LEMMA MoveZipDoc ==
    ASSUME TypeOK, Staged, Ids, NEW o \in Running, MoveZip(o), NEW d \in Doc, d = D(o), DocInv(d)
    PROVE  DocInv(d)'
  <1>1. /\ Done(o) /\ Calling(o, "moveZip") /\ Removes(o) /\ IsFile(dir[d].zip)
        /\ whole' = whole /\ faults' = faults /\ overtaken' = overtaken /\ revived' = revived /\ mixed' = mixed
    BY DEF MoveZip, Move, Removes
  <1>2. ~Calling(o, "openMeta") /\ ~Calling(o, "openZip")
    BY <1>1 DEF Calling
  <1>3. Advances(o) /\ Keeps(o) /\ o \in On(d) /\ o \in DOMAIN ops
    BY <1>1, <1>2, KeepsDone, OnAdvances, CallFacts
  <1>4. Untouched(d)'
    <2>1. ops[o].calls \in Stages /\ ops[o].calls # <<>> /\ Head(ops[o].calls) = "moveZip"
      BY <1>1, CallFacts DEF Calling
    <2>2. ~Will(o, "openMeta")
      BY <2>1, StageFacts, Names DEF Will
    <2>3. ~Will(o, "openMeta")'
      BY <1>3, <2>2, AdvanceWill
    <2> QED
      BY <1>3, <2>3, UntouchedAdvances DEF DocInv
  <1> SUFFICES ASSUME d \notin mixed' \cup overtaken' \cup revived'
               PROVE Apart(d)' /\ Owned(d)' /\ Kept(d)' /\ (faults' = 0 => Matched(d)')
    BY <1>4 DEF DocInv
  <1>5. d \notin mixed \cup overtaken \cup revived /\ Apart(d) /\ Owned(d) /\ Kept(d)
    BY <1>1 DEF DocInv
  <1>6. Apart(d)'
    BY <1>3, <1>5, ApartAdvances
  <1>7. dir'[d].zip = None /\ dir'[d].meta = dir[d].meta /\ trash'[d].zip = dir[d].zip
    BY DEF MoveZip, Move, TypeOK, Files
  <1>8. \A p \in On(d)' : /\ ops'[p].meta = None /\ ops'[p].zip = None
                          /\ ~Will(p, "openMeta")'
    <2> SUFFICES ASSUME NEW p \in On(d)'
                 PROVE /\ ops'[p].meta = None /\ ops'[p].zip = None
                       /\ ~Will(p, "openMeta")'
      OBVIOUS
    <2>1. p \in On(d)
      BY <1>3, OnAdvances
    <2>2. /\ ops[p].meta = None /\ ops[p].zip = None
          /\ ~Will(p, "openMeta")
      BY <1>1, <1>3, <1>5, <2>1, Removers
    <2>3. ops'[p].meta = ops[p].meta /\ ops'[p].zip = ops[p].zip
      <3>1. CASE p = o
        BY <1>2, <1>3, <3>1, OnAdvances, Names
      <3>2. CASE p # o
        BY <1>3, <2>1, <3>2, OnAdvances
      <3> QED
        BY <3>1, <3>2
    <2> QED
      BY <1>3, <2>2, <2>3, OnAdvances
  <1>9. Owned(d)'
    BY <1>8, Names DEF Owned
  <1>10. ~IsFile(dir[d].meta) /\ InDir(d)
    BY <1>1, <1>3, <1>5 DEF Kept
  <1>11. Kept(d)'
    <2>1. InDir(d)' \/ InTrash(d)'
      BY <1>1, <1>7, <1>10 DEF InDir, InTrash
    <2> QED
      BY <1>7, <1>8, <1>10, <2>1 DEF Kept, IsFile
  <1>12. Matched(d)'
    BY <1>7, <1>10, Names DEF Matched, IsFile
  <1> QED
    BY <1>6, <1>9, <1>11, <1>12

-----------------------------------------------------------------------------
(* A request that ends leaves the others where they are.                    *)
Fewer(d) ==
    /\ dir' = dir /\ trash' = trash /\ whole' = whole
    /\ overtaken' = overtaken /\ revived' = revived /\ mixed' = mixed
    /\ On(d)' \subseteq On(d)
    /\ \A p \in On(d)' : ops'[p] = ops[p]
    /\ (\A o \in DOMAIN ops : D(o) # d) <=> (\A o \in DOMAIN ops' : D(o)' # d)

LEMMA FewerDoc ==
    ASSUME NEW d \in Doc, DocInv(d), Fewer(d),
           faults' = 0 /\ d \notin mixed \cup overtaken \cup revived => Matched(d)'
    PROVE  DocInv(d)'
  <1>1. \A p \in On(d)' : /\ p \in On(d) /\ p \in Running /\ p \in Running' /\ ops'[p] = ops[p]
                          /\ \A call : (Will(p, call)' <=> Will(p, call))
                                      /\ (Calling(p, call)' <=> Calling(p, call))
                          /\ (Removes(p)' <=> Removes(p)) /\ LastCall(p)' = LastCall(p)
    <2> SUFFICES ASSUME NEW p \in On(d)'
                 PROVE  /\ p \in On(d) /\ p \in Running /\ p \in Running' /\ ops'[p] = ops[p]
                        /\ \A call : (Will(p, call)' <=> Will(p, call))
                                      /\ (Calling(p, call)' <=> Calling(p, call))
                        /\ (Removes(p)' <=> Removes(p)) /\ LastCall(p)' = LastCall(p)
      OBVIOUS
    <2>1. p \in Running' /\ ops'[p] = ops[p] /\ p \in On(d)
      BY DEF Fewer, On
    <2>2. p \in Running
      BY <2>1 DEF On
    <2> QED
      BY <2>1, <2>2 DEF Will, Calling, Removes, LastCall
  <1>2. Untouched(d)'
    <2>1. (\A o \in DOMAIN ops' : D(o)' # d) => Known(d)' \/ whole'[d] = None
      BY DEF DocInv, Untouched, Known, Fewer
    <2>2. ASSUME NEW p \in On(d)', Will(p, "openMeta")', LastCall(p)' = "fillZip"
          PROVE ~Known(d)' /\ whole'[d] = None /\ On(d)' = {p}
      <3>1. ~Known(d) /\ whole[d] = None /\ On(d) = {p}
        BY <1>1, <2>2 DEF DocInv, Untouched
      <3>2. On(d)' = {p}
        BY <3>1, <2>2 DEF Fewer
      <3> QED
        BY <3>1, <3>2 DEF Known, Fewer
    <2> QED
      BY <2>1, <2>2 DEF Untouched
  <1> SUFFICES ASSUME d \notin mixed' \cup overtaken' \cup revived'
               PROVE Apart(d)' /\ Owned(d)' /\ Kept(d)' /\ (faults' = 0 => Matched(d)')
    BY <1>2 DEF DocInv
  <1>3. d \notin mixed \cup overtaken \cup revived /\ Apart(d) /\ Owned(d) /\ Kept(d)
    BY DEF DocInv, Fewer
  <1>4. Apart(d)' /\ Owned(d)'
    BY <1>1, <1>3 DEF Apart, Owned, Fewer
  <1>5. Kept(d)'
    BY <1>1, <1>3 DEF Kept, InDir, InTrash, Fewer
  <1> QED
    BY <1>3, <1>4, <1>5

LEMMA StopsFewer ==
    ASSUME NEW o \in Running, Stops(o), NEW d,
           UNCHANGED <<dir, trash, whole, overtaken, revived, mixed>>
    PROVE  Fewer(d) /\ o \notin On(d)' /\ \A p \in On(d) : p # o => p \in On(d)'
  <1>1. Only(o) /\ o \in DOMAIN ops
    BY DEF Stops, Running
  <1>2. o \notin On(d)'
    BY DEF Stops, On, Running
  <1>3. /\ \A p \in On(d)' : p \in On(d) /\ ops'[p] = ops[p]
        /\ \A p \in On(d) : p # o => p \in On(d)'
    BY <1>1, <1>2, OnlyOn
  <1> QED
    BY <1>1, <1>2, <1>3, OnlyDomain DEF Fewer

LEMMA FaultDoc ==
    ASSUME TypeOK, NEW o \in Running, CallFails(o), NEW d \in Doc, DocInv(d)
    PROVE  DocInv(d)'
  <1>1. faults' # 0 /\ Stops(o)
    BY EndsStops DEF CallFails, TypeOK
  <1> QED
    BY <1>1, StopsFewer, FewerDoc DEF CallFails

LEMMA CrashDoc ==
    ASSUME TypeOK, Crash, NEW d \in Doc, DocInv(d)
    PROVE  DocInv(d)'
  <1>1. faults' # 0
    BY DEF Crash, TypeOK
  <1>2. /\ DOMAIN ops' = DOMAIN ops
        /\ \A o \in DOMAIN ops : ops'[o].calls = <<>> /\ ops'[o].doc = ops[o].doc
    <2>1. \A o \in DOMAIN ops : ops[o] \in Request
      BY DEF TypeOK
    <2>2. \A o \in DOMAIN ops : Over(o).calls = <<>> /\ Over(o).doc = ops[o].doc
      BY <2>1 DEF Over, Request
    <2> QED
      BY <2>2 DEF Crash
  <1>3. On(d)' = {}
    BY <1>2 DEF On, Running
  <1>4. (\A o \in DOMAIN ops : D(o) # d) <=> (\A o \in DOMAIN ops' : D(o)' # d)
    BY <1>2 DEF D
  <1>5. Fewer(d)
    BY <1>3, <1>4 DEF Fewer, Crash
  <1> QED
    BY <1>1, <1>5, FewerDoc

(* What is not there is not moved: another has moved it, or will.           *)
LEMMA MoveMissingDoc ==
    ASSUME TypeOK, Staged, NEW o \in Running, MoveMissing(o), NEW d \in Doc, DocInv(d)
    PROVE  DocInv(d)'
  <1>1. Stops(o)
    BY EndsStops DEF MoveMissing
  <1>2. Fewer(d) /\ o \notin On(d)' /\ \A p \in On(d) : p # o => p \in On(d)'
    BY <1>1, StopsFewer DEF MoveMissing
  <1>3. ASSUME faults' = 0, d \notin mixed \cup overtaken \cup revived PROVE Matched(d)'
    <2>1. Matched(d) /\ Apart(d) /\ Kept(d)
      BY <1>3 DEF MoveMissing, DocInv
    <2>2. \A p \in On(d)' : \A call : /\ Will(p, call)' <=> Will(p, call)
                                      /\ Calling(p, call)' <=> Calling(p, call)
      <3> SUFFICES ASSUME NEW p \in On(d)', NEW call
                   PROVE /\ Will(p, call)' <=> Will(p, call)
                         /\ Calling(p, call)' <=> Calling(p, call)
        OBVIOUS
      <3>1. p \in On(d) /\ ops'[p] = ops[p]
        BY <1>2 DEF Fewer
      <3> QED
        BY <3>1 DEF On, Will, Calling
    <2>3. CASE D(o) # d
      <3>1. o \notin On(d)
        BY <2>3 DEF On
      <3>2. On(d)' = On(d) /\ \A p \in On(d) : ops'[p] = ops[p]
        BY <1>2, <3>1 DEF Fewer
      <3> QED
        BY <1>2, <2>1, <2>2, <3>2 DEF Matched, Fewer
    <2>4. CASE D(o) = d
      <3>1. o \in On(d) /\ Removes(o)
        BY <2>4 DEF On, MoveMissing, Removes
      <3>2. \A kind \in Kind : IsFile(dir[d][kind]) => IsWhole(dir[d][kind])
        BY <2>1, <3>1, Removers DEF Matched
      <3>3. IsFile(dir[d].meta) => IsFile(dir[d].zip)
        BY <2>1, <3>1, Removers DEF Matched
      <3>4. ASSUME IsFile(dir[d].zip), ~IsFile(dir[d].meta)
            PROVE \E p \in On(d)' : Calling(p, "moveZip")'
        <4>1. PICK p \in On(d) : Calling(p, "moveZip")
          BY <2>1, <3>1, <3>4, Removers DEF Matched
        <4>2. ~Calling(o, "moveZip")
          BY <2>4, <3>4 DEF MoveMissing, Calling
        <4> QED
          BY <1>2, <2>2, <4>1, <4>2
      <3> QED
        BY <1>2, <3>2, <3>3, <3>4 DEF Matched, Fewer, IsFile, IsWhole
    <2> QED
      BY <2>3, <2>4
  <1> QED
    BY <1>2, <1>3, FewerDoc

(* CreateDocument gives up on the metadata.                                 *)
LEMMA MetadataOnly ==
    ASSUME TypeOK, Staged, NEW o \in Running, MetadataFails(o)
    PROVE  /\ Only(o) /\ ops'[o].calls = <<"fillZip">>
           /\ ops'[o].meta = ops[o].meta /\ ops'[o].zip = ops[o].zip /\ ops[o].zip # None
           /\ Will(o, "fillZip")' /\ ~Removes(o) /\ ~Removes(o)' /\ o \in Running'
           /\ \A call : Will(o, call)' => call = "fillZip"
  <1>1. o \in 1..Len(ops) /\ ops[o] \in Request /\ DOMAIN ops = 1..Len(ops)
    BY RequestOf DEF TypeOK
  <1>2. /\ Only(o) /\ ops'[o].calls = <<"fillZip">>
        /\ ops'[o].meta = ops[o].meta /\ ops'[o].zip = ops[o].zip /\ ops[o].zip # None
    BY <1>1 DEF MetadataFails, Only, TypeOK, Request
  <1>3. Will(o, "fillZip")' /\ \A call : Will(o, call)' => call = "fillZip"
    BY <1>2 DEF Will, In
  <1>4. o \in Running' /\ ~Removes(o)'
    <2>1. Head(<<"fillZip">>) = "fillZip" /\ <<"fillZip">> # <<>>
      OBVIOUS
    <2>2. o \in Running' /\ Head(ops'[o].calls) = "fillZip"
      BY <1>1, <1>2, <2>1 DEF Running, Only
    <2> QED
      BY <2>2 DEF Removes, Calling
  <1>5. ~Removes(o)
    BY DEF MetadataFails, Removes, Calling
  <1> QED
    BY <1>2, <1>3, <1>4, <1>5

LEMMA MetadataFailsDoc ==
    ASSUME TypeOK, Staged, NEW o \in Running, MetadataFails(o), NEW d \in Doc, d = D(o), DocInv(d)
    PROVE  DocInv(d)'
  <1>1. /\ faults' # 0 /\ dir' = dir /\ trash' = trash /\ whole' = whole
        /\ overtaken' = overtaken /\ revived' = revived /\ mixed' = mixed
    BY DEF MetadataFails, TypeOK
  <1>2. /\ On(d)' = On(d) /\ o \in On(d) /\ o \in DOMAIN ops
        /\ \A p \in On(d) : p # o => ops'[p] = ops[p]
    BY MetadataOnly, OnlyOn, OnRunning
  <1>3. ASSUME NEW p \in On(d), p # o
        PROVE  /\ \A call : (Will(p, call)' <=> Will(p, call)) /\ (Calling(p, call)' <=> Calling(p, call))
               /\ (Removes(p)' <=> Removes(p)) /\ LastCall(p)' = LastCall(p)
    <2>1. p \in Running /\ p \in Running' /\ ops'[p] = ops[p]
      BY <1>2, <1>3 DEF On
    <2> QED
      BY <2>1 DEF Will, Calling, Removes, LastCall
  <1>4. Untouched(d)'
    <2>1. ~\A p \in DOMAIN ops' : D(p)' # d
      BY <1>2, MetadataOnly DEF Only, D
    <2>2. ASSUME NEW p \in On(d)', Will(p, "openMeta")', LastCall(p)' = "fillZip"
          PROVE FALSE
      <3>1. p # o
        BY <2>2, MetadataOnly
      <3>2. On(d) = {p}
        BY <1>2, <1>3, <2>2, <3>1 DEF DocInv, Untouched
      <3> QED
        BY <1>2, <3>1, <3>2
    <2> QED
      BY <2>1, <2>2 DEF Untouched
  <1> SUFFICES ASSUME d \notin mixed' \cup overtaken' \cup revived'
               PROVE Apart(d)' /\ Owned(d)' /\ Kept(d)'
    BY <1>1, <1>4 DEF DocInv
  <1>5. Apart(d) /\ Owned(d) /\ Kept(d)
    BY <1>1 DEF DocInv
  <1>6. Apart(d)'
    BY <1>2, <1>3, <1>5, MetadataOnly DEF Apart
  <1>7. Owned(d)'
    <2>1. \A p \in On(d), kind \in Kind : ops'[p][kind] = ops[p][kind]
      BY <1>2, MetadataOnly DEF Kind
    <2> QED
      BY <1>1, <1>2, <1>5, <2>1 DEF Owned
  <1>8. Kept(d)'
    <2>1. ASSUME NEW p \in On(d)'
          PROVE /\ Calling(p, "moveZip")' => ~IsFile(dir[d].meta) /\ (InDir(d) \/ ~IsFile(dir[d].zip))
                /\ ops'[p].zip # None /\ ~Will(p, "fillZip")' => InDir(d)
                /\ Will(p, "openMeta")' /\ ~Will(p, "fillZip")' /\ ops'[p].zip = None
                      => IsFile(dir[d].meta)
      <3>1. CASE p = o
        BY <3>1, MetadataOnly DEF Removes
      <3>2. CASE p # o
        BY <1>2, <1>3, <1>5, <3>2 DEF Kept
      <3> QED
        BY <3>1, <3>2
    <2> QED
      BY <1>1, <1>5, <2>1 DEF Kept, InDir, InTrash
  <1> QED
    BY <1>6, <1>7, <1>8

-----------------------------------------------------------------------------
(* What the requests set out to do.                                         *)
LEMMA CallsFacts ==
    ASSUME NEW kind \in {"upload", "document", "folder", "update", "remove"}
    PROVE  /\ Calls[kind] \in Stages /\ Calls[kind] # <<>>
           /\ \A k \in Kind : In(Calls[kind], FillCall(k)) => In(Calls[kind], OpenCall(k))
           /\ In(Calls[kind], "openZip") => In(Calls[kind], "openMeta")
           /\ Head(Calls[kind]) \in {"moveMeta", "moveZip"} <=> kind = "remove"
           /\ Head(Calls[kind]) # "moveZip"
           /\ In(Calls[kind], "openMeta") /\ ~In(Calls[kind], "fillZip") => kind = "update"
           /\ In(Calls[kind], "openMeta") /\ Calls[kind][Len(Calls[kind])] = "fillZip"
                 => kind \in {"document", "folder"}
  <1> USE DEF Calls, Stages, In, Kind, OpenCall, FillCall
  <1>1. CASE kind = "upload"
    BY <1>1
  <1>2. CASE kind = "document"
    BY <1>2
  <1>3. CASE kind = "folder"
    BY <1>3
  <1>4. CASE kind = "update"
    BY <1>4
  <1>5. CASE kind = "remove"
    BY <1>5
  <1> QED
    BY <1>1, <1>2, <1>3, <1>4, <1>5

(* A request begins: it has a number nobody has had, and nothing open.      *)
Joins(n, e, kind) ==
    /\ n \in Nat /\ n \notin DOMAIN ops /\ DOMAIN ops' = DOMAIN ops \cup {n}
    /\ Len(ops') = n /\ DOMAIN ops' = 1..n /\ DOMAIN ops = 1..Len(ops) /\ Len(ops) \in Nat
    /\ ops'[n] = [doc |-> e, calls |-> Calls[kind], meta |-> None, zip |-> None]
    /\ \A p \in DOMAIN ops : ops'[p] = ops[p]
    /\ D(n)' = e /\ n \in Running'
    /\ Running' = Running \cup {n}
    /\ Removes(n)' <=> kind = "remove"
    /\ \A call : Will(n, call)' <=> In(Calls[kind], call)
    /\ \A p \in DOMAIN ops :
          /\ D(p)' = D(p)
          /\ \A call : (Will(p, call)' <=> Will(p, call)) /\ (Calling(p, call)' <=> Calling(p, call))
          /\ (Removes(p)' <=> Removes(p)) /\ LastCall(p)' = LastCall(p)

LEMMA BeginFacts ==
    ASSUME TypeOK, NEW e \in Doc, NEW kind \in {"upload", "document", "folder", "update", "remove"},
           Begin(kind, e)
    PROVE  \E n : Joins(n, e, kind)
  <1>0. PICK n : n = Len(ops) + 1
    OBVIOUS
  <1> DEFINE r == [doc |-> e, calls |-> Calls[kind], meta |-> None, zip |-> None]
  <1>1. /\ n \in Nat /\ n \notin DOMAIN ops /\ DOMAIN ops' = DOMAIN ops \cup {n}
        /\ Len(ops') = n /\ DOMAIN ops' = 1..n /\ DOMAIN ops = 1..Len(ops) /\ Len(ops) \in Nat
        /\ ops'[n] = r
        /\ \A p \in DOMAIN ops : ops'[p] = ops[p]
    BY <1>0 DEF Begin, TypeOK
  <1>2. r.calls = Calls[kind] /\ r.doc = e
    OBVIOUS
  <1> HIDE DEF r
  <1>3. Running' = Running \cup {n} /\ n \in Running'
    BY <1>1, <1>2, CallsFacts DEF Running
  <1>4. D(n)' = e /\ \A call : Will(n, call)' <=> In(Calls[kind], call)
    BY <1>1, <1>2 DEF D, Will
  <1>5. Removes(n)' <=> kind = "remove"
    BY <1>1, <1>2, <1>3, CallsFacts DEF Removes, Calling
  <1>6. ASSUME NEW p \in DOMAIN ops
        PROVE  /\ D(p)' = D(p)
               /\ \A call : (Will(p, call)' <=> Will(p, call)) /\ (Calling(p, call)' <=> Calling(p, call))
               /\ (Removes(p)' <=> Removes(p)) /\ LastCall(p)' = LastCall(p)
    <2>1. ops'[p] = ops[p] /\ (p \in Running' <=> p \in Running)
      BY <1>1, <1>3
    <2> QED
      BY <2>1 DEF D, Will, Calling, Removes, LastCall
  <1> QED
    <2>1. Joins(n, e, kind)
      BY <1>1, <1>3, <1>4, <1>5, <1>6 DEF r, Joins
    <2> QED
      BY <2>1

LEMMA BeginStaged ==
    ASSUME TypeOK, Staged, NEW e \in Doc,
           NEW kind \in {"upload", "document", "folder", "update", "remove"}, Begin(kind, e)
    PROVE  Staged' /\ OpensLess
  <1>1. PICK n : Joins(n, e, kind)
    BY BeginFacts
  <1>2. ASSUME NEW p \in DOMAIN ops'
        PROVE  /\ ops'[p].calls \in Stages
               /\ \A k \in Kind :
                     /\ Will(p, FillCall(k))' /\ ~Will(p, OpenCall(k))' => ops'[p][k] # None
                     /\ Will(p, OpenCall(k))' => ops'[p][k] = None
               /\ Will(p, "openZip")' /\ ~Will(p, "openMeta")' => ops'[p].meta # None
               /\ Removes(p)' => ops'[p].meta = None /\ ops'[p].zip = None
    <2>1. CASE p = n
      <3>1. ops'[n].calls = Calls[kind] /\ ops'[n].meta = None /\ ops'[n].zip = None
        BY <1>1 DEF Joins
      <3>2. \A k \in Kind : ops'[n][k] = None
        BY <3>1 DEF Kind
      <3> QED
        BY <1>1, <2>1, <3>1, <3>2, CallsFacts DEF Joins
    <2>2. CASE p # n
      <3>1. /\ p \in DOMAIN ops /\ ops'[p] = ops[p] /\ (Removes(p)' <=> Removes(p))
            /\ \A call : Will(p, call)' <=> Will(p, call)
        BY <1>1, <2>2 DEF Joins
      <3> QED
        BY <3>1 DEF Staged
    <2> QED
      BY <2>1, <2>2
  <1>3. Staged'
    BY <1>2 DEF Staged
  <1>4. OpensLess
    BY <1>1 DEF OpensLess, Joins
  <1> QED
    BY <1>3, <1>4

LEMMA BeginLeft ==
    ASSUME TypeOK, NEW e \in Doc,
           NEW kind \in {"upload", "document", "folder", "update", "remove"}, Begin(kind, e),
           NEW d \in Doc, d # e, DocInv(d)
    PROVE  DocInv(d)'
  <1>1. PICK n : Joins(n, e, kind)
    BY BeginFacts
  <1>2. On(d)' = On(d) /\ \A o \in On(d) : ops'[o] = ops[o]
    BY <1>1 DEF On, Running, Joins
  <1>3. (\A o \in DOMAIN ops : D(o) # d) <=> (\A o \in DOMAIN ops' : D(o)' # d)
    BY <1>1 DEF Joins
  <1>4. /\ Left(d) /\ mixed' = mixed /\ faults' = faults
        /\ overtaken \subseteq overtaken' /\ revived \subseteq revived'
    BY <1>2 DEF Left, Begin
  <1> QED
    BY <1>3, <1>4, LeftAlone

LEMMA BeginDoc ==
    ASSUME TypeOK, Staged, NEW e \in Doc,
           NEW kind \in {"upload", "document", "folder", "update", "remove"}, Begin(kind, e), DocInv(e),
           kind \in {"document", "folder"} => IsNew(e), IsNew(e) \/ Known(e)
    PROVE  DocInv(e)'
  <1>1. PICK n : Joins(n, e, kind)
    BY BeginFacts
  <1>2. /\ dir' = dir /\ trash' = trash /\ whole' = whole /\ mixed' = mixed /\ faults' = faults
        /\ overtaken \subseteq overtaken' /\ revived \subseteq revived'
    BY DEF Begin
  <1>3. On(e)' = On(e) \cup {n} /\ n \notin On(e) /\ On(e) \subseteq DOMAIN ops
    BY <1>1 DEF On, Running, Joins
  <1>4. \A p \in On(e) : /\ ops'[p] = ops[p]
                         /\ \A call : (Will(p, call)' <=> Will(p, call)) /\ (Calling(p, call)' <=> Calling(p, call))
                         /\ (Removes(p)' <=> Removes(p)) /\ LastCall(p)' = LastCall(p)
    BY <1>1, <1>3 DEF Joins
  <1>5. /\ ops'[n].meta = None /\ ops'[n].zip = None /\ ops'[n].calls = Calls[kind]
        /\ Removes(n)' <=> kind = "remove"
        /\ \A call : Will(n, call)' <=> In(Calls[kind], call)
        /\ ~Calling(n, "moveZip")'
    <2>1. ops'[n].meta = None /\ ops'[n].zip = None /\ ops'[n].calls = Calls[kind]
      BY <1>1 DEF Joins
    <2>2. ~Calling(n, "moveZip")'
      BY <2>1, CallsFacts DEF Calling
    <2> QED
      BY <1>1, <2>1, <2>2 DEF Joins
  <1>6. Untouched(e)'
    <2>1. ~\A p \in DOMAIN ops' : D(p)' # e
      BY <1>1 DEF Joins
    <2>2. ASSUME NEW p \in On(e)', Will(p, "openMeta")', LastCall(p)' = "fillZip"
          PROVE ~Known(e)' /\ whole'[e] = None /\ On(e)' = {p}
      <3>1. CASE p = n
        <4>1. kind \in {"document", "folder"}
          BY <1>5, <2>2, <3>1, CallsFacts DEF LastCall
        <4>2. ~Known(e) /\ (\A o \in DOMAIN ops : D(o) # e)
          BY <4>1 DEF IsNew
        <4>3. whole[e] = None /\ On(e) = {}
          BY <4>2 DEF DocInv, Untouched, On, Running
        <4> QED
          BY <1>2, <1>3, <3>1, <4>2, <4>3 DEF Known
      <3>2. CASE p # n
        <4>1. p \in On(e) /\ Will(p, "openMeta") /\ LastCall(p) = "fillZip"
          BY <1>3, <1>4, <2>2, <3>2
        <4>2. ~Known(e)
          BY <4>1 DEF DocInv, Untouched
        <4>3. ~IsNew(e)
          BY <4>1 DEF IsNew, On, Running
        <4> QED
          BY <4>2, <4>3
      <3> QED
        BY <3>1, <3>2
    <2> QED
      BY <2>1, <2>2 DEF Untouched
  <1> SUFFICES ASSUME e \notin mixed' \cup overtaken' \cup revived'
               PROVE Apart(e)' /\ Owned(e)' /\ Kept(e)' /\ (faults' = 0 => Matched(e)')
    BY <1>6 DEF DocInv
  <1>7. Apart(e) /\ Owned(e) /\ Kept(e) /\ (faults = 0 => Matched(e))
    BY <1>2 DEF DocInv
  <1>8. \A p \in On(e) : Removes(p) <=> kind = "remove"
    <2>1. ~\E p \in Running : D(p) = e /\ (Removes(p) # (kind = "remove"))
      BY DEF Begin
    <2> QED
      BY <2>1 DEF On, Removes, Calling
  <1>9. Apart(e)'
    BY <1>3, <1>4, <1>5, <1>8 DEF Apart
  <1>10. Owned(e)'
    BY <1>2, <1>3, <1>4, <1>5, <1>7, Names DEF Owned
  <1>11. Kept(e)'
    <2>1. ASSUME NEW p \in On(e)'
          PROVE /\ Calling(p, "moveZip")' => ~IsFile(dir[e].meta) /\ (InDir(e) \/ ~IsFile(dir[e].zip))
                /\ ops'[p].zip # None /\ ~Will(p, "fillZip")' => InDir(e)
                /\ Will(p, "openMeta")' /\ ~Will(p, "fillZip")' /\ ops'[p].zip = None
                      => IsFile(dir[e].meta)
      <3>1. CASE p = n
        <4>1. kind = "update" => IsFile(dir[e].meta)
          BY DEF Begin
        <4> QED
          BY <1>5, <3>1, <4>1, CallsFacts
      <3>2. CASE p # n
        BY <1>3, <1>4, <1>7, <3>2 DEF Kept
      <3> QED
        BY <3>1, <3>2
    <2> QED
      BY <1>2, <1>7, <2>1 DEF Kept, InDir, InTrash
  <1>12. ASSUME faults' = 0 PROVE Matched(e)'
    <2>1. Matched(e)
      BY <1>2, <1>7, <1>12
    <2>2. \A p \in On(e) : p \in On(e)'
      BY <1>3
    <2> QED
      BY <1>2, <1>4, <2>1, <2>2 DEF Matched
  <1> QED
    BY <1>9, <1>10, <1>11, <1>12

LEMMA RequestsDoc ==
    ASSUME IInv, NEW e \in Doc, Requests(e)
    PROVE  Staged' /\ Ids' /\ \A d \in Doc : DocInv(d)'
  <1>1. TypeOK /\ Staged /\ Ids /\ \A d \in Doc : DocInv(d)
    BY DEF IInv, Inv
  <1>2. PICK kind \in {"upload", "document", "folder", "update", "remove"} :
           /\ Begin(kind, e)
           /\ kind \in {"document", "folder"} => IsNew(e)
           /\ IsNew(e) \/ Known(e)
    BY DEF Requests
  <1>3. Staged' /\ OpensLess
    BY <1>1, <1>2, BeginStaged
  <1>4. Ids'
    BY <1>1, <1>2, <1>3, IdsNone DEF Begin
  <1>5. DocInv(e)'
    BY <1>1, <1>2, BeginDoc
  <1>6. \A d \in Doc : d # e => DocInv(d)'
    BY <1>1, <1>2, BeginLeft
  <1> QED
    BY <1>3, <1>4, <1>5, <1>6

-----------------------------------------------------------------------------
(* Documents the call is not about.                                         *)
LEMMA CallLeft ==
    ASSUME TypeOK, NEW o \in Running, Only(o), NEW d \in Doc, d # D(o), DocInv(d),
           dir'[d] = dir[d], trash'[d] = trash[d], whole'[d] = whole[d],
           mixed \subseteq mixed', overtaken' = overtaken, revived' = revived, faults' = 0 => faults = 0
    PROVE  DocInv(d)'
  <1>1. o \in DOMAIN ops
    BY DEF Running
  <1>2. Left(d)
    BY OnlyLeft
  <1>3. (\A p \in DOMAIN ops : D(p) # d) <=> (\A p \in DOMAIN ops' : D(p)' # d)
    BY <1>1, OnlyDomain
  <1> QED
    BY <1>2, <1>3, LeftAlone

LEMMA IdsOther ==
    ASSUME TypeOK, OpensLess, Ids, NEW d \in Doc, NEW kind \in Kind,
           dir'[d][kind] = dir[d][kind], trash'[d][kind] = trash[d][kind]
    PROVE  IdsOf(d, kind)'
  BY IdsSame DEF Ids, SameId

LEMMA FilledSame ==
    ASSUME NEW o \in Nat, NEW kind \in Kind, NEW f \in FileType \cup {None}, NEW full \in BOOLEAN
    PROVE  SameId(Filled(o, kind, f, full), f)
  <1>1. IsFile(Filled(o, kind, f, full)) <=> IsFile(f)
    BY FilledIsFile, Names
  <1>2. IsFile(f) => Filled(o, kind, f, full).id = f.id
    BY DEF Filled
  <1> QED
    BY <1>1, <1>2 DEF SameId

LEMMA OpenIds ==
    ASSUME TypeOK, TypeOK', Staged, Ids, NEW o \in Running, NEW kind \in Kind, Open(o, kind),
           Calling(o, OpenCall(kind))
    PROVE  Ids'
  <1>1. Advances(o) /\ Keeps(o)
    BY KeepsOpen
  <1>2. OpensLess /\ o \in DOMAIN ops /\ D(o) \in Doc
    BY <1>1, AdvancesLess, CallFacts, RequestOf
  <1>3. Will(o, OpenCall(kind)) /\ ~Will(o, OpenCall(kind))'
    BY <1>1, CallFacts, AdvanceWill DEF Calling
  <1>4. trash' = trash /\ dir' = [dir EXCEPT ![D(o)][kind] = Opened(o, dir[D(o)][kind])]
    BY DEF Open
  <1>5. dir \in [Doc -> Files]
    BY DEF TypeOK
  <1>6. dir'[D(o)][kind] = Opened(o, dir[D(o)][kind])
    BY <1>2, <1>4, <1>5 DEF Files, Kind
  <1>7. \A d \in Doc, k \in Kind : d # D(o) \/ k # kind => dir'[d][k] = dir[d][k]
    BY <1>2, <1>4, <1>5 DEF Files, Kind
  <1>8. IdsOf(D(o), kind)'
    <2>1. PICK d \in Doc : d = D(o)
      BY <1>2
    <2>2. IdsOf(d, kind)
      BY <2>1 DEF Ids
    <2>3. IdsOf(d, kind)'
      BY <1>2, <1>3, <1>4, <1>6, <2>1, <2>2, IdsOpen
    <2>4. D(o)' = D(o)
      BY <1>1 DEF Advances, Only, D
    <2> QED
      BY <2>1, <2>3, <2>4
  <1>9. D(o)' = D(o)
    BY <1>1 DEF Advances, Only, D
  <1>10. ASSUME NEW d \in Doc, NEW k \in Kind PROVE IdsOf(d, k)'
    <2>1. CASE d = D(o) /\ k = kind
      BY <1>8, <1>9, <2>1
    <2>2. CASE d # D(o) \/ k # kind
      BY <1>2, <1>4, <1>7, <2>2, IdsOther
    <2> QED
      BY <2>1, <2>2
  <1> QED
    BY <1>10 DEF Ids

LEMMA FillIds ==
    ASSUME TypeOK, Ids, OpensLess, NEW o \in Running, NEW kind \in Kind, Fill(o, kind)
    PROVE  Ids'
  <1>1. PICK full \in BOOLEAN :
           /\ dir' = [dir EXCEPT ![D(o)][kind] = Filled(o, kind, @, full)]
           /\ trash' = [trash EXCEPT ![D(o)][kind] = Filled(o, kind, @, full)]
    BY DEF Fill
  <1>2. dir \in [Doc -> Files] /\ trash \in [Doc -> Files] /\ o \in Nat /\ D(o) \in Doc
    BY RequestOf DEF TypeOK
  <1>3. PICK e \in Doc : e = D(o)
    BY <1>2
  <1>4. /\ dir'[e][kind] = Filled(o, kind, dir[e][kind], full)
        /\ trash'[e][kind] = Filled(o, kind, trash[e][kind], full)
        /\ \A d \in Doc, k \in Kind : d # e \/ k # kind
              => dir'[d][k] = dir[d][k] /\ trash'[d][k] = trash[d][k]
    BY <1>1, <1>2, <1>3 DEF Files, Kind
  <1>5. dir[e][kind] \in FileType \cup {None} /\ trash[e][kind] \in FileType \cup {None}
    BY FileOf, Names
  <1>6. SameId(dir'[e][kind], dir[e][kind]) /\ SameId(trash'[e][kind], trash[e][kind])
    BY <1>2, <1>4, <1>5, FilledSame
  <1>7. ASSUME NEW d \in Doc, NEW k \in Kind PROVE IdsOf(d, k)'
    <2>1. CASE d = e /\ k = kind
      BY <1>6, <2>1, IdsSame DEF Ids
    <2>2. CASE d # e \/ k # kind
      BY <1>4, <2>2, IdsOther
    <2> QED
      BY <2>1, <2>2
  <1> QED
    BY <1>7 DEF Ids

LEMMA MoveIds ==
    ASSUME TypeOK, Ids, OpensLess, NEW o \in Running, NEW kind \in Kind, Move(o, kind)
    PROVE  Ids'
  <1>1. dir \in [Doc -> Files] /\ trash \in [Doc -> Files] /\ D(o) \in Doc
    BY RequestOf DEF TypeOK
  <1>2. PICK e \in Doc : e = D(o)
    BY <1>1
  <1>3. /\ ~IsFile(dir'[e][kind]) /\ trash'[e][kind] = dir[e][kind]
        /\ \A d \in Doc, k \in Kind : d # e \/ k # kind
              => dir'[d][k] = dir[d][k] /\ trash'[d][k] = trash[d][k]
    BY <1>1, <1>2 DEF Move, Files, Kind, IsFile
  <1>4. ASSUME NEW d \in Doc, NEW k \in Kind PROVE IdsOf(d, k)'
    <2>1. CASE d = e /\ k = kind
      BY <1>3, <2>1, IdsMove DEF Ids
    <2>2. CASE d # e \/ k # kind
      BY <1>3, <2>2, IdsOther
    <2> QED
      BY <2>1, <2>2
  <1> QED
    BY <1>4 DEF Ids

LEMMA MetadataStaged ==
    ASSUME TypeOK, TypeOK', Staged, NEW o \in Running, MetadataFails(o)
    PROVE  Staged' /\ OpensLess
  <1>1. o \in DOMAIN ops
    BY DEF Running
  <1>2. ASSUME NEW p \in DOMAIN ops'
        PROVE  /\ ops'[p].calls \in Stages
               /\ \A kind \in Kind :
                     /\ Will(p, FillCall(kind))' /\ ~Will(p, OpenCall(kind))' => ops'[p][kind] # None
                     /\ Will(p, OpenCall(kind))' => ops'[p][kind] = None
               /\ Will(p, "openZip")' /\ ~Will(p, "openMeta")' => ops'[p].meta # None
               /\ Removes(p)' => ops'[p].meta = None /\ ops'[p].zip = None
    <2>1. CASE p = o
      <3>1. <<"fillZip">> \in Stages
        BY DEF Stages
      <3>2. \A call : Will(o, call)' => call = "fillZip"
        BY MetadataOnly
      <3>3. \A kind \in Kind : /\ ~Will(o, OpenCall(kind))'
                               /\ Will(o, FillCall(kind))' => ops'[o][kind] # None
        BY <3>2, MetadataOnly DEF Kind, OpenCall, FillCall
      <3> QED
        BY <2>1, <3>1, <3>2, <3>3, MetadataOnly
    <2>2. CASE p # o
      <3>1. p \in DOMAIN ops /\ ops'[p] = ops[p]
        BY <2>2, MetadataOnly DEF Only
      <3>2. (\A call : Will(p, call)' <=> Will(p, call)) /\ (Removes(p)' => Removes(p))
        BY <3>1 DEF Will, Removes, Calling, Running
      <3> QED
        BY <3>1, <3>2 DEF Staged
    <2> QED
      BY <2>1, <2>2
  <1>3. Staged'
    BY <1>2 DEF Staged
  <1>4. \A kind \in Kind : ~Will(o, OpenCall(kind))'
    BY MetadataOnly DEF Kind, OpenCall
  <1> QED
    BY <1>1, <1>3, <1>4, OnlyLess, MetadataOnly

LEMMA CrashStaged ==
    ASSUME TypeOK, TypeOK', Staged, Crash
    PROVE  Staged' /\ OpensLess
  <1>1. /\ DOMAIN ops' = DOMAIN ops
        /\ \A o \in DOMAIN ops : ops'[o].calls = <<>>
    <2>1. \A o \in DOMAIN ops : ops[o] \in Request
      BY DEF TypeOK
    <2>2. \A o \in DOMAIN ops : Over(o).calls = <<>>
      BY <2>1 DEF Over, Request
    <2> QED
      BY <2>2 DEF Crash
  <1>2. \A o \in DOMAIN ops : (\A call : ~Will(o, call)') /\ ~Removes(o)'
    BY <1>1, InNothing DEF Will, Removes, Calling, Running
  <1>3. Staged'
    BY <1>1, <1>2 DEF Staged, Stages
  <1>4. /\ Len(ops) \in Nat /\ DOMAIN ops = 1..Len(ops)
        /\ Len(ops') \in Nat /\ DOMAIN ops' = 1..Len(ops')
    BY DEF TypeOK
  <1>5. Len(ops') = Len(ops)
    BY <1>1, <1>4
  <1> QED
    BY <1>2, <1>3, <1>4, <1>5 DEF OpensLess

LEMMA CallDoc ==
    ASSUME IInv, TypeOK', NEW o \in Running, Call(o)
    PROVE  Staged' /\ Ids' /\ \A d \in Doc : DocInv(d)'
  <1>1. TypeOK /\ Staged /\ Ids /\ \A d \in Doc : DocInv(d)
    BY DEF IInv, Inv
  <1>2. D(o) \in Doc
    BY <1>1, RequestOf
  <1>3. \A d \in Doc : d # D(o) => dir'[d] = dir[d] /\ trash'[d] = trash[d] /\ whole'[d] = whole[d]
    <2>1. dir \in [Doc -> Files] /\ trash \in [Doc -> Files] /\ whole \in [Doc -> Nat \cup {None}]
      BY <1>1 DEF TypeOK
    <2>2. CASE OpenMeta(o) \/ OpenZip(o)
      BY <1>2, <2>1, <2>2 DEF OpenMeta, OpenZip, Open
    <2>3. CASE FillMeta(o) \/ FillZip(o)
      BY <1>2, <2>1, <2>3 DEF FillMeta, FillZip, Fill
    <2>4. CASE MoveMeta(o) \/ MoveZip(o)
      BY <1>2, <2>1, <2>4 DEF MoveMeta, MoveZip, Move
    <2>5. CASE MoveMissing(o) \/ CallFails(o) \/ MetadataFails(o)
      BY <2>5 DEF MoveMissing, CallFails, MetadataFails
    <2> QED
      BY <2>2, <2>3, <2>4, <2>5 DEF Call
  <1>4. mixed \subseteq mixed' /\ overtaken' = overtaken /\ revived' = revived /\ (faults' = 0 => faults = 0)
    <2>1. CASE OpenMeta(o) \/ OpenZip(o)
      BY <2>1 DEF OpenMeta, OpenZip, Open
    <2>2. CASE FillMeta(o) \/ FillZip(o)
      BY <2>2 DEF FillMeta, FillZip, Fill
    <2>3. CASE MoveMeta(o) \/ MoveZip(o)
      BY <2>3 DEF MoveMeta, MoveZip, Move
    <2>4. CASE MoveMissing(o)
      BY <2>4 DEF MoveMissing
    <2>5. CASE CallFails(o) \/ MetadataFails(o)
      BY <1>1, <2>5 DEF CallFails, MetadataFails, TypeOK
    <2> QED
      BY <2>1, <2>2, <2>3, <2>4, <2>5 DEF Call
  <1>5. ASSUME Only(o), DocInv(D(o))' PROVE \A d \in Doc : DocInv(d)'
    <2>1. D(o)' = D(o)
      BY <1>5 DEF Only, D
    <2>2. \A d \in Doc : d # D(o) => DocInv(d)'
      BY <1>1, <1>3, <1>4, <1>5, CallLeft
    <2>3. \A d \in Doc : d = D(o) => DocInv(d)'
      BY <1>5, <2>1
    <2> QED
      BY <2>2, <2>3
  <1>6. PICK e \in Doc : e = D(o)
    BY <1>2
  <1>7. ASSUME Only(o), DocInv(e)' PROVE \A d \in Doc : DocInv(d)'
    <2>1. D(o)' = D(o)
      BY <1>7 DEF Only, D
    <2> QED
      BY <1>5, <1>6, <1>7, <2>1
  <1>8. ASSUME Advances(o), Keeps(o) PROVE Staged' /\ OpensLess /\ Only(o)
    BY <1>1, <1>8, StagedAdvances, AdvancesLess DEF Advances
  <1>9. CASE OpenMeta(o)
    <2>1. Advances(o) /\ Keeps(o)
      BY <1>1, <1>9, KeepsOpen, Names DEF OpenMeta
    <2>2. Ids'
      BY <1>1, <1>9, OpenIds, Names DEF OpenMeta
    <2> QED
      BY <1>1, <1>6, <1>7, <1>8, <1>9, <2>1, <2>2, OpenMetaDoc
  <1>10. CASE OpenZip(o)
    <2>1. Advances(o) /\ Keeps(o)
      BY <1>1, <1>10, KeepsOpen, Names DEF OpenZip
    <2>2. Ids'
      BY <1>1, <1>10, OpenIds, Names DEF OpenZip
    <2> QED
      BY <1>1, <1>6, <1>7, <1>8, <1>10, <2>1, <2>2, OpenZipDoc
  <1>11. CASE FillMeta(o)
    <2>1. Advances(o) /\ Keeps(o)
      BY <1>1, <1>11, KeepsDone DEF FillMeta, Fill, Calling
    <2>2. Ids'
      BY <1>1, <1>8, <1>11, <2>1, FillIds, Names DEF FillMeta
    <2> QED
      BY <1>1, <1>6, <1>7, <1>8, <1>11, <2>1, <2>2, FillMetaDoc
  <1>12. CASE FillZip(o)
    <2>1. Advances(o) /\ Keeps(o)
      BY <1>1, <1>12, KeepsDone DEF FillZip, Fill, Calling
    <2>2. Ids'
      BY <1>1, <1>8, <1>12, <2>1, FillIds, Names DEF FillZip
    <2> QED
      BY <1>1, <1>6, <1>7, <1>8, <1>12, <2>1, <2>2, FillZipDoc
  <1>13. CASE MoveMeta(o)
    <2>1. Advances(o) /\ Keeps(o)
      BY <1>1, <1>13, KeepsDone DEF MoveMeta, Calling
    <2>2. Ids'
      BY <1>1, <1>8, <1>13, <2>1, MoveIds, Names DEF MoveMeta
    <2> QED
      BY <1>1, <1>6, <1>7, <1>8, <1>13, <2>1, <2>2, MoveMetaDoc
  <1>14. CASE MoveZip(o)
    <2>1. Advances(o) /\ Keeps(o)
      BY <1>1, <1>14, KeepsDone DEF MoveZip, Calling
    <2>2. Ids'
      BY <1>1, <1>8, <1>14, <2>1, MoveIds, Names DEF MoveZip
    <2> QED
      BY <1>1, <1>6, <1>7, <1>8, <1>14, <2>1, <2>2, MoveZipDoc
  <1>15. CASE MoveMissing(o) \/ CallFails(o)
    <2>1. Stops(o) /\ UNCHANGED <<dir, trash>>
      BY <1>1, <1>15, EndsStops DEF MoveMissing, CallFails
    <2>2. Staged' /\ OpensLess
      BY <1>1, <2>1, StagedStops, StopsLess
    <2>3. Ids'
      BY <1>1, <2>1, <2>2, IdsNone
    <2>4. \A d \in Doc : DocInv(d)'
      BY <1>1, <1>15, MoveMissingDoc, FaultDoc
    <2> QED
      BY <2>2, <2>3, <2>4
  <1>16. CASE MetadataFails(o)
    <2>1. Staged' /\ OpensLess
      BY <1>1, <1>16, MetadataStaged
    <2>2. Ids'
      BY <1>1, <1>16, <2>1, IdsNone DEF MetadataFails
    <2>3. Only(o)
      BY <1>1, <1>16, MetadataOnly
    <2> QED
      BY <1>1, <1>6, <1>7, <1>16, <2>1, <2>2, <2>3, MetadataFailsDoc
  <1> QED
    BY <1>9, <1>10, <1>11, <1>12, <1>13, <1>14, <1>15, <1>16 DEF Call

-----------------------------------------------------------------------------
LEMMA InitDocs == Init => Staged /\ Ids /\ \A d \in Doc : DocInv(d)
  <1> SUFFICES ASSUME Init PROVE Staged /\ Ids /\ \A d \in Doc : DocInv(d)
    OBVIOUS
  <1>1. PICK stored \in SUBSET Doc :
           /\ dir = [d \in Doc |-> Both(IF d \in stored THEN File(0, TRUE) ELSE None)]
           /\ whole = [d \in Doc |-> IF d \in stored THEN 0 ELSE None]
    BY DEF Init
  <1>2. /\ ops = <<>> /\ trash = [d \in Doc |-> Both(None)] /\ Running = {} /\ DOMAIN ops = {}
        /\ Len(ops) = 0
    BY DEF Init, Running
  <1>3. IsWhole(File(0, TRUE)) /\ IsFile(File(0, TRUE)) /\ File(0, TRUE).id = 0 /\ None # 0
    <2>1. File(0, TRUE) \in FileType /\ File(0, TRUE).full /\ File(0, TRUE).id = 0
      BY DEF File, FileType
    <2>2. IsFile(File(0, TRUE))
      BY <2>1, NoneAssumption DEF IsFile
    <2>3. None # 0
      BY NoneAssumption
    <2> QED
      BY <2>1, <2>2, <2>3 DEF IsWhole
  <1>5. ASSUME NEW d \in Doc
        PROVE  /\ On(d) = {} /\ trash[d].meta = None /\ trash[d].zip = None
               /\ d \in stored => /\ dir[d].meta = File(0, TRUE) /\ dir[d].zip = File(0, TRUE)
                                  /\ whole[d] = 0
               /\ d \notin stored => dir[d].meta = None /\ dir[d].zip = None /\ whole[d] = None
    BY <1>1, <1>2 DEF On, Both
  <1>6. Staged
    BY <1>2 DEF Staged
  <1>7. Ids
    <2> SUFFICES ASSUME NEW d \in Doc, NEW kind \in Kind PROVE IdsOf(d, kind)
      BY DEF Ids
    <2>1. trash[d][kind] = None /\ dir[d][kind] \in {None, File(0, TRUE)}
      BY <1>5 DEF Kind
    <2>2. Numbered(kind, None) /\ Numbered(kind, File(0, TRUE))
      <3>1. 0 \in 0..Len(ops) /\ 0 \notin DOMAIN ops
        BY <1>2
      <3>2. PICK f : f = File(0, TRUE) /\ f.id = 0
        BY <1>3
      <3>3. Numbered(kind, f)
        BY <3>1, <3>2, Zenon DEF Numbered
      <3> QED
        BY <3>2, <3>3 DEF Numbered, IsFile
    <2>3. Numbered(kind, dir[d][kind]) /\ Numbered(kind, trash[d][kind])
      BY <2>1, <2>2
    <2> QED
      BY <2>1, <2>3 DEF IdsOf, IsFile
  <1>8. ASSUME NEW d \in Doc PROVE DocInv(d)
    <2>1. Untouched(d)
      BY <1>3, <1>5 DEF Untouched, Known, IsFile
    <2>2. Apart(d) /\ Owned(d)
      BY <1>5 DEF Apart, Owned
    <2>3. InDir(d)
      BY <1>3, <1>5 DEF InDir
    <2>4. Kept(d)
      BY <1>5, <2>3 DEF Kept
    <2>5. Matched(d)
      BY <1>3, <1>5, Names DEF Matched, IsFile
    <2> QED
      BY <2>1, <2>2, <2>4, <2>5 DEF DocInv
  <1> QED
    BY <1>6, <1>7, <1>8

LEMMA Unchanged ==
    ASSUME IInv, UNCHANGED vars
    PROVE  IInv'
  <1>1. Inv'
    BY DEF IInv, Inv, TypeOK, Accounted, Present, vars
  <1>2. (\A o, call : Will(o, call)' <=> Will(o, call)) /\ (\A o : Removes(o)' <=> Removes(o))
    BY DEF Will, Removes, Calling, Running, vars
  <1>3. Staged'
    BY <1>2 DEF IInv, Staged, vars
  <1>4. Ids'
    BY <1>2 DEF IInv, Ids, IdsOf, Numbered, vars
  <1>5. ASSUME NEW d \in Doc PROVE DocInv(d)'
    <2>1. On(d)' = On(d) /\ \A o : D(o)' = D(o)
      BY DEF On, Running, D, vars
    <2>2. Left(d)
      BY <2>1 DEF Left, vars
    <2>3. (\A o \in DOMAIN ops : D(o) # d) <=> (\A o \in DOMAIN ops' : D(o)' # d)
      BY <2>1 DEF vars
    <2> QED
      BY <2>2, <2>3, LeftAlone DEF IInv, vars
  <1> QED
    BY <1>1, <1>3, <1>4, <1>5 DEF IInv

(* Every request goes through its calls in their order, a file is the       *)
(* request's that made it, and each document is in order (DocInv).          *)
THEOREM DocumentsInOrder == Spec => []IInv
  <1>1. Init => IInv
    BY InitInv, InitDocs DEF IInv
  <1>2. IInv /\ Inv' /\ [Next]_vars => IInv'
    <2> SUFFICES ASSUME IInv, Inv', [Next]_vars PROVE IInv'
      OBVIOUS
    <2>1. TypeOK /\ TypeOK'
      BY DEF IInv, Inv
    <2>2. CASE \E d \in Doc : Requests(d)
      BY <2>2, RequestsDoc DEF IInv
    <2>3. CASE \E o \in Running : Call(o)
      BY <2>1, <2>3, CallDoc DEF IInv
    <2>4. CASE Crash
      <3>1. Staged' /\ OpensLess
        BY <2>1, <2>4, CrashStaged DEF IInv
      <3>2. Ids'
        BY <2>1, <2>4, <3>1, IdsNone DEF IInv, Crash
      <3>3. \A d \in Doc : DocInv(d)'
        BY <2>1, <2>4, CrashDoc DEF IInv
      <3> QED
        BY <3>1, <3>2, <3>3 DEF IInv
    <2>5. CASE UNCHANGED vars
      BY <2>5, Unchanged
    <2> QED
      BY <2>2, <2>3, <2>4, <2>5 DEF Next
  <1> QED
    BY <1>1, <1>2, Invariant, PTL DEF Spec

(* Whatever fails or stops, the archive that last came in whole is in the   *)
(* directory or in the trash, until it is written over (RemoveDocument),    *)
(* for a document that no two requests wrote at once, no removal came upon  *)
(* as it was written, and no update brought back from the trash             *)
(* (updateStatus).                                                          *)
THEOREM ArchivesSurvive == Spec => []ArchiveSurvives
  <1>1. ASSUME IInv, NEW d \in Orderly, whole[d] # None
        PROVE  \E f \in {dir[d].zip, trash[d].zip} : IsWhole(f) /\ f.id = whole[d]
    <2>1. Kept(d)
      BY <1>1 DEF IInv, DocInv, Orderly
    <2> QED
      BY <1>1, <2>1 DEF Kept, InDir, InTrash
  <1>2. IInv => ArchiveSurvives
    BY <1>1 DEF ArchiveSurvives
  <1> QED
    BY <1>2, DocumentsInOrder, PTL

(* When nothing has failed and no request is at work, a document is listed  *)
(* just when its archive is there (CreateDocument, StoreDocument,           *)
(* RemoveDocument), under the same three conditions.                        *)
THEOREM ListedWithArchive == Spec => []MetaAndArchive
  <1>1. ASSUME IInv, Running = {}, faults = 0, NEW d \in Orderly
        PROVE  Listed(d) <=> IsWhole(dir[d].zip)
    <2>1. Matched(d) /\ On(d) = {}
      BY <1>1 DEF IInv, DocInv, On, Orderly
    <2> QED
      BY <2>1, Names DEF Matched, Listed, IsWhole
  <1>2. IInv => MetaAndArchive
    BY <1>1 DEF MetaAndArchive
  <1> QED
    BY <1>2, DocumentsInOrder, PTL
=============================================================================
