---------------------------- MODULE AccountsProofs ----------------------------
(***************************************************************************)
(* What is proved of Accounts, for any users, codes and integrations, any  *)
(* profiles to begin with and any bounds: the codes that pair a device,    *)
(* the resets of a passcode and the profiles.                              *)
(***************************************************************************)
EXTENDS Accounts, TLAPS

Counted == faults \in Nat

DrawnCodes == DOMAIN dict \subseteq Code

Inv == CodesAgree /\ DrawnCodes /\ Counted /\ ApprovedByUser

(* The steps that end or make no code.                                      *)
CodesStay == UNCHANGED <<codes, faults>>

-----------------------------------------------------------------------------
LEMMA WithoutIs ==
    ASSUME NEW f, NEW x
    PROVE  /\ DOMAIN Without(f, x) = DOMAIN f \ {x}
           /\ \A y \in DOMAIN f \ {x} : Without(f, x)[y] = f[y]
BY DEF Without, Restrict

(* A code and its user go together, so what agrees still does.              *)
LEMMA ConsumeAgrees ==
    ASSUME CodesAgree, NEW c, ConsumeCode(c)
    PROVE  /\ \A d \in DOMAIN dict' : /\ d \in DOMAIN dict \ {c}
                                      /\ dict'[d] = dict[d]
                                      /\ dict'[d] \in DOMAIN uids' /\ uids'[dict'[d]] = d
           /\ \A u \in DOMAIN uids' : uids'[u] \in DOMAIN dict' /\ dict'[uids'[u]] = u
           /\ DOMAIN dict \ DOMAIN dict' \subseteq {c}
<1>1. CASE c \in DOMAIN dict
  <2>1. dict' = Without(dict, c) /\ uids' = Without(uids, dict[c])
    BY <1>1 DEF ConsumeCode
  <2>2. /\ DOMAIN dict' = DOMAIN dict \ {c}
        /\ \A d \in DOMAIN dict \ {c} : dict'[d] = dict[d]
    BY <2>1, WithoutIs
  <2>3. /\ DOMAIN uids' = DOMAIN uids \ {dict[c]}
        /\ \A u \in DOMAIN uids \ {dict[c]} : uids'[u] = uids[u]
    BY <2>1, WithoutIs
  <2>4. ASSUME NEW d \in DOMAIN dict'
        PROVE  /\ d \in DOMAIN dict \ {c} /\ dict'[d] = dict[d]
               /\ dict'[d] \in DOMAIN uids' /\ uids'[dict'[d]] = d
    <3>1. d \in DOMAIN dict /\ d # c /\ dict'[d] = dict[d]
      BY <2>2
    <3>2. dict[d] \in DOMAIN uids /\ uids[dict[d]] = d /\ uids[dict[c]] = c
      BY <3>1, <1>1 DEF CodesAgree
    <3>3. dict[d] # dict[c]
      BY <3>1, <3>2
    <3> QED
      BY <3>1, <3>2, <3>3, <2>3
  <2>5. ASSUME NEW u \in DOMAIN uids'
        PROVE  uids'[u] \in DOMAIN dict' /\ dict'[uids'[u]] = u
    <3>1. u \in DOMAIN uids /\ u # dict[c] /\ uids'[u] = uids[u]
      BY <2>3
    <3>2. uids[u] \in DOMAIN dict /\ dict[uids[u]] = u
      BY <3>1 DEF CodesAgree
    <3>3. uids[u] # c
      BY <3>1, <3>2
    <3> QED
      BY <3>1, <3>2, <3>3, <2>2
  <2> QED
    BY <2>2, <2>4, <2>5
<1>2. CASE c \notin DOMAIN dict
  <2>1. dict' = dict /\ uids' = uids
    BY <1>2 DEF ConsumeCode
  <2> QED
    BY <1>2, <2>1 DEF CodesAgree
<1> QED
  BY <1>1, <1>2

(* NewCode takes away the code that the user had, and no other.             *)
LEMMA NewCodeAgrees ==
    ASSUME CodesAgree, DrawnCodes, NEW r, NEW c \in Code, NewCode(r, c)
    PROVE  /\ CodesAgree' /\ DrawnCodes'
           /\ \A d \in DOMAIN dict \ DOMAIN dict' :
                 dict[d] \in DOMAIN uids' /\ uids'[dict[d]] = c
<1> DEFINE u == requests[r].user
           old == OldCode(u)
<1>1. /\ c \notin DOMAIN dict /\ c \notin timers /\ c \notin used
      /\ dict' = [d \in (DOMAIN dict \ {old}) \cup {c} |-> IF d = c THEN u ELSE dict[d]]
      /\ uids' = [v \in DOMAIN uids \cup {u} |-> IF v = u THEN c ELSE uids[v]]
      /\ timers' = timers \cup {c} /\ used' = used
  BY DEF NewCode, WithCode
<1> HIDE DEF u
<1>2. u \in DOMAIN uids => old = uids[u]
  BY DEF OldCode
<1>3. u \notin DOMAIN uids => old \notin DOMAIN dict
  BY NameAssumption DEF OldCode, DrawnCodes
<1> HIDE DEF old
<1>4. ASSUME NEW d \in DOMAIN dict'
      PROVE  dict'[d] \in DOMAIN uids' /\ uids'[dict'[d]] = d
  <2>1. CASE d = c
    BY <1>1, <2>1
  <2>2. CASE d # c
    <3>1. d \in DOMAIN dict /\ d # old /\ dict'[d] = dict[d]
      BY <1>1, <2>2
    <3>2. dict[d] \in DOMAIN uids /\ uids[dict[d]] = d
      BY <3>1 DEF CodesAgree
    <3>3. dict[d] # u
      BY <3>1, <3>2, <1>2
    <3> QED
      BY <1>1, <3>1, <3>2, <3>3
  <2> QED
    BY <2>1, <2>2
<1>5. ASSUME NEW v \in DOMAIN uids'
      PROVE  uids'[v] \in DOMAIN dict' /\ dict'[uids'[v]] = v
  <2>1. CASE v = u
    BY <1>1, <2>1
  <2>2. CASE v # u
    <3>1. v \in DOMAIN uids /\ uids'[v] = uids[v]
      BY <1>1, <2>2
    <3>2. uids[v] \in DOMAIN dict /\ dict[uids[v]] = v
      BY <3>1 DEF CodesAgree
    <3>3. uids[v] # c
      BY <1>1, <3>2
    <3>4. uids[v] # old
      <4>1. CASE u \in DOMAIN uids
        <5>1. dict[uids[u]] = u
          BY <4>1 DEF CodesAgree
        <5> QED
          BY <5>1, <3>2, <2>2, <4>1, <1>2
      <4>2. CASE u \notin DOMAIN uids
        BY <4>2, <3>2, <1>3
      <4> QED
        BY <4>1, <4>2
    <3> QED
      BY <1>1, <3>1, <3>2, <3>3, <3>4
  <2> QED
    BY <2>1, <2>2
<1>6. DOMAIN dict' \subseteq timers' \ used'
  BY <1>1 DEF CodesAgree
<1>7. DrawnCodes'
  BY <1>1 DEF DrawnCodes
<1>8. ASSUME NEW d \in DOMAIN dict \ DOMAIN dict'
      PROVE  dict[d] \in DOMAIN uids' /\ uids'[dict[d]] = c
  <2>1. d = old /\ d \in DOMAIN dict
    BY <1>1
  <2>2. u \in DOMAIN uids /\ d = uids[u]
    BY <2>1, <1>2, <1>3
  <2>3. dict[d] = u
    BY <2>2 DEF CodesAgree
  <2> QED
    BY <2>3, <1>1
<1>9. CodesAgree'
  BY <1>4, <1>5, <1>6 DEF CodesAgree
<1> QED
  BY <1>7, <1>8, <1>9

-----------------------------------------------------------------------------
(* The invariant.                                                           *)

LEMMA InitInv == Init => Inv
<1> SUFFICES ASSUME Init PROVE Inv
  OBVIOUS
<1>1. DOMAIN dict = {} /\ DOMAIN uids = {}
  BY DEF Init
<1> QED
  BY <1>1 DEF Init, Inv, CodesAgree, DrawnCodes, Counted, ApprovedByUser

(* What a step does to the codes, the timers and the count of faults.       *)
CodeStep ==
    \/ CodesStay
    \/ \E r \in Made, c \in Code : NewCode(r, c)
    \/ \E c \in Code : Pair(c)
    \/ \E c \in Code : Expire(c)
    \/ UNCHANGED codes /\ faults' = faults + 1
    \/ Restart

(* And to the resets.                                                       *)
ResetStep == UNCHANGED resets \/ Resets \/ Restart

LEMMA ResetsKeepCodes == ASSUME Resets PROVE CodesStay
<1>1. CASE Ask
  BY <1>1 DEF Ask, CodesStay, codes
<1>2. CASE Create
  BY <1>2 DEF Create, CodesStay, codes
<1>3. CASE Poll
  BY <1>3 DEF Poll, CodesStay, codes
<1>4. ASSUME NEW shows \in BOOLEAN, Show(shows) PROVE CodesStay
  BY <1>4 DEF Show, CodesStay, codes
<1>5. CASE Approve
  BY <1>5 DEF Approve, CodesStay, codes
<1>6. CASE Dismiss
  BY <1>6 DEF Dismiss, CodesStay, codes
<1>7. CASE ResetExpires
  BY <1>7 DEF ResetExpires, CodesStay, codes
<1> QED
  BY <1>1, <1>2, <1>3, <1>4, <1>5, <1>6, <1>7 DEF Resets

LEMMA AccountKeepsCodes ==
    ASSUME NEW u \in User, Account(u)
    PROVE  CodesStay /\ UNCHANGED resets
<1>1. ASSUME NEW kind, NEW arg, NEW pc, NEW seen, Start(kind, u, arg, pc, seen)
      PROVE  CodesStay /\ UNCHANGED resets
  BY <1>1 DEF Start, CodesStay
<1>2. ASSUME NEW kind, NEW arg, Change(kind, u, arg)
      PROVE  CodesStay /\ UNCHANGED resets
  BY <1>1, <1>2 DEF Change
<1>3. CASE FirstLogin(u) \/ Register(u) \/ CreateUser(u)
  BY <1>1, <1>3 DEF FirstLogin, Register, CreateUser
<1>4. CASE ChangePassword(u) \/ AskForCode(u)
  BY <1>2, <1>4 DEF ChangePassword, AskForCode
<1>5. ASSUME NEW i \in Integration, CreateIntegration(u, i) \/ DeleteIntegration(u, i)
      PROVE  CodesStay /\ UNCHANGED resets
  BY <1>2, <1>5 DEF CreateIntegration, DeleteIntegration
<1>6. CASE Login(u)
  BY <1>6 DEF Login, CodesStay
<1>7. CASE RemoveUser(u)
  BY <1>7 DEF RemoveUser, CodesStay
<1> QED
  BY <1>3, <1>4, <1>5, <1>6, <1>7 DEF Account

LEMMA HandleSteps ==
    ASSUME NEW r \in Made, Handle(r)
    PROVE  CodeStep /\ UNCHANGED resets
<1>1. CASE Read(r)
  BY <1>1 DEF Read, CodeStep, CodesStay
<1>2. CASE Exclusive(r)
  BY <1>2 DEF Exclusive, CodeStep, CodesStay
<1>3. CASE Truncate(r)
  BY <1>3 DEF Truncate, CodeStep, CodesStay
<1>4. CASE Fill(r)
  BY <1>4 DEF Fill, CodeStep, CodesStay
<1>5. CASE WriteFails(r)
  BY <1>5 DEF WriteFails, CodeStep
<1>6. CASE Clear(r)
  BY <1>6 DEF Clear, CodeStep, CodesStay
<1>7. ASSUME NEW c \in Code, NewCode(r, c) PROVE CodeStep /\ UNCHANGED resets
  <2>1. UNCHANGED resets
    BY <1>7 DEF NewCode
  <2> QED
    BY <1>7, <2>1 DEF CodeStep
<1> QED
  BY <1>1, <1>2, <1>3, <1>4, <1>5, <1>6, <1>7 DEF Handle

LEMMA StepCases == ASSUME [Next]_vars PROVE CodeStep /\ ResetStep
<1>1. CASE UNCHANGED vars
  BY <1>1 DEF vars, CodeStep, CodesStay, ResetStep
<1>2. ASSUME NEW u \in User, Account(u) PROVE CodeStep /\ ResetStep
  BY <1>2, AccountKeepsCodes DEF CodeStep, ResetStep
<1>3. ASSUME NEW r \in Made, Handle(r) PROVE CodeStep /\ ResetStep
  BY <1>3, HandleSteps DEF ResetStep
<1>4. ASSUME NEW c \in Code, Pair(c) \/ Expire(c) PROVE CodeStep /\ ResetStep
  <2>1. UNCHANGED resets
    BY <1>4 DEF Pair, Expire
  <2> QED
    BY <1>4, <2>1 DEF CodeStep, ResetStep
<1>5. CASE Resets
  BY <1>5, ResetsKeepCodes DEF CodeStep, ResetStep
<1>6. CASE Restart
  BY <1>6 DEF CodeStep, ResetStep
<1> QED
  BY <1>1, <1>2, <1>3, <1>4, <1>5, <1>6 DEF Next, Act

(* Every step but a restart leaves the codes in agreement, and those it     *)
(* ends it ends for a reason.                                               *)
EndsForAReason(d) ==
    \/ d \in used'
    \/ d \in timers \ timers'
    \/ dict[d] \in DOMAIN uids' /\ uids'[dict[d]] \notin timers
    \/ faults' > faults

LEMMA CodeSteps ==
    ASSUME Inv, CodeStep
    PROVE  /\ CodesAgree' /\ DrawnCodes' /\ Counted'
           /\ \A d \in DOMAIN dict \ DOMAIN dict' : EndsForAReason(d)
<1>1. CASE UNCHANGED codes /\ (faults' = faults \/ faults' = faults + 1)
  BY <1>1 DEF codes, Inv, CodesAgree, DrawnCodes, Counted
<1>2. ASSUME NEW r \in Made, NEW c \in Code, NewCode(r, c)
      PROVE  /\ CodesAgree' /\ DrawnCodes' /\ Counted'
             /\ \A d \in DOMAIN dict \ DOMAIN dict' : EndsForAReason(d)
  <2>1. c \notin timers /\ faults' = faults
    BY <1>2 DEF NewCode
  <2>2. Counted'
    BY <2>1 DEF Inv, Counted
  <2> QED
    BY <1>2, <2>1, <2>2, NewCodeAgrees DEF Inv, EndsForAReason
<1>3. ASSUME NEW c \in Code, Pair(c)
      PROVE  /\ CodesAgree' /\ DrawnCodes' /\ Counted'
             /\ \A d \in DOMAIN dict \ DOMAIN dict' : EndsForAReason(d)
  <2>1. ConsumeCode(c) /\ used' = used \cup {c} /\ timers' = timers /\ faults' = faults
    BY <1>3 DEF Pair
  <2>2. CodesAgree'
    BY <2>1, ConsumeAgrees DEF Inv, CodesAgree
  <2>3. DrawnCodes' /\ Counted'
    BY <2>1, ConsumeAgrees DEF Inv, DrawnCodes, Counted
  <2>4. \A d \in DOMAIN dict \ DOMAIN dict' : EndsForAReason(d)
    BY <2>1, ConsumeAgrees DEF Inv, EndsForAReason
  <2> QED
    BY <2>2, <2>3, <2>4
<1>4. ASSUME NEW c \in Code, Expire(c)
      PROVE  /\ CodesAgree' /\ DrawnCodes' /\ Counted'
             /\ \A d \in DOMAIN dict \ DOMAIN dict' : EndsForAReason(d)
  <2>1. /\ ConsumeCode(c) /\ used' = used /\ faults' = faults
        /\ c \in timers /\ timers' = timers \ {c}
    BY <1>4 DEF Expire, Expires
  <2>2. CodesAgree'
    BY <2>1, ConsumeAgrees DEF Inv, CodesAgree
  <2>3. DrawnCodes' /\ Counted'
    BY <2>1, ConsumeAgrees DEF Inv, DrawnCodes, Counted
  <2>4. \A d \in DOMAIN dict \ DOMAIN dict' : EndsForAReason(d)
    BY <2>1, ConsumeAgrees DEF Inv, EndsForAReason
  <2> QED
    BY <2>2, <2>3, <2>4
<1>5. CASE Restart
  <2>1. DOMAIN dict' = {} /\ DOMAIN uids' = {} /\ faults' = faults + 1
    BY <1>5 DEF Restart
  <2> QED
    BY <2>1 DEF Inv, CodesAgree, DrawnCodes, Counted, EndsForAReason
<1> QED
  BY <1>1, <1>2, <1>3, <1>4, <1>5 DEF CodeStep, CodesStay

LEMMA ResetSteps == ASSUME ApprovedByUser, ResetStep PROVE ApprovedByUser'
<1>1. CASE UNCHANGED resets
  BY <1>1 DEF resets, ApprovedByUser
<1>2. CASE Resets
  BY <1>2 DEF Resets, Ask, Create, Created, Poll, Show, Approve, Dismiss,
              ResetExpires, ApprovedByUser
<1>3. CASE Restart
  BY <1>3 DEF Restart, ApprovedByUser
<1> QED
  BY <1>1, <1>2, <1>3 DEF ResetStep

(* The invariant holds in every reachable state: NewCode, ConsumeCode, the  *)
(* timer of each code and a restart keep the two maps of codeconnector.go   *)
(* inverse to each other.                                                   *)
THEOREM Invariant == Spec => []Inv
<1>1. Inv /\ [Next]_vars => Inv'
  <2> SUFFICES ASSUME Inv, [Next]_vars PROVE Inv'
    OBVIOUS
  <2>1. CodesAgree' /\ DrawnCodes' /\ Counted'
    BY StepCases, CodeSteps
  <2>2. ApprovedByUser'
    BY StepCases, ResetSteps DEF Inv
  <2> QED
    BY <2>1, <2>2 DEF Inv
<1> QED
  BY InitInv, <1>1, PTL DEF Spec

(* A user has one code and a code one user, it can be used once, and its    *)
(* time is running (NewCode, ConsumeCode).                                  *)
THEOREM CodesAlwaysAgree == Spec => []CodesAgree
<1>1. Inv => CodesAgree
  BY DEF Inv
<1> QED
  BY Invariant, <1>1, PTL

(* No timer of an old code ends a new one: a code ends because it was used, *)
(* its own time is over, its user has a newer one or the server stopped.    *)
THEOREM EveryCodeEndsForAReason == Spec => CodeEndsForAReason
<1>1. Inv /\ [Next]_vars =>
          [\A c \in DOMAIN dict \ DOMAIN dict' :
              \/ c \in used'
              \/ c \in timers \ timers'
              \/ dict[c] \in DOMAIN uids' /\ uids'[dict[c]] \notin timers
              \/ faults' > faults]_vars
  BY StepCases, CodeSteps DEF EndsForAReason
<1> QED
  BY Invariant, <1>1, PTL DEF Spec, CodeEndsForAReason

(* A reset that the tablet finds approved was approved by the user after    *)
(* its last request had arrived (createReset, approveReset, dismissReset).  *)
THEOREM ResetsAreApproved == Spec => []ApprovedByUser
<1>1. Inv => ApprovedByUser
  BY DEF Inv
<1> QED
  BY Invariant, <1>1, PTL

-----------------------------------------------------------------------------
(* The profiles.                                                            *)

(* An admin makes the user, whatever profile is there.                      *)
Makes(r) == requests[r].kind = "create"

Pc == {"read", "exclusive", "truncate", "fill", "clear", "code", "over"}

Kind == {"first", "register", "create", "password", "add", "drop", "code", "over"}

RequestType == [kind : Kind, user : User \cup {Nobody}, arg : Integration \cup {Nobody},
                pc : Pc, seen : Profile, inode : Nat, late : BOOLEAN]

Types ==
    /\ requests \in Seq(RequestType)
    /\ file \in [User -> [inode : Nat, text : Profile \cup {Absent, Blank, Broken}]]
    /\ owed \in [User -> Profile \cup {Absent}]
    /\ firstUser \in BOOLEAN

(* Where a request is with its work, and what it has read.                  *)
Reading(r) ==
    LET req == requests[r] IN
    /\ req.pc \in {"read", "exclusive", "truncate", "fill", "clear"} => req.user \in User
    /\ req.kind = "add" => req.arg \in Integration
    /\ req.pc = "truncate" =>
          \/ Makes(r) \/ req.late
          \/ /\ file[req.user].text \in Profile
             /\ req.seen = Changed(r, file[req.user].text)
    /\ req.pc \in {"fill", "clear"} => file[req.user].inode > 0

Works(u) == {r \in Made : requests[r].user = u /\ At(r, "fill")}

(* Request r is the only one that writes u's profile, and will leave in it  *)
(* what is owed then.                                                       *)
WritesAlone(r, u) ==
    /\ Works(u) = {r}
    /\ file[u].text = Blank /\ file[u].inode = requests[r].inode
    /\ ~Makes(r) /\ owed[u] # Absent => requests[r].seen = Changed(r, owed[u])

(* Either somebody's write overlaps another, or one writes, or none.        *)
Settled(u) ==
    \/ u \in unsure
    \/ \E r \in Works(u) : requests[r].late
    \/ \E r \in Made : WritesAlone(r, u)
    \/ Works(u) = {} /\ file[u].text = owed[u]

Existing == \A u \in User : file[u].text # Absent => file[u].inode > 0

Somebody == firstUser \/ \E u \in User : file[u].inode > 0

ProfileInv ==
    /\ Types /\ Existing /\ Somebody
    /\ \A r \in Made : Reading(r)
    /\ \A u \in User : Settled(u)

-----------------------------------------------------------------------------
(* What a step does to the requests.                                        *)

LEMMA MadeIs ==
    ASSUME Types
    PROVE  /\ Made = 1..Len(requests) /\ Len(requests) \in Nat
           /\ \A r \in Made : requests[r] \in RequestType
BY DEF Types, Made

(* The request that has gone on, and the others, which may be late now.     *)
Others(r, u, wrote) ==
    \A q \in Made \ {r} :
        /\ requests'[q].kind = requests[q].kind /\ requests'[q].user = requests[q].user
        /\ requests'[q].arg = requests[q].arg /\ requests'[q].pc = requests[q].pc
        /\ requests'[q].seen = requests[q].seen /\ requests'[q].inode = requests[q].inode
        /\ requests'[q].late = (requests[q].late \/
               (wrote /\ requests[q].user = u /\ requests[q].pc \in {"truncate", "fill"}))

LEMMA OutdatedIs ==
    ASSUME NEW q \in Made, requests[q] \in RequestType, NEW u
    PROVE  /\ Outdated(q, u) \in RequestType
           /\ Outdated(q, u).kind = requests[q].kind /\ Outdated(q, u).user = requests[q].user
           /\ Outdated(q, u).arg = requests[q].arg /\ Outdated(q, u).pc = requests[q].pc
           /\ Outdated(q, u).seen = requests[q].seen
           /\ Outdated(q, u).inode = requests[q].inode
           /\ Outdated(q, u).late = (requests[q].late \/
               (requests[q].user = u /\ requests[q].pc \in {"truncate", "fill"}))
BY DEF Outdated, RequestType

LEMMA SameLength ==
    ASSUME Types, NEW f, DOMAIN f = Made, f = [q \in Made |-> f[q]],
           \A q \in Made : f[q] \in RequestType
    PROVE  f \in Seq(RequestType)
BY MadeIs

LEMMA StepIs ==
    ASSUME Types, NEW r \in Made, NEW req \in RequestType, NEW wrote \in BOOLEAN,
           Step(r, req, wrote)
    PROVE  /\ requests' \in Seq(RequestType) /\ DOMAIN requests' = Made
           /\ requests'[r] = req
           /\ Others(r, requests[r].user, wrote)
<1> DEFINE u == requests[r].user
           f == [q \in Made |-> IF q = r THEN req
                                ELSE IF wrote THEN Outdated(q, u) ELSE requests[q]]
<1>1. requests' = f
  BY DEF Step
<1>2. ASSUME NEW q \in Made \ {r}
      PROVE  /\ f[q] \in RequestType
             /\ f[q].kind = requests[q].kind /\ f[q].user = requests[q].user
             /\ f[q].arg = requests[q].arg /\ f[q].pc = requests[q].pc
             /\ f[q].seen = requests[q].seen /\ f[q].inode = requests[q].inode
             /\ f[q].late = (requests[q].late \/
                 (wrote /\ requests[q].user = u /\ requests[q].pc \in {"truncate", "fill"}))
  <2>1. requests[q] \in RequestType
    BY MadeIs
  <2> HIDE DEF u
  <2>2. CASE wrote
    <3>1. f[q] = Outdated(q, u)
      BY <2>2
    <3> QED
      BY <2>1, <2>2, <3>1, OutdatedIs
  <2>3. CASE ~wrote
    <3>1. f[q] = requests[q]
      BY <2>3
    <3>2. requests[q].late \in BOOLEAN
      BY <2>1 DEF RequestType
    <3> QED
      BY <2>1, <2>3, <3>1, <3>2
  <2> QED
    BY <2>2, <2>3
<1>3. DOMAIN f = Made /\ f = [q \in Made |-> f[q]] /\ f[r] = req
  OBVIOUS
<1> HIDE DEF f
<1>4. f \in Seq(RequestType)
  BY <1>2, <1>3, SameLength
<1> QED
  BY <1>1, <1>2, <1>3, <1>4 DEF Others

LEMMA OverIs == Over \in RequestType /\ Over.pc = "over" /\ Over.kind = "over"
BY DEF Over, RequestType, NewUser, Profile, Pc, Kind

(* A change depends on the request, and leaves a profile one.               *)
LEMMA ChangedIs ==
    ASSUME NEW r \in Made, requests[r] \in RequestType, Reading(r),
           NEW profile \in Profile
    PROVE  Changed(r, profile) \in Profile
BY DEF Changed, Profile, Reading, RequestType

LEMMA ChangedSame ==
    ASSUME NEW q, requests'[q].kind = requests[q].kind, requests'[q].arg = requests[q].arg
    PROVE  (\A p : Changed(q, p)' = Changed(q, p)) /\ (Makes(q)' <=> Makes(q))
BY DEF Changed, Makes

(* What the others have read is still right, or they are late.              *)
LEMMA ReadingStays ==
    ASSUME Types, Types', NEW r \in Made, NEW u, NEW wrote \in BOOLEAN, Others(r, u, wrote),
           DOMAIN requests' = Made,
           \A v \in User : file'[v].inode >= file[v].inode,
           \A v \in User : file'[v].text = file[v].text \/ (wrote /\ v = u),
           NEW q \in Made \ {r}, Reading(q)
    PROVE  Reading(q)'
<1>1. /\ requests'[q].kind = requests[q].kind /\ requests'[q].user = requests[q].user
      /\ requests'[q].arg = requests[q].arg /\ requests'[q].pc = requests[q].pc
      /\ requests'[q].seen = requests[q].seen
      /\ requests'[q].late = (requests[q].late \/
               (wrote /\ requests[q].user = u /\ requests[q].pc \in {"truncate", "fill"}))
  BY DEF Others
<1>2. (\A p : Changed(q, p)' = Changed(q, p)) /\ (Makes(q)' <=> Makes(q))
  BY <1>1, ChangedSame
<1>3. requests[q].late \in BOOLEAN
  BY MadeIs DEF RequestType
<1>4. requests[q].pc \in {"fill", "clear"} => file'[requests[q].user].inode > 0
  BY DEF Reading, Types
<1>5. ASSUME requests[q].pc = "truncate"
      PROVE  \/ Makes(q) \/ requests'[q].late
             \/ /\ file'[requests[q].user].text \in Profile
                /\ requests[q].seen = Changed(q, file'[requests[q].user].text)
  BY <1>1, <1>3, <1>5 DEF Reading
<1> QED
  BY <1>1, <1>2, <1>4, <1>5 DEF Reading

(* Elsewhere nothing has changed.                                           *)
LEMMA SettledStays ==
    ASSUME Types, NEW v \in User, Settled(v), NEW r \in Made, NEW u, NEW wrote \in BOOLEAN,
           Others(r, u, wrote), DOMAIN requests' = Made,
           r \notin Works(v), r \notin Works(v)',
           file'[v] = file[v], owed'[v] = owed[v], unsure \subseteq unsure',
           ~wrote \/ v # u
    PROVE  Settled(v)'
<1>1. ASSUME NEW q \in Made \ {r}
      PROVE  /\ requests'[q].kind = requests[q].kind /\ requests'[q].user = requests[q].user
             /\ requests'[q].arg = requests[q].arg /\ requests'[q].pc = requests[q].pc
             /\ requests'[q].seen = requests[q].seen
             /\ requests'[q].inode = requests[q].inode
             /\ requests[q].user = v => requests'[q].late = requests[q].late
  <2>1. requests[q].late \in BOOLEAN
    BY MadeIs DEF RequestType
  <2> QED
    BY <2>1 DEF Others
<1>2. Works(v)' = Works(v)
  BY <1>1 DEF Works, At, Made
<1>3. CASE v \in unsure
  BY <1>3 DEF Settled
<1>4. ASSUME NEW q \in Works(v), requests[q].late
      PROVE  Settled(v)'
  <2>1. q \in Made \ {r} /\ requests[q].user = v
    BY <1>4 DEF Works
  <2>2. requests'[q].late
    BY <1>1, <2>1, <1>4
  <2> QED
    BY <2>2, <1>2, <1>4 DEF Settled
<1>5. ASSUME NEW q \in Made, WritesAlone(q, v)
      PROVE  Settled(v)'
  <2>1. q \in Made \ {r}
    BY <1>5 DEF WritesAlone
  <2>2. (\A p : Changed(q, p)' = Changed(q, p)) /\ (Makes(q)' <=> Makes(q))
    BY <1>1, <2>1, ChangedSame
  <2>3. WritesAlone(q, v)'
    BY <1>1, <1>2, <1>5, <2>1, <2>2 DEF WritesAlone
  <2> QED
    BY <2>3, <2>1 DEF Settled, Made
<1>6. CASE Works(v) = {} /\ file[v].text = owed[v]
  BY <1>2, <1>6 DEF Settled
<1> QED
  BY <1>3, <1>4, <1>5, <1>6 DEF Settled

(* Where somebody was writing and somebody else writes now, one is late.    *)
LEMMA Overlapped ==
    ASSUME Types, NEW r \in Made, NEW u, Others(r, u, TRUE), DOMAIN requests' = Made,
           NEW q \in Works(u), q # r
    PROVE  Settled(u)'
<1>1. q \in Made \ {r} /\ requests[q].user = u /\ requests[q].pc = "fill"
  BY DEF Works, At
<1>2. requests'[q].user = u /\ requests'[q].pc = "fill" /\ requests'[q].late
  <2>1. requests[q].late \in BOOLEAN
    BY <1>1, MadeIs DEF RequestType
  <2> QED
    BY <1>1, <2>1 DEF Others
<1>3. (q \in Works(u))'
  BY <1>1, <1>2 DEF Works, At, Made
<1> QED
  BY <1>2, <1>3 DEF Settled

-----------------------------------------------------------------------------
(* The steps, one lemma each.                                               *)

FileType == [User -> [inode : Nat, text : Profile \cup {Absent, Blank, Broken}]]

(* A step of request r keeps the invariant if it does so for its own user.  *)
LEMMA Goes ==
    ASSUME ProfileInv, NEW r \in Made, NEW req \in RequestType, NEW wrote \in BOOLEAN,
           Step(r, req, wrote),
           file' \in FileType, owed' \in [User -> Profile \cup {Absent}],
           firstUser' \in BOOLEAN,
           firstUser' = firstUser \/ requests[r].pc = "clear",
           \A v \in User : v # requests[r].user => file'[v] = file[v] /\ owed'[v] = owed[v],
           \A v \in User : file'[v].inode >= file[v].inode,
           \A v \in User : file'[v].text = file[v].text \/ (wrote /\ v = requests[r].user),
           Existing', unsure \subseteq unsure',
           req.pc = "fill" => req.user = requests[r].user,
           Reading(r)',
           NEW u, u = requests[r].user, u \in User => Settled(u)'
    PROVE  ProfileInv'
<1>1. /\ requests' \in Seq(RequestType) /\ DOMAIN requests' = Made
      /\ requests'[r] = req /\ Others(r, requests[r].user, wrote)
  BY StepIs DEF ProfileInv
<1>2. Types'
  BY <1>1 DEF Types, FileType
<1>3. Somebody'
  <2>0. ASSUME NEW v \in User, file[v].inode > 0
        PROVE  file'[v].inode > 0
    <3>1. /\ file[v].inode \in Nat /\ file'[v].inode \in Nat
          /\ file'[v].inode >= file[v].inode
      BY DEF ProfileInv, Types, FileType
    <3> QED
      BY <2>0, <3>1
  <2>1. CASE requests[r].pc = "clear"
    <3>1. u \in User /\ file[u].inode > 0
      BY <2>1 DEF ProfileInv, Reading
    <3> QED
      BY <3>1, <2>0 DEF Somebody
  <2>2. CASE firstUser' = firstUser
    BY <2>2, <2>0 DEF ProfileInv, Somebody
  <2> QED
    BY <2>1, <2>2
<1>4. ASSUME NEW q \in Made PROVE Reading(q)'
  BY <1>1, <1>2, ReadingStays DEF ProfileInv
<1>5. ASSUME NEW v \in User PROVE Settled(v)'
  <2>1. CASE v = u
    BY <2>1
  <2>2. CASE v # u
    <3>1. r \notin Works(v) /\ r \notin Works(v)'
      BY <1>1, <2>2 DEF Works, At
    <3> QED
      BY <1>1, <2>2, <3>1, SettledStays DEF ProfileInv
  <2> QED
    BY <2>1, <2>2
<1> QED
  BY <1>1, <1>2, <1>3, <1>4, <1>5 DEF ProfileInv, Made

(* And it does, when it leaves the profiles alone and neither was writing   *)
(* nor is.                                                                  *)
LEMMA GoesQuietly ==
    ASSUME ProfileInv, NEW r \in Made, NEW req \in RequestType, Step(r, req, FALSE),
           UNCHANGED <<file, owed, unsure>>, firstUser' \in BOOLEAN,
           firstUser' = firstUser \/ requests[r].pc = "clear",
           requests[r].pc # "fill", req.pc # "fill",
           Reading(r)'
    PROVE  ProfileInv'
<1>1. file \in FileType /\ owed \in [User -> Profile \cup {Absent}]
  BY DEF ProfileInv, Types, FileType
<1>2. \A v \in User : file[v].inode >= file[v].inode
  BY <1>1 DEF FileType
<1>3. Existing'
  BY DEF ProfileInv, Existing
<1>4. PICK u : u = requests[r].user
  OBVIOUS
<1>5. ASSUME u \in User PROVE Settled(u)'
  <2>1. /\ DOMAIN requests' = Made
        /\ requests'[r] = req /\ Others(r, requests[r].user, FALSE)
    BY StepIs DEF ProfileInv
  <2>2. r \notin Works(u) /\ r \notin Works(u)'
    BY <2>1 DEF Works, At
  <2> QED
    BY <2>1, <2>2, <1>4, <1>5, SettledStays DEF ProfileInv
<1> QED
  BY <1>1, <1>2, <1>3, <1>4, <1>5, Goes

LEMMA OverReads ==
    ASSUME NEW r, requests'[r] = Over PROVE Reading(r)'
BY OverIs DEF Reading

LEMMA GoesOver ==
    ASSUME ProfileInv, NEW r \in Made, Step(r, Over, FALSE),
           UNCHANGED <<file, owed, unsure>>, firstUser' \in BOOLEAN,
           firstUser' = firstUser \/ requests[r].pc = "clear",
           requests[r].pc # "fill"
    PROVE  ProfileInv'
<1>1. requests'[r] = Over
  BY OverIs, StepIs DEF ProfileInv
<1> QED
  BY <1>1, OverIs, OverReads, GoesQuietly

LEMMA ReadKeeps ==
    ASSUME ProfileInv, NEW r \in Made, Read(r)
    PROVE  ProfileInv'
<1> DEFINE req  == requests[r]
           text == file[req.user].text
<1>1. /\ req.pc = "read" /\ UNCHANGED <<file, owed, unsure, firstUser>>
      /\ firstUser \in BOOLEAN
  BY DEF Read, At, profiles, ProfileInv, Types
<1>2. req \in RequestType /\ Reading(r) /\ req.user \in User
  BY <1>1, MadeIs DEF ProfileInv, Reading
<1>3. CASE Step(r, Over, FALSE)
  BY <1>1, <1>3, GoesOver
<1>4. CASE req.kind = "register" /\ Step(r, [req EXCEPT !.pc = "exclusive"], FALSE)
  <2> DEFINE next == [req EXCEPT !.pc = "exclusive"]
  <2>1. /\ next \in RequestType /\ next.pc = "exclusive" /\ next.kind = "register"
        /\ next.user \in User
    BY <1>2, <1>4 DEF RequestType, Pc
  <2> HIDE DEF next
  <2>2. requests'[r] = next
    BY <1>4, <2>1, StepIs DEF ProfileInv, next
  <2>3. Reading(r)'
    BY <2>1, <2>2 DEF Reading
  <2> QED
    BY <1>1, <1>4, <2>1, <2>3, GoesQuietly DEF next
<1>5. CASE /\ req.kind = "code"
           /\ Step(r, [req EXCEPT !.pc = "code",
                                  !.user = IF text = Blank THEN Nobody ELSE @], FALSE)
  <2> DEFINE next == [req EXCEPT !.pc = "code", !.user = IF text = Blank THEN Nobody ELSE @]
  <2>1. next \in RequestType /\ next.pc = "code" /\ next.kind = "code"
    BY <1>2, <1>5 DEF RequestType, Pc
  <2>2. Step(r, next, FALSE)
    BY <1>5
  <2> HIDE DEF next
  <2>3. requests'[r] = next
    BY <2>2, <2>1, StepIs DEF ProfileInv
  <2>4. Reading(r)'
    BY <2>1, <2>3 DEF Reading
  <2> QED
    BY <1>1, <2>1, <2>2, <2>4, GoesQuietly
<1>6. CASE /\ text \notin {Absent, Broken, Blank}
           /\ Step(r, [req EXCEPT !.pc = "truncate", !.seen = WithRead(r, text)], FALSE)
  <2> DEFINE next == [req EXCEPT !.pc = "truncate", !.seen = WithRead(r, text)]
  <2>1. text \in Profile
    BY <1>2, <1>6 DEF ProfileInv, Types
  <2>2. WithRead(r, text) \in Profile
    BY <1>2, <2>1, ChangedIs DEF WithRead
  <2>3. /\ next \in RequestType /\ next.pc = "truncate" /\ next.kind = req.kind
        /\ next.arg = req.arg /\ next.user = req.user /\ next.seen = Changed(r, text)
    BY <1>2, <2>2 DEF RequestType, Pc, WithRead
  <2>4. Step(r, next, FALSE)
    BY <1>6
  <2> HIDE DEF next
  <2>5. requests'[r] = next
    BY <2>3, <2>4, StepIs DEF ProfileInv
  <2>6. \A p : Changed(r, p)' = Changed(r, p)
    BY <2>3, <2>5, ChangedSame
  <2>7. Reading(r)'
    <3>1. next.kind = "add" => next.arg \in Integration
      BY <1>2, <2>3 DEF Reading
    <3>2. file'[next.user].text \in Profile
      BY <1>1, <2>1, <2>3
    <3>3. next.seen = Changed(r, file'[next.user].text)
      BY <1>1, <2>3
    <3> QED
      BY <1>2, <2>3, <2>5, <2>6, <3>1, <3>2, <3>3 DEF Reading
  <2> QED
    BY <1>1, <2>3, <2>4, <2>7, GoesQuietly
<1> QED
  BY <1>3, <1>4, <1>5, <1>6 DEF Read

LEMMA ClearKeeps ==
    ASSUME ProfileInv, NEW r \in Made, Clear(r)
    PROVE  ProfileInv'
<1>1. /\ requests[r].pc = "clear" /\ Step(r, Over, FALSE)
      /\ UNCHANGED <<file, owed, unsure>> /\ firstUser' = FALSE
  BY DEF Clear, At
<1> QED
  BY <1>1, GoesOver

LEMMA NewCodeKeeps ==
    ASSUME ProfileInv, NEW r \in Made, NEW c \in Code, NewCode(r, c)
    PROVE  ProfileInv'
<1>1. /\ requests[r].pc = "code" /\ Step(r, Over, FALSE)
      /\ UNCHANGED <<file, owed, unsure, firstUser>>
  BY DEF NewCode, At, profiles
<1> QED
  BY <1>1, GoesOver DEF ProfileInv, Types

LEMMA WriteFailsKeeps ==
    ASSUME ProfileInv, NEW r \in Made, WriteFails(r)
    PROVE  ProfileInv'
<1> DEFINE u == requests[r].user
<1>1. /\ Step(r, Over, TRUE) /\ unsure' = unsure \cup {u}
      /\ UNCHANGED <<file, owed, firstUser>>
  BY DEF WriteFails
<1>2. requests'[r] = Over
  BY <1>1, OverIs, StepIs DEF ProfileInv
<1>3. file \in FileType /\ owed \in [User -> Profile \cup {Absent}] /\ firstUser \in BOOLEAN
  BY DEF ProfileInv, Types, FileType
<1>4. \A v \in User : file[v].inode >= file[v].inode
  BY <1>3 DEF FileType
<1>5. Existing'
  BY <1>1 DEF ProfileInv, Existing
<1>6. PICK w : w = u
  OBVIOUS
<1>7. Settled(w)'
  BY <1>1, <1>6 DEF Settled
<1>8. unsure \subseteq unsure'
  BY <1>1
<1>9. Reading(r)'
  BY <1>2, OverReads
<1> QED
  BY <1>1, <1>3, <1>4, <1>5, <1>6, <1>7, <1>8, <1>9, OverIs, Goes

(* Whoever empties u's profile writes it alone, or a write overlaps.        *)
LEMMA Begins ==
    ASSUME ProfileInv, NEW r \in Made, NEW u \in User, u = requests[r].user,
           requests[r].pc \in {"exclusive", "truncate"},
           NEW n \in Nat, n > 0, n >= file[u].inode,
           Step(r, [requests[r] EXCEPT !.pc = "fill", !.inode = n], TRUE),
           file' = [file EXCEPT ![u] = [inode |-> n, text |-> Blank]],
           UNCHANGED <<owed, firstUser>>, unsure \subseteq unsure',
           \/ Makes(r)
           \/ u \in unsure'
           \/ file[u].text = Absent
           \/ requests[r].seen = Changed(r, file[u].text)
    PROVE  ProfileInv'
<1> DEFINE req  == requests[r]
           next == [req EXCEPT !.pc = "fill", !.inode = n]
<1>1. req \in RequestType /\ Reading(r)
  BY MadeIs DEF ProfileInv
<1>2. /\ next \in RequestType /\ next.pc = "fill" /\ next.kind = req.kind
      /\ next.arg = req.arg /\ next.user = u /\ next.seen = req.seen /\ next.inode = n
  BY <1>1 DEF RequestType, Pc
<1>3. /\ file \in FileType /\ owed \in [User -> Profile \cup {Absent}] /\ firstUser \in BOOLEAN
  BY DEF ProfileInv, Types, FileType
<1>4. file' \in FileType /\ file'[u] = [inode |-> n, text |-> Blank]
      /\ \A v \in User \ {u} : file'[v] = file[v]
  BY <1>3 DEF FileType
<1>5. \A v \in User : file'[v].inode >= file[v].inode
  <2> SUFFICES ASSUME NEW v \in User PROVE file'[v].inode >= file[v].inode
    OBVIOUS
  <2>1. CASE v = u
    BY <1>4, <2>1
  <2>2. CASE v # u
    <3>1. file[v].inode \in Nat
      BY <1>3 DEF FileType
    <3> QED
      BY <1>4, <2>2, <3>1
  <2> QED
    BY <2>1, <2>2
<1>6. Existing'
  BY <1>4 DEF ProfileInv, Existing
<1>7. /\ Step(r, next, TRUE)
      /\ requests' \in Seq(RequestType) /\ DOMAIN requests' = Made
      /\ requests'[r] = next /\ Others(r, u, TRUE)
  BY <1>2, StepIs DEF ProfileInv
<1> HIDE DEF next
<1>8. (\A p : Changed(r, p)' = Changed(r, p)) /\ (Makes(r)' <=> Makes(r))
  BY <1>2, <1>7, ChangedSame
<1>9. Reading(r)'
  BY <1>1, <1>2, <1>4, <1>7 DEF Reading
<1>10. Settled(u)'
  <2>1. CASE \E q \in Works(u) : q # r
    BY <2>1, <1>7, Overlapped DEF ProfileInv
  <2>2. CASE \A q \in Works(u) : q = r
    <3>1. r \notin Works(u)
      BY DEF Works, At
    <3>2. Works(u) = {}
      BY <2>2, <3>1
    <3>3. u \in unsure \/ file[u].text = owed[u]
      BY <3>2 DEF ProfileInv, Settled, WritesAlone
    <3>4. Works(u)' = {r}
      <4>1. r \in Works(u)'
        BY <1>2, <1>7 DEF Works, At, Made
      <4>2. ASSUME NEW q \in Works(u)', q # r PROVE FALSE
        <5>1. q \in Made \ {r} /\ requests'[q].user = u /\ requests'[q].pc = "fill"
          BY <1>7, <4>2 DEF Works, At, Made
        <5>2. q \in Works(u)
          BY <5>1, <1>7 DEF Others, Works, At
        <5> QED
          BY <5>2, <3>2
      <4> QED
        BY <4>1, <4>2
    <3>5. CASE u \in unsure \/ u \in unsure'
      BY <3>5 DEF Settled
    <3>6. CASE /\ file[u].text = owed[u]
               /\ \/ Makes(r)
                  \/ file[u].text = Absent
                  \/ req.seen = Changed(r, file[u].text)
      <4>1. ~Makes(r)' /\ owed'[u] # Absent => requests'[r].seen = Changed(r, owed[u])'
        BY <3>6, <1>2, <1>7, <1>8
      <4>2. WritesAlone(r, u)'
        BY <3>4, <4>1, <1>2, <1>4, <1>7 DEF WritesAlone
      <4> QED
        BY <4>2, <1>7 DEF Settled, Made
    <3> QED
      BY <3>3, <3>5, <3>6
  <2> QED
    BY <2>1, <2>2
<1>11. \A v \in User : file'[v].text = file[v].text \/ v = u
  BY <1>4
<1>12. \A v \in User : v # u => file'[v] = file[v] /\ owed'[v] = owed[v]
  BY <1>4
<1> QED
  BY <1>2, <1>3, <1>4, <1>5, <1>6, <1>7, <1>9, <1>10, <1>11, <1>12, Goes

LEMMA ExclusiveKeeps ==
    ASSUME ProfileInv, NEW r \in Made, Exclusive(r)
    PROVE  ProfileInv'
<1>1. requests[r].pc = "exclusive" /\ UNCHANGED <<firstUser, owed, unsure>>
  BY DEF Exclusive, At
<1>2. PICK u \in User : u = requests[r].user
  BY <1>1 DEF ProfileInv, Reading
<1>3. file[u].inode \in Nat /\ file \in FileType
  BY <1>1, <1>2 DEF ProfileInv, Types, FileType
<1>4. CASE file[u].text = Absent
  <2>1. PICK n \in Nat : n = file[u].inode + 1
    BY <1>3
  <2>2. file' = [file EXCEPT ![u] = [inode |-> n, text |-> Blank]]
    BY <1>2, <1>4, <2>1 DEF Exclusive
  <2>3. file'[u].inode = n
    BY <1>3, <2>2 DEF FileType
  <2>4. Step(r, [requests[r] EXCEPT !.pc = "fill", !.inode = n], TRUE)
    BY <1>2, <1>4, <2>3 DEF Exclusive
  <2>5. n > 0 /\ n >= file[u].inode
    BY <1>3, <2>1
  <2> QED
    BY <1>1, <1>2, <1>4, <2>2, <2>4, <2>5, Begins
<1>5. CASE file[u].text # Absent
  <2>1. Step(r, Over, FALSE) /\ UNCHANGED file
    BY <1>2, <1>5 DEF Exclusive
  <2> QED
    BY <1>1, <2>1, GoesOver DEF ProfileInv, Types
<1> QED
  BY <1>4, <1>5

LEMMA TruncateKeeps ==
    ASSUME ProfileInv, NEW r \in Made, Truncate(r)
    PROVE  ProfileInv'
<1>1. requests[r].pc = "truncate" /\ UNCHANGED <<firstUser, owed>>
  BY DEF Truncate, At
<1>2. PICK u \in User : u = requests[r].user
  BY <1>1 DEF ProfileInv, Reading
<1>3. file[u].inode \in Nat /\ file \in FileType
  BY DEF ProfileInv, Types, FileType
<1>4. PICK n \in Nat : n = IF file[u].text = Absent THEN file[u].inode + 1 ELSE file[u].inode
  BY <1>3
<1>5. file' = [file EXCEPT ![u] = [inode |-> n, text |-> Blank]]
  BY <1>2, <1>3, <1>4 DEF Truncate, FileType
<1>6. file'[u].inode = n
  BY <1>3, <1>5 DEF FileType
<1>7. Step(r, [requests[r] EXCEPT !.pc = "fill", !.inode = n], TRUE)
  BY <1>2, <1>6 DEF Truncate
<1>8. n > 0 /\ n >= file[u].inode
  BY <1>3, <1>4 DEF ProfileInv, Existing
<1>9. unsure \subseteq unsure' /\ (requests[r].late => u \in unsure')
  BY <1>2 DEF Truncate
<1>10. \/ Makes(r)
       \/ u \in unsure'
       \/ requests[r].seen = Changed(r, file[u].text)
  BY <1>1, <1>2, <1>9 DEF ProfileInv, Reading
<1> QED
  BY <1>1, <1>2, <1>5, <1>7, <1>8, <1>9, <1>10, Begins

LEMMA TextIs ==
    ASSUME file \in FileType, NEW u \in User, NEW text,
           file' = [file EXCEPT ![u].text = text]
    PROVE  file' = [file EXCEPT ![u] = [inode |-> file[u].inode, text |-> text]]
<1>1. file[u] \in [inode : Nat, text : Profile \cup {Absent, Blank, Broken}]
  BY DEF FileType
<1>2. [file[u] EXCEPT !.text = text] = [inode |-> file[u].inode, text |-> text]
  BY <1>1
<1>3. file' = [file EXCEPT ![u] = [file[u] EXCEPT !.text = text]]
  OBVIOUS
<1> QED
  BY <1>2, <1>3

LEMMA FillKeeps ==
    ASSUME ProfileInv, NEW r \in Made, Fill(r)
    PROVE  ProfileInv'
<1> DEFINE req  == requests[r]
           next == IF req.kind = "first" THEN [req EXCEPT !.pc = "clear"] ELSE Over
<1>1. req.pc = "fill" /\ req \in RequestType /\ Reading(r) /\ UNCHANGED firstUser
  BY MadeIs DEF Fill, At, ProfileInv
<1>2. PICK u \in User : u = req.user
  BY <1>1 DEF Reading
<1>3. /\ next \in RequestType /\ next.pc # "fill"
      /\ next.pc = "clear" => next.user = u
      /\ next.pc \in {"clear", "over"} /\ next.kind # "add"
  BY <1>1, <1>2, OverIs DEF RequestType, Pc
<1>4. /\ Step(r, next, TRUE)
      /\ requests' \in Seq(RequestType) /\ DOMAIN requests' = Made
      /\ requests'[r] = next /\ Others(r, u, TRUE)
  BY <1>2, <1>3, StepIs DEF ProfileInv, Fill
<1> HIDE DEF next
<1>5. /\ file \in FileType /\ owed \in [User -> Profile \cup {Absent}] /\ firstUser \in BOOLEAN
      /\ req.seen \in Profile
  BY <1>1 DEF ProfileInv, Types, FileType, RequestType
<1>6. /\ unsure' = unsure \cup (IF req.late THEN {u} ELSE {})
      /\ owed' = [owed EXCEPT ![u] = IF Makes(r) \/ @ = Absent THEN req.seen
                                     ELSE Changed(r, @)]
  BY <1>2 DEF Fill, Makes
<1>7. /\ owed'[u] = IF Makes(r) \/ owed[u] = Absent THEN req.seen ELSE Changed(r, owed[u])
      /\ \A v \in User \ {u} : owed'[v] = owed[v]
  BY <1>5, <1>6
<1>8. owed' \in [User -> Profile \cup {Absent}]
  <2>1. owed[u] # Absent => Changed(r, owed[u]) \in Profile
    BY <1>1, <1>5, ChangedIs
  <2> QED
    BY <1>5, <1>6, <2>1
<1>9. /\ file' \in FileType
      /\ file'[u].inode = file[u].inode
      /\ \A v \in User \ {u} : file'[v] = file[v]
      /\ file[u].text = Blank /\ file[u].inode = req.inode => file'[u].text = req.seen
  <2>1. CASE file[u].inode = req.inode /\ file[u].text # Absent
    <3>1. PICK text \in {req.seen} \cup (IF file[u].text = Blank THEN {} ELSE {Broken}) :
             file' = [file EXCEPT ![u].text = text]
      BY <1>2, <2>1 DEF Fill
    <3>2. text \in Profile \cup {Absent, Blank, Broken}
      BY <1>5
    <3>3. file' = [file EXCEPT ![u] = [inode |-> file[u].inode, text |-> text]]
      BY <1>5, <3>1, TextIs
    <3> QED
      BY <1>5, <3>1, <3>2, <3>3 DEF FileType
  <2>2. CASE ~(file[u].inode = req.inode /\ file[u].text # Absent)
    <3>1. file' = file
      BY <1>2, <2>2 DEF Fill
    <3> QED
      BY <1>5, <2>2, <3>1, TextAssumption
  <2> QED
    BY <2>1, <2>2
<1>10. file[u].inode > 0
  BY <1>1, <1>2 DEF Reading
<1>11. Existing'
  BY <1>9, <1>10 DEF ProfileInv, Existing
<1>12. Reading(r)'
  BY <1>3, <1>4, <1>9, <1>10 DEF Reading
<1>13. Settled(u)'
  <2>1. CASE \E q \in Works(u) : q # r
    BY <2>1, <1>4, Overlapped DEF ProfileInv
  <2>2. CASE \A q \in Works(u) : q = r
    <3>1. Works(u) = {r}
      BY <2>2, <1>1, <1>2 DEF Works, At
    <3>2. Works(u)' = {}
      <4> SUFFICES ASSUME NEW q \in Works(u)' PROVE FALSE
        OBVIOUS
      <4>1. q \in Made /\ requests'[q].user = u /\ requests'[q].pc = "fill"
        BY <1>4 DEF Works, At, Made
      <4>2. q # r
        BY <4>1, <1>3, <1>4
      <4>3. q \in Works(u)
        BY <4>1, <4>2, <1>4 DEF Others, Works, At
      <4> QED
        BY <4>2, <4>3, <2>2
    <3>3. CASE u \in unsure \/ req.late
      BY <3>3, <1>6 DEF Settled
    <3>4. CASE u \notin unsure /\ ~req.late
      <4>1. WritesAlone(r, u)
        <5>1. Settled(u)
          BY DEF ProfileInv
        <5> QED
          BY <5>1, <3>1, <3>4 DEF Settled, WritesAlone
      <4>2. file'[u].text = owed'[u]
        BY <4>1, <1>7, <1>9 DEF WritesAlone
      <4> QED
        BY <3>2, <4>2 DEF Settled
    <3> QED
      BY <3>3, <3>4
  <2> QED
    BY <2>1, <2>2
<1>14. \A v \in User : file'[v].inode >= file[v].inode
  <2> SUFFICES ASSUME NEW v \in User PROVE file'[v].inode >= file[v].inode
    OBVIOUS
  <2>1. file'[v].inode = file[v].inode /\ file[v].inode \in Nat
    BY <1>5, <1>9 DEF FileType
  <2> QED
    BY <2>1
<1>15. \A v \in User : v # u => file'[v] = file[v] /\ owed'[v] = owed[v]
  BY <1>7, <1>9
<1>16. unsure \subseteq unsure'
  BY <1>6
<1> QED
  BY <1>1, <1>2, <1>3, <1>4, <1>5, <1>8, <1>9, <1>11, <1>12, <1>13, <1>14, <1>15, <1>16, Goes

(* Removing a user.                                                         *)
LEMMA RemoveUserKeeps ==
    ASSUME ProfileInv, NEW u \in User, RemoveUser(u)
    PROVE  ProfileInv'
<1>1. /\ file' = [file EXCEPT ![u].text = Absent]
      /\ owed' = [owed EXCEPT ![u] = Absent]
      /\ requests' = [q \in Made |-> Outdated(q, u)]
      /\ UNCHANGED <<firstUser, unsure>>
  BY DEF RemoveUser
<1>2. file \in FileType /\ owed \in [User -> Profile \cup {Absent}]
  BY DEF ProfileInv, Types, FileType
<1>3. /\ file' \in FileType
      /\ file'[u] = [inode |-> file[u].inode, text |-> Absent]
      /\ \A v \in User \ {u} : file'[v] = file[v]
  <2>1. file' = [file EXCEPT ![u] = [inode |-> file[u].inode, text |-> Absent]]
    BY <1>1, <1>2, TextIs
  <2> QED
    BY <1>2, <2>1 DEF FileType
<1>4. /\ owed' \in [User -> Profile \cup {Absent}] /\ owed'[u] = Absent
      /\ \A v \in User \ {u} : owed'[v] = owed[v]
  BY <1>1, <1>2
<1>5. ASSUME NEW q \in Made
      PROVE  /\ requests'[q] \in RequestType
             /\ requests'[q].kind = requests[q].kind /\ requests'[q].user = requests[q].user
             /\ requests'[q].arg = requests[q].arg /\ requests'[q].pc = requests[q].pc
             /\ requests'[q].seen = requests[q].seen
             /\ requests'[q].inode = requests[q].inode
             /\ requests'[q].late = (requests[q].late \/
                 (requests[q].user = u /\ requests[q].pc \in {"truncate", "fill"}))
  BY <1>1, MadeIs, OutdatedIs DEF ProfileInv
<1>6. DOMAIN requests' = Made /\ requests' \in Seq(RequestType)
  <2>1. DOMAIN requests' = Made /\ requests' = [q \in Made |-> requests'[q]]
    BY <1>1
  <2> QED
    BY <1>5, <2>1, MadeIs DEF ProfileInv
<1>7. Types'
  BY <1>3, <1>4, <1>6, <1>1 DEF Types, FileType, ProfileInv
<1>8. \A v \in User : file'[v].inode = file[v].inode
  BY <1>3
<1>9. Existing' /\ Somebody'
  <2>1. Existing'
    BY <1>3, <1>8 DEF ProfileInv, Existing
  <2>2. Somebody'
    BY <1>1, <1>8 DEF ProfileInv, Somebody
  <2> QED
    BY <2>1, <2>2
<1>10. ASSUME NEW q \in Made PROVE Reading(q)'
  <2>1. (\A p : Changed(q, p)' = Changed(q, p)) /\ (Makes(q)' <=> Makes(q))
    BY <1>5, ChangedSame
  <2>2. Reading(q) /\ requests[q].late \in BOOLEAN
    BY MadeIs DEF ProfileInv, RequestType
  <2>3. requests[q].pc = "truncate" =>
          \/ Makes(q) \/ requests'[q].late
          \/ /\ file'[requests[q].user].text \in Profile
             /\ requests[q].seen = Changed(q, file'[requests[q].user].text)
    BY <2>2, <1>3, <1>5 DEF Reading
  <2>4. requests[q].pc \in {"fill", "clear"} => file'[requests[q].user].inode > 0
    BY <2>2, <1>8 DEF Reading
  <2> QED
    BY <1>5, <2>1, <2>2, <2>3, <2>4 DEF Reading
<1>11. ASSUME NEW v \in User PROVE Works(v)' = Works(v)
  BY <1>5, <1>6 DEF Works, At, Made
<1>12. ASSUME NEW v \in User PROVE Settled(v)'
  <2>1. CASE v = u
    <3>1. CASE Works(v) = {}
      BY <3>1, <2>1, <1>3, <1>4, <1>11 DEF Settled
    <3>2. CASE Works(v) # {}
      <4>1. PICK q \in Works(v) : TRUE
        BY <3>2
      <4>2. requests'[q].late
        BY <4>1, <1>5, <2>1 DEF Works, At
      <4> QED
        BY <4>1, <4>2, <1>11 DEF Settled
    <3> QED
      BY <3>1, <3>2
  <2>2. CASE v # u
    <3>0. Settled(v)
      BY DEF ProfileInv
    <3>1. ASSUME NEW q \in Works(v), requests[q].late
          PROVE  Settled(v)'
      <4>1. requests'[q].late
        BY <3>1, <1>5 DEF Works
      <4> QED
        BY <3>1, <4>1, <1>11 DEF Settled
    <3>2. ASSUME NEW q \in Made, WritesAlone(q, v)
          PROVE  Settled(v)'
      <4>1. (\A p : Changed(q, p)' = Changed(q, p)) /\ (Makes(q)' <=> Makes(q))
        BY <1>5, ChangedSame
      <4>2. WritesAlone(q, v)'
        BY <3>2, <4>1, <1>3, <1>4, <1>5, <1>11, <2>2 DEF WritesAlone
      <4> QED
        BY <4>2, <1>6 DEF Settled, Made
    <3>3. CASE Works(v) = {} /\ file[v].text = owed[v]
      BY <3>3, <2>2, <1>3, <1>4, <1>11 DEF Settled
    <3> QED
      BY <3>0, <3>1, <3>2, <3>3, <1>1 DEF Settled
  <2> QED
    BY <2>1, <2>2
<1> QED
  BY <1>7, <1>9, <1>10, <1>12, <1>6 DEF ProfileInv, Made

LEMMA StartKeeps ==
    ASSUME ProfileInv, NEW kind, NEW u \in User, NEW arg, NEW pc, NEW seen,
           Start(kind, u, arg, pc, seen),
           Request(kind, u, arg, pc, seen) \in RequestType,
           kind = "add" => arg \in Integration,
           \/ pc = "read"
           \/ pc = "exclusive" /\ kind = "first"
           \/ pc = "truncate" /\ kind = "create"
    PROVE  ProfileInv'
<1> DEFINE new == Request(kind, u, arg, pc, seen)
<1>0. PICK n : n = Len(requests) + 1
  OBVIOUS
<1>1. requests' = Append(requests, new) /\ UNCHANGED <<file, firstUser, owed, unsure>>
  BY DEF Start, StaysFirst
<1>2. new.kind = kind /\ new.user = u /\ new.arg = arg /\ new.pc = pc
  BY DEF Request, Over
<1> HIDE DEF new
<1>3. /\ requests' \in Seq(RequestType)
      /\ DOMAIN requests' = Made \cup {n} /\ n \notin Made
      /\ requests'[n] = new
      /\ \A q \in Made : requests'[q] = requests[q]
  <2>1. requests \in Seq(RequestType)
    BY DEF ProfileInv, Types
  <2> QED
    BY <1>0, <1>1, <2>1 DEF Made, new
<1>4. Types' /\ Existing' /\ Somebody'
  BY <1>1, <1>3 DEF ProfileInv, Types, Existing, Somebody
<1>5. ASSUME NEW q \in Made PROVE Reading(q)'
  <2>1. (\A p : Changed(q, p)' = Changed(q, p)) /\ (Makes(q)' <=> Makes(q))
    BY <1>3, ChangedSame
  <2> QED
    BY <1>1, <1>3, <2>1 DEF ProfileInv, Reading
<1>6. Reading(n)'
  BY <1>2, <1>3 DEF Reading, Makes
<1>7. ASSUME NEW v \in User PROVE Settled(v)'
  <2>1. Works(v)' = Works(v)
    BY <1>2, <1>3 DEF Works, At, Made
  <2>2. ASSUME NEW q \in Works(v), requests[q].late PROVE Settled(v)'
    <3>1. requests'[q].late
      BY <2>2, <1>3 DEF Works
    <3> QED
      BY <2>1, <2>2, <3>1 DEF Settled
  <2>3. ASSUME NEW q \in Made, WritesAlone(q, v) PROVE Settled(v)'
    <3>1. (\A p : Changed(q, p)' = Changed(q, p)) /\ (Makes(q)' <=> Makes(q))
      BY <1>3, ChangedSame
    <3>2. WritesAlone(q, v)'
      BY <1>1, <1>3, <2>1, <2>3, <3>1 DEF WritesAlone
    <3> QED
      BY <1>3, <3>2 DEF Settled, Made
  <2>4. CASE v \in unsure \/ (Works(v) = {} /\ file[v].text = owed[v])
    BY <2>4, <2>1, <1>1 DEF Settled
  <2> QED
    BY <2>2, <2>3, <2>4 DEF ProfileInv, Settled
<1>8. ASSUME NEW q \in DOMAIN requests' PROVE Reading(q)'
  BY <1>3, <1>5, <1>6
<1> QED
  BY <1>4, <1>7, <1>8 DEF ProfileInv, Made

LEMMA RestartKeeps == ASSUME ProfileInv, Restart PROVE ProfileInv'
<1>1. /\ unsure' = unsure \cup {requests[r].user : r \in {q \in Made : At(q, "fill")}}
      /\ requests' = [r \in Made |-> Over]
      /\ firstUser' = \A u \in User : file[u].text \in {Absent, Broken}
      /\ UNCHANGED <<file, owed>>
  BY DEF Restart
<1>2. requests' \in Seq(RequestType) /\ DOMAIN requests' = Made
  <2>1. Made = 1..Len(requests) /\ Len(requests) \in Nat
    BY MadeIs DEF ProfileInv
  <2> QED
    BY <1>1, <2>1, OverIs
<1>3. firstUser' \in BOOLEAN
  BY <1>1
<1>4. Types' /\ Existing'
  BY <1>1, <1>2, <1>3 DEF ProfileInv, Types, Existing
<1>5. Somebody'
  BY <1>1 DEF ProfileInv, Existing, Somebody
<1>6. ASSUME NEW q \in DOMAIN requests' PROVE Reading(q)'
  <2>1. requests'[q] = Over
    BY <1>1, <1>2, <1>6
  <2> QED
    BY <2>1, OverReads
<1>7. ASSUME NEW v \in User PROVE Settled(v)'
  <2>1. Works(v)' = {}
    <3> SUFFICES ASSUME NEW q \in Works(v)' PROVE FALSE
      OBVIOUS
    <3>1. q \in Made /\ requests'[q].pc = "fill"
      BY <1>2 DEF Works, At, Made
    <3> QED
      BY <3>1, <1>1, OverIs
  <2>2. CASE Works(v) # {}
    <3>1. v \in unsure'
      BY <2>2, <1>1 DEF Works
    <3> QED
      BY <3>1 DEF Settled
  <2>3. CASE Works(v) = {}
    <3>1. v \in unsure \/ file[v].text = owed[v]
      BY <2>3 DEF ProfileInv, Settled, WritesAlone
    <3> QED
      BY <2>1, <3>1, <1>1 DEF Settled
  <2> QED
    BY <2>2, <2>3
<1> QED
  BY <1>4, <1>5, <1>6, <1>7 DEF ProfileInv, Made

LEMMA NothingHappens ==
    ASSUME ProfileInv, UNCHANGED <<file, firstUser, owed, unsure, requests>>
    PROVE  ProfileInv'
<1>1. Types' /\ Existing' /\ Somebody'
  BY DEF ProfileInv, Types, Existing, Somebody
<1>2. ASSUME NEW q \in Made PROVE Reading(q)'
  <2>1. (\A p : Changed(q, p)' = Changed(q, p)) /\ (Makes(q)' <=> Makes(q))
    BY ChangedSame
  <2> QED
    BY <2>1 DEF ProfileInv, Reading
<1>3. ASSUME NEW v \in User PROVE Settled(v)'
  <2>1. Works(v)' = Works(v)
    BY DEF Works, At, Made
  <2>2. ASSUME NEW q \in Made, WritesAlone(q, v) PROVE WritesAlone(q, v)'
    <3>1. (\A p : Changed(q, p)' = Changed(q, p)) /\ (Makes(q)' <=> Makes(q))
      BY ChangedSame
    <3> QED
      BY <2>1, <2>2, <3>1 DEF WritesAlone
  <2> QED
    BY <2>1, <2>2 DEF ProfileInv, Settled, Made
<1> QED
  BY <1>1, <1>2, <1>3 DEF ProfileInv, Made

LEMMA InitProfiles == Init => ProfileInv
<1> SUFFICES ASSUME Init PROVE ProfileInv
  OBVIOUS
<1>1. /\ owed \in [User -> Profile \cup {Absent}]
      /\ file = [u \in User |-> IF owed[u] = Absent THEN NoFile
                                ELSE [inode |-> 1, text |-> owed[u]]]
      /\ firstUser = \A u \in User : owed[u] = Absent
      /\ requests = <<>>
  BY BeforesAssumption DEF Init
<1>2. Made = {}
  BY <1>1 DEF Made
<1>3. Types
  BY <1>1 DEF Types, NoFile
<1>4. \A u \in User : file[u].text = owed[u] /\ (owed[u] # Absent => file[u].inode > 0)
  BY <1>1 DEF NoFile
<1>5. Existing /\ Somebody
  BY <1>1, <1>4 DEF Existing, Somebody
<1>6. \A u \in User : Settled(u)
  BY <1>2, <1>4 DEF Settled, Works
<1> QED
  BY <1>2, <1>3, <1>5, <1>6 DEF ProfileInv

-----------------------------------------------------------------------------
(* The theorems about profiles.                                             *)

LEMMA AccountKeepsProfiles ==
    ASSUME ProfileInv, NEW u \in User, Account(u)
    PROVE  ProfileInv'
<1>1. NewUser(TRUE) \in Profile /\ NewUser(FALSE) \in Profile
  BY DEF NewUser, Profile
<1>2. ASSUME NEW kind \in Kind, NEW arg \in Integration \cup {Nobody}, NEW pc \in Pc,
             NEW seen \in Profile
      PROVE  Request(kind, u, arg, pc, seen) \in RequestType
  BY OverIs DEF Request, RequestType
<1>3. ASSUME NEW kind \in Kind \ {"add"}, Change(kind, u, Nobody) PROVE ProfileInv'
  <2>1. Start(kind, u, Nobody, "read", NewUser(FALSE))
    BY <1>3 DEF Change
  <2>2. Request(kind, u, Nobody, "read", NewUser(FALSE)) \in RequestType
    BY <1>1, <1>2 DEF Pc
  <2> QED
    BY <2>1, <2>2, StartKeeps
<1>4. CASE FirstLogin(u)
  <2>1. Start("first", u, Nobody, "exclusive", NewUser(TRUE))
    BY <1>4 DEF FirstLogin
  <2>2. Request("first", u, Nobody, "exclusive", NewUser(TRUE)) \in RequestType
    BY <1>1, <1>2 DEF Pc, Kind
  <2> QED
    BY <2>1, <2>2, StartKeeps
<1>5. CASE Register(u)
  <2>1. Start("register", u, Nobody, "read", NewUser(FALSE))
    BY <1>5 DEF Register
  <2>2. Request("register", u, Nobody, "read", NewUser(FALSE)) \in RequestType
    BY <1>1, <1>2 DEF Pc, Kind
  <2> QED
    BY <2>1, <2>2, StartKeeps
<1>6. CASE CreateUser(u)
  <2>1. Start("create", u, Nobody, "truncate", NewUser(FALSE))
    BY <1>6 DEF CreateUser
  <2>2. Request("create", u, Nobody, "truncate", NewUser(FALSE)) \in RequestType
    BY <1>1, <1>2 DEF Pc, Kind
  <2> QED
    BY <2>1, <2>2, StartKeeps
<1>7. CASE ChangePassword(u) \/ AskForCode(u)
  BY <1>3, <1>7 DEF ChangePassword, AskForCode, Kind
<1>8. ASSUME NEW i \in Integration, CreateIntegration(u, i) \/ DeleteIntegration(u, i)
      PROVE  ProfileInv'
  <2>1. PICK kind \in {"add", "drop"} : Start(kind, u, i, "read", NewUser(FALSE))
    BY <1>8 DEF CreateIntegration, DeleteIntegration, Change
  <2>2. Request(kind, u, i, "read", NewUser(FALSE)) \in RequestType
    BY <1>1, <1>2 DEF Pc, Kind
  <2> QED
    BY <2>1, <2>2, StartKeeps
<1>9. CASE Login(u)
  BY <1>9, NothingHappens DEF Login
<1>10. CASE RemoveUser(u)
  BY <1>10, RemoveUserKeeps
<1> QED
  BY <1>4, <1>5, <1>6, <1>7, <1>8, <1>9, <1>10 DEF Account

LEMMA ProfileSteps == ASSUME ProfileInv, [Next]_vars PROVE ProfileInv'
<1>1. CASE UNCHANGED vars
  BY <1>1, NothingHappens DEF vars, profiles
<1>2. ASSUME NEW u \in User, Account(u) PROVE ProfileInv'
  BY <1>2, AccountKeepsProfiles
<1>3. ASSUME NEW r \in Made, Handle(r) PROVE ProfileInv'
  BY <1>3, ReadKeeps, ExclusiveKeeps, TruncateKeeps, FillKeeps, WriteFailsKeeps,
     ClearKeeps, NewCodeKeeps DEF Handle
<1>4. ASSUME NEW c \in Code, Pair(c) \/ Expire(c) PROVE ProfileInv'
  BY <1>4, NothingHappens DEF Pair, Expire, profiles
<1>5. CASE Resets
  BY <1>5, NothingHappens DEF Resets, Ask, Create, Poll, Show, Approve, Dismiss,
              ResetExpires, profiles
<1>6. CASE Restart
  BY <1>6, RestartKeeps
<1> QED
  BY <1>1, <1>2, <1>3, <1>4, <1>5, <1>6 DEF Next, Act

(* The profiles keep their types, a request that is about to write or       *)
(* writes has read what is there or is late, and of each user's profile     *)
(* either one write is under way, which will leave what is owed, or none    *)
(* is and it has what is owed, or two overlap or did (GetUser, UpdateUser,  *)
(* RegisterUser, RemoveUser).                                               *)
THEOREM ProfilesInOrder == Spec => []ProfileInv
BY InitProfiles, ProfileSteps, PTL DEF Spec

(* Only an admin who makes a user once more takes away what was changed.    *)
Lasting ==
    /\ lasting \in [User -> Profile \cup {Absent}]
    /\ \A u \in User : u \in replaced \/ lasting[u] = owed[u]

changes == <<owed, lasting, replaced>>

LEMMA AccountKeepsChanges ==
    ASSUME Types, Lasting, NEW u \in User, Account(u)
    PROVE  Lasting'
<1>1. ASSUME NEW kind, NEW arg, NEW pc, NEW seen, Start(kind, u, arg, pc, seen)
      PROVE  UNCHANGED changes
  BY <1>1 DEF Start, changes
<1>2. ASSUME NEW kind, NEW arg, Change(kind, u, arg)
      PROVE  UNCHANGED changes
  BY <1>1, <1>2 DEF Change
<1>3. CASE FirstLogin(u) \/ Register(u) \/ CreateUser(u)
  <2>1. UNCHANGED changes
    BY <1>1, <1>3 DEF FirstLogin, Register, CreateUser
  <2> QED
    BY <2>1 DEF Lasting, changes
<1>4. CASE ChangePassword(u) \/ AskForCode(u)
  <2>1. UNCHANGED changes
    BY <1>2, <1>4 DEF ChangePassword, AskForCode
  <2> QED
    BY <2>1 DEF Lasting, changes
<1>5. ASSUME NEW i \in Integration, CreateIntegration(u, i) \/ DeleteIntegration(u, i)
      PROVE  Lasting'
  <2>1. UNCHANGED changes
    BY <1>2, <1>5 DEF CreateIntegration, DeleteIntegration
  <2> QED
    BY <2>1 DEF Lasting, changes
<1>6. CASE Login(u)
  BY <1>6 DEF Login, Lasting
<1>7. CASE RemoveUser(u)
  BY <1>7 DEF RemoveUser, Lasting, Types
<1> QED
  BY <1>3, <1>4, <1>5, <1>6, <1>7 DEF Account

LEMMA FillKeepsChanges ==
    ASSUME ProfileInv, Lasting, NEW r \in Made, Fill(r)
    PROVE  Lasting'
<1> DEFINE req == requests[r]
<1>1. req \in RequestType /\ Reading(r) /\ req.pc = "fill" /\ req.seen \in Profile
  BY MadeIs DEF Fill, At, ProfileInv, RequestType
<1>2. PICK u \in User : u = req.user
  BY <1>1 DEF Reading
<1>3. /\ owed \in [User -> Profile \cup {Absent}]
      /\ lasting \in [User -> Profile \cup {Absent}]
  BY DEF ProfileInv, Types, Lasting
<1>4. /\ owed' = [owed EXCEPT ![u] = IF Makes(r) \/ owed[u] = Absent THEN req.seen
                                     ELSE Changed(r, owed[u])]
      /\ lasting' = [lasting EXCEPT ![u] = IF lasting[u] = Absent THEN req.seen
                                           ELSE Changed(r, lasting[u])]
      /\ replaced' = replaced \cup
             (IF Makes(r) /\ owed[u] \notin {Absent, req.seen} THEN {u} ELSE {})
  BY <1>2, <1>3 DEF Fill, Makes
<1>5. \A profile \in Profile : Changed(r, profile) \in Profile
  BY <1>1, ChangedIs
<1>6. Makes(r) => \A profile : Changed(r, profile) = profile
  BY DEF Makes, Changed
<1>7. lasting' \in [User -> Profile \cup {Absent}]
  BY <1>1, <1>3, <1>4, <1>5
<1>8. ASSUME NEW v \in User, v \notin replaced' PROVE lasting'[v] = owed'[v]
  <2>1. v \notin replaced /\ lasting[v] = owed[v]
    BY <1>4, <1>8 DEF Lasting
  <2>2. CASE v # u
    BY <1>3, <1>4, <2>1, <2>2
  <2>3. CASE v = u
    <3>1. Makes(r) => owed[u] \in {Absent, req.seen}
      BY <1>4, <1>8, <2>3
    <3>2. /\ owed'[u] = IF Makes(r) \/ owed[u] = Absent THEN req.seen ELSE Changed(r, owed[u])
          /\ lasting'[u] = IF owed[u] = Absent THEN req.seen ELSE Changed(r, owed[u])
      BY <1>3, <1>4, <2>1, <2>3
    <3> QED
      BY <1>6, <2>3, <3>1, <3>2
  <2> QED
    BY <2>2, <2>3
<1> QED
  BY <1>7, <1>8 DEF Lasting

LEMMA LastingSteps == ASSUME ProfileInv, Lasting, [Next]_vars PROVE Lasting'
<1>0. (UNCHANGED changes) => Lasting'
  BY DEF Lasting, changes
<1>1. CASE UNCHANGED vars
  BY <1>0, <1>1 DEF vars, profiles, changes
<1>2. ASSUME NEW u \in User, Account(u) PROVE Lasting'
  BY <1>2, AccountKeepsChanges DEF ProfileInv
<1>3. ASSUME NEW r \in Made, Handle(r) PROVE Lasting'
  <2>1. CASE Fill(r)
    BY <2>1, FillKeepsChanges
  <2>2. CASE Read(r) \/ Exclusive(r) \/ Truncate(r)
    BY <1>0, <2>2 DEF Read, Exclusive, Truncate, profiles, changes
  <2>3. CASE WriteFails(r) \/ Clear(r) \/ \E c \in Code : NewCode(r, c)
    BY <1>0, <2>3 DEF WriteFails, Clear, NewCode, profiles, changes
  <2> QED
    BY <1>3, <2>1, <2>2, <2>3 DEF Handle
<1>4. ASSUME NEW c \in Code, Pair(c) \/ Expire(c) PROVE Lasting'
  BY <1>0, <1>4 DEF Pair, Expire, profiles, changes
<1>5. CASE Resets
  BY <1>0, <1>5 DEF Resets, Ask, Create, Poll, Show, Approve, Dismiss, ResetExpires,
                    profiles, changes
<1>6. CASE Restart
  BY <1>0, <1>6 DEF Restart, changes
<1> QED
  BY <1>1, <1>2, <1>3, <1>4, <1>5, <1>6 DEF Next, Act

(* What one request has changed is lost only to a request that had read the *)
(* profile before, to a write that was cut short, or to an admin who made   *)
(* the user once more (UpdateUser, createUser).                             *)
THEOREM ChangesAreKept == Spec => []LostForAReason
<1>1. Init => Lasting
  BY BeforesAssumption DEF Init, Lasting
<1>2. ProfileInv /\ Lasting => LostForAReason
  <2> SUFFICES ASSUME ProfileInv, Lasting, NEW u \in User
               PROVE  \/ u \in unsure
                      \/ Writing(u)
                      \/ file[u].text = owed[u] /\ (u \in replaced \/ file[u].text = lasting[u])
    BY DEF LostForAReason
  <2>1. Settled(u) /\ (u \in replaced \/ lasting[u] = owed[u])
    BY DEF ProfileInv, Lasting
  <2>2. Works(u) # {} => Writing(u)
    BY DEF Works, Writing
  <2> QED
    BY <2>1, <2>2 DEF Settled, WritesAlone
<1> QED
  BY ProfilesInOrder, <1>1, <1>2, LastingSteps, PTL DEF Spec

(* As long as no write was cut short or overlapped another, there is a user *)
(* who can log in, or the next login makes one (login, CreateFirstUser).    *)
THEOREM NobodyLockedOut == Spec => []NotLockedOut
<1>1. ProfileInv => NotLockedOut
  <2> SUFFICES ASSUME ProfileInv, ~firstUser, unsure = {}
               PROVE  \E u \in User : /\ file[u].inode > 0
                                      /\ file[u].text \in Profile \cup {Absent} \/ Writing(u)
    BY DEF NotLockedOut
  <2>1. PICK u \in User : file[u].inode > 0
    BY DEF ProfileInv, Somebody
  <2>2. Works(u) # {} => Writing(u)
    BY DEF Works, Writing
  <2>3. Writing(u) \/ file[u].text = owed[u]
    BY <2>2 DEF ProfileInv, Settled, WritesAlone
  <2>4. owed[u] \in Profile \cup {Absent}
    BY DEF ProfileInv, Types
  <2> QED
    BY <2>1, <2>3, <2>4
<1> QED
  BY ProfilesInOrder, <1>1, PTL

-----------------------------------------------------------------------------
(* The values that the invariants of codes and of profiles do not name.     *)
Values ==
    /\ timers \subseteq Code /\ used \subseteq Code
    /\ reset \in {"none", "pending", "approved"}
    /\ admins \subseteq User

LEMMA AdminsAreUsers == ASSUME [Next]_vars PROVE admins' \subseteq admins \cup User
<1>1. CASE UNCHANGED vars
  BY <1>1 DEF vars, profiles
<1>2. ASSUME NEW u \in User, Account(u) PROVE admins' \subseteq admins \cup User
  <2>1. CASE Login(u)
    BY <2>1 DEF Login
  <2>2. ASSUME NEW kind, NEW arg, NEW pc, NEW seen, Start(kind, u, arg, pc, seen)
        PROVE  admins' = admins
    BY <2>2 DEF Start
  <2>3. CASE FirstLogin(u) \/ Register(u) \/ CreateUser(u)
    BY <2>2, <2>3 DEF FirstLogin, Register, CreateUser
  <2>4. CASE ChangePassword(u) \/ AskForCode(u)
    BY <2>2, <2>4 DEF ChangePassword, AskForCode, Change
  <2>5. ASSUME NEW i \in Integration, CreateIntegration(u, i) \/ DeleteIntegration(u, i)
        PROVE  admins' = admins
    BY <2>2, <2>5 DEF CreateIntegration, DeleteIntegration, Change
  <2>6. CASE RemoveUser(u)
    BY <2>6 DEF RemoveUser
  <2> QED
    BY <1>2, <2>1, <2>3, <2>4, <2>5, <2>6 DEF Account
<1>3. ASSUME NEW r \in Made, Handle(r) PROVE admins' = admins
  BY <1>3 DEF Handle, Read, Exclusive, Truncate, Fill, WriteFails, Clear, NewCode, profiles
<1>4. ASSUME NEW c \in Code, Pair(c) \/ Expire(c) PROVE admins' = admins
  BY <1>4 DEF Pair, Expire, profiles
<1>5. CASE Resets
  BY <1>5 DEF Resets, Ask, Create, Poll, Show, Approve, Dismiss, ResetExpires, profiles
<1>6. CASE Restart
  BY <1>6 DEF Restart
<1> QED
  BY <1>1, <1>2, <1>3, <1>4, <1>5, <1>6 DEF Next, Act

LEMMA ValueSteps == ASSUME Values, [Next]_vars PROVE Values'
<1>1. timers' \subseteq Code /\ used' \subseteq Code
  BY StepCases DEF Values, CodeStep, CodesStay, codes, NewCode, Pair, Expire, Restart
<1>2. reset' \in {"none", "pending", "approved"}
  BY StepCases DEF Values, ResetStep, resets, Resets, Ask, Create, Created, Poll, Show, Approve,
                   Dismiss, ResetExpires, Restart
<1>3. admins' \subseteq User
  BY AdminsAreUsers DEF Values
<1> QED
  BY <1>1, <1>2, <1>3 DEF Values

(* Profiles, codes, tokens and the store of passcode resets keep their      *)
(* types.                                                                   *)
THEOREM TypeCorrect == Spec => []TypeOK
<1>1. Init => Values
  BY DEF Init, Values
<1>2. Inv /\ ProfileInv /\ Values => TypeOK
  BY DEF Inv, ProfileInv, Values, TypeOK, Types, DrawnCodes
<1> QED
  BY <1>1, <1>2, ValueSteps, Invariant, ProfilesInOrder, PTL DEF Spec
=============================================================================
