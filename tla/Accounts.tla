------------------------------- MODULE Accounts -------------------------------
(***************************************************************************)
(* The accounts of a server: the profile files (fs/userstorage.go) and the *)
(* requests that change them (ui/handlers.go), the first login, the codes  *)
(* that pair a device (codeconnector.go) and the resets of a passcode      *)
(* (passcode.go, passcodestore) with the panel that shows them.            *)
(*                                                                         *)
(* A request reads the profile, changes it in memory and writes all of it, *)
(* without a lock: the write first empties the file and then fills it.  A  *)
(* profile has a list of integrations and whether the user is an admin;    *)
(* passwords and addresses are left out, the requests that change them     *)
(* write the rest back as they read it.                                    *)
(*                                                                         *)
(* Requests are carried out by a server that may be restarted, and a write *)
(* may fail.  Codes and resets are kept in memory only.                    *)
(***************************************************************************)
EXTENDS Integers, Sequences, FiniteSets, Functions

CONSTANTS User,
          Nobody,       \* the user of a profile that was read while it was empty
          Code,
          Integration,
          Absent, Blank, Broken, \* what may be in place of a profile
          Befores,      \* the profiles there may be at first
          Limits        \* bounds, of which a behaviour keeps one: the requests that
                        \* read or write a profile, the writes that fail and
                        \* restarts, and the times a tablet asks for a reset

ASSUME NameAssumption == Nobody \notin User \cup Code
ASSUME BoundAssumption == Limits \subseteq [requests : Nat, faults : Nat, asks : Nat]

VARIABLES
    file,      \* what each profile file holds, and which file it is
    firstUser, \* cfg.CreateFirstUser
    requests,
    admins,    \* users with an admin's token
    dict,      \* the user of each code
    uids,      \* the code of each user
    timers,    \* codes whose time has not run out
    used,      \* codes that have paired a device
    reset,     \* the tablet's request in the store, if there is one
    panel,     \* what the panel shows and which of its polls are under way
    consent,   \* whether the user has approved the request that is in the store
    asks,      \* times the tablet has sent its request, and is still sending it
    faults,
    limit,     \* the bounds of this behaviour
    owed,      \* the profiles, had all changes been made one after the other
    lasting,   \* the same, had no user been made who was there already
    replaced,  \* users who were, with what they had changed
    unsure     \* users whose profile was written by two at once, or not to its end

profiles == <<file, firstUser, admins, owed, lasting, replaced, unsure>>
codes    == <<dict, uids, timers, used>>
resets   == <<reset, panel, consent, asks>>
vars     == <<profiles, codes, resets, requests, faults, limit>>

-----------------------------------------------------------------------------
NewUser(admin) == [admin |-> admin, list |-> {}]

Profile == [admin : BOOLEAN, list : SUBSET Integration]

(* What stands in place of a profile is none, and a server starts with      *)
(* profiles that it can read.                                               *)
ASSUME TextAssumption ==
    /\ {Absent, Blank, Broken} \cap Profile = {}
    /\ Absent # Blank /\ Absent # Broken /\ Blank # Broken
ASSUME BeforesAssumption == Befores \subseteq [User -> Profile \cup {Absent}]

NoFile == [inode |-> 0, text |-> Absent]

Over == [kind |-> "over", user |-> Nobody, arg |-> Nobody, pc |-> "over",
         seen |-> NewUser(FALSE), inode |-> 0, late |-> FALSE]

Request(kind, u, arg, pc, seen) ==
    [Over EXCEPT !.kind = kind, !.user = u, !.arg = arg, !.pc = pc, !.seen = seen]

Made == DOMAIN requests

At(r, pc) == requests[r].pc = pc

(* A request to which u's profile has changed since it was read.            *)
Outdated(q, u) ==
    [requests[q] EXCEPT !.late = \/ requests[q].late
                                 \/ requests[q].user = u /\ requests[q].pc \in {"truncate", "fill"}]

(* The request goes on, and has written the profile or not.                 *)
Step(r, req, wrote) ==
    requests' = [q \in Made |-> IF q = r THEN req
                               ELSE IF wrote THEN Outdated(q, requests[r].user) ELSE requests[q]]

(* What request r does to a profile.                                        *)
Changed(r, profile) ==
    CASE requests[r].kind = "add"  -> [profile EXCEPT !.list = @ \cup {requests[r].arg}]
      [] requests[r].kind = "drop" -> [profile EXCEPT !.list = @ \ {requests[r].arg}]
      [] OTHER -> profile

(* Mutant: the change is made to an empty list.                             *)
ChangesEmpty(r, profile) ==
    CASE requests[r].kind = "add" -> [profile EXCEPT !.list = {requests[r].arg}]
      [] OTHER -> Changed(r, profile)

(* The profile that was read, with the change made to it.                   *)
WithRead(r, profile) == Changed(r, profile)

Init ==
    /\ owed \in Befores
    /\ file = [u \in User |-> IF owed[u] = Absent THEN NoFile
                             ELSE [inode |-> 1, text |-> owed[u]]]
    /\ lasting = owed /\ replaced = {}
    /\ firstUser = \A u \in User : owed[u] = Absent
    /\ requests = <<>> /\ admins = {}
    /\ dict = <<>> /\ uids = <<>> /\ timers = {} /\ used = {}
    /\ reset = "none" /\ consent = FALSE
    /\ panel = [shows |-> FALSE, polls |-> {}]
    /\ asks = [sent |-> 0, underway |-> 0]
    /\ faults = 0
    /\ limit \in Limits
    /\ unsure = {}

-----------------------------------------------------------------------------
(* Profiles.                                                                *)

(* Mutant: nobody is first any more as soon as somebody is about to be.     *)
ClearsAtOnce(kind) == kind # "first" /\ firstUser

StaysFirst(kind) == firstUser

Start(kind, u, arg, pc, seen) ==
    /\ Len(requests) < limit.requests
    /\ requests' = Append(requests, Request(kind, u, arg, pc, seen))
    /\ firstUser' = StaysFirst(kind)
    /\ UNCHANGED <<file, admins, owed, lasting, replaced, unsure, codes, resets, faults>>

(* login, while there is no user, makes one.                                *)
FirstLogin(u) == firstUser /\ Start("first", u, Nobody, "exclusive", NewUser(TRUE))

Register(u) == Start("register", u, Nobody, "read", NewUser(FALSE))

(* An admin makes a user, whether there is one of that name or not: the     *)
(* profile is not read, and one that is there is replaced.                  *)
CreateUser(u) == admins # {} /\ Start("create", u, Nobody, "truncate", NewUser(FALSE))

(* What a user does with a token, which may be older than the removal of    *)
(* the user, and an admin does to another user.                             *)
Change(kind, u, arg) == file[u].inode > 0 /\ Start(kind, u, arg, "read", NewUser(FALSE))

ChangePassword(u) == Change("password", u, Nobody)

CreateIntegration(u, i) == Change("add", u, i)

DeleteIntegration(u, i) == Change("drop", u, i)

AskForCode(u) == Change("code", u, Nobody)

(* GetUser.  An empty file is read as a user without a name, whom UpdateUser *)
(* refuses.                                                                 *)
Read(r) ==
    LET req  == requests[r]
        text == file[req.user].text
        to(pc) == Step(r, [req EXCEPT !.pc = pc], FALSE)
        stop   == Step(r, Over, FALSE)
    IN  /\ At(r, "read")
        /\ CASE req.kind = "register" ->
                  IF text \in {Absent, Broken} THEN to("exclusive") ELSE stop
             [] text \in {Absent, Broken} -> stop
             [] req.kind = "code" ->
                  Step(r, [req EXCEPT !.pc = "code",
                                      !.user = IF text = Blank THEN Nobody ELSE @], FALSE)
             [] text = Blank -> stop
             [] req.kind = "drop" /\ req.arg \notin text.list -> stop
             [] OTHER -> Step(r, [req EXCEPT !.pc = "truncate",
                                             !.seen = WithRead(r, text)], FALSE)
        /\ UNCHANGED <<profiles, codes, resets, faults>>

(* RegisterUser: the file must not be there.                                *)
Exclusive(r) ==
    LET req == requests[r] IN
    /\ At(r, "exclusive")
    /\ IF file[req.user].text = Absent
       THEN /\ file' = [file EXCEPT ![req.user] = [inode |-> @.inode + 1, text |-> Blank]]
            /\ Step(r, [req EXCEPT !.pc = "fill", !.inode = file'[req.user].inode], TRUE)
       ELSE Step(r, Over, FALSE) /\ UNCHANGED file
    /\ UNCHANGED <<firstUser, admins, owed, lasting, replaced, unsure, codes, resets, faults>>

(* UpdateUser: the file is emptied, or made.                                *)
Truncate(r) ==
    LET req == requests[r] IN
    /\ At(r, "truncate")
    /\ file' = [file EXCEPT ![req.user] =
                   [inode |-> IF @.text = Absent THEN @.inode + 1 ELSE @.inode, text |-> Blank]]
    /\ Step(r, [req EXCEPT !.pc = "fill", !.inode = file'[req.user].inode], TRUE)
    /\ unsure' = unsure \cup (IF req.late THEN {req.user} ELSE {})
    /\ UNCHANGED <<firstUser, admins, owed, lasting, replaced, codes, resets, faults>>

(* The file is filled, unless it was removed meanwhile.  Whoever fills a    *)
(* file that is no longer empty may leave the end of what was there.        *)
Fill(r) ==
    LET req  == requests[r]
        old  == file[req.user]
        over == req.kind = "create"
    IN  /\ At(r, "fill")
        /\ IF old.inode = req.inode /\ old.text # Absent
           THEN \E text \in {req.seen} \cup (IF old.text = Blank THEN {} ELSE {Broken}) :
                   file' = [file EXCEPT ![req.user].text = text]
           ELSE UNCHANGED file
        /\ unsure' = unsure \cup (IF req.late THEN {req.user} ELSE {})
        /\ owed' = [owed EXCEPT ![req.user] = IF over \/ @ = Absent THEN req.seen
                                              ELSE Changed(r, @)]
        /\ lasting' = [lasting EXCEPT ![req.user] = IF @ = Absent THEN req.seen
                                                    ELSE Changed(r, @)]
        /\ replaced' = replaced \cup
               (IF over /\ owed[req.user] \notin {Absent, req.seen} THEN {req.user} ELSE {})
        /\ Step(r, IF req.kind = "first" THEN [req EXCEPT !.pc = "clear"] ELSE Over, TRUE)
        /\ UNCHANGED <<firstUser, admins, codes, resets, faults>>

WriteFails(r) ==
    /\ At(r, "fill")
    /\ faults < limit.faults /\ faults' = faults + 1
    /\ Step(r, Over, TRUE)
    /\ unsure' = unsure \cup {requests[r].user}
    /\ UNCHANGED <<file, firstUser, admins, owed, lasting, replaced, codes, resets>>

Clear(r) ==
    /\ At(r, "clear")
    /\ firstUser' = FALSE
    /\ Step(r, Over, FALSE)
    /\ UNCHANGED <<file, admins, owed, lasting, replaced, unsure, codes, resets, faults>>

(* A token names its user an admin for a day, whatever becomes of them.     *)
Login(u) ==
    /\ file[u].text \in Profile /\ file[u].text.admin
    /\ admins' = admins \cup {u}
    /\ UNCHANGED <<file, firstUser, owed, lasting, replaced, unsure, codes, resets, requests, faults>>

(* An admin removes another user.                                           *)
RemoveUser(u) ==
    /\ admins \ {u} # {}
    /\ file[u].text # Absent
    /\ file' = [file EXCEPT ![u].text = Absent]
    /\ owed' = [owed EXCEPT ![u] = Absent]
    /\ lasting' = [lasting EXCEPT ![u] = Absent]
    /\ replaced' = replaced \ {u}
    /\ requests' = [q \in Made |-> Outdated(q, u)]
    /\ UNCHANGED <<firstUser, admins, unsure, codes, resets, faults>>

-----------------------------------------------------------------------------
(* Codes.  A new one is none that was drawn before.                         *)

Without(f, x) == Restrict(f, DOMAIN f \ {x})

OldCode(u) == IF u \in DOMAIN uids THEN uids[u] ELSE Nobody

(* Mutant: the user's old code stays.                                       *)
KeepsOldCode(u, c) == [d \in DOMAIN dict \cup {c} |-> IF d = c THEN u ELSE dict[d]]

WithCode(u, c) == [d \in (DOMAIN dict \ {OldCode(u)}) \cup {c} |-> IF d = c THEN u ELSE dict[d]]

NewCode(r, c) ==
    LET u == requests[r].user IN
    /\ At(r, "code")
    /\ c \notin DOMAIN dict \cup timers \cup used
    /\ dict' = WithCode(u, c)
    /\ uids' = [v \in DOMAIN uids \cup {u} |-> IF v = u THEN c ELSE uids[v]]
    /\ timers' = timers \cup {c}
    /\ Step(r, Over, FALSE)
    /\ UNCHANGED <<used, profiles, resets, faults>>

ConsumeCode(c) ==
    IF c \in DOMAIN dict
    THEN dict' = Without(dict, c) /\ uids' = Without(uids, dict[c])
    ELSE UNCHANGED <<dict, uids>>

(* newDevice: a device shows the code that its user has typed in.           *)
Pair(c) ==
    /\ c \in DOMAIN dict
    /\ ConsumeCode(c)
    /\ used' = used \cup {c}
    /\ UNCHANGED <<timers, profiles, resets, requests, faults>>

(* Mutant: whatever code the user has ends with the time of the first.      *)
ExpiresUser(c) ==
    \E u \in DOMAIN uids \cup {Nobody} :
        IF u \in DOMAIN uids THEN ConsumeCode(uids[u]) ELSE ConsumeCode(c)

Expires(c) == ConsumeCode(c)

Expire(c) ==
    /\ c \in timers
    /\ timers' = timers \ {c}
    /\ Expires(c)
    /\ UNCHANGED <<used, profiles, resets, requests, faults>>

-----------------------------------------------------------------------------
(* Passcode resets: one tablet asks, and asks again when it gets no answer. *)
(* What is under way may arrive late.                                       *)

Ask ==
    /\ asks.sent < limit.asks
    /\ asks' = [sent |-> asks.sent + 1, underway |-> asks.underway + 1]
    /\ UNCHANGED <<reset, panel, consent, profiles, codes, requests, faults>>

(* Mutant: a request that is repeated stays approved.                       *)
KeepsApproval == IF reset = "approved" THEN "approved" ELSE "pending"

Created == "pending"

Create ==
    /\ asks.underway > 0
    /\ asks' = [asks EXCEPT !.underway = @ - 1]
    /\ reset' = Created
    /\ consent' = FALSE
    /\ UNCHANGED <<panel, profiles, codes, requests, faults>>

(* The panel asks for the list every five seconds and after each click.     *)
Poll ==
    /\ panel' = [panel EXCEPT !.polls = @ \cup {reset = "pending"}]
    /\ UNCHANGED <<reset, consent, asks, profiles, codes, requests, faults>>

Show(shows) ==
    /\ shows \in panel.polls
    /\ panel' = [shows |-> shows, polls |-> panel.polls \ {shows}]
    /\ UNCHANGED <<reset, consent, asks, profiles, codes, requests, faults>>

Approve ==
    /\ panel.shows /\ reset # "none"
    /\ reset' = "approved"
    /\ consent' = TRUE
    /\ UNCHANGED <<panel, asks, profiles, codes, requests, faults>>

Dismiss ==
    /\ panel.shows /\ reset # "none"
    /\ reset' = "none"
    /\ consent' = FALSE
    /\ UNCHANGED <<panel, asks, profiles, codes, requests, faults>>

(* A day has passed.                                                        *)
ResetExpires ==
    /\ reset # "none"
    /\ reset' = "none" /\ consent' = FALSE
    /\ UNCHANGED <<panel, asks, profiles, codes, requests, faults>>

-----------------------------------------------------------------------------
(* The server stops, whatever it is doing, and starts again.  A profile it  *)
(* left empty counts as a user.                                             *)
Restart ==
    /\ faults < limit.faults /\ faults' = faults + 1
    /\ unsure' = unsure \cup {requests[r].user : r \in {q \in Made : At(q, "fill")}}
    /\ requests' = [r \in Made |-> Over]
    /\ firstUser' = \A u \in User : file[u].text \in {Absent, Broken}
    /\ dict' = <<>> /\ uids' = <<>> /\ timers' = {}
    /\ reset' = "none" /\ consent' = FALSE
    /\ UNCHANGED <<file, admins, owed, lasting, replaced, used, panel, asks>>

Handle(r) ==
    \/ Read(r)
    \/ Exclusive(r)
    \/ Truncate(r)
    \/ Fill(r)
    \/ WriteFails(r)
    \/ Clear(r)
    \/ \E c \in Code : NewCode(r, c)

Resets ==
    \/ Ask
    \/ Create
    \/ Poll
    \/ \E shows \in BOOLEAN : Show(shows)
    \/ Approve
    \/ Dismiss
    \/ ResetExpires

Account(u) ==
    \/ FirstLogin(u)
    \/ Register(u)
    \/ CreateUser(u)
    \/ ChangePassword(u)
    \/ \E i \in Integration : CreateIntegration(u, i) \/ DeleteIntegration(u, i)
    \/ AskForCode(u)
    \/ Login(u)
    \/ RemoveUser(u)

Act ==
    \/ \E u \in User : Account(u)
    \/ \E r \in Made : Handle(r)
    \/ \E c \in Code : Pair(c) \/ Expire(c)
    \/ Resets
    \/ Restart

Next == Act /\ UNCHANGED limit

Spec == Init /\ [][Next]_vars

-----------------------------------------------------------------------------
(* Everything has the values it is meant to have.                           *)
TypeOK ==
    /\ \A u \in User : file[u].text \in Profile \cup {Absent, Blank, Broken}
    /\ firstUser \in BOOLEAN /\ admins \subseteq User
    /\ DOMAIN dict \subseteq Code /\ timers \subseteq Code /\ used \subseteq Code
    /\ reset \in {"none", "pending", "approved"}

Writing(u) == \E r \in Made : requests[r].user = u /\ At(r, "fill")

(* The first login makes a user until somebody can log in: as long as no    *)
(* write was cut short or overlapped another and nobody was removed, there  *)
(* is a user, or the next login makes one.                                  *)
NotLockedOut ==
    \/ firstUser
    \/ unsure # {}
    \/ \E u \in User : /\ file[u].inode > 0
                       /\ file[u].text \in Profile \cup {Absent} \/ Writing(u)

(* UpdateUser: what one request has changed is lost only to a request that  *)
(* had read the profile before, to a write that was cut short, or to an     *)
(* admin who made the user once more (createUser).  After the last, what    *)
(* is changed from then on is kept like everything before.                  *)
LostForAReason ==
    \A u \in User :
        \/ u \in unsure
        \/ Writing(u)
        \/ /\ file[u].text = owed[u]
           /\ u \in replaced \/ file[u].text = lasting[u]

(* NewCode and ConsumeCode: a user has one code and a code one user, it can *)
(* be used once, and its time is running.                                   *)
CodesAgree ==
    /\ \A c \in DOMAIN dict : dict[c] \in DOMAIN uids /\ uids[dict[c]] = c
    /\ \A u \in DOMAIN uids : uids[u] \in DOMAIN dict /\ dict[uids[u]] = u
    /\ DOMAIN dict \subseteq timers \ used

(* A code stops working because it was used, because its own time is over,  *)
(* because its user has a newer one or because the server was restarted: no *)
(* timer of an old code ends a new one.                                     *)
CodeEndsForAReason ==
    [][\A c \in DOMAIN dict \ DOMAIN dict' :
          \/ c \in used'
          \/ c \in timers \ timers'
          \/ dict[c] \in DOMAIN uids' /\ uids'[dict[c]] \notin timers
          \/ faults' > faults]_vars

(* A reset that the tablet finds approved was approved by the user after    *)
(* the tablet's last request had arrived, and not dismissed since.          *)
ApprovedByUser == reset = "approved" => consent

=============================================================================
