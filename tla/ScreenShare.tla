------------------------------ MODULE ScreenShare ------------------------------
(***************************************************************************)
(* The rooms in which one user's tablets and browsers exchange the WebRTC  *)
(* signals of a screen share (internal/screenshare/rooms.go), with the     *)
(* handlers that use them: MQTT (internal/mqtt/broker.go), the tablet's    *)
(* HTTP interface (internal/app/handlers.go) and the browser's             *)
(* (internal/ui/handlers.go).                                              *)
(*                                                                         *)
(* Each method of RoomManager holds the manager's lock and is one step;    *)
(* what a handler does between two of them is where others come in.  Rooms *)
(* are numbered as they are created, so that the newest is the greatest.   *)
(* A payload is only the number of its message.                            *)
(***************************************************************************)
EXTENDS Integers, Sequences, FiniteSets, SequencesExt, FiniteSetsExt

CONSTANTS Device,    \* the tablets' connections
          Viewer,    \* browsers, each with one request for an offer at a time
          None,      \* no room
          Expiry,    \* ticks of the loop after which a silent room is gone, 5
          MaxRooms,  \* bound: rooms created
          MaxSent    \* bound: messages put into rooms

ASSUME ExpiryAssumption == Expiry \in Nat \ {0}
ASSUME BoundAssumption == MaxRooms \in Nat /\ MaxSent \in Nat
ASSUME NoneAssumption == None \notin 1..MaxRooms /\ Device \cap Viewer = {}

RoomId == 1..MaxRooms

VARIABLES
    rooms,    \* the rooms that exist: participants, messages, ticks of silence
    notify,   \* tokens in each room's channel, also after its deletion
    created,  \* rooms created so far
    device,   \* the publication each tablet connection is in
    viewer,   \* the screenshareGetOffer each browser is in
    sent,     \* messages sent so far
    waiters   \* viewers that ever waited in each room

vars == <<rooms, notify, created, device, viewer, sent, waiters>>

Idle == [pc |-> "idle"]

Init ==
    /\ rooms = <<>>
    /\ notify = [r \in RoomId |-> 0]
    /\ created = 0
    /\ device = [d \in Device |-> Idle]
    /\ viewer = [v \in Viewer |-> Idle]
    /\ sent = 0
    /\ waiters = [r \in RoomId |-> {}]

Exists(r) == r \in DOMAIN rooms

FindActiveRoom == IF DOMAIN rooms = {} THEN None ELSE Max(DOMAIN rooms)

Without(gone) == [r \in DOMAIN rooms \ gone |-> rooms[r]]

-----------------------------------------------------------------------------
(* The methods of RoomManager, as what they make of rooms.                  *)

Room(d) == [parts |-> d, messages |-> <<>>, silent |-> 0]

CreateRoom(d) ==
    /\ created < MaxRooms
    /\ created' = created + 1
    /\ rooms' = [r \in DOMAIN rooms \cup {created'} |->
                    IF r = created' THEN Room({d}) ELSE rooms[r]]

(* A participant that joins again is no longer the owner; who owns a room   *)
(* only decides whom the MQTT copy of a request goes to, and is left out.   *)
AddParticipant(r, d) ==
    rooms' = IF Exists(r) THEN [rooms EXCEPT ![r].parts = @ \cup {d}] ELSE rooms

Message(kind) == [n |-> sent + 1, kind |-> kind]

(* Mutant: the messages before a broadcast stay.                            *)
AppendsBroadcast(r) ==
    /\ sent < MaxSent
    /\ sent' = sent + 1
    /\ rooms' = IF Exists(r)
                THEN [rooms EXCEPT ![r].messages = Append(@, Message("broadcast"))]
                ELSE rooms

AddBroadcast(r) ==
    /\ sent < MaxSent
    /\ sent' = sent + 1
    /\ rooms' = IF Exists(r)
                THEN [rooms EXCEPT ![r].messages = <<Message("broadcast")>>]
                ELSE rooms

(* Mutant: only the first message of a list is announced.                   *)
AnnouncesFirst(r) ==
    /\ sent < MaxSent
    /\ sent' = sent + 1
    /\ rooms' = IF Exists(r)
                THEN [rooms EXCEPT ![r].messages = Append(@, Message("direct"))]
                ELSE rooms
    /\ notify' = IF Exists(r) /\ Len(rooms[r].messages) = 0
                 THEN [notify EXCEPT ![r] = 1] ELSE notify

(* The channel holds one token; a second one is dropped.                    *)
AddDirect(r) ==
    /\ sent < MaxSent
    /\ sent' = sent + 1
    /\ rooms' = IF Exists(r)
                THEN [rooms EXCEPT ![r].messages = Append(@, Message("direct"))]
                ELSE rooms
    /\ notify' = IF Exists(r) THEN [notify EXCEPT ![r] = 1] ELSE notify

(* messages[1:]: the first is the request the list was begun with.          *)
GetMessages(r) == IF Exists(r) THEN SubSeq(rooms[r].messages, 2, Len(rooms[r].messages))
                  ELSE <<>>

Keepalive(r) ==
    rooms' = IF Exists(r) THEN [rooms EXCEPT ![r].silent = 0] ELSE rooms

(* The participant leaves the first room it is found in, and that only; the *)
(* order of a map is any.                                                   *)
RemoveParticipant(d) ==
    LET in == {r \in DOMAIN rooms : d \in rooms[r].parts} IN
    \E r \in in :
        rooms' = IF rooms[r].parts = {d} THEN Without({r})
                 ELSE [rooms EXCEPT ![r].parts = @ \ {d}]

-----------------------------------------------------------------------------
(* A tablet's MQTT publication refreshes the newest room and is handled     *)
(* then: create-room looks for a room and makes one or joins; the rest adds *)
(* a participant or a message.  By HTTP a tablet always makes a room, and   *)
(* adds messages without the refresh.                                       *)

OnPublish(d) ==
    /\ device[d] = Idle
    /\ Keepalive(FindActiveRoom)
    /\ device' = [device EXCEPT ![d] = [pc |-> "published"]]
    /\ UNCHANGED <<notify, created, viewer, sent, waiters>>

Handled(d) ==
    /\ device[d].pc = "published"
    /\ device' = [device EXCEPT ![d] = Idle]

(* A publication that asks for nothing, or for a room that is not there.    *)
Ignored(d) ==
    /\ Handled(d)
    /\ UNCHANGED <<rooms, notify, created, viewer, sent, waiters>>

LookForRoom(d) ==
    /\ device[d].pc = "published"
    /\ device' = [device EXCEPT ![d] = [pc |-> "found", room |-> FindActiveRoom]]
    /\ UNCHANGED <<rooms, notify, created, viewer, sent, waiters>>

MakeOrJoin(d) ==
    /\ device[d].pc = "found"
    /\ device' = [device EXCEPT ![d] = Idle]
    /\ IF device[d].room = None THEN CreateRoom(d)
       ELSE AddParticipant(device[d].room, d) /\ UNCHANGED created
    /\ UNCHANGED <<notify, viewer, sent, waiters>>

HttpCreate(d) ==
    /\ CreateRoom(d)
    /\ UNCHANGED <<notify, device, viewer, sent, waiters>>

Join(d, r) ==
    /\ Handled(d)
    /\ Exists(r)
    /\ AddParticipant(r, d)
    /\ UNCHANGED <<notify, created, viewer, sent, waiters>>

(* Offers and candidates, and broadcasts: by MQTT, or by HTTP.              *)
Direct(d, r) ==
    /\ Handled(d) \/ UNCHANGED device
    /\ Exists(r)
    /\ AddDirect(r)
    /\ UNCHANGED <<created, viewer, waiters>>

Broadcast(d, r) ==
    /\ Handled(d) \/ UNCHANGED device
    /\ Exists(r)
    /\ AddBroadcast(r)
    /\ UNCHANGED <<notify, created, viewer, waiters>>

(* PINGREQ refreshes the newest room, the HTTP request the room it names.   *)
Refresh(r) ==
    /\ Exists(r)
    /\ Keepalive(r)
    /\ UNCHANGED <<notify, created, device, viewer, sent, waiters>>

Disconnect(d) ==
    /\ RemoveParticipant(d)
    /\ UNCHANGED <<notify, created, device, viewer, sent, waiters>>

(* A tablet deletes a room, a browser all rooms of the user.                *)
DeleteRooms ==
    /\ \E gone \in {{r} : r \in DOMAIN rooms} \cup {DOMAIN rooms} :
          gone # {} /\ rooms' = Without(gone)
    /\ UNCHANGED <<notify, created, device, viewer, sent, waiters>>

(* expireLoop, every 15 seconds: the fifth tick since a room's activity is  *)
(* more than roomTimeout after it.                                          *)
Expired(r) == rooms[r].silent + 1 >= Expiry

(* Mutant: only the room that requests find grows old.                      *)
AgesNewest ==
    LET r == FindActiveRoom IN
    /\ r # None
    /\ rooms' = IF Expired(r) THEN Without({r}) ELSE [rooms EXCEPT ![r].silent = @ + 1]
    /\ UNCHANGED <<notify, created, device, viewer, sent, waiters>>

Tick ==
    /\ DOMAIN rooms # {}
    /\ rooms' = [r \in DOMAIN rooms \ {q \in DOMAIN rooms : Expired(q)} |->
                    [rooms[r] EXCEPT !.silent = @ + 1]]
    /\ UNCHANGED <<notify, created, device, viewer, sent, waiters>>

-----------------------------------------------------------------------------
(* screenshareGetOffer: the newest room is looked up, the request put into  *)
(* it, in place of all messages, and handed to the hub and the broker; then *)
(* WaitForMessages.                                                         *)

At(v, label) == viewer[v].pc = label

FindRoom(v) ==
    /\ At(v, "idle") \/ At(v, "answered")
    /\ FindActiveRoom # None
    /\ viewer' = [viewer EXCEPT ![v] = [pc |-> "found", room |-> FindActiveRoom]]
    /\ UNCHANGED <<rooms, notify, created, device, sent, waiters>>

Ask(v) ==
    /\ At(v, "found")
    /\ AddBroadcast(viewer[v].room)
    /\ viewer' = [viewer EXCEPT ![v] = [pc |-> "asked", room |-> @.room, n |-> sent']]
    /\ UNCHANGED <<notify, created, device, waiters>>

Answered(v, messages) ==
    viewer' = [viewer EXCEPT ![v] =
        IF messages = <<>> THEN [pc |-> "answered", got |-> <<>>]
        ELSE [pc |-> "answered", got |-> messages, room |-> @.room, n |-> @.n]]

WaitForMessages(v) ==
    /\ At(v, "asked")
    /\ IF Exists(viewer[v].room)
       THEN /\ viewer' = [viewer EXCEPT ![v].pc = "checking"]
            /\ waiters' = [waiters EXCEPT ![viewer[v].room] = @ \cup {v}]
       ELSE Answered(v, <<>>) /\ UNCHANGED waiters
    /\ UNCHANGED <<rooms, notify, created, device, sent>>

Check(v) ==
    /\ At(v, "checking")
    /\ viewer' = [viewer EXCEPT ![v].pc =
                    IF GetMessages(viewer[v].room) = <<>> THEN "waiting" ELSE "settling"]
    /\ UNCHANGED <<rooms, notify, created, device, sent, waiters>>

(* The select: a token, or the deadline, which passes at any time.          *)
Wake(v) ==
    /\ At(v, "waiting")
    /\ notify[viewer[v].room] = 1
    /\ notify' = [notify EXCEPT ![viewer[v].room] = 0]
    /\ viewer' = [viewer EXCEPT ![v].pc = "checking"]
    /\ UNCHANGED <<rooms, created, device, sent, waiters>>

(* Mutant: the wait for a room ends with the room's own deadline.           *)
DeadlineOfRoom(v) ==
    /\ At(v, "waiting") /\ Exists(viewer[v].room)
    /\ Answered(v, <<>>)
    /\ UNCHANGED <<rooms, notify, created, device, sent, waiters>>

Deadline(v) ==
    /\ At(v, "waiting")
    /\ Answered(v, <<>>)
    /\ UNCHANGED <<rooms, notify, created, device, sent, waiters>>

(* After 200 ms for candidates the list is read again, and may be empty.    *)
Settle(v) ==
    /\ At(v, "settling")
    /\ Answered(v, GetMessages(viewer[v].room))
    /\ UNCHANGED <<rooms, notify, created, device, sent, waiters>>

(* screenshareSendAnswer, to the offer it got: the answer, and candidates.  *)
SendAnswer(v) ==
    /\ At(v, "answered")
    /\ viewer[v].got # <<>>
    /\ Exists(viewer[v].room)
    /\ AddDirect(viewer[v].room)
    /\ UNCHANGED <<created, device, viewer, waiters>>

Serve(v) == WaitForMessages(v) \/ Check(v) \/ Wake(v) \/ Deadline(v) \/ Settle(v)

Next ==
    \/ Tick \/ DeleteRooms
    \/ \E d \in Device :
          \/ OnPublish(d) \/ Ignored(d) \/ LookForRoom(d) \/ MakeOrJoin(d)
          \/ HttpCreate(d) \/ Disconnect(d)
          \/ \E r \in RoomId : Join(d, r) \/ Direct(d, r) \/ Broadcast(d, r)
    \/ \E r \in RoomId : Refresh(r)
    \/ \E v \in Viewer : FindRoom(v) \/ Ask(v) \/ Serve(v) \/ SendAnswer(v)

Fairness == WF_vars(Tick) /\ \A v \in Viewer : WF_vars(Serve(v))

Spec == Init /\ [][Next]_vars /\ Fairness

-----------------------------------------------------------------------------
Messages == [n : 1..MaxSent, kind : {"broadcast", "direct"}]

TypeOK ==
    /\ DOMAIN rooms \subseteq 1..created
    /\ \A r \in DOMAIN rooms :
          /\ rooms[r].parts \in (SUBSET Device) \ {{}}
          /\ ToSet(rooms[r].messages) \subseteq Messages
          /\ rooms[r].silent \in 0..(Expiry - 1)
    /\ notify \in [RoomId -> {0, 1}]
    /\ created \in 0..MaxRooms /\ sent \in 0..MaxSent
    /\ \A d \in Device : "room" \in DOMAIN device[d] => device[d].room \in RoomId \cup {None}
    /\ \A v \in Viewer : "room" \in DOMAIN viewer[v] => viewer[v].room \in RoomId
    /\ waiters \in [RoomId -> SUBSET Viewer]

(* What a browser is handed was sent after it asked, and is never another   *)
(* browser's request, although all requests and answers of a room share one *)
(* list that others clear and extend while it waits (AddBroadcast,          *)
(* WaitForMessages with the index 1).                                       *)
HandedIsFresh ==
    \A v \in Viewer : At(v, "answered") =>
        \A m \in ToSet(viewer[v].got) : m.n > viewer[v].n /\ m.kind = "direct"

(* A browser alone in a room does not sleep over a message: whenever it     *)
(* waits and one is there, so is a token (AddDirect, WaitForMessages).      *)
NoSleepOverMessage ==
    \A v \in Viewer : At(v, "waiting") =>
        LET r == viewer[v].room IN
        GetMessages(r) # <<>> /\ waiters[r] = {v} => notify[r] = 1

(* A request for an offer is answered, whatever becomes of its room.        *)
OfferReturns == \A v \in Viewer : At(v, "asked") ~> At(v, "answered")

IsKept(r) ==
    r \in DOMAIN rooms \cap DOMAIN rooms' /\ rooms'[r].silent < rooms[r].silent

(* A room that nobody keeps alive goes, also one that a newer room has      *)
(* hidden or that a tablet has left without deleting it (expireLoop).       *)
RoomsExpire ==
    \A r \in RoomId : []<>(~Exists(r)) \/ []<><<IsKept(r)>>_vars
=============================================================================
