--------------------------- MODULE ScreenShareProofs ---------------------------
(***************************************************************************)
(* What is proved of ScreenShare, for any tablets and browsers, and any    *)
(* number of rooms and messages.                                           *)
(***************************************************************************)
EXTENDS ScreenShare, FiniteSetTheorems, SequenceTheorems, TLAPS

RoomType == [parts : (SUBSET Device) \ {{}}, messages : Seq(Messages), silent : 0..(Expiry - 1)]

(* A list begins with a request or is all direct messages, and its numbers  *)
(* are above that of its first.                                             *)
Ordered(ms, last) ==
    /\ \A j \in 1..Len(ms) : ms[j].n <= last
    /\ \A j \in 2..Len(ms) : ms[j].n > ms[1].n /\ ms[j].kind = "direct"

RoomOK(room, last) == room \in RoomType /\ Ordered(room.messages, last)

RoomsOK ==
    /\ created \in 0..MaxRooms /\ sent \in 0..MaxSent
    /\ DOMAIN rooms \subseteq 1..created
    /\ \A r \in DOMAIN rooms : RoomOK(rooms[r], sent)

DeviceType == {Idle} \cup [pc : {"published"}] \cup [pc : {"found"}, room : RoomId \cup {None}]

InWait == {"checking", "waiting", "settling"}
Asking == InWait \cup {"asked"}

ViewerType ==
    {Idle} \cup [pc : {"found"}, room : RoomId]
    \cup [pc : Asking, room : RoomId, n : 1..MaxSent]
    \cup [pc : {"answered"}, got : {<<>>}]
    \cup [pc : {"answered"}, got : Seq(Messages), room : RoomId, n : 1..MaxSent]

Typed ==
    /\ device \in [Device -> DeviceType]
    /\ viewer \in [Viewer -> ViewerType]
    /\ notify \in [RoomId -> {0, 1}]
    /\ waiters \in [RoomId -> SUBSET Viewer]

(* The room of a request is no room still to be made; while it exists, its  *)
(* list begins with that request or with what has replaced it since.        *)
RequestsOK == \A v \in Viewer :
    /\ viewer[v].pc \in Asking \cup {"found"} => viewer[v].room <= created
    /\ viewer[v].pc \in Asking =>
          /\ viewer[v].n <= sent
          /\ viewer[v].room \in DOMAIN rooms =>
                LET ms == rooms[viewer[v].room].messages
                IN  ms # <<>> /\ ms[1].n >= viewer[v].n
    /\ viewer[v].pc \in InWait => v \in waiters[viewer[v].room]

Inv == RoomsOK /\ Typed /\ RequestsOK /\ HandedIsFresh /\ NoSleepOverMessage

-----------------------------------------------------------------------------
(* The sets of greater elements are finite, so one of them has no smaller   *)
(* one.                                                                     *)
LEMMA MaxIsMember ==
    ASSUME NEW n \in Nat, NEW S \in SUBSET (1..n), S # {}
    PROVE  Max(S) \in S
<1> DEFINE Above(x) == {y \in S : y > x}
           R == StrictSubsetOrdering(S)
           T == {Above(x) : x \in S}
<1>1. IsFiniteSet(S)
  <2>1. IsFiniteSet(1..n)
    BY FS_Interval
  <2> QED
    BY <2>1, FS_Subset
<1>2. IsWellFoundedOn(R, FiniteSubsetsOf(S))
  BY FS_StrictSubsetOrderingWellFounded
<1>3. T \subseteq FiniteSubsetsOf(S) /\ T # {}
  <2>1. ASSUME NEW x \in S PROVE Above(x) \in FiniteSubsetsOf(S)
    <3>1. Above(x) \in SUBSET S
      OBVIOUS
    <3>2. IsFiniteSet(Above(x))
      BY <1>1, <3>1, FS_Subset
    <3> QED
      BY <3>1, <3>2 DEF FiniteSubsetsOf
  <2> QED
    BY <2>1
<1>4. \A A, B \in FiniteSubsetsOf(S) : A \subseteq B /\ A # B => <<A, B>> \in R
  BY DEF StrictSubsetOrdering, FiniteSubsetsOf
<1> HIDE DEF R
<1>5. FiniteSubsetsOf(S) # {} /\ \E A \in T : \A B \in T : ~(<<B, A>> \in R)
  <2> HIDE DEF T
  <2> QED
    BY <1>2, <1>3, WFMin
<1>6. PICK x \in S : \A y \in S : ~(<<Above(y), Above(x)>> \in R)
  BY <1>5
<1>7. ASSUME NEW y \in S, y > x PROVE FALSE
  <2>1. y \in Above(x) /\ y \notin Above(y)
    BY <1>7
  <2>2. \A z \in S : z > y => z > x
    BY <1>7
  <2>3. Above(y) \subseteq Above(x)
    BY <2>2
  <2>4. Above(y) # Above(x)
    BY <2>1
  <2>5. Above(x) \in T /\ Above(y) \in T
    OBVIOUS
  <2>6. Above(x) \in FiniteSubsetsOf(S) /\ Above(y) \in FiniteSubsetsOf(S)
    BY <1>3, <2>5
  <2>7. <<Above(y), Above(x)>> \in R
    <3> HIDE DEF Above
    <3> QED
      BY <1>4, <2>3, <2>4, <2>6
  <2> QED
    BY <1>6, <2>7
<1>8. \A y \in S : x >= y
  <2>1. \A y \in S : ~(y > x)
    BY <1>7
  <2> QED
    BY <2>1
<1> QED
  BY <1>8 DEF Max

LEMMA ActiveRoom ==
    ASSUME RoomsOK
    PROVE  /\ FindActiveRoom # None => FindActiveRoom \in DOMAIN rooms
           /\ FindActiveRoom \in RoomId \cup {None}
<1>1. created \in Nat /\ DOMAIN rooms \subseteq 1..created /\ 1..created \subseteq RoomId
  BY BoundAssumption DEF RoomsOK, RoomId
<1>2. CASE DOMAIN rooms = {}
  BY <1>2 DEF FindActiveRoom
<1>3. CASE DOMAIN rooms # {}
  <2>1. Max(DOMAIN rooms) \in DOMAIN rooms
    BY <1>1, <1>3, MaxIsMember
  <2> QED
    BY <1>1, <1>3, <2>1 DEF FindActiveRoom
<1> QED
  BY <1>2, <1>3

(* The list without its first message.                                      *)
LEMMA RestOf ==
    ASSUME NEW ms \in Seq(Messages)
    PROVE  /\ SubSeq(ms, 2, Len(ms)) \in Seq(Messages)
           /\ SubSeq(ms, 2, Len(ms)) = <<>> <=> Len(ms) <= 1
           /\ \A m \in ToSet(SubSeq(ms, 2, Len(ms))) : \E j \in 2..Len(ms) : m = ms[j]
<1> DEFINE rest == SubSeq(ms, 2, Len(ms))
<1>1. CASE Len(ms) <= 1
  <2>1. rest = <<>>
    BY <1>1
  <2> QED
    BY <1>1, <2>1 DEF ToSet
<1>2. CASE Len(ms) > 1
  <2>1. /\ rest \in Seq(Messages) /\ Len(rest) = Len(ms) - 1
        /\ \A j \in 1..(Len(ms) - 1) : rest[j] = ms[j + 1]
    BY <1>2
  <2>2. \A j \in 1..(Len(ms) - 1) : j + 1 \in 2..Len(ms)
    OBVIOUS
  <2> HIDE DEF rest
  <2>3. rest # <<>> /\ DOMAIN rest = 1..(Len(ms) - 1)
    BY <1>2, <2>1
  <2>4. \A m \in ToSet(rest) : \E j \in 1..(Len(ms) - 1) : m = rest[j]
    BY <2>3 DEF ToSet
  <2>5. \A m \in ToSet(rest) : \E j \in 2..Len(ms) : m = ms[j]
    BY <2>1, <2>2, <2>4
  <2> QED
    BY <1>2, <2>1, <2>3, <2>5 DEF rest
<1> QED
  BY <1>1, <1>2

LEMMA GotFrom ==
    ASSUME RoomsOK, NEW r
    PROVE  /\ GetMessages(r) \in Seq(Messages)
           /\ GetMessages(r) # <<>> => r \in DOMAIN rooms
           /\ \A m \in ToSet(GetMessages(r)) :
                 m.n > rooms[r].messages[1].n /\ m.kind = "direct"
<1>1. CASE r \in DOMAIN rooms
  <2> DEFINE ms == rooms[r].messages
  <2>1. ms \in Seq(Messages) /\ Ordered(ms, sent) /\ GetMessages(r) = SubSeq(ms, 2, Len(ms))
    BY <1>1 DEF RoomsOK, RoomOK, RoomType, GetMessages, Exists
  <2> HIDE DEF ms
  <2>2. \A m \in ToSet(GetMessages(r)) : m.n > ms[1].n /\ m.kind = "direct"
    BY <2>1, RestOf DEF Ordered
  <2> QED
    BY <1>1, <2>1, <2>2, RestOf DEF ms
<1>2. CASE r \notin DOMAIN rooms
  <2>1. GetMessages(r) = <<>>
    BY <1>2 DEF GetMessages, Exists
  <2> QED
    BY <2>1 DEF ToSet
<1> QED
  BY <1>1, <1>2

-----------------------------------------------------------------------------
(* Steps that send nothing and answer no browser: no list changes, but for  *)
(* those of rooms that go, and new rooms are empty.                         *)

LEMMA QuietStep ==
    ASSUME Inv, RoomsOK', device' \in [Device -> DeviceType],
           UNCHANGED <<notify, viewer, sent, waiters>>, created <= created',
           \A r \in DOMAIN rooms' :
              \/ r \in DOMAIN rooms /\ rooms'[r].messages = rooms[r].messages
              \/ r > created
    PROVE  Inv'
<1>1. Typed'
  BY DEF Inv, Typed
<1>2. created \in Nat /\ created' \in Nat
  BY DEF Inv, RoomsOK
<1>3. \A v \in Viewer : viewer[v].pc \in Asking \cup {"found"} =>
         viewer[v].room \in RoomId /\ viewer[v].room <= created
  BY DEF Inv, Typed, RequestsOK, ViewerType, Idle, InWait, Asking
<1>4. \A r \in RoomId : r \in Nat
  BY DEF RoomId
<1>5. RequestsOK'
  <2> SUFFICES ASSUME NEW v \in Viewer
               PROVE  /\ viewer[v].pc \in Asking \cup {"found"} => viewer[v].room <= created'
                      /\ viewer[v].pc \in Asking =>
                            /\ viewer[v].n <= sent
                            /\ viewer[v].room \in DOMAIN rooms' =>
                                  LET ms == rooms'[viewer[v].room].messages
                                  IN  ms # <<>> /\ ms[1].n >= viewer[v].n
                      /\ viewer[v].pc \in InWait => v \in waiters[viewer[v].room]
    BY DEF RequestsOK
  <2>1. viewer[v].pc \in Asking \cup {"found"} => viewer[v].room <= created'
    BY <1>2, <1>3, <1>4
  <2>2. ASSUME viewer[v].pc \in Asking, viewer[v].room \in DOMAIN rooms'
        PROVE  /\ viewer[v].room \in DOMAIN rooms
               /\ rooms'[viewer[v].room].messages = rooms[viewer[v].room].messages
    BY <1>2, <1>3, <1>4, <2>2
  <2> QED
    BY <2>1, <2>2 DEF Inv, RequestsOK
<1>6. HandedIsFresh'
  BY DEF Inv, HandedIsFresh, At
<1>7. NoSleepOverMessage'
  <2> SUFFICES ASSUME NEW v \in Viewer, viewer[v].pc = "waiting",
                      GetMessages(viewer[v].room)' # <<>>, waiters[viewer[v].room] = {v}
               PROVE  notify[viewer[v].room] = 1
    BY DEF NoSleepOverMessage, At
  <2>1. viewer[v].room \in DOMAIN rooms'
    BY GotFrom DEF GetMessages, Exists
  <2>2. /\ viewer[v].room \in DOMAIN rooms
        /\ rooms'[viewer[v].room].messages = rooms[viewer[v].room].messages
    BY <1>2, <1>3, <1>4, <2>1 DEF Asking, InWait
  <2>3. GetMessages(viewer[v].room) # <<>>
    BY <2>1, <2>2 DEF GetMessages, Exists
  <2> QED
    BY <2>3 DEF Inv, NoSleepOverMessage, At
<1> QED
  BY <1>1, <1>5, <1>6, <1>7 DEF Inv

-----------------------------------------------------------------------------
(* Steps that send.                                                         *)

LEMMA MessageType ==
    ASSUME RoomsOK, sent < MaxSent, NEW kind \in {"broadcast", "direct"}
    PROVE  /\ Message(kind) \in Messages
           /\ Message(kind).n = sent + 1 /\ Message(kind).kind = kind
           /\ sent + 1 \in 1..MaxSent
BY BoundAssumption DEF Message, Messages, RoomsOK

LEMMA RoomFacts ==
    ASSUME RoomsOK, NEW r \in DOMAIN rooms
    PROVE  /\ rooms[r] \in RoomType /\ rooms[r].messages \in Seq(Messages)
           /\ Ordered(rooms[r].messages, sent)
BY DEF RoomsOK, RoomOK, RoomType

LEMMA Numbered == ASSUME NEW ms \in Seq(Messages) PROVE \A j \in 1..Len(ms) : ms[j].n \in Int
<1>1. \A m \in Messages : m.n \in Int
  BY DEF Messages
<1>2. \A j \in 1..Len(ms) : ms[j] \in Messages
  OBVIOUS
<1> QED
  BY <1>1, <1>2

(* A greater bound bounds too.                                              *)
LEMMA OrderedLonger ==
    ASSUME NEW ms \in Seq(Messages), NEW last \in Nat, NEW more \in Nat,
           Ordered(ms, last), last <= more
    PROVE  Ordered(ms, more)
BY Numbered DEF Ordered

LEMMA BroadcastEffect ==
    ASSUME RoomsOK, NEW r, AddBroadcast(r), UNCHANGED created
    PROVE  /\ RoomsOK' /\ DOMAIN rooms' = DOMAIN rooms
           /\ sent' = sent + 1 /\ sent' \in 1..MaxSent
           /\ \A q \in DOMAIN rooms \ {r} : rooms'[q] = rooms[q]
           /\ r \in DOMAIN rooms =>
                 /\ rooms'[r].messages = <<Message("broadcast")>>
                 /\ rooms'[r].messages[1].n = sent + 1
<1> DEFINE m == Message("broadcast")
<1>1. /\ sent < MaxSent /\ sent' = sent + 1
      /\ rooms' = IF r \in DOMAIN rooms THEN [rooms EXCEPT ![r].messages = <<m>>] ELSE rooms
  BY DEF AddBroadcast, Exists
<1>2. m \in Messages /\ m.n = sent + 1 /\ sent + 1 \in 1..MaxSent /\ sent \in Nat
  BY <1>1, MessageType DEF RoomsOK
<1> HIDE DEF m
<1>3. /\ <<m>> \in Seq(Messages) /\ Len(<<m>>) = 1 /\ <<m>>[1] = m
  BY <1>2
<1>4. Ordered(<<m>>, sent + 1)
  BY <1>2, <1>3 DEF Ordered
<1>5. ASSUME NEW q \in DOMAIN rooms, q # r PROVE rooms'[q] = rooms[q] /\ RoomOK(rooms'[q], sent + 1)
  <2>1. rooms'[q] = rooms[q]
    BY <1>1, <1>5
  <2>2. Ordered(rooms[q].messages, sent + 1)
    BY <1>2, RoomFacts, OrderedLonger
  <2> QED
    BY <2>1, <2>2, RoomFacts DEF RoomOK
<1>6. ASSUME r \in DOMAIN rooms
      PROVE  rooms'[r].messages = <<m>> /\ RoomOK(rooms'[r], sent + 1)
  <2>1. rooms'[r] = [rooms[r] EXCEPT !.messages = <<m>>]
    BY <1>1, <1>6
  <2>2. rooms'[r] \in RoomType /\ rooms'[r].messages = <<m>>
    BY <1>3, <1>6, <2>1, RoomFacts DEF RoomType
  <2> QED
    BY <1>4, <2>2 DEF RoomOK
<1>7. DOMAIN rooms' = DOMAIN rooms
  BY <1>1
<1>8. RoomsOK'
  BY <1>1, <1>2, <1>5, <1>6, <1>7 DEF RoomsOK
<1> QED
  BY <1>1, <1>2, <1>3, <1>5, <1>6, <1>7, <1>8 DEF m

LEMMA DirectEffect ==
    ASSUME RoomsOK, NEW r, AddDirect(r), UNCHANGED created
    PROVE  /\ RoomsOK' /\ DOMAIN rooms' = DOMAIN rooms
           /\ sent' = sent + 1 /\ sent' \in 1..MaxSent
           /\ \A q \in DOMAIN rooms \ {r} : rooms'[q] = rooms[q]
           /\ r \in DOMAIN rooms =>
                 /\ rooms'[r].messages # <<>>
                 /\ rooms[r].messages # <<>> =>
                       rooms'[r].messages[1] = rooms[r].messages[1]
<1> DEFINE m == Message("direct")
<1>1. /\ sent < MaxSent /\ sent' = sent + 1
      /\ rooms' = IF r \in DOMAIN rooms THEN [rooms EXCEPT ![r].messages = Append(@, m)] ELSE rooms
  BY DEF AddDirect, Exists
<1>2. m \in Messages /\ m.n = sent + 1 /\ m.kind = "direct" /\ sent + 1 \in 1..MaxSent /\ sent \in Nat
  BY <1>1, MessageType DEF RoomsOK
<1> HIDE DEF m
<1>3. ASSUME NEW q \in DOMAIN rooms, q # r PROVE rooms'[q] = rooms[q] /\ RoomOK(rooms'[q], sent + 1)
  <2>1. rooms'[q] = rooms[q]
    BY <1>1, <1>3
  <2>2. Ordered(rooms[q].messages, sent + 1)
    BY <1>2, RoomFacts, OrderedLonger
  <2> QED
    BY <2>1, <2>2, RoomFacts DEF RoomOK
<1>4. ASSUME r \in DOMAIN rooms
      PROVE  /\ rooms'[r].messages # <<>> /\ RoomOK(rooms'[r], sent + 1)
             /\ rooms[r].messages # <<>> => rooms'[r].messages[1] = rooms[r].messages[1]
  <2> DEFINE ms == rooms[r].messages
             longer == Append(ms, m)
  <2>1. ms \in Seq(Messages) /\ Ordered(ms, sent)
    BY <1>4, RoomFacts
  <2>2. rooms'[r] = [rooms[r] EXCEPT !.messages = longer]
    BY <1>1, <1>4
  <2> HIDE DEF ms
  <2>3. /\ longer \in Seq(Messages) /\ Len(longer) = Len(ms) + 1 /\ Len(ms) \in Nat
        /\ \A j \in 1..Len(ms) : longer[j] = ms[j]
        /\ longer[Len(ms) + 1] = m
    BY <1>2, <2>1
  <2>4. \A j \in 1..Len(ms) : ms[j].n \in Int
    BY <2>1, Numbered
  <2> HIDE DEF longer
  <2>5. longer # <<>> /\ (ms # <<>> => longer[1] = ms[1])
    BY <2>1, <2>3
  <2>6. Ordered(longer, sent + 1)
    <3>1. ASSUME NEW j \in 1..Len(longer) PROVE longer[j].n <= sent + 1
      <4>1. CASE j \in 1..Len(ms)
        BY <1>2, <2>1, <2>3, <2>4, <4>1 DEF Ordered
      <4>2. CASE j = Len(ms) + 1
        BY <1>2, <2>3, <4>2
      <4> QED
        BY <2>3, <4>1, <4>2
    <3>2. ASSUME NEW j \in 2..Len(longer) PROVE longer[j].n > longer[1].n /\ longer[j].kind = "direct"
      <4>1. 1 \in 1..Len(ms) /\ longer[1] = ms[1] /\ ms[1].n <= sent /\ ms[1].n \in Int
        BY <2>1, <2>3, <2>4 DEF Ordered
      <4>2. CASE j \in 2..Len(ms)
        BY <2>1, <2>3, <4>1, <4>2 DEF Ordered
      <4>3. CASE j = Len(ms) + 1
        BY <1>2, <2>3, <4>1, <4>3
      <4> QED
        BY <2>3, <4>2, <4>3
    <3> QED
      BY <3>1, <3>2 DEF Ordered
  <2>7. rooms'[r] \in RoomType /\ rooms'[r].messages = longer
    BY <1>4, <2>2, <2>3, RoomFacts DEF RoomType
  <2> QED
    BY <2>5, <2>6, <2>7 DEF RoomOK, ms
<1>5. DOMAIN rooms' = DOMAIN rooms
  BY <1>1
<1>6. RoomsOK'
  BY <1>1, <1>2, <1>3, <1>4, <1>5 DEF RoomsOK
<1> QED
  BY <1>1, <1>2, <1>3, <1>4, <1>5, <1>6

(* What a viewer is in the middle of, besides the list of its room.         *)
LEMMA AskingFacts ==
    ASSUME Inv, NEW v \in Viewer
    PROVE  /\ viewer[v] \in ViewerType
           /\ viewer[v].pc \in Asking =>
                 /\ viewer[v].room \in RoomId /\ viewer[v].n \in 1..MaxSent
                 /\ viewer[v].room <= created /\ viewer[v].n <= sent
BY DEF Inv, Typed, RequestsOK, ViewerType, Idle, InWait, Asking

LEMMA FirstNumber ==
    ASSUME RoomsOK, NEW r \in DOMAIN rooms, rooms[r].messages # <<>>
    PROVE  rooms[r].messages[1].n \in Int /\ rooms[r].messages[1].n <= sent
<1> DEFINE ms == rooms[r].messages
<1>1. ms \in Seq(Messages) /\ Ordered(ms, sent)
  BY RoomFacts
<1> HIDE DEF ms
<1>2. ms # <<>> => 1 \in 1..Len(ms)
  BY <1>1
<1>3. ms # <<>> => ms[1].n \in Int /\ ms[1].n <= sent
  BY <1>1, <1>2, Numbered DEF Ordered
<1> QED
  BY <1>3 DEF ms

(* A broadcast, and with it perhaps a browser's request for an offer.       *)
LEMMA BroadcastStep ==
    ASSUME Inv, NEW r, AddBroadcast(r), device' \in [Device -> DeviceType],
           UNCHANGED <<notify, created, waiters>>,
           \/ viewer' = viewer
           \/ \E v \in Viewer :
                 /\ viewer[v].pc = "found" /\ viewer[v].room = r
                 /\ viewer' = [viewer EXCEPT ![v] = [pc |-> "asked", room |-> r, n |-> sent']]
    PROVE  Inv'
<1>1. /\ RoomsOK' /\ DOMAIN rooms' = DOMAIN rooms
      /\ sent' = sent + 1 /\ sent' \in 1..MaxSent /\ sent \in Nat
      /\ \A q \in DOMAIN rooms \ {r} : rooms'[q] = rooms[q]
      /\ r \in DOMAIN rooms =>
            /\ rooms'[r].messages = <<Message("broadcast")>>
            /\ rooms'[r].messages[1].n = sent + 1
  BY BroadcastEffect DEF Inv, RoomsOK
<1>2. ASSUME r \in DOMAIN rooms PROVE GetMessages(r)' = <<>>
  <2>1. GetMessages(r)' = SubSeq(<<Message("broadcast")>>, 2, 1)
    BY <1>1, <1>2 DEF GetMessages, Exists
  <2> QED
    BY <2>1
<1>3. ASSUME NEW v \in Viewer
      PROVE  \/ viewer'[v] = viewer[v]
             \/ /\ viewer'[v] = [pc |-> "asked", room |-> r, n |-> sent']
                /\ viewer[v].pc = "found" /\ viewer[v].room = r
                /\ r \in RoomId /\ r <= created
  <2>1. viewer \in [Viewer -> ViewerType]
    BY DEF Inv, Typed
  <2>2. viewer[v].pc = "found" => viewer[v].room \in RoomId /\ viewer[v].room <= created
    BY <2>1 DEF ViewerType, Idle, Asking, InWait, Inv, RequestsOK
  <2> QED
    BY <2>1, <2>2
<1>4. Typed'
  <2>1. ASSUME NEW v \in Viewer PROVE viewer'[v] \in ViewerType
    <3>1. viewer[v] \in ViewerType
      BY AskingFacts
    <3>2. r \in RoomId => [pc |-> "asked", room |-> r, n |-> sent'] \in ViewerType
      BY <1>1 DEF ViewerType, Asking
    <3> QED
      BY <1>3, <3>1, <3>2
  <2>2. viewer' \in [Viewer -> ViewerType]
    BY <2>1 DEF Inv, Typed
  <2> QED
    BY <2>2 DEF Inv, Typed
<1>5. RequestsOK'
  <2> SUFFICES ASSUME NEW v \in Viewer
               PROVE  /\ viewer'[v].pc \in Asking \cup {"found"} => viewer'[v].room <= created
                      /\ viewer'[v].pc \in Asking =>
                            /\ viewer'[v].n <= sent'
                            /\ viewer'[v].room \in DOMAIN rooms' =>
                                  LET ms == rooms'[viewer'[v].room].messages
                                  IN  ms # <<>> /\ ms[1].n >= viewer'[v].n
                      /\ viewer'[v].pc \in InWait => v \in waiters[viewer'[v].room]
    BY DEF RequestsOK
  <2>1. CASE viewer'[v] = viewer[v]
    <3>1. ASSUME viewer[v].pc \in Asking
          PROVE  /\ viewer[v].n <= sent'
                 /\ viewer[v].room \in DOMAIN rooms' =>
                       /\ rooms'[viewer[v].room].messages # <<>>
                       /\ rooms'[viewer[v].room].messages[1].n >= viewer[v].n
      <4>1. viewer[v].n \in Nat /\ viewer[v].n <= sent
        BY <3>1, AskingFacts
      <4>2. CASE viewer[v].room = r
        BY <1>1, <4>1, <4>2
      <4>3. CASE viewer[v].room # r
        BY <1>1, <3>1, <4>1, <4>3 DEF Inv, RequestsOK
      <4> QED
        BY <4>2, <4>3
    <3> QED
      BY <2>1, <3>1 DEF Inv, RequestsOK
  <2>2. CASE viewer'[v] # viewer[v]
    <3>1. /\ viewer'[v].pc = "asked" /\ viewer'[v].room = r /\ viewer'[v].n = sent'
          /\ r <= created
      BY <1>3, <2>2
    <3>2. "asked" \in Asking /\ "asked" \notin InWait
      BY DEF Asking, InWait
    <3>3. sent' <= sent' /\ sent + 1 >= sent'
      BY <1>1
    <3> QED
      BY <1>1, <3>1, <3>2, <3>3
  <2> QED
    BY <2>1, <2>2
<1>6. HandedIsFresh'
  BY <1>3 DEF Inv, HandedIsFresh, At
<1>7. NoSleepOverMessage'
  <2> SUFFICES ASSUME NEW v \in Viewer, NEW q, q = viewer'[v].room,
                      viewer'[v].pc = "waiting", GetMessages(q)' # <<>>, waiters[q] = {v}
               PROVE  notify[q] = 1
    BY DEF NoSleepOverMessage, At
  <2>1. viewer'[v] = viewer[v]
    BY <1>3
  <2>2. q \in DOMAIN rooms /\ q # r
    BY <1>1, <1>2 DEF GetMessages, Exists
  <2>3. GetMessages(q) # <<>>
    BY <1>1, <2>2 DEF GetMessages, Exists
  <2> QED
    BY <2>1, <2>3 DEF Inv, NoSleepOverMessage, At
<1> QED
  BY <1>1, <1>4, <1>5, <1>6, <1>7 DEF Inv

LEMMA DirectStep ==
    ASSUME Inv, NEW r \in RoomId, AddDirect(r), device' \in [Device -> DeviceType],
           UNCHANGED <<created, viewer, waiters>>
    PROVE  Inv'
<1>1. /\ RoomsOK' /\ DOMAIN rooms' = DOMAIN rooms
      /\ sent' = sent + 1 /\ sent \in Nat
      /\ \A q \in DOMAIN rooms \ {r} : rooms'[q] = rooms[q]
      /\ r \in DOMAIN rooms =>
            /\ rooms'[r].messages # <<>>
            /\ rooms[r].messages # <<>> =>
                  rooms'[r].messages[1] = rooms[r].messages[1]
  BY DirectEffect DEF Inv, RoomsOK
<1>2. notify' = IF r \in DOMAIN rooms THEN [notify EXCEPT ![r] = 1] ELSE notify
  BY DEF AddDirect, Exists
<1>3. Typed'
  BY <1>2 DEF Inv, Typed
<1>4. RequestsOK'
  <2> SUFFICES ASSUME NEW v \in Viewer, viewer[v].pc \in Asking
               PROVE  /\ viewer[v].n <= sent'
                      /\ viewer[v].room \in DOMAIN rooms' =>
                            /\ rooms'[viewer[v].room].messages # <<>>
                            /\ rooms'[viewer[v].room].messages[1].n >= viewer[v].n
    BY DEF Inv, RequestsOK
  <2>1. viewer[v].n \in Nat /\ viewer[v].n <= sent
    BY AskingFacts
  <2>2. viewer[v].room \in DOMAIN rooms =>
           /\ rooms[viewer[v].room].messages # <<>>
           /\ rooms[viewer[v].room].messages[1].n >= viewer[v].n
    BY DEF Inv, RequestsOK
  <2>3. CASE viewer[v].room = r
    BY <1>1, <2>1, <2>2, <2>3
  <2>4. CASE viewer[v].room # r
    BY <1>1, <2>1, <2>2, <2>4
  <2> QED
    BY <2>3, <2>4
<1>5. HandedIsFresh'
  BY DEF Inv, HandedIsFresh, At
<1>6. NoSleepOverMessage'
  <2> SUFFICES ASSUME NEW v \in Viewer, viewer[v].pc = "waiting",
                      GetMessages(viewer[v].room)' # <<>>, waiters[viewer[v].room] = {v}
               PROVE  notify'[viewer[v].room] = 1
    BY DEF NoSleepOverMessage, At
  <2>1. viewer[v].room \in DOMAIN rooms
    BY <1>1 DEF GetMessages, Exists
  <2>2. notify \in [RoomId -> {0, 1}]
    BY DEF Inv, Typed
  <2>3. CASE viewer[v].room = r
    BY <1>2, <2>1, <2>2, <2>3
  <2>4. CASE viewer[v].room # r
    <3>1. GetMessages(viewer[v].room) # <<>>
      BY <1>1, <2>1, <2>4 DEF GetMessages, Exists
    <3>2. notify[viewer[v].room] = 1
      BY <3>1 DEF Inv, NoSleepOverMessage, At
    <3> QED
      BY <1>2, <2>2, <2>4, <3>2
  <2> QED
    BY <2>3, <2>4
<1> QED
  BY <1>1, <1>3, <1>4, <1>5, <1>6 DEF Inv

-----------------------------------------------------------------------------
(* Steps of one browser's request; a token it takes is that of a room in    *)
(* which it is one of those that wait.                                      *)
LEMMA ViewerStep ==
    ASSUME Inv, UNCHANGED <<rooms, created, device, sent>>,
           NEW v \in Viewer, NEW new \in ViewerType, viewer' = [viewer EXCEPT ![v] = new],
           notify' \in [RoomId -> {0, 1}], waiters' \in [RoomId -> SUBSET Viewer],
           \A r \in RoomId : waiters[r] \subseteq waiters'[r],
           \A r \in RoomId : notify'[r] = notify[r] \/ v \in waiters[r],
           new.pc \in Asking \cup {"found"} => new.room <= created,
           new.pc \in Asking =>
              /\ new.n <= sent
              /\ new.room \in DOMAIN rooms =>
                    LET ms == rooms[new.room].messages IN ms # <<>> /\ ms[1].n >= new.n,
           new.pc \in InWait => v \in waiters'[new.room],
           new.pc = "waiting" => GetMessages(new.room) = <<>>,
           new.pc = "answered" => \A m \in ToSet(new.got) : m.n > new.n /\ m.kind = "direct"
    PROVE  Inv'
<1>1. /\ viewer \in [Viewer -> ViewerType]
      /\ viewer'[v] = new /\ \A w \in Viewer \ {v} : viewer'[w] = viewer[w]
  BY DEF Inv, Typed
<1>2. RoomsOK'
  BY DEF Inv, RoomsOK
<1>3. Typed'
  BY <1>1 DEF Inv, Typed
<1>4. ASSUME NEW w \in Viewer, viewer[w].pc \in InWait PROVE viewer[w].room \in RoomId
  BY <1>4, AskingFacts DEF Asking
<1>5. RequestsOK'
  <2> SUFFICES ASSUME NEW w \in Viewer
               PROVE  /\ viewer'[w].pc \in Asking \cup {"found"} => viewer'[w].room <= created
                      /\ viewer'[w].pc \in Asking =>
                            /\ viewer'[w].n <= sent
                            /\ viewer'[w].room \in DOMAIN rooms =>
                                  LET ms == rooms[viewer'[w].room].messages
                                  IN  ms # <<>> /\ ms[1].n >= viewer'[w].n
                      /\ viewer'[w].pc \in InWait => w \in waiters'[viewer'[w].room]
    BY DEF RequestsOK
  <2>1. CASE w = v
    BY <1>1, <2>1
  <2>2. CASE w # v
    BY <1>1, <1>4, <2>2 DEF Inv, RequestsOK
  <2> QED
    BY <2>1, <2>2
<1>6. HandedIsFresh'
  BY <1>1 DEF Inv, HandedIsFresh, At
<1>7. NoSleepOverMessage'
  <2> SUFFICES ASSUME NEW w \in Viewer, NEW q, q = viewer'[w].room,
                      viewer'[w].pc = "waiting", GetMessages(q) # <<>>, waiters'[q] = {w}
               PROVE  notify'[q] = 1
    BY DEF NoSleepOverMessage, At, GetMessages, Exists
  <2>1. w # v /\ viewer'[w] = viewer[w]
    BY <1>1
  <2>2. q \in RoomId /\ w \in waiters[q]
    BY <1>4, <2>1 DEF InWait, Inv, RequestsOK
  <2>3. waiters[q] = {w} /\ notify'[q] = notify[q]
    BY <2>1, <2>2
  <2> QED
    BY <2>1, <2>3 DEF Inv, NoSleepOverMessage, At
<1> QED
  BY <1>2, <1>3, <1>5, <1>6, <1>7 DEF Inv

(* What At says of a browser, by the types.                                 *)
LEMMA ViewerAt ==
    ASSUME Inv, NEW v \in Viewer
    PROVE  /\ viewer[v].pc \in Asking =>
                 viewer[v] \in [pc : Asking, room : RoomId, n : 1..MaxSent]
           /\ viewer[v].pc \in InWait => v \in waiters[viewer[v].room]
           /\ viewer[v].pc \in Asking /\ viewer[v].room \in DOMAIN rooms =>
                 /\ rooms[viewer[v].room].messages # <<>>
                 /\ rooms[viewer[v].room].messages[1].n >= viewer[v].n
BY AskingFacts DEF Inv, RequestsOK, ViewerType, Idle, Asking, InWait

LEMMA Unchanged ==
    ASSUME Inv
    PROVE  /\ notify \in [RoomId -> {0, 1}] /\ waiters \in [RoomId -> SUBSET Viewer]
           /\ viewer \in [Viewer -> ViewerType]
BY DEF Inv, Typed

(* Another label in the same request.                                       *)
LEMMA NextLabel ==
    ASSUME Inv, UNCHANGED <<rooms, created, device, sent>>,
           NEW v \in Viewer, viewer[v].pc \in Asking, NEW label \in InWait,
           viewer' = [viewer EXCEPT ![v].pc = label],
           notify' \in [RoomId -> {0, 1}], waiters' \in [RoomId -> SUBSET Viewer],
           \A r \in RoomId : waiters[r] \subseteq waiters'[r],
           \A r \in RoomId : notify'[r] = notify[r] \/ v \in waiters[r],
           v \in waiters'[viewer[v].room],
           label = "waiting" => GetMessages(viewer[v].room) = <<>>
    PROVE  Inv'
<1> DEFINE new == [viewer[v] EXCEPT !.pc = label]
<1>1. viewer[v] \in [pc : Asking, room : RoomId, n : 1..MaxSent]
  BY ViewerAt
<1>2. /\ new \in [pc : Asking, room : RoomId, n : 1..MaxSent]
      /\ new.pc = label /\ new.room = viewer[v].room /\ new.n = viewer[v].n
  BY <1>1 DEF Asking
<1>3. new \in ViewerType /\ label # "answered"
  BY <1>2 DEF ViewerType, InWait
<1>4. viewer' = [viewer EXCEPT ![v] = new]
  BY Unchanged
<1> HIDE DEF new
<1>5. viewer[v].room <= created /\ viewer[v].n <= sent
  BY AskingFacts
<1>6. viewer[v].room \in DOMAIN rooms =>
         /\ rooms[viewer[v].room].messages # <<>>
         /\ rooms[viewer[v].room].messages[1].n >= viewer[v].n
  BY ViewerAt
<1> QED
  BY <1>2, <1>3, <1>4, <1>5, <1>6, ViewerStep

LEMMA AnswerStep ==
    ASSUME Inv, UNCHANGED <<rooms, created, device, sent, notify, waiters>>,
           NEW v \in Viewer, viewer[v].pc \in Asking,
           NEW messages \in {<<>>, GetMessages(viewer[v].room)}, Answered(v, messages)
    PROVE  Inv'
<1> DEFINE r == viewer[v].room
           new == IF messages = <<>> THEN [pc |-> "answered", got |-> <<>>]
                  ELSE [pc |-> "answered", got |-> messages, room |-> r, n |-> viewer[v].n]
<1>1. viewer[v].room \in RoomId /\ viewer[v].n \in 1..MaxSent
  BY AskingFacts
<1>2. messages \in Seq(Messages)
  <2>1. <<>> \in Seq(Messages)
    OBVIOUS
  <2>2. RoomsOK
    BY DEF Inv
  <2>3. GetMessages(viewer[v].room) \in Seq(Messages)
    BY <2>2, GotFrom
  <2> QED
    BY <2>1, <2>3
<1>3. new \in ViewerType /\ new.pc = "answered" /\ new.got = messages
  BY <1>1, <1>2 DEF ViewerType
<1>4. viewer' = [viewer EXCEPT ![v] = new]
  BY DEF Answered
<1>5. ASSUME NEW m \in ToSet(messages) PROVE m.n > new.n /\ m.kind = "direct"
  <2>1. messages # <<>>
    BY <1>5 DEF ToSet
  <2>2. messages = GetMessages(r) /\ new.n = viewer[v].n
    BY <2>1
  <2>3. r \in DOMAIN rooms /\ m.n > rooms[r].messages[1].n /\ m.kind = "direct"
    BY <1>5, <2>1, <2>2, GotFrom DEF Inv
  <2>4. rooms[r].messages # <<>> /\ rooms[r].messages[1].n >= viewer[v].n
    BY <2>3, ViewerAt
  <2>5. rooms[r].messages[1].n \in Int /\ viewer[v].n \in Int
    BY <1>1, <2>3, <2>4, FirstNumber DEF Inv
  <2>6. m.n \in Int
    <3>1. \A x \in Messages : x.n \in Int
      BY DEF Messages
    <3>2. ToSet(messages) \subseteq Messages
      BY <1>2 DEF ToSet
    <3> QED
      BY <1>5, <3>1, <3>2
  <2> QED
    BY <2>2, <2>3, <2>4, <2>5, <2>6
<1>6. "answered" \notin Asking \cup {"found"} /\ "answered" \notin InWait
  BY DEF Asking, InWait
<1> HIDE DEF new
<1>7. \A m \in ToSet(new.got) : m.n > new.n /\ m.kind = "direct"
  BY <1>3, <1>5
<1>8. new.pc \notin Asking \cup {"found"} /\ new.pc \notin InWait /\ new.pc # "waiting"
  BY <1>3, <1>6
<1>9. UNCHANGED <<rooms, created, device, sent>> /\ notify' = notify /\ waiters' = waiters
  OBVIOUS
<1> QED
  BY <1>3, <1>4, <1>7, <1>8, <1>9, Unchanged, ViewerStep

-----------------------------------------------------------------------------
(* What becomes of the rooms in steps that send nothing.                    *)

LEMMA EmptyOrdered == ASSUME NEW last PROVE Ordered(<<>>, last)
BY DEF Ordered

LEMMA RoomsStep ==
    ASSUME Inv, device' \in [Device -> DeviceType],
           UNCHANGED <<notify, viewer, sent, waiters>>,
           created' \in 0..MaxRooms, created <= created',
           \A r \in DOMAIN rooms' :
              /\ rooms'[r] \in RoomType
              /\ \/ r \in DOMAIN rooms /\ rooms'[r].messages = rooms[r].messages
                 \/ r = created' /\ r > created /\ rooms'[r].messages = <<>>
    PROVE  Inv'
<1>1. RoomsOK
  BY DEF Inv
<1>2. ASSUME NEW r \in DOMAIN rooms' PROVE RoomOK(rooms'[r], sent) /\ r \in 1..created'
  <2>1. CASE r \in DOMAIN rooms /\ rooms'[r].messages = rooms[r].messages
    <3>1. Ordered(rooms'[r].messages, sent)
      BY <1>1, <2>1, RoomFacts
    <3>2. r \in 1..created /\ created \in Nat
      BY <1>1, <2>1 DEF RoomsOK
    <3> QED
      BY <3>1, <3>2 DEF RoomOK
  <2>2. CASE r = created' /\ r > created /\ rooms'[r].messages = <<>>
    <3>1. Ordered(rooms'[r].messages, sent)
      BY <2>2, EmptyOrdered
    <3>2. r \in 1..created'
      BY <1>1, <2>2 DEF RoomsOK
    <3> QED
      BY <3>1, <3>2 DEF RoomOK
  <2> QED
    BY <2>1, <2>2
<1>3. RoomsOK'
  BY <1>1, <1>2 DEF RoomsOK
<1> QED
  BY <1>3, QuietStep

(* Existing rooms only change in what is not a message, or go.              *)
LEMMA SameLists ==
    ASSUME Inv, device' \in [Device -> DeviceType],
           UNCHANGED <<notify, created, viewer, sent, waiters>>,
           \A r \in DOMAIN rooms' :
              /\ r \in DOMAIN rooms /\ rooms'[r] \in RoomType
              /\ rooms'[r].messages = rooms[r].messages
    PROVE  Inv'
<1>1. created' \in 0..MaxRooms /\ created <= created'
  BY BoundAssumption DEF Inv, RoomsOK
<1> QED
  BY <1>1, RoomsStep

LEMMA KeepaliveStep ==
    ASSUME Inv, device' \in [Device -> DeviceType],
           UNCHANGED <<notify, created, viewer, sent, waiters>>, NEW r, Keepalive(r)
    PROVE  Inv'
<1>1. ASSUME NEW q \in DOMAIN rooms'
      PROVE  /\ q \in DOMAIN rooms /\ rooms'[q] \in RoomType
             /\ rooms'[q].messages = rooms[q].messages
  <2>1. rooms' = IF r \in DOMAIN rooms THEN [rooms EXCEPT ![r].silent = 0] ELSE rooms
    BY DEF Keepalive, Exists
  <2>2. q \in DOMAIN rooms /\ rooms[q] \in RoomType
    BY <1>1, <2>1, RoomFacts DEF Inv
  <2>3. rooms'[q] = rooms[q] \/ rooms'[q] = [rooms[q] EXCEPT !.silent = 0]
    BY <2>1, <2>2
  <2>4. 0 \in 0..(Expiry - 1)
    BY ExpiryAssumption
  <2> QED
    BY <2>2, <2>3, <2>4 DEF RoomType
<1> QED
  BY <1>1, SameLists

LEMMA AddParticipantStep ==
    ASSUME Inv, device' \in [Device -> DeviceType],
           UNCHANGED <<notify, created, viewer, sent, waiters>>,
           NEW r, NEW d \in Device, AddParticipant(r, d)
    PROVE  Inv'
<1>1. ASSUME NEW q \in DOMAIN rooms'
      PROVE  /\ q \in DOMAIN rooms /\ rooms'[q] \in RoomType
             /\ rooms'[q].messages = rooms[q].messages
  <2>1. rooms' = IF r \in DOMAIN rooms THEN [rooms EXCEPT ![r].parts = @ \cup {d}] ELSE rooms
    BY DEF AddParticipant, Exists
  <2>2. q \in DOMAIN rooms /\ rooms[q] \in RoomType
    BY <1>1, <2>1, RoomFacts DEF Inv
  <2>3. \/ rooms'[q] = rooms[q]
        \/ rooms'[q] = [rooms[q] EXCEPT !.parts = rooms[q].parts \cup {d}]
    BY <2>1, <2>2
  <2>4. rooms[q].parts \cup {d} \in (SUBSET Device) \ {{}}
    BY <2>2 DEF RoomType
  <2> QED
    BY <2>2, <2>3, <2>4 DEF RoomType
<1> QED
  BY <1>1, SameLists

LEMMA CreateRoomStep ==
    ASSUME Inv, device' \in [Device -> DeviceType],
           UNCHANGED <<notify, viewer, sent, waiters>>, NEW d \in Device, CreateRoom(d)
    PROVE  Inv'
<1>1. /\ created < MaxRooms /\ created' = created + 1
      /\ rooms' = [r \in DOMAIN rooms \cup {created'} |->
                      IF r = created' THEN Room({d}) ELSE rooms[r]]
  BY DEF CreateRoom
<1>2. created' \in 0..MaxRooms /\ created <= created' /\ created' > created
  BY <1>1, BoundAssumption DEF Inv, RoomsOK
<1>3. Room({d}) \in RoomType /\ Room({d}).messages = <<>>
  BY ExpiryAssumption DEF Room, RoomType
<1>4. ASSUME NEW q \in DOMAIN rooms'
      PROVE  /\ rooms'[q] \in RoomType
             /\ \/ q \in DOMAIN rooms /\ rooms'[q].messages = rooms[q].messages
                \/ q = created' /\ q > created /\ rooms'[q].messages = <<>>
  <2>1. CASE q = created'
    BY <1>1, <1>2, <1>3, <2>1
  <2>2. CASE q # created'
    <3>1. q \in DOMAIN rooms /\ rooms'[q] = rooms[q]
      BY <1>1, <1>4, <2>2
    <3> QED
      BY <3>1, RoomFacts DEF Inv
  <2> QED
    BY <2>1, <2>2
<1> QED
  BY <1>2, <1>4, RoomsStep

LEMMA WithoutStep ==
    ASSUME Inv, UNCHANGED <<notify, created, device, viewer, sent, waiters>>,
           NEW gone, rooms' = Without(gone)
    PROVE  Inv'
<1>1. ASSUME NEW q \in DOMAIN rooms'
      PROVE  /\ q \in DOMAIN rooms /\ rooms'[q] \in RoomType
             /\ rooms'[q].messages = rooms[q].messages
  <2>1. q \in DOMAIN rooms /\ rooms'[q] = rooms[q]
    BY <1>1 DEF Without
  <2> QED
    BY <2>1, RoomFacts DEF Inv
<1>2. device' \in [Device -> DeviceType]
  BY DEF Inv, Typed
<1> QED
  BY <1>1, <1>2, SameLists

LEMMA DisconnectStep ==
    ASSUME Inv, NEW d \in Device, Disconnect(d)
    PROVE  Inv'
<1>1. PICK r \in DOMAIN rooms :
         rooms' = IF rooms[r].parts = {d} THEN Without({r})
                  ELSE [rooms EXCEPT ![r].parts = @ \ {d}]
  BY DEF Disconnect, RemoveParticipant
<1>2. CASE rooms[r].parts = {d}
  BY <1>1, <1>2, WithoutStep DEF Disconnect
<1>3. CASE rooms[r].parts # {d}
  <2>1. ASSUME NEW q \in DOMAIN rooms'
        PROVE  /\ q \in DOMAIN rooms /\ rooms'[q] \in RoomType
               /\ rooms'[q].messages = rooms[q].messages
    <3>1. q \in DOMAIN rooms /\ rooms[q] \in RoomType
      BY <1>1, <1>3, <2>1, RoomFacts DEF Inv
    <3>2. \/ rooms'[q] = rooms[q]
          \/ q = r /\ rooms'[q] = [rooms[q] EXCEPT !.parts = rooms[q].parts \ {d}]
      BY <1>1, <1>3, <3>1
    <3>3. q = r => rooms[q].parts \ {d} \in (SUBSET Device) \ {{}}
      BY <1>3, <3>1 DEF RoomType
    <3> QED
      BY <3>1, <3>2, <3>3 DEF RoomType
  <2>2. device' \in [Device -> DeviceType] /\ UNCHANGED <<notify, created, viewer, sent, waiters>>
    BY DEF Disconnect, Inv, Typed
  <2> QED
    BY <2>1, <2>2, SameLists
<1> QED
  BY <1>2, <1>3

LEMMA TickStep ==
    ASSUME Inv, Tick
    PROVE  Inv'
<1>1. ASSUME NEW q \in DOMAIN rooms'
      PROVE  /\ q \in DOMAIN rooms /\ rooms'[q] \in RoomType
             /\ rooms'[q].messages = rooms[q].messages
  <2>1. /\ q \in DOMAIN rooms /\ ~Expired(q)
        /\ rooms'[q] = [rooms[q] EXCEPT !.silent = rooms[q].silent + 1]
    BY <1>1 DEF Tick
  <2>2. rooms[q] \in RoomType
    BY <2>1, RoomFacts DEF Inv
  <2>3. rooms[q].silent \in 0..(Expiry - 1)
    BY <2>2 DEF RoomType
  <2>4. rooms[q].silent + 1 \in 0..(Expiry - 1)
    BY <2>1, <2>3, ExpiryAssumption DEF Expired
  <2> QED
    BY <2>1, <2>2, <2>4 DEF RoomType
<1>2. device' \in [Device -> DeviceType] /\ UNCHANGED <<notify, created, viewer, sent, waiters>>
  BY DEF Tick, Inv, Typed
<1> QED
  BY <1>1, <1>2, SameLists

-----------------------------------------------------------------------------
(* The actions of a tablet.                                                 *)

LEMMA DeviceSteps ==
    ASSUME Inv, NEW d \in Device,
           \/ OnPublish(d) \/ Ignored(d) \/ LookForRoom(d) \/ MakeOrJoin(d)
           \/ HttpCreate(d) \/ Disconnect(d)
           \/ \E r \in RoomId : Join(d, r) \/ Direct(d, r) \/ Broadcast(d, r)
    PROVE  Inv'
<1>1. device \in [Device -> DeviceType] /\ Idle \in DeviceType
  BY DEF Inv, Typed, DeviceType
<1>2. Handled(d) \/ UNCHANGED device => device' \in [Device -> DeviceType]
  BY <1>1 DEF Handled
<1>3. ASSUME NEW r \in DOMAIN rooms PROVE rooms[r] \in RoomType
  BY RoomFacts DEF Inv
<1>4. CASE OnPublish(d)
  <2>1. device' \in [Device -> DeviceType]
    BY <1>1, <1>4 DEF OnPublish, DeviceType
  <2> QED
    BY <1>4, <2>1, KeepaliveStep DEF OnPublish
<1>5. CASE Ignored(d)
  BY <1>2, <1>3, <1>5, SameLists DEF Ignored
<1>6. CASE LookForRoom(d)
  <2>1. FindActiveRoom \in RoomId \cup {None}
    BY ActiveRoom DEF Inv
  <2>2. device' \in [Device -> DeviceType]
    BY <1>1, <1>6, <2>1 DEF LookForRoom, DeviceType
  <2> QED
    BY <1>3, <1>6, <2>2, SameLists DEF LookForRoom
<1>7. CASE MakeOrJoin(d)
  <2>1. device' \in [Device -> DeviceType]
    BY <1>1, <1>7 DEF MakeOrJoin
  <2>2. CASE device[d].room = None
    BY <1>7, <2>1, <2>2, CreateRoomStep DEF MakeOrJoin
  <2>3. CASE device[d].room # None
    <3>1. AddParticipant(device[d].room, d) /\ UNCHANGED <<notify, created, viewer, sent, waiters>>
      BY <1>7, <2>3 DEF MakeOrJoin, AddParticipant
    <3> QED
      BY <2>1, <3>1, AddParticipantStep
  <2> QED
    BY <2>2, <2>3
<1>8. CASE HttpCreate(d)
  BY <1>1, <1>8, CreateRoomStep DEF HttpCreate
<1>9. CASE Disconnect(d)
  BY <1>9, DisconnectStep
<1>10. ASSUME NEW r \in RoomId, Join(d, r) PROVE Inv'
  BY <1>2, <1>10, AddParticipantStep DEF Join
<1>11. ASSUME NEW r \in RoomId, Direct(d, r) PROVE Inv'
  BY <1>2, <1>11, DirectStep DEF Direct
<1>12. ASSUME NEW r \in RoomId, Broadcast(d, r) PROVE Inv'
  BY <1>2, <1>12, BroadcastStep DEF Broadcast
<1> QED
  BY <1>4, <1>5, <1>6, <1>7, <1>8, <1>9, <1>10, <1>11, <1>12

-----------------------------------------------------------------------------
(* The actions of a browser.                                                *)

LEMMA FindStep ==
    ASSUME Inv, NEW v \in Viewer, FindRoom(v)
    PROVE  Inv'
<1> DEFINE new == [pc |-> "found", room |-> FindActiveRoom]
<1>1. FindActiveRoom \in DOMAIN rooms /\ FindActiveRoom \in RoomId
  BY ActiveRoom, NoneAssumption DEF FindRoom, Inv, RoomsOK, RoomId
<1>2. FindActiveRoom <= created
  BY <1>1 DEF Inv, RoomsOK
<1>3. new \in ViewerType /\ new.pc = "found" /\ new.room <= created
  BY <1>1, <1>2 DEF ViewerType
<1>4. viewer' = [viewer EXCEPT ![v] = new]
  BY DEF FindRoom
<1>5. "found" \notin Asking /\ "found" \notin InWait
  BY DEF Asking, InWait
<1> HIDE DEF new
<1>6. UNCHANGED <<rooms, created, device, sent>> /\ notify' = notify /\ waiters' = waiters
  BY DEF FindRoom
<1> QED
  BY <1>3, <1>4, <1>5, <1>6, Unchanged, ViewerStep

LEMMA WaitStep ==
    ASSUME Inv, NEW v \in Viewer, WaitForMessages(v)
    PROVE  Inv'
<1>1. viewer[v].pc \in Asking /\ UNCHANGED <<rooms, notify, created, device, sent>>
  BY DEF WaitForMessages, At, Asking
<1>2. viewer[v].room \in RoomId
  BY <1>1, AskingFacts
<1>3. CASE Exists(viewer[v].room)
  <2>1. /\ viewer' = [viewer EXCEPT ![v].pc = "checking"]
        /\ waiters' = [waiters EXCEPT ![viewer[v].room] = @ \cup {v}]
    BY <1>3 DEF WaitForMessages
  <2>2. /\ waiters' \in [RoomId -> SUBSET Viewer] /\ v \in waiters'[viewer[v].room]
        /\ \A r \in RoomId : waiters[r] \subseteq waiters'[r]
    BY <1>2, <2>1, Unchanged
  <2>3. "checking" \in InWait
    BY DEF InWait
  <2> QED
    BY <1>1, <2>1, <2>2, <2>3, Unchanged, NextLabel
<1>4. CASE ~Exists(viewer[v].room)
  <2>1. Answered(v, <<>>) /\ UNCHANGED waiters
    BY <1>4 DEF WaitForMessages, Answered
  <2> QED
    BY <1>1, <2>1, AnswerStep
<1> QED
  BY <1>3, <1>4

LEMMA CheckStep ==
    ASSUME Inv, NEW v \in Viewer, Check(v)
    PROVE  Inv'
<1> DEFINE label == IF GetMessages(viewer[v].room) = <<>> THEN "waiting" ELSE "settling"
<1>1. viewer[v].pc \in Asking /\ viewer[v].pc \in InWait
  BY DEF Check, At, Asking, InWait
<1>2. label \in InWait /\ (label = "waiting" => GetMessages(viewer[v].room) = <<>>)
  BY DEF InWait
<1>3. viewer' = [viewer EXCEPT ![v].pc = label]
  BY DEF Check
<1>4. UNCHANGED <<rooms, created, device, sent>> /\ notify' = notify /\ waiters' = waiters
  BY DEF Check
<1>5. v \in waiters[viewer[v].room]
  BY <1>1, ViewerAt
<1> HIDE DEF label
<1> QED
  BY <1>1, <1>2, <1>3, <1>4, <1>5, Unchanged, NextLabel

LEMMA WakeStep ==
    ASSUME Inv, NEW v \in Viewer, Wake(v)
    PROVE  Inv'
<1> DEFINE r == viewer[v].room
<1>1. viewer[v].pc \in Asking /\ viewer[v].pc \in InWait /\ "checking" \in InWait
  BY DEF Wake, At, Asking, InWait
<1>2. r \in RoomId /\ v \in waiters[r]
  BY <1>1, AskingFacts, ViewerAt
<1>3. /\ viewer' = [viewer EXCEPT ![v].pc = "checking"]
      /\ notify' = [notify EXCEPT ![r] = 0]
      /\ UNCHANGED <<rooms, created, device, sent>> /\ waiters' = waiters
  BY DEF Wake
<1> HIDE DEF r
<1>4. notify' \in [RoomId -> {0, 1}] /\ \A q \in RoomId : notify'[q] = notify[q] \/ v \in waiters[q]
  BY <1>2, <1>3, Unchanged
<1>5. v \in waiters[viewer[v].room]
  BY <1>2 DEF r
<1> QED
  BY <1>1, <1>3, <1>4, <1>5, Unchanged, NextLabel

LEMMA ViewerSteps ==
    ASSUME Inv, NEW v \in Viewer, FindRoom(v) \/ Ask(v) \/ Serve(v) \/ SendAnswer(v)
    PROVE  Inv'
<1>1. CASE Ask(v)
  <2>1. device' \in [Device -> DeviceType]
    BY <1>1 DEF Ask, Inv, Typed
  <2>2. /\ viewer[v].pc = "found" /\ AddBroadcast(viewer[v].room)
        /\ UNCHANGED <<notify, created, waiters>>
        /\ viewer' = [viewer EXCEPT ![v] = [pc |-> "asked", room |-> viewer[v].room, n |-> sent']]
    BY <1>1, Unchanged DEF Ask, At
  <2> QED
    BY <2>1, <2>2, BroadcastStep
<1>2. CASE Deadline(v) \/ Settle(v)
  <2>1. viewer[v].pc \in Asking
    BY <1>2 DEF Deadline, Settle, At, Asking, InWait
  <2>2. Answered(v, <<>>) \/ Answered(v, GetMessages(viewer[v].room))
    BY <1>2 DEF Deadline, Settle
  <2>3. UNCHANGED <<rooms, created, device, sent, notify, waiters>>
    BY <1>2 DEF Deadline, Settle
  <2> QED
    BY <2>1, <2>2, <2>3, AnswerStep
<1>3. CASE SendAnswer(v)
  <2>1. viewer[v].room \in RoomId
    <3>1. viewer[v].room \in DOMAIN rooms
      BY <1>3 DEF SendAnswer, Exists
    <3> QED
      BY <3>1, BoundAssumption DEF Inv, RoomsOK, RoomId
  <2>2. device' \in [Device -> DeviceType]
    BY <1>3 DEF SendAnswer, Inv, Typed
  <2> QED
    BY <1>3, <2>1, <2>2, DirectStep DEF SendAnswer
<1> QED
  BY <1>1, <1>2, <1>3, FindStep, WaitStep, CheckStep, WakeStep DEF Serve

-----------------------------------------------------------------------------
LEMMA InitInv == ASSUME Init PROVE Inv
<1>1. RoomsOK
  BY BoundAssumption DEF Init, RoomsOK
<1>2. Typed
  BY DEF Init, Typed, DeviceType, ViewerType
<1>3. \A v \in Viewer : viewer[v].pc = "idle"
  BY DEF Init, Idle
<1>4. RequestsOK /\ HandedIsFresh /\ NoSleepOverMessage
  BY <1>3 DEF RequestsOK, HandedIsFresh, NoSleepOverMessage, At, Asking, InWait
<1> QED
  BY <1>1, <1>2, <1>4 DEF Inv

LEMMA StutterStep == ASSUME Inv, UNCHANGED vars PROVE Inv'
BY DEF vars, Inv, RoomsOK, Typed, RequestsOK, HandedIsFresh, NoSleepOverMessage, At,
       GetMessages, Exists

(* Every reachable state has its types, its lists begin as they should, and *)
(* its requests know what their rooms' lists begin with.                    *)
THEOREM Invariant == Spec => []Inv
<1>1. ASSUME Inv, Next PROVE Inv'
  <2>1. CASE DeleteRooms
    BY <1>1, <2>1, WithoutStep DEF DeleteRooms
  <2>2. ASSUME NEW r \in RoomId, Refresh(r) PROVE Inv'
    <3>1. device' \in [Device -> DeviceType]
      BY <1>1, <2>2 DEF Refresh, Inv, Typed
    <3> QED
      BY <1>1, <2>2, <3>1, KeepaliveStep DEF Refresh
  <2> QED
    BY <1>1, <2>1, <2>2, TickStep, DeviceSteps, ViewerSteps DEF Next
<1>2. Init => Inv
  BY InitInv
<1>3. Inv /\ [Next]_vars => Inv'
  BY <1>1, StutterStep
<1> QED
  BY <1>2, <1>3, PTL DEF Spec

(* Rooms, messages, tokens and requests keep their types (RoomManager).      *)
THEOREM TypeCorrect == Spec => []TypeOK
<1>1. ASSUME Inv PROVE TypeOK
  <2>1. ASSUME NEW r \in DOMAIN rooms
        PROVE  /\ rooms[r].parts \in (SUBSET Device) \ {{}}
               /\ ToSet(rooms[r].messages) \subseteq Messages
               /\ rooms[r].silent \in 0..(Expiry - 1)
    BY <1>1, RoomFacts DEF Inv, RoomType, ToSet
  <2>2. \A d \in Device : "room" \in DOMAIN device[d] => device[d].room \in RoomId \cup {None}
    BY <1>1 DEF Inv, Typed, DeviceType, Idle
  <2>3. ASSUME NEW v \in Viewer, "room" \in DOMAIN viewer[v] PROVE viewer[v].room \in RoomId
    <3>1. viewer[v] \in ViewerType
      BY <1>1, AskingFacts
    <3>2. viewer[v] # Idle /\ viewer[v] \notin [pc : {"answered"}, got : {<<>>}]
      BY <2>3 DEF Idle
    <3> QED
      BY <3>1, <3>2 DEF ViewerType
  <2> QED
    BY <1>1, <2>1, <2>2, <2>3 DEF Inv, RoomsOK, Typed, TypeOK
<1> QED
  BY <1>1, Invariant, PTL

(* What a browser is handed was sent after it asked, and is never a request *)
(* of another browser's (AddBroadcast, WaitForMessages).                    *)
THEOREM AlwaysHandedFresh == Spec => []HandedIsFresh
<1>1. Inv => HandedIsFresh
  BY DEF Inv
<1> QED
  BY <1>1, Invariant, PTL

(* A browser alone in a room does not sleep over a message (AddDirect,      *)
(* WaitForMessages).                                                        *)
THEOREM NeverSleepsOverMessage == Spec => []NoSleepOverMessage
<1>1. Inv => NoSleepOverMessage
  BY DEF Inv
<1> QED
  BY <1>1, Invariant, PTL
=============================================================================
