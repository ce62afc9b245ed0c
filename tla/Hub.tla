--------------------------------- MODULE Hub ---------------------------------
(***************************************************************************)
(* The websocket hub (internal/app/hub/hub.go): one goroutine adds and     *)
(* removes the connections of tablets and dispatches notifications to      *)
(* them.  Every connection has three goroutines of its own: ConnectWs,     *)
(* which waits for either of the others to end, a reader and a writer.     *)
(*                                                                         *)
(* additions, removals and each connection's notifications are unbuffered  *)
(* channels, so that a send is a step of the sender and of the receiver    *)
(* together; h.notifications is a queue of QueueSize.                      *)
(***************************************************************************)
EXTENDS Integers, Sequences, FiniteSets, SequencesExt

CONSTANTS Conn,        \* the websocket connections ever made
          UserOf,      \* the user of each connection
          DeviceOf,    \* and its device
          NoDevice,    \* the source of a passcode reset's notification
          Note,        \* what the server's handlers send, each once
          NoteUser,    \* the user of each notification
          NoteFrom,    \* the device it comes from
          QueueSize    \* 5 in NewHub

ASSUME QueueAssumption == QueueSize \in Nat \ {0}
ASSUME DeviceAssumption ==
    /\ DOMAIN UserOf = Conn /\ DOMAIN DeviceOf = Conn
    /\ DOMAIN NoteUser = Note /\ DOMAIN NoteFrom = Note
    /\ NoDevice \notin {DeviceOf[c] : c \in Conn}

VARIABLES
    phase,    \* where each connection's ConnectWs is
    reader,   \* its readMessages
    writer,   \* its writeMessages
    clients,  \* allClients, and userClients by UserOf
    queue,    \* the channel notifications
    hub,      \* what the hub's goroutine is doing
    got,      \* what each writer took, in order
    dropped,  \* <<c, n>> when n was dropped because c's writer was busy
    sent      \* the notifications dispatched, in order, and to whom

hubVars == <<phase, reader, writer, clients, queue, hub, got, dropped, sent>>

Phases == {"new", "adding", "added", "serving", "removing", "gone"}

Selecting == [pc |-> "select"]

HubInit ==
    /\ phase = [c \in Conn |-> "new"]
    /\ reader = [c \in Conn |-> "none"]
    /\ writer = [c \in Conn |-> "none"]
    /\ clients = {}
    /\ queue = <<>>
    /\ hub = Selecting
    /\ got = [c \in Conn |-> <<>>]
    /\ dropped = {}
    /\ sent = <<>>

Move(c, from, to) == phase[c] = from /\ phase' = [phase EXCEPT ![c] = to]

(* c.done is closed, and the hub has closed c.notifications.                *)
Done(c) == phase[c] \in {"removing", "gone"}
ChannelClosed(c) == phase[c] = "gone"

HalfEnded(c) == reader[c] = "ended" \/ writer[c] = "ended"

-----------------------------------------------------------------------------
(* One connection's goroutines.                                             *)

(* ConnectWs is called and blocks on additions.                             *)
Connect(c) ==
    /\ Move(c, "new", "adding")
    /\ UNCHANGED <<reader, writer, clients, queue, hub, got, dropped, sent>>

(* It goes on, after the hub has added it, by starting the other two.       *)
Serve(c) ==
    /\ Move(c, "added", "serving")
    /\ reader' = [reader EXCEPT ![c] = "reading"]
    /\ writer' = [writer EXCEPT ![c] = "waiting"]
    /\ UNCHANGED <<clients, queue, hub, got, dropped, sent>>

(* The peer closes, or the writer has closed the websocket.  After Close    *)
(* nobody hears of it: done has room for both goroutines.                   *)
ReaderEnds(c) ==
    /\ reader[c] = "reading"
    /\ ~Done(c)
    /\ reader' = [reader EXCEPT ![c] = "ended"]
    /\ UNCHANGED <<phase, writer, clients, queue, hub, got, dropped, sent>>

Written(c) ==
    /\ writer[c] = "writing"
    /\ writer' = [writer EXCEPT ![c] = "waiting"]
    /\ UNCHANGED <<phase, reader, clients, queue, hub, got, dropped, sent>>

(* The write fails, at the latest after ten seconds.                        *)
WriteFails(c) ==
    /\ writer[c] = "writing"
    /\ writer' = [writer EXCEPT ![c] = "ended"]
    /\ UNCHANGED <<phase, reader, clients, queue, hub, got, dropped, sent>>

(* The writer finds c.done or c.notifications closed.                       *)
WriterEnds(c) ==
    /\ writer[c] = "waiting"
    /\ Done(c)
    /\ writer' = [writer EXCEPT ![c] = "ended"]
    /\ UNCHANGED <<phase, reader, clients, queue, hub, got, dropped, sent>>

(* Mutant: ConnectWs removes the client itself instead of asking the hub.   *)
RemovesItself(c) ==
    /\ HalfEnded(c)
    /\ Move(c, "serving", "gone")
    /\ clients' = clients \ {c}
    /\ UNCHANGED <<reader, writer, queue, hub, got, dropped, sent>>

(* ConnectWs hears that one of them ended, closes done, blocks on removals. *)
Close(c) ==
    /\ HalfEnded(c)
    /\ Move(c, "serving", "removing")
    /\ UNCHANGED <<reader, writer, clients, queue, hub, got, dropped, sent>>

-----------------------------------------------------------------------------
(* NotifySync, Notify, NotifyPasscodeReset and NotifyScreenshare block      *)
(* while the queue is full.                                                 *)
Published == Range(queue) \cup Range(sent) \cup IF hub = Selecting THEN {} ELSE {hub.note}

Notify(n) ==
    /\ n \notin Published
    /\ Len(queue) < QueueSize
    /\ queue' = Append(queue, n)
    /\ UNCHANGED <<phase, reader, writer, clients, hub, got, dropped, sent>>

-----------------------------------------------------------------------------
(* The hub's goroutine: start, removeClient and send.                       *)

HubAdds(c) ==
    /\ hub = Selecting
    /\ Move(c, "adding", "added")
    /\ clients' = clients \cup {c}
    /\ UNCHANGED <<reader, writer, queue, hub, got, dropped, sent>>

HubRemoves(c) ==
    /\ hub = Selecting
    /\ Move(c, "removing", "gone")
    /\ clients' = clients \ {c}
    /\ UNCHANGED <<reader, writer, queue, hub, got, dropped, sent>>

HubTakes ==
    /\ hub = Selecting
    /\ queue # <<>>
    /\ hub' = LET to == {c \in clients : UserOf[c] = NoteUser[Head(queue)]}
              IN  [pc |-> "send", note |-> Head(queue), to |-> to, left |-> to,
                   aborted |-> FALSE]
    /\ queue' = Tail(queue)
    /\ UNCHANGED <<phase, reader, writer, clients, got, dropped, sent>>

Sending(c) == hub # Selecting /\ ~hub.aborted /\ c \in hub.left
IsSource(c) == DeviceOf[c] = NoteFrom[hub.note]
Visited(c) == hub' = [hub EXCEPT !.left = @ \ {c}]

SkipsSource(c) ==
    /\ Sending(c)
    /\ IsSource(c)
    /\ Visited(c)
    /\ UNCHANGED <<phase, reader, writer, clients, queue, got, dropped, sent>>

Delivers(c) ==
    /\ Sending(c)
    /\ ~IsSource(c)
    /\ writer[c] = "waiting"
    /\ writer' = [writer EXCEPT ![c] = "writing"]
    /\ got' = [got EXCEPT ![c] = Append(@, hub.note)]
    /\ Visited(c)
    /\ UNCHANGED <<phase, reader, clients, queue, dropped, sent>>

(* Mutant: what a busy writer misses is queued again.                       *)
QueuesAgain(c) ==
    /\ Sending(c)
    /\ ~IsSource(c)
    /\ writer[c] # "waiting"
    /\ ~Done(c)
    /\ Len(queue) < QueueSize
    /\ queue' = Append(queue, hub.note)
    /\ Visited(c)
    /\ UNCHANGED <<phase, reader, writer, clients, got, dropped, sent>>

(* Mutant: a busy writer ends the loop, as a closed client does.            *)
StopsAtBusy(c) ==
    /\ Sending(c)
    /\ ~IsSource(c)
    /\ writer[c] # "waiting"
    /\ ~Done(c)
    /\ dropped' = dropped \cup {<<c, hub.note>>}
    /\ hub' = [hub EXCEPT !.aborted = TRUE]
    /\ UNCHANGED <<phase, reader, writer, clients, queue, got, sent>>

(* The default of send's select: neither channel is ready.                  *)
Drops(c) ==
    /\ Sending(c)
    /\ ~IsSource(c)
    /\ writer[c] # "waiting"
    /\ ~Done(c)
    /\ dropped' = dropped \cup {<<c, hub.note>>}
    /\ Visited(c)
    /\ UNCHANGED <<phase, reader, writer, clients, queue, got, sent>>

(* c.done is closed: send returns, whoever is left.                         *)
Aborts(c) ==
    /\ Sending(c)
    /\ ~IsSource(c)
    /\ Done(c)
    /\ hub' = [hub EXCEPT !.aborted = TRUE]
    /\ UNCHANGED <<phase, reader, writer, clients, queue, got, dropped, sent>>

HubReturns ==
    /\ hub # Selecting
    /\ hub.aborted \/ hub.left = {}
    /\ sent' = Append(sent, hub.note)
    /\ hub' = Selecting
    /\ UNCHANGED <<phase, reader, writer, clients, queue, got, dropped>>

(* Mutant: a plain channel send instead of the select.                      *)
SendBlocks(c) == SkipsSource(c) \/ Delivers(c)

Send(c) == SkipsSource(c) \/ Delivers(c) \/ Drops(c) \/ Aborts(c)

HubNext ==
    \/ \E c \in Conn :
          \/ Connect(c) \/ Serve(c) \/ ReaderEnds(c) \/ Written(c) \/ WriteFails(c)
          \/ WriterEnds(c) \/ Close(c) \/ HubAdds(c) \/ HubRemoves(c) \/ Send(c)
    \/ \E n \in Note : Notify(n)
    \/ HubTakes \/ HubReturns

(* The Go runtime runs every goroutine that is ready; a write ends within   *)
(* ten seconds; select chooses among the ready channels at random.          *)
HubFairness ==
    /\ WF_hubVars(HubTakes) /\ WF_hubVars(HubReturns)
    /\ \A c \in Conn :
          /\ WF_hubVars(Serve(c)) /\ WF_hubVars(Close(c)) /\ WF_hubVars(Send(c))
          /\ WF_hubVars(HubAdds(c)) /\ SF_hubVars(HubRemoves(c))
          /\ WF_hubVars(Written(c) \/ WriteFails(c)) /\ WF_hubVars(WriterEnds(c))

HubSafety == HubInit /\ [][HubNext]_hubVars
HubSpec == HubSafety /\ HubFairness

-----------------------------------------------------------------------------
HubType ==
    {Selecting} \cup [pc : {"send"}, note : Note, to : SUBSET Conn,
                      left : SUBSET Conn, aborted : BOOLEAN]

HubTypeOK ==
    /\ phase \in [Conn -> Phases]
    /\ reader \in [Conn -> {"none", "reading", "ended"}]
    /\ writer \in [Conn -> {"none", "waiting", "writing", "ended"}]
    /\ clients \subseteq Conn
    /\ queue \in Seq(Note) /\ Len(queue) <= QueueSize
    /\ hub \in HubType
    /\ got \in [Conn -> Seq(Note)]
    /\ dropped \subseteq Conn \X Note
    /\ sent \in Seq(Note)

(* The hub never sends on a channel that is closed, which would stop the    *)
(* whole server: a client's channel is closed by removeClient while other   *)
(* goroutines decide when the client ends.                                  *)
NoSendOnClosed == \A c \in Conn : Sending(c) => ~ChannelClosed(c)

(* A connection hears each notification at most once and in the order in    *)
(* which they were dispatched, whatever its writer misses (start, send).    *)
Dispatched == IF hub = Selecting THEN sent ELSE Append(sent, hub.note)

Before(m, n) ==
    \E i, j \in DOMAIN Dispatched : i < j /\ Dispatched[i] = m /\ Dispatched[j] = n

DeliveredInOrder ==
    \A c \in Conn :
        /\ Range(got[c]) \subseteq Range(Dispatched)
        /\ \A i, j \in DOMAIN got[c] : i < j =>
              got[c][i] # got[c][j] /\ Before(got[c][i], got[c][j])

Missed(c) ==
    /\ ~IsSource(c) /\ ~Done(c)
    /\ hub.note \notin Range(got[c]) /\ <<c, hub.note>> \notin dropped

SendEnds == hub # Selecting /\ (hub.aborted \/ hub.left = {})

(* A connected device misses a notification only if its own writer was busy *)
(* or if another connection of the same user was closing (send).            *)
MissedOnlyByClosing ==
    SendEnds => \A c \in hub.to : Missed(c) => \E d \in hub.to : Done(d)

(* What was queued is dispatched, so no handler blocks for ever on a full   *)
(* queue, even if writers are stuck and connections come and go.            *)
QueuedIsDispatched == \A n \in Note : n \in Range(queue) ~> n \in Range(sent)
=============================================================================
