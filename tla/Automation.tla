------------------------------ MODULE Automation ------------------------------
(***************************************************************************)
(* Outbound automation (internal/automation): the event bus with a queue   *)
(* and a worker per subscriber, the registry that keeps one subscriber per *)
(* integration, the manager that saves, deletes and restores integrations  *)
(* and rules, and the retrying delivery that records its outcome in the    *)
(* manager's history.                                                      *)
(*                                                                         *)
(* The manager's mutex is held through Save and Delete, which reach the    *)
(* bus step by step; workers take it to match rules and to record.  Nobody *)
(* waits for a worker: a subscriber that is stopped may still be in the    *)
(* middle of a delivery.  What an event says, and so patterns and filters, *)
(* is left out: a pattern or a rule takes all the events of its user.      *)
(***************************************************************************)
EXTENDS Integers, Sequences, FiniteSets, SequencesExt, TLC

CONSTANTS Id,          \* integration IDs
          User,
          Event,       \* the events of the run, each published once
          EventUser,   \* the user of each event
          None,        \* no integration; no event
          Capacity,    \* of a subscriber's queue: 64
          Retries,     \* Retry.Count: 0 to 3
          HistorySize, \* delivery records kept: 100
          MaxSubs,     \* bound: subscribers ever registered
          MaxRestarts  \* bound

ASSUME AutomationAssumption ==
    Capacity \in Nat \ {0} /\ Retries \in 0..3 /\ HistorySize \in Nat \ {0}
ASSUME BoundAssumption == IsFiniteSet(Id) /\ MaxSubs \in Nat /\ MaxRestarts \in Nat

VARIABLES
    configs,    \* Manager.configs
    rules,      \* Manager.rules, the enabled ones
    disk,       \* integrations.json
    history,    \* Manager.history
    files,      \* the history-<id>.json files
    op,         \* the Save or Delete that holds Manager.mu
    subs,       \* the bus's subscribers, stopped ones included
    published,  \* the events published
    started,    \* <<event, integration ID, subscriber>>: deliveries begun
    restarts

vars == <<configs, rules, disk, history, files, op, subs, published, started, restarts>>

(* A config is disabled, or takes its user's events by its own patterns, or *)
(* by rules only.                                                           *)
Config == [user : User, mode : {"off", "patterns", "rules"}]
ASSUME NoneAssumption == None \notin Config
Rule == [user : User, target : Id]
Delivery == [user : User, event : Event, ok : BOOLEAN]

NoOp == [pc |-> "none"]

Subscriber(id, config) ==
    [id |-> id, config |-> config, active |-> TRUE, queue |-> <<>>,
     pc |-> "idle", event |-> None, attempts |-> 0, ok |-> FALSE]

Ended(s) == [Subscriber(s.id, s.config) EXCEPT !.active = FALSE, !.pc = "stopped"]

Init ==
    /\ configs = [i \in Id |-> None]
    /\ rules = {}
    /\ disk = [configs |-> configs, rules |-> rules]
    /\ history = [i \in Id |-> <<>>]
    /\ files = history
    /\ op = NoOp
    /\ subs = <<>>
    /\ published = {}
    /\ started = {}
    /\ restarts = 0

-----------------------------------------------------------------------------
(* The bus.                                                                 *)

(* Publish never blocks: a full queue drops the event.                      *)
Offered(s, e) ==
    IF s.active /\ Len(s.queue) < Capacity THEN [s EXCEPT !.queue = Append(@, e)] ELSE s

Publish(e) ==
    /\ e \notin published
    /\ published' = published \cup {e}
    /\ subs' = [k \in DOMAIN subs |-> Offered(subs[k], e)]
    /\ UNCHANGED <<configs, rules, disk, history, files, op, started, restarts>>

(* The function that Subscribe returns: no more events, and a canceled      *)
(* context, which the worker will notice.                                   *)
Stopped(ss, id) ==
    [k \in DOMAIN ss |-> IF ss[k].id = id THEN [ss[k] EXCEPT !.active = FALSE] ELSE ss[k]]

-----------------------------------------------------------------------------
(* The manager.                                                             *)

Free == op = NoOp

(* Save: a create needs a free ID, an update keeps the owner.  The file is   *)
(* replaced by a rename, so a write that fails changes nothing at all.      *)
SavePersists(id, c) ==
    /\ Free
    /\ Len(subs) < MaxSubs
    /\ configs[id] # None => configs[id].user = c.user
    /\ configs' = [configs EXCEPT ![id] = c]
    /\ disk' = [configs |-> configs', rules |-> rules]
    /\ op' = [pc |-> "stop", id |-> id]
    /\ UNCHANGED <<rules, history, files, subs, published, started, restarts>>

(* Mutant: the old subscriber's worker is waited for.                       *)
StopWaits ==
    /\ op.pc = "stop"
    /\ \A k \in DOMAIN subs : subs[k].id = op.id => subs[k].pc \in {"idle", "stopped"}
    /\ subs' = Stopped(subs, op.id)
    /\ op' = [op EXCEPT !.pc = "subscribe"]
    /\ UNCHANGED <<configs, rules, disk, history, files, published, started, restarts>>

(* Mutant: the old subscriber is left to finish.                            *)
SkipStop ==
    /\ op.pc = "stop"
    /\ op' = [op EXCEPT !.pc = "subscribe"]
    /\ UNCHANGED <<configs, rules, disk, history, files, subs, published, started, restarts>>

(* Registry.register stops the old subscriber, then subscribes the new one. *)
SaveStops ==
    /\ op.pc = "stop"
    /\ subs' = Stopped(subs, op.id)
    /\ op' = [op EXCEPT !.pc = "subscribe"]
    /\ UNCHANGED <<configs, rules, disk, history, files, published, started, restarts>>

SaveSubscribes ==
    /\ op.pc = "subscribe"
    /\ subs' = Append(subs, Subscriber(op.id, configs[op.id]))
    /\ op' = NoOp
    /\ UNCHANGED <<configs, rules, disk, history, files, published, started, restarts>>

(* Mutant: rules may be left without a target.                              *)
DeleteIgnoresRules(id) ==
    /\ Free
    /\ configs[id] # None
    /\ configs' = [configs EXCEPT ![id] = None]
    /\ disk' = [configs |-> configs', rules |-> rules]
    /\ op' = [pc |-> "remove", id |-> id]
    /\ UNCHANGED <<rules, history, files, subs, published, started, restarts>>

(* Delete: refused while a rule targets the integration.                    *)
DeletePersists(id) ==
    /\ Free
    /\ configs[id] # None
    /\ \A r \in rules : r.target # id
    /\ configs' = [configs EXCEPT ![id] = None]
    /\ disk' = [configs |-> configs', rules |-> rules]
    /\ op' = [pc |-> "remove", id |-> id]
    /\ UNCHANGED <<rules, history, files, subs, published, started, restarts>>

(* Mutant: the subscriber of a deleted integration is forgotten.            *)
DeletesSettingsOnly ==
    /\ op.pc = "remove"
    /\ history' = [history EXCEPT ![op.id] = <<>>]
    /\ files' = [files EXCEPT ![op.id] = <<>>]
    /\ op' = NoOp
    /\ UNCHANGED <<configs, rules, disk, subs, published, started, restarts>>

DeleteRemoves ==
    /\ op.pc = "remove"
    /\ subs' = Stopped(subs, op.id)
    /\ history' = [history EXCEPT ![op.id] = <<>>]
    /\ files' = [files EXCEPT ![op.id] = <<>>]
    /\ op' = NoOp
    /\ UNCHANGED <<configs, rules, disk, published, started, restarts>>

(* ReplaceRules: every rule's destination belongs to the rule's user.       *)
ReplaceRules(R) ==
    /\ Free
    /\ \A r \in R : configs[r.target] # None /\ configs[r.target].user = r.user
    /\ rules' = R
    /\ disk' = [disk EXCEPT !.rules = R]
    /\ UNCHANGED <<configs, history, files, op, subs, published, started, restarts>>

(* The server restarts: OpenManager reads integrations.json, and the        *)
(* history of the integrations it names.                                    *)
Restart ==
    LET live == {i \in Id : disk.configs[i] # None}
        order == SetToSeq(live)
    IN  /\ restarts < MaxRestarts
        /\ restarts' = restarts + 1
        /\ Len(subs) + Cardinality(live) <= MaxSubs
        /\ configs' = disk.configs
        /\ rules' = disk.rules
        /\ history' = [i \in Id |-> IF i \in live THEN files[i] ELSE <<>>]
        /\ op' = NoOp
        /\ subs' = [k \in DOMAIN subs |-> Ended(subs[k])]
                     \o [k \in DOMAIN order |-> Subscriber(order[k], disk.configs[order[k]])]
        /\ UNCHANGED <<disk, files, published, started>>

-----------------------------------------------------------------------------
(* A subscriber's worker: Bus.Subscribe, routed.HandleEvent, deliver.       *)

Worker(k, from, changed) ==
    /\ k \in DOMAIN subs
    /\ subs[k].pc = from
    /\ subs' = [subs EXCEPT ![k] = changed]

(* A canceled worker may find its queue first, but looks at its context     *)
(* again before it handles an event.                                        *)
Stops(k) ==
    /\ k \in DOMAIN subs /\ ~subs[k].active
    /\ Worker(k, "idle", Ended(subs[k]))
    /\ UNCHANGED <<configs, rules, disk, history, files, op, published, started, restarts>>

Takes(k) ==
    /\ k \in DOMAIN subs /\ subs[k].active /\ subs[k].queue # <<>>
    /\ Worker(k, "idle", [subs[k] EXCEPT !.pc = "routing", !.event = Head(subs[k].queue),
                                         !.queue = Tail(@)])
    /\ UNCHANGED <<configs, rules, disk, history, files, op, published, started, restarts>>

Mine(s) == s.config.mode # "off" /\ EventUser[s.event] = s.config.user

(* matchRules, under the manager's mutex, on the rules of the moment.       *)
MatchRules(s) == \E r \in rules : r.target = s.id /\ r.user = EventUser[s.event]

Idle(s) == [s EXCEPT !.pc = "idle", !.event = None, !.attempts = 0, !.ok = FALSE]

Ignores(k) ==
    /\ k \in DOMAIN subs /\ subs[k].pc = "routing"
    /\ ~Mine(subs[k]) \/ (subs[k].config.mode # "patterns" /\ Free /\ ~MatchRules(subs[k]))
    /\ Worker(k, "routing", Idle(subs[k]))
    /\ UNCHANGED <<configs, rules, disk, history, files, op, published, started, restarts>>

Routes(k) ==
    /\ k \in DOMAIN subs /\ subs[k].pc = "routing"
    /\ Mine(subs[k])
    /\ subs[k].config.mode = "patterns" \/ (Free /\ MatchRules(subs[k]))
    /\ Worker(k, "routing", [subs[k] EXCEPT !.pc = "attempt", !.attempts = 1])
    /\ started' = started \cup {<<subs[k].event, subs[k].id, k>>}
    /\ UNCHANGED <<configs, rules, disk, history, files, op, published, restarts>>

(* The receiver accepts, or refuses for good.                               *)
Answered(k) ==
    /\ \E ok \in BOOLEAN : Worker(k, "attempt", [subs[k] EXCEPT !.pc = "record", !.ok = ok])
    /\ UNCHANGED <<configs, rules, disk, history, files, op, published, started, restarts>>

(* A network failure, 408, 429 or 5xx: again after a delay, unless that was *)
(* the last attempt or the context is done, by a stop or after four minutes.*)
Fails(k) ==
    /\ k \in DOMAIN subs
    /\ \/ /\ subs[k].active /\ subs[k].attempts <= Retries
          /\ Worker(k, "attempt", [subs[k] EXCEPT !.attempts = @ + 1])
       \/ Worker(k, "attempt", [subs[k] EXCEPT !.pc = "record"])
    /\ UNCHANGED <<configs, rules, disk, history, files, op, published, started, restarts>>

(* Manager.record: nothing for an integration that is gone, and the oldest  *)
(* record makes room.                                                       *)
Kept(h, d) ==
    LET longer == Append(h, d)
    IN  IF Len(longer) > HistorySize THEN Tail(longer) ELSE longer

Records(k) ==
    /\ k \in DOMAIN subs
    /\ Free
    /\ Worker(k, "record", Idle(subs[k]))
    /\ LET s == subs[k]
           d == [user |-> s.config.user, event |-> s.event, ok |-> s.ok]
       IN  IF configs[s.id] = None THEN UNCHANGED <<history, files>>
           ELSE /\ history' = [history EXCEPT ![s.id] = Kept(@, d)]
                /\ files' = [files EXCEPT ![s.id] = history'[s.id]]
    /\ UNCHANGED <<configs, rules, disk, op, published, started, restarts>>

Work(k) ==
    Stops(k) \/ Takes(k) \/ Ignores(k) \/ Routes(k) \/ Answered(k) \/ Fails(k) \/ Records(k)

Manage == SaveStops \/ SaveSubscribes \/ DeleteRemoves

Next ==
    \/ \E e \in Event : Publish(e)
    \/ \E i \in Id, c \in Config : SavePersists(i, c)
    \/ \E i \in Id : DeletePersists(i)
    \/ \E R \in SUBSET Rule : ReplaceRules(R)
    \/ Manage
    \/ Restart
    \/ \E k \in 1..MaxSubs : Work(k)

Safety == Init /\ [][Next]_vars

(* A request that holds the mutex goes on, and so does every worker: an     *)
(* attempt is cut off after four minutes.                                   *)
Fairness == WF_vars(Manage) /\ \A k \in 1..MaxSubs : WF_vars(Work(k))

Spec == Safety /\ Fairness

-----------------------------------------------------------------------------
SubType ==
    [id : Id, config : Config, active : BOOLEAN, queue : Seq(Event),
     pc : {"idle", "routing", "attempt", "record", "stopped"},
     event : Event \cup {None}, attempts : 0..Retries + 1, ok : BOOLEAN]

TypeOK ==
    /\ configs \in [Id -> Config \cup {None}]
    /\ rules \subseteq Rule
    /\ disk \in [configs : [Id -> Config \cup {None}], rules : SUBSET Rule]
    /\ history \in [Id -> Seq(Delivery)] /\ files \in [Id -> Seq(Delivery)]
    /\ \A i \in Id : Len(history[i]) <= HistorySize /\ Len(files[i]) <= HistorySize
    /\ op = NoOp \/ op \in [pc : {"stop", "subscribe", "remove"}, id : Id]
    /\ subs \in Seq(SubType) /\ Len(subs) <= MaxSubs
    /\ \A k \in DOMAIN subs : Len(subs[k].queue) <= Capacity
    /\ published \subseteq Event
    /\ started \subseteq Event \X Id \X (1..MaxSubs)
    /\ restarts \in 0..MaxRestarts

(* integrations.json always loads: OpenManager refuses the whole file, and  *)
(* with it all automation, when one rule has lost its integration or names  *)
(* another user's (Save, Delete, ReplaceRules, OpenManager).                *)
DiskLoads ==
    \A r \in disk.rules : disk.configs[r.target] # None /\ disk.configs[r.target].user = r.user

(* webhooks.md: "at most one delivery per integration for a published       *)
(* event", also when the integration is saved, deleted or made again while  *)
(* the event is on its way.                                                 *)
OneDeliveryPerEvent ==
    \A x, y \in started : x[1] = y[1] /\ x[2] = y[2] => x = y

(* Between two operations of the manager, an integration that exists has    *)
(* exactly one live subscriber, with its current config, and one that does  *)
(* not has none (register, Remove).                                         *)
SubscribedOnce ==
    Free => \A i \in Id :
        LET live == {k \in DOMAIN subs : subs[k].id = i /\ subs[k].active}
        IN  IF configs[i] = None THEN live = {}
            ELSE Cardinality(live) = 1 /\ \A k \in live : subs[k].config = configs[i]

(* An event in the queue of a live subscriber is handled, unless the        *)
(* subscriber is stopped first: no delivery holds up the rest for ever.     *)
Waiting(k, e) == k \in DOMAIN subs /\ subs[k].active /\ e \in Range(subs[k].queue)

QueuedIsHandled == \A k \in 1..MaxSubs, e \in Event : Waiting(k, e) ~> ~Waiting(k, e)
=============================================================================
