---------------------------- MODULE DeliveryProofs ----------------------------
(***************************************************************************)
(* What is proved of the two that carry events further: of Automation, for *)
(* any finite set of integrations, any users and events, and any queue,    *)
(* history, number of subscribers and number of restarts; and of Hub, for  *)
(* any connections, users, devices and notifications and any size of the   *)
(* queue.  They share no state; the first part is of Automation.           *)
(***************************************************************************)
EXTENDS Automation, Hub, FiniteSetTheorems, FunctionTheorems, TLAPS

Busy == {"routing", "attempt", "record"}

(* A subscriber's queue is bounded, and a worker that is busy has an event. *)
Sub == {s \in SubType : Len(s.queue) <= Capacity /\ (s.pc \in Busy => s.event \in Event)}

Typed == TypeOK /\ subs \in Seq(Sub)

(* What is on the disk is what the manager has in memory, and would load.   *)
DiskIsMemory == disk = [configs |-> configs, rules |-> rules]

Live(i) == {k \in DOMAIN subs : subs[k].id = i /\ subs[k].active}

Single(i) ==
    IF configs[i] = None THEN Live(i) = {}
    ELSE \E k \in DOMAIN subs : Live(i) = {k} /\ subs[k].config = configs[i]

(* All integrations have their subscriber but the one an operation is at,   *)
(* which has at most one, and none when the new one is about to be made.    *)
Settled == \A i \in Id : op = NoOp \/ op.id # i => Single(i)

AtMostOne == \A k, l \in DOMAIN subs :
    subs[k].active /\ subs[l].active /\ subs[k].id = subs[l].id => k = l

Halfway ==
    /\ op.pc \in {"stop", "subscribe"} => configs[op.id] # None /\ Len(subs) < MaxSubs
    /\ op.pc = "subscribe" => Live(op.id) = {}
    /\ op.pc = "remove" => configs[op.id] = None

(* Which subscribers an event has come to.                                  *)
Has(s, e) == e \in Range(s.queue) \/ (s.pc \in Busy /\ s.event = e)

Reached(k, e) == Has(subs[k], e) \/ <<e, subs[k].id, k>> \in started

ReachedOnce ==
    /\ \A k \in DOMAIN subs, e \in Event : Reached(k, e) => e \in published
    /\ \A k, l \in DOMAIN subs, e \in Event :
          Reached(k, e) /\ Reached(l, e) /\ subs[k].id = subs[l].id => k = l
    /\ \A x \in started : x[3] \in DOMAIN subs /\ x[2] = subs[x[3]].id

Inv ==
    /\ Typed /\ DiskIsMemory /\ DiskLoads
    /\ Settled /\ AtMostOne /\ Halfway
    /\ ReachedOnce

-----------------------------------------------------------------------------
(* Types.                                                                   *)

LEMMA SubscriberType ==
    ASSUME NEW i \in Id, NEW c \in Config
    PROVE  /\ Subscriber(i, c) \in Sub
           /\ Subscriber(i, c).id = i /\ Subscriber(i, c).config = c
           /\ Subscriber(i, c).active
           /\ \A e : ~Has(Subscriber(i, c), e)
<1>1. Subscriber(i, c) \in SubType
  BY AutomationAssumption DEF Subscriber, SubType
<1>2. /\ Subscriber(i, c).queue = <<>> /\ Subscriber(i, c).pc = "idle"
      /\ Subscriber(i, c).id = i /\ Subscriber(i, c).config = c
      /\ Subscriber(i, c).active
  BY DEF Subscriber
<1>3. Range(<<>>) = {} /\ Len(<<>>) = 0
  BY DEF Range
<1> QED
  BY <1>1, <1>2, <1>3, AutomationAssumption DEF Sub, Busy, Has

LEMMA EndedType ==
    ASSUME NEW s \in Sub
    PROVE  /\ Ended(s) \in Sub
           /\ Ended(s).id = s.id /\ Ended(s).config = s.config /\ ~Ended(s).active
           /\ \A e : ~Has(Ended(s), e)
<1> DEFINE new == Subscriber(s.id, s.config)
<1>1. s.id \in Id /\ s.config \in Config
  BY DEF Sub, SubType
<1>2. /\ new \in SubType /\ new.queue = <<>> /\ new.id = s.id /\ new.config = s.config
  BY <1>1, AutomationAssumption DEF Subscriber, SubType
<1> HIDE DEF new
<1>3. Ended(s) = [new EXCEPT !.active = FALSE, !.pc = "stopped"]
  BY DEF Ended, new
<1>4. /\ Ended(s) \in SubType /\ Ended(s).queue = <<>> /\ Ended(s).pc = "stopped"
      /\ Ended(s).id = s.id /\ Ended(s).config = s.config /\ Ended(s).active = FALSE
  BY <1>2, <1>3 DEF SubType
<1>5. Range(<<>>) = {} /\ Len(<<>>) = 0
  BY DEF Range
<1> QED
  BY <1>4, <1>5, AutomationAssumption DEF Sub, Busy, Has

LEMMA SubFacts ==
    ASSUME Typed, NEW k \in DOMAIN subs
    PROVE  /\ subs[k] \in Sub /\ subs[k] \in SubType
           /\ subs[k].id \in Id /\ subs[k].config \in Config
           /\ subs[k].queue \in Seq(Event) /\ k \in 1..MaxSubs
<1>1. DOMAIN subs = 1..Len(subs) /\ Len(subs) \in Nat
  BY DEF Typed
<1>2. subs[k] \in Sub
  BY <1>1 DEF Typed
<1> QED
  BY <1>1, <1>2, BoundAssumption DEF Sub, SubType, Typed, TypeOK

LEMMA StoppedType ==
    ASSUME Typed, NEW i \in Id
    PROVE  /\ Stopped(subs, i) \in Seq(Sub)
           /\ Len(Stopped(subs, i)) = Len(subs)
           /\ DOMAIN Stopped(subs, i) = DOMAIN subs
           /\ \A k \in DOMAIN subs :
                 /\ Stopped(subs, i)[k].id = subs[k].id
                 /\ Stopped(subs, i)[k].config = subs[k].config
                 /\ Stopped(subs, i)[k].queue = subs[k].queue
                 /\ Stopped(subs, i)[k].pc = subs[k].pc
                 /\ Stopped(subs, i)[k].event = subs[k].event
                 /\ Stopped(subs, i)[k].active <=> subs[k].active /\ subs[k].id # i
<1>1. ASSUME NEW k \in DOMAIN subs
      PROVE  /\ Stopped(subs, i)[k] \in Sub
             /\ Stopped(subs, i)[k].id = subs[k].id
             /\ Stopped(subs, i)[k].config = subs[k].config
             /\ Stopped(subs, i)[k].queue = subs[k].queue
             /\ Stopped(subs, i)[k].pc = subs[k].pc
             /\ Stopped(subs, i)[k].event = subs[k].event
             /\ Stopped(subs, i)[k].active <=> subs[k].active /\ subs[k].id # i
  <2>1. Stopped(subs, i)[k] =
           IF subs[k].id = i THEN [subs[k] EXCEPT !.active = FALSE] ELSE subs[k]
    BY DEF Stopped
  <2>2. subs[k] \in SubType /\ subs[k] \in Sub
    BY SubFacts
  <2>3. CASE subs[k].id = i
    <3>1. /\ [subs[k] EXCEPT !.active = FALSE] \in SubType
          /\ [subs[k] EXCEPT !.active = FALSE].id = subs[k].id
          /\ [subs[k] EXCEPT !.active = FALSE].config = subs[k].config
          /\ [subs[k] EXCEPT !.active = FALSE].queue = subs[k].queue
          /\ [subs[k] EXCEPT !.active = FALSE].pc = subs[k].pc
          /\ [subs[k] EXCEPT !.active = FALSE].event = subs[k].event
          /\ [subs[k] EXCEPT !.active = FALSE].active = FALSE
      BY <2>2 DEF SubType
    <3> QED
      BY <2>1, <2>2, <2>3, <3>1 DEF Sub
  <2>4. CASE subs[k].id # i
    BY <2>1, <2>2, <2>4
  <2> QED
    BY <2>3, <2>4
<1>2. DOMAIN Stopped(subs, i) = DOMAIN subs
  BY DEF Stopped
<1>3. DOMAIN subs = 1..Len(subs) /\ Len(subs) \in Nat
  BY DEF Typed
<1>4. Stopped(subs, i) \in [1..Len(subs) -> Sub]
  BY <1>1, <1>3 DEF Stopped
<1>5. Stopped(subs, i) \in Seq(Sub) /\ Len(Stopped(subs, i)) = Len(subs)
  BY <1>3, <1>4
<1> QED
  BY <1>1, <1>2, <1>5

LEMMA SubSeqType ==
    ASSUME NEW ss \in Seq(Sub)
    PROVE  ss \in Seq(SubType) /\ \A k \in DOMAIN ss : Len(ss[k].queue) <= Capacity
<1>1. \A s \in Sub : s \in SubType /\ Len(s.queue) <= Capacity
  BY DEF Sub
<1>2. DOMAIN ss = 1..Len(ss) /\ Len(ss) \in Nat /\ \A k \in 1..Len(ss) : ss[k] \in Sub
  OBVIOUS
<1>3. ss \in [1..Len(ss) -> SubType]
  BY <1>1, <1>2
<1> QED
  BY <1>1, <1>2, <1>3

-----------------------------------------------------------------------------
(* Steps that stop and add no subscriber.                                   *)

LEMMA SameSubscribers ==
    ASSUME Inv, subs' \in Seq(Sub), DOMAIN subs' = DOMAIN subs,
           UNCHANGED <<configs, op>>,
           \A k \in DOMAIN subs : /\ subs'[k].id = subs[k].id
                                  /\ subs'[k].config = subs[k].config
                                  /\ subs'[k].active = subs[k].active
    PROVE  Settled' /\ AtMostOne' /\ Halfway' /\ Len(subs') = Len(subs)
<1>1. Len(subs') = Len(subs)
  BY DEF Inv, Typed
<1>2. ASSUME NEW i PROVE Live(i)' = Live(i)
  BY DEF Live
<1>3. Settled'
  <2> SUFFICES ASSUME NEW i \in Id, op = NoOp \/ op.id # i
               PROVE  Single(i)'
    BY DEF Settled
  <2>1. Single(i)
    BY DEF Inv, Settled
  <2> QED
    BY <2>1, <1>2 DEF Single
<1>4. AtMostOne'
  BY DEF Inv, AtMostOne
<1>5. Halfway'
  BY <1>1, <1>2 DEF Inv, Halfway
<1> QED
  BY <1>1, <1>3, <1>4, <1>5

LEMMA PublishStep == ASSUME Inv, NEW e \in Event, Publish(e) PROVE Inv'
<1>1. /\ e \notin published /\ published' = published \cup {e}
      /\ subs' = [k \in DOMAIN subs |-> Offered(subs[k], e)]
      /\ UNCHANGED <<configs, rules, disk, history, files, op, started, restarts>>
  BY DEF Publish
<1>2. Typed /\ DOMAIN subs = 1..Len(subs) /\ Len(subs) \in Nat
  BY DEF Inv, Typed
<1>3. ASSUME NEW k \in DOMAIN subs
      PROVE  /\ subs'[k] \in Sub
             /\ subs'[k].id = subs[k].id /\ subs'[k].config = subs[k].config
             /\ subs'[k].active = subs[k].active
             /\ \A f : Has(subs'[k], f) => Has(subs[k], f) \/ (f = e /\ subs[k].active)
  <2>1. subs[k] \in SubType /\ subs[k] \in Sub /\ subs[k].queue \in Seq(Event)
    BY <1>2, SubFacts
  <2>2. CASE subs[k].active /\ Len(subs[k].queue) < Capacity
    <3> DEFINE new == [subs[k] EXCEPT !.queue = Append(@, e)]
    <3>1. subs'[k] = new
      BY <1>1, <2>2 DEF Offered
    <3>2. Append(subs[k].queue, e) \in Seq(Event)
      BY <2>1
    <3>3. /\ new \in SubType /\ new.queue = Append(subs[k].queue, e)
          /\ new.id = subs[k].id /\ new.config = subs[k].config
          /\ new.active = subs[k].active /\ new.pc = subs[k].pc /\ new.event = subs[k].event
      BY <2>1, <3>2 DEF SubType
    <3>4. Len(Append(subs[k].queue, e)) <= Capacity
      BY <2>1, <2>2, AutomationAssumption
    <3>5. \A f \in Range(Append(subs[k].queue, e)) : f \in Range(subs[k].queue) \/ f = e
      <4>1. /\ DOMAIN Append(subs[k].queue, e) = 1..(Len(subs[k].queue) + 1)
            /\ \A j \in 1..Len(subs[k].queue) : Append(subs[k].queue, e)[j] = subs[k].queue[j]
            /\ Append(subs[k].queue, e)[Len(subs[k].queue) + 1] = e
            /\ DOMAIN subs[k].queue = 1..Len(subs[k].queue)
        BY <2>1
      <4> QED
        BY <2>1, <4>1 DEF Range
    <3>6. new \in Sub
      BY <2>1, <3>3, <3>4 DEF Sub
    <3> HIDE DEF new
    <3> QED
      BY <2>2, <3>1, <3>3, <3>5, <3>6 DEF Has
  <2>3. CASE ~(subs[k].active /\ Len(subs[k].queue) < Capacity)
    BY <1>1, <2>1, <2>3 DEF Offered
  <2> QED
    BY <2>2, <2>3
<1>4. subs' \in Seq(Sub) /\ DOMAIN subs' = DOMAIN subs
  <2>1. DOMAIN subs' = 1..Len(subs)
    BY <1>1, <1>2
  <2>2. subs' \in [1..Len(subs) -> Sub]
    BY <1>1, <1>2, <1>3, <2>1
  <2> QED
    BY <1>2, <2>1, <2>2
<1>5. Settled' /\ AtMostOne' /\ Halfway' /\ Len(subs') = Len(subs)
  BY <1>1, <1>3, <1>4, SameSubscribers
<1>6. Typed'
  BY <1>1, <1>4, <1>5, SubSeqType DEF Inv, Typed, TypeOK
<1>7. DiskIsMemory' /\ DiskLoads'
  BY <1>1 DEF Inv, DiskIsMemory, DiskLoads
<1>8. ASSUME NEW k \in DOMAIN subs, NEW f \in Event, Reached(k, f)'
      PROVE  Reached(k, f) \/ (f = e /\ subs[k].active)
  BY <1>1, <1>3, <1>8 DEF Reached
<1>9. ASSUME NEW k \in DOMAIN subs PROVE ~Reached(k, e)
  BY <1>1 DEF Inv, ReachedOnce
<1>10. ReachedOnce'
  <2>1. ASSUME NEW k \in DOMAIN subs, NEW f \in Event, Reached(k, f)'
        PROVE  f \in published'
    BY <1>1, <1>8, <2>1 DEF Inv, ReachedOnce
  <2>2. ASSUME NEW k \in DOMAIN subs, NEW l \in DOMAIN subs, NEW f \in Event,
               Reached(k, f)', Reached(l, f)', subs[k].id = subs[l].id
        PROVE  k = l
    <3>1. CASE f = e
      BY <1>8, <1>9, <2>2, <3>1 DEF Inv, AtMostOne
    <3>2. CASE f # e
      BY <1>8, <2>2, <3>2 DEF Inv, ReachedOnce
    <3> QED
      BY <3>1, <3>2
  <2>3. \A x \in started' : x[3] \in DOMAIN subs' /\ x[2] = subs'[x[3]].id
    BY <1>1, <1>3, <1>4 DEF Inv, ReachedOnce
  <2> QED
    BY <1>3, <1>4, <2>1, <2>2, <2>3 DEF ReachedOnce
<1> QED
  BY <1>5, <1>6, <1>7, <1>10 DEF Inv

(* A worker's step brings an event to nobody else.                          *)
LEMMA WorkerStep ==
    ASSUME Inv, NEW k \in DOMAIN subs, NEW new \in Sub,
           subs' = [subs EXCEPT ![k] = new],
           new.id = subs[k].id, new.config = subs[k].config, new.active = subs[k].active,
           \A e \in Event : Has(new, e) => Has(subs[k], e),
           UNCHANGED <<configs, rules, disk, op, published, restarts>>,
           history' \in [Id -> Seq(Delivery)], files' \in [Id -> Seq(Delivery)],
           \A i \in Id : Len(history'[i]) <= HistorySize /\ Len(files'[i]) <= HistorySize,
           \/ started' = started
           \/ /\ started' = started \cup {<<subs[k].event, subs[k].id, k>>}
              /\ subs[k].pc \in Busy
    PROVE  Inv'
<1>1. Typed /\ DOMAIN subs = 1..Len(subs) /\ Len(subs) \in Nat /\ subs \in Seq(Sub)
  BY DEF Inv, Typed
<1>2. subs' \in Seq(Sub) /\ DOMAIN subs' = DOMAIN subs
  BY <1>1
<1>3. /\ subs'[k] = new
      /\ \A l \in DOMAIN subs \ {k} : subs'[l] = subs[l]
  BY <1>1
<1>4. Settled' /\ AtMostOne' /\ Halfway' /\ Len(subs') = Len(subs)
  <2>1. \A l \in DOMAIN subs : /\ subs'[l].id = subs[l].id
                               /\ subs'[l].config = subs[l].config
                               /\ subs'[l].active = subs[l].active
    BY <1>3
  <2> QED
    BY <1>2, <2>1, SameSubscribers
<1>5. /\ subs[k].id \in Id /\ subs[k] \in Sub /\ k \in 1..MaxSubs
  BY <1>1, SubFacts
<1>6. subs[k].pc \in Busy => subs[k].event \in Event
  BY <1>5 DEF Sub
<1>7. Typed'
  <2>1. started' \subseteq Event \X Id \X (1..MaxSubs)
    BY <1>5, <1>6 DEF Inv, Typed, TypeOK
  <2>2. subs' \in Seq(SubType) /\ \A l \in DOMAIN subs' : Len(subs'[l].queue) <= Capacity
    BY <1>2, SubSeqType
  <2> QED
    BY <1>2, <1>4, <2>1, <2>2 DEF Inv, Typed, TypeOK
<1>8. DiskIsMemory' /\ DiskLoads'
  BY DEF Inv, DiskIsMemory, DiskLoads
<1>9. ASSUME NEW l \in DOMAIN subs, NEW e \in Event, Reached(l, e)'
      PROVE  Reached(l, e)
  <2>1. CASE <<e, subs[l].id, l>> \in started
    BY <2>1 DEF Reached
  <2>2. CASE <<e, subs[l].id, l>> \in started' \ started
    <3>1. e = subs[k].event /\ l = k /\ subs[k].pc \in Busy
      BY <2>2
    <3> QED
      BY <3>1 DEF Reached, Has
  <2>3. CASE Has(subs'[l], e)
    BY <1>3, <2>3 DEF Reached
  <2> QED
    BY <1>3, <1>9, <2>1, <2>2, <2>3 DEF Reached
<1>10. ReachedOnce'
  <2>1. \A x \in started' : x[3] \in DOMAIN subs' /\ x[2] = subs'[x[3]].id
    BY <1>2, <1>3 DEF Inv, ReachedOnce
  <2>2. \A l \in DOMAIN subs : subs'[l].id = subs[l].id
    BY <1>3
  <2> QED
    BY <1>2, <1>9, <2>1, <2>2 DEF Inv, ReachedOnce
<1> QED
  BY <1>4, <1>7, <1>8, <1>10 DEF Inv

LEMMA HistoryType ==
    ASSUME Typed
    PROVE  /\ history \in [Id -> Seq(Delivery)] /\ files \in [Id -> Seq(Delivery)]
           /\ \A i \in Id : Len(history[i]) <= HistorySize /\ Len(files[i]) <= HistorySize
BY DEF Typed, TypeOK

LEMMA KeptType ==
    ASSUME NEW h \in Seq(Delivery), Len(h) <= HistorySize, NEW d \in Delivery
    PROVE  Kept(h, d) \in Seq(Delivery) /\ Len(Kept(h, d)) <= HistorySize
<1>1. Append(h, d) \in Seq(Delivery) /\ Len(Append(h, d)) = Len(h) + 1
  OBVIOUS
<1>2. CASE Len(Append(h, d)) > HistorySize
  <2>1. Kept(h, d) = Tail(Append(h, d)) /\ Append(h, d) # <<>>
    BY <1>1, <1>2 DEF Kept
  <2> QED
    BY <1>1, <2>1, AutomationAssumption
<1>3. CASE ~(Len(Append(h, d)) > HistorySize)
  BY <1>1, <1>3, AutomationAssumption DEF Kept
<1> QED
  BY <1>2, <1>3

LEMMA WorkStep == ASSUME Inv, NEW k, Work(k) PROVE Inv'
<1>1. k \in DOMAIN subs
  BY DEF Work, Stops, Takes, Ignores, Routes, Answered, Fails, Records, Worker
<1>2. /\ subs[k] \in Sub /\ subs[k] \in SubType
      /\ subs[k].id \in Id /\ subs[k].config \in Config /\ subs[k].queue \in Seq(Event)
  BY <1>1, SubFacts DEF Inv
<1>3. /\ Len(subs[k].queue) <= Capacity
      /\ subs[k].pc \in Busy => subs[k].event \in Event
  BY <1>2 DEF Sub
<1>4. /\ history \in [Id -> Seq(Delivery)] /\ files \in [Id -> Seq(Delivery)]
      /\ \A i \in Id : Len(history[i]) <= HistorySize /\ Len(files[i]) <= HistorySize
  BY HistoryType DEF Inv
<1>0. 0 \in 0..Retries + 1 /\ 1 \in 0..Retries + 1
  BY AutomationAssumption
<1> DEFINE s == subs[k]
<1>5. /\ Idle(s) \in Sub
      /\ Idle(s).id = s.id /\ Idle(s).config = s.config /\ Idle(s).active = s.active
      /\ \A e : Has(Idle(s), e) => Has(s, e)
  <2>1. /\ Idle(s) \in SubType
        /\ Idle(s).id = s.id /\ Idle(s).config = s.config /\ Idle(s).active = s.active
        /\ Idle(s).queue = s.queue /\ Idle(s).pc = "idle"
    BY <1>0, <1>2 DEF Idle, SubType
  <2> QED
    BY <1>3, <2>1 DEF Sub, Busy, Has
<1>6. CASE Stops(k)
  <2>1. /\ subs' = [subs EXCEPT ![k] = Ended(s)] /\ ~s.active
        /\ UNCHANGED <<configs, rules, disk, history, files, op, published, started, restarts>>
    BY <1>6 DEF Stops, Worker
  <2>2. /\ Ended(s) \in Sub /\ Ended(s).id = s.id /\ Ended(s).config = s.config
        /\ ~Ended(s).active /\ \A e : ~Has(Ended(s), e)
    BY <1>2, EndedType
  <2>3. Ended(s).active = s.active
    <3>1. s.active \in BOOLEAN /\ Ended(s).active \in BOOLEAN
      BY <1>2, <2>2 DEF Sub, SubType
    <3> QED
      BY <2>1, <2>2, <3>1
  <2> QED
    BY <1>1, <1>4, <2>1, <2>2, <2>3, WorkerStep
<1>7. CASE Takes(k)
  <2> DEFINE new == [s EXCEPT !.pc = "routing", !.event = Head(s.queue), !.queue = Tail(@)]
  <2>1. /\ subs' = [subs EXCEPT ![k] = new] /\ s.queue # <<>>
        /\ UNCHANGED <<configs, rules, disk, history, files, op, published, started, restarts>>
    BY <1>7 DEF Takes, Worker
  <2>2. /\ Head(s.queue) \in Event /\ Tail(s.queue) \in Seq(Event)
        /\ Len(Tail(s.queue)) <= Capacity
    BY <1>2, <1>3, <2>1, AutomationAssumption
  <2>3. /\ Head(s.queue) \in Range(s.queue)
        /\ Range(Tail(s.queue)) \subseteq Range(s.queue)
    <3>1. /\ DOMAIN s.queue = 1..Len(s.queue) /\ Len(s.queue) \in Nat \ {0}
          /\ Head(s.queue) = s.queue[1]
          /\ DOMAIN Tail(s.queue) = 1..(Len(s.queue) - 1)
          /\ \A j \in 1..(Len(s.queue) - 1) : Tail(s.queue)[j] = s.queue[j + 1]
      BY <1>2, <2>1
    <3> QED
      BY <3>1 DEF Range
  <2>4. /\ new \in SubType /\ new.id = s.id /\ new.config = s.config /\ new.active = s.active
        /\ new.queue = Tail(s.queue) /\ new.event = Head(s.queue) /\ new.pc = "routing"
    BY <1>2, <2>2 DEF SubType
  <2>5. new \in Sub /\ \A e : Has(new, e) => Has(s, e)
    BY <2>2, <2>3, <2>4 DEF Sub, Has
  <2> HIDE DEF new
  <2> QED
    BY <1>1, <1>4, <2>1, <2>4, <2>5, WorkerStep
<1>8. CASE Ignores(k)
  <2>1. /\ subs' = [subs EXCEPT ![k] = Idle(s)]
        /\ UNCHANGED <<configs, rules, disk, history, files, op, published, started, restarts>>
    BY <1>8 DEF Ignores, Worker
  <2> QED
    BY <1>1, <1>4, <1>5, <2>1, WorkerStep
<1>9. CASE Routes(k)
  <2> DEFINE new == [s EXCEPT !.pc = "attempt", !.attempts = 1]
  <2>1. /\ subs' = [subs EXCEPT ![k] = new] /\ s.pc = "routing"
        /\ started' = started \cup {<<s.event, s.id, k>>}
        /\ UNCHANGED <<configs, rules, disk, history, files, op, published, restarts>>
    BY <1>9 DEF Routes, Worker
  <2>2. /\ new \in SubType /\ new.id = s.id /\ new.config = s.config /\ new.active = s.active
        /\ new.queue = s.queue /\ new.event = s.event /\ new.pc = "attempt"
    BY <1>0, <1>2 DEF SubType
  <2>3. new \in Sub /\ \A e : Has(new, e) => Has(s, e)
    BY <1>3, <2>1, <2>2 DEF Sub, Has, Busy
  <2>4. s.pc \in Busy
    BY <2>1 DEF Busy
  <2> HIDE DEF new
  <2> QED
    BY <1>1, <1>4, <2>1, <2>2, <2>3, <2>4, WorkerStep
<1>10. CASE Answered(k)
  <2>1. PICK ok \in BOOLEAN : subs' = [subs EXCEPT ![k] = [s EXCEPT !.pc = "record", !.ok = ok]]
    BY <1>10 DEF Answered, Worker
  <2> DEFINE new == [s EXCEPT !.pc = "record", !.ok = ok]
  <2>2. s.pc = "attempt"
        /\ UNCHANGED <<configs, rules, disk, history, files, op, published, started, restarts>>
    BY <1>10 DEF Answered, Worker
  <2>3. /\ new \in SubType /\ new.id = s.id /\ new.config = s.config /\ new.active = s.active
        /\ new.queue = s.queue /\ new.event = s.event /\ new.pc = "record"
    BY <1>2 DEF SubType
  <2>4. new \in Sub /\ \A e : Has(new, e) => Has(s, e)
    BY <1>3, <2>2, <2>3 DEF Sub, Has, Busy
  <2> HIDE DEF new
  <2> QED
    BY <1>1, <1>4, <2>1, <2>2, <2>3, <2>4, WorkerStep DEF new
<1>11. CASE Fails(k)
  <2>1. PICK new \in {[s EXCEPT !.attempts = @ + 1], [s EXCEPT !.pc = "record"]} :
           /\ subs' = [subs EXCEPT ![k] = new] /\ s.pc = "attempt"
           /\ new = [s EXCEPT !.attempts = @ + 1] => s.attempts <= Retries
                                                     \/ new = [s EXCEPT !.pc = "record"]
    BY <1>11 DEF Fails, Worker
  <2>2. UNCHANGED <<configs, rules, disk, history, files, op, published, started, restarts>>
    BY <1>11 DEF Fails
  <2>3. /\ new \in SubType /\ new.id = s.id /\ new.config = s.config /\ new.active = s.active
        /\ new.queue = s.queue /\ new.event = s.event /\ new.pc \in Busy
    <3>1. CASE new = [s EXCEPT !.attempts = @ + 1] /\ s.attempts <= Retries
      <4>1. s.attempts + 1 \in 0..Retries + 1
        BY <1>2, <3>1, AutomationAssumption DEF SubType
      <4> QED
        BY <1>2, <2>1, <3>1, <4>1 DEF SubType, Busy
    <3>2. CASE new = [s EXCEPT !.pc = "record"]
      BY <1>2, <3>2 DEF SubType, Busy
    <3> QED
      BY <2>1, <3>1, <3>2
  <2>4. new \in Sub /\ \A e : Has(new, e) => Has(s, e)
    BY <1>3, <2>1, <2>3 DEF Sub, Has, Busy
  <2> QED
    BY <1>1, <1>4, <2>1, <2>2, <2>3, <2>4, WorkerStep
<1>12. CASE Records(k)
  <2> DEFINE d == [user |-> s.config.user, event |-> s.event, ok |-> s.ok]
  <2>1. /\ subs' = [subs EXCEPT ![k] = Idle(s)] /\ s.pc = "record"
        /\ UNCHANGED <<configs, rules, disk, op, published, started, restarts>>
    BY <1>12 DEF Records, Worker
  <2>2. \/ UNCHANGED <<history, files>>
        \/ /\ history' = [history EXCEPT ![s.id] = Kept(history[s.id], d)]
           /\ files' = [files EXCEPT ![s.id] = history'[s.id]]
    BY <1>12 DEF Records
  <2>3. d \in Delivery
    BY <1>2, <1>3, <2>1 DEF Delivery, Busy, Config, SubType
  <2> HIDE DEF d
  <2>4. Kept(history[s.id], d) \in Seq(Delivery) /\ Len(Kept(history[s.id], d)) <= HistorySize
    BY <1>2, <1>4, <2>3, KeptType
  <2>5. /\ history' \in [Id -> Seq(Delivery)] /\ files' \in [Id -> Seq(Delivery)]
        /\ \A i \in Id : Len(history'[i]) <= HistorySize /\ Len(files'[i]) <= HistorySize
    BY <1>2, <1>4, <2>2, <2>4, ZenonT(40)
  <2> QED
    BY <1>1, <1>5, <2>1, <2>5, WorkerStep
<1> QED
  BY <1>6, <1>7, <1>8, <1>9, <1>10, <1>11, <1>12 DEF Work

-----------------------------------------------------------------------------
(* The manager's steps.                                                     *)

LEMMA OpFacts ==
    ASSUME Typed
    PROVE  /\ op = NoOp <=> op.pc = "none"
           /\ op # NoOp => op \in [pc : {"stop", "subscribe", "remove"}, id : Id]
BY DEF Typed, TypeOK, NoOp

LEMMA SameReached ==
    ASSUME Inv, DOMAIN subs' = DOMAIN subs, UNCHANGED <<published, started>>,
           \A k \in DOMAIN subs :
              /\ subs'[k].id = subs[k].id /\ subs'[k].queue = subs[k].queue
              /\ subs'[k].pc = subs[k].pc /\ subs'[k].event = subs[k].event
    PROVE  ReachedOnce'
<1>1. ASSUME NEW k \in DOMAIN subs, NEW e \in Event PROVE Reached(k, e)' <=> Reached(k, e)
  BY DEF Reached, Has
<1> QED
  BY <1>1 DEF Inv, ReachedOnce

LEMMA SaveBegins ==
    ASSUME Inv, NEW id \in Id, NEW c \in Config, SavePersists(id, c)
    PROVE  Inv'
<1>1. /\ op = NoOp /\ Len(subs) < MaxSubs
      /\ configs[id] # None => configs[id].user = c.user
      /\ configs' = [configs EXCEPT ![id] = c]
      /\ disk' = [configs |-> configs', rules |-> rules]
      /\ op' = [pc |-> "stop", id |-> id]
      /\ UNCHANGED <<rules, history, files, subs, published, started, restarts>>
  BY DEF SavePersists, Free
<1>2. configs \in [Id -> Config \cup {None}] /\ c # None
  BY NoneAssumption DEF Inv, Typed, TypeOK
<1>3. /\ configs' \in [Id -> Config \cup {None}]
      /\ configs'[id] = c /\ \A i \in Id \ {id} : configs'[i] = configs[i]
  BY <1>1, <1>2
<1>4. Typed'
  BY <1>1, <1>3 DEF Inv, Typed, TypeOK
<1>5. DiskIsMemory' /\ DiskLoads'
  <2>1. disk'.configs = configs' /\ disk'.rules = rules
    BY <1>1
  <2>2. ASSUME NEW r \in rules
        PROVE  configs'[r.target] # None /\ configs'[r.target].user = r.user
    <3>1. configs[r.target] # None /\ configs[r.target].user = r.user
      BY DEF Inv, DiskIsMemory, DiskLoads
    <3>2. r.target \in Id
      BY DEF Inv, Typed, TypeOK, Rule
    <3> QED
      BY <1>1, <1>2, <1>3, <3>1, <3>2
  <2> QED
    BY <1>1, <2>1, <2>2 DEF DiskIsMemory, DiskLoads
<1>6. Settled'
  <2> SUFFICES ASSUME NEW i \in Id, i # id PROVE Single(i)'
    BY <1>1 DEF Settled, NoOp
  <2>1. Single(i)
    BY <1>1 DEF Inv, Settled
  <2> QED
    BY <1>1, <1>3, <2>1 DEF Single, Live
<1>7. AtMostOne' /\ Halfway'
  BY <1>1, <1>2, <1>3 DEF Inv, AtMostOne, Halfway
<1>8. ReachedOnce'
  BY <1>1, SameReached
<1> QED
  BY <1>4, <1>5, <1>6, <1>7, <1>8 DEF Inv

LEMMA StopStep == ASSUME Inv, SaveStops PROVE Inv'
<1>1. /\ op.pc = "stop" /\ subs' = Stopped(subs, op.id)
      /\ op' = [op EXCEPT !.pc = "subscribe"]
      /\ UNCHANGED <<configs, rules, disk, history, files, published, started, restarts>>
  BY DEF SaveStops
<1>2. /\ op \in [pc : {"stop", "subscribe", "remove"}, id : Id] /\ op # NoOp
      /\ op' \in [pc : {"stop", "subscribe", "remove"}, id : Id]
      /\ op'.pc = "subscribe" /\ op'.id = op.id
  BY <1>1, OpFacts DEF Inv
<1>3. op' # NoOp
  BY <1>2 DEF NoOp
<1>4. /\ subs' \in Seq(Sub) /\ Len(subs') = Len(subs) /\ DOMAIN subs' = DOMAIN subs
      /\ \A k \in DOMAIN subs :
            /\ subs'[k].id = subs[k].id /\ subs'[k].config = subs[k].config
            /\ subs'[k].queue = subs[k].queue
            /\ subs'[k].pc = subs[k].pc /\ subs'[k].event = subs[k].event
            /\ subs'[k].active <=> subs[k].active /\ subs[k].id # op.id
  BY <1>1, <1>2, StoppedType DEF Inv
<1>5. Typed'
  BY <1>1, <1>2, <1>4, SubSeqType DEF Inv, Typed, TypeOK
<1>6. DiskIsMemory' /\ DiskLoads'
  BY <1>1 DEF Inv, DiskIsMemory, DiskLoads
<1>7. Settled'
  <2> SUFFICES ASSUME NEW i \in Id, i # op.id PROVE Single(i)'
    BY <1>2, <1>3 DEF Settled
  <2>1. Single(i)
    BY DEF Inv, Settled
  <2>2. Live(i)' = Live(i)
    BY <1>4 DEF Live
  <2> QED
    BY <1>1, <1>4, <2>1, <2>2 DEF Single
<1>8. AtMostOne'
  BY <1>4 DEF Inv, AtMostOne
<1>9. Halfway'
  <2>1. Live(op.id)' = {}
    BY <1>2, <1>4 DEF Live
  <2> QED
    BY <1>1, <1>2, <1>4, <2>1 DEF Inv, Halfway, Live
<1>10. ReachedOnce'
  BY <1>1, <1>4, SameReached
<1> QED
  BY <1>5, <1>6, <1>7, <1>8, <1>9, <1>10 DEF Inv

LEMMA SubscribeStep == ASSUME Inv, SaveSubscribes PROVE Inv'
<1> DEFINE new == Subscriber(op.id, configs[op.id])
           n == Len(subs) + 1
<1>1. /\ op.pc = "subscribe" /\ subs' = Append(subs, new) /\ op' = NoOp
      /\ UNCHANGED <<configs, rules, disk, history, files, published, started, restarts>>
  BY DEF SaveSubscribes
<1>2. op.id \in Id /\ op # NoOp
  BY <1>1, OpFacts DEF Inv
<1>3. configs[op.id] \in Config /\ configs[op.id] # None /\ Len(subs) < MaxSubs
  BY <1>1, <1>2 DEF Inv, Halfway, Typed, TypeOK
<1>4. /\ new \in Sub /\ new.id = op.id /\ new.config = configs[op.id] /\ new.active
      /\ \A e : ~Has(new, e)
  BY <1>2, <1>3, SubscriberType
<1> HIDE DEF new
<1>5. subs \in Seq(Sub) /\ Len(subs) \in Nat /\ DOMAIN subs = 1..Len(subs)
  BY DEF Inv, Typed
<1>6. /\ subs' \in Seq(Sub) /\ Len(subs') = n /\ DOMAIN subs' = DOMAIN subs \cup {n}
      /\ subs'[n] = new /\ n \notin DOMAIN subs
      /\ \A k \in DOMAIN subs : subs'[k] = subs[k]
  BY <1>1, <1>4, <1>5
<1>7. Typed'
  <2>1. Len(subs') <= MaxSubs
    BY <1>3, <1>5, <1>6, BoundAssumption
  <2> QED
    BY <1>1, <1>6, <2>1, SubSeqType DEF Inv, Typed, TypeOK
<1>8. DiskIsMemory' /\ DiskLoads'
  BY <1>1 DEF Inv, DiskIsMemory, DiskLoads
<1> HIDE DEF n
<1>9. Live(op.id) = {}
  BY <1>1 DEF Inv, Halfway
<1>10. Settled'
  <2> SUFFICES ASSUME NEW i \in Id PROVE Single(i)'
    BY DEF Settled
  <2>1. CASE i = op.id
    <3>1. Live(i)' = {n}
      BY <1>4, <1>6, <1>9, <2>1 DEF Live
    <3> QED
      BY <1>1, <1>3, <1>4, <1>6, <2>1, <3>1 DEF Single
  <2>2. CASE i # op.id
    <3>1. Live(i)' = Live(i)
      BY <1>4, <1>6, <2>2 DEF Live
    <3>2. Single(i)
      BY <2>2 DEF Inv, Settled
    <3> QED
      BY <1>1, <1>6, <3>1, <3>2 DEF Single
  <2> QED
    BY <2>1, <2>2
<1>11. AtMostOne'
  BY <1>4, <1>6, <1>9 DEF Inv, AtMostOne, Live
<1>12. Halfway'
  BY <1>1 DEF Halfway, NoOp
<1>13. ReachedOnce'
  <2>1. ASSUME NEW k, k = n, NEW e \in Event PROVE ~Reached(k, e)'
    <3>1. <<e, subs'[k].id, k>> \notin started
      BY <1>6, <2>1 DEF Inv, ReachedOnce
    <3> QED
      BY <1>1, <1>4, <1>6, <2>1, <3>1 DEF Reached
  <2>2. ASSUME NEW k \in DOMAIN subs, NEW e \in Event PROVE Reached(k, e)' <=> Reached(k, e)
    BY <1>1, <1>6 DEF Reached
  <2>3. \A k, l \in DOMAIN subs', e \in Event :
           Reached(k, e)' /\ Reached(l, e)' => k \in DOMAIN subs /\ l \in DOMAIN subs
    BY <1>6, <2>1
  <2>4. \A k \in DOMAIN subs', e \in Event : Reached(k, e)' => e \in published'
    BY <1>1, <1>6, <2>1, <2>2 DEF Inv, ReachedOnce
  <2>5. \A k, l \in DOMAIN subs', e \in Event :
           Reached(k, e)' /\ Reached(l, e)' /\ subs'[k].id = subs'[l].id => k = l
    BY <1>6, <2>2, <2>3 DEF Inv, ReachedOnce
  <2>6. \A x \in started' : x[3] \in DOMAIN subs' /\ x[2] = subs'[x[3]].id
    BY <1>1, <1>6 DEF Inv, ReachedOnce
  <2> QED
    BY <2>4, <2>5, <2>6 DEF ReachedOnce
<1> QED
  BY <1>7, <1>8, <1>10, <1>11, <1>12, <1>13 DEF Inv

LEMMA DeleteBegins == ASSUME Inv, NEW id \in Id, DeletePersists(id) PROVE Inv'
<1>1. /\ op = NoOp /\ \A r \in rules : r.target # id
      /\ configs' = [configs EXCEPT ![id] = None]
      /\ disk' = [configs |-> configs', rules |-> rules]
      /\ op' = [pc |-> "remove", id |-> id]
      /\ UNCHANGED <<rules, history, files, subs, published, started, restarts>>
  BY DEF DeletePersists, Free
<1>2. /\ configs' \in [Id -> Config \cup {None}]
      /\ configs'[id] = None /\ \A i \in Id \ {id} : configs'[i] = configs[i]
  BY <1>1 DEF Inv, Typed, TypeOK
<1>3. Typed'
  BY <1>1, <1>2 DEF Inv, Typed, TypeOK
<1>4. DiskIsMemory' /\ DiskLoads'
  <2>1. disk'.configs = configs' /\ disk'.rules = rules
    BY <1>1
  <2>2. ASSUME NEW r \in rules
        PROVE  configs'[r.target] # None /\ configs'[r.target].user = r.user
    <3>1. configs[r.target] # None /\ configs[r.target].user = r.user
      BY DEF Inv, DiskIsMemory, DiskLoads
    <3>2. r.target \in Id
      BY DEF Inv, Typed, TypeOK, Rule
    <3> QED
      BY <1>1, <1>2, <3>1, <3>2
  <2> QED
    BY <1>1, <2>1, <2>2 DEF DiskIsMemory, DiskLoads
<1>5. Settled'
  <2> SUFFICES ASSUME NEW i \in Id, i # id PROVE Single(i)'
    BY <1>1 DEF Settled, NoOp
  <2>1. Single(i)
    BY <1>1 DEF Inv, Settled
  <2> QED
    BY <1>1, <1>2, <2>1 DEF Single, Live
<1>6. AtMostOne' /\ Halfway'
  BY <1>1, <1>2 DEF Inv, AtMostOne, Halfway
<1>7. ReachedOnce'
  BY <1>1, SameReached
<1> QED
  BY <1>3, <1>4, <1>5, <1>6, <1>7 DEF Inv

LEMMA RemoveStep == ASSUME Inv, DeleteRemoves PROVE Inv'
<1>1. /\ op.pc = "remove" /\ subs' = Stopped(subs, op.id) /\ op' = NoOp
      /\ history' = [history EXCEPT ![op.id] = <<>>]
      /\ files' = [files EXCEPT ![op.id] = <<>>]
      /\ UNCHANGED <<configs, rules, disk, published, started, restarts>>
  BY DEF DeleteRemoves
<1>2. op.id \in Id /\ op # NoOp
  BY <1>1, OpFacts DEF Inv
<1>3. configs[op.id] = None
  BY <1>1 DEF Inv, Halfway
<1>4. /\ subs' \in Seq(Sub) /\ Len(subs') = Len(subs) /\ DOMAIN subs' = DOMAIN subs
      /\ \A k \in DOMAIN subs :
            /\ subs'[k].id = subs[k].id /\ subs'[k].config = subs[k].config
            /\ subs'[k].queue = subs[k].queue
            /\ subs'[k].pc = subs[k].pc /\ subs'[k].event = subs[k].event
            /\ subs'[k].active <=> subs[k].active /\ subs[k].id # op.id
  BY <1>1, <1>2, StoppedType DEF Inv
<1>5. /\ history' \in [Id -> Seq(Delivery)] /\ files' \in [Id -> Seq(Delivery)]
      /\ \A i \in Id : Len(history'[i]) <= HistorySize /\ Len(files'[i]) <= HistorySize
  <2>1. <<>> \in Seq(Delivery) /\ Len(<<>>) <= HistorySize
    BY AutomationAssumption
  <2> QED
    BY <1>1, <1>2, <2>1, HistoryType DEF Inv
<1>6. Typed'
  BY <1>1, <1>4, <1>5, SubSeqType DEF Inv, Typed, TypeOK
<1>7. DiskIsMemory' /\ DiskLoads'
  BY <1>1 DEF Inv, DiskIsMemory, DiskLoads
<1>8. Settled'
  <2> SUFFICES ASSUME NEW i \in Id PROVE Single(i)'
    BY DEF Settled
  <2>1. CASE i = op.id
    BY <1>1, <1>3, <1>4, <2>1 DEF Single, Live
  <2>2. CASE i # op.id
    <3>1. Live(i)' = Live(i)
      BY <1>4, <2>2 DEF Live
    <3>2. Single(i)
      BY <2>2 DEF Inv, Settled
    <3> QED
      BY <1>1, <1>4, <3>1, <3>2 DEF Single
  <2> QED
    BY <2>1, <2>2
<1>9. AtMostOne'
  BY <1>4 DEF Inv, AtMostOne
<1>10. Halfway'
  BY <1>1 DEF Halfway, NoOp
<1>11. ReachedOnce'
  BY <1>1, <1>4, SameReached
<1> QED
  BY <1>6, <1>7, <1>8, <1>9, <1>10, <1>11 DEF Inv

LEMMA RulesStep == ASSUME Inv, NEW R \in SUBSET Rule, ReplaceRules(R) PROVE Inv'
<1>1. /\ \A r \in R : configs[r.target] # None /\ configs[r.target].user = r.user
      /\ rules' = R /\ disk' = [disk EXCEPT !.rules = R]
      /\ UNCHANGED <<configs, history, files, op, subs, published, started, restarts>>
  BY DEF ReplaceRules
<1>2. /\ disk' = [configs |-> configs, rules |-> R]
      /\ disk'.configs = configs /\ disk'.rules = R
  BY <1>1 DEF Inv, DiskIsMemory
<1>3. Typed'
  BY <1>1, <1>2 DEF Inv, Typed, TypeOK
<1>4. DiskIsMemory' /\ DiskLoads'
  BY <1>1, <1>2 DEF DiskIsMemory, DiskLoads
<1>5. Settled' /\ AtMostOne' /\ Halfway'
  BY <1>1 DEF Inv, Settled, Single, Live, AtMostOne, Halfway
<1>6. ReachedOnce'
  BY <1>1, SameReached
<1> QED
  BY <1>3, <1>4, <1>5, <1>6 DEF Inv

(* SetToSeq puts each integration there is into the list once.              *)
LEMMA OrderFacts ==
    ASSUME NEW S \in SUBSET Id
    PROVE  /\ SetToSeq(S) \in [1..Cardinality(S) -> S]
           /\ Cardinality(S) \in Nat
           /\ \A k, l \in 1..Cardinality(S) : SetToSeq(S)[k] = SetToSeq(S)[l] => k = l
           /\ \A i \in S : \E k \in 1..Cardinality(S) : SetToSeq(S)[k] = i
<1> DEFINE n == Cardinality(S)
           order == SetToSeq(S)
<1>1. IsFiniteSet(S) /\ n \in Nat /\ ExistsBijection(1..n, S)
  BY FS_Subset, FS_CardinalityType, BoundAssumption
<1>2. PICK f : f \in Bijection(1..n, S)
  BY <1>1 DEF ExistsBijection
<1>3. f \in [1..n -> S] /\ IsInjective(f)
  BY <1>2 DEF Bijection, Injection, IsInjective
<1>4. order \in [1..n -> S] /\ IsInjective(order)
  BY <1>3 DEF SetToSeq
<1>5. \A k, l \in 1..n : order[k] = order[l] => k = l
  BY <1>4 DEF IsInjective
<1>6. order \in Injection(1..n, S)
  BY <1>4 DEF Injection, IsInjective
<1>7. Cardinality(1..n) = n /\ IsFiniteSet(1..n)
  BY <1>1, FS_Interval
<1>8. order \in Surjection(1..n, S)
  BY <1>1, <1>6, <1>7, FS_Injection
<1>9. \A i \in S : \E k \in 1..n : order[k] = i
  BY <1>8 DEF Surjection
<1> QED
  BY <1>1, <1>4, <1>5, <1>9

LEMMA Concatenated ==
    ASSUME NEW S, NEW a \in Seq(S), NEW b \in Seq(S)
    PROVE  /\ a \o b \in Seq(S) /\ Len(a \o b) = Len(a) + Len(b)
           /\ DOMAIN (a \o b) = 1..(Len(a) + Len(b))
           /\ \A k \in 1..Len(a) : (a \o b)[k] = a[k]
           /\ \A k \in 1..Len(b) : (a \o b)[Len(a) + k] = b[k]
OBVIOUS

(* Every subscriber has ended, and each integration there is has a new one. *)
LEMMA RestartStep == ASSUME Inv, Restart PROVE Inv'
<1> DEFINE live == {i \in Id : disk.configs[i] # None}
           order == SetToSeq(live)
           old == [k \in DOMAIN subs |-> Ended(subs[k])]
           fresh == [k \in DOMAIN order |-> Subscriber(order[k], disk.configs[order[k]])]
           n == Len(subs)
           m == Cardinality(live)
<1>1. /\ restarts < MaxRestarts /\ restarts' = restarts + 1 /\ n + m <= MaxSubs
      /\ configs' = disk.configs /\ rules' = disk.rules /\ op' = NoOp
      /\ history' = [i \in Id |-> IF i \in live THEN files[i] ELSE <<>>]
      /\ subs' = old \o fresh
      /\ UNCHANGED <<disk, files, published, started>>
  BY DEF Restart
<1>2. /\ disk.configs = configs /\ disk.rules = rules
      /\ configs \in [Id -> Config \cup {None}]
  BY DEF Inv, DiskIsMemory, Typed, TypeOK
<1>3. live \in SUBSET Id
  OBVIOUS
<1>4. /\ order \in [1..m -> live] /\ m \in Nat
      /\ \A k, l \in 1..m : order[k] = order[l] => k = l
      /\ \A i \in live : \E k \in 1..m : order[k] = i
  <2> HIDE DEF live
  <2> QED
    BY <1>3, OrderFacts
<1>5. \A i \in live : i \in Id /\ configs[i] \in Config /\ configs[i] # None
  BY <1>2
<1>6. \A i \in Id \ live : configs[i] = None
  BY <1>2
<1> HIDE DEF live, order
<1>7. n \in Nat /\ DOMAIN subs = 1..n /\ Typed
  BY DEF Inv, Typed
<1>8. ASSUME NEW k \in 1..n
      PROVE  /\ old[k] \in Sub /\ old[k].id = subs[k].id /\ ~old[k].active
             /\ \A e : ~Has(old[k], e)
  BY <1>7, <1>8, SubFacts, EndedType
<1>9. ASSUME NEW k \in 1..m
      PROVE  /\ order[k] \in live
             /\ fresh[k] \in Sub /\ fresh[k].id = order[k]
             /\ fresh[k].config = configs[order[k]] /\ fresh[k].active
             /\ \A e : ~Has(fresh[k], e)
  <2>1. order[k] \in live
    BY <1>4
  <2>2. fresh[k] = Subscriber(order[k], configs[order[k]])
    BY <1>2, <1>4
  <2> QED
    BY <2>1, <2>2, <1>5, SubscriberType
<1>10. old \in Seq(Sub) /\ Len(old) = n
  <2>1. old \in [1..n -> Sub]
    BY <1>7, <1>8
  <2> QED
    BY <1>7, <2>1
<1>11. fresh \in Seq(Sub) /\ Len(fresh) = m
  <2>1. DOMAIN fresh = 1..m
    BY <1>4
  <2>2. fresh \in [1..m -> Sub]
    BY <1>9, <2>1
  <2> QED
    BY <1>4, <2>2
<1> HIDE DEF old, fresh
<1>12. /\ subs' \in Seq(Sub) /\ Len(subs') = n + m /\ DOMAIN subs' = 1..(n + m)
       /\ \A k \in 1..n : subs'[k] = old[k]
       /\ \A k \in 1..m : subs'[n + k] = fresh[k]
  BY <1>1, <1>10, <1>11, Concatenated
<1>13. \A k \in 1..(n + m) : k \in 1..n \/ (k - n \in 1..m /\ k = n + (k - n))
  BY <1>4, <1>7
<1>14. Typed'
  <2>1. history' \in [Id -> Seq(Delivery)] /\ \A i \in Id : Len(history'[i]) <= HistorySize
    <3>1. <<>> \in Seq(Delivery) /\ Len(<<>>) <= HistorySize
      BY AutomationAssumption
    <3> QED
      BY <1>1, <1>7, <3>1, HistoryType
  <2>2. subs' \in Seq(SubType) /\ \A k \in DOMAIN subs' : Len(subs'[k].queue) <= Capacity
    BY <1>12, SubSeqType
  <2>3. restarts' \in 0..MaxRestarts
    BY <1>1, BoundAssumption DEF Inv, Typed, TypeOK
  <2> QED
    BY <1>1, <1>2, <1>12, <2>1, <2>2, <2>3 DEF Inv, Typed, TypeOK
<1>15. DiskIsMemory' /\ DiskLoads'
  BY <1>1, <1>2 DEF Inv, DiskIsMemory, DiskLoads
<1>16. Settled'
  <2> SUFFICES ASSUME NEW i \in Id PROVE Single(i)'
    BY DEF Settled
  <2>1. CASE i \in live
    <3>1. PICK k \in 1..m : order[k] = i
      BY <1>4, <2>1
    <3>2. n + k \in DOMAIN subs' /\ subs'[n + k].config = configs[i]
      BY <1>4, <1>7, <1>9, <1>12, <3>1
    <3>3. \A l \in DOMAIN subs' : subs'[l].id = i /\ subs'[l].active <=> l = n + k
      <4> SUFFICES ASSUME NEW l \in 1..(n + m)
                   PROVE  subs'[l].id = i /\ subs'[l].active <=> l = n + k
        BY <1>12
      <4>1. CASE l \in 1..n
        BY <1>4, <1>7, <1>8, <1>12, <4>1, SMTT(20)
      <4>2. CASE l - n \in 1..m /\ l = n + (l - n)
        <5>1. subs'[l].id = order[l - n] /\ subs'[l].active
          BY <1>9, <1>12, <4>2
        <5>2. order[l - n] = i <=> l - n = k
          BY <1>4, <3>1, <4>2
        <5>3. l - n = k <=> l = n + k
          BY <1>4, <1>7, <4>2
        <5> QED
          BY <5>1, <5>2, <5>3
      <4> QED
        BY <1>13, <4>1, <4>2
    <3>4. Live(i)' = {n + k}
      BY <3>2, <3>3 DEF Live
    <3> QED
      BY <1>1, <1>2, <1>5, <2>1, <3>2, <3>4 DEF Single
  <2>2. CASE i \notin live
    <3>1. \A l \in DOMAIN subs' : subs'[l].id = i => ~subs'[l].active
      <4>1. ASSUME NEW l \in 1..n PROVE ~subs'[l].active
        BY <1>8, <1>12
      <4>2. ASSUME NEW l \in 1..m PROVE subs'[n + l].id # i
        BY <1>9, <1>12, <2>2
      <4> QED
        BY <1>12, <1>13, <4>1, <4>2
    <3>2. Live(i)' = {}
      BY <3>1 DEF Live
    <3> QED
      BY <1>1, <1>2, <1>6, <2>2, <3>2 DEF Single
  <2> QED
    BY <2>1, <2>2
<1>17. AtMostOne'
  <2> SUFFICES ASSUME NEW k \in DOMAIN subs', NEW l \in DOMAIN subs',
                      subs'[k].active, subs'[l].active, subs'[k].id = subs'[l].id
               PROVE  k = l
    BY DEF AtMostOne
  <2>1. k \notin 1..n /\ l \notin 1..n
    BY <1>8, <1>12
  <2>2. k - n \in 1..m /\ l - n \in 1..m /\ k = n + (k - n) /\ l = n + (l - n)
    BY <1>12, <1>13, <2>1
  <2>3. order[k - n] = order[l - n]
    BY <1>9, <1>12, <2>2
  <2>4. k - n = l - n
    BY <1>4, <2>2, <2>3
  <2> QED
    BY <1>7, <2>2, <2>4
<1>18. Halfway'
  BY <1>1 DEF Halfway, NoOp
<1>19. ReachedOnce'
  <2>1. \A x \in started : x[3] \in 1..n /\ x[2] = subs'[x[3]].id
    BY <1>7, <1>8, <1>12 DEF Inv, ReachedOnce
  <2>2. ASSUME NEW k \in DOMAIN subs', NEW e PROVE ~Has(subs'[k], e)
    <3>1. CASE k \in 1..n
      BY <1>8, <1>12, <3>1
    <3>2. CASE k - n \in 1..m /\ k = n + (k - n)
      BY <1>9, <1>12, <3>2
    <3> QED
      BY <1>12, <1>13, <3>1, <3>2
  <2>3. ASSUME NEW k \in DOMAIN subs', NEW e \in Event, Reached(k, e)'
        PROVE  k \in 1..n /\ Reached(k, e) /\ subs'[k].id = subs[k].id
    <3>1. <<e, subs'[k].id, k>> \in started
      BY <1>1, <2>2, <2>3 DEF Reached
    <3>2. k \in 1..n
      BY <2>1, <3>1
    <3> QED
      BY <1>8, <1>12, <3>1, <3>2 DEF Reached
  <2>4. 1..n \subseteq DOMAIN subs'
    BY <1>4, <1>7, <1>12
  <2> QED
    BY <1>1, <1>7, <2>1, <2>3, <2>4 DEF Inv, ReachedOnce
<1> QED
  BY <1>14, <1>15, <1>16, <1>17, <1>18, <1>19 DEF Inv

-----------------------------------------------------------------------------
LEMMA InitInv == Init => Inv
<1> SUFFICES ASSUME Init PROVE Inv
  OBVIOUS
<1>1. /\ configs = [i \in Id |-> None] /\ rules = {} /\ subs = <<>> /\ op = NoOp
      /\ disk = [configs |-> configs, rules |-> rules] /\ started = {} /\ published = {}
      /\ history = [i \in Id |-> <<>>] /\ files = history /\ restarts = 0
  BY DEF Init
<1>2. subs \in Seq(Sub) /\ subs \in Seq(SubType) /\ DOMAIN subs = {} /\ Len(subs) = 0
  BY <1>1
<1>3. Typed
  BY <1>1, <1>2, AutomationAssumption, BoundAssumption DEF Typed, TypeOK
<1>4. DiskIsMemory /\ DiskLoads
  BY <1>1 DEF DiskIsMemory, DiskLoads
<1>5. Settled /\ AtMostOne /\ Halfway
  BY <1>1, <1>2 DEF Settled, Single, Live, AtMostOne, Halfway, NoOp
<1>6. ReachedOnce
  BY <1>1, <1>2 DEF ReachedOnce
<1> QED
  BY <1>3, <1>4, <1>5, <1>6 DEF Inv

LEMMA StutterStep == ASSUME Inv, UNCHANGED vars PROVE Inv'
<1>1. Typed'
  BY DEF vars, Inv, Typed, TypeOK
<1>2. DiskIsMemory' /\ DiskLoads'
  BY DEF vars, Inv, DiskIsMemory, DiskLoads
<1>3. Settled' /\ AtMostOne' /\ Halfway'
  BY DEF vars, Inv, Settled, Single, Live, AtMostOne, Halfway
<1>4. ReachedOnce'
  BY SameReached DEF vars
<1> QED
  BY <1>1, <1>2, <1>3, <1>4 DEF Inv

(* The invariant holds in every reachable state: of any number of saves,    *)
(* deletions, events and restarts, in any order and however slow the        *)
(* workers are.                                                             *)
THEOREM Invariant == Spec => []Inv
<1>1. Inv /\ [Next]_vars => Inv'
  <2> SUFFICES ASSUME Inv, [Next]_vars PROVE Inv'
    OBVIOUS
  <2>1. CASE UNCHANGED vars
    BY <2>1, StutterStep
  <2>2. ASSUME NEW e \in Event, Publish(e) PROVE Inv'
    BY <2>2, PublishStep
  <2>3. ASSUME NEW i \in Id, NEW c \in Config, SavePersists(i, c) PROVE Inv'
    BY <2>3, SaveBegins
  <2>4. ASSUME NEW i \in Id, DeletePersists(i) PROVE Inv'
    BY <2>4, DeleteBegins
  <2>5. ASSUME NEW R \in SUBSET Rule, ReplaceRules(R) PROVE Inv'
    BY <2>5, RulesStep
  <2>6. CASE Manage
    BY <2>6, StopStep, SubscribeStep, RemoveStep DEF Manage
  <2>7. CASE Restart
    BY <2>7, RestartStep
  <2>8. ASSUME NEW k \in 1..MaxSubs, Work(k) PROVE Inv'
    BY <2>8, WorkStep
  <2> QED
    BY <2>1, <2>2, <2>3, <2>4, <2>5, <2>6, <2>7, <2>8 DEF Next
<1> QED
  BY InitInv, <1>1, PTL DEF Spec, Safety

(* The settings on the disk never keep automation from starting: no rule    *)
(* has lost its integration or names another user's (Save, Delete,          *)
(* ReplaceRules, OpenManager).                                              *)
THEOREM DiskAlwaysLoads == Spec => []DiskLoads
<1>1. Inv => DiskLoads
  BY DEF Inv
<1> QED
  BY Invariant, <1>1, PTL

(* An integration has exactly one live subscriber, with its current config, *)
(* and one that is gone has none (register, Remove).                        *)
THEOREM AlwaysSubscribedOnce == Spec => []SubscribedOnce
<1>1. ASSUME Inv PROVE SubscribedOnce
  <2> SUFFICES ASSUME op = NoOp, NEW i \in Id
               PROVE  IF configs[i] = None THEN Live(i) = {}
                      ELSE Cardinality(Live(i)) = 1
                           /\ \A k \in Live(i) : subs[k].config = configs[i]
    BY DEF SubscribedOnce, Free, Live
  <2>1. Single(i)
    BY <1>1 DEF Inv, Settled
  <2>2. \A k : Cardinality({k}) = 1
    BY FS_Singleton
  <2> QED
    BY <2>1, <2>2 DEF Single
<1> QED
  BY Invariant, <1>1, PTL

(* webhooks.md's "at most one delivery per integration for a published      *)
(* event": whatever becomes of the integration, one subscriber at most has  *)
(* begun it.                                                                *)
THEOREM DeliversAtMostOnce == Spec => []OneDeliveryPerEvent
<1>1. ASSUME Inv PROVE OneDeliveryPerEvent
  <2> SUFFICES ASSUME NEW x \in started, NEW y \in started, x[1] = y[1], x[2] = y[2]
               PROVE  x = y
    BY DEF OneDeliveryPerEvent
  <2>1. /\ x \in Event \X Id \X (1..MaxSubs) /\ y \in Event \X Id \X (1..MaxSubs)
    BY <1>1 DEF Inv, Typed, TypeOK
  <2>2. x = <<x[1], x[2], x[3]>> /\ y = <<y[1], y[2], y[3]>> /\ x[1] \in Event
    BY <2>1
  <2>3. /\ x[3] \in DOMAIN subs /\ x[2] = subs[x[3]].id
        /\ y[3] \in DOMAIN subs /\ y[2] = subs[y[3]].id
    BY <1>1 DEF Inv, ReachedOnce
  <2>4. Reached(x[3], x[1]) /\ Reached(y[3], x[1])
    BY <2>2, <2>3 DEF Reached
  <2>5. x[3] = y[3]
    BY <1>1, <2>2, <2>3, <2>4 DEF Inv, ReachedOnce
  <2> QED
    BY <2>2, <2>5
<1> QED
  BY Invariant, <1>1, PTL

-----------------------------------------------------------------------------
(* From here on, the hub.                                                   *)

(* The hub has a connection from the addition to the removal.               *)
Registered == clients = {c \in Conn : phase[c] \in {"added", "serving", "removing"}}

(* Between two selects the hub's goroutine does nothing else: it still has  *)
(* all those it has to send to.                                             *)
SendsToClients == hub # Selecting => hub.left \subseteq hub.to /\ hub.to \subseteq clients

(* Whom the loop has passed took the notification, was too busy, or is the  *)
(* device it comes from; and it is broken off at one that is closing.       *)
PassedKnow ==
    hub # Selecting =>
        /\ \A c \in hub.to \ hub.left : \/ IsSource(c)
                                       \/ hub.note \in Range(got[c])
                                       \/ <<c, hub.note>> \in dropped
        /\ hub.aborted => \E c \in hub.to : Done(c)

HubInv == HubTypeOK /\ Registered /\ SendsToClients /\ PassedKnow

-----------------------------------------------------------------------------
LEMMA HubInitInv == HubInit => HubInv
<1> SUFFICES ASSUME HubInit PROVE HubInv
  OBVIOUS
<1>1. HubTypeOK
  BY QueueAssumption DEF HubInit, HubTypeOK, Phases, HubType
<1>2. Registered /\ SendsToClients /\ PassedKnow
  BY DEF HubInit, Registered, SendsToClients, PassedKnow
<1> QED
  BY <1>1, <1>2 DEF HubInv

(* What the hub is doing, when it is not waiting in its select.             *)
LEMMA SendType ==
    ASSUME HubTypeOK, hub # Selecting
    PROVE  /\ hub \in [pc : {"send"}, note : Note, to : SUBSET Conn,
                       left : SUBSET Conn, aborted : BOOLEAN]
           /\ hub.note \in Note /\ hub.to \subseteq Conn /\ hub.left \subseteq Conn
           /\ hub.aborted \in BOOLEAN
BY DEF HubTypeOK, HubType

LEMMA SendNotSelecting ==
    ASSUME NEW h \in [pc : {"send"}, note : Note, to : SUBSET Conn,
                      left : SUBSET Conn, aborted : BOOLEAN]
    PROVE  h # Selecting
<1>1. h.pc = "send" /\ Selecting.pc = "select"
  BY DEF Selecting
<1> QED
  BY <1>1

(* The loop goes on to another connection, or is broken off.                *)
LEMMA LoopStep ==
    ASSUME HubTypeOK, hub # Selecting, NEW c \in Conn, NEW aborts \in BOOLEAN,
           hub' = IF aborts THEN [hub EXCEPT !.aborted = TRUE]
                  ELSE [hub EXCEPT !.left = @ \ {c}]
    PROVE  /\ hub' \in HubType /\ hub' # Selecting
           /\ hub'.note = hub.note /\ hub'.to = hub.to
           /\ hub'.left = IF aborts THEN hub.left ELSE hub.left \ {c}
           /\ hub'.aborted = IF aborts THEN TRUE ELSE hub.aborted
<1>1. hub \in [pc : {"send"}, note : Note, to : SUBSET Conn,
              left : SUBSET Conn, aborted : BOOLEAN]
  BY SendType
<1>2. hub' \in [pc : {"send"}, note : Note, to : SUBSET Conn,
               left : SUBSET Conn, aborted : BOOLEAN]
  BY <1>1
<1>3. hub' # Selecting
  BY <1>2, SendNotSelecting
<1> QED
  BY <1>1, <1>2, <1>3 DEF HubType

(* A step of a connection that leaves the hub as it is.                     *)
LEMMA ConnectionStep ==
    ASSUME HubInv, UNCHANGED <<clients, queue, hub, got, dropped, sent>>,
           phase' \in [Conn -> Phases],
           reader' \in [Conn -> {"none", "reading", "ended"}],
           writer' \in [Conn -> {"none", "waiting", "writing", "ended"}],
           \A c \in Conn : /\ phase'[c] \in {"added", "serving", "removing"}
                                <=> phase[c] \in {"added", "serving", "removing"}
                           /\ Done(c) => Done(c)'
    PROVE  HubInv'
<1>1. HubTypeOK'
  BY DEF HubInv, HubTypeOK
<1>2. Registered'
  BY DEF HubInv, Registered
<1>3. SendsToClients'
  BY DEF HubInv, SendsToClients
<1>4. PassedKnow'
  <2> SUFFICES ASSUME hub # Selecting
               PROVE  /\ \A c \in hub.to \ hub.left : \/ IsSource(c)
                                                     \/ hub.note \in Range(got[c])
                                                     \/ <<c, hub.note>> \in dropped
                      /\ hub.aborted => \E c \in hub.to : Done(c)'
    BY DEF PassedKnow, IsSource
  <2>1. hub.to \subseteq Conn
    BY SendType DEF HubInv
  <2> QED
    BY <2>1 DEF HubInv, PassedKnow
<1> QED
  BY <1>1, <1>2, <1>3, <1>4 DEF HubInv

(* ConnectWs, the reader and the writer; Registered needs no more of them   *)
(* than that only the hub moves a connection in or out.                     *)
LEMMA ConnectionSteps ==
    ASSUME HubInv, NEW c \in Conn,
           \/ Connect(c) \/ Serve(c) \/ ReaderEnds(c) \/ Written(c) \/ WriteFails(c)
           \/ WriterEnds(c) \/ Close(c)
    PROVE  HubInv'
<1> USE DEF Move, HubInv, HubTypeOK, Phases, Done
<1>1. CASE Connect(c)
  BY <1>1, ConnectionStep DEF Connect
<1>2. CASE Serve(c)
  BY <1>2, ConnectionStep DEF Serve
<1>3. CASE ReaderEnds(c)
  BY <1>3, ConnectionStep DEF ReaderEnds
<1>4. CASE Written(c)
  BY <1>4, ConnectionStep DEF Written
<1>5. CASE WriteFails(c)
  BY <1>5, ConnectionStep DEF WriteFails
<1>6. CASE WriterEnds(c)
  BY <1>6, ConnectionStep DEF WriterEnds
<1>7. CASE Close(c)
  BY <1>7, ConnectionStep DEF Close
<1> QED
  BY <1>1, <1>2, <1>3, <1>4, <1>5, <1>6, <1>7

(* The hub adds and removes connections only between two dispatches.        *)
LEMMA AddRemove ==
    ASSUME HubInv, NEW c \in Conn, HubAdds(c) \/ HubRemoves(c)
    PROVE  HubInv'
<1>1. hub = Selecting /\ hub' = Selecting
  BY DEF HubAdds, HubRemoves
<1>2. HubTypeOK'
  BY DEF HubAdds, HubRemoves, Move, HubInv, HubTypeOK, Phases
<1>3. Registered'
  BY DEF HubAdds, HubRemoves, Move, HubInv, HubTypeOK, Phases, Registered
<1>4. SendsToClients' /\ PassedKnow'
  BY <1>1 DEF SendsToClients, PassedKnow
<1> QED
  BY <1>2, <1>3, <1>4 DEF HubInv

LEMMA NotifyStep == ASSUME HubInv, NEW n \in Note, Notify(n) PROVE HubInv'
<1>1. HubTypeOK'
  <2>1. queue' \in Seq(Note) /\ Len(queue') <= QueueSize
    BY QueueAssumption DEF Notify, HubInv, HubTypeOK
  <2> QED
    BY <2>1 DEF Notify, HubInv, HubTypeOK
<1>2. Registered' /\ SendsToClients'
  BY DEF Notify, HubInv, Registered, SendsToClients
<1>3. PassedKnow'
  BY DEF Notify, HubInv, PassedKnow, IsSource, Done
<1> QED
  BY <1>1, <1>2, <1>3 DEF HubInv

LEMMA TakeStep == ASSUME HubInv, HubTakes PROVE HubInv'
<1> DEFINE to == {c \in clients : UserOf[c] = NoteUser[Head(queue)]}
<1>1. /\ hub' = [pc |-> "send", note |-> Head(queue), to |-> to, left |-> to,
                 aborted |-> FALSE]
      /\ UNCHANGED <<phase, reader, writer, clients, got, dropped, sent>>
      /\ queue # <<>> /\ queue' = Tail(queue)
  BY DEF HubTakes
<1>2. to \subseteq clients /\ to \subseteq Conn
  BY DEF HubInv, HubTypeOK
<1> HIDE DEF to
<1>3. /\ Head(queue) \in Note
      /\ queue' \in Seq(Note) /\ Len(queue') <= QueueSize
  BY <1>1, QueueAssumption DEF HubInv, HubTypeOK
<1>4. hub' \in HubType
  BY <1>1, <1>2, <1>3 DEF HubType
<1>5. HubTypeOK'
  BY <1>1, <1>3, <1>4 DEF HubInv, HubTypeOK
<1>6. Registered' /\ SendsToClients'
  BY <1>1, <1>2 DEF HubInv, Registered, SendsToClients
<1>7. PassedKnow'
  BY <1>1 DEF PassedKnow
<1> QED
  BY <1>5, <1>6, <1>7 DEF HubInv

LEMMA ReturnStep == ASSUME HubInv, HubReturns PROVE HubInv'
<1>1. hub' = Selecting /\ hub # Selecting
  BY DEF HubReturns
<1>2. sent' \in Seq(Note)
  BY <1>1, SendType DEF HubReturns, HubInv, HubTypeOK
<1>3. HubTypeOK'
  BY <1>1, <1>2 DEF HubReturns, HubInv, HubTypeOK, HubType
<1>4. Registered' /\ SendsToClients' /\ PassedKnow'
  BY <1>1 DEF HubReturns, HubInv, Registered, SendsToClients, PassedKnow
<1> QED
  BY <1>3, <1>4 DEF HubInv

LEMMA AppendRange ==
    ASSUME NEW s \in Seq(Note), NEW n \in Note
    PROVE  /\ Append(s, n) \in Seq(Note)
           /\ n \in Range(Append(s, n))
           /\ Range(s) \subseteq Range(Append(s, n))
<1>1. /\ Append(s, n) \in Seq(Note) /\ Len(Append(s, n)) = Len(s) + 1
      /\ Append(s, n)[Len(s) + 1] = n
      /\ \A i \in 1 .. Len(s) : Append(s, n)[i] = s[i]
      /\ DOMAIN s = 1 .. Len(s) /\ DOMAIN Append(s, n) = 1 .. Len(s) + 1
      /\ Len(s) \in Nat
  OBVIOUS
<1> QED
  BY <1>1 DEF Range

(* What each connection took and missed only grows while the loop goes on.  *)
LEMMA LoopKeeps ==
    ASSUME HubInv, hub # Selecting, NEW c \in hub.left, NEW aborts \in BOOLEAN,
           hub' = IF aborts THEN [hub EXCEPT !.aborted = TRUE]
                  ELSE [hub EXCEPT !.left = @ \ {c}],
           UNCHANGED <<phase, reader, clients, queue, sent>>,
           writer' \in [Conn -> {"none", "waiting", "writing", "ended"}],
           got' \in [Conn -> Seq(Note)],
           dropped' \subseteq Conn \X Note,
           dropped \subseteq dropped',
           \A d \in Conn : Range(got[d]) \subseteq Range(got'[d]),
           aborts => Done(c),
           aborts \/ IsSource(c) \/ hub.note \in Range(got'[c]) \/ <<c, hub.note>> \in dropped'
    PROVE  HubInv'
<1>1. /\ hub.note \in Note /\ hub.to \subseteq Conn /\ hub.left \subseteq Conn
      /\ hub.left \subseteq hub.to /\ hub.to \subseteq clients
  BY SendType DEF HubInv, SendsToClients
<1>2. /\ hub' \in HubType /\ hub' # Selecting
      /\ hub'.note = hub.note /\ hub'.to = hub.to
      /\ hub'.left = IF aborts THEN hub.left ELSE hub.left \ {c}
      /\ hub'.aborted = IF aborts THEN TRUE ELSE hub.aborted
  BY <1>1, LoopStep DEF HubInv
<1>3. HubTypeOK'
  BY <1>2 DEF HubInv, HubTypeOK
<1>4. Registered'
  BY DEF HubInv, Registered
<1>5. SendsToClients'
  BY <1>1, <1>2 DEF SendsToClients
<1>6. PassedKnow'
  <2>1. ASSUME NEW d \in hub.to \ hub'.left
        PROVE  \/ DeviceOf[d] = NoteFrom[hub.note]
               \/ hub.note \in Range(got'[d])
               \/ <<d, hub.note>> \in dropped'
    <3>1. CASE d \in hub.left
      <4>1. ~aborts /\ d = c
        BY <1>2, <2>1, <3>1
      <4> QED
        BY <4>1 DEF IsSource
    <3>2. CASE d \notin hub.left
      <4>1. \/ IsSource(d)
            \/ hub.note \in Range(got[d])
            \/ <<d, hub.note>> \in dropped
        BY <3>2, <2>1 DEF HubInv, PassedKnow
      <4> QED
        BY <4>1, <1>1, <2>1 DEF IsSource
    <3> QED
      BY <3>1, <3>2
  <2>2. hub'.aborted => \E d \in hub.to : Done(d)
    BY <1>1, <1>2 DEF HubInv, PassedKnow
  <2> QED
    BY <1>2, <2>1, <2>2 DEF PassedKnow, IsSource, Done
<1> QED
  BY <1>3, <1>4, <1>5, <1>6 DEF HubInv

LEMMA SendStep == ASSUME HubInv, NEW c \in Conn, Send(c) PROVE HubInv'
<1>1. hub # Selecting /\ c \in hub.left
  BY DEF Send, SkipsSource, Delivers, Drops, Aborts, Sending
<1>2. hub.note \in Note
  BY <1>1, SendType DEF HubInv
<1>3. /\ writer \in [Conn -> {"none", "waiting", "writing", "ended"}]
      /\ got \in [Conn -> Seq(Note)] /\ dropped \subseteq Conn \X Note
  BY DEF HubInv, HubTypeOK
<1>4. CASE SkipsSource(c)
  <2>1. /\ hub' = [hub EXCEPT !.left = @ \ {c}] /\ IsSource(c)
        /\ UNCHANGED <<phase, reader, writer, clients, queue, got, dropped, sent>>
    BY <1>4 DEF SkipsSource, Visited
  <2> QED
    BY <1>1, <1>3, <2>1, LoopKeeps
<1>5. CASE Delivers(c)
  <2>1. /\ hub' = [hub EXCEPT !.left = @ \ {c}]
        /\ writer' = [writer EXCEPT ![c] = "writing"]
        /\ got' = [got EXCEPT ![c] = Append(@, hub.note)]
        /\ UNCHANGED <<phase, reader, clients, queue, dropped, sent>>
    BY <1>5 DEF Delivers, Visited
  <2>2. /\ Append(got[c], hub.note) \in Seq(Note)
        /\ hub.note \in Range(Append(got[c], hub.note))
        /\ Range(got[c]) \subseteq Range(Append(got[c], hub.note))
    BY <1>2, <1>3, AppendRange
  <2>3. /\ got' \in [Conn -> Seq(Note)]
        /\ got'[c] = Append(got[c], hub.note)
        /\ \A d \in Conn \ {c} : got'[d] = got[d]
    BY <1>3, <2>1, <2>2
  <2>4. writer' \in [Conn -> {"none", "waiting", "writing", "ended"}]
    BY <1>3, <2>1
  <2>5. \A d \in Conn : Range(got[d]) \subseteq Range(got'[d])
    BY <2>2, <2>3
  <2> QED
    BY <1>1, <1>3, <2>1, <2>2, <2>3, <2>4, <2>5, LoopKeeps
<1>6. CASE Drops(c)
  <2>1. /\ hub' = [hub EXCEPT !.left = @ \ {c}]
        /\ dropped' = dropped \cup {<<c, hub.note>>}
        /\ UNCHANGED <<phase, reader, writer, clients, queue, got, sent>>
    BY <1>6 DEF Drops, Visited
  <2>2. /\ dropped' \subseteq Conn \X Note /\ dropped \subseteq dropped'
        /\ <<c, hub.note>> \in dropped'
    BY <1>2, <1>3, <2>1
  <2> QED
    BY <1>1, <1>3, <2>1, <2>2, LoopKeeps
<1>7. CASE Aborts(c)
  <2>1. /\ hub' = [hub EXCEPT !.aborted = TRUE] /\ Done(c)
        /\ UNCHANGED <<phase, reader, writer, clients, queue, got, dropped, sent>>
    BY <1>7 DEF Aborts
  <2> QED
    BY <1>1, <1>3, <2>1, LoopKeeps
<1> QED
  BY <1>4, <1>5, <1>6, <1>7 DEF Send

LEMMA HubStutterStep == ASSUME HubInv, UNCHANGED hubVars PROVE HubInv'
BY DEF hubVars, HubInv, HubTypeOK, Registered, SendsToClients, PassedKnow, IsSource, Done

(* The invariant holds in every reachable state, of any number of           *)
(* connections and with a queue of any size (start, send, ConnectWs).       *)
THEOREM HubInvariant == HubSpec => []HubInv
<1>1. HubInv /\ [HubNext]_hubVars => HubInv'
  <2> SUFFICES ASSUME HubInv, [HubNext]_hubVars PROVE HubInv'
    OBVIOUS
  <2>1. CASE UNCHANGED hubVars
    BY <2>1, HubStutterStep
  <2>2. ASSUME NEW c \in Conn,
               \/ Connect(c) \/ Serve(c) \/ ReaderEnds(c) \/ Written(c) \/ WriteFails(c)
               \/ WriterEnds(c) \/ Close(c) \/ HubAdds(c) \/ HubRemoves(c) \/ Send(c)
        PROVE  HubInv'
    BY <2>2, ConnectionSteps, AddRemove, SendStep
  <2>3. ASSUME NEW n \in Note, Notify(n) PROVE HubInv'
    BY <2>3, NotifyStep
  <2>4. CASE HubTakes \/ HubReturns
    BY <2>4, TakeStep, ReturnStep
  <2> QED
    BY <2>1, <2>2, <2>3, <2>4 DEF HubNext
<1> QED
  BY HubInitInv, <1>1, PTL DEF HubSpec, HubSafety

(* The hub never sends on a channel it has closed: whoever is left in the   *)
(* loop is still a client, and removeClient closes no client's channel.     *)
THEOREM NeverSendsOnClosed == HubSpec => []NoSendOnClosed
<1>1. ASSUME HubInv PROVE NoSendOnClosed
  <2> SUFFICES ASSUME NEW c \in Conn, Sending(c) PROVE ~ChannelClosed(c)
    BY DEF NoSendOnClosed
  <2>1. c \in clients
    BY <1>1 DEF Sending, HubInv, SendsToClients
  <2> QED
    BY <1>1, <2>1 DEF HubInv, Registered, ChannelClosed
<1> QED
  BY HubInvariant, <1>1, PTL

(* A connected device misses a notification only if its own writer was busy *)
(* or another connection of the same user was closing (send).               *)
THEOREM NothingElseIsMissed == HubSpec => []MissedOnlyByClosing
<1>1. ASSUME HubInv PROVE MissedOnlyByClosing
  <2> SUFFICES ASSUME SendEnds, NEW c \in hub.to, Missed(c)
               PROVE  \E d \in hub.to : Done(d)
    BY DEF MissedOnlyByClosing
  <2>1. CASE hub.aborted
    BY <1>1, <2>1 DEF SendEnds, HubInv, PassedKnow
  <2>2. CASE hub.left = {}
    BY <1>1, <2>2 DEF SendEnds, Missed, HubInv, PassedKnow
  <2> QED
    BY <2>1, <2>2 DEF SendEnds
<1> QED
  BY HubInvariant, <1>1, PTL

-----------------------------------------------------------------------------
(* Nothing is dispatched twice: what waits was not sent, each of it waits   *)
(* once, and who is still left in the loop has not got it.                  *)
SentOnce ==
    /\ \A i, j \in DOMAIN queue : i # j => queue[i] # queue[j]
    /\ Range(queue) \cap Range(Dispatched) = {}
    /\ hub # Selecting => \A c \in hub.left : Range(got[c]) \subseteq Range(sent) \ {hub.note}

OrderInv == HubInv /\ SentOnce /\ DeliveredInOrder

LEMMA DispatchedType ==
    ASSUME HubInv
    PROVE  /\ Dispatched \in Seq(Note) /\ sent \in Seq(Note)
           /\ hub # Selecting => /\ hub.note \in Note
                                 /\ Dispatched = Append(sent, hub.note)
                                 /\ DOMAIN Dispatched = 1..Len(sent) + 1
                                 /\ Dispatched[Len(sent) + 1] = hub.note
                                 /\ \A i \in 1..Len(sent) : Dispatched[i] = sent[i]
           /\ hub = Selecting => Dispatched = sent
           /\ DOMAIN sent = 1..Len(sent) /\ Len(sent) \in Nat
  BY SendType DEF HubInv, HubTypeOK, Dispatched

LEMMA DispatchedType2 ==
    ASSUME HubInv, hub # Selecting
    PROVE  Range(Dispatched) = Range(sent) \cup {hub.note}
  BY DispatchedType DEF Range

(* What leaves the order and the deliveries alone.                          *)
LEMMA OrderSame ==
    ASSUME OrderInv, HubInv', UNCHANGED <<queue, hub, got, sent>>
    PROVE  OrderInv'
  BY DEF OrderInv, SentOnce, DeliveredInOrder, Dispatched, Before

LEMMA OrderVisit ==
    ASSUME OrderInv, HubInv', hub # Selecting, hub' # Selecting, hub'.note = hub.note,
           hub'.left \subseteq hub.left, UNCHANGED <<queue, got, sent>>
    PROVE  OrderInv'
  <1>1. Dispatched' = Dispatched
    BY DEF Dispatched
  <1>2. SentOnce'
    BY <1>1 DEF OrderInv, SentOnce
  <1>3. DeliveredInOrder'
    BY <1>1 DEF OrderInv, DeliveredInOrder, Before
  <1> QED
    BY <1>2, <1>3 DEF OrderInv

LEMMA OrderDeliver ==
    ASSUME OrderInv, HubInv', NEW c \in Conn, Delivers(c)
    PROVE  OrderInv'
  <1>1. /\ hub # Selecting /\ c \in hub.left /\ hub' = [hub EXCEPT !.left = @ \ {c}]
        /\ got' = [got EXCEPT ![c] = Append(@, hub.note)]
        /\ UNCHANGED <<queue, sent>>
    BY DEF Delivers, Visited, Sending
  <1>2. HubInv /\ HubTypeOK /\ hub.note \in Note /\ got \in [Conn -> Seq(Note)]
    BY <1>1, SendType DEF OrderInv, HubInv, HubTypeOK
  <1>3. hub' # Selecting /\ hub'.note = hub.note /\ hub'.left = hub.left \ {c}
    BY <1>1, <1>2, LoopStep
  <1>4. Dispatched' = Dispatched
    BY <1>1, <1>3 DEF Dispatched
  <1>5. got'[c] = Append(got[c], hub.note) /\ \A d \in Conn \ {c} : got'[d] = got[d]
    BY <1>1, <1>2
  <1>6. hub.left \subseteq Conn
    BY <1>1, <1>2, SendType
  <1>7. SentOnce'
    BY <1>1, <1>3, <1>4, <1>5, <1>6 DEF OrderInv, SentOnce
  <1>8. /\ DOMAIN got'[c] = 1..Len(got[c]) + 1 /\ Len(got[c]) \in Nat
        /\ DOMAIN got[c] = 1..Len(got[c])
        /\ got'[c][Len(got[c]) + 1] = hub.note
        /\ \A i \in 1..Len(got[c]) : got'[c][i] = got[c][i]
    BY <1>2, <1>5
  <1>9. Range(got[c]) \subseteq Range(sent) \ {hub.note}
    BY <1>1 DEF OrderInv, SentOnce
  <1>10. Range(got'[c]) \subseteq Range(Dispatched)
    <2>1. Range(got'[c]) = Range(got[c]) \cup {hub.note}
      BY <1>8, SMTT(20) DEF Range
    <2> QED
      BY <1>1, <1>2, <1>9, <2>1, DispatchedType2
  <1>11. ASSUME NEW i \in DOMAIN got'[c], NEW j \in DOMAIN got'[c], i < j
         PROVE  got'[c][i] # got'[c][j] /\ Before(got'[c][i], got'[c][j])
    <2>1. CASE j \in 1..Len(got[c])
      <3>1. i \in 1..Len(got[c])
        BY <1>8, <1>11, <2>1
      <3> QED
        BY <1>8, <1>11, <2>1, <3>1 DEF OrderInv, DeliveredInOrder
    <2>2. CASE j = Len(got[c]) + 1
      <3>1. i \in 1..Len(got[c]) /\ got'[c][j] = hub.note /\ got'[c][i] = got[c][i]
        BY <1>8, <1>11, <2>2
      <3>2. got[c][i] \in Range(sent) /\ got[c][i] # hub.note
        BY <1>8, <1>9, <3>1 DEF Range
      <3>3. PICK k \in 1..Len(sent) : sent[k] = got[c][i]
        BY <1>2, <3>2, DispatchedType DEF Range
      <3>4. /\ k \in DOMAIN Dispatched /\ Len(sent) + 1 \in DOMAIN Dispatched /\ k < Len(sent) + 1
            /\ Dispatched[k] = got[c][i] /\ Dispatched[Len(sent) + 1] = hub.note
        BY <1>1, <1>2, <3>3, DispatchedType
      <3> QED
        BY <3>1, <3>2, <3>4 DEF Before
    <2> QED
      BY <1>8, <2>1, <2>2
  <1>12. DeliveredInOrder'
    <2> SUFFICES ASSUME NEW d \in Conn
                 PROVE /\ Range(got'[d]) \subseteq Range(Dispatched')
                       /\ \A i, j \in DOMAIN got'[d] : i < j =>
                             got'[d][i] # got'[d][j] /\ Before(got[d][i], got[d][j])'
      BY DEF DeliveredInOrder
    <2>1. CASE d = c
      BY <1>4, <1>10, <1>11, <2>1 DEF Before
    <2>2. CASE d # c
      BY <1>4, <1>5, <2>2 DEF Before, OrderInv, DeliveredInOrder
    <2> QED
      BY <2>1, <2>2
  <1> QED
    BY <1>7, <1>12 DEF OrderInv

LEMMA OrderSend ==
    ASSUME OrderInv, HubInv', NEW c \in Conn, Send(c)
    PROVE  OrderInv'
  <1>1. hub # Selecting /\ HubTypeOK
    BY DEF Send, SkipsSource, Delivers, Drops, Aborts, Sending, OrderInv, HubInv
  <1>2. CASE SkipsSource(c) \/ Drops(c)
    <2>1. hub' = [hub EXCEPT !.left = @ \ {c}] /\ UNCHANGED <<queue, got, sent>>
      BY <1>2 DEF SkipsSource, Drops, Visited
    <2>2. hub' # Selecting /\ hub'.note = hub.note /\ hub'.left = hub.left \ {c}
      BY <1>1, <2>1, LoopStep
    <2> QED
      BY <1>1, <2>1, <2>2, OrderVisit
  <1>3. CASE Aborts(c)
    <2>1. hub' = [hub EXCEPT !.aborted = TRUE] /\ UNCHANGED <<queue, got, sent>>
      BY <1>3 DEF Aborts
    <2>2. hub' # Selecting /\ hub'.note = hub.note /\ hub'.left = hub.left
      BY <1>1, <2>1, LoopStep
    <2> QED
      BY <1>1, <2>1, <2>2, OrderVisit
  <1>4. CASE Delivers(c)
    BY <1>4, OrderDeliver
  <1> QED
    BY <1>2, <1>3, <1>4 DEF Send

LEMMA OrderNotify ==
    ASSUME OrderInv, HubInv', NEW n \in Note, Notify(n)
    PROVE  OrderInv'
  <1>1. n \notin Published /\ queue' = Append(queue, n) /\ UNCHANGED <<hub, got, sent>>
    BY DEF Notify
  <1>2. HubInv /\ queue \in Seq(Note)
    BY DEF OrderInv, HubInv, HubTypeOK
  <1>3. /\ DOMAIN queue = 1..Len(queue) /\ Len(queue) \in Nat /\ DOMAIN queue' = 1..Len(queue) + 1
        /\ queue'[Len(queue) + 1] = n /\ \A i \in 1..Len(queue) : queue'[i] = queue[i]
    BY <1>1, <1>2
  <1>4. Range(queue') = Range(queue) \cup {n}
    BY <1>3 DEF Range
  <1>5. Dispatched' = Dispatched
    BY <1>1 DEF Dispatched
  <1>6. n \notin Range(queue) /\ n \notin Range(Dispatched)
    BY <1>1, <1>2, DispatchedType, DispatchedType2 DEF Published
  <1>7. \A i, j \in DOMAIN queue' : i # j => queue'[i] # queue'[j]
    <2> SUFFICES ASSUME NEW i \in DOMAIN queue', NEW j \in DOMAIN queue', i # j
                 PROVE queue'[i] # queue'[j]
      OBVIOUS
    <2>1. \A k \in 1..Len(queue) : queue'[k] # n
      BY <1>3, <1>6 DEF Range
    <2> QED
      BY <1>3, <2>1 DEF OrderInv, SentOnce
  <1>8. SentOnce'
    BY <1>1, <1>4, <1>5, <1>6, <1>7 DEF OrderInv, SentOnce
  <1>9. DeliveredInOrder'
    BY <1>1, <1>5 DEF OrderInv, DeliveredInOrder, Before
  <1> QED
    BY <1>8, <1>9 DEF OrderInv

LEMMA OrderTake ==
    ASSUME OrderInv, HubInv', HubTakes
    PROVE  OrderInv'
  <1>1. /\ hub = Selecting /\ queue # <<>> /\ queue' = Tail(queue) /\ UNCHANGED <<got, sent>>
        /\ hub'.note = Head(queue) /\ hub'.left \subseteq Conn
    BY DEF HubTakes, OrderInv, HubInv, HubTypeOK
  <1>2. HubInv /\ queue \in Seq(Note)
    BY DEF OrderInv, HubInv, HubTypeOK
  <1>3. /\ DOMAIN queue = 1..Len(queue) /\ Len(queue) \in Nat \ {0}
        /\ DOMAIN queue' = 1..Len(queue) - 1 /\ Head(queue) = queue[1] /\ Head(queue) \in Note
        /\ \A i \in 1..Len(queue) - 1 : queue'[i] = queue[i + 1]
    BY <1>1, <1>2
  <1>4. hub' # Selecting
    <2>1. hub'.pc = "send"
      BY DEF HubTakes
    <2> QED
      BY <2>1 DEF Selecting
  <1>5. Dispatched = sent /\ Dispatched' = Append(sent, Head(queue))
    BY <1>1, <1>4 DEF Dispatched
  <1>6. Head(queue) \notin Range(sent) /\ Range(queue) \cap Range(sent) = {}
    <2>1. Range(queue) \cap Range(sent) = {}
      BY <1>5 DEF OrderInv, SentOnce
    <2>2. Head(queue) \in Range(queue)
      BY <1>3 DEF Range
    <2> QED
      BY <2>1, <2>2
  <1>7. Range(Dispatched') = Range(sent) \cup {Head(queue)}
    BY <1>1, <1>4, <1>5, DispatchedType2, SMTT(20) DEF Range
  <1>8. Range(queue') \subseteq Range(queue) \ {Head(queue)}
    <2> SUFFICES ASSUME NEW i \in 1..Len(queue) - 1
                 PROVE queue[i + 1] \in Range(queue) \ {queue[1]}
      BY <1>3 DEF Range
    <2>1. i + 1 \in DOMAIN queue /\ 1 \in DOMAIN queue /\ i + 1 # 1
      BY <1>3
    <2> QED
      BY <2>1 DEF OrderInv, SentOnce, Range
  <1>9. \A i, j \in DOMAIN queue' : i # j => queue'[i] # queue'[j]
    <2> SUFFICES ASSUME NEW i \in 1..Len(queue) - 1, NEW j \in 1..Len(queue) - 1, i # j
                 PROVE queue[i + 1] # queue[j + 1]
      BY <1>3
    <2>1. i + 1 \in DOMAIN queue /\ j + 1 \in DOMAIN queue /\ i + 1 # j + 1
      BY <1>3
    <2> QED
      BY <2>1 DEF OrderInv, SentOnce
  <1>10. SentOnce'
    <2>1. \A c \in Conn : Range(got[c]) \subseteq Range(sent) \ {Head(queue)}
      BY <1>5, <1>6 DEF OrderInv, DeliveredInOrder
    <2>2. Range(queue') \cap Range(Dispatched') = {}
      BY <1>6, <1>7, <1>8
    <2> QED
      BY <1>1, <1>9, <2>1, <2>2 DEF SentOnce
  <1>11. DeliveredInOrder'
    <2>1. /\ DOMAIN Dispatched' = 1..Len(sent) + 1 /\ DOMAIN sent = 1..Len(sent) /\ Len(sent) \in Nat
          /\ \A i \in DOMAIN sent : Dispatched'[i] = sent[i]
      <3>1. sent \in Seq(Note) /\ DOMAIN sent = 1..Len(sent) /\ Len(sent) \in Nat
        BY <1>2, DispatchedType
      <3>2. PICK n \in Note : n = Head(queue)
        BY <1>3
      <3>3. /\ DOMAIN Append(sent, n) = 1..Len(sent) + 1
            /\ \A i \in 1..Len(sent) : Append(sent, n)[i] = sent[i]
        BY <3>1
      <3> QED
        BY <1>5, <3>1, <3>2, <3>3
    <2>2. \A m, n : Before(m, n) => Before(m, n)'
      <3> SUFFICES ASSUME NEW m, NEW n, Before(m, n) PROVE Before(m, n)'
        OBVIOUS
      <3>1. PICK i, j \in DOMAIN sent : i < j /\ sent[i] = m /\ sent[j] = n
        BY <1>5 DEF Before
      <3>2. i \in DOMAIN Dispatched' /\ j \in DOMAIN Dispatched'
        BY <2>1
      <3> QED
        BY <2>1, <3>1, <3>2 DEF Before
    <2>3. \A c \in Conn : Range(got[c]) \subseteq Range(Dispatched')
      BY <1>5, <1>7 DEF OrderInv, DeliveredInOrder
    <2>4. \A c \in Conn : \A i, j \in DOMAIN got[c] : i < j =>
              got[c][i] # got[c][j] /\ Before(got[c][i], got[c][j])
      BY DEF OrderInv, DeliveredInOrder
    <2>5. ASSUME NEW c \in Conn, NEW i \in DOMAIN got'[c], NEW j \in DOMAIN got'[c], i < j
          PROVE  got'[c][i] # got'[c][j] /\ Before(got[c][i], got[c][j])'
      <3>1. PICK m, n : m = got[c][i] /\ n = got[c][j]
        OBVIOUS
      <3>2. m # n /\ Before(m, n)'
        BY <1>1, <2>2, <2>4, <2>5, <3>1
      <3> QED
        BY <1>1, <3>1, <3>2 DEF Before
    <2> QED
      BY <1>1, <2>3, <2>5 DEF DeliveredInOrder
  <1> QED
    BY <1>10, <1>11 DEF OrderInv

LEMMA OrderReturn ==
    ASSUME OrderInv, HubInv', HubReturns
    PROVE  OrderInv'
  <1>1. /\ hub # Selecting /\ hub' = Selecting /\ sent' = Append(sent, hub.note)
        /\ UNCHANGED <<queue, got>>
    BY DEF HubReturns
  <1>2. Dispatched' = Dispatched
    BY <1>1 DEF Dispatched
  <1>3. SentOnce'
    BY <1>1, <1>2 DEF OrderInv, SentOnce
  <1>4. DeliveredInOrder'
    BY <1>1, <1>2 DEF OrderInv, DeliveredInOrder, Before
  <1> QED
    BY <1>3, <1>4 DEF OrderInv

(* Notifications are dispatched once each, and a connection hears of them   *)
(* in that order, whatever its writer misses (start, send).                 *)
THEOREM AlwaysInOrder == HubSpec => []DeliveredInOrder
  <1>1. HubInit => OrderInv
    <2> SUFFICES ASSUME HubInit PROVE SentOnce /\ DeliveredInOrder
      BY HubInitInv DEF OrderInv
    <2>1. queue = <<>> /\ hub = Selecting /\ \A c \in Conn : got[c] = <<>>
      BY DEF HubInit
    <2> QED
      BY <2>1 DEF SentOnce, DeliveredInOrder, Range
  <1>2. OrderInv /\ HubInv' /\ [HubNext]_hubVars => OrderInv'
    <2> SUFFICES ASSUME OrderInv, HubInv', [HubNext]_hubVars PROVE OrderInv'
      OBVIOUS
    <2>1. CASE UNCHANGED hubVars
      BY <2>1, OrderSame DEF hubVars
    <2>2. ASSUME NEW c \in Conn,
                 \/ Connect(c) \/ Serve(c) \/ ReaderEnds(c) \/ Written(c) \/ WriteFails(c)
                 \/ WriterEnds(c) \/ Close(c) \/ HubAdds(c) \/ HubRemoves(c)
          PROVE  OrderInv'
      BY <2>2, OrderSame DEF Connect, Serve, ReaderEnds, Written, WriteFails, WriterEnds, Close,
                             HubAdds, HubRemoves
    <2>3. ASSUME NEW c \in Conn, Send(c) PROVE OrderInv'
      BY <2>3, OrderSend
    <2>4. ASSUME NEW n \in Note, Notify(n) PROVE OrderInv'
      BY <2>4, OrderNotify
    <2>5. CASE HubTakes \/ HubReturns
      BY <2>5, OrderTake, OrderReturn
    <2> QED
      BY <2>1, <2>2, <2>3, <2>4, <2>5 DEF HubNext
  <1>3. OrderInv => DeliveredInOrder
    BY DEF OrderInv
  <1> QED
    BY <1>1, <1>2, <1>3, HubInvariant, PTL DEF HubSpec, HubSafety
=============================================================================
