-------------------------- MODULE BroadcasterProofs --------------------------
(***************************************************************************)
(* Theorems about Broadcaster, for any number of runs and connections, any *)
(* events and any capacity of a connection's buffer.                       *)
(***************************************************************************)
EXTENDS Broadcaster, SequenceTheorems, TLAPS

\* The part of the types the argument needs.
Shape ==
  /\ clients \in SUBSET Conns /\ closed \in SUBSET Conns
  /\ todo \in [Runs -> SUBSET Conns]
  /\ target \in [Runs -> Conns \cup {None}]
  /\ pc \in [Conns -> {"new", "subscribe", "loop", "leave", "unsubscribe", "gone"}]

\* A run without the read lock has nothing left to send; the connections a run
\* has in its range are subscribed; a closed channel is out of the map for good.
InMap(r) == todo[r] \subseteq clients /\ target[r] \in clients \cup {None}
Ranges   == \A r \in Runs : InMap(r) /\ (r \notin readers => todo[r] = {} /\ target[r] = None)
Gone     == \A c \in closed : pc[c] = "gone" /\ c \notin clients
SendInv  == Shape /\ Ranges /\ Gone

LEMMA InitSend == Init => SendInv
BY BroadcasterAssumption DEF Init, SendInv, Shape, Ranges, InMap, Gone

\* The steps of a run touch neither the map nor the channels that are closed.
LEMMA RunSend ==
  ASSUME SendInv, NEW r \in Runs, RunStep(r)
  PROVE  SendInv'
<1> USE BroadcasterAssumption DEF SendInv, Shape, Ranges, InMap, Gone
<1>1. CASE Begin(r)
  BY <1>1 DEF Begin
<1>2. CASE \E c \in Conns : Visit(r, c)
  <2>1. PICK c \in Conns : Visit(r, c)
    BY <1>2
  <2>2. /\ r \in readers /\ c \in todo[r]
        /\ todo' = [todo EXCEPT ![r] = @ \ {c}]
        /\ target' = target \/ target' = [target EXCEPT ![r] = c]
        /\ UNCHANGED <<clients, closed, readers, pc>>
    BY <2>1 DEF Visit, Visited, locks
  <2>3. todo' \in [Runs -> SUBSET Conns] /\ target' \in [Runs -> Conns \cup {None}]
    BY <2>2
  <2>4. ASSUME NEW q \in Runs
        PROVE  InMap(q)' /\ (q \notin readers' => todo'[q] = {} /\ target'[q] = None)
    <3>1. CASE q = r
      BY <2>2, <3>1
    <3>2. CASE q # r
      BY <2>2, <3>2
    <3> QED BY <3>1, <3>2
  <2> QED BY <2>2, <2>3, <2>4
<1>3. CASE Waited(r)
  <2>1. /\ target[r] # None
        /\ todo' = todo
        /\ target' = [target EXCEPT ![r] = None]
        /\ UNCHANGED <<clients, closed, readers, pc>>
    BY <1>3 DEF Waited, GoOn, locks
  <2> QED BY <2>1
<1>4. CASE End(r)
  BY <1>4 DEF End, run
<1> QED BY <1>1, <1>2, <1>3, <1>4 DEF RunStep

\* The map changes only while no run has the read lock, hence nothing to send.
LEMMA ConnSend ==
  ASSUME SendInv, NEW c \in Conns, LockStep(c) \/ Receive(c) \/ Disconnect(c)
  PROVE  SendInv'
<1> USE BroadcasterAssumption DEF SendInv, Shape, Ranges, InMap, Gone
<1>1. CASE Lock(c)
  BY <1>1 DEF Lock, run
<1>2. CASE Subscribe(c)
  BY <1>2 DEF Subscribe, run
<1>3. CASE Unsubscribe(c)
  <2>1. /\ \A q \in Runs : todo[q] = {} /\ target[q] = None
        /\ clients' = clients \ {c} /\ closed' = closed \cup {c}
        /\ pc' = [pc EXCEPT ![c] = "gone"]
        /\ UNCHANGED <<readers, todo, target>>
    BY <1>3 DEF Unsubscribe, Exclusive, run
  <2>2. Shape' /\ Ranges'
    BY <2>1
  <2>3. Gone'
    BY <2>1
  <2> QED BY <2>2, <2>3
<1>4. CASE Receive(c)
  <2>1. /\ pc[c] = "loop"
        /\ pc' = pc \/ pc' = [pc EXCEPT ![c] = "leave"]
        /\ UNCHANGED <<clients, closed, readers, todo, target>>
    BY <1>4 DEF Receive, run, locks
  <2>2. Shape'
    BY <2>1
  <2>3. Ranges'
    BY <2>1
  <2>4. Gone'
    BY <2>1
  <2> QED BY <2>2, <2>3, <2>4
<1>5. CASE Disconnect(c)
  BY <1>5 DEF Disconnect, run, locks
<1> QED BY <1>1, <1>2, <1>3, <1>4, <1>5 DEF LockStep

LEMMA NextSend == SendInv /\ [Next]_vars => SendInv'
<1> SUFFICES ASSUME SendInv, [Next]_vars PROVE SendInv'
  OBVIOUS
<1>1. CASE \E r \in Runs : RunStep(r)
  BY <1>1, RunSend
<1>2. CASE \E c \in Conns : LockStep(c) \/ Receive(c) \/ Disconnect(c)
  BY <1>2, ConnSend
<1>3. CASE UNCHANGED vars
  BY <1>3 DEF vars, run, locks, SendInv, Shape, Ranges, InMap, Gone
<1> QED BY <1>1, <1>2, <1>3 DEF Next

\* No Broadcast reaches a connection that Unsubscribe has closed, so none panics
\* (broadcaster.go 54-55, 69-83).
THEOREM NeverSendOnClosed == Spec => []NoSendOnClosed
<1>1. SendInv => NoSendOnClosed
  BY DEF SendInv, Shape, Ranges, InMap, Gone, NoSendOnClosed
<1> QED BY <1>1, InitSend, NextSend, PTL DEF Spec
-----------------------------------------------------------------------------
(* The types.                                                              *)

\* A run that holds the read lock is at one of its events.
TypeInv == TypeOK /\ readers \subseteq {r \in Runs : sent[r] >= 1}

LEMMA CurrentEvent ==
  ASSUME TypeInv, NEW r \in readers
  PROVE  r \in Runs /\ Current(r) \in Event
<1>1. r \in Runs /\ sent[r] \in 1 .. Len(Script[r])
  BY DEF TypeInv, TypeOK
<1> QED BY <1>1 DEF Current, Event

\* There is room for what is put into a channel.
LEMMA PutType ==
  ASSUME TypeInv, NEW r \in readers, NEW c \in Conns, ~Full(c), Put(r, c)
  PROVE  queue' \in [Conns -> Seq(Event)] /\ \A d \in Conns : Len(queue'[d]) <= Cap
<1>1. Current(r) \in Event /\ queue[c] \in Seq(Event) /\ queue \in [Conns -> Seq(Event)]
  BY CurrentEvent DEF TypeInv, TypeOK
<1>2. /\ Append(queue[c], Current(r)) \in Seq(Event)
      /\ Len(Append(queue[c], Current(r))) = Len(queue[c]) + 1
      /\ Len(queue[c]) \in Nat
  BY <1>1, AppendProperties, LenProperties
<1>3. Len(queue[c]) + 1 <= Cap
  BY <1>2, BroadcasterAssumption DEF Full
<1>4. queue' = [queue EXCEPT ![c] = Append(queue[c], Current(r))]
  BY DEF Put
<1> QED BY <1>1, <1>2, <1>3, <1>4 DEF TypeInv, TypeOK

LEMMA DropType ==
  ASSUME TypeInv, NEW r \in readers, NEW c \in Conns, Drop(r, c)
  PROVE  dropped' \in [Conns -> SUBSET Event]
<1>1. Current(r) \in Event
  BY CurrentEvent
<1> QED BY <1>1 DEF Drop, TypeInv, TypeOK

LEMMA RunType ==
  ASSUME SendInv, TypeInv, NEW r \in Runs, RunStep(r)
  PROVE  TypeInv'
<1>0. SendInv'
  BY RunSend
<1>1. CASE Begin(r)
  <2>1. /\ sent[r] + 1 \in 1 .. Len(Script[r]) /\ sent' = [sent EXCEPT ![r] = sent[r] + 1]
    BY <1>1, BroadcasterAssumption DEF Begin, TypeInv, TypeOK
  <2>2. <<r, sent[r] + 1>> \in Event
    BY <2>1 DEF Event
  <2>3. due' \in [Conns -> SUBSET Event]
    BY <1>1, <2>2 DEF Begin, TypeInv, TypeOK
  <2>4. sent' \in [Runs -> Nat] /\ \A q \in Runs : sent'[q] <= Len(Script[q])
    BY <2>1 DEF TypeInv, TypeOK
  <2>5. readers' \subseteq {q \in Runs : sent'[q] >= 1}
    BY <1>1, <2>1 DEF Begin, TypeInv, TypeOK
  <2> QED BY <1>0, <1>1, <2>3, <2>4, <2>5 DEF Begin, SendInv, Shape, TypeInv, TypeOK
<1>2. ASSUME NEW c \in Conns, Visit(r, c) PROVE TypeInv'
  <2>1. r \in readers /\ UNCHANGED <<clients, closed, readers, writer, sent, pc, got, due>>
    BY <1>2 DEF Visit, locks
  <2>2. /\ queue' \in [Conns -> Seq(Event)] /\ \A d \in Conns : Len(queue'[d]) <= Cap
        /\ dropped' \in [Conns -> SUBSET Event]
    BY <1>2, <2>1, PutType, DropType DEF Visit, TypeInv, TypeOK
  <2> QED BY <1>0, <2>1, <2>2 DEF SendInv, Shape, TypeInv, TypeOK
<1>3. CASE Waited(r)
  <2>1. /\ r \in readers /\ target[r] \in Conns
        /\ UNCHANGED <<clients, closed, readers, writer, sent, pc, got, due>>
    BY <1>3 DEF Waited, locks, SendInv, Shape, Ranges
  <2>2. /\ queue' \in [Conns -> Seq(Event)] /\ \A d \in Conns : Len(queue'[d]) <= Cap
        /\ dropped' \in [Conns -> SUBSET Event]
    BY <1>3, <2>1, PutType, DropType DEF Waited, Timeout, TypeInv, TypeOK
  <2> QED BY <1>0, <2>1, <2>2 DEF SendInv, Shape, TypeInv, TypeOK
<1>4. CASE End(r)
  BY <1>0, <1>4 DEF End, run, hist, SendInv, Shape, TypeInv, TypeOK
<1> QED BY <1>1, <1>2, <1>3, <1>4 DEF RunStep

LEMMA ConnType ==
  ASSUME SendInv, TypeInv, NEW c \in Conns, LockStep(c) \/ Receive(c) \/ Disconnect(c)
  PROVE  TypeInv'
<1>0. SendInv'
  BY ConnSend
<1>1. CASE LockStep(c) \/ Disconnect(c)
  <2>1. /\ UNCHANGED <<queue, readers, sent, todo, target, got, dropped, due>>
        /\ writer' \in Conns \cup {None}
    BY <1>1 DEF LockStep, Lock, Subscribe, Unsubscribe, Disconnect, locks, run, hist, TypeInv, TypeOK
  <2> QED BY <1>0, <2>1 DEF SendInv, Shape, TypeInv, TypeOK
<1>2. CASE Receive(c)
  <2>1. /\ queue[c] # <<>> /\ queue' = [queue EXCEPT ![c] = Tail(queue[c])]
        /\ got' = got \/ got' = [got EXCEPT ![c] = Append(got[c], Head(queue[c]))]
        /\ UNCHANGED <<readers, writer, sent, dropped, due>>
    BY <1>2 DEF Receive, locks, run
  <2>2. queue[c] \in Seq(Event) /\ got[c] \in Seq(Event)
    BY DEF TypeInv, TypeOK
  <2>3. /\ Tail(queue[c]) \in Seq(Event) /\ Head(queue[c]) \in Event
        /\ Len(Tail(queue[c])) = Len(queue[c]) - 1 /\ Len(queue[c]) \in Nat
    BY <2>1, <2>2, HeadTailProperties, LenProperties
  <2>4. Append(got[c], Head(queue[c])) \in Seq(Event)
    BY <2>2, <2>3, AppendProperties
  <2>5. Len(Tail(queue[c])) <= Cap
    BY <2>3, BroadcasterAssumption DEF TypeInv, TypeOK
  <2>6. /\ queue' \in [Conns -> Seq(Event)] /\ \A d \in Conns : Len(queue'[d]) <= Cap
        /\ got' \in [Conns -> Seq(Event)]
    BY <2>1, <2>3, <2>4, <2>5 DEF TypeInv, TypeOK
  <2> QED BY <1>0, <2>1, <2>6 DEF SendInv, Shape, TypeInv, TypeOK
<1> QED BY <1>1, <1>2

LEMMA NextType == SendInv /\ TypeInv /\ [Next]_vars => TypeInv'
<1> SUFFICES ASSUME SendInv, TypeInv, [Next]_vars PROVE TypeInv'
  OBVIOUS
<1>1. CASE UNCHANGED vars
  BY <1>1 DEF vars, locks, run, hist, TypeInv, TypeOK
<1> QED BY <1>1, RunType, ConnType DEF Next

LEMMA InitType == Init => TypeInv
BY BroadcasterAssumption, EmptySeq DEF Init, TypeInv, TypeOK

\* No channel ever holds more than its capacity, and what connections are sent, miss and
\* receive are events their runs did broadcast.
THEOREM TypeCorrect == Spec => []TypeOK
<1>1. TypeInv => TypeOK
  BY DEF TypeInv
<1> QED BY <1>1, InitSend, NextSend, InitType, NextType, PTL DEF Spec

-----------------------------------------------------------------------------
(* The order in which the events of a run arrive.                          *)

Number == Runs \X Nat

\* The events of each run rise; those of r are below n.
Rising(s)      == \A i, j \in 1 .. Len(s) : i < j /\ s[i][1] = s[j][1] => s[i][2] < s[j][2]
Below(s, r, n) == \A i \in 1 .. Len(s) : s[i][1] = r => s[i][2] < n

\* An event put into the channel comes after all that has arrived.
LEMMA PutLast ==
  ASSUME NEW g \in Seq(Number), NEW q \in Seq(Number), NEW e \in Number
  PROVE  g \o Append(q, e) = Append(g \o q, e) /\ g \o q \in Seq(Number)
<1>1. /\ Append(q, e) = q \o <<e>> /\ Append(g \o q, e) = (g \o q) \o <<e>>
      /\ g \o q \in Seq(Number) /\ <<e>> \in Seq(Number)
  BY AppendIsConcat, ConcatProperties
<1> QED BY <1>1, ConcatAssociative

\* An event taken and written stays where it is among those that arrived.
LEMMA TakenStays ==
  ASSUME NEW g \in Seq(Number), NEW q \in Seq(Number), q # <<>>
  PROVE  Append(g, Head(q)) \o Tail(q) = g \o q
<1>1. /\ Head(q) \in Number /\ Tail(q) \in Seq(Number) /\ q = <<Head(q)>> \o Tail(q)
      /\ Append(g, Head(q)) = g \o <<Head(q)>> /\ <<Head(q)>> \in Seq(Number)
  BY AppendIsConcat, HeadTailProperties
<1> HIDE DEF Number
<1>2. (g \o <<Head(q)>>) \o Tail(q) = g \o (<<Head(q)>> \o Tail(q))
  BY <1>1, ConcatAssociative
<1> QED BY <1>1, <1>2

\* Appending an event that is not below what is there.
LEMMA PutRising ==
  ASSUME NEW s \in Seq(Number), Rising(s), NEW r \in Runs, NEW n \in Nat, Below(s, r, n)
  PROVE  /\ Rising(Append(s, <<r, n>>)) /\ Below(Append(s, <<r, n>>), r, n + 1)
         /\ \A p, m : p # r /\ Below(s, p, m) => Below(Append(s, <<r, n>>), p, m)
<1> DEFINE t == Append(s, <<r, n>>)
<1>1. /\ Len(t) = Len(s) + 1 /\ Len(s) \in Nat /\ t[Len(s) + 1] = <<r, n>>
      /\ \A i \in 1 .. Len(s) : t[i] = s[i]
  BY DEF Number
<1>2. \A i \in 1 .. Len(s) : s[i][2] \in Nat
  BY ElementOfSeq DEF Number
<1>3. \A i \in 1 .. Len(t) : i = Len(s) + 1 \/ i \in 1 .. Len(s)
  BY <1>1
<1> HIDE DEF t
<1>4. Rising(t)
  <2> SUFFICES ASSUME NEW i \in 1 .. Len(t), NEW j \in 1 .. Len(t), i < j, t[i][1] = t[j][1]
               PROVE  t[i][2] < t[j][2]
    BY DEF Rising
  <2>1. i \in 1 .. Len(s)
    BY <1>1
  <2>2. CASE j = Len(s) + 1
    BY <1>1, <2>1, <2>2 DEF Below
  <2>3. CASE j \in 1 .. Len(s)
    BY <1>1, <2>1, <2>3 DEF Rising
  <2> QED BY <1>3, <2>2, <2>3
<1>5. Below(t, r, n + 1)
  <2> SUFFICES ASSUME NEW i \in 1 .. Len(t), t[i][1] = r PROVE t[i][2] < n + 1
    BY DEF Below
  <2>1. CASE i \in 1 .. Len(s)
    BY <1>1, <1>2, <2>1 DEF Below
  <2> QED BY <1>1, <1>3, <2>1
<1>6. \A p, m : p # r /\ Below(s, p, m) => Below(t, p, m)
  BY <1>1, <1>3 DEF Below
<1> QED BY <1>4, <1>5, <1>6 DEF t

\* Losing one event leaves the others in order.
LEMMA SkipRising ==
  ASSUME NEW g \in Seq(Number), NEW q \in Seq(Number), q # <<>>
  PROVE  /\ Rising(g \o q) => Rising(g \o Tail(q))
         /\ \A r, n : Below(g \o q, r, n) => Below(g \o Tail(q), r, n)
<1> DEFINE s == g \o q
           t == g \o Tail(q)
<1>1. /\ Len(q) \in Nat \ {0} /\ Len(g) \in Nat /\ Tail(q) \in Seq(Number)
      /\ Len(Tail(q)) = Len(q) - 1 /\ \A i \in 1 .. Len(q) - 1 : Tail(q)[i] = q[i + 1]
  OBVIOUS
<1>2. /\ Len(s) = Len(g) + Len(q) /\ Len(t) = Len(g) + Len(q) - 1
      /\ \A i \in 1 .. Len(g) + Len(q) : s[i] = IF i <= Len(g) THEN g[i] ELSE q[i - Len(g)]
      /\ \A i \in 1 .. Len(g) + (Len(q) - 1) :
           t[i] = IF i <= Len(g) THEN g[i] ELSE Tail(q)[i - Len(g)]
  BY <1>1, ConcatProperties
<1> DEFINE at(i) == IF i <= Len(g) THEN i ELSE i + 1
<1> HIDE DEF s, t
<1>3. \A i \in 1 .. Len(t) : at(i) \in 1 .. Len(s) /\ t[i] = s[at(i)]
  <2> SUFFICES ASSUME NEW i \in 1 .. Len(t) PROVE at(i) \in 1 .. Len(s) /\ t[i] = s[at(i)]
    OBVIOUS
  <2>1. CASE i <= Len(g)
    BY <1>1, <1>2, <2>1
  <2>2. CASE ~(i <= Len(g))
    <3>1. i - Len(g) \in 1 .. Len(q) - 1 /\ i + 1 \in 1 .. Len(g) + Len(q)
      BY <1>1, <1>2, <2>2
    <3>2. t[i] = Tail(q)[i - Len(g)] /\ s[i + 1] = q[i + 1 - Len(g)]
      BY <1>1, <1>2, <2>2, <3>1
    <3>3. Tail(q)[i - Len(g)] = q[i - Len(g) + 1] /\ i - Len(g) + 1 = i + 1 - Len(g)
      BY <1>1, <3>1
    <3> QED BY <1>2, <2>2, <3>1, <3>2, <3>3
  <2> QED BY <2>1, <2>2
<1>4. \A i, j \in 1 .. Len(t) : i < j => at(i) < at(j)
  BY <1>1, <1>2
<1> HIDE DEF at
<1>5. Rising(s) => Rising(t)
  BY <1>3, <1>4 DEF Rising
<1>6. \A r, n : Below(s, r, n) => Below(t, r, n)
  BY <1>3 DEF Below
<1> QED BY <1>5, <1>6 DEF s, t
\* What the order rests on: a run's events arrive up to the current one, which has not
\* arrived where the run has still to send it; it goes to a connection at most once.
OrderShape ==
  /\ queue \in [Conns -> Seq(Number)] /\ got \in [Conns -> Seq(Number)]
  /\ sent \in [Runs -> Nat]
Coming(r, c)  == c \in todo[r] \/ c = target[r]
OrderAt(c) ==
  /\ Rising(Arrived(c))
  /\ \A r \in Runs : /\ Below(Arrived(c), r, sent[r] + 1)
                     /\ Coming(r, c) => Below(Arrived(c), r, sent[r])
Once     == \A r \in Runs : target[r] \notin todo[r]
OrderInv == OrderShape /\ Once /\ \A c \in Conns : OrderAt(c)

\* An event on its way arrives: the run has nothing more to send to c.
Delivery(r, c) ==
  /\ Coming(r, c) /\ Put(r, c)
  /\ ~Coming(r, c)' /\ Once'
  /\ \A p \in Runs, d \in Conns : Coming(p, d)' => Coming(p, d)
  /\ UNCHANGED <<got, sent>>

\* Nothing arrives.
Quiet ==
  /\ Once' /\ \A p \in Runs, d \in Conns : Coming(p, d)' => Coming(p, d)
  /\ UNCHANGED <<queue, got, sent>>

\* An arrival keeps the order: what arrived of the run is older.
LEMMA DeliveryOrder ==
  ASSUME OrderInv, NEW r \in Runs, NEW c \in Conns, Delivery(r, c)
  PROVE  OrderInv'
<1> DEFINE s == Arrived(c)
           n == sent[r]
<1>1. /\ queue[c] \in Seq(Number) /\ got[c] \in Seq(Number) /\ n \in Nat
      /\ <<r, n>> \in Number /\ s \in Seq(Number)
  BY ConcatProperties DEF OrderInv, OrderShape, Number, Arrived
<1>2. Append(queue[c], <<r, n>>) \in Seq(Number)
  BY <1>1
<1>3. queue' = [queue EXCEPT ![c] = Append(@, <<r, n>>)] /\ UNCHANGED <<got, sent>>
  BY DEF Delivery, Put, Current
<1>4. OrderShape'
  BY <1>2, <1>3 DEF OrderInv, OrderShape
<1>5. Arrived(c)' = Append(s, <<r, n>>) /\ \A d \in Conns \ {c} : Arrived(d)' = Arrived(d)
  BY <1>1, <1>3, PutLast DEF Arrived, OrderInv, OrderShape
<1>6. Rising(s) /\ Below(s, r, n)
  BY DEF OrderInv, OrderAt, Delivery
<1> HIDE DEF s, n
<1>7. /\ Rising(Append(s, <<r, n>>)) /\ Below(Append(s, <<r, n>>), r, n + 1)
      /\ \A p, m : p # r /\ Below(s, p, m) => Below(Append(s, <<r, n>>), p, m)
  BY <1>1, <1>6, PutRising
<1>8. OrderAt(c)'
  <2>1. \A p \in Runs : /\ Below(s, p, sent[p] + 1)
                        /\ Coming(p, c) => Below(s, p, sent[p])
    BY DEF OrderInv, OrderAt, s
  <2>2. \A p \in Runs : /\ Below(Append(s, <<r, n>>), p, sent[p] + 1)
                        /\ Coming(p, c)' => Below(Append(s, <<r, n>>), p, sent[p])
    BY <2>1, <1>7 DEF Delivery, n
  <2> QED BY <2>2, <1>3, <1>5, <1>7 DEF OrderAt
<1>9. \A d \in Conns \ {c} : OrderAt(d)'
  BY <1>3, <1>5 DEF OrderInv, OrderAt, Delivery
<1> QED BY <1>4, <1>8, <1>9 DEF OrderInv, Delivery

\* So does a step by which nothing arrives.
LEMMA QuietOrder == OrderInv /\ Quiet => OrderInv'
BY DEF OrderInv, OrderShape, OrderAt, Quiet, Arrived

\* The steps of a run are arrivals and quiet ones, but for the next event it takes up.
LEMMA RunShape ==
  ASSUME SendInv, Once, NEW r \in Runs, RunStep(r), ~Begin(r)
  PROVE  Quiet \/ \E c \in Conns : Delivery(r, c)
<1> USE BroadcasterAssumption DEF SendInv, Shape, Once, Coming
<1>1. ASSUME NEW c \in Conns, Visit(r, c) PROVE Quiet \/ Delivery(r, c)
  <2>1. /\ c \in todo[r] /\ target[r] = None /\ todo' = [todo EXCEPT ![r] = @ \ {c}]
        /\ UNCHANGED <<got, sent>>
    BY <1>1 DEF Visit, Visited
  <2>2. CASE Put(r, c) /\ UNCHANGED target
    BY <2>1, <2>2 DEF Delivery
  <2>3. CASE UNCHANGED <<queue, target>>
    BY <2>1, <2>3 DEF Quiet
  <2>4. CASE UNCHANGED queue /\ target' = [target EXCEPT ![r] = c]
    BY <2>1, <2>4 DEF Quiet
  <2> QED BY <1>1, <2>2, <2>3, <2>4 DEF Visit
<1>2. ASSUME NEW c \in Conns, c = target[r], Waited(r) PROVE Quiet \/ Delivery(r, c)
  <2>1. /\ target' = [target EXCEPT ![r] = None] /\ c # None /\ UNCHANGED <<got, sent, todo>>
    BY <1>2 DEF Waited, GoOn
  <2>2. CASE Put(r, c)
    BY <1>2, <2>1, <2>2 DEF Delivery
  <2>3. CASE UNCHANGED queue
    BY <2>1, <2>3 DEF Quiet
  <2> QED BY <1>2, <2>2, <2>3 DEF Waited, Timeout
<1>3. ASSUME Waited(r) PROVE \E c \in Conns : c = target[r]
  BY <1>3 DEF Waited
<1>4. ASSUME End(r) PROVE Quiet
  BY <1>4 DEF End, Quiet, run, hist
<1> HIDE DEF SendInv, Shape, Once, Coming
<1> QED BY <1>1, <1>2, <1>3, <1>4 DEF RunStep

\* The next event of a run is above all of it that has arrived.
LEMMA BeginOrder ==
  ASSUME SendInv, OrderInv, NEW r \in Runs, Begin(r)
  PROVE  OrderInv'
<1>1. /\ sent' = [sent EXCEPT ![r] = @ + 1] /\ todo' = [todo EXCEPT ![r] = clients]
      /\ r \notin readers /\ UNCHANGED <<queue, got, target>>
  BY DEF Begin
<1>2. target[r] = None /\ None \notin clients
  BY <1>1, BroadcasterAssumption DEF SendInv, Ranges, Shape
<1>3. OrderShape' /\ Once' /\ \A c \in Conns : Arrived(c)' = Arrived(c)
  BY <1>1, <1>2 DEF OrderInv, OrderShape, Once, SendInv, Shape, Arrived
<1>4. ASSUME NEW c \in Conns PROVE OrderAt(c)'
  <2>1. Arrived(c) \in Seq(Number) /\ OrderAt(c)
    BY ConcatProperties DEF OrderInv, OrderShape, Arrived
  <2>2. /\ \A p \in Runs \ {r} : sent'[p] = sent[p] /\ (Coming(p, c)' => Coming(p, c))
        /\ sent'[r] = sent[r] + 1 /\ sent[r] \in Nat
    BY <1>1 DEF OrderInv, OrderShape, Coming, SendInv, Shape
  <2>3. Below(Arrived(c), r, sent[r] + 1)
    BY <2>1 DEF OrderAt
  <2>4. Below(Arrived(c), r, sent[r] + 1 + 1)
    <3>1. \A i \in 1 .. Len(Arrived(c)) : Arrived(c)[i][2] \in Nat
      BY <2>1, ElementOfSeq DEF Number
    <3> QED BY <2>2, <2>3, <3>1 DEF Below
  <2> QED BY <1>3, <2>1, <2>2, <2>3, <2>4 DEF OrderAt
<1> QED BY <1>3, <1>4 DEF OrderInv

\* The connection takes an event that has arrived, and writes or loses it.
LEMMA ReceiveOrder ==
  ASSUME OrderInv, NEW c \in Conns, Receive(c)
  PROVE  OrderInv'
<1>1. /\ queue[c] # <<>> /\ queue' = [queue EXCEPT ![c] = Tail(@)]
      /\ got' = got \/ got' = [got EXCEPT ![c] = Append(@, Head(queue[c]))]
      /\ UNCHANGED <<sent, todo, target>>
  BY DEF Receive, run
<1>2. queue[c] \in Seq(Number) /\ got[c] \in Seq(Number)
  BY DEF OrderInv, OrderShape
<1>3. Tail(queue[c]) \in Seq(Number) /\ Append(got[c], Head(queue[c])) \in Seq(Number)
  BY <1>1, <1>2, HeadTailProperties, AppendProperties
<1>4. OrderShape' /\ Once' /\ \A d \in Conns \ {c} : OrderAt(d)'
  BY <1>1, <1>3 DEF OrderInv, OrderShape, Once, OrderAt, Arrived, Coming
<1>5. Arrived(c)' = Arrived(c) \/ Arrived(c)' = got[c] \o Tail(queue[c])
  BY <1>1, <1>2, TakenStays DEF OrderInv, OrderShape, Arrived
<1>6. OrderAt(c)'
  <2>1. OrderAt(c)
    BY DEF OrderInv
  <2>2. CASE Arrived(c)' = Arrived(c)
    BY <1>1, <2>1, <2>2 DEF OrderAt, Coming
  <2>3. CASE Arrived(c)' = got[c] \o Tail(queue[c])
    BY <1>1, <1>2, <2>1, <2>3, SkipRising DEF OrderAt, Coming, Arrived
  <2> QED BY <1>5, <2>2, <2>3
<1> QED BY <1>4, <1>6 DEF OrderInv

\* Every step keeps the order.
LEMMA NextOrder == SendInv /\ OrderInv /\ [Next]_vars => OrderInv'
<1> SUFFICES ASSUME SendInv, OrderInv, [Next]_vars PROVE OrderInv'
  OBVIOUS
<1>1. ASSUME NEW r \in Runs, RunStep(r) PROVE OrderInv'
  BY <1>1, RunShape, BeginOrder, DeliveryOrder, QuietOrder DEF OrderInv
<1>2. ASSUME NEW c \in Conns, LockStep(c) \/ Disconnect(c) PROVE OrderInv'
  <2>1. UNCHANGED <<queue, got, sent, todo, target>>
    BY <1>2 DEF LockStep, Lock, Subscribe, Unsubscribe, Disconnect, run, hist
  <2> QED BY <2>1, QuietOrder DEF OrderInv, Once, Quiet, Coming
<1>3. CASE UNCHANGED vars
  BY <1>3, QuietOrder DEF OrderInv, Once, Quiet, Coming, vars, run, hist
<1> QED BY <1>1, <1>2, <1>3, ReceiveOrder DEF Next

\* At the start nothing has arrived and nothing is coming.
LEMMA InitOrder == Init => OrderInv
<1> SUFFICES ASSUME Init PROVE OrderInv
  OBVIOUS
<1>1. OrderShape /\ Once
  BY DEF Init, OrderShape, Once
<1>2. \A c \in Conns : Arrived(c) = <<>>
  BY EmptySeq, ConcatEmptySeq DEF Init, Arrived
<1>3. \A c \in Conns : OrderAt(c)
  BY <1>2 DEF OrderAt, Rising, Below
<1> QED BY <1>1, <1>3 DEF OrderInv

\* A client hears the events of a run in the order they were broadcast, none of them
\* twice, whatever other runs broadcast and whoever subscribes meanwhile.
THEOREM AlwaysInOrder == Spec => []InOrder
<1>1. OrderInv => InOrder
  BY DEF OrderInv, OrderAt, Rising, InOrder
<1> QED BY <1>1, InitSend, NextSend, InitOrder, NextOrder, PTL DEF Spec
-----------------------------------------------------------------------------
(* What becomes of every event.                                            *)

AccountShape ==
  /\ due \in [Conns -> SUBSET Number] /\ dropped \in [Conns -> SUBSET Number]

\* Before it subscribes a connection is owed nothing; then its events add up, and a run
\* that has still to reach it sends it one it is owed.
AccountAt(c) ==
  /\ pc[c] \in {"new", "subscribe"} =>
       /\ c \notin clients /\ due[c] = {} /\ dropped[c] = {}
       /\ got[c] = <<>> /\ queue[c] = <<>>
  /\ pc[c] = "loop" => due[c] = ToSet(Arrived(c)) \cup OnItsWay(c) \cup dropped[c]
  /\ \A r \in Runs : Coming(r, c) => Current(r) \in due[c]
AccountInv == AccountShape /\ \A c \in Conns : AccountAt(c)

\* The run is done with a connection: its event has arrived or been dropped.
Reached(r, c) ==
  /\ Coming(r, c) /\ ~Coming(r, c)'
  /\ \A p \in Runs, d \in Conns : p # r \/ d # c => (Coming(p, d)' <=> Coming(p, d))
  /\ \/ Put(r, c) /\ UNCHANGED dropped
     \/ Drop(r, c) /\ UNCHANGED queue
  /\ UNCHANGED <<got, sent, due, pc, clients>>

Unreached ==
  /\ \A p \in Runs, d \in Conns : Coming(p, d)' <=> Coming(p, d)
  /\ UNCHANGED <<queue, got, sent, dropped, due, pc, clients>>

\* What an event on its way is.
LEMMA OnItsWayIs ==
  ASSUME AccountShape, NEW c \in Conns
  PROVE  /\ OnItsWay(c) \subseteq Number
         /\ \A r \in Runs, n \in Nat :
              <<r, n>> \in OnItsWay(c) <=> <<r, n>> \in due[c] /\ n = sent[r] /\ Coming(r, c)
BY DEF OnItsWay, Coming, Current, AccountShape, Number

\* An event that arrives is one more that has.
LEMMA ToSetPut ==
  ASSUME NEW s \in Seq(Number), NEW e \in Number
  PROVE  ToSet(Append(s, e)) = ToSet(s) \cup {e} /\ ToSet(s) \subseteq Number
<1> DEFINE t == Append(s, e)
<1>1. /\ Len(t) = Len(s) + 1 /\ Len(s) \in Nat /\ t[Len(s) + 1] = e
      /\ \A i \in 1 .. Len(s) : t[i] = s[i]
      /\ DOMAIN t = 1 .. Len(s) + 1 /\ DOMAIN s = 1 .. Len(s)
  OBVIOUS
<1>2. 1 .. Len(s) + 1 = (1 .. Len(s)) \cup {Len(s) + 1}
  BY <1>1
<1> HIDE DEF t
<1>3. ToSet(t) = ToSet(s) \cup {e}
  BY <1>1, <1>2 DEF ToSet
<1>4. ToSet(s) \subseteq Number
  BY <1>1, ElementOfSeq DEF ToSet
<1> QED BY <1>3, <1>4 DEF t

\* The books still balance when a run is done with a connection.
LEMMA ReachedAccount ==
  ASSUME OrderShape, AccountInv, NEW r \in Runs, NEW c \in Conns, Reached(r, c)
  PROVE  AccountInv'
<1> DEFINE e == <<r, sent[r]>>
<1>1. /\ e \in Number /\ e \in due[c] /\ UNCHANGED <<got, sent, due, pc, clients>>
      /\ pc[c] \notin {"new", "subscribe"}
  BY DEF AccountInv, AccountAt, Reached, Current, Number, OrderShape
<1>2. AccountShape /\ AccountShape'
  BY <1>1 DEF AccountInv, AccountShape, Reached, Drop, Current
<1>3. \A d \in Conns \ {c} : /\ UNCHANGED <<queue[d], got[d], dropped[d], due[d]>>
                             /\ \A p \in Runs : Coming(p, d)' <=> Coming(p, d)
  BY DEF Reached, Put, Drop, OrderShape, AccountInv, AccountShape
<1>4. ASSUME NEW d \in Conns \ {c} PROVE AccountAt(d)'
  <2>1. Arrived(d)' = Arrived(d)
    BY <1>3 DEF Arrived
  <2>2. OnItsWay(d)' = OnItsWay(d)
    <3>1. due'[d] = due[d] /\ due[d] \subseteq Number /\ UNCHANGED sent
      BY <1>1, <1>2 DEF AccountShape
    <3>2. \A x \in Number : x[1] \in Runs /\ (Coming(x[1], d)' <=> Coming(x[1], d))
      BY <1>3 DEF Number
    <3> QED BY <3>1, <3>2 DEF OnItsWay, Coming, Current
  <2>3. AccountAt(d)
    BY DEF AccountInv
  <2> QED BY <1>1, <1>3, <2>1, <2>2, <2>3 DEF AccountAt, Current
<1>5. OnItsWay(c) = OnItsWay(c)' \cup {e}
  <2>1. /\ OnItsWay(c) \subseteq Number /\ OnItsWay(c)' \subseteq Number
    BY <1>2, OnItsWayIs DEF OnItsWay, AccountShape
  <2>2. ASSUME NEW p \in Runs, NEW n \in Nat
        PROVE  <<p, n>> \in OnItsWay(c) <=> (<<p, n>> \in OnItsWay(c)' \/ <<p, n>> = e)
    <3>1. <<p, n>> \in OnItsWay(c) <=> <<p, n>> \in due[c] /\ n = sent[p] /\ Coming(p, c)
      BY <1>2, OnItsWayIs
    <3>2. <<p, n>> \in OnItsWay(c)' <=> <<p, n>> \in due[c] /\ n = sent[p] /\ Coming(p, c)'
      BY <1>1 DEF OnItsWay, Coming, Current
    <3>3. p # r => (Coming(p, c)' <=> Coming(p, c))
      BY DEF Reached
    <3>4. Coming(r, c) /\ ~Coming(r, c)'
      BY DEF Reached
    <3> QED BY <1>1, <3>1, <3>2, <3>3, <3>4
  <2>3. \A x \in Number : x \in OnItsWay(c) <=> x \in OnItsWay(c)' \/ x = e
    BY <2>2 DEF Number
  <2> QED BY <1>1, <2>1, <2>3
<1>6. ToSet(Arrived(c))' \cup dropped'[c] = ToSet(Arrived(c)) \cup dropped[c] \cup {e}
  <2>1. CASE Put(r, c) /\ UNCHANGED dropped
    <3>1. queue[c] \in Seq(Number) /\ got[c] \in Seq(Number)
      BY DEF OrderShape
    <3>2. queue'[c] = Append(queue[c], e) /\ got' = got
      BY <2>1, <1>1 DEF Put, Current, OrderShape
    <3>3. Arrived(c)' = Append(Arrived(c), e) /\ Arrived(c) \in Seq(Number)
      <4>1. /\ got[c] \o Append(queue[c], e) = Append(got[c] \o queue[c], e)
            /\ got[c] \o queue[c] \in Seq(Number)
        BY <1>1, <3>1, PutLast
      <4> QED BY <3>2, <4>1 DEF Arrived
    <3> QED BY <1>1, <2>1, <3>3, ToSetPut
  <2>2. CASE Drop(r, c) /\ UNCHANGED queue
    <3>1. Arrived(c)' = Arrived(c)
      BY <1>1, <2>2 DEF Arrived
    <3>2. dropped'[c] = dropped[c] \cup {e}
      BY <2>2 DEF Drop, Current, AccountInv, AccountShape
    <3> QED BY <3>1, <3>2
  <2> QED BY <2>1, <2>2 DEF Reached
<1>7. AccountAt(c)'
  <2>1. AccountAt(c)
    BY DEF AccountInv
  <2>2. \A p \in Runs : Coming(p, c)' => Coming(p, c)
    BY DEF Reached
  <2>3. pc[c] = "loop" => due[c] = ToSet(Arrived(c))' \cup OnItsWay(c)' \cup dropped'[c]
    BY <1>5, <1>6, <2>1 DEF AccountAt
  <2> QED BY <1>1, <2>1, <2>2, <2>3 DEF AccountAt, Current
<1> QED BY <1>2, <1>4, <1>7 DEF AccountInv

\* A step that reaches nobody.
LEMMA UnreachedAccount == AccountInv /\ Unreached => AccountInv'
<1> SUFFICES ASSUME AccountInv, Unreached PROVE AccountInv'
  OBVIOUS
<1>1. UNCHANGED <<queue, got, sent, dropped, due, pc, clients>>
  BY DEF Unreached
<1>2. \A c \in Conns : OnItsWay(c)' = OnItsWay(c)
  <2>1. \A x \in Number : x[1] \in Runs
    BY DEF Number
  <2> QED BY <1>1, <2>1 DEF OnItsWay, Coming, Current, Unreached, AccountInv, AccountShape
<1>3. \A c \in Conns : Arrived(c)' = Arrived(c)
  BY <1>1 DEF Arrived
<1> QED BY <1>1, <1>2, <1>3 DEF AccountInv, AccountShape, AccountAt, Unreached, Current

\* The steps of a run once it has taken up an event.
LEMMA RunReaches ==
  ASSUME SendInv, Once, NEW r \in Runs, RunStep(r), ~Begin(r)
  PROVE  Unreached \/ \E c \in Conns : Reached(r, c)
<1> USE BroadcasterAssumption DEF SendInv, Shape, Once, Coming
<1>1. ASSUME NEW c \in Conns, Visit(r, c) PROVE Unreached \/ Reached(r, c)
  <2>1. /\ c \in todo[r] /\ target[r] = None /\ todo' = [todo EXCEPT ![r] = @ \ {c}]
        /\ UNCHANGED <<got, sent, due, pc, clients>>
    BY <1>1 DEF Visit, Visited
  <2>2. CASE Put(r, c) /\ UNCHANGED <<target, dropped>>
    BY <2>1, <2>2 DEF Reached
  <2>3. CASE Drop(r, c) /\ UNCHANGED <<queue, target>>
    BY <2>1, <2>3 DEF Reached
  <2>4. CASE UNCHANGED <<queue, dropped>> /\ target' = [target EXCEPT ![r] = c]
    BY <2>1, <2>4 DEF Unreached
  <2> QED BY <1>1, <2>2, <2>3, <2>4 DEF Visit
<1>2. ASSUME NEW c \in Conns, c = target[r], Waited(r) PROVE Reached(r, c)
  <2>1. /\ target' = [target EXCEPT ![r] = None] /\ c # None
        /\ UNCHANGED <<got, sent, todo, due, pc, clients>>
    BY <1>2 DEF Waited, GoOn
  <2>2. CASE Put(r, c) /\ UNCHANGED dropped
    BY <1>2, <2>1, <2>2 DEF Reached
  <2>3. CASE Drop(r, c) /\ UNCHANGED queue
    BY <1>2, <2>1, <2>3 DEF Reached
  <2> QED BY <1>2, <2>2, <2>3 DEF Waited, Timeout
<1>3. ASSUME Waited(r) PROVE \E c \in Conns : c = target[r]
  BY <1>3 DEF Waited
<1>4. ASSUME End(r) PROVE Unreached
  BY <1>4 DEF End, Unreached, run, hist
<1> HIDE DEF SendInv, Shape, Once, Coming
<1> QED BY <1>1, <1>2, <1>3, <1>4 DEF RunStep
\* A new event is owed to every connection that is subscribed, and on its way to it.
LEMMA BeginAccount ==
  ASSUME SendInv, OrderShape, AccountInv, NEW r \in Runs, Begin(r)
  PROVE  AccountInv'
<1> DEFINE e == <<r, sent[r] + 1>>
<1>1. /\ UNCHANGED <<queue, got, dropped, pc, clients, target>> /\ r \notin readers
      /\ sent' = [sent EXCEPT ![r] = @ + 1] /\ todo' = [todo EXCEPT ![r] = clients]
      /\ due' = [c \in Conns |-> IF c \in clients THEN due[c] \cup {e} ELSE due[c]]
  BY DEF Begin
<1>2. /\ todo[r] = {} /\ target[r] = None /\ clients \subseteq Conns
  BY <1>1 DEF SendInv, Ranges, Shape
<1>3. /\ sent'[r] = sent[r] + 1 /\ sent[r] \in Nat /\ e \in Number
      /\ \A p \in Runs \ {r} : sent'[p] = sent[p]
  BY <1>1 DEF OrderShape, Number
<1>4. \A c \in Conns : /\ ~Coming(r, c) /\ (Coming(r, c)' <=> c \in clients)
                       /\ \A p \in Runs \ {r} : Coming(p, c)' <=> Coming(p, c)
  BY <1>1, <1>2, BroadcasterAssumption DEF Coming, SendInv, Shape
<1>5. AccountShape /\ AccountShape'
  BY <1>1, <1>3 DEF AccountInv, AccountShape
<1>6. ASSUME NEW c \in Conns PROVE AccountAt(c)'
  <2>1. AccountAt(c) /\ Arrived(c)' = Arrived(c)
    BY <1>1 DEF AccountInv, Arrived
  <2>2. due'[c] = IF c \in clients THEN due[c] \cup {e} ELSE due[c]
    BY <1>1
  <2>3. OnItsWay(c)' = IF c \in clients THEN OnItsWay(c) \cup {e} ELSE OnItsWay(c)
    <3>1. /\ OnItsWay(c) \subseteq Number /\ OnItsWay(c)' \subseteq Number
      BY <1>5, OnItsWayIs DEF OnItsWay, AccountShape
    <3>2. ASSUME NEW p \in Runs, NEW n \in Nat
          PROVE  <<p, n>> \in OnItsWay(c)' <=>
                   <<p, n>> \in OnItsWay(c) \/ (c \in clients /\ <<p, n>> = e)
      <4>1. <<p, n>> \in OnItsWay(c) <=> <<p, n>> \in due[c] /\ n = sent[p] /\ Coming(p, c)
        BY <1>5, OnItsWayIs
      <4>2. <<p, n>> \in OnItsWay(c)' <=> <<p, n>> \in due'[c] /\ n = sent'[p] /\ Coming(p, c)'
        BY DEF OnItsWay, Coming, Current
      <4>3. CASE p = r
        BY <1>3, <1>4, <2>2, <4>1, <4>2, <4>3
      <4>4. CASE p # r
        BY <1>3, <1>4, <2>2, <4>1, <4>2, <4>4
      <4> QED BY <4>3, <4>4
    <3>3. \A x \in Number : x \in OnItsWay(c)' <=> x \in OnItsWay(c) \/ (c \in clients /\ x = e)
      BY <3>2 DEF Number
    <3> QED BY <1>3, <3>1, <3>3
  <2>4. pc'[c] = "loop" => due'[c] = ToSet(Arrived(c))' \cup OnItsWay(c)' \cup dropped'[c]
    BY <1>1, <2>1, <2>2, <2>3 DEF AccountAt
  <2>5. \A p \in Runs : Coming(p, c)' => Current(p)' \in due'[c]
    BY <1>3, <1>4, <2>1, <2>2 DEF AccountAt, Current
  <2>6. pc'[c] \in {"new", "subscribe"} =>
          /\ c \notin clients' /\ due'[c] = {} /\ dropped'[c] = {}
          /\ got'[c] = <<>> /\ queue'[c] = <<>>
    BY <1>1, <2>1, <2>2 DEF AccountAt
  <2> QED BY <2>4, <2>5, <2>6 DEF AccountAt
<1> QED BY <1>5, <1>6 DEF AccountInv

\* A connection that takes an event either writes it or is about to leave.
LEMMA ReceiveAccount ==
  ASSUME SendInv, OrderShape, AccountInv, NEW c \in Conns, Receive(c)
  PROVE  AccountInv'
<1>1. /\ queue[c] # <<>> /\ pc[c] = "loop" /\ queue' = [queue EXCEPT ![c] = Tail(@)]
      /\ UNCHANGED <<sent, todo, target, due, dropped, clients>>
      /\ \/ got' = [got EXCEPT ![c] = Append(@, Head(queue[c]))] /\ UNCHANGED pc
         \/ pc' = [pc EXCEPT ![c] = "leave"] /\ UNCHANGED got
  BY DEF Receive, run
<1>2. queue[c] \in Seq(Number) /\ got[c] \in Seq(Number)
  BY DEF OrderShape
<1>t. pc \in [Conns -> {"new", "subscribe", "loop", "leave", "unsubscribe", "gone"}]
  BY DEF SendInv, Shape
<1>3. \A d \in Conns : OnItsWay(d)' = OnItsWay(d)
  BY <1>1 DEF OnItsWay, Current
<1>4. ASSUME NEW d \in Conns \ {c} PROVE AccountAt(d)'
  <2>1. UNCHANGED <<queue[d], got[d]>> /\ (pc'[d] = pc[d] \/ pc' = [pc EXCEPT ![c] = "leave"])
    BY <1>1 DEF OrderShape
  <2>2. Arrived(d)' = Arrived(d)
    BY <2>1 DEF Arrived
  <2>3. pc'[d] = pc[d]
    BY <1>1, <1>t
  <2>4. AccountAt(d)
    BY DEF AccountInv
  <2> QED BY <1>1, <1>3, <2>1, <2>2, <2>3, <2>4 DEF AccountAt, Coming, Current
<1>5. AccountAt(c)'
  <2>1. AccountAt(c)
    BY DEF AccountInv
  <2>2. CASE got' = [got EXCEPT ![c] = Append(@, Head(queue[c]))] /\ UNCHANGED pc
    <3>1. Arrived(c)' = Arrived(c)
      BY <1>1, <1>2, <2>2, TakenStays DEF Arrived, OrderShape
    <3> QED BY <1>1, <1>3, <2>1, <2>2, <3>1 DEF AccountAt, Coming, Current
  <2>3. CASE pc' = [pc EXCEPT ![c] = "leave"]
    <3>1. pc'[c] \notin {"new", "subscribe", "loop"}
      BY <1>t, <2>3
    <3> QED BY <1>1, <2>1, <3>1 DEF AccountAt, Coming, Current
  <2> QED BY <1>1, <2>2, <2>3
<1> QED BY <1>1, <1>4, <1>5 DEF AccountInv, AccountShape

\* Subscribing, unsubscribing and leaving.
LEMMA LockAccount ==
  ASSUME SendInv, AccountInv, NEW c \in Conns, LockStep(c) \/ Disconnect(c)
  PROVE  AccountInv'
<1>1. /\ UNCHANGED <<queue, got, sent, todo, target, due, dropped>>
      /\ \/ pc[c] = "new" /\ pc' = [pc EXCEPT ![c] = "subscribe"] /\ UNCHANGED clients
         \/ pc[c] = "subscribe" /\ pc' = [pc EXCEPT ![c] = "loop"] /\ clients' = clients \cup {c}
         \/ /\ \E l \in {"leave", "unsubscribe", "gone"} : pc' = [pc EXCEPT ![c] = l]
            /\ clients' \subseteq clients
  BY DEF LockStep, Lock, Subscribe, Unsubscribe, Disconnect, run, hist
<1>2. \A d \in Conns : UNCHANGED <<Arrived(d), OnItsWay(d)>>
  BY <1>1 DEF Arrived, OnItsWay, Current
<1>3. ASSUME NEW d \in Conns \ {c} PROVE AccountAt(d)'
  <2>1. pc'[d] = pc[d] /\ (d \in clients' => d \in clients) /\ AccountAt(d)
    BY <1>1 DEF AccountInv, SendInv, Shape
  <2> QED BY <1>1, <1>2, <2>1 DEF AccountAt, Coming, Current
<1>4. AccountAt(c)'
  <2>1. AccountAt(c) /\ pc \in [Conns -> {"new", "subscribe", "loop", "leave", "unsubscribe", "gone"}]
    BY DEF AccountInv, SendInv, Shape
  <2>2. CASE pc[c] = "new" /\ pc' = [pc EXCEPT ![c] = "subscribe"] /\ UNCHANGED clients
    BY <1>1, <1>2, <2>1, <2>2 DEF AccountAt, Coming, Current
  <2>3. CASE pc[c] = "subscribe" /\ pc' = [pc EXCEPT ![c] = "loop"]
    <3>1. due[c] = {} /\ dropped[c] = {} /\ Arrived(c) = <<>>
      BY <2>1, <2>3, EmptySeq, ConcatEmptySeq DEF AccountAt, Arrived
    <3>2. ToSet(<<>>) = {} /\ OnItsWay(c) = {}
      BY <3>1 DEF ToSet, OnItsWay
    <3>3. pc'[c] = "loop"
      BY <2>1, <2>3
    <3> QED BY <1>1, <1>2, <2>1, <3>1, <3>2, <3>3 DEF AccountAt, Coming, Current
  <2>4. CASE \E l \in {"leave", "unsubscribe", "gone"} : pc' = [pc EXCEPT ![c] = l]
    <3>1. pc'[c] \notin {"new", "subscribe", "loop"}
      BY <2>1, <2>4
    <3> QED BY <1>1, <2>1, <3>1 DEF AccountAt, Coming, Current
  <2> QED BY <1>1, <2>2, <2>3, <2>4
<1> QED BY <1>1, <1>3, <1>4 DEF AccountInv, AccountShape

\* Every step keeps the books.
LEMMA NextAccount == SendInv /\ OrderInv /\ AccountInv /\ [Next]_vars => AccountInv'
<1> SUFFICES ASSUME SendInv, OrderInv, AccountInv, [Next]_vars PROVE AccountInv'
  OBVIOUS
<1>1. OrderShape /\ Once
  BY DEF OrderInv
<1>2. ASSUME NEW r \in Runs, RunStep(r) PROVE AccountInv'
  BY <1>1, <1>2, RunReaches, BeginAccount, ReachedAccount, UnreachedAccount
<1>3. CASE UNCHANGED vars
  BY <1>3, UnreachedAccount DEF Unreached, Coming, vars, run, hist
<1> QED BY <1>1, <1>2, <1>3, ReceiveAccount, LockAccount DEF Next

\* At the start nobody is owed anything.
LEMMA InitAccount == Init => AccountInv
BY BroadcasterAssumption DEF Init, AccountInv, AccountShape, AccountAt, Coming

\* Every event broadcast since a connection subscribed, and no other, has been received,
\* waits in its channel, is on its way, or found the channel full.
THEOREM AlwaysAccounted == Spec => []Accounted
<1>1. AccountInv /\ SendInv => Accounted
  BY DEF AccountInv, AccountAt, Accounted, SendInv, Shape
<1> QED BY <1>1, InitSend, NextSend, InitOrder, NextOrder, InitAccount, NextAccount, PTL DEF Spec
=============================================================================
