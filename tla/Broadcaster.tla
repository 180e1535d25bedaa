----------------------------- MODULE Broadcaster -----------------------------
(***************************************************************************)
(* pkg/broadcaster/broadcaster.go: runs of the server broadcast events to  *)
(* the connections of GET /api/v1/ingestion/stream.  Broadcast holds the   *)
(* RWMutex for reading while it goes through the connections, and waits up *)
(* to 100 ms on one whose channel is full; Subscribe and Unsubscribe hold  *)
(* it for writing.  A writer that waits keeps new readers out, as Go's     *)
(* RWMutex does.                                                           *)
(***************************************************************************)
EXTENDS Integers, Sequences, FiniteSets, SequencesExt

CONSTANTS
  Runs,     \* goroutines that broadcast
  Conns,    \* connections, each made once
  Script,   \* what each run broadcasts: "critical" and "progress" events
  Cap,      \* capacity of a connection's channel (500 in the code)
  None

ASSUME BroadcasterAssumption ==
  /\ Script \in [Runs -> Seq({"critical", "progress"})]
  /\ Cap \in Nat \ {0}
  /\ None \notin Conns

VARIABLES
  clients,   \* b.clients
  queue,     \* contents of each connection's channel: <<run, number>> pairs
  closed,    \* channels that are closed
  readers,   \* runs that hold the read lock
  writer,    \* connection that holds, or waits for, the write lock
  sent,      \* number of events each run has broadcast or is broadcasting
  todo,      \* connections its loop has still to reach
  target,    \* connection it waits for in the select, None otherwise
  pc,        \* where the goroutine of each connection is
  got,       \* history: events each connection has written to its client
  dropped,   \* history: events that found its channel full
  due        \* history: events broadcast while it was subscribed

locks == <<readers, writer>>
run   == <<sent, todo, target>>
hist  == <<got, dropped, due>>
vars  == <<clients, queue, closed, locks, run, pc, hist>>

Event == UNION {{r} \X (1 .. Len(Script[r])) : r \in Runs}

TypeOK ==
  /\ clients \in SUBSET Conns /\ closed \in SUBSET Conns
  /\ queue \in [Conns -> Seq(Event)]
  /\ \A c \in Conns : Len(queue[c]) <= Cap
  /\ readers \in SUBSET Runs /\ writer \in Conns \cup {None}
  /\ sent \in [Runs -> Nat] /\ \A r \in Runs : sent[r] <= Len(Script[r])
  /\ todo \in [Runs -> SUBSET Conns]
  /\ target \in [Runs -> Conns \cup {None}]
  /\ pc \in [Conns -> {"new", "subscribe", "loop", "leave", "unsubscribe", "gone"}]
  /\ got \in [Conns -> Seq(Event)]
  /\ dropped \in [Conns -> SUBSET Event] /\ due \in [Conns -> SUBSET Event]

Init ==
  /\ clients = {} /\ closed = {} /\ readers = {} /\ writer = None
  /\ queue = [c \in Conns |-> <<>>]
  /\ sent = [r \in Runs |-> 0]
  /\ todo = [r \in Runs |-> {}]
  /\ target = [r \in Runs |-> None]
  /\ pc = [c \in Conns |-> "new"]
  /\ got = [c \in Conns |-> <<>>]
  /\ dropped = [c \in Conns |-> {}] /\ due = [c \in Conns |-> {}]

-----------------------------------------------------------------------------
(* Broadcast.                                                               *)

Current(r)  == <<r, sent[r]>>
Critical(r) == Script[r][sent[r]] = "critical"
Put(r, c)   == queue' = [queue EXCEPT ![c] = Append(@, Current(r))]
Drop(r, c)  == dropped' = [dropped EXCEPT ![c] = @ \cup {Current(r)}]

Full(c) == Len(queue[c]) >= Cap

\* RLock, and the range over b.clients begins.
Begin(r) ==
  /\ r \notin readers /\ sent[r] < Len(Script[r])
  /\ writer = None
  /\ readers' = readers \cup {r}
  /\ sent' = [sent EXCEPT ![r] = @ + 1]
  /\ todo' = [todo EXCEPT ![r] = clients]
  /\ due' = [c \in Conns |-> IF c \in clients THEN due[c] \cup {<<r, sent[r] + 1>>} ELSE due[c]]
  /\ UNCHANGED <<clients, queue, closed, writer, target, pc, got, dropped>>

\* Mutation: the client stays in the range and may be sent the event again.
Bug_Visited(r, c) == todo' = [todo EXCEPT ![r] = IF Critical(r) THEN @ \ {c} ELSE @]

Visited(r, c) == todo' = [todo EXCEPT ![r] = @ \ {c}]

\* The next client of the range: sent, or skipped, or waited for.
Visit(r, c) ==
  /\ r \in readers /\ target[r] = None /\ c \in todo[r]
  /\ Visited(r, c)
  /\ \/ ~Full(c) /\ Put(r, c) /\ UNCHANGED <<target, dropped>>
     \/ Full(c) /\ ~Critical(r) /\ Drop(r, c) /\ UNCHANGED <<queue, target>>
     \/ /\ Full(c) /\ Critical(r)
        /\ target' = [target EXCEPT ![r] = c]
        /\ UNCHANGED <<queue, dropped>>
  /\ UNCHANGED <<clients, closed, locks, sent, pc, got, due>>

\* Mutation: the select has no case for the time.
Bug_Timeout(r) == FALSE

\* time.After(100ms)
Timeout(r) == Full(target[r]) /\ Drop(r, target[r]) /\ UNCHANGED queue

\* Mutation: a slow client ends the loop, return for nothing.
Bug_GoOn(r) == todo' = [todo EXCEPT ![r] = {}]

GoOn(r) == UNCHANGED todo

\* The select ends with room in the channel or with the time.
Waited(r) ==
  /\ target[r] # None
  /\ \/ ~Full(target[r]) /\ Put(r, target[r]) /\ UNCHANGED <<todo, dropped>>
     \/ Timeout(r) /\ GoOn(r)
  /\ target' = [target EXCEPT ![r] = None]
  /\ UNCHANGED <<clients, closed, locks, sent, pc, got, due>>

End(r) ==
  /\ r \in readers /\ target[r] = None /\ todo[r] = {}
  /\ readers' = readers \ {r}
  /\ UNCHANGED <<clients, queue, closed, writer, run, pc, hist>>

-----------------------------------------------------------------------------
(* Handler, with Subscribe and Unsubscribe.                                 *)

\* Lock is called: it keeps new readers out.
Lock(c) ==
  /\ pc[c] \in {"new", "leave"} /\ writer = None
  /\ writer' = c
  /\ pc' = [pc EXCEPT ![c] = IF @ = "new" THEN "subscribe" ELSE "unsubscribe"]
  /\ UNCHANGED <<clients, queue, closed, readers, run, hist>>

Subscribe(c) ==
  /\ pc[c] = "subscribe" /\ readers = {}
  /\ clients' = clients \cup {c}
  /\ writer' = None
  /\ pc' = [pc EXCEPT ![c] = "loop"]
  /\ UNCHANGED <<queue, closed, readers, run, hist>>

\* Mutation: Unsubscribe takes the read lock.
Bug_Exclusive == TRUE

Exclusive == readers = {}

Unsubscribe(c) ==
  /\ pc[c] = "unsubscribe" /\ Exclusive
  /\ clients' = clients \ {c} /\ closed' = closed \cup {c}
  /\ writer' = None
  /\ pc' = [pc EXCEPT ![c] = "gone"]
  /\ UNCHANGED <<queue, readers, run, hist>>

\* An event is taken and written; a write that fails ends the handler.
Receive(c) ==
  /\ pc[c] = "loop" /\ queue[c] # <<>>
  /\ queue' = [queue EXCEPT ![c] = Tail(@)]
  /\ \/ got' = [got EXCEPT ![c] = Append(@, Head(queue[c]))] /\ UNCHANGED pc
     \/ pc' = [pc EXCEPT ![c] = "leave"] /\ UNCHANGED got
  /\ UNCHANGED <<clients, closed, locks, run, dropped, due>>

\* The request's context is done.
Disconnect(c) ==
  /\ pc[c] = "loop" /\ pc' = [pc EXCEPT ![c] = "leave"]
  /\ UNCHANGED <<clients, queue, closed, locks, run, hist>>

RunStep(r)  == Begin(r) \/ (\E c \in Conns : Visit(r, c)) \/ Waited(r) \/ End(r)
LockStep(c) == Lock(c) \/ Subscribe(c) \/ Unsubscribe(c)

Next == \/ \E r \in Runs : RunStep(r)
        \/ \E c \in Conns : LockStep(c) \/ Receive(c) \/ Disconnect(c)

Spec == Init /\ [][Next]_vars

\* The scheduler runs every goroutine, but nothing says that a client reads.
FairSpec == /\ Spec
            /\ \A r \in Runs : WF_vars(RunStep(r))
            /\ \A c \in Conns : WF_vars(LockStep(c))

-----------------------------------------------------------------------------
(* Properties.                                                              *)

\* No event is sent on a channel that Unsubscribe has closed, which would panic:
\* the connections a Broadcast has still to reach are open (lines 54-55, 69-83).
NoSendOnClosed ==
  \A r \in Runs : (todo[r] \cup ({target[r]} \ {None})) \cap closed = {}

Arrived(c) == got[c] \o queue[c]

\* A client hears the events of a run in the order they were broadcast, none of
\* them twice, even if other runs broadcast at the same time.
InOrder ==
  \A c \in Conns : \A i, j \in 1 .. Len(Arrived(c)) :
    i < j /\ Arrived(c)[i][1] = Arrived(c)[j][1] => Arrived(c)[i][2] < Arrived(c)[j][2]

OnItsWay(c) == {e \in due[c] : e = Current(e[1]) /\ (c \in todo[e[1]] \/ c = target[e[1]])}

\* Every event broadcast since a connection subscribed, and no other, has been
\* received, waits in its channel, is about to be sent to it, or found its
\* channel full; as long as it is subscribed nothing is lost silently.
Accounted ==
  \A c \in clients : pc[c] = "loop" =>
    due[c] = ToSet(Arrived(c)) \cup OnItsWay(c) \cup dropped[c]

\* A run gets all its events out, whatever the clients do: one that never reads
\* delays it, but does not stop it.
RunsGoOn == \A r \in Runs : <>(sent[r] = Len(Script[r]) /\ r \notin readers)

\* A handler whose client has gone ends.
LeaversGo == \A c \in Conns : pc[c] = "leave" ~> pc[c] = "gone"
=============================================================================
