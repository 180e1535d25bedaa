----------------------- MODULE IngestionHandlerProofs -----------------------
(***************************************************************************)
(* Theorems about IngestionHandler, for any number of requests and cron    *)
(* firings and any number of cancel requests.                              *)
(***************************************************************************)
EXTENDS IngestionHandler, FiniteSetTheorems, TLAPS

Places == Working \cup {"new", "refused", "cleanup", "ended"}

\* The kinds of runs are disjoint.
LEMMA Kinds ==
  /\ Triggers \subseteq Proc /\ Triggers \cap Reprocesses = {} /\ Triggers \cap Crons = {}
  /\ Reprocesses \cap Crons = {} /\ HTTP \subseteq Proc /\ None \notin Proc
BY HandlerAssumption DEF Proc, HTTP

\* What one step of a run does to its place and to the slot: it moves between
\* live places, and only the cleanup ends the run.
LEMMA RunStepShape ==
  ASSUME TypeOK, NEW p \in Proc, RunStep(p)
  PROVE  /\ Live(p) /\ UNCHANGED <<closing, ctxDone, cancels>>
         /\ \E l \in Working \cup {"cleanup", "ended"} :
              /\ pc' = [pc EXCEPT ![p] = l]
              /\ l = "ended" => slot' = IF p \in HTTP THEN None ELSE slot
              /\ l # "ended" => UNCHANGED slot
<1> USE DEF Move, Goto, Live, Working
<1>1. CASE Announce(p)
  BY <1>1 DEF Announce
<1>2. CASE PipelineReturns(p)
  BY <1>2 DEF PipelineReturns
<1>3. CASE List(p)
  BY <1>3 DEF List
<1>4. CASE LoopHead(p)
  BY <1>4 DEF LoopHead, AfterCancel
<1>5. CASE IngestOne(p)
  BY <1>5 DEF IngestOne, TakeOne
<1>6. CASE Sleep(p)
  BY <1>6 DEF Sleep
<1>7. CASE Wait(p)
  BY <1>7 DEF Wait
<1>8. CASE Finish(p) \/ FirstArticle(p)
  BY <1>8 DEF Finish, FirstArticle
<1>9. CASE Cleanup(p)
  BY <1>9 DEF Cleanup, Release
<1> QED BY <1>1, <1>2, <1>3, <1>4, <1>5, <1>6, <1>7, <1>8, <1>9 DEF RunStep

\* A step of a run keeps the types of the variables it works with.
LEMMA RunStepData ==
  ASSUME TypeOK, NEW p \in Proc, RunStep(p)
  PROVE  /\ left' \in [Proc -> 0 .. MaxBatch]
         /\ late' \in [Proc -> Nat]
<1> USE DEF TypeOK
<1>N. MaxBatch \in Nat
  BY HandlerAssumption
<1>n. \A n \in 0 .. MaxBatch : [left EXCEPT ![p] = n] \in [Proc -> 0 .. MaxBatch]
  OBVIOUS
<1>1. CASE Announce(p) \/ FirstArticle(p) \/ Finish(p)
  BY <1>1 DEF Announce, FirstArticle, Finish
<1>2. CASE PipelineReturns(p)
  BY <1>2, <1>n DEF PipelineReturns
<1>3. CASE List(p)
  BY <1>3, <1>n DEF List
<1>4. CASE LoopHead(p)
  BY <1>4 DEF LoopHead
<1>5. CASE IngestOne(p)
  <2>1. left' \in [Proc -> 0 .. MaxBatch]
    <3>1. left[p] \in 0 .. MaxBatch /\ left[p] > 0 /\ left' = [left EXCEPT ![p] = left[p] - 1]
      BY <1>5 DEF IngestOne, TakeOne
    <3>2. left[p] - 1 \in 0 .. MaxBatch
      <4> HIDE DEF TypeOK
      <4> QED BY <3>1, <1>N
    <3> QED BY <3>1, <3>2
  <2>2. late' \in [Proc -> Nat]
    <3>1. PICK n \in {late[p], late[p] + 1} : late' = [late EXCEPT ![p] = n]
      BY <1>5 DEF IngestOne, TakeOne
    <3>2. late[p] \in Nat
      OBVIOUS
    <3>3. n \in Nat
      <4> HIDE DEF TypeOK
      <4> QED BY <3>1, <3>2
    <3> QED BY <3>1, <3>3
  <2> QED BY <2>1, <2>2
<1>6. CASE Sleep(p) \/ Wait(p) \/ Cleanup(p)
  BY <1>6 DEF Sleep, Wait, Cleanup
<1> QED BY <1>1, <1>2, <1>3, <1>4, <1>5, <1>6 DEF RunStep

\* A step of a run says at most one event, of itself.
LEMMA RunStepSays ==
  ASSUME NEW p \in Proc, RunStep(p)
  PROVE  UNCHANGED said \/ \E e \in Event : Say(p, e)
BY DEF RunStep, List, Announce, PipelineReturns, FirstArticle, LoopHead, IngestOne, Sleep, Wait,
       Finish, Cleanup, Progress, Event, Opening, Ending

\* Saying an event keeps the type of what is said.
LEMMA SayType ==
  ASSUME said \in [Proc -> Seq(Event)], NEW p \in Proc, NEW e \in Event, Say(p, e)
  PROVE  said' \in [Proc -> Seq(Event)]
<1>1. said[p] \in Seq(Event)
  OBVIOUS
<1>2. Append(said[p], e) \in Seq(Event)
  BY <1>1
<1> QED BY <1>2 DEF Say

\* What claiming the slot does.
LEMMA RequestShape ==
  ASSUME TypeOK, NEW p \in Proc, Request(p)
  PROVE  /\ p \in HTTP /\ pc[p] = "new"
         /\ UNCHANGED <<closing, left, ctxDone, said, late, cancels>>
         /\ \/ /\ slot = None /\ slot' = p
               /\ \E l \in Working : pc' = [pc EXCEPT ![p] = l]
            \/ UNCHANGED slot /\ pc' = [pc EXCEPT ![p] = "refused"]
BY DEF Request, MayStart, Move, Goto, FirstStep, Working

LEMMA InitType == Init => TypeOK
<1> SUFFICES ASSUME Init PROVE TypeOK
  OBVIOUS
<1>1. 0 \in 0 .. MaxBatch /\ 0 \in 0 .. MaxCancels
  BY HandlerAssumption
<1>2. said \in [Proc -> Seq(Event)]
  <2>1. <<>> \in Seq(Event)
    OBVIOUS
  <2> QED BY <2>1 DEF Init
<1> QED BY <1>1, <1>2 DEF Init, TypeOK

LEMMA NextType == TypeOK /\ [Next]_vars => TypeOK'
<1> SUFFICES ASSUME TypeOK, [Next]_vars PROVE TypeOK'
  OBVIOUS
<1>1. CASE Cancel
  <2>1. cancels' \in 0 .. MaxCancels
    <3>1. MaxCancels \in Nat /\ cancels \in 0 .. MaxCancels
      BY HandlerAssumption DEF TypeOK
    <3> QED BY <1>1, <3>1 DEF Cancel, InProgress
  <2> QED BY <1>1, <2>1 DEF Cancel, InProgress, CancelSlot, TypeOK
<1>c. CASE CancelSays
  <2>1. closing \in Proc /\ "done" \in Event /\ Say(closing, "done")
    BY <1>c, Kinds DEF CancelSays, TypeOK, Event, Ending
  <2>2. said' \in [Proc -> Seq(Event)]
    BY <2>1, SayType DEF TypeOK
  <2> QED BY <1>c, <2>2 DEF CancelSays, TypeOK
<1>2. ASSUME NEW p \in Proc, Request(p) PROVE TypeOK'
  <2>1. /\ p \in HTTP /\ UNCHANGED <<closing, left, ctxDone, said, late, cancels>>
        /\ slot' \in {slot, p}
        /\ \E l \in Working \cup {"refused"} : pc' = [pc EXCEPT ![p] = l]
    BY <1>2, RequestShape
  <2> QED BY <2>1 DEF TypeOK
<1>3. ASSUME NEW p \in Proc, CronFires(p) PROVE TypeOK'
  BY <1>3 DEF CronFires, Move, Goto, TypeOK, Working
<1>4. ASSUME NEW p \in Proc, RunStep(p) PROVE TypeOK'
  <2>1. PICK l \in Working \cup {"cleanup", "ended"} : pc' = [pc EXCEPT ![p] = l]
    BY <1>4, RunStepShape
  <2>2. pc' \in [Proc -> Working \cup {"new", "refused", "cleanup", "ended"}]
    BY <2>1 DEF TypeOK
  <2>3. slot' \in HTTP \cup {None} /\ UNCHANGED <<closing, ctxDone, cancels>>
    BY <1>4, RunStepShape DEF TypeOK
  <2>4. said' \in [Proc -> Seq(Event)]
    BY <1>4, RunStepSays, SayType DEF TypeOK
  <2> QED BY <1>4, <2>2, <2>3, <2>4, RunStepData DEF TypeOK
<1>5. CASE UNCHANGED vars
  BY <1>5 DEF vars, TypeOK
<1> QED BY <1>1, <1>c, <1>2, <1>3, <1>4, <1>5 DEF Next

\* Type correctness of the handler's state.
THEOREM TypeCorrect == Spec => []TypeOK
BY InitType, NextType, PTL DEF Spec

-----------------------------------------------------------------------------
(* The slot.                                                               *)

\* Nobody is cancelled before it has started.
CancelledStarted == \A p \in ctxDone : pc[p] # "new"

SlotInv == SlotIsLive /\ CancelledStarted

LEMMA NextSlot == TypeOK /\ SlotInv /\ [Next]_vars => SlotInv'
<1> SUFFICES ASSUME TypeOK, SlotInv, [Next]_vars PROVE SlotInv'
  OBVIOUS
<1> USE DEF SlotInv, CancelledStarted, SlotIsLive, LiveHTTP, Live, TypeOK
<1>0. /\ Working \cap {"new", "refused", "cleanup", "ended"} = {}
      /\ None \notin HTTP /\ HTTP \cap Crons = {} /\ HTTP \subseteq Proc
  BY HandlerAssumption DEF Working, Proc, HTTP
<1>1. CASE Cancel \/ CancelSays
  BY <1>1, <1>0 DEF Cancel, CancelSays, InProgress, CancelSlot
<1>2. ASSUME NEW p \in Proc, Request(p) PROVE SlotInv'
  <2>1. p \in HTTP /\ pc[p] = "new" /\ p \notin ctxDone /\ UNCHANGED ctxDone
    BY <1>2, RequestShape
  <2>2. CASE slot' = p /\ \E l \in Working : pc' = [pc EXCEPT ![p] = l]
    BY <2>1, <2>2, <1>0
  <2>3. CASE UNCHANGED slot /\ pc' = [pc EXCEPT ![p] = "refused"]
    BY <2>1, <2>3, <1>0
  <2> QED BY <1>2, <2>2, <2>3, RequestShape
<1>3. ASSUME NEW p \in Proc, CronFires(p) PROVE SlotInv'
  BY <1>3, <1>0 DEF CronFires, Move, Goto
<1>4. ASSUME NEW p \in Proc, RunStep(p) PROVE SlotInv'
  <2>1. PICK l \in Working \cup {"cleanup", "ended"} :
          /\ pc' = [pc EXCEPT ![p] = l]
          /\ l = "ended" => slot' = IF p \in HTTP THEN None ELSE slot
          /\ l # "ended" => UNCHANGED slot
    BY <1>4, RunStepShape
  <2>2. UNCHANGED ctxDone
    BY <1>4, RunStepShape
  <2> QED BY <2>1, <2>2, <1>0
<1>5. CASE UNCHANGED vars
  BY <1>5 DEF vars
<1> QED BY <1>1, <1>2, <1>3, <1>4, <1>5 DEF Next

\* A run found in the slot is live and has not been cancelled.
THEOREM SlotAlwaysLive == Spec => []SlotIsLive
<1>1. Init => SlotInv
  BY DEF Init, SlotInv, SlotIsLive, CancelledStarted
<1>2. SlotInv => SlotIsLive
  BY DEF SlotInv
<1> QED BY <1>1, <1>2, InitType, NextType, NextSlot, PTL DEF Spec

-----------------------------------------------------------------------------
(* How many runs can be live.                                              *)

LEMMA LiveFinite == TypeOK => IsFiniteSet(LiveHTTP) /\ IsFiniteSet(ctxDone)
<1> SUFFICES ASSUME TypeOK PROVE IsFiniteSet(LiveHTTP) /\ IsFiniteSet(ctxDone)
  OBVIOUS
<1>1. LiveHTTP \subseteq Proc /\ ctxDone \subseteq Proc
  BY DEF LiveHTTP, TypeOK, Proc
<1> QED BY <1>1, HandlerAssumption, FS_Subset

\* Every step that lets a run start takes an empty slot, and a slot is emptied
\* by the end of a run or by the cancellation of one.
LEMMA NextBound ==
  TypeOK /\ SlotInv /\ RunsBoundedByCancels /\ [Next]_vars => RunsBoundedByCancels'
<1> SUFFICES ASSUME TypeOK, SlotInv, RunsBoundedByCancels, [Next]_vars
             PROVE  RunsBoundedByCancels'
  OBVIOUS
<1>0. /\ Working \cap {"new", "refused", "cleanup", "ended"} = {}
      /\ None \notin HTTP /\ HTTP \cap Crons = {} /\ HTTP \subseteq Proc
  BY HandlerAssumption DEF Working, Proc, HTTP
<1>f. /\ IsFiniteSet(LiveHTTP) /\ IsFiniteSet(ctxDone)
      /\ Cardinality(LiveHTTP) \in Nat /\ Cardinality(ctxDone) \in Nat
  BY LiveFinite, FS_CardinalityType
<1>g. Cardinality(LiveHTTP) <= Cardinality(ctxDone) + (IF slot = None THEN 0 ELSE 1)
  BY DEF RunsBoundedByCancels
<1>u. ASSUME LiveHTTP' = LiveHTTP, UNCHANGED <<ctxDone, slot>> PROVE RunsBoundedByCancels'
  BY <1>u, <1>g DEF RunsBoundedByCancels
<1>1. CASE Cancel
  <2>1. LiveHTTP' = LiveHTTP
    BY <1>1 DEF Cancel, LiveHTTP, Live
  <2>2. CASE slot # None /\ CancelSlot
    <3>1. slot \notin ctxDone /\ ctxDone' = ctxDone \cup {slot} /\ slot' = None
      BY <2>2 DEF SlotInv, SlotIsLive, CancelSlot
    <3>2. Cardinality(ctxDone') = Cardinality(ctxDone) + 1
      BY <1>f, <3>1, FS_AddElement
    <3> QED BY <2>1, <2>2, <3>1, <3>2, <1>f, <1>g DEF RunsBoundedByCancels
  <2>3. CASE UNCHANGED <<slot, ctxDone>>
    BY <2>1, <2>3, <1>u
  <2> QED BY <1>1, <2>2, <2>3 DEF Cancel, InProgress
<1>2. ASSUME NEW p \in Proc, Request(p) PROVE RunsBoundedByCancels'
  <2>1. p \in HTTP /\ pc[p] = "new" /\ UNCHANGED ctxDone
    BY <1>2, RequestShape
  <2>2. ASSUME slot = None, slot' = p, NEW l \in Working, pc' = [pc EXCEPT ![p] = l]
        PROVE  RunsBoundedByCancels'
    <3>1. p \notin LiveHTTP /\ LiveHTTP' = LiveHTTP \cup {p}
      BY <2>1, <2>2, <1>0 DEF LiveHTTP, Live, TypeOK
    <3>2. Cardinality(LiveHTTP') = Cardinality(LiveHTTP) + 1
      BY <1>f, <3>1, FS_AddElement
    <3>3. slot' # None
      BY <2>1, <2>2, <1>0
    <3> QED BY <2>1, <2>2, <3>2, <3>3, <1>f, <1>g DEF RunsBoundedByCancels
  <2>3. CASE UNCHANGED slot /\ pc' = [pc EXCEPT ![p] = "refused"]
    <3>1. LiveHTTP' = LiveHTTP
      BY <2>1, <2>3, <1>0 DEF LiveHTTP, Live, TypeOK
    <3> QED BY <2>1, <2>3, <3>1, <1>u
  <2> QED BY <1>2, <2>2, <2>3, RequestShape
<1>3. ASSUME NEW p \in Proc, CronFires(p) PROVE RunsBoundedByCancels'
  <2>1. LiveHTTP' = LiveHTTP /\ UNCHANGED <<ctxDone, slot>>
    BY <1>3, <1>0 DEF CronFires, Move, Goto, LiveHTTP, Live, TypeOK
  <2> QED BY <2>1, <1>u
<1>4. ASSUME NEW p \in Proc, RunStep(p) PROVE RunsBoundedByCancels'
  <2>1. PICK l \in Working \cup {"cleanup", "ended"} :
          /\ pc' = [pc EXCEPT ![p] = l]
          /\ l = "ended" => slot' = IF p \in HTTP THEN None ELSE slot
          /\ l # "ended" => UNCHANGED slot
    BY <1>4, RunStepShape
  <2>2. UNCHANGED ctxDone /\ Live(p)
    BY <1>4, RunStepShape
  <2>3. CASE l # "ended" \/ p \notin HTTP
    <3>1. LiveHTTP' = LiveHTTP /\ UNCHANGED slot
      BY <2>1, <2>2, <2>3, <1>0 DEF LiveHTTP, Live, TypeOK
    <3> QED BY <2>2, <3>1, <1>u
  <2>4. CASE l = "ended" /\ p \in HTTP
    <3>1. p \in LiveHTTP /\ LiveHTTP' = LiveHTTP \ {p} /\ slot' = None
      BY <2>1, <2>2, <2>4, <1>0 DEF LiveHTTP, Live, TypeOK
    <3>2. Cardinality(LiveHTTP') = Cardinality(LiveHTTP) - 1
      BY <1>f, <3>1, FS_RemoveElement
    <3> QED BY <2>2, <3>1, <3>2, <1>f, <1>g DEF RunsBoundedByCancels
  <2> QED BY <2>3, <2>4
<1>5. CASE CancelSays \/ UNCHANGED vars
  BY <1>5, <1>u DEF CancelSays, vars, LiveHTTP, Live
<1> QED BY <1>1, <1>2, <1>3, <1>4, <1>5 DEF Next

\* One run at a time, plus one for every run that was cancelled.
THEOREM RunsAlwaysBounded == Spec => []RunsBoundedByCancels
<1>1. Init => SlotInv /\ RunsBoundedByCancels
  <2> SUFFICES ASSUME Init PROVE SlotInv /\ RunsBoundedByCancels
    OBVIOUS
  <2>1. SlotInv
    BY DEF Init, SlotInv, SlotIsLive, CancelledStarted
  <2>2. LiveHTTP = {} /\ ctxDone = {}
    BY HandlerAssumption DEF Init, LiveHTTP, Live, Working, Proc
  <2>3. Cardinality({}) = 0
    BY FS_EmptySet
  <2>4. Cardinality(LiveHTTP) = 0 /\ Cardinality(ctxDone) = 0 /\ slot = None
    BY <2>2, <2>3 DEF Init
  <2> QED BY <2>1, <2>4 DEF RunsBoundedByCancels
<1> QED BY <1>1, InitType, NextType, NextSlot, NextBound, PTL DEF Spec
-----------------------------------------------------------------------------
(* What a run does after a cancel, and what it tells the clients.          *)

\* Neither a triggered run nor a cron run ever is in the loop of ReprocessUnanalyzed.
OwnLoop(p) == p \notin Reprocesses => pc[p] \notin {"list", "first", "wait"}

\* An article begun after the cancel takes the run past the place where it begins one:
\* only the head of the loop leads back there, and it reads the context.
LateInv ==
  \A p \in Triggers :
    /\ late[p] \in {0, 1}
    /\ p \notin ctxDone \/ pc[p] = "ingest" => late[p] = 0

LoopInv == \A p \in Proc : OwnLoop(p)

\* A run stays in the loop it entered.
LEMMA NextLoop == TypeOK /\ LoopInv /\ [Next]_vars => LoopInv'
<1> SUFFICES ASSUME TypeOK, LoopInv, [Next]_vars PROVE LoopInv'
  OBVIOUS
<1> USE Kinds DEF LoopInv, OwnLoop, TypeOK
<1>1. CASE Cancel \/ CancelSays \/ UNCHANGED vars
  BY <1>1 DEF Cancel, CancelSays, vars
<1>2. ASSUME NEW p \in Proc, Request(p) PROVE LoopInv'
  BY <1>2 DEF Request, Move, Goto, FirstStep, HTTP
<1>3. ASSUME NEW p \in Proc, CronFires(p) PROVE LoopInv'
  BY <1>3 DEF CronFires, Move, Goto
<1>4. ASSUME NEW p \in Proc, RunStep(p) PROVE LoopInv'
  <2> USE DEF Move, Goto
  <2>1. CASE IngestOne(p)
    BY <1>4, <2>1 DEF IngestOne
  <2>2. CASE Announce(p) \/ PipelineReturns(p) \/ List(p) \/ FirstArticle(p) \/ Sleep(p)
    BY <2>2 DEF Announce, PipelineReturns, List, FirstArticle, Sleep
  <2>3. CASE LoopHead(p)
    BY <2>3 DEF LoopHead, AfterCancel
  <2>4. CASE Wait(p) \/ Finish(p) \/ Cleanup(p)
    BY <2>4 DEF Wait, Finish, Cleanup
  <2> QED BY <1>4, <2>1, <2>2, <2>3, <2>4 DEF RunStep
<1> QED BY <1>1, <1>2, <1>3, <1>4 DEF Next

\* A cancelled trigger gets past the beginning of at most one more article.
LEMMA NextLate == TypeOK /\ LoopInv /\ LateInv /\ [Next]_vars => LateInv'
<1> SUFFICES ASSUME TypeOK, LoopInv, LateInv, [Next]_vars PROVE LateInv'
  OBVIOUS
<1> USE Kinds DEF LateInv, TypeOK
<1>1. CASE Cancel \/ CancelSays \/ UNCHANGED vars
  <2>1. UNCHANGED <<pc, late>> /\ ctxDone \subseteq ctxDone'
    BY <1>1 DEF Cancel, CancelSays, CancelSlot, vars
  <2> QED BY <2>1
<1>2. ASSUME NEW p \in Proc, Request(p) PROVE LateInv'
  BY <1>2 DEF Request, Move, Goto, FirstStep
<1>3. ASSUME NEW p \in Proc, CronFires(p) PROVE LateInv'
  BY <1>3 DEF CronFires, Move, Goto
<1>4. ASSUME NEW p \in Proc, RunStep(p) PROVE LateInv'
  <2> USE DEF Move, Goto
  <2>1. UNCHANGED ctxDone
    BY <1>4, RunStepShape
  <2>2. CASE IngestOne(p)
    <3>1. pc[p] = "ingest" /\ pc'[p] # "ingest"
      BY <2>2 DEF IngestOne
    <3>2. /\ \A q \in Proc \ {p} : late'[q] = late[q] /\ pc'[q] = pc[q]
          /\ late'[p] = IF p \in ctxDone THEN late[p] + 1 ELSE late[p]
      BY <2>2 DEF IngestOne, Cancelled
    <3>3. ASSUME p \in Triggers PROVE late[p] = 0 /\ late'[p] \in {0, 1}
      <4>1. late[p] = 0
        BY <3>1, <3>3
      <4> HIDE DEF TypeOK, LateInv
      <4> QED BY <3>2, <4>1
    <3>4. p \in Triggers /\ p \notin ctxDone => late'[p] = 0
      BY <3>2, <3>3
    <3> QED BY <2>1, <3>1, <3>2, <3>3, <3>4
  <2>3. CASE LoopHead(p)
    BY <2>1, <2>3 DEF LoopHead, SeesCancel, Cancelled, AfterCancel
  <2>4. CASE List(p) \/ FirstArticle(p) \/ Wait(p)
    <3>1. p \notin Triggers /\ UNCHANGED late
      BY <2>4 DEF LoopInv, OwnLoop, List, FirstArticle, Wait
    <3>2. \A q \in Triggers : pc'[q] = pc[q]
      BY <2>4, <3>1 DEF List, FirstArticle, Wait
    <3> QED BY <2>1, <3>1, <3>2
  <2>5. CASE Announce(p) \/ PipelineReturns(p) \/ Sleep(p) \/ Finish(p) \/ Cleanup(p)
    BY <2>1, <2>5 DEF Announce, PipelineReturns, Sleep, Finish, Cleanup
  <2> QED BY <1>4, <2>2, <2>3, <2>4, <2>5 DEF RunStep
<1> QED BY <1>1, <1>2, <1>3, <1>4 DEF Next

\* A triggered run begins at most one more article after it has been cancelled: the loop
\* reads the context at its head and nothing leads around it.
THEOREM CancelAlwaysSeen == Spec => []CancelSeen
<1>1. Init => LoopInv /\ LateInv
  BY Kinds DEF Init, LoopInv, OwnLoop, LateInv
<1>2. LateInv => CancelSeen
  BY DEF LateInv, CancelSeen
<1> QED BY <1>1, <1>2, InitType, NextType, NextLoop, NextLate, PTL DEF Spec

\* How often a sequence of events tells of an end, and how often Cancel has.
NumEnds(s) == Cardinality({k \in 1 .. Len(s) : s[k] \in Ending})
Heard(p)   == IF p \in ctxDone /\ closing # p THEN 1 ELSE 0

Over(p) == pc[p] \in {"cleanup", "ended"}

\* The run has said its own end, and nothing opens the banner after it.
Told(p) == NumEnds(said[p]) = Heard(p) + 1 /\ ~EndsOpen(said[p])

\* What has been said of a run at each place of its code.
SaidAt(p) ==
  /\ pc[p] \in {"new", "list"} /\ p \notin ctxDone => said[p] = <<>>
  /\ ~Over(p) => NumEnds(said[p]) = Heard(p)
  /\ Over(p) => \/ Told(p)
                \/ /\ p \in Reprocesses /\ NumEnds(said[p]) = Heard(p)
                   /\ p \in ctxDone \/ said[p] = <<>>

SaidInv == \A p \in Proc : SaidAt(p)

\* Cancel speaks of a run that it has cancelled and that cannot end before.
ClosingInv == closing # None => closing \in ctxDone /\ pc[closing] # "ended"

\* What one more event does to a sequence of them.
LEMMA SayMore ==
  ASSUME NEW s \in Seq(Event), NEW e \in Event
  PROVE  /\ NumEnds(s) \in Nat
         /\ e \in Opening => NumEnds(Append(s, e)) = NumEnds(s)
         /\ e \in Ending  => NumEnds(Append(s, e)) = NumEnds(s) + 1
         /\ e \in Ending  => ~EndsOpen(Append(s, e))
<1> DEFINE t == Append(s, e)
           E == {k \in 1 .. Len(s) : s[k] \in Ending}
           F == {k \in 1 .. Len(t) : t[k] \in Ending}
<1>1. /\ Len(t) = Len(s) + 1 /\ Len(s) \in Nat /\ t[Len(s) + 1] = e
      /\ \A k \in 1 .. Len(s) : t[k] = s[k]
  OBVIOUS
<1>2. IsFiniteSet(E) /\ Cardinality(E) \in Nat
  <2>1. IsFiniteSet(1 .. Len(s)) /\ E \subseteq 1 .. Len(s)
    BY <1>1, FS_Interval
  <2> QED BY <2>1, FS_Subset, FS_CardinalityType
<1>3. Opening \cap Ending = {}
  BY DEF Opening, Ending
<1> HIDE DEF t
<1>4. e \in Opening => F = E
  BY <1>1, <1>3
<1>5. e \in Ending => F = E \cup {Len(s) + 1} /\ Len(s) + 1 \notin E
  BY <1>1
<1>6. e \in Ending => Cardinality(F) = Cardinality(E) + 1
  <2> HIDE DEF E, F
  <2> QED BY <1>2, <1>5, FS_AddElement
<1>7. e \in Ending => ~EndsOpen(t)
  BY <1>1, <1>3 DEF EndsOpen
<1> QED BY <1>2, <1>4, <1>6, <1>7 DEF NumEnds, t

\* The steps of the run itself.
LEMMA StepSaid ==
  ASSUME TypeOK, LoopInv, SaidInv, NEW p \in Proc, RunStep(p)
  PROVE  SaidAt(p)'
<1> DEFINE s == said[p]
           n == NumEnds(s)
           h == Heard(p)
<1>1. /\ s \in Seq(Event) /\ pc[p] \in Working \cup {"cleanup"}
      /\ UNCHANGED <<closing, ctxDone>> /\ Heard(p)' = h /\ h \in {0, 1}
  BY RunStepShape DEF TypeOK, Live, Heard
<1>2. \A l : Goto(p, l) => pc'[p] = l
  BY DEF Goto, TypeOK
<1>3. /\ \A e : Say(p, e) => said'[p] = Append(s, e)
      /\ UNCHANGED said => said'[p] = s
  BY DEF Say, TypeOK
<1>4. /\ pc[p] \in {"new", "list"} /\ p \notin ctxDone => s = <<>>
      /\ ~Over(p) => n = h
      /\ Over(p) => Told(p) \/ (p \in Reprocesses /\ n = h /\ (p \in ctxDone \/ s = <<>>))
  BY DEF SaidInv, SaidAt
<1>5. \A e \in Opening : NumEnds(Append(s, e)) = n
  BY <1>1, SayMore DEF Event
<1>6. \A e \in Ending : Say(p, e) => NumEnds(said[p])' = n + 1 /\ ~EndsOpen(said[p])'
  BY <1>1, <1>3, SayMore DEF Event
<1>7. Progress(p) \/ Say(p, "start") \/ UNCHANGED said => NumEnds(said[p])' = n
  <2>1. "start" \in Opening /\ "progress" \in Opening
    BY DEF Opening
  <2>2. ASSUME NEW e \in Opening, Say(p, e) PROVE NumEnds(said'[p]) = n
    <3>1. said'[p] = Append(s, e)
      BY <1>3, <2>2
    <3>2. NumEnds(Append(s, e)) = n
      BY <1>5
    <3> HIDE DEF s, n
    <3> QED BY <3>1, <3>2
  <2>3. UNCHANGED said => NumEnds(said'[p]) = n
    BY <1>3
  <2> QED BY <2>1, <2>2, <2>3 DEF Progress
<1>8. "done" \in Ending /\ "cancelled" \in Ending
  BY DEF Ending
<1>9. pc[p] \in {"list", "first", "wait"} => p \in Reprocesses
  BY DEF LoopInv, OwnLoop
\* On it goes, or it ends and says so, or it ends in silence.
<1>A. ASSUME ~Over(p), NEW l \in Working \ {"list"}, Goto(p, l), NumEnds(said[p])' = n
      PROVE  SaidAt(p)'
  BY <1>A, <1>1, <1>2, <1>4 DEF SaidAt, Over, Working
<1>B. ASSUME ~Over(p), Goto(p, "cleanup"), NEW e \in Ending, Say(p, e)
      PROVE  SaidAt(p)'
  BY <1>B, <1>1, <1>2, <1>4, <1>6 DEF SaidAt, Over, Told
<1>C. ASSUME ~Over(p), Goto(p, "cleanup"), UNCHANGED said, p \in Reprocesses,
             p \in ctxDone \/ s = <<>>
      PROVE  SaidAt(p)'
  BY <1>C, <1>1, <1>2, <1>3, <1>4 DEF SaidAt, Over
<1> HIDE DEF s, n, h
<1>a. CASE List(p)
  BY <1>a, <1>4, <1>7, <1>9, <1>A, <1>C DEF List, Move, Over, Working
<1>b. CASE Announce(p)
  BY <1>b, <1>7, <1>8, <1>A, <1>B DEF Announce, Move, Over, Working
<1>c. CASE PipelineReturns(p) \/ FirstArticle(p) \/ Sleep(p)
  BY <1>c, <1>7, <1>A DEF PipelineReturns, FirstArticle, Sleep, Move, Over, Working
<1>d. CASE LoopHead(p)
  BY <1>d, <1>7, <1>8, <1>A, <1>B DEF LoopHead, AfterCancel, Move, Over, Working
<1>e. CASE IngestOne(p)
  BY <1>e, <1>7, <1>A DEF IngestOne, Move, Over, Working
<1>f. CASE Wait(p)
  BY <1>f, <1>7, <1>9, <1>A, <1>C DEF Wait, Cancelled, Move, Over, Working
<1>g. CASE Finish(p)
  BY <1>g, <1>8, <1>B DEF Finish, Move, Over
<1>h. CASE Cleanup(p)
  <2>1. Over(p) /\ Over(p)' /\ said'[p] = said[p] /\ pc'[p] = "ended"
    BY <1>h, <1>2 DEF Cleanup, Move, Over
  <2>2. Told(p) => Told(p)'
    BY <2>1, <1>1 DEF Told, h
  <2> QED BY <2>1, <2>2, <1>1, <1>4 DEF SaidAt, s, n, h
<1> QED BY <1>a, <1>b, <1>c, <1>d, <1>e, <1>f, <1>g, <1>h DEF RunStep

\* A step of one run is none of the others'.
LEMMA OthersSaid ==
  ASSUME TypeOK, NEW p \in Proc, RunStep(p), NEW q \in Proc \ {p}
  PROVE  pc'[q] = pc[q] /\ said'[q] = said[q]
<1>1. pc'[q] = pc[q]
  <2>1. \E l \in Working \cup {"cleanup", "ended"} : pc' = [pc EXCEPT ![p] = l]
    BY RunStepShape
  <2>2. q \in DOMAIN pc /\ q # p
    BY DEF TypeOK
  <2> QED BY <2>1, <2>2
<1>2. UNCHANGED said \/ \E e \in Event : Say(p, e)
  BY RunStepSays
<1>3. said'[q] = said[q]
  BY <1>2 DEF Say, TypeOK
<1> QED BY <1>1, <1>3

\* What has been said of a run stays right while the run and what is said of it stay.
LEMMA SameSaid ==
  ASSUME NEW p \in Proc, SaidAt(p), pc'[p] = pc[p], said'[p] = said[p],
         Heard(p)' = Heard(p), ctxDone \subseteq ctxDone'
  PROVE  SaidAt(p)'
<1>1. (Over(p) <=> Over(p)') /\ (Told(p) => Told(p)')
  BY DEF Over, Told
<1> QED BY <1>1 DEF SaidAt

LEMMA NextClosing == TypeOK /\ SlotInv /\ ClosingInv /\ [Next]_vars => ClosingInv'
<1> SUFFICES ASSUME TypeOK, SlotInv, ClosingInv, [Next]_vars PROVE ClosingInv'
  OBVIOUS
<1>1. CASE Cancel
  BY <1>1 DEF Cancel, InProgress, CancelSlot, MutexFree, ClosingInv, SlotInv, SlotIsLive, LiveHTTP,
              Live, Working
<1>2. CASE CancelSays \/ UNCHANGED vars
  BY <1>2 DEF CancelSays, vars, ClosingInv
<1>3. ASSUME NEW p \in Proc, Request(p) \/ CronFires(p) PROVE ClosingInv'
  <2>1. /\ UNCHANGED <<closing, ctxDone>>
        /\ \E l \in Working \cup {"refused"} : pc' = [pc EXCEPT ![p] = l]
    BY <1>3, RequestShape DEF CronFires, Move, Goto, Working
  <2> QED BY <2>1 DEF ClosingInv, TypeOK, Working
<1>4. ASSUME NEW p \in Proc, RunStep(p) PROVE ClosingInv'
  <2>1. UNCHANGED <<closing, ctxDone>>
    BY <1>4, RunStepShape
  <2>2. CASE Cleanup(p)
    BY <2>1, <2>2, Kinds DEF Cleanup, Release, MutexFree, ClosingInv, Move, Goto, TypeOK
  <2>3. CASE pc'[p] # "ended"
    <3>1. \A q \in Proc \ {p} : pc'[q] = pc[q]
      BY <1>4, OthersSaid
    <3>2. closing # None => closing \in Proc
      BY Kinds DEF TypeOK
    <3> QED BY <2>1, <2>3, <3>1, <3>2 DEF ClosingInv
  <2>4. Cleanup(p) \/ pc'[p] # "ended"
    BY <1>4 DEF RunStep, List, Announce, PipelineReturns, FirstArticle, LoopHead, AfterCancel,
                IngestOne, Sleep, Wait, Finish, Move, Goto, TypeOK
  <2> QED BY <2>2, <2>3, <2>4
<1> QED BY <1>1, <1>2, <1>3, <1>4 DEF Next

\* Whoever speaks, what has been said of every run fits the place where it is.
LEMMA NextSaid ==
  TypeOK /\ LoopInv /\ SlotInv /\ ClosingInv /\ SaidInv /\ [Next]_vars => SaidInv'
<1> SUFFICES ASSUME TypeOK, LoopInv, SlotInv, ClosingInv, SaidInv, [Next]_vars PROVE SaidInv'
  OBVIOUS
<1>0. \A p \in Proc : SaidAt(p)
  BY DEF SaidInv
<1>1. CASE Cancel
  <2>1. UNCHANGED <<pc, said>> /\ ctxDone \subseteq ctxDone'
    BY <1>1 DEF Cancel, CancelSlot
  <2>2. \A p \in Proc : Heard(p)' = Heard(p)
    BY <1>1, Kinds DEF Cancel, CancelSlot, InProgress, MutexFree, SlotInv, SlotIsLive, Heard
  <2> QED BY <2>1, <2>2, <1>0, SameSaid DEF SaidInv
<1>2. CASE CancelSays
  <2>1. /\ closing \in Proc /\ UNCHANGED <<pc, ctxDone>> /\ closing' = None
        /\ closing \in ctxDone /\ said[closing] \in Seq(Event)
        /\ said' = [said EXCEPT ![closing] = Append(said[closing], "done")]
    BY <1>2, Kinds DEF CancelSays, Say, ClosingInv, TypeOK
  <2>2. ASSUME NEW p \in Proc, p # closing PROVE SaidAt(p)'
    <3>1. Heard(p)' = Heard(p) /\ said'[p] = said[p]
      BY <2>1, <2>2, Kinds DEF Heard, TypeOK
    <3> QED BY <3>1, <2>1, <1>0, SameSaid
  <2>3. ASSUME NEW p \in Proc, p = closing PROVE SaidAt(p)'
    <3> DEFINE m == NumEnds(said[p])
    <3>1. said'[p] = Append(said[p], "done")
      BY <2>1, <2>3 DEF TypeOK
    <3>2. NumEnds(said'[p]) = m + 1 /\ ~EndsOpen(said'[p]) /\ m \in Nat
      <4>1. said[p] \in Seq(Event) /\ "done" \in Ending /\ "done" \in Event
        BY <2>1, <2>3 DEF Event, Ending
      <4>2. /\ NumEnds(Append(said[p], "done")) = NumEnds(said[p]) + 1
            /\ ~EndsOpen(Append(said[p], "done")) /\ NumEnds(said[p]) \in Nat
        BY <4>1, SayMore
      <4> QED BY <4>2, <3>1
    <3>3. Heard(p) = 0
      BY <2>3 DEF Heard
    <3> DEFINE g == IF p \in ctxDone' /\ closing' # p THEN 1 ELSE 0
    <3>4. g = 1
      BY <2>1, <2>3, Kinds
    <3>5. pc'[p] = pc[p] /\ p \in ctxDone'
      BY <2>1, <2>3
    <3> SUFFICES /\ pc'[p] \notin {"cleanup", "ended"} => NumEnds(said'[p]) = g
                 /\ pc'[p] \in {"cleanup", "ended"} =>
                      \/ NumEnds(said'[p]) = g + 1 /\ ~EndsOpen(said'[p])
                      \/ p \in Reprocesses /\ NumEnds(said'[p]) = g
      BY <3>5 DEF SaidAt, Over, Told, Heard
    <3>6. /\ ~Over(p) => m = 0
          /\ Over(p) => m = 1 \/ (p \in Reprocesses /\ m = 0)
      BY <1>0, <3>3 DEF SaidAt, Told
    <3> HIDE DEF m, g
    <3> QED BY <3>2, <3>4, <3>5, <3>6 DEF Over
  <2> QED BY <2>2, <2>3 DEF SaidInv
<1>3. ASSUME NEW p \in Proc, Request(p) \/ CronFires(p) PROVE SaidInv'
  <2>1. /\ pc[p] = "new" /\ UNCHANGED <<closing, said, ctxDone>>
        /\ \E l \in Working \cup {"refused"} : pc' = [pc EXCEPT ![p] = l]
    BY <1>3, RequestShape DEF CronFires, Move, Goto, Working
  <2>2. pc'[p] \in Working \cup {"refused"} /\ \A q \in Proc \ {p} : pc'[q] = pc[q]
    BY <2>1 DEF TypeOK
  <2>3. \A q \in Proc : Heard(q)' = Heard(q)
    BY <2>1 DEF Heard
  <2>4. \A q \in Proc \ {p} : SaidAt(q)'
    BY <2>1, <2>2, <2>3, <1>0, SameSaid
  <2>5. SaidAt(p)'
    BY <2>1, <2>2, <2>3, <1>0 DEF SaidAt, Over, Working
  <2> QED BY <2>4, <2>5 DEF SaidInv
<1>4. ASSUME NEW p \in Proc, RunStep(p) PROVE SaidInv'
  <2>1. UNCHANGED <<closing, ctxDone>>
    BY <1>4, RunStepShape
  <2>2. \A q \in Proc : Heard(q)' = Heard(q)
    BY <2>1 DEF Heard
  <2>3. \A q \in Proc \ {p} : SaidAt(q)'
    BY <1>4, <2>1, <2>2, <1>0, OthersSaid, SameSaid
  <2> QED BY <1>4, <2>3, StepSaid DEF SaidInv
<1>5. CASE UNCHANGED vars
  <2>1. UNCHANGED <<pc, said, ctxDone>> /\ \A p \in Proc : Heard(p)' = Heard(p)
    BY <1>5 DEF vars, Heard
  <2> QED BY <2>1, <1>0, SameSaid DEF SaidInv
<1> QED BY <1>1, <1>2, <1>3, <1>4, <1>5 DEF Next

\* When a run is over the clients have heard its end from itself at most once, and from
\* Cancel once if it was cancelled; only a reprocess that is cancelled, or that has said
\* nothing, ends without a word of its own, and only a cancelled one opens the banner last.
THEOREM EndAlwaysAnnounced == Spec => []EndAnnounced
<1>1. Init => LoopInv /\ SlotInv /\ ClosingInv /\ SaidInv
  <2> SUFFICES ASSUME Init PROVE LoopInv /\ SlotInv /\ ClosingInv /\ SaidInv
    OBVIOUS
  <2>1. NumEnds(<<>>) = 0
    <3>1. {k \in 1 .. Len(<<>>) : <<>>[k] \in Ending} = {}
      OBVIOUS
    <3> QED BY <3>1, FS_EmptySet DEF NumEnds
  <2>2. SaidInv
    BY <2>1 DEF Init, SaidInv, SaidAt, Over, Heard
  <2> QED BY <2>2 DEF Init, LoopInv, OwnLoop, SlotInv, SlotIsLive, CancelledStarted, ClosingInv
<1>2. TypeOK /\ ClosingInv /\ SaidInv => EndAnnounced
  <2> SUFFICES ASSUME TypeOK, ClosingInv, SaidInv, NEW p \in Proc, pc[p] = "ended"
               PROVE  /\ Cardinality(Ends(p)) - Owed(p) \in {0, 1}
                      /\ p \notin Reprocesses \/ (~Cancelled(p) /\ said[p] # <<>>) =>
                           Cardinality(Ends(p)) - Owed(p) = 1
                      /\ EndsOpen(said[p]) => p \in Reprocesses /\ Cancelled(p)
    BY DEF EndAnnounced
  <2>1. Cardinality(Ends(p)) = NumEnds(said[p])
    BY DEF Ends, NumEnds
  <2>2. Owed(p) = Heard(p) /\ Heard(p) \in {0, 1}
    BY Kinds DEF Owed, Heard, Cancelled, ClosingInv
  <2>3. \/ Told(p)
        \/ /\ p \in Reprocesses /\ NumEnds(said[p]) = Heard(p)
           /\ p \in ctxDone \/ said[p] = <<>>
    BY DEF SaidInv, SaidAt, Over
  <2>4. said[p] = <<>> => ~EndsOpen(said[p])
    BY DEF EndsOpen
  <2> QED BY <2>1, <2>2, <2>3, <2>4 DEF Told, Cancelled
<1> QED BY <1>1, <1>2, InitType, NextType, NextSlot, NextLoop, NextClosing, NextSaid, PTL DEF Spec
=============================================================================
