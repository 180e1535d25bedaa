-------------------------- MODULE IngestionHandler --------------------------
(***************************************************************************)
(* The runs of the server and the slot that is meant to serialise them:    *)
(* Trigger, Reprocess and Cancel of delivery/http/handler/                 *)
(* ingestion_handler.go, the loop of ReprocessUnanalyzed in                *)
(* usecase/article_usecase.go, and the cron job of ingestion/scheduler.go, *)
(* which runs the same pipeline without looking at the slot.  The          *)
(* handler's mutex makes each access to currentCancel one step, except     *)
(* that Cancel keeps it while it broadcasts an event of its own.  What a   *)
(* run does to articles is left to the other modules; here it has a number *)
(* of articles left and a place in its code.                               *)
(***************************************************************************)
EXTENDS Integers, Sequences, FiniteSets

CONSTANTS
  Triggers,      \* POST /ingestion/trigger requests and their goroutines
  Reprocesses,   \* POST /ingestion/reprocess requests
  Crons,         \* firings of the cron schedule
  None,          \* currentCancel == nil; nobody
  MaxBatch,      \* most articles a run works on (10 for Reprocess)
  MaxCancels     \* bound on the number of cancel requests

HTTP == Triggers \cup Reprocesses
Proc == HTTP \cup Crons

ASSUME HandlerAssumption ==
  /\ None \notin Proc
  /\ Triggers \cap Reprocesses = {} /\ HTTP \cap Crons = {}
  /\ IsFiniteSet(Proc)
  /\ MaxBatch \in Nat /\ MaxCancels \in Nat

VARIABLES
  slot,      \* h.currentCancel: the run whose context it cancels, or None
  closing,   \* the run whose end Cancel is about to broadcast, holding h.mu, or None
  pc,        \* where each run is
  left,      \* articles the run still has to work on
  ctxDone,   \* the contexts that are cancelled
  said,      \* what has been broadcast of each run, by itself or by Cancel
  late,      \* history: articles each run began to ingest after its cancellation
  cancels    \* cancel requests so far

vars == <<slot, closing, pc, left, ctxDone, said, late, cancels>>

\* Code locations between the claim of the slot and the deferred cleanup.
Working == {"list", "announce", "pipeline", "first", "head", "ingest", "sleep", "wait",
            "finish"}
Live(p)   == pc[p] \in Working \cup {"cleanup"}

\* The page shows a run as going on from a start, progress or log event (the last
\* two are both "progress" here) until one that says done or cancelled (app.js).
Opening   == {"start", "progress"}
Ending    == {"done", "cancelled"}
Event     == Opening \cup Ending

TypeOK ==
  /\ slot \in HTTP \cup {None} /\ closing \in HTTP \cup {None}
  /\ pc \in [Proc -> Working \cup {"new", "refused", "cleanup", "ended"}]
  /\ left \in [Proc -> 0 .. MaxBatch]
  /\ ctxDone \in SUBSET HTTP
  /\ said \in [Proc -> Seq(Event)]
  /\ late \in [Proc -> Nat]
  /\ cancels \in 0 .. MaxCancels

Init ==
  /\ slot = None /\ closing = None
  /\ pc = [p \in Proc |-> "new"]
  /\ left = [p \in Proc |-> 0]
  /\ ctxDone = {}
  /\ said = [p \in Proc |-> <<>>]
  /\ late = [p \in Proc |-> 0]
  /\ cancels = 0

Goto(p, l)   == pc' = [pc EXCEPT ![p] = l]
Move(p, k, l) == pc[p] = k /\ Goto(p, l)
Say(p, e)    == said' = [said EXCEPT ![p] = Append(@, e)]
Cancelled(p) == p \in ctxDone
MutexFree    == closing = None

EndsOpen(s)  == s # <<>> /\ s[Len(s)] \in Opening

\* A progress event; of several in a row one is kept.
Progress(p)  == IF EndsOpen(said[p]) THEN UNCHANGED said ELSE Say(p, "progress")

-----------------------------------------------------------------------------
(* Claiming and leaving the slot.                                          *)

\* Mutation: the handler forgets to look at currentCancel.
Bug_MayStart(p) == TRUE

MayStart(p) == slot = None

FirstStep(p) == IF p \in Triggers THEN "announce" ELSE "list"

\* Trigger and Reprocess up to the Unlock: 409, or the slot is taken.
Request(p) ==
  /\ p \in HTTP /\ MutexFree
  /\ \/ /\ MayStart(p)
        /\ Move(p, "new", FirstStep(p)) /\ slot' = p
     \/ /\ ~MayStart(p)
        /\ Move(p, "new", "refused") /\ UNCHANGED slot
  /\ UNCHANGED <<closing, left, ctxDone, said, late, cancels>>

CronFires(p) ==
  /\ p \in Crons /\ Move(p, "new", "pipeline")
  /\ UNCHANGED <<slot, closing, left, ctxDone, said, late, cancels>>

Release == MutexFree /\ slot' = None

\* The deferred func of both handlers: whatever is in the slot is dropped.
Cleanup(p) ==
  /\ Move(p, "cleanup", "ended")
  /\ IF p \in HTTP THEN Release ELSE UNCHANGED slot
  /\ UNCHANGED <<closing, left, ctxDone, said, late, cancels>>

\* Mutation: Cancel leaves the cancelled run in the slot.
Bug_CancelSlot == ctxDone' = ctxDone \cup {slot} /\ UNCHANGED slot

CancelSlot == ctxDone' = ctxDone \cup {slot} /\ slot' = None

InProgress == slot # None

\* Cancel up to its broadcast; without a run it only answers so.
Cancel ==
  /\ MutexFree
  /\ cancels < MaxCancels /\ cancels' = cancels + 1
  /\ \/ InProgress /\ CancelSlot /\ closing' = slot
     \/ ~InProgress /\ UNCHANGED <<slot, closing, ctxDone>>
  /\ UNCHANGED <<pc, left, said, late>>

\* Cancel tells the clients that the run is done, whatever that is doing, and
\* unlocks the mutex.
CancelSays ==
  /\ closing # None /\ closing' = None
  /\ Say(closing, "done")
  /\ UNCHANGED <<slot, pc, left, ctxDone, late, cancels>>

-----------------------------------------------------------------------------
(* The body of a run.                                                      *)

\* ListUnprocessed: an error, which a cancelled context is too, or a batch.
List(p) ==
  /\ \/ Move(p, "list", "cleanup") /\ UNCHANGED left
     \/ /\ ~Cancelled(p) /\ Move(p, "list", "announce")
        /\ \E n \in 0 .. MaxBatch : left' = [left EXCEPT ![p] = n]
  /\ UNCHANGED <<slot, closing, ctxDone, said, late, cancels>>

\* The start event of Trigger's goroutine and of a batch; an empty batch is done.
Announce(p) ==
  /\ \/ p \in Triggers /\ Move(p, "announce", "pipeline") /\ Say(p, "start")
     \/ /\ p \in Reprocesses
        /\ \/ left[p] = 0 /\ Move(p, "announce", "cleanup") /\ Say(p, "done")
           \/ left[p] > 0 /\ Move(p, "announce", "first") /\ Say(p, "start")
  /\ UNCHANGED <<slot, closing, left, ctxDone, late, cancels>>

\* pipeline.Run, which says that it progresses unless it is cancelled before the
\* first feed, returns n articles.
PipelineReturns(p) ==
  /\ Move(p, "pipeline", "head")
  /\ Progress(p) \/ (Cancelled(p) /\ UNCHANGED said)
  /\ \E n \in 0 .. MaxBatch : left' = [left EXCEPT ![p] = n]
  /\ UNCHANGED <<slot, closing, ctxDone, late, cancels>>

\* ReprocessUnanalyzed begins with its first article at once.
FirstArticle(p) ==
  /\ Move(p, "first", "ingest") /\ Progress(p)
  /\ UNCHANGED <<slot, closing, left, ctxDone, late, cancels>>

\* Mutation: Trigger's loop does not look at its context.
Bug_SeesCancel(p) == FALSE

SeesCancel(p) == p \in Triggers /\ Cancelled(p)

\* Mutation: break instead of return leaves only the select.
Bug_AfterCancel == "finish"

AfterCancel == "cleanup"

\* The head of the loop over the articles: Trigger reads its context, Reprocess
\* says which article is next and then waits.
LoopHead(p) ==
  /\ \/ left[p] = 0 /\ Move(p, "head", "finish") /\ UNCHANGED said
     \/ /\ left[p] > 0 /\ SeesCancel(p)
        /\ Move(p, "head", AfterCancel) /\ Say(p, "cancelled")
     \/ /\ left[p] > 0 /\ ~SeesCancel(p)
        /\ Move(p, "head", IF p \in Reprocesses THEN "wait" ELSE "ingest")
        /\ IF p \in Crons THEN UNCHANGED said ELSE Progress(p)
  /\ UNCHANGED <<slot, closing, left, ctxDone, late, cancels>>

\* Mutation: the loop does not move on to the next article.
Bug_TakeOne(p) == left' = left

TakeOne(p) == left' = [left EXCEPT ![p] = @ - 1]

\* One article: Ingest, or Analyze and Update, of which Reprocess logs the
\* success.  The outcome does not change the course of the run.
IngestOne(p) ==
  /\ left[p] > 0 /\ TakeOne(p)
  /\ late' = [late EXCEPT ![p] = IF Cancelled(p) THEN @ + 1 ELSE @]
  /\ Move(p, "ingest", IF p \in Triggers THEN "sleep" ELSE "head")
  /\ UNCHANGED said \/ (p \in Reprocesses /\ Progress(p))
  /\ UNCHANGED <<slot, closing, ctxDone, cancels>>

\* time.Sleep(2s) of Trigger does not watch the context.
Sleep(p) ==
  /\ Move(p, "sleep", "head")
  /\ UNCHANGED <<slot, closing, left, ctxDone, said, late, cancels>>

\* The select of ReprocessUnanalyzed: two seconds, or a silent return.
Wait(p) ==
  /\ \/ Move(p, "wait", "ingest")
     \/ Cancelled(p) /\ Move(p, "wait", "cleanup")
  /\ UNCHANGED <<slot, closing, left, ctxDone, said, late, cancels>>

Finish(p) ==
  /\ Move(p, "finish", "cleanup") /\ Say(p, "done")
  /\ UNCHANGED <<slot, closing, left, ctxDone, late, cancels>>

RunStep(p) == \/ List(p) \/ Announce(p) \/ PipelineReturns(p) \/ FirstArticle(p)
              \/ LoopHead(p) \/ IngestOne(p) \/ Sleep(p) \/ Wait(p) \/ Finish(p)
              \/ Cleanup(p)

Next == \/ Cancel \/ CancelSays
        \/ \E p \in Proc : Request(p) \/ CronFires(p) \/ RunStep(p)

Spec     == Init /\ [][Next]_vars
FairSpec == Spec /\ WF_vars(CancelSays) /\ \A p \in Proc : WF_vars(RunStep(p))

-----------------------------------------------------------------------------
(* Properties.                                                             *)

LiveHTTP == {p \in HTTP : Live(p)}

\* A run found in the slot is still going on and has not been cancelled: no
\* request is refused because of a run that is over, and a cancel request never
\* answers "cancelled" for one (ingestion_handler.go 91, 103-105, 232-234).
SlotIsLive == slot # None => slot \in LiveHTTP \ ctxDone

\* The slot lets one run through at a time, except that every cancelled run may
\* have let one more start: Cancel empties the slot while its run is still going.
RunsBoundedByCancels ==
  Cardinality(LiveHTTP) <= Cardinality(ctxDone) + (IF slot = None THEN 0 ELSE 1)

\* A triggered run begins at most one more article after it has been cancelled
\* (the context is read at the head of the loop, ingestion_handler.go 123-135).
CancelSeen == \A p \in Triggers : late[p] <= 1

Ends(p)  == {k \in 1 .. Len(said[p]) : said[p][k] \in Ending}
Owed(p)  == IF Cancelled(p) THEN 1 ELSE 0

\* When a run is over the clients have heard of its end from the run itself at
\* most once, and from Cancel once if it was cancelled.  A triggered or a cron run
\* never ends without a word, nor does a reprocess that has said anything and was
\* not cancelled.  And nothing opens the page's banner again after the last of the
\* ends, except for a cancelled reprocess, which may say that it progresses after
\* the "done" of Cancel and then return in silence (article_usecase.go 223-255,
\* ingestion_handler.go 108-177, 236-242, scheduler.go 74-81).
EndAnnounced ==
  \A p \in Proc : pc[p] = "ended" =>
    LET own == Cardinality(Ends(p)) - Owed(p)
    IN  /\ own \in {0, 1}
        /\ p \notin Reprocesses \/ (~Cancelled(p) /\ said[p] # <<>>) => own = 1
        /\ EndsOpen(said[p]) => p \in Reprocesses /\ Cancelled(p)

\* Every run that has begun comes to its end, cancelled or not.
RunsEnd == \A p \in Proc : Live(p) ~> pc[p] = "ended"

\* The answer 409 of ingestion_handler.go:93 says that a run must end before
\* another begins: no two HTTP runs that nobody cancelled are live together.
AtMostOneRun ==
  \A p, q \in LiveHTTP \ ctxDone : p = q

=============================================================================
