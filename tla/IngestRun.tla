----------------------------- MODULE IngestRun -----------------------------
(***************************************************************************)
(* What one call of Pipeline.Run promises its caller, with no goroutine,   *)
(* channel or cache in sight: jobs are accepted from the feeds, each one   *)
(* is settled at most once, as an article or as an error, and the call     *)
(* returns when the feeds are exhausted and every accepted job is settled, *)
(* or, once the context has been cancelled, at any time.  What it returns  *)
(* does not change afterwards.                                             *)
(***************************************************************************)
CONSTANT Job   \* the feed items of the run

VARIABLES
  accepted,    \* jobs handed to the worker pool
  closed,      \* no job will be handed to the pool any more
  succeeded,   \* jobs the run reports an article for
  failed,      \* jobs the run reports an error for
  cancelled,   \* the context of the run is cancelled
  returned     \* the call has returned

vars == <<accepted, closed, succeeded, failed, cancelled, returned>>

Settled == succeeded \cup failed

Init == /\ accepted = {} /\ closed = FALSE
        /\ succeeded = {} /\ failed = {}
        /\ cancelled = FALSE /\ returned = FALSE

Accept(j) == /\ ~closed /\ j \notin accepted
             /\ accepted' = accepted \cup {j}
             /\ UNCHANGED <<closed, succeeded, failed, cancelled, returned>>

Close == /\ ~closed /\ closed' = TRUE
         /\ UNCHANGED <<accepted, succeeded, failed, cancelled, returned>>

Succeed(j) == /\ ~returned /\ j \in accepted \ Settled
              /\ succeeded' = succeeded \cup {j}
              /\ UNCHANGED <<accepted, closed, failed, cancelled, returned>>

Fail(j) == /\ ~returned /\ j \in accepted \ Settled
           /\ failed' = failed \cup {j}
           /\ UNCHANGED <<accepted, closed, succeeded, cancelled, returned>>

Cancel == /\ ~cancelled /\ cancelled' = TRUE
          /\ UNCHANGED <<accepted, closed, succeeded, failed, returned>>

Return == /\ ~returned
          /\ cancelled \/ (closed /\ Settled = accepted)
          /\ returned' = TRUE
          /\ UNCHANGED <<accepted, closed, succeeded, failed, cancelled>>

Next == \/ \E j \in Job : Accept(j) \/ Succeed(j) \/ Fail(j)
        \/ Close \/ Cancel \/ Return

Spec == Init /\ [][Next]_vars
=============================================================================
