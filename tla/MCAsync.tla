------------------------------ MODULE MCAsync ------------------------------
(***************************************************************************)
(* Instances of the task group: channels asked for with a capacity below 0 *)
(* (which `chan` raises to 0) and of 1.                                    *)
(***************************************************************************)
EXTENDS Async
MCCaps == {-1, 1}

\* "When every task is blocked and some wait on descriptors, it sleeps in poll(2)
\* until one is ready" (ASYNC.thx:17-18).  poll_ready does not keep this when
\* poll(2) fails or a probe finds the descriptor drained.
SleepsUntilReady == over /\ polls => waiting = <<>>
=============================================================================
