----------------------------- MODULE CycleQueue -----------------------------
(***************************************************************************)
(* What the scheduler promises about sync cycles (the overlap rule of the  *)
(* system): at most one cycle is active, at most one more is queued behind *)
(* it, requests beyond that coalesce with the queued one, and the queued   *)
(* one is started by the end of the active one.  Closing (the stop signal) *)
(* forgets the queued cycle; a crash forgets everything.                   *)
(***************************************************************************)

VARIABLES
  active,   \* a cycle has been started and its end has not been acknowledged
  queued,   \* one more cycle waits for the active one
  open      \* the scheduler queues requests

vars == <<active, queued, open>>

Init == active = FALSE /\ queued = FALSE /\ open = FALSE

Open == ~open /\ ~active /\ open' = TRUE /\ UNCHANGED <<active, queued>>

\* A request that finds nothing active starts a cycle.
Start == ~active /\ active' = TRUE /\ UNCHANGED <<queued, open>>

\* A request that finds one active is queued, once.
Enqueue == active /\ ~queued /\ open /\ queued' = TRUE /\ UNCHANGED <<active, open>>

\* The end of the active cycle turns the queued one into the active one.
Promote == active /\ queued /\ queued' = FALSE /\ UNCHANGED <<active, open>>

Finish == active /\ ~queued /\ active' = FALSE /\ UNCHANGED <<queued, open>>

Close == open /\ open' = FALSE /\ queued' = FALSE /\ UNCHANGED active

Abort == active' = FALSE /\ queued' = FALSE /\ open' = FALSE

Next == Open \/ Start \/ Enqueue \/ Promote \/ Finish \/ Close \/ Abort

Spec == Init /\ [][Next]_vars

=============================================================================
