----------------------------- MODULE MCSyncCycle -----------------------------
(* Paths 1 and 2 differ only by case.                                      *)
EXTENDS SyncCycle

MCPaths == 1 .. 3

MCNorm == [p \in MCPaths |-> IF p = 3 THEN "b" ELSE "a"]

MCTwins == 1 .. 2

MCTwinsNorm == [p \in MCTwins |-> "a"]

=============================================================================
