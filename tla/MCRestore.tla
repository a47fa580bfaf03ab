------------------------------ MODULE MCRestore ------------------------------
(* Valid settings: enough slots; a frame above the client's bucket; one     *)
(* slot, for the control and all data connections, with a frame within and  *)
(* with one above the client's bucket.                                      *)
EXTENDS Restore

MCServer(chunk) == [parallel |-> 1, retries |-> 2, chunk |-> chunk, frame |-> 2]

MCClient(limit, connections) ==
  [connections |-> connections, chunk |-> 1, frame |-> 2, limit |-> limit]

MCConfigs == {
  [server |-> MCServer(1), client |-> MCClient(1, 3)],
  [server |-> MCServer(2), client |-> MCClient(1, 3)],
  [server |-> MCServer(2), client |-> MCClient(0, 1)],
  [server |-> MCServer(2), client |-> MCClient(1, 1)]}

MCVersions == 1 .. 2

=============================================================================
