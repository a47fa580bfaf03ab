------------------------------- MODULE Config -------------------------------
(***************************************************************************)
(* What the two Validate functions of internal/config/config.go demand of  *)
(* the settings that other modules depend on, and the capacity of the      *)
(* token bucket the client makes of its own (newLimiter of                 *)
(* internal/client/ratelimit.go).  Each side checks its own file; nothing  *)
(* compares the two.                                                       *)
(***************************************************************************)
EXTENDS Naturals

\* The server's PARALLEL_TRANSFERS, RETRY_COUNT, CHUNK_SIZE and
\* MAX_FRAME_BYTES.
ValidServer(c) ==
  /\ c.parallel >= 1 /\ c.retries >= 1
  /\ c.chunk > 0 /\ c.chunk <= c.frame

\* The client's MAX_CONNECTIONS, CHUNK_SIZE, MAX_FRAME_BYTES and
\* BANDWIDTH_LIMIT, 0 for none.
ValidClient(c) ==
  /\ c.connections >= 1
  /\ c.chunk > 0 /\ c.chunk <= c.frame
  /\ c.limit >= 0

Capacity(c) == IF c.chunk < c.limit THEN c.limit ELSE c.chunk

\* The bucket can give what one frame of the server asks for; if it cannot,
\* limiter.wait does not return.
Fits(server, client) == client.limit = 0 \/ server.chunk <= Capacity(client)

=============================================================================
