--------------------------- MODULE MCStdioSession ---------------------------
(***************************************************************************)
(* Two goroutines of the client, a channel and a replay cache of one, one  *)
(* identity reset, and a direct message for each of the two identities.    *)
(***************************************************************************)
EXTENDS StdioSession
CONSTANTS h, w
MCDirects == {[id |-> 1, to |-> 0, expires |-> 1], [id |-> 2, to |-> 0, expires |-> 2],
              [id |-> 3, to |-> 1, expires |-> 2]}
=============================================================================
