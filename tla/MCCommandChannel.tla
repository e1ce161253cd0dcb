-------------------------- MODULE MCCommandChannel --------------------------
(* Two commands over a one-deep executor queue, so that a full queue, a lost *)
(* ack and a re-offer can coincide.                                          *)
EXTENDS CommandChannel

CONSTANTS c1, c2

MCRequestOf == [id \in Ids |-> IF id = c1 THEN "stop_audio" ELSE "request_buffer"]
=============================================================================
