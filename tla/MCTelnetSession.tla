-------------------------- MODULE MCTelnetSession --------------------------
(***************************************************************************)
(* Two users, one of whom types enough to fill a connection whose buffers  *)
(* take one line each: two on the way, one in the hands of each of the     *)
(* server, the reader and main.                                            *)
(***************************************************************************)
EXTENDS TelnetSession

CONSTANTS p1, p2

Typing == [p \in Peers |-> IF p = p1 THEN 5 ELSE 1]
============================================================================
