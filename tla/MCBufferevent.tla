--------------------------- MODULE MCBufferevent ---------------------------
(***************************************************************************)
(* The instance of Bufferevent for TLC: a socket and what may wrap it, two *)
(* slots, one to run and one to clear, and one holder, which may store any *)
(* set of Vars and so stands for all of them.                              *)
(***************************************************************************)
EXTENDS Bufferevent

CONSTANTS sock, ssl, ctrl, event_cb, read_cb

=============================================================================
