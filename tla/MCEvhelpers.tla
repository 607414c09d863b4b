---------------------------- MODULE MCEvhelpers ----------------------------
(***************************************************************************)
(* The instance of Evhelpers for TLC: a request and up to three bytes from *)
(* the peer, so that some can be taken, some be in the input buffer and    *)
(* some be under way when the connection ends.                             *)
(***************************************************************************)
EXTENDS Evhelpers
=============================================================================
