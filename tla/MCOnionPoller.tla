--------------------------- MODULE MCOnionPoller ---------------------------
(***************************************************************************)
(* The instance of OnionPoller for TLC: a call of enable_tor and one of    *)
(* disable_tor, in any order and overlapping, and two polls.               *)
(***************************************************************************)
EXTENDS OnionPoller

CONSTANTS enable, disable
=============================================================================
