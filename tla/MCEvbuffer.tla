----------------------------- MODULE MCEvbuffer -----------------------------
(***************************************************************************)
(* The instance of Evbuffer for TLC: the two bytes that end lines, as      *)
(* bytes and as the halves of a number, and one that does not, in enough   *)
(* bytes for a line and its end to be cut anywhere.                        *)
(***************************************************************************)
EXTENDS Evbuffer

MCBytes == {LF, CR, 65}
MCShorts == {CR * 256 + LF, 256}
=============================================================================
