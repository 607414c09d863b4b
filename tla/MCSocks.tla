------------------------------ MODULE MCSocks ------------------------------
(***************************************************************************)
(* The instance of Socks for TLC: bytes have their 8 bits; the lengths are *)
(* those around the edges of a signed and an unsigned char.                *)
(***************************************************************************)
EXTENDS Socks

MCHosts == {255, 256}
MCPorts == {BadPort, 65535, 65536}
MCLengths == {0, 127, 128, 249, 255}
MCSizeModulus == 65536
=============================================================================
