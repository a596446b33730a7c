------------------------------ MODULE MCVpnctl ------------------------------
(* Small instances of Vpnctl for TLC. *)
EXTENDS Vpnctl

CONSTANTS n1, n2, p1, p2

MCAddrs == 1..3
=============================================================================
