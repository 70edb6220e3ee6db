----------------------------- MODULE MCSessions -----------------------------
(* A small instance of Sessions for TLC.                                   *)
EXTENDS Sessions
CONSTANTS u1, u2, a1, a2, s1
=============================================================================
