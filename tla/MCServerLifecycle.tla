--------------------------- MODULE MCServerLifecycle ---------------------------
(* Instance of ServerLifecycle for TLC. *)
EXTENDS ServerLifecycle

CONSTANTS s1, s2, c1, c2, w1, w2
================================================================================
