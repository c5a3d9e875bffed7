--------------------------- MODULE MCStreamOutput ---------------------------
(* A small instance of StreamOutput for TLC.  Its numbers get a digit at    *)
(* 3, 9, 27 and 81, so that sizes change their length within the bounds.    *)
EXTENDS StreamOutput
=============================================================================
