--------------------------- MODULE MCVideoBuffer ---------------------------
(* Instances of VideoBuffer for TLC. *)
EXTENDS VideoBuffer
=============================================================================
