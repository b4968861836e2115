---------------------------- MODULE MCAudioRing ----------------------------
(* Instances of AudioRing for TLC. *)
EXTENDS AudioRing
=============================================================================
