--------------------------- MODULE MCScanResults ---------------------------
(***************************************************************************)
(* ScanResults on small instances.  Shells, reading threads and access     *)
(* points are interchangeable.                                             *)
(***************************************************************************)
EXTENDS ScanResults, TLC

Symm == Permutations(Shells) \cup Permutations(Apps) \cup Permutations(Bssids)
=============================================================================
