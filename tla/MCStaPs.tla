------------------------------ MODULE MCStaPs ------------------------------
(* StaPs on small instances. *)
EXTENDS StaPs

CONSTANT t1

OneThread == {t1}
=============================================================================
