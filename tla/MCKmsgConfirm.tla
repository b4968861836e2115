--------------------------- MODULE MCKmsgConfirm ---------------------------
(* KmsgConfirm on small instances. *)
EXTENDS KmsgConfirm
=============================================================================
