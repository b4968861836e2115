----------------------------- MODULE MCCoreBus -----------------------------
(* CoreBus on a small instance. *)
EXTENDS CoreBus
=============================================================================
