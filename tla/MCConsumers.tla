----------------------------- MODULE MCConsumers -----------------------------
(* Consumers on a small instance.                                               *)
EXTENDS Consumers
=============================================================================
