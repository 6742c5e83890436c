---------------------------- MODULE MCPortSession ----------------------------
(* PortSession on a small instance: a cap of three bytes, chunks of one or   *)
(* two, and a clock that lets two coalescing windows pass.                   *)
EXTENDS PortSession
=============================================================================
