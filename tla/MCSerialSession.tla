--------------------------- MODULE MCSerialSession ---------------------------
(* SerialSession on small instances.                                         *)
EXTENDS SerialSession
=============================================================================
