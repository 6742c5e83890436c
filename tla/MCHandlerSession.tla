--------------------------- MODULE MCHandlerSession ---------------------------
(* HandlerSession on a small instance.                                          *)
EXTENDS HandlerSession
=============================================================================
