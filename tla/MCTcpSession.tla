---------------------------- MODULE MCTcpSession ----------------------------
(* TcpSession on a small instance.                                          *)
EXTENDS TcpSession
=============================================================================
