----------------------------- MODULE MCLogWriter -----------------------------
(* LogWriter with a queue of two entries.                                    *)
EXTENDS LogWriter
=============================================================================
