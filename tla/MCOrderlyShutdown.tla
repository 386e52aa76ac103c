-------------------------- MODULE MCOrderlyShutdown --------------------------
(* Small instances of OrderlyShutdown.                                     *)
EXTENDS OrderlyShutdown
=============================================================================
