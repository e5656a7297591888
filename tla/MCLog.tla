-------------------------------- MODULE MCLog --------------------------------
(* An instance of Log for TLC: the constants are all in the configuration. *)
EXTENDS Log
=============================================================================
