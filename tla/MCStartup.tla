------------------------------ MODULE MCStartup ------------------------------
(* Model checking Startup, which is finite. *)
EXTENDS Startup
=============================================================================
