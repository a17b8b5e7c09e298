------------------------------ MODULE MCIngest ------------------------------
(* Model checking Ingest.  A build of MCSupported may fail at every stage   *)
(* or succeed; one of MCUnknown always fails, after two states, which is    *)
(* enough for a listener that comes too late.                               *)
EXTENDS Ingest

MCSupported == {[index_type |-> "addresses", data_source |-> "bano"]}

MCUnknown == {[index_type |-> "addresses", data_source |-> "openaddress"]}
=============================================================================
