------------------------------- MODULE MCFSM --------------------------------
(* Model checking FSM: every data source the code names, one it does not   *)
(* know, the two index types the osm arm knows, and one it refuses.        *)
EXTENDS FSM

MCRequests ==
  [index_type : {"admins", "streets", "addresses"},
   data_source : {"cosmogony", "bano", "osm", "ntfs", "openaddress"}]
=============================================================================
