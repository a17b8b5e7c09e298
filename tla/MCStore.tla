------------------------------- MODULE MCStore -------------------------------
(***************************************************************************)
(* Three tasks on a pool of two: fewer connections than tasks, so that     *)
(* they wait for both the pool and the lock.  Of three calls one can make  *)
(* a row that the other two contend for, or leave its transaction open in  *)
(* the pool, where one of the others meets it on its connection and the    *)
(* other waits for its lock.                                               *)
(***************************************************************************)
EXTENDS Store
=============================================================================
