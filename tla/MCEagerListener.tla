---------------------------- MODULE MCEagerListener ----------------------------
(***************************************************************************)
(* EagerListener with a parent class and its multi-table child.            *)
(***************************************************************************)
EXTENDS EagerListener

CONSTANTS Vehicle, Car

MCSubclass == {<<Vehicle, Vehicle>>, <<Car, Car>>, <<Car, Vehicle>>}

================================================================================
