------------------------------- MODULE MCTcp -------------------------------
(* Model checking of Tcp: the roles and the bounds are in the .cfg files.  *)
EXTENDS Tcp
=============================================================================
