------------------------------- MODULE MCNet -------------------------------
(* Model checking of Net: a gateway, a host and an address behind the      *)
(* gateway; the bounds are in the .cfg files.                              *)
EXTENDS Net
=============================================================================
