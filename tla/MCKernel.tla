------------------------------ MODULE MCKernel ------------------------------
(* Small instances of the kernel.                                           *)
EXTENDS Kernel

MCCauses == {wq_cond} \cup Sock
=============================================================================
