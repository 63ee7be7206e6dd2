-------------------------- MODULE MCCollectiveInit --------------------------
(***************************************************************************)
(* Three ranks that call init() up to twice after MPI_Init.                *)
(***************************************************************************)
EXTENDS CollectiveInit

AllModules == {"hwloc", "mpi", "nvml", "supermuc"}
=============================================================================
