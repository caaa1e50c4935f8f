--------------------------- MODULE MCComputerDisk ---------------------------
(***************************************************************************)
(* Instances of ComputerDisk for TLC. Its constants are bounds, given by   *)
(* the configurations.                                                     *)
(***************************************************************************)
EXTENDS ComputerDisk
=============================================================================
