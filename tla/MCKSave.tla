-------------------------------- MODULE MCKSave ------------------------------
(* Symbols that are y or n; n is the default.                                 *)
EXTENDS KSave
=============================================================================
