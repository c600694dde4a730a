--------------------------- MODULE MCConfigStore ---------------------------
(***************************************************************************)
(* Instances of ConfigStore for TLC: the field of the active plugin and    *)
(* one other.                                                              *)
(***************************************************************************)
EXTENDS ConfigStore
============================================================================
