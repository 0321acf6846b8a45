------------------------------ MODULE MCRollout ------------------------------
(***************************************************************************)
(* Values for the constants of ConfigRollout.                              *)
(***************************************************************************)
EXTENDS ConfigRollout, MCResources

==============================================================================
