---------------------------- MODULE MCOrganisation ----------------------------
(***************************************************************************)
(* Instances of Organisation for TLC.                                      *)
(***************************************************************************)
EXTENDS Organisation

CONSTANT o1
=============================================================================
