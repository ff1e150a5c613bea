--------------------------- MODULE MCProvisioning ---------------------------
(***************************************************************************)
(* Instances of Provisioning for TLC.                                      *)
(***************************************************************************)
EXTENDS Provisioning

CONSTANTS o1, o2, l1, l2, t1, t2, x

OneTenant == <<t1>>
TwoTenants == <<t1, t2>>

OneLog == [o \in Operators |-> l1]
ALogEach == [o \in Operators |-> IF o = o1 THEN l1 ELSE l2]
=============================================================================
