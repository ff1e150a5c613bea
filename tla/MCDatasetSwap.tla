---------------------------- MODULE MCDatasetSwap ----------------------------
(***************************************************************************)
(* Instances of DatasetSwap for TLC.  Two tables stand for the eleven: one *)
(* that is referenced and one that references it.                          *)
(***************************************************************************)
EXTENDS DatasetSwap

CONSTANTS o1, o2, small, large

TwoOrgs == <<o1, o2>>
ParentAndChild == <<"address_level", "individual">>

\* All recipes share an id base; a larger dataset's tenants begin and end higher.
Tops == [d \in {small, large} |->
           [o \in {o1, o2} |-> IF o = o1 THEN IF d = small THEN 1 ELSE 2
                                         ELSE IF d = small THEN 2 ELSE 4]]
=============================================================================
