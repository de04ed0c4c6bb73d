---------------------------- MODULE MCAcquisition ----------------------------
(* The values of AcquisitionParts' constants: floors that a good corpus of   *)
(* four incidents just reaches, two preparers, three distributions of which  *)
(* two may be selected.                                                      *)
EXTENDS AcquisitionParts

CONSTANTS p1, p2

MCPreparers == {p1, p2}
MCNames == {1, 2, 3}

MCFloor ==
  [incidents |-> 4, family |-> 2, machine |-> 3, fault |-> 2, perFamily |-> 2,
   perFault |-> 2, perMachine |-> 1, machinesPerFamily |-> 2, faultsPerFamily |-> 2,
   familiesPerFault |-> 2]
================================================================================
