------------------------ MODULE MCControlProduction ------------------------
(* Two launches that may overlap or follow one another, a suite of two      *)
(* controls, one commit during production and one deletion of the bundle.   *)
EXTENDS ControlProduction

CONSTANTS l1, l2

MCLaunches == {l1, l2}
=============================================================================
