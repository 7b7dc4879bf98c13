--------------------------- MODULE MCMeasurement ---------------------------
(***************************************************************************)
(* Instance of Measurement for TLC.                                        *)
(***************************************************************************)
EXTENDS Measurement, TLC

CONSTANTS v1, v2, v3, armA, armB

TwoVariants == <<armA, armB>>

\* Every arm has a visitor.
OneEach == v1 :> Control @@ v2 :> armA @@ v3 :> armB
=============================================================================
