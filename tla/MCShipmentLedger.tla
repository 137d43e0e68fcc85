-------------------------- MODULE MCShipmentLedger --------------------------
(***************************************************************************)
(* ShipmentLedger for TLC: the packages, the carriers and the requests are *)
(* interchangeable.                                                        *)
(***************************************************************************)
EXTENDS ShipmentLedger, TLC

Symmetry == Permutations(Packages) \cup Permutations(Carriers) \cup Permutations(Handlers)
=============================================================================
