------------------------- MODULE MCBulkFulfillment -------------------------
(***************************************************************************)
(* The instances of BulkFulfillment that TLC checks.  Orders are numbers,  *)
(* their order is the sequence of the batch, so there is no symmetry.      *)
(***************************************************************************)
EXTENDS BulkFulfillment
============================================================================
