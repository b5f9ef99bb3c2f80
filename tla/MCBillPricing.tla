--------------------------- MODULE MCBillPricing ---------------------------
(* Instances of BillPricing for TLC.                                       *)
EXTENDS BillPricing

\* MRPs whose tax rounds up, down and to an odd paisa in some slab; whole and
\* fractional quantities, the smallest NUMERIC(12, 3) among them.
SomeMrps       == {1, 49, 50, 99, 1000, 1401}
SomeQuantities == {1, 500, 1000, 1333, 3000}
=============================================================================
