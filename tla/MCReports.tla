----------------------------- MODULE MCReports -----------------------------
(* An instance of Reports for TLC.                                          *)
EXTENDS Reports

CONSTANTS t1, t2

SomeMrps   == <<1050, 999, 400>>
SomeSlabs  == <<5, 18, 5>>
SomeLevels == <<3, 2, 1>>
SomeStock  == <<3, 2, 1>>

\* Cash for one unit, and khata for all three Products, one more than the
\* reports list; every Product is or gets below its Reorder Level.
SomeSales ==
  {[mode |-> "cash", qty |-> <<1, 0, 0>>], [mode |-> "khata", qty |-> <<2, 1, 1>>]}

TillSymmetry == Permutations({t1, t2})
=============================================================================
