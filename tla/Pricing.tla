------------------------------ MODULE Pricing ------------------------------
(***************************************************************************)
(* src/domain/pricing.py: MRP is tax-inclusive, money is integer paise, a  *)
(* quantity is a number of thousandths (NUMERIC(12, 3)), a GST slab is a   *)
(* whole percentage.  Decimal division followed by ROUND_HALF_UP is exact  *)
(* here: a quotient of these integers that is not a tie is farther from    *)
(* every tie than the 28 digits of a Decimal can blur.                     *)
(***************************************************************************)
EXTENDS Integers

GstSlabs == {0, 5, 12, 18}
Milli == 1000          \* thousandths in one unit
PaisePerRupee == 100

\* n / d rounded to the nearest integer, ties upward, for n >= 0 and d > 0
RoundHalfUp(n, d) == (2 * n + d) \div (2 * d)

\* (mutant) GST on top of MRP.
UnitTaxOnTop(mrp, slab) ==
  LET taxable == RoundHalfUp((100 + slab) * mrp, 100)
      gst     == mrp - taxable
      cgst    == RoundHalfUp(gst, 2)
  IN  [taxable |-> taxable, gst |-> gst, cgst |-> cgst, sgst |-> gst - cgst]

UnitTax(mrp, slab) ==
  LET taxable == IF slab = 0 THEN mrp ELSE RoundHalfUp(100 * mrp, 100 + slab)
      gst     == mrp - taxable
      cgst    == RoundHalfUp(gst, 2)
  IN  [taxable |-> taxable, gst |-> gst, cgst |-> cgst, sgst |-> gst - cgst]

\* (mutant) The tax is charged again on each unit.
PackagedTaxedTwice(mrp, units, slab) ==
  LET unit == UnitTax(mrp, slab)
  IN  [total   |-> (mrp + unit.gst) * units,
       taxable |-> unit.taxable * units,
       gst     |-> unit.gst * units,
       cgst    |-> unit.cgst * units,
       sgst    |-> unit.sgst * units]

\* A packaged Line sells whole units: every amount of the unit, times them.
PackagedLine(mrp, units, slab) ==
  LET unit == UnitTax(mrp, slab)
  IN  [total   |-> mrp * units,
       taxable |-> unit.taxable * units,
       gst     |-> unit.gst * units,
       cgst    |-> unit.cgst * units,
       sgst    |-> unit.sgst * units]

\* (mutant) The total is rounded apart from its parts.
LooseRoundedTotal(mrp, milli, slab) ==
  LET unit    == UnitTax(mrp, slab)
      taxable == RoundHalfUp(unit.taxable * milli, Milli)
      gst     == RoundHalfUp(unit.gst * milli, Milli)
      cgst    == RoundHalfUp(gst, 2)
  IN  [total   |-> RoundHalfUp(mrp * milli, Milli),
       taxable |-> taxable,
       gst     |-> gst,
       cgst    |-> cgst,
       sgst    |-> gst - cgst]

\* (mutant) Both halves of the tax are rounded up.
LooseHalvesRounded(mrp, milli, slab) ==
  LET unit    == UnitTax(mrp, slab)
      taxable == RoundHalfUp(unit.taxable * milli, Milli)
      gst     == RoundHalfUp(unit.gst * milli, Milli)
      half    == RoundHalfUp(gst, 2)
  IN  [total |-> taxable + gst, taxable |-> taxable, gst |-> gst, cgst |-> half, sgst |-> half]

\* A loose Line rounds the taxable value and the tax of the Line, and its
\* total is their sum (not the rounded product of MRP and quantity).
LooseLine(mrp, milli, slab) ==
  LET unit    == UnitTax(mrp, slab)
      taxable == RoundHalfUp(unit.taxable * milli, Milli)
      gst     == RoundHalfUp(unit.gst * milli, Milli)
      cgst    == RoundHalfUp(gst, 2)
  IN  [total   |-> taxable + gst,
       taxable |-> taxable,
       gst     |-> gst,
       cgst    |-> cgst,
       sgst    |-> gst - cgst]

LinePricing(mrp, milli, slab, unitType) ==
  IF unitType = "packaged" THEN PackagedLine(mrp, milli \div Milli, slab)
  ELSE LooseLine(mrp, milli, slab)

\* compute_bill_totals: the sums over the Lines.
NoTotals == [subtotal |-> 0, taxable |-> 0, cgst |-> 0, sgst |-> 0]

AddLine(totals, line) ==
  [subtotal |-> totals.subtotal + line.total,
   taxable  |-> totals.taxable + line.taxable,
   cgst     |-> totals.cgst + line.cgst,
   sgst     |-> totals.sgst + line.sgst]

\* compute_bill_totals: what the Bill asks the customer to pay.
RoundedTotal(subtotal) == RoundHalfUp(subtotal, PaisePerRupee) * PaisePerRupee
RoundOff(subtotal) == RoundedTotal(subtotal) - subtotal
=============================================================================
