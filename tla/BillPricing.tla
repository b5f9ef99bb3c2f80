---------------------------- MODULE BillPricing ----------------------------
(***************************************************************************)
(* finalize_bill prices its Draft Bill Line by Line (compute_line_pricing) *)
(* and adds the Lines up (compute_bill_totals).                            *)
(***************************************************************************)
EXTENDS Pricing, Sums, Sequences

CONSTANTS Mrps,         \* mrp_paise of the Products
          Quantities,   \* quantities in thousandths
          MaxLines      \* bound: Lines of the Bill

ASSUME BillPricingAssumption ==
  Mrps \subseteq Nat /\ Quantities \subseteq Nat /\ MaxLines \in Nat

VARIABLES lines,    \* the Lines that have been priced: what went in
          totals    \* compute_bill_totals of them

pricingVars == <<lines, totals>>

LineInputs ==
  [mrp: Mrps, milli: {q \in Quantities : q % Milli = 0}, slab: GstSlabs,
   unitType: {"packaged"}]
    \cup [mrp: Mrps, milli: Quantities, slab: GstSlabs, unitType: {"loose"}]

Priced(line) == LinePricing(line.mrp, line.milli, line.slab, line.unitType)

PriceLine(line) ==
  /\ Len(lines) < MaxLines
  /\ lines'  = Append(lines, line)
  /\ totals' = AddLine(totals, Priced(line))

\* (mutant) The row is that of the slab's last Line.
LastRows(bill) ==
  LET of(slab)   == {i \in DOMAIN bill : bill[i].slab = slab}
      last(slab) == Priced(bill[CHOOSE i \in of(slab) : \A j \in of(slab) : j <= i])
  IN  [slab \in {bill[i].slab : i \in DOMAIN bill} |->
         [taxable |-> last(slab).taxable, cgst |-> last(slab).cgst, sgst |-> last(slab).sgst]]

\* The invoice PDF: a row per slab, to which the slab's Lines are added.
TaxBreakup(bill) ==
  LET of(slab) == {i \in DOMAIN bill : bill[i].slab = slab}
      sum(slab, column) == SumIn([i \in DOMAIN bill |-> Priced(bill[i])[column]], of(slab))
  IN  [slab \in {bill[i].slab : i \in DOMAIN bill} |->
         [taxable |-> sum(slab, "taxable"), cgst |-> sum(slab, "cgst"), sgst |-> sum(slab, "sgst")]]

PricingInit == lines = <<>> /\ totals = NoTotals
PricingNext == \E line \in LineInputs : PriceLine(line)
PricingSpec == PricingInit /\ [][PricingNext]_pricingVars

-----------------------------------------------------------------------------
\* The totals are whole paise.
AmountsTyped ==
  /\ lines \in Seq(LineInputs) /\ Len(lines) <= MaxLines
  /\ totals \in [subtotal: Nat, taxable: Nat, cgst: Nat, sgst: Nat]

\* The tax invoice adds up although every amount on it was rounded on its own,
\* by a different rule for packaged and for loose Products: taxable value plus
\* CGST plus SGST is the subtotal, and the round-off takes it to the nearest
\* rupee, half a rupee upward.
InvoiceAddsUp ==
  /\ totals.subtotal = totals.taxable + totals.cgst + totals.sgst
  /\ RoundedTotal(totals.subtotal) = totals.subtotal + RoundOff(totals.subtotal)
  /\ RoundedTotal(totals.subtotal) % PaisePerRupee = 0
  /\ RoundOff(totals.subtotal) \in -49..50

\* MRP is tax-inclusive: the customer pays the MRP of every unit.  A packaged
\* Line is exact; a loose one, whose total is the sum of two rounded parts, is
\* never more than one paisa off MRP times quantity.
MrpIsTaxInclusive ==
  \A i \in 1..Len(lines) :
    LET line == lines[i]
        off  == Milli * Priced(line).total - line.mrp * line.milli
    IN  IF line.unitType = "packaged" THEN off = 0 ELSE off \in -Milli..Milli

\* CGST and SGST are the two halves of the tax: they differ by at most the odd
\* paisa, once for each packaged unit or once for a loose Line, never in
\* favour of SGST.
TaxIsHalved ==
  \A i \in 1..Len(lines) :
    LET line  == lines[i]
        price == Priced(line)
        odd   == IF line.unitType = "packaged" THEN line.milli \div Milli ELSE 1
    IN  price.gst = price.cgst + price.sgst /\ price.cgst - price.sgst \in 0..odd

\* The invoice PDF adds up its tax breakup from the Lines again: the rows of the
\* slabs agree with the totals stored with the Bill, every slab's amounts are
\* inclusive of each other, and a slab without tax shows none.
BreakupMatchesBill ==
  LET rows == TaxBreakup(lines)
      sum(column) == SumIn([slab \in DOMAIN rows |-> rows[slab][column]], DOMAIN rows)
  IN  /\ sum("taxable") = totals.taxable
      /\ sum("cgst") = totals.cgst
      /\ sum("sgst") = totals.sgst
      /\ \A slab \in DOMAIN rows : rows[slab].cgst >= rows[slab].sgst
      /\ 0 \in DOMAIN rows => rows[0].cgst = 0 /\ rows[0].sgst = 0

=============================================================================
