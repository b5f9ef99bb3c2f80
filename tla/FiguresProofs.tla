--------------------------- MODULE FiguresProofs ---------------------------
(***************************************************************************)
(* Theorems about the figures.  Part 1, BillPricing: the amounts of one    *)
(* Bill, for every MRP, quantity and number of Lines.  Part 2, Reports:    *)
(* the reports on the Bills, for every calendar and any number of Bills    *)
(* and tills.                                                              *)
(***************************************************************************)
EXTENDS Reports, BillPricing, OperatorProofs, SequenceTheorems

-----------------------------------------------------------------------------
(* Part 1: the amounts of a Bill *)

\* Every Line finalize_bill can price has the properties of its kind.
LEMMA PricedLine ==
  ASSUME NEW line \in LineInputs
  PROVE  /\ Priced(line).total \in Nat /\ Priced(line).taxable \in Nat
         /\ Priced(line).cgst \in Nat /\ Priced(line).sgst \in Nat
         /\ Priced(line).total = Priced(line).taxable + Priced(line).gst
         /\ Priced(line).gst = Priced(line).cgst + Priced(line).sgst
         /\ LET off == Milli * Priced(line).total - line.mrp * line.milli
             IN  IF line.unitType = "packaged" THEN off = 0 ELSE off \in -Milli..Milli
         /\ Priced(line).cgst - Priced(line).sgst
               \in 0..(IF line.unitType = "packaged" THEN line.milli \div Milli ELSE 1)
<1>1. line.mrp \in Nat /\ line.milli \in Nat /\ line.slab \in GstSlabs
  BY BillPricingAssumption DEF LineInputs
<1>2. CASE line.unitType = "packaged"
  <2>1. line.milli % Milli = 0
    BY <1>2 DEF LineInputs
  <2>2. line.milli \div Milli \in Nat /\ Milli * (line.milli \div Milli) = line.milli
    BY <1>1, <2>1 DEF Milli
  <2>3. Priced(line) = PackagedLine(line.mrp, line.milli \div Milli, line.slab)
    BY <1>2 DEF Priced, LinePricing
  <2>4. Milli * (line.mrp * (line.milli \div Milli)) = line.mrp * line.milli
    <3> DEFINE units == line.milli \div Milli
    <3>1. units \in Nat /\ line.milli = Milli * units
      BY <2>2
    <3> HIDE DEF units
    <3>2. Milli * (line.mrp * units) = line.mrp * (Milli * units)
      BY <1>1, <3>1 DEF Milli
    <3>. QED
      BY <3>1, <3>2 DEF units
  <2>5. Milli * PackagedLine(line.mrp, line.milli \div Milli, line.slab).total
           - line.mrp * line.milli = 0
    <3>1. PackagedLine(line.mrp, line.milli \div Milli, line.slab).total
            = line.mrp * (line.milli \div Milli)
      BY <1>1, <2>2, PackagedLineParts
    <3>2. line.mrp * line.milli \in Nat
      BY <1>1
    <3>. QED
      BY <3>1, <3>2, <2>4
  <2> DEFINE l == PackagedLine(line.mrp, line.milli \div Milli, line.slab)
  <2>6. /\ l.total \in Nat /\ l.taxable \in Nat /\ l.cgst \in Nat /\ l.sgst \in Nat
        /\ l.total = l.taxable + l.gst /\ l.gst = l.cgst + l.sgst
        /\ l.cgst - l.sgst \in 0..(line.milli \div Milli)
    BY <1>1, <2>2, PackagedLineParts
  <2>7. Priced(line) = l /\ Milli * l.total - line.mrp * line.milli = 0
    BY <2>3, <2>5
  <2> HIDE DEF l
  <2>. QED
    BY <1>2, <2>6, <2>7
<1>3. CASE line.unitType # "packaged"
  <2> DEFINE l == LooseLine(line.mrp, line.milli, line.slab)
  <2>1. Priced(line) = l
    BY <1>3 DEF Priced, LinePricing
  <2>2. /\ l.total \in Nat /\ l.taxable \in Nat /\ l.cgst \in Nat /\ l.sgst \in Nat
        /\ Milli * l.total - line.mrp * line.milli \in -Milli..Milli
        /\ l.total = l.taxable + l.gst /\ l.gst = l.cgst + l.sgst
        /\ l.cgst - l.sgst \in 0..1
    BY <1>1, LooseLineParts
  <2> HIDE DEF l
  <2>. QED
    BY <1>3, <2>1, <2>2
<1>. QED
  BY <1>2, <1>3

\* The sums stay whole paise and add up: the inductive invariant.
Adds == AmountsTyped /\ totals.subtotal = totals.taxable + totals.cgst + totals.sgst

LEMMA AddsInv == PricingSpec => []Adds
<1>1. PricingInit => Adds
  BY BillPricingAssumption DEF PricingInit, Adds, AmountsTyped, NoTotals
<1>2. Adds /\ [PricingNext]_pricingVars => Adds'
  <2> SUFFICES ASSUME Adds, [PricingNext]_pricingVars PROVE Adds'
    OBVIOUS
  <2>1. CASE PricingNext
    <3>1. PICK line \in LineInputs : PriceLine(line)
      BY <2>1 DEF PricingNext
    <3>2. /\ Priced(line).total \in Nat /\ Priced(line).taxable \in Nat
          /\ Priced(line).cgst \in Nat /\ Priced(line).sgst \in Nat
          /\ Priced(line).total = Priced(line).taxable + (Priced(line).cgst + Priced(line).sgst)
      BY PricedLine
    <3>3. lines' \in Seq(LineInputs) /\ Len(lines') <= MaxLines
      BY <3>1, BillPricingAssumption DEF Adds, AmountsTyped, PriceLine
    <3>4. totals' = [subtotal |-> totals.subtotal + Priced(line).total,
                     taxable  |-> totals.taxable + Priced(line).taxable,
                     cgst     |-> totals.cgst + Priced(line).cgst,
                     sgst     |-> totals.sgst + Priced(line).sgst]
      BY <3>1 DEF PriceLine, AddLine
    <3>5. /\ totals \in [subtotal: Nat, taxable: Nat, cgst: Nat, sgst: Nat]
          /\ totals.subtotal = totals.taxable + totals.cgst + totals.sgst
      BY DEF Adds, AmountsTyped
    <3>6. /\ totals' \in [subtotal: Nat, taxable: Nat, cgst: Nat, sgst: Nat]
          /\ totals'.subtotal = totals'.taxable + totals'.cgst + totals'.sgst
      BY <3>2, <3>4, <3>5
    <3>. QED
      BY <3>3, <3>6 DEF Adds, AmountsTyped
  <2>2. CASE UNCHANGED pricingVars
    BY <2>2 DEF Adds, AmountsTyped, pricingVars
  <2>. QED
    BY <2>1, <2>2
<1>. QED
  BY <1>1, <1>2, PTL DEF PricingSpec

\* Every Bill's taxable value, CGST and SGST add up to its subtotal, which the
\* round-off takes to the nearest rupee.
THEOREM InvoiceAlwaysAddsUp == PricingSpec => []InvoiceAddsUp
<1>1. Adds => InvoiceAddsUp
  BY RoundOffBounds DEF Adds, AmountsTyped, InvoiceAddsUp
<1>. QED
  BY <1>1, AddsInv, PTL

\* No Line charges more than a paisa over or under MRP times quantity.
THEOREM MrpIsAlwaysInclusive == PricingSpec => []MrpIsTaxInclusive
<1>1. Adds => MrpIsTaxInclusive
  BY PricedLine DEF Adds, AmountsTyped, MrpIsTaxInclusive
<1>. QED
  BY <1>1, AddsInv, PTL

\* CGST and SGST are the halves of every Line's tax.
THEOREM TaxIsAlwaysHalved == PricingSpec => []TaxIsHalved
<1>1. Adds => TaxIsHalved
  BY PricedLine DEF Adds, AmountsTyped, TaxIsHalved
<1>. QED
  BY <1>1, AddsInv, PTL

\* The stored amounts of a Bill are whole paise.
THEOREM AmountsAlwaysTyped == PricingSpec => []AmountsTyped
<1>1. Adds => AmountsTyped
  BY DEF Adds
<1>. QED
  BY <1>1, AddsInv, PTL

-----------------------------------------------------------------------------
\* The amounts of one column of a Bill, Line by Line, and a slab's share of it.
Column(bill, column) == [i \in DOMAIN bill |-> Priced(bill[i])[column]]
OfSlab(bill, slab)   == {i \in DOMAIN bill : bill[i].slab = slab}
SlabsOf(bill)        == {bill[i].slab : i \in DOMAIN bill}
RowSum(bill, column, slab) == SumIn(Column(bill, column), OfSlab(bill, slab))

LEMMA BreakupRows ==
  ASSUME NEW bill
  PROVE  TaxBreakup(bill) =
           [slab \in SlabsOf(bill) |-> [taxable |-> RowSum(bill, "taxable", slab),
                                        cgst |-> RowSum(bill, "cgst", slab),
                                        sgst |-> RowSum(bill, "sgst", slab)]]
BY DEF TaxBreakup, SlabsOf, RowSum, OfSlab, Column

LEMMA ColumnTyped ==
  ASSUME NEW bill \in Seq(LineInputs), NEW column \in {"taxable", "cgst", "sgst"}
  PROVE  /\ DOMAIN bill = 1..Len(bill) /\ Len(bill) \in Nat /\ IsFiniteSet(DOMAIN bill)
         /\ \A i \in DOMAIN bill : Column(bill, column)[i] \in Nat
         /\ IsFiniteSet(SlabsOf(bill)) /\ SlabsOf(bill) \subseteq GstSlabs
<1>1. DOMAIN bill = 1..Len(bill) /\ Len(bill) \in Nat /\ \A i \in DOMAIN bill : bill[i] \in LineInputs
  OBVIOUS
<1>2. IsFiniteSet(1..Len(bill))
  BY <1>1, FS_Interval
<1>3. ASSUME NEW i \in DOMAIN bill
      PROVE  Column(bill, column)[i] \in Nat
  <2>1. bill[i] \in LineInputs
    BY <1>1
  <2>2. /\ Priced(bill[i]).taxable \in Nat
        /\ Priced(bill[i]).cgst \in Nat /\ Priced(bill[i]).sgst \in Nat
    BY <2>1, PricedLine
  <2>3. Column(bill, column)[i] = Priced(bill[i])[column]
    BY DEF Column
  <2> QED
    BY <2>2, <2>3
<1>4. SlabsOf(bill) \subseteq GstSlabs
  BY <1>1 DEF SlabsOf, LineInputs
<1>5. IsFiniteSet(GstSlabs)
  <2>1. GstSlabs \subseteq 0..18
    BY DEF GstSlabs
  <2>2. IsFiniteSet(0..18)
    BY FS_Interval, 0 \in Int, 18 \in Int
  <2> QED
    BY <2>1, <2>2, FS_Subset
<1>6. IsFiniteSet(SlabsOf(bill))
  BY <1>4, <1>5, FS_Subset
<1> QED
  BY <1>1, <1>2, <1>3, <1>4, <1>6

\* The rows of the breakup add up to the Lines.
LEMMA RowsAddUp ==
  ASSUME NEW bill \in Seq(LineInputs), NEW column \in {"taxable", "cgst", "sgst"}
  PROVE  SumIn([slab \in SlabsOf(bill) |-> RowSum(bill, column, slab)], SlabsOf(bill))
           = SumIn(Column(bill, column), DOMAIN bill)
<1> DEFINE f == Column(bill, column)
           S == DOMAIN bill
           K == SlabsOf(bill)
           class == [i \in S |-> bill[i].slab]
<1>1. IsFiniteSet(S) /\ IsFiniteSet(K) /\ \A i \in S : f[i] \in Int
  BY ColumnTyped
<1>2. \A i \in S : class[i] \in K
  BY DEF SlabsOf
<1>3. \A k \in K : {i \in S : class[i] = k} = OfSlab(bill, k)
  BY DEF OfSlab
<1>4. [k \in K |-> SumIn(f, {i \in S : class[i] = k})] = [k \in K |-> RowSum(bill, column, k)]
  BY <1>3 DEF RowSum
<1> HIDE DEF f, S, K, class
<1>5. SumIn([k \in K |-> SumIn(f, {i \in S : class[i] = k})], K) = SumIn(f, S)
  BY <1>1, <1>2, SumInPartition
<1>6. SumIn([k \in K |-> RowSum(bill, column, k)], K) = SumIn(f, S)
  BY <1>4, <1>5
<1> QED
  BY <1>6 DEF f, S, K

\* A Line more adds its amounts.
LEMMA ColumnLonger ==
  ASSUME NEW bill \in Seq(LineInputs), NEW line \in LineInputs,
         NEW column \in {"taxable", "cgst", "sgst"}
  PROVE  SumIn(Column(Append(bill, line), column), DOMAIN Append(bill, line))
           = SumIn(Column(bill, column), DOMAIN bill) + Priced(line)[column]
<1> DEFINE longer == Append(bill, line)
           n == Len(bill)
           g == Column(longer, column)
           f == Column(bill, column)
<1>1. /\ longer \in Seq(LineInputs) /\ DOMAIN longer = 1..(n + 1) /\ n \in Nat
      /\ DOMAIN bill = 1..n /\ longer[n + 1] = line /\ \A i \in 1..n : longer[i] = bill[i]
  OBVIOUS
<1>2. \A i \in DOMAIN longer : g[i] \in Nat
  BY <1>1, ColumnTyped
<1>3. (\A i \in DOMAIN bill : f[i] \in Nat) /\ IsFiniteSet(1..n)
  BY <1>1, ColumnTyped
<1>4. g[n + 1] = Priced(line)[column] /\ \A i \in 1..n : g[i] = f[i]
  BY <1>1 DEF Column
<1> HIDE DEF longer, n, g, f
<1>5. 1..(n + 1) = (1..n) \cup {n + 1} /\ n + 1 \notin 1..n
  BY <1>1
<1>6. g[n + 1] \in Int /\ \A i \in 1..n : g[i] \in Int /\ f[i] \in Int
  BY <1>1, <1>2, <1>3
<1>7. SumIn(g, (1..n) \cup {n + 1}) = g[n + 1] + SumIn(g, 1..n)
  BY <1>3, <1>5, <1>6, SumInAdd
<1>8. SumIn(g, 1..n) = SumIn(f, 1..n)
  BY <1>3, <1>4, <1>6, SumInSame
<1>9. SumIn(f, 1..n) \in Int
  BY <1>3, <1>6, SumInTyped
<1>10. SumIn(g, DOMAIN longer) = SumIn(f, DOMAIN bill) + Priced(line)[column]
  <2> DEFINE p == g[n + 1]
             a == SumIn(f, 1..n)
  <2>1. p \in Int /\ a \in Int /\ p = Priced(line)[column]
    BY <1>4, <1>6, <1>9
  <2>2. SumIn(g, DOMAIN longer) = p + a
    BY <1>1, <1>5, <1>7, <1>8
  <2>3. SumIn(f, DOMAIN bill) = a
    BY <1>1
  <2> HIDE DEF p, a
  <2>4. p + a = a + p
    BY <2>1
  <2> QED
    BY <2>1, <2>2, <2>3, <2>4
<1> QED
  BY <1>10 DEF longer, g, f

\* The stored totals are the sums of the columns.
ColumnsAdded ==
  /\ totals.taxable = SumIn(Column(lines, "taxable"), DOMAIN lines)
  /\ totals.cgst = SumIn(Column(lines, "cgst"), DOMAIN lines)
  /\ totals.sgst = SumIn(Column(lines, "sgst"), DOMAIN lines)

LEMMA ColumnsInv == PricingSpec => []ColumnsAdded
<1>1. PricingInit => ColumnsAdded
  <2> SUFFICES ASSUME PricingInit PROVE ColumnsAdded
    OBVIOUS
  <2>1. DOMAIN lines = {} /\ totals.taxable = 0 /\ totals.cgst = 0 /\ totals.sgst = 0
    BY DEF PricingInit, NoTotals
  <2> QED
    BY <2>1, SumInEmpty DEF ColumnsAdded
<1>2. Adds /\ ColumnsAdded /\ [PricingNext]_pricingVars => ColumnsAdded'
  <2> SUFFICES ASSUME Adds, ColumnsAdded, [PricingNext]_pricingVars PROVE ColumnsAdded'
    OBVIOUS
  <2>1. CASE PricingNext
    <3>1. PICK line \in LineInputs : PriceLine(line)
      BY <2>1 DEF PricingNext
    <3>2. lines \in Seq(LineInputs) /\ lines' = Append(lines, line)
      BY <3>1 DEF PriceLine, Adds, AmountsTyped
    <3>3. /\ totals'.taxable = totals.taxable + Priced(line)["taxable"]
          /\ totals'.cgst = totals.cgst + Priced(line)["cgst"]
          /\ totals'.sgst = totals.sgst + Priced(line)["sgst"]
      BY <3>1 DEF PriceLine, AddLine
    <3>4. ASSUME NEW column \in {"taxable", "cgst", "sgst"}
          PROVE  SumIn(Column(lines', column), DOMAIN lines')
                   = SumIn(Column(lines, column), DOMAIN lines) + Priced(line)[column]
      BY <3>2, ColumnLonger
    <3> QED
      BY <3>3, <3>4 DEF ColumnsAdded
  <2>2. CASE UNCHANGED pricingVars
    BY <2>2 DEF ColumnsAdded, pricingVars
  <2> QED
    BY <2>1, <2>2
<1> QED
  BY <1>1, <1>2, AddsInv, PTL DEF PricingSpec

\* The Lines of a slab without tax show none.
LEMMA NoTaxInSlabZero ==
  ASSUME NEW line \in LineInputs, line.slab = 0
  PROVE  Priced(line).cgst = 0 /\ Priced(line).sgst = 0
<1>1. line.mrp \in Nat /\ line.milli \in Nat
  BY BillPricingAssumption DEF LineInputs
<1> DEFINE unit == UnitTax(line.mrp, 0)
<1>2. RoundHalfUp(0, 2) = 0 /\ RoundHalfUp(0, Milli) = 0
  BY DEF RoundHalfUp, Milli
<1>3. unit.gst = 0 /\ unit.cgst = 0 /\ unit.sgst = 0
  <2>1. line.mrp - line.mrp = 0
    BY <1>1
  <2> QED
    BY <1>2, <2>1 DEF UnitTax
<1> HIDE DEF unit
<1>4. CASE line.unitType = "packaged"
  <2> DEFINE units == line.milli \div Milli
  <2>1. units \in Nat
    BY <1>1 DEF Milli
  <2> HIDE DEF units
  <2>2. 0 * units = 0
    BY <2>1
  <2>3. PackagedLine(line.mrp, units, 0).cgst = 0 /\ PackagedLine(line.mrp, units, 0).sgst = 0
    BY <1>3, <2>2 DEF PackagedLine, unit
  <2> QED
    BY <1>4, <2>3 DEF Priced, LinePricing, units
<1>5. CASE line.unitType # "packaged"
  <2>1. 0 * line.milli = 0 /\ 0 - 0 = 0
    BY <1>1
  <2>2. LooseLine(line.mrp, line.milli, 0).cgst = 0 /\ LooseLine(line.mrp, line.milli, 0).sgst = 0
    BY <1>2, <1>3, <2>1 DEF LooseLine, unit
  <2> QED
    BY <1>5, <2>2 DEF Priced, LinePricing
<1> QED
  BY <1>4, <1>5

LEMMA BreakupInside ==
  ASSUME Adds, ColumnsAdded
  PROVE  BreakupMatchesBill
<1> DEFINE rows == TaxBreakup(lines)
           K == SlabsOf(lines)
<1>1. lines \in Seq(LineInputs)
  BY DEF Adds, AmountsTyped
<1>2. /\ DOMAIN rows = K
      /\ \A slab \in K : /\ rows[slab]["taxable"] = RowSum(lines, "taxable", slab)
                         /\ rows[slab]["cgst"] = RowSum(lines, "cgst", slab)
                         /\ rows[slab]["sgst"] = RowSum(lines, "sgst", slab)
  BY BreakupRows
<1> HIDE DEF rows, K
<1>3. ASSUME NEW column \in {"taxable", "cgst", "sgst"}
      PROVE  SumIn([slab \in DOMAIN rows |-> rows[slab][column]], DOMAIN rows)
               = SumIn(Column(lines, column), DOMAIN lines)
  <2>1. [slab \in DOMAIN rows |-> rows[slab][column]]
          = [slab \in SlabsOf(lines) |-> RowSum(lines, column, slab)]
    BY <1>2 DEF K
  <2>2. DOMAIN rows = SlabsOf(lines)
    BY <1>2 DEF K
  <2> QED
    BY <1>1, <2>1, <2>2, RowsAddUp
<1>4. /\ SumIn([slab \in DOMAIN rows |-> rows[slab]["taxable"]], DOMAIN rows) = totals.taxable
      /\ SumIn([slab \in DOMAIN rows |-> rows[slab]["cgst"]], DOMAIN rows) = totals.cgst
      /\ SumIn([slab \in DOMAIN rows |-> rows[slab]["sgst"]], DOMAIN rows) = totals.sgst
  BY <1>3 DEF ColumnsAdded
<1>5. ASSUME NEW slab \in K
      PROVE  rows[slab].cgst >= rows[slab].sgst
  <2> DEFINE S == OfSlab(lines, slab)
             f == Column(lines, "sgst")
             g == Column(lines, "cgst")
  <2>1. IsFiniteSet(S) /\ S \subseteq DOMAIN lines
    BY <1>1, ColumnTyped, FS_Subset DEF OfSlab
  <2>2. (\A i \in S : f[i] \in Int) /\ (\A i \in S : g[i] \in Int)
    BY <1>1, <2>1, ColumnTyped
  <2>3. ASSUME NEW i \in S
        PROVE  f[i] <= g[i]
    <3>1. lines[i] \in LineInputs /\ i \in DOMAIN lines
      BY <1>1, <2>1
    <3>2. /\ Priced(lines[i]).cgst \in Nat /\ Priced(lines[i]).sgst \in Nat
          /\ Priced(lines[i]).cgst - Priced(lines[i]).sgst >= 0
      <4>0. lines[i].milli \in Nat
        BY <3>1, BillPricingAssumption DEF LineInputs
      <4>1. lines[i].milli \div Milli \in Int
        BY <4>0 DEF Milli
      <4> QED
        BY <3>1, <4>1, PricedLine
    <3>3. f[i] = Priced(lines[i]).sgst /\ g[i] = Priced(lines[i]).cgst
      BY <3>1 DEF Column
    <3> QED
      BY <3>2, <3>3
  <2> HIDE DEF S, f, g
  <2>4. SumIn(f, S) <= SumIn(g, S) /\ SumIn(f, S) \in Int /\ SumIn(g, S) \in Int
    BY <2>1, <2>2, <2>3, SumInMonotone, SumInTyped
  <2>5. rows[slab].cgst = SumIn(g, S) /\ rows[slab].sgst = SumIn(f, S)
    BY <1>2 DEF RowSum, S, f, g
  <2> QED
    BY <2>4, <2>5
<1>6. ASSUME 0 \in K
      PROVE  rows[0].cgst = 0 /\ rows[0].sgst = 0
  <2> DEFINE S == OfSlab(lines, 0)
  <2>1. IsFiniteSet(S) /\ S \subseteq DOMAIN lines
    BY <1>1, ColumnTyped, FS_Subset DEF OfSlab
  <2>2. ASSUME NEW i \in S
        PROVE  Column(lines, "cgst")[i] = 0 /\ Column(lines, "sgst")[i] = 0
    <3>1. lines[i] \in LineInputs /\ lines[i].slab = 0 /\ i \in DOMAIN lines
      BY <1>1, <2>1 DEF OfSlab
    <3>2. Priced(lines[i]).cgst = 0 /\ Priced(lines[i]).sgst = 0
      BY <3>1, NoTaxInSlabZero
    <3> QED
      BY <3>1, <3>2 DEF Column
  <2> HIDE DEF S
  <2>3. SumIn(Column(lines, "cgst"), S) = 0 /\ SumIn(Column(lines, "sgst"), S) = 0
    BY <2>1, <2>2, SumInZero
  <2> QED
    BY <1>2, <1>6, <2>3 DEF RowSum, S
<1> QED
  BY <1>2, <1>4, <1>5, <1>6 DEF BreakupMatchesBill, rows

\* The tax breakup that the invoice PDF adds up again agrees with the totals
\* stored with the Bill, for any Lines (_tax_breakup_from_lines, compute_bill_totals).
THEOREM BreakupAlwaysMatches == PricingSpec => []BreakupMatchesBill
<1>1. Adds /\ ColumnsAdded => BreakupMatchesBill
  BY BreakupInside
<1> QED
  BY <1>1, AddsInv, ColumnsInv, PTL

-----------------------------------------------------------------------------
(* Part 2: reports.  The calendar *)

\* Division by a positive number.
LEMMA DivBounds ==
  ASSUME NEW a \in Nat, NEW n \in Nat \ {0}
  PROVE  a \div n \in Nat /\ n * (a \div n) <= a /\ a < n * (a \div n) + n
OBVIOUS

LEMMA TimesMonotone ==
  ASSUME NEW x \in Int, NEW y \in Int, NEW n \in Nat \ {0}, x + 1 <= y
  PROVE  n * x + n <= n * y
<1>1. PICK k \in Nat : y = x + 1 + k
  BY y - (x + 1) \in Nat
<1>2. n * y = n * x + n + n * k /\ n * k >= 0
  BY <1>1
<1> QED
  BY <1>2

\* The days of one number are those between its multiples.
LEMMA DivIs ==
  ASSUME NEW a \in Nat, NEW n \in Nat \ {0}, NEW d \in Int
  PROVE  a \div n = d <=> n * d <= a /\ a < n * d + n
<1> DEFINE q == a \div n
<1>1. q \in Nat /\ n * q <= a /\ a < n * q + n
  BY DivBounds
<1> HIDE DEF q
<1>2. n * q \in Int /\ n * d \in Int
  BY <1>1
<1>3. q + 1 <= d => n * q + n <= n * d
  BY <1>1, TimesMonotone
<1>4. d + 1 <= q => n * d + n <= n * q
  BY <1>1, TimesMonotone
<1>5. q = d <=> n * d <= a /\ a < n * d + n
  BY <1>1, <1>2, <1>3, <1>4
<1> QED
  BY <1>5 DEF q

\* The business date of a time, by the range of UTC it lies in.
LEMMA DateIsRange ==
  ASSUME NEW t \in Nat, NEW d \in Int
  PROVE  /\ BusinessDate(t) \in Nat
         /\ BusinessDate(t) = d <=> RangeStart(d) <= t /\ t < RangeEnd(d)
<1>1. SlotsPerDay \in Nat \ {0} /\ IstOffset \in Nat
  BY SalesFiguresAssumption
<1>2. t + IstOffset \in Nat
  BY <1>1
<1>3. BusinessDate(t) \in Nat
  BY <1>1, <1>2, DivBounds DEF BusinessDate
<1>4. BusinessDate(t) = d <=> SlotsPerDay * d <= t + IstOffset
                              /\ t + IstOffset < SlotsPerDay * d + SlotsPerDay
  BY <1>1, <1>2, DivIs DEF BusinessDate
<1>5. /\ RangeStart(d) = SlotsPerDay * d - IstOffset
      /\ RangeEnd(d) = SlotsPerDay * d + SlotsPerDay - IstOffset
      /\ SlotsPerDay * d \in Int
  BY <1>1 DEF RangeStart, RangeEnd
<1> QED
  BY <1>1, <1>3, <1>4, <1>5

\* The date never goes back.
LEMMA DateMonotone ==
  ASSUME NEW t \in Nat
  PROVE  BusinessDate(t + 1) >= BusinessDate(t)
<1> DEFINE q == BusinessDate(t)
           r == BusinessDate(t + 1)
<1>1. /\ SlotsPerDay \in Nat \ {0} /\ IstOffset \in Nat
      /\ q \in Nat /\ r \in Nat
  BY SalesFiguresAssumption, DateIsRange
<1>2. /\ SlotsPerDay * q <= t + IstOffset
      /\ t + 1 + IstOffset < SlotsPerDay * r + SlotsPerDay
  BY <1>1, DivBounds DEF BusinessDate
<1> HIDE DEF q, r
<1>3. SlotsPerDay * q \in Int /\ SlotsPerDay * r \in Int
  BY <1>1
<1>4. r + 1 <= q => SlotsPerDay * r + SlotsPerDay <= SlotsPerDay * q
  BY <1>1, TimesMonotone
<1>5. r >= q
  BY <1>1, <1>2, <1>3, <1>4
<1> QED
  BY <1>5 DEF q, r

-----------------------------------------------------------------------------
(* The invariant *)

\* Times are times, and a till and a report are records of their shape.
Timed ==
  /\ now \in Nat
  /\ \A b \in bills : b.at \in Nat
  /\ DOMAIN till = Tills
  /\ \A t \in Tills : till[t] \in [sale: Sales \cup {NoSale}, begun: Nat]

Shaped ==
  /\ DOMAIN report = DOMAIN NoReport
  /\ report.last \in Int
  /\ report.kind = "close" => report.first = report.last /\ report.pc \in {"bills", "top", "done"}

\* No Bill of a settled day is on its way.
Settled ==
  report.settled => report.last < BusinessDate(now) /\ NoneInFlight(report.last)

FiguresFinal ==
  report.kind = "close" /\ report.settled /\ report.pc \in {"top", "done"} =>
    report.figures = DailySummary(report.last, bills)

TopFinal ==
  report.kind = "close" /\ report.settled /\ report.pc = "done" =>
    \A row \in Range(report.top) : row \in SalesReport(report.last, bills)

CloseInv == Timed /\ Shaped /\ Settled /\ FiguresFinal /\ TopFinal

-----------------------------------------------------------------------------
(* Bills and the clock *)

\* A Daily Close reads the Bills of its day.
LEMMA CloseWindow ==
  ASSUME Timed, Shaped, report.kind = "close"
  PROVE  Window = OnDay(report.last, bills)
<1>1. ASSUME NEW b \in bills
      PROVE  RangeStart(report.first) <= b.at /\ b.at < RangeEnd(report.last)
               <=> BusinessDate(b.at) = report.last
  BY <1>1, DateIsRange DEF Timed, Shaped
<1> QED
  BY <1>1 DEF Window, InRange, OnDay

\* Steps that do not read for a report: what is final stays so if the Bills of
\* its day do.
LEMMA ReportStays ==
  ASSUME CloseInv, Timed', UNCHANGED report, Settled',
         report.settled => OnDay(report.last, bills') = OnDay(report.last, bills)
  PROVE  CloseInv'
<1>1. Shaped'
  BY DEF CloseInv, Shaped
<1>2. FiguresFinal'
  BY DEF CloseInv, FiguresFinal, DailySummary
<1>3. TopFinal'
  BY DEF CloseInv, TopFinal, SalesReport
<1> QED
  BY <1>1, <1>2, <1>3 DEF CloseInv

LEMMA BeginStep ==
  ASSUME CloseInv, NEW t \in Tills, NEW sale \in Sales, BeginBill(t, sale)
  PROVE  CloseInv'
<1>1. till' = [till EXCEPT ![t] = [sale |-> sale, begun |-> now]]
      /\ now' = now /\ bills' = bills /\ report' = report
  BY DEF BeginBill
<1>2. Timed'
  BY <1>1 DEF CloseInv, Timed
<1>3. \A u \in Tills : till'[u] = IF u = t THEN [sale |-> sale, begun |-> now] ELSE till[u]
  BY <1>1 DEF CloseInv, Timed
<1>4. Settled'
  BY <1>1, <1>3 DEF CloseInv, Settled, NoneInFlight
<1> QED
  BY <1>1, <1>2, <1>4, ReportStays

LEMMA RollBackStep ==
  ASSUME CloseInv, NEW t \in Tills, RollBack(t)
  PROVE  CloseInv'
<1>1. till' = [till EXCEPT ![t] = Idle]
      /\ now' = now /\ bills' = bills /\ report' = report
  BY DEF RollBack
<1>2. Timed'
  BY <1>1 DEF CloseInv, Timed, Idle
<1>3. \A u \in Tills : till'[u] = IF u = t THEN Idle ELSE till[u]
  BY <1>1 DEF CloseInv, Timed
<1>4. Settled'
  BY <1>1, <1>3 DEF CloseInv, Settled, NoneInFlight
<1> QED
  BY <1>1, <1>2, <1>4, ReportStays

\* The Bill is dated on the day its transaction began.
LEMMA CommitStep ==
  ASSUME CloseInv, NEW t \in Tills, CommitBill(t)
  PROVE  CloseInv'
<1> DEFINE bill == BillOf(Cardinality(bills) + 1, till[t].begun, till[t].sale)
<1>1. /\ till' = [till EXCEPT ![t] = Idle] /\ till[t] # Idle
      /\ bills' = bills \cup {bill} /\ now' = now /\ report' = report
  BY DEF CommitBill, InsertBill
<1>2. bill.at = till[t].begun
  BY DEF BillOf
<1> HIDE DEF bill
<1>3. Timed'
  BY <1>1, <1>2 DEF CloseInv, Timed, Idle
<1>4. \A u \in Tills : till'[u] = IF u = t THEN Idle ELSE till[u]
  BY <1>1 DEF CloseInv, Timed
<1>5. Settled'
  BY <1>1, <1>4 DEF CloseInv, Settled, NoneInFlight
<1>6. report.settled => BusinessDate(bill.at) # report.last
  <2>1. report.settled => BusinessDate(bill.at) > report.last
    BY <1>1, <1>2 DEF CloseInv, Settled, NoneInFlight
  <2>2. BusinessDate(bill.at) \in Nat
    BY <1>2, DateIsRange, 0 \in Int DEF CloseInv, Timed
  <2> QED
    BY <2>1, <2>2 DEF CloseInv, Shaped
<1>7. report.settled => OnDay(report.last, bills') = OnDay(report.last, bills)
  BY <1>1, <1>6 DEF OnDay
<1> QED
  BY <1>1, <1>3, <1>5, <1>7, ReportStays

LEMMA TickStep ==
  ASSUME CloseInv, Tick
  PROVE  CloseInv'
<1>1. now' = now + 1 /\ bills' = bills /\ till' = till /\ report' = report
  BY DEF Tick
<1>2. Timed'
  BY <1>1 DEF CloseInv, Timed
<1>3. /\ BusinessDate(now') >= BusinessDate(now)
      /\ BusinessDate(now) \in Nat /\ BusinessDate(now') \in Nat
  BY <1>1, DateMonotone, DateIsRange, 0 \in Int DEF CloseInv, Timed
<1>4. Settled'
  BY <1>1, <1>3 DEF CloseInv, Settled, Shaped, NoneInFlight
<1> QED
  BY <1>1, <1>2, <1>4, ReportStays

-----------------------------------------------------------------------------
(* Reads *)

\* A report is begun.
LEMMA AskStep ==
  ASSUME CloseInv, NEW kind, NEW first \in Int, NEW last \in Int, NEW pc,
         Ask(kind, first, last, pc),
         pc \notin {"top", "done"},
         kind = "close" => first = last /\ pc = "bills"
  PROVE  CloseInv'
<1>1. /\ DOMAIN report' = DOMAIN NoReport
      /\ report'.kind = kind /\ report'.pc = pc /\ report'.first = first /\ report'.last = last
      /\ report'.settled = (last < Today /\ NoneInFlight(last))
      /\ now' = now /\ bills' = bills /\ till' = till
  BY DEF Ask, NoReport
<1>2. Timed'
  BY <1>1 DEF CloseInv, Timed
<1>3. Shaped'
  BY <1>1 DEF Shaped
<1>4. Settled'
  BY <1>1 DEF Settled, NoneInFlight, Today
<1>5. FiguresFinal' /\ TopFinal'
  BY <1>1 DEF FiguresFinal, TopFinal
<1> QED
  BY <1>2, <1>3, <1>4, <1>5 DEF CloseInv

\* What a read leaves alone.
SameReport ==
  /\ DOMAIN report' = DOMAIN report
  /\ report'.kind = report.kind /\ report'.settled = report.settled
  /\ report'.first = report.first /\ report'.last = report.last
  /\ UNCHANGED <<now, stock, bills, till>>

\* A read of another kind of report.
LEMMA OtherReadStep ==
  ASSUME CloseInv, SameReport, report.kind # "close"
  PROVE  CloseInv'
<1>1. Timed' /\ Shaped'
  BY DEF CloseInv, Timed, Shaped, SameReport
<1>2. Settled'
  BY DEF CloseInv, Settled, SameReport, NoneInFlight
<1>3. FiguresFinal' /\ TopFinal'
  BY DEF FiguresFinal, TopFinal, SameReport
<1> QED
  BY <1>1, <1>2, <1>3 DEF CloseInv

LEMMA LoadBillsStep ==
  ASSUME CloseInv, LoadBills
  PROVE  CloseInv'
<1>1. SameReport /\ report'.pc = "top" /\ report'.figures = Figures(Window)
  BY DEF CloseInv, Shaped, NoReport, LoadBills, Read, SameReport
<1>2. CASE report.kind # "close"
  BY <1>1, <1>2, OtherReadStep
<1>3. CASE report.kind = "close"
  <2>1. Timed' /\ Shaped' /\ TopFinal'
    BY <1>1, <1>3 DEF CloseInv, Timed, Shaped, TopFinal, SameReport
  <2>2. Settled'
    BY <1>1 DEF CloseInv, Settled, SameReport, NoneInFlight
  <2>3. Window = OnDay(report.last, bills)
    BY <1>3, CloseWindow DEF CloseInv
  <2>4. FiguresFinal'
    BY <1>1, <2>3 DEF FiguresFinal, DailySummary, SameReport
  <2> QED
    BY <2>1, <2>2, <2>4 DEF CloseInv
<1> QED
  BY <1>2, <1>3

LEMMA LoadTopStep ==
  ASSUME CloseInv, LoadTop
  PROVE  CloseInv'
<1>1. PICK top \in TopRows(Window, "revenue") :
        SameReport /\ report.pc = "top" /\ report'.pc \in {"window", "done"}
        /\ (report.kind = "close" => report'.pc = "done")
        /\ report'.top = top /\ report'.figures = report.figures
  BY DEF CloseInv, Shaped, NoReport, LoadTop, Read, SameReport
<1>2. CASE report.kind # "close"
  BY <1>1, <1>2, OtherReadStep
<1>3. CASE report.kind = "close"
  <2>1. Timed' /\ Shaped'
    BY <1>1, <1>3 DEF CloseInv, Timed, Shaped, SameReport
  <2>2. Settled'
    BY <1>1 DEF CloseInv, Settled, SameReport, NoneInFlight
  <2>3. FiguresFinal'
    BY <1>1, <1>3 DEF CloseInv, FiguresFinal, SameReport
  <2>4. \A row \in Range(top) : row \in ProductRows(Window)
    BY <1>1 DEF TopRows, Range
  <2>5. Window = OnDay(report.last, bills)
    BY <1>3, CloseWindow DEF CloseInv
  <2>6. TopFinal'
    BY <1>1, <2>4, <2>5 DEF TopFinal, SalesReport, SameReport
  <2> QED
    BY <2>1, <2>2, <2>3, <2>6 DEF CloseInv
<1> QED
  BY <1>2, <1>3

\* The statements that only a deck or a reorder report runs.
LEMMA LaterReadStep ==
  ASSUME CloseInv,
         StartTrend \/ LoadTrendDay \/ LoadSlabs \/ LoadTopByQuantity \/ LoadLowStock \/ LoadSold
  PROVE  CloseInv'
<1>1. report.pc \in {"window", "trend", "slabs", "topQty", "low", "sold"}
  BY DEF StartTrend, LoadTrendDay, LoadSlabs, LoadTopByQuantity, LoadLowStock, LoadSold, Read
<1>2. report.kind # "close"
  BY <1>1 DEF CloseInv, Shaped
<1>3. SameReport
  <2>1. CASE StartTrend
    BY <2>1 DEF CloseInv, Shaped, NoReport, SameReport, StartTrend
  <2>2. CASE LoadTrendDay
    BY <2>2 DEF CloseInv, Shaped, NoReport, SameReport, LoadTrendDay, Read
  <2>3. CASE LoadSlabs
    BY <2>3 DEF CloseInv, Shaped, NoReport, SameReport, LoadSlabs, Read
  <2>4. CASE LoadTopByQuantity
    BY <2>4 DEF CloseInv, Shaped, NoReport, SameReport, LoadTopByQuantity, Read
  <2>5. CASE LoadLowStock
    BY <2>5 DEF CloseInv, Shaped, NoReport, SameReport, LoadLowStock, Read
  <2>6. CASE LoadSold
    BY <2>6 DEF CloseInv, Shaped, NoReport, SameReport, LoadSold, Read
  <2> QED
    BY <2>1, <2>2, <2>3, <2>4, <2>5, <2>6
<1> QED
  BY <1>2, <1>3, OtherReadStep

-----------------------------------------------------------------------------
LEMMA CloseInit == Init => CloseInv
BY DEF Init, CloseInv, Timed, Shaped, Settled, FiguresFinal, TopFinal, NoReport, Idle

LEMMA CloseStep == CloseInv /\ [Next]_vars => CloseInv'
<1> SUFFICES ASSUME CloseInv, [Next]_vars PROVE CloseInv'
  OBVIOUS
<1>0. now \in Nat /\ Today \in Nat /\ FirstOfWindow(Today) \in Int
  <2>1. now \in Nat /\ Today \in Nat
    BY DateIsRange, 0 \in Int DEF CloseInv, Timed, Today
  <2> QED
    BY <2>1, SalesFiguresAssumption DEF FirstOfWindow
<1>1. CASE UNCHANGED vars
  <2>1. Timed' /\ Settled' /\ bills' = bills /\ report' = report
    BY <1>1 DEF vars, CloseInv, Timed, Settled, NoneInFlight
  <2> QED
    BY <2>1, ReportStays
<1>2. ASSUME NEW t \in Tills, NEW sale \in Sales, BeginBill(t, sale)
      PROVE  CloseInv'
  BY <1>2, BeginStep
<1>3. ASSUME NEW t \in Tills, CommitBill(t) \/ RollBack(t)
      PROVE  CloseInv'
  BY <1>3, CommitStep, RollBackStep
<1>4. CASE Tick
  BY <1>4, TickStep
<1>5. ASSUME NEW day \in 0..Today, AskDailyClose(day)
      PROVE  CloseInv'
  BY <1>0, <1>5, AskStep DEF AskDailyClose
<1>6. CASE AskWeekly
  BY <1>0, <1>6, AskStep DEF AskWeekly
<1>7. CASE AskDeck
  BY <1>0, <1>7, AskStep DEF AskDeck
<1>8. CASE AskReorder
  BY <1>0, <1>8, AskStep DEF AskReorder
<1>9. CASE LoadBills \/ LoadTop
  BY <1>9, LoadBillsStep, LoadTopStep
<1>10. CASE StartTrend \/ LoadTrendDay \/ LoadSlabs \/ LoadTopByQuantity \/ LoadLowStock
              \/ LoadSold
  BY <1>10, LaterReadStep
<1> QED
  BY <1>1, <1>2, <1>3, <1>4, <1>5, <1>6, <1>7, <1>8, <1>9, <1>10 DEF Next

\* docs/agents/analytics.md: asking for a Daily Close again returns the same
\* figures.  For any calendar, Products and number of concurrent Bills: a close
\* that was asked for when every finalize_bill of its day had ended agrees with
\* the view daily_summary at the time it is read, and ever after.
THEOREM DayCloseIsFinal == Spec => []DayCloseSettles
<1>1. CloseInv => DayCloseSettles
  BY DEF CloseInv, FiguresFinal, TopFinal, DayCloseSettles
<1> QED
  BY <1>1, CloseInit, CloseStep, PTL DEF Spec

-----------------------------------------------------------------------------
(* The figures of a set of Bills *)

\* What a row of bills is, whoever wrote it.
BillRow(b) ==
  /\ b.mode \in PaymentModes /\ b.qty \in [ProductIds -> Nat]
  /\ b.subtotal \in Nat /\ b.cgst \in Nat /\ b.sgst \in Nat /\ b.total \in Nat
  /\ b.roundOff \in Int /\ b.total = b.subtotal + b.roundOff
  /\ b.subtotal = SumIn([p \in ProductIds |-> Line(p, b.qty[p])["total"]], ProductIds)
  /\ b.cgst = SumIn([p \in ProductIds |-> Line(p, b.qty[p])["cgst"]], ProductIds)
  /\ b.sgst = SumIn([p \in ProductIds |-> Line(p, b.qty[p])["sgst"]], ProductIds)

BillSet(bs) == IsFiniteSet(bs) /\ \A b \in bs : BillRow(b)

LineColumns == {"total", "taxable", "cgst", "sgst"}

LEMMA ProductsFinite ==
  /\ IsFiniteSet(ProductIds) /\ NumProducts \in Nat
  /\ \A p \in ProductIds : Mrp[p] \in Nat /\ Slab[p] \in GstSlabs
<1>1. NumProducts \in Nat
  BY SalesFiguresAssumption
<1>2. IsFiniteSet(1..NumProducts)
  BY <1>1, FS_Interval
<1> QED
  BY <1>1, <1>2, SalesFiguresAssumption DEF ProductIds

LEMMA LineTyped ==
  ASSUME NEW p \in ProductIds, NEW units \in Nat, NEW column \in LineColumns
  PROVE  /\ Line(p, units)[column] \in Nat
         /\ units = 0 => Line(p, units)[column] = 0
<1>1. Mrp[p] \in Nat /\ Slab[p] \in GstSlabs
  BY ProductsFinite
<1> DEFINE l == PackagedLine(Mrp[p], units, Slab[p])
           u == UnitTax(Mrp[p], Slab[p])
<1>2. l.total \in Nat /\ l.taxable \in Nat /\ l.cgst \in Nat /\ l.sgst \in Nat
  BY <1>1, PackagedLineParts
<1>3. /\ l.total = Mrp[p] * units /\ l.taxable = u.taxable * units
      /\ l.cgst = u.cgst * units /\ l.sgst = u.sgst * units
  BY DEF PackagedLine
<1>4. u.taxable \in Nat /\ u.cgst \in Nat /\ u.sgst \in Nat
  BY <1>1, UnitTaxParts
<1>5. Line(p, units) = l
  BY DEF Line
<1> HIDE DEF l, u
<1>6. units = 0 => l.total = 0 /\ l.taxable = 0 /\ l.cgst = 0 /\ l.sgst = 0
  BY <1>1, <1>3, <1>4
<1> QED
  BY <1>2, <1>5, <1>6 DEF LineColumns

\* The row finalize_bill inserts.
LEMMA NewBillRow ==
  ASSUME NEW id, NEW at, NEW sale \in Sales
  PROVE  /\ BillRow(BillOf(id, at, sale))
         /\ BillOf(id, at, sale).id = id /\ BillOf(id, at, sale).at = at
         /\ BillOf(id, at, sale).qty = sale.qty
<1> DEFINE sold == {p \in ProductIds : sale.qty[p] > 0}
           some(column) == SumIn([p \in sold |-> Line(p, sale.qty[p])[column]], sold)
           all(column)  == SumIn([p \in ProductIds |-> Line(p, sale.qty[p])[column]], ProductIds)
           b == BillOf(id, at, sale)
<1>1. sale.mode \in PaymentModes /\ sale.qty \in [ProductIds -> Nat]
  BY ReportsAssumption
<1>2. IsFiniteSet(ProductIds) /\ sold \in SUBSET ProductIds /\ IsFiniteSet(sold)
  BY ProductsFinite, CardParts
<1>3. ASSUME NEW column \in LineColumns
      PROVE  all(column) \in Nat /\ some(column) = all(column)
  <2> DEFINE f == [p \in ProductIds |-> Line(p, sale.qty[p])[column]]
             g == [p \in sold |-> Line(p, sale.qty[p])[column]]
  <2>1. \A p \in ProductIds : sale.qty[p] \in Nat /\ f[p] = Line(p, sale.qty[p])[column]
    BY <1>1
  <2>2. \A p \in ProductIds : f[p] \in Nat /\ (sale.qty[p] = 0 => f[p] = 0)
    BY <2>1, LineTyped
  <2>3. \A p \in ProductIds \ sold : f[p] = 0
    BY <2>1, <2>2
  <2>4. \A p \in sold : g[p] = f[p]
    OBVIOUS
  <2>5. (\A p \in ProductIds : f[p] \in Int) /\ (\A p \in sold : f[p] \in Int)
    BY <2>2
  <2> HIDE DEF f, g, sold
  <2>6. SumIn(f, ProductIds) \in Nat
    BY <1>2, <2>2, SumInTyped
  <2>7. SumIn(f, sold) = SumIn(f, ProductIds)
    BY <1>2, <2>3, <2>5, SumInSupport
  <2>8. SumIn(g, sold) = SumIn(f, sold)
    BY <1>2, <2>4, <2>5, SumInSame
  <2> QED
    BY <2>6, <2>7, <2>8 DEF f, g
<1>4. /\ b.id = id /\ b.at = at /\ b.mode = sale.mode /\ b.qty = sale.qty
      /\ b.subtotal = some("total") /\ b.cgst = some("cgst") /\ b.sgst = some("sgst")
      /\ b.roundOff = RoundOff(some("total")) /\ b.total = RoundedTotal(some("total"))
  BY DEF BillOf
<1>5. all("total") \in Nat /\ all("cgst") \in Nat /\ all("sgst") \in Nat
      /\ some("total") = all("total") /\ some("cgst") = all("cgst") /\ some("sgst") = all("sgst")
  BY <1>3 DEF LineColumns
<1>6. b.subtotal = all("total") /\ b.cgst = all("cgst") /\ b.sgst = all("sgst")
  BY <1>4, <1>5
<1>7. /\ b.total \in Nat /\ b.roundOff \in Int /\ b.total = b.subtotal + b.roundOff
  BY <1>4, <1>5, RoundOffBounds
<1>8. /\ b.subtotal = SumIn([p \in ProductIds |-> Line(p, b.qty[p])["total"]], ProductIds)
      /\ b.cgst = SumIn([p \in ProductIds |-> Line(p, b.qty[p])["cgst"]], ProductIds)
      /\ b.sgst = SumIn([p \in ProductIds |-> Line(p, b.qty[p])["sgst"]], ProductIds)
  BY <1>4, <1>6
<1> HIDE DEF b, some, all
<1> QED
  BY <1>1, <1>4, <1>5, <1>6, <1>7, <1>8 DEF BillRow, b

-----------------------------------------------------------------------------
NatColumns == {"subtotal", "cgst", "sgst", "total"}

LEMMA AmountTyped ==
  ASSUME NEW b, BillRow(b)
  PROVE  /\ \A column \in NatColumns : b[column] \in Nat
         /\ b["roundOff"] \in Int /\ b["total"] = b["subtotal"] + b["roundOff"]
         /\ b.mode \in PaymentModes
<1>1. /\ b.subtotal \in Nat /\ b.cgst \in Nat /\ b.sgst \in Nat /\ b.total \in Nat
      /\ b.roundOff \in Int /\ b.total = b.subtotal + b.roundOff
      /\ b.mode \in PaymentModes
  BY DEF BillRow
<1> QED
  BY <1>1 DEF NatColumns

LEMMA TotalTyped ==
  ASSUME NEW bs, BillSet(bs)
  PROVE  /\ \A column \in NatColumns : Total(column, bs) \in Nat
         /\ Total("roundOff", bs) \in Int
<1>1. ASSUME NEW column \in NatColumns
      PROVE  Total(column, bs) \in Nat
  <2>1. \A b \in bs : [c \in bs |-> c[column]][b] \in Nat
    BY AmountTyped DEF BillSet
  <2> QED
    BY <2>1, SumInTyped DEF Total, BillSet
<1>2. Total("roundOff", bs) \in Int
  <2>1. \A b \in bs : [c \in bs |-> c["roundOff"]][b] \in Int
    BY AmountTyped DEF BillSet
  <2> QED
    BY <2>1, SumInTyped DEF Total, BillSet
<1> QED
  BY <1>1, <1>2

LEMMA PartOfBillSet ==
  ASSUME NEW bs, BillSet(bs), NEW cs \in SUBSET bs
  PROVE  BillSet(cs)
BY CardParts DEF BillSet

\* More Bills, larger figures.
LEMMA TotalGrows ==
  ASSUME NEW bs, BillSet(bs), NEW cs \in SUBSET bs, NEW column \in NatColumns
  PROVE  Total(column, cs) <= Total(column, bs)
<1> DEFINE f == [b \in bs |-> b[column]]
           g == [b \in cs |-> b[column]]
<1>1. IsFiniteSet(bs) /\ IsFiniteSet(cs) /\ \A b \in bs : f[b] \in Nat
  BY AmountTyped, CardParts DEF BillSet
<1>2. \A b \in cs : g[b] = f[b] /\ f[b] \in Int
  BY <1>1
<1> HIDE DEF f, g
<1>3. SumIn(f, cs) <= SumIn(f, bs)
  BY <1>1, SumInSubset
<1>4. SumIn(g, cs) = SumIn(f, cs)
  BY <1>1, <1>2, SumInSame
<1> QED
  BY <1>3, <1>4 DEF Total, f, g

\* A sum over a class of Bills, as the reports and the partition lemma write it.
LEMMA TotalOfPart ==
  ASSUME NEW bs, BillSet(bs), NEW cs \in SUBSET bs, NEW column \in NatColumns
  PROVE  Total(column, cs) = SumIn([b \in bs |-> b[column]], cs)
<1> DEFINE f == [b \in bs |-> b[column]]
           g == [b \in cs |-> b[column]]
<1>1. IsFiniteSet(cs) /\ \A b \in cs : f[b] \in Int /\ g[b] = f[b]
  BY AmountTyped, CardParts DEF BillSet
<1> HIDE DEF f, g
<1>2. SumIn(g, cs) = SumIn(f, cs)
  BY <1>1, SumInSame
<1> QED
  BY <1>2 DEF Total, f, g

LEMMA FourModes == IsFiniteSet(PaymentModes)
<1>1. IsFiniteSet({"cash"}) /\ IsFiniteSet({"upi"}) /\ IsFiniteSet({"card"}) /\ IsFiniteSet({"khata"})
  BY FS_Singleton
<1>2. PaymentModes = (({"cash"} \cup {"upi"}) \cup {"card"}) \cup {"khata"}
  BY DEF PaymentModes
<1> QED
  BY <1>1, <1>2, FS_Union

\* The payment mix adds up to the total.
LEMMA MixAddsUp ==
  ASSUME NEW bs, BillSet(bs)
  PROVE  SumIn(ModeSplit(bs), PaymentModes) = Total("total", bs)
<1> DEFINE f == [b \in bs |-> b["total"]]
           K == PaymentModes
           class == [b \in bs |-> b.mode]
           Of(k) == {b \in bs : class[b] = k}
<1>1. IsFiniteSet(bs) /\ IsFiniteSet(K) /\ \A b \in bs : f[b] \in Int /\ class[b] \in K
  BY FourModes, AmountTyped DEF BillSet, NatColumns
<1>2. ASSUME NEW k \in K
      PROVE  Total("total", {b \in bs : b.mode = k}) = SumIn(f, Of(k))
  <2>1. {b \in bs : b.mode = k} = Of(k) /\ {b \in bs : b.mode = k} \in SUBSET bs
    OBVIOUS
  <2> QED
    BY <2>1, TotalOfPart DEF NatColumns
<1>3. ModeSplit(bs) = [k \in K |-> SumIn(f, Of(k))]
  BY <1>2 DEF ModeSplit
<1> HIDE DEF f, K, class
<1>4. SumIn([k \in K |-> SumIn(f, Of(k))], K) = SumIn(f, bs)
  BY <1>1, SumInPartition
<1> QED
  BY <1>3, <1>4 DEF Total, f, K

\* Subtotal and round-off add up to the total.
LEMMA RoundOffAddsUp ==
  ASSUME NEW bs, BillSet(bs)
  PROVE  Total("total", bs) = Total("subtotal", bs) + Total("roundOff", bs)
<1> DEFINE h == [b \in bs |-> b["total"]]
           f == [b \in bs |-> b["subtotal"]]
           g == [b \in bs |-> b["roundOff"]]
<1>1. /\ IsFiniteSet(bs)
      /\ \A b \in bs : f[b] \in Int
      /\ \A b \in bs : g[b] \in Int
      /\ \A b \in bs : h[b] = f[b] + g[b]
  <2>1. IsFiniteSet(bs) /\ \A b \in bs : b["subtotal"] \in Nat
    BY AmountTyped DEF BillSet, NatColumns
  <2>2. \A b \in bs : b["roundOff"] \in Int /\ b["total"] = b["subtotal"] + b["roundOff"]
    BY AmountTyped DEF BillSet
  <2> QED
    BY <2>1, <2>2
<1> HIDE DEF f, g, h
<1>2. SumIn(h, bs) = SumIn(f, bs) + SumIn(g, bs)
  BY <1>1, SumInAdds
<1> QED
  BY <1>2 DEF Total, f, g, h

-----------------------------------------------------------------------------
(* The figures by Product *)

\* The Lines of a Bill of which the Bill carries the sums, and their names on it.
BillColumn(column) == IF column = "total" THEN "subtotal" ELSE column

LEMMA BillOfLines ==
  ASSUME NEW b, BillRow(b), NEW column \in {"total", "cgst", "sgst"}
  PROVE  /\ b.qty \in [ProductIds -> Nat]
         /\ b[BillColumn(column)] = SumIn([p \in ProductIds |-> Line(p, b.qty[p])[column]], ProductIds)
<1>1. /\ b.qty \in [ProductIds -> Nat]
      /\ b.subtotal = SumIn([p \in ProductIds |-> Line(p, b.qty[p])["total"]], ProductIds)
      /\ b.cgst = SumIn([p \in ProductIds |-> Line(p, b.qty[p])["cgst"]], ProductIds)
      /\ b.sgst = SumIn([p \in ProductIds |-> Line(p, b.qty[p])["sgst"]], ProductIds)
  BY DEF BillRow
<1> QED
  BY <1>1 DEF BillColumn

LEMMA QtyTyped ==
  ASSUME NEW b, BillRow(b), NEW p \in ProductIds
  PROVE  b.qty[p] \in Nat
<1>1. b.qty \in [ProductIds -> Nat]
  BY DEF BillRow
<1> QED
  BY <1>1

\* What is sold of a Product, and what its Lines add up to.
LEMMA ProductSums ==
  ASSUME NEW bs, BillSet(bs), NEW p \in ProductIds
  PROVE  /\ UnitsSold(p, bs) \in Nat
         /\ \A column \in LineColumns : LineSum(p, column, bs) \in Nat
         /\ UnitsSold(p, bs) = 0 => \A column \in LineColumns : LineSum(p, column, bs) = 0
<1> DEFINE q == [b \in bs |-> b.qty[p]]
<1>1. IsFiniteSet(bs) /\ \A b \in bs : b.qty[p] \in Nat /\ q[b] = b.qty[p]
  BY QtyTyped DEF BillSet
<1>2. UnitsSold(p, bs) = SumIn(q, bs)
  BY DEF UnitsSold
<1> HIDE DEF q
<1>3. \A b \in bs : q[b] \in Nat
  BY <1>1
<1>4. SumIn(q, bs) \in Nat
  BY <1>1, <1>3, SumInTyped
<1>5. ASSUME SumIn(q, bs) = 0, NEW b \in bs
      PROVE  b.qty[p] = 0
  <2>1. \A c \in bs : q[c] \in Int
    BY <1>3
  <2>2. SumIn(q, bs) = q[b] + SumIn(q, bs \ {b})
    BY <1>1, <2>1, SumInAny
  <2>3. bs \ {b} \in SUBSET bs
    OBVIOUS
  <2>4. SumIn(q, bs \ {b}) \in Nat
    BY <1>1, <1>3, <2>3, SumInSubset
  <2> QED
    BY <1>1, <1>3, <1>5, <2>2, <2>4
<1>6. ASSUME NEW column \in LineColumns
      PROVE  /\ LineSum(p, column, bs) \in Nat
             /\ SumIn(q, bs) = 0 => LineSum(p, column, bs) = 0
  <2> DEFINE f == [b \in bs |-> Line(p, b.qty[p])[column]]
  <2>1. \A b \in bs : f[b] \in Nat /\ (b.qty[p] = 0 => f[b] = 0)
    BY <1>1, LineTyped
  <2>2. LineSum(p, column, bs) = SumIn(f, bs)
    BY DEF LineSum
  <2> HIDE DEF f
  <2>3. SumIn(f, bs) \in Nat
    BY <1>1, <2>1, SumInTyped
  <2>4. SumIn(q, bs) = 0 => SumIn(f, bs) = 0
    BY <1>1, <1>5, <2>1, SumInZero
  <2> QED
    BY <2>2, <2>3, <2>4
<1> QED
  BY <1>2, <1>4, <1>6

\* More Bills, more units.
LEMMA UnitsGrow ==
  ASSUME NEW bs, BillSet(bs), NEW cs \in SUBSET bs, NEW p \in ProductIds
  PROVE  UnitsSold(p, cs) <= UnitsSold(p, bs)
<1> DEFINE f == [b \in bs |-> b.qty[p]]
           g == [b \in cs |-> b.qty[p]]
<1>1. IsFiniteSet(bs) /\ IsFiniteSet(cs) /\ \A b \in bs : f[b] \in Nat
  BY QtyTyped, CardParts DEF BillSet
<1>2. \A b \in cs : g[b] = f[b] /\ f[b] \in Int
  BY <1>1
<1> HIDE DEF f, g
<1>3. SumIn(f, cs) <= SumIn(f, bs)
  BY <1>1, SumInSubset
<1>4. SumIn(g, cs) = SumIn(f, cs)
  BY <1>1, <1>2, SumInSame
<1> QED
  BY <1>3, <1>4 DEF UnitsSold, f, g

\* One Bill more.
LEMMA UnitsAdd ==
  ASSUME NEW bs, BillSet(bs), NEW c, BillRow(c), c \notin bs, NEW p \in ProductIds
  PROVE  UnitsSold(p, bs \cup {c}) = UnitsSold(p, bs) + c.qty[p]
<1> DEFINE f == [b \in bs \cup {c} |-> b.qty[p]]
           g == [b \in bs |-> b.qty[p]]
<1>1. IsFiniteSet(bs) /\ (\A b \in bs : f[b] \in Nat /\ g[b] = f[b]) /\ f[c] = c.qty[p] /\ f[c] \in Nat
  BY QtyTyped DEF BillSet
<1>2. (\A b \in bs : f[b] \in Int) /\ f[c] \in Int /\ \A b \in bs : g[b] = f[b]
  BY <1>1
<1> HIDE DEF f, g
<1>3. SumIn(f, bs \cup {c}) = f[c] + SumIn(f, bs)
  BY <1>1, <1>2, SumInAdd
<1>4. SumIn(g, bs) = SumIn(f, bs)
  BY <1>1, <1>2, SumInSame
<1>5. SumIn(f, bs) \in Nat
  BY <1>1, SumInTyped
<1>6. SumIn(f, bs \cup {c}) = SumIn(g, bs) + c.qty[p]
  BY <1>1, <1>3, <1>4, <1>5
<1> QED
  BY <1>6 DEF UnitsSold, f, g

\* The sums by Product add up to the sums on the Bills.
LEMMA LinesAddUp ==
  ASSUME NEW bs, BillSet(bs), NEW column \in {"total", "cgst", "sgst"}
  PROVE  SumIn([p \in ProductIds |-> LineSum(p, column, bs)], ProductIds)
           = Total(BillColumn(column), bs)
<1> DEFINE f == [x \in ProductIds \X bs |-> Line(x[1], x[2].qty[x[1]])[column]]
<1>1. ASSUME NEW p \in ProductIds, NEW b \in bs
      PROVE  f[<<p, b>>] = Line(p, b.qty[p])[column] /\ f[<<p, b>>] \in Int
  <2>1. b.qty[p] \in Nat /\ column \in LineColumns
    BY QtyTyped DEF BillSet, LineColumns
  <2>2. Line(p, b.qty[p])[column] \in Nat
    BY <2>1, LineTyped
  <2> QED
    BY <2>2
<1>2. IsFiniteSet(ProductIds) /\ IsFiniteSet(bs)
  BY ProductsFinite DEF BillSet
<1> HIDE DEF f
<1>3. ASSUME NEW p \in ProductIds
      PROVE  LineSum(p, column, bs) = SumIn([b \in bs |-> f[<<p, b>>]], bs)
  <2>1. [b \in bs |-> Line(p, b.qty[p])[column]] = [b \in bs |-> f[<<p, b>>]]
    BY <1>1
  <2> QED
    BY <2>1 DEF LineSum
<1>4. ASSUME NEW b \in bs
      PROVE  b[BillColumn(column)] = SumIn([p \in ProductIds |-> f[<<p, b>>]], ProductIds)
  <2>1. [p \in ProductIds |-> Line(p, b.qty[p])[column]] = [p \in ProductIds |-> f[<<p, b>>]]
    BY <1>1
  <2>2. BillRow(b)
    BY DEF BillSet
  <2>3. b[BillColumn(column)] = SumIn([p \in ProductIds |-> Line(p, b.qty[p])[column]], ProductIds)
    BY <2>2, BillOfLines
  <2> QED
    BY <2>1, <2>3
<1>5. [p \in ProductIds |-> LineSum(p, column, bs)]
        = [p \in ProductIds |-> SumIn([b \in bs |-> f[<<p, b>>]], bs)]
  BY <1>3
<1>6. [b \in bs |-> b[BillColumn(column)]]
        = [b \in bs |-> SumIn([p \in ProductIds |-> f[<<p, b>>]], ProductIds)]
  BY <1>4
<1>7. SumIn([p \in ProductIds |-> SumIn([b \in bs |-> f[<<p, b>>]], bs)], ProductIds)
        = SumIn([b \in bs |-> SumIn([p \in ProductIds |-> f[<<p, b>>]], ProductIds)], bs)
  BY <1>1, <1>2, SumInSwap
<1> QED
  BY <1>5, <1>6, <1>7 DEF Total

\* The Products that are on a Line.
SoldProducts(bs) == {p \in ProductIds : UnitsSold(p, bs) > 0}

LEMMA SoldTyped ==
  ASSUME NEW bs, BillSet(bs)
  PROVE  /\ SoldProducts(bs) \in SUBSET ProductIds /\ IsFiniteSet(SoldProducts(bs))
         /\ \A p \in ProductIds \ SoldProducts(bs), column \in LineColumns : LineSum(p, column, bs) = 0
<1>1. SoldProducts(bs) \in SUBSET ProductIds
  BY DEF SoldProducts
<1>2. ASSUME NEW p \in ProductIds \ SoldProducts(bs)
      PROVE  UnitsSold(p, bs) = 0
  <2>1. UnitsSold(p, bs) \in Nat
    BY ProductSums
  <2> QED
    BY <2>1 DEF SoldProducts
<1> QED
  BY <1>1, <1>2, ProductSums, ProductsFinite, CardParts

\* The slabs of what was sold.
SoldSlabs(bs) == {Slab[p] : p \in SoldProducts(bs)}

SlabTotal(slab, column, bs) ==
  SumIn([p \in ProductIds |-> LineSum(p, column, bs)], {p \in ProductIds : Slab[p] = slab})

LEMMA SlabsFinite ==
  ASSUME NEW bs
  PROVE  IsFiniteSet(SoldSlabs(bs))
<1>1. IsFiniteSet(0..18)
  BY FS_Interval, 0 \in Int, 18 \in Int
<1>2. SoldSlabs(bs) \in SUBSET (0..18)
  BY ProductsFinite DEF SoldSlabs, SoldProducts, GstSlabs
<1> QED
  BY <1>1, <1>2, CardParts

\* A column of the Lines, slab by slab.
LEMMA SlabColumn ==
  ASSUME NEW bs, BillSet(bs), NEW column \in {"cgst", "sgst"}
  PROVE  /\ SumIn([slab \in SoldSlabs(bs) |-> SlabTotal(slab, column, bs)], SoldSlabs(bs))
              = Total(column, bs)
         /\ \A slab \in SoldSlabs(bs) : SlabTotal(slab, column, bs) \in Nat
<1> DEFINE f == [p \in ProductIds |-> LineSum(p, column, bs)]
           K == SoldSlabs(bs)
           T == {p \in ProductIds : Slab[p] \in K}
<1>1. column \in LineColumns /\ column \in {"total", "cgst", "sgst"} /\ BillColumn(column) = column
  BY DEF LineColumns, BillColumn
<1>2. \A p \in ProductIds : f[p] \in Nat /\ f[p] = LineSum(p, column, bs)
  BY <1>1, ProductSums
<1>3. IsFiniteSet(ProductIds) /\ T \in SUBSET ProductIds /\ IsFiniteSet(T) /\ IsFiniteSet(K)
  BY ProductsFinite, CardParts, SlabsFinite
<1>4. \A p \in ProductIds \ T : f[p] = 0
  <2>1. SoldProducts(bs) \subseteq T
    BY SoldTyped DEF SoldSlabs
  <2>2. \A p \in ProductIds \ T : p \in ProductIds \ SoldProducts(bs)
    BY <2>1
  <2> QED
    BY <1>1, <1>2, <2>2, SoldTyped
<1>5. \A p \in T : Slab[p] \in K
  OBVIOUS
<1>6. ASSUME NEW slab \in K
      PROVE  SlabTotal(slab, column, bs) = SumIn(f, {p \in T : Slab[p] = slab})
  <2>1. {p \in ProductIds : Slab[p] = slab} = {p \in T : Slab[p] = slab}
    OBVIOUS
  <2> QED
    BY <2>1 DEF SlabTotal
<1>7. SumIn(f, ProductIds) = Total(column, bs)
  BY <1>1, LinesAddUp
<1>8. [slab \in K |-> SlabTotal(slab, column, bs)]
        = [slab \in K |-> SumIn(f, {p \in T : Slab[p] = slab})]
  BY <1>6
<1> HIDE DEF f, K, T
<1>9. (\A p \in ProductIds : f[p] \in Int) /\ (\A p \in T : f[p] \in Int)
  BY <1>2, <1>3
<1>10. SumIn([slab \in K |-> SumIn(f, {p \in T : Slab[p] = slab})], K) = SumIn(f, T)
  BY <1>3, <1>5, <1>9, SumInPartition
<1>11. SumIn(f, T) = SumIn(f, ProductIds)
  BY <1>3, <1>4, <1>9, SumInSupport
<1>12. \A slab \in K : SlabTotal(slab, column, bs) \in Nat
  <2>1. ASSUME NEW slab \in K
        PROVE  SumIn(f, {p \in T : Slab[p] = slab}) \in Nat
    <3>1. {p \in T : Slab[p] = slab} \in SUBSET ProductIds
      BY <1>3
    <3> QED
      BY <1>2, <1>3, <3>1, SumInSubset
  <2> QED
    BY <1>6, <2>1
<1> QED
  BY <1>7, <1>8, <1>10, <1>11, <1>12 DEF K

\* The GST by slab adds up to the GST of the Bills.
LEMMA SlabsAddUp ==
  ASSUME NEW bs, BillSet(bs)
  PROVE  LET slabs == TaxBySlab(bs)
         IN  SumIn([slab \in DOMAIN slabs |-> slabs[slab].tax], DOMAIN slabs)
               = Total("cgst", bs) + Total("sgst", bs)
<1> DEFINE K == SoldSlabs(bs)
           f == [slab \in K |-> SlabTotal(slab, "cgst", bs)]
           g == [slab \in K |-> SlabTotal(slab, "sgst", bs)]
           h == [slab \in K |-> TaxBySlab(bs)[slab].tax]
<1>1. /\ DOMAIN TaxBySlab(bs) = K
      /\ \A slab \in K : TaxBySlab(bs)[slab].tax
                           = SlabTotal(slab, "cgst", bs) + SlabTotal(slab, "sgst", bs)
  BY DEF TaxBySlab, SoldSlabs, SoldProducts, SlabTotal
<1>2. SumIn(f, K) = Total("cgst", bs) /\ \A slab \in K : SlabTotal(slab, "cgst", bs) \in Nat
  BY SlabColumn
<1>3. SumIn(g, K) = Total("sgst", bs) /\ \A slab \in K : SlabTotal(slab, "sgst", bs) \in Nat
  BY SlabColumn
<1>4. IsFiniteSet(K)
  BY SlabsFinite
<1>5. \A slab \in K : f[slab] \in Int
  BY <1>2
<1>6. \A slab \in K : g[slab] \in Int
  BY <1>3
<1>7. \A slab \in K : h[slab] = f[slab] + g[slab]
  BY <1>1
<1> HIDE DEF f, g, h, K
<1>8. SumIn(h, K) = SumIn(f, K) + SumIn(g, K)
  BY <1>4, <1>5, <1>6, <1>7, SumInAdds
<1>9. SumIn(h, K) = Total("cgst", bs) + Total("sgst", bs)
  BY <1>2, <1>3, <1>8
<1> QED
  BY <1>1, <1>9 DEF h

-----------------------------------------------------------------------------
(* The top Products *)

\* Min over two numbers.
LEMMA MinOfTwo ==
  ASSUME NEW a \in Nat, NEW b \in Nat
  PROVE  /\ Min({a, b}) \in {a, b} /\ Min({a, b}) <= a /\ Min({a, b}) <= b
         /\ Min({a, b}) \in Nat
<1>1. \E x \in {a, b} : \A y \in {a, b} : x <= y
  OBVIOUS
<1> QED
  BY <1>1 DEF Min

\* There is one row per Product sold.
LEMMA RowsOfProducts ==
  ASSUME NEW bs, BillSet(bs)
  PROVE  /\ \A row \in ProductRows(bs) : /\ row.product \in SoldProducts(bs)
                                         /\ row.revenue = LineSum(row.product, "total", bs)
         /\ \A r, s \in ProductRows(bs) : r.product = s.product => r = s
         /\ \A p \in SoldProducts(bs) : \E row \in ProductRows(bs) : row.product = p
         /\ IsFiniteSet(ProductRows(bs))
         /\ Cardinality(ProductRows(bs)) = Cardinality(SoldProducts(bs))
         /\ Cardinality(ProductRows(bs)) \in Nat
<1> DEFINE row(p) == [product |-> p, quantity |-> UnitsSold(p, bs), revenue |-> LineSum(p, "total", bs)]
           e == [p \in SoldProducts(bs) |-> row(p)]
<1>1. ProductRows(bs) = {row(p) : p \in SoldProducts(bs)}
  BY DEF ProductRows, SoldProducts
<1>2. \A p : row(p).product = p /\ row(p).revenue = LineSum(p, "total", bs)
  OBVIOUS
<1>3. \A p \in SoldProducts(bs) : e[p] = row(p)
  OBVIOUS
<1> HIDE DEF row
<1>4. e \in Bijection(SoldProducts(bs), ProductRows(bs))
  BY <1>1, <1>2 DEF Bijection, Injection, Surjection, IsInjective
<1>5. ExistsBijection(SoldProducts(bs), ProductRows(bs))
  BY <1>4 DEF ExistsBijection
<1>6. IsFiniteSet(SoldProducts(bs))
  BY SoldTyped
<1>7. IsFiniteSet(ProductRows(bs)) /\ Cardinality(ProductRows(bs)) = Cardinality(SoldProducts(bs))
  BY <1>5, <1>6, FS_Bijection
<1> QED
  BY <1>1, <1>2, <1>6, <1>7, CardParts

LEMMA TopTyped ==
  ASSUME NEW bs, BillSet(bs), NEW measure, NEW top \in TopRows(bs, measure)
  PROVE  LET rows == ProductRows(bs)
             n    == Min({TopLimit, Cardinality(rows)})
         IN  n \in Nat /\ n <= Cardinality(rows) /\ n <= TopLimit
             /\ top \in [1..n -> rows] /\ IsInjective(top)
<1>1. Cardinality(ProductRows(bs)) \in Nat /\ TopLimit \in Nat
  BY RowsOfProducts, SalesFiguresAssumption
<1>2. LET n == Min({TopLimit, Cardinality(ProductRows(bs))})
      IN  n \in Nat /\ n <= Cardinality(ProductRows(bs)) /\ n <= TopLimit
  BY <1>1, MinOfTwo
<1>3. LET n == Min({TopLimit, Cardinality(ProductRows(bs))})
      IN  top \in [1..n -> ProductRows(bs)] /\ IsInjective(top)
  BY DEF TopRows
<1> QED
  BY <1>2, <1>3

\* The slide shows the first of them.
LEMMA HeadRows ==
  ASSUME NEW n \in Nat, NEW R, NEW rows \in [1..n -> R]
  PROVE  LET m == Min({TopOnSlide, n})
         IN  m \in Nat /\ m <= n /\ m <= TopOnSlide /\ m \in {TopOnSlide, n}
             /\ Head5(rows) = [i \in 1..m |-> rows[i]]
<1> DEFINE m == Min({TopOnSlide, n})
<1>1. m \in Nat /\ m <= n /\ m <= TopOnSlide /\ m \in {TopOnSlide, n}
  BY MinOfTwo, SalesFiguresAssumption
<1>2. rows \in Seq(R) /\ Len(rows) = n
  OBVIOUS
<1> HIDE DEF m
<1>3. /\ SubSeq(rows, 1, m) \in Seq(R)
      /\ Len(SubSeq(rows, 1, m)) = IF 1 <= m THEN m - 1 + 1 ELSE 0
      /\ \A i \in 1..m - 1 + 1 : SubSeq(rows, 1, m)[i] = rows[1 + i - 1]
  BY <1>1, <1>2, 1 \in Int, m \in Int, \A i \in 1..m : rows[i] \in R, SubSeqProperties
<1>4. Len(SubSeq(rows, 1, m)) = m /\ \A i \in 1..m : SubSeq(rows, 1, m)[i] = rows[i]
  BY <1>1, <1>3
<1>5. SubSeq(rows, 1, m) = [i \in 1..m |-> rows[i]]
  BY <1>3, <1>4
<1>6. Head5(rows) = SubSeq(rows, 1, m)
  BY <1>2 DEF Head5, m
<1> QED
  BY <1>1, <1>5, <1>6 DEF m

\* The revenue of rows of different Products is at most the subtotal, and is the
\* subtotal if no Product is missing.
LEMMA RevenueAddsUp ==
  ASSUME NEW bs, BillSet(bs), NEW m \in Nat, NEW d \in [1..m -> ProductRows(bs)], IsInjective(d)
  PROVE  LET items == SumIn([i \in DOMAIN d |-> d[i].revenue], DOMAIN d)
         IN  /\ items <= Total("subtotal", bs)
             /\ m = Cardinality(ProductRows(bs)) => items = Total("subtotal", bs)
<1> DEFINE I == 1..m
           e == [i \in I |-> d[i].product]
           f == [p \in ProductIds |-> LineSum(p, "total", bs)]
           R == {e[i] : i \in I}
           g == [i \in I |-> f[e[i]]]
<1>1. \A i \in I : /\ d[i] \in ProductRows(bs)
                   /\ e[i] \in SoldProducts(bs) /\ e[i] \in ProductIds
                   /\ d[i].revenue = f[e[i]]
  BY RowsOfProducts, SoldTyped
<1>2. \A i, j \in I : e[i] = e[j] => i = j
  <2>1. \A i, j \in I : d[i] = d[j] => i = j
    BY DEF IsInjective
  <2> QED
    BY <1>1, <2>1, RowsOfProducts
<1>3. "total" \in LineColumns /\ "total" \in {"total", "cgst", "sgst"} /\ BillColumn("total") = "subtotal"
  BY DEF LineColumns, BillColumn
<1>4. \A p \in ProductIds : f[p] \in Nat /\ (p \notin SoldProducts(bs) => f[p] = 0)
  BY <1>3, ProductSums, SoldTyped
<1>5. SumIn(f, ProductIds) = Total("subtotal", bs)
  BY <1>3, LinesAddUp
<1>6. IsFiniteSet(I) /\ IsFiniteSet(ProductIds)
  BY FS_Interval, 1 \in Int, m \in Int, ProductsFinite
<1>7. R \in SUBSET ProductIds
  BY <1>1
<1>8. SumIn([i \in DOMAIN d |-> d[i].revenue], DOMAIN d) = SumIn(g, I)
  <2>1. DOMAIN d = I /\ [i \in I |-> d[i].revenue] = g
    BY <1>1
  <2> QED
    BY <2>1
<1>9. m = Cardinality(ProductRows(bs)) => SoldProducts(bs) \subseteq R
  <2> SUFFICES ASSUME m = Cardinality(ProductRows(bs)), NEW p \in SoldProducts(bs)
               PROVE  p \in R
    OBVIOUS
  <2>1. PICK row \in ProductRows(bs) : row.product = p
    BY RowsOfProducts
  <2>2. IsFiniteSet(ProductRows(bs)) /\ Cardinality(I) = Cardinality(ProductRows(bs))
    BY RowsOfProducts, FS_Interval, 1 \in Int, m \in Int
  <2>3. d \in Injection(I, ProductRows(bs))
    BY DEF Injection, IsInjective
  <2>4. d \in Surjection(I, ProductRows(bs))
    BY <2>2, <2>3, FS_Injection
  <2>5. PICK i \in I : d[i] = row
    BY <2>4 DEF Surjection
  <2> QED
    BY <2>1, <2>5
<1> HIDE DEF I, e, f, g
<1>10. \A i \in I : f[e[i]] \in Int
  BY <1>1, <1>4
<1>11. SumIn(g, I) = SumIn(f, R)
  BY <1>2, <1>6, <1>10, SumInImage DEF g
<1> HIDE DEF R
<1>12. SumIn(f, R) <= SumIn(f, ProductIds)
  BY <1>4, <1>6, <1>7, SumInSubset
<1>13. ASSUME SoldProducts(bs) \subseteq R
       PROVE  SumIn(f, R) = SumIn(f, ProductIds)
  <2>1. (\A p \in ProductIds : f[p] \in Int) /\ \A p \in ProductIds \ R : f[p] = 0
    BY <1>4, <1>13
  <2> QED
    BY <1>6, <1>7, <2>1, SumInSupport
<1> QED
  BY <1>5, <1>8, <1>9, <1>11, <1>12, <1>13

LEMMA TopAddsUp ==
  ASSUME NEW bs, BillSet(bs), NEW top \in TopRows(bs, "revenue")
  PROVE  LET d     == Head5(top)
             items == SumIn([i \in DOMAIN d |-> d[i].revenue], DOMAIN d)
         IN  /\ items <= Total("subtotal", bs)
             /\ Cardinality(ProductRows(bs)) <= Min({TopLimit, TopOnSlide})
                  => items = Total("subtotal", bs)
<1> DEFINE rows == ProductRows(bs)
           n == Min({TopLimit, Cardinality(rows)})
           m == Min({TopOnSlide, n})
           d == Head5(top)
<1>1. n \in Nat /\ n <= Cardinality(rows) /\ n \in {TopLimit, Cardinality(rows)}
      /\ top \in [1..n -> rows] /\ IsInjective(top) /\ Cardinality(rows) \in Nat
  BY TopTyped, RowsOfProducts, MinOfTwo, SalesFiguresAssumption
<1> HIDE DEF n, rows
<1>2. m \in Nat /\ m <= n /\ m \in {TopOnSlide, n} /\ d = [i \in 1..m |-> top[i]]
  BY <1>1, HeadRows
<1> HIDE DEF m, d
<1>3. d \in [1..m -> rows] /\ IsInjective(d)
  BY <1>1, <1>2 DEF IsInjective
<1>4. Cardinality(rows) <= Min({TopLimit, TopOnSlide}) => m = Cardinality(rows)
  <2>1. TopLimit \in Nat /\ TopOnSlide \in Nat
    BY SalesFiguresAssumption
  <2>2. Min({TopLimit, TopOnSlide}) <= TopLimit /\ Min({TopLimit, TopOnSlide}) <= TopOnSlide
        /\ Min({TopLimit, TopOnSlide}) \in Nat
    BY <2>1, MinOfTwo
  <2> QED
    BY <1>1, <1>2, <2>1, <2>2
<1>5. LET items == SumIn([i \in DOMAIN d |-> d[i].revenue], DOMAIN d)
      IN  /\ items <= Total("subtotal", bs)
          /\ m = Cardinality(ProductRows(bs)) => items = Total("subtotal", bs)
  BY <1>2, <1>3, RevenueAddsUp DEF rows
<1> QED
  BY <1>4, <1>5 DEF d, rows

\* More Bills, more rows.
LEMMA RowsGrow ==
  ASSUME NEW bs, BillSet(bs), NEW cs \in SUBSET bs
  PROVE  Cardinality(ProductRows(cs)) <= Cardinality(ProductRows(bs))
         /\ Cardinality(ProductRows(cs)) \in Nat /\ Cardinality(ProductRows(bs)) \in Nat
<1>1. BillSet(cs)
  BY PartOfBillSet
<1>2. ASSUME NEW p \in SoldProducts(cs)
      PROVE  p \in SoldProducts(bs)
  <2>1. p \in ProductIds /\ UnitsSold(p, cs) > 0
    BY DEF SoldProducts
  <2>2. UnitsSold(p, cs) <= UnitsSold(p, bs) /\ UnitsSold(p, cs) \in Nat /\ UnitsSold(p, bs) \in Nat
    BY <1>1, <2>1, UnitsGrow, ProductSums
  <2> QED
    BY <2>1, <2>2 DEF SoldProducts
<1>3. SoldProducts(cs) \in SUBSET SoldProducts(bs) /\ IsFiniteSet(SoldProducts(bs))
  BY <1>2, SoldTyped
<1>4. Cardinality(SoldProducts(cs)) <= Cardinality(SoldProducts(bs))
  BY <1>3, CardParts
<1>5. Cardinality(ProductRows(cs)) = Cardinality(SoldProducts(cs)) /\ Cardinality(ProductRows(cs)) \in Nat
  BY <1>1, RowsOfProducts
<1>6. Cardinality(ProductRows(bs)) = Cardinality(SoldProducts(bs)) /\ Cardinality(ProductRows(bs)) \in Nat
  BY RowsOfProducts
<1> QED
  BY <1>4, <1>5, <1>6

-----------------------------------------------------------------------------
(* What a SELECT has seen.  Bills are numbered in the order they commit, so  *)
(* the Bills at a moment are those up to a number.                           *)

Known(B, first, last, k) ==
  {b \in B : RangeStart(first) <= b.at /\ b.at < RangeEnd(last) /\ b.id <= k}

\* The table bills.
BillsTable(B) ==
  /\ BillSet(B)
  /\ \A b \in B : b.id \in 1..Cardinality(B) /\ b.at \in Nat
  /\ \A b, c \in B : b.id = c.id => b = c

\* The periods of the reports are ranges of business days.
LEMMA PeriodIsDates ==
  ASSUME NEW t \in Nat, NEW first \in Int, NEW last \in Int
  PROVE  RangeStart(first) <= t /\ t < RangeEnd(last)
           <=> first <= BusinessDate(t) /\ BusinessDate(t) <= last
<1> DEFINE d == BusinessDate(t)
<1>1. SlotsPerDay \in Nat \ {0} /\ IstOffset \in Nat
  BY SalesFiguresAssumption
<1>2. d \in Int /\ RangeStart(d) <= t /\ t < RangeEnd(d)
  BY DateIsRange
<1> HIDE DEF d
<1>3. \A e \in Int : /\ RangeStart(e) = SlotsPerDay * e - IstOffset
                     /\ RangeEnd(e) = SlotsPerDay * e + SlotsPerDay - IstOffset
                     /\ SlotsPerDay * e \in Int
  BY <1>1 DEF RangeStart, RangeEnd
<1>4. d + 1 <= first => SlotsPerDay * d + SlotsPerDay <= SlotsPerDay * first
  BY <1>1, <1>2, TimesMonotone
<1>5. first + 1 <= d => SlotsPerDay * first + SlotsPerDay <= SlotsPerDay * d
  BY <1>1, <1>2, TimesMonotone
<1>6. last + 1 <= d => SlotsPerDay * last + SlotsPerDay <= SlotsPerDay * d
  BY <1>1, <1>2, TimesMonotone
<1>7. d + 1 <= last => SlotsPerDay * d + SlotsPerDay <= SlotsPerDay * last
  BY <1>1, <1>2, TimesMonotone
<1> DEFINE m(e) == SlotsPerDay * e
<1>8. /\ m(d) \in Int /\ m(first) \in Int /\ m(last) \in Int
      /\ RangeStart(first) = m(first) - IstOffset /\ RangeEnd(last) = m(last) + SlotsPerDay - IstOffset
      /\ RangeStart(d) = m(d) - IstOffset /\ RangeEnd(d) = m(d) + SlotsPerDay - IstOffset
      /\ d + 1 <= first => m(d) + SlotsPerDay <= m(first)
      /\ first + 1 <= d => m(first) + SlotsPerDay <= m(d)
      /\ last + 1 <= d => m(last) + SlotsPerDay <= m(d)
      /\ d + 1 <= last => m(d) + SlotsPerDay <= m(last)
  BY <1>2, <1>3, <1>4, <1>5, <1>6, <1>7
<1>9. d = first => m(d) = m(first)
  OBVIOUS
<1>10. d = last => m(d) = m(last)
  OBVIOUS
<1> HIDE DEF m
<1>11. RangeStart(first) <= t <=> first <= d
  BY <1>1, <1>2, <1>8, <1>9
<1>12. t < RangeEnd(last) <=> d <= last
  BY <1>1, <1>2, <1>8, <1>10
<1> QED
  BY <1>11, <1>12 DEF d

\* All the Bills of a period are known at the number of Bills there are.
LEMMA KnownNow ==
  ASSUME BillsTable(bills), NEW first, NEW last
  PROVE  InRange(first, last) = Known(bills, first, last, Cardinality(bills))
<1>1. \A b \in bills : b.id <= Cardinality(bills)
  BY CardParts DEF BillsTable, BillSet
<1> QED
  BY <1>1 DEF InRange, Known

LEMMA KnownGrows ==
  ASSUME NEW B, BillsTable(B), NEW first, NEW last, NEW j \in Nat, NEW k \in Nat, j <= k
  PROVE  /\ Known(B, first, last, j) \in SUBSET Known(B, first, last, k)
         /\ BillSet(Known(B, first, last, k)) /\ BillSet(Known(B, first, last, j))
<1>1. \A b \in B : b.id \in Int
  BY DEF BillsTable
<1>2. Known(B, first, last, j) \in SUBSET Known(B, first, last, k)
  BY <1>1 DEF Known
<1>3. Known(B, first, last, k) \in SUBSET B /\ Known(B, first, last, j) \in SUBSET B
  BY DEF Known
<1> QED
  BY <1>2, <1>3, PartOfBillSet DEF BillsTable

\* A later Bill does not change what was known.
LEMMA KnownStays ==
  ASSUME NEW B, NEW c, NEW n \in Nat, c.id = n + 1, NEW first, NEW last, NEW k \in Nat, k <= n
  PROVE  Known(B \cup {c}, first, last, k) = Known(B, first, last, k)
<1>1. ~(c.id <= k)
  OBVIOUS
<1> QED
  BY <1>1 DEF Known

\* What the days from the first one on took, day i of the Bills up to ks[i].
DayTotals(B, first, ks) ==
  [i \in 1..WindowDays |-> Total("total", Known(B, first + i - 1, first + i - 1, ks[i]))]

\* The days of a window, each read at a moment of its own not before that of the
\* window's figures, add up to no less than the window; and to the same if they
\* were all read at that moment.
LEMMA TrendAddsUp ==
  ASSUME NEW B, BillsTable(B), NEW first \in Int, NEW seen \in Nat,
         NEW ks, \A i \in 1..WindowDays : ks[i] \in Nat /\ seen <= ks[i]
  PROVE  LET window == Known(B, first, first + WindowDays - 1, seen)
             trend  == SumIn(DayTotals(B, first, ks), 1..WindowDays)
         IN  /\ trend >= Total("total", window)
             /\ (\A i \in 1..WindowDays : ks[i] = seen) => trend = Total("total", window)
<1> DEFINE K == 1..WindowDays
           S == Known(B, first, first + WindowDays - 1, seen)
           D(i) == Known(B, first + i - 1, first + i - 1, seen)
           f == [b \in S |-> b["total"]]
           class == [b \in S |-> BusinessDate(b.at) - first + 1]
           g == [i \in K |-> Total("total", D(i))]
           h == DayTotals(B, first, ks)
<1>1. WindowDays \in Nat \ {0} /\ IsFiniteSet(K)
  BY SalesFiguresAssumption, FS_Interval, 1 \in Int, WindowDays \in Int
<1>2. BillSet(S) /\ S \in SUBSET B /\ IsFiniteSet(S)
  BY KnownGrows DEF Known, BillSet
<1>3. \A b \in S : b.at \in Nat /\ BusinessDate(b.at) \in Int /\ class[b] = BusinessDate(b.at) - first + 1
  BY <1>2, DateIsRange, 0 \in Int DEF BillsTable
<1>4. \A b \in S : class[b] \in K
  <2>1. ASSUME NEW b \in S
        PROVE  first <= BusinessDate(b.at) /\ BusinessDate(b.at) <= first + WindowDays - 1
    <3>1. first + WindowDays - 1 \in Int
      BY <1>1
    <3>2. RangeStart(first) <= b.at /\ b.at < RangeEnd(first + WindowDays - 1)
      BY DEF Known
    <3> QED
      BY <1>3, <3>1, <3>2, PeriodIsDates
  <2> QED
    BY <1>1, <1>3, <2>1
<1>5. ASSUME NEW i \in K
      PROVE  D(i) = {b \in S : class[b] = i}
  <2> DEFINE e == first + i - 1
  <2>0. e \in Int /\ i \in Int /\ first <= e /\ e <= first + WindowDays - 1 /\ first + WindowDays - 1 \in Int
    BY <1>1
  <2>1. ASSUME NEW b \in B, b.at \in Nat
        PROVE  RangeStart(e) <= b.at /\ b.at < RangeEnd(e)
                 <=> BusinessDate(b.at) = e
    BY <2>0, <2>1, DateIsRange
  <2>2. ASSUME NEW b \in B, b.at \in Nat, BusinessDate(b.at) = e
        PROVE  RangeStart(first) <= b.at /\ b.at < RangeEnd(first + WindowDays - 1)
    <3>1. first <= BusinessDate(b.at) /\ BusinessDate(b.at) <= first + WindowDays - 1
      BY <2>0, <2>2
    <3> QED
      BY <2>0, <2>2, <3>1, PeriodIsDates
  <2>3. \A b \in S : class[b] = i <=> BusinessDate(b.at) = e
    BY <1>3, <2>0
  <2>4. \A b \in B : b.at \in Nat
    BY DEF BillsTable
  <2> HIDE DEF e, class
  <2>5. D(i) = {b \in B : RangeStart(e) <= b.at /\ b.at < RangeEnd(e) /\ b.id <= seen}
    BY DEF Known, e
  <2>6. \A b \in B : b \in D(i) <=> BusinessDate(b.at) = e /\ b.id <= seen
    BY <2>1, <2>4, <2>5
  <2>7. \A b \in B : b \in D(i) => b \in S
    BY <2>2, <2>4, <2>6 DEF Known
  <2>8. \A b \in S : b.id <= seen
    BY DEF Known
  <2> HIDE DEF S, D
  <2>9. \A b \in B : b \in D(i) <=> b \in S /\ class[b] = i
    BY <1>2, <2>3, <2>6, <2>7, <2>8
  <2>10. D(i) \in SUBSET B
    BY <2>5
  <2> QED
    BY <1>2, <2>9, <2>10
<1>6. ASSUME NEW i \in K
      PROVE  D(i) \in SUBSET S /\ Total("total", D(i)) = SumIn(f, D(i)) /\ Total("total", D(i)) \in Int
  <2>1. D(i) \in SUBSET S
    BY <1>5
  <2>2. "total" \in NatColumns
    BY DEF NatColumns
  <2>3. BillSet(D(i))
    BY <1>2, <2>1, PartOfBillSet
  <2>4. Total("total", D(i)) \in Nat
    BY <2>2, <2>3, TotalTyped
  <2>5. Total("total", D(i)) = SumIn(f, D(i))
    BY <1>2, <2>1, <2>2, TotalOfPart
  <2> QED
    BY <2>1, <2>4, <2>5
<1>7. ASSUME NEW i \in K
      PROVE  Total("total", D(i)) <= h[i] /\ h[i] \in Int
  <2> DEFINE U == Known(B, first + i - 1, first + i - 1, ks[i])
  <2>1. ks[i] \in Nat /\ seen <= ks[i] /\ "total" \in NatColumns
    BY DEF NatColumns
  <2>2. D(i) \in SUBSET U /\ BillSet(U)
    BY <2>1, KnownGrows
  <2>3. Total("total", D(i)) <= Total("total", U) /\ Total("total", U) \in Nat
    BY <2>1, <2>2, TotalGrows, TotalTyped
  <2>4. h[i] = Total("total", U)
    BY DEF DayTotals
  <2> QED
    BY <2>3, <2>4
<1>8. g = [i \in K |-> SumIn(f, {b \in S : class[b] = i})]
  BY <1>5, <1>6
<1>9. \A b \in S : f[b] \in Int
  BY <1>2, AmountTyped DEF BillSet, NatColumns
<1>10. \A i \in K : g[i] = Total("total", D(i))
  OBVIOUS
<1>11. (\A i \in K : ks[i] = seen) => h = g
  BY DEF DayTotals
<1>12. Total("total", S) = SumIn(f, S)
  BY DEF Total
<1> HIDE DEF f, g, h, K, S, class, D
<1>13. SumIn([i \in K |-> SumIn(f, {b \in S : class[b] = i})], K) = SumIn(f, S)
  BY <1>1, <1>2, <1>4, <1>9, SumInPartition
<1>14. SumIn(g, K) = Total("total", S)
  BY <1>8, <1>12, <1>13
<1>15. SumIn(g, K) <= SumIn(h, K) /\ SumIn(g, K) \in Int /\ SumIn(h, K) \in Int
  <2>1. \A i \in K : g[i] \in Int /\ g[i] <= h[i]
    BY <1>6, <1>7, <1>10
  <2>2. (\A i \in K : g[i] \in Int) /\ (\A i \in K : h[i] \in Int) /\ (\A i \in K : g[i] <= h[i])
    BY <1>7, <2>1
  <2> QED
    BY <1>1, <2>2, SumInMonotone, SumInTyped
<1>16. SumIn(h, K) >= Total("total", S)
  BY <1>14, <1>15
<1>17. (\A i \in K : ks[i] = seen) => SumIn(h, K) = Total("total", S)
  BY <1>11, <1>14
<1> QED
  BY <1>16, <1>17 DEF h, K, S

-----------------------------------------------------------------------------
(* The invariant of a report *)

Protocol(r) ==
  /\ r.kind = "none" => r.pc = "done"
  /\ r.kind \in {"close", "weekly"} => r.pc \in {"bills", "top", "done"}
  /\ r.kind = "deck" => r.pc \in {"bills", "top", "window", "trend", "slabs", "topQty", "low", "done"}
  /\ r.kind = "reorder" => r.pc \in {"low", "sold", "done"}
  /\ r.kind \in {"none", "close", "weekly", "deck", "reorder"}
  /\ r.first \in Int /\ r.last \in Int /\ r.first <= r.last
  /\ r.kind \in {"deck", "reorder"} => r.last = r.first + WindowDays - 1

\* The moments of the first and the last SELECT.
Moments(r, n) ==
  /\ n \in Nat /\ r.seen \in Nat /\ r.upTo \in Nat
  /\ r.kind = "deck" => r.seen <= r.upTo
  /\ r.upTo <= n /\ r.seen <= n

WindowAt(r, B, k) == Known(B, r.first, r.last, k)

FiguresRead(r, B) == r.pc # "bills" => r.figures = Figures(WindowAt(r, B, r.seen))

TopRead(r, B) ==
  r.pc \notin {"bills", "top"} =>
    \E k \in r.seen..r.upTo : r.top \in TopRows(WindowAt(r, B, k), "revenue")

\* ks are the moments at which the days of the trend were read.
TrendDay(r, B, i, k) == Known(B, r.trendFirst + i - 1, r.trendFirst + i - 1, k)

TrendIs(r, B, ks) == r.trend = [i \in 1..Len(ks) |-> Totals(TrendDay(r, B, i, ks[i]))]

TrendRead(r, B) ==
  \E ks \in Seq(r.seen..r.upTo) :
    /\ TrendIs(r, B, ks)
    /\ r.pc \in {"bills", "top", "window"} => Len(ks) = 0
    /\ r.pc = "trend" => Len(ks) < WindowDays
    /\ r.pc \in {"slabs", "topQty", "low", "done"} => Len(ks) = WindowDays

SlabsRead(r, B) ==
  r.pc \in {"topQty", "low", "done"} =>
    \E k \in r.seen..r.upTo : r.slabs = TaxBySlab(WindowAt(r, B, k))

DeckRead(r, B) ==
  r.kind = "deck" => FiguresRead(r, B) /\ TopRead(r, B) /\ TrendRead(r, B) /\ SlabsRead(r, B)

\* What was in stock when so many Bills were committed.
StockAt(B, k) == [p \in ProductIds |-> OpeningStock[p] - UnitsSold(p, {b \in B : b.id <= k})]

ReorderRead(r, B) ==
  r.kind = "reorder" =>
    /\ r.pc \in {"sold", "done"} => r.low = LowStock(StockAt(B, r.seen))
    /\ r.pc = "done" =>
         \E k \in r.seen..r.upTo : r.suggestions \in Suggestions(r.low, WindowAt(r, B, k))

StockIs(s, B) ==
  s = [p \in ProductIds |-> OpeningStock[p] - UnitsSold(p, B)] /\ s \in [ProductIds -> Nat]

\* The tables and the tills.
ShopTyped ==
  /\ now \in 0..MaxSlot
  /\ BillsTable(bills) /\ StockIs(stock, bills)
  /\ \A b \in bills : b.at <= now
  /\ \A t \in Tills : till[t] = Idle \/ (till[t].sale \in Sales /\ till[t].begun \in 0..now)

ReportRead(r, B) ==
  Protocol(r) /\ Moments(r, Cardinality(B)) /\ DeckRead(r, B) /\ ReorderRead(r, B)

ReportInv == CloseInv /\ ShopTyped /\ ReportRead(report, bills)

-----------------------------------------------------------------------------
(* A Bill is committed *)

\* A Bill that comes later changes nothing of what was read.
LEMMA ReadStays ==
  ASSUME NEW r, NEW B, NEW c, IsFiniteSet(B), c.id = Cardinality(B) + 1, c \notin B,
         ReportRead(r, B)
  PROVE  ReportRead(r, B \cup {c})
<1> DEFINE n == Cardinality(B)
<1>1. n \in Nat /\ Cardinality(B \cup {c}) = n + 1 /\ c.id = n + 1
  BY FS_CardinalityType, FS_AddElement
<1>2. /\ r.seen \in Nat /\ r.upTo \in Nat /\ (r.kind = "deck" => r.seen <= r.upTo)
      /\ r.upTo <= n /\ r.seen <= n
  BY DEF ReportRead, Moments
<1>3. Moments(r, Cardinality(B \cup {c})) /\ Protocol(r)
  BY <1>1, <1>2 DEF ReportRead, Moments
<1> HIDE DEF n
<1>4. ASSUME NEW first, NEW last, NEW k \in Nat, k <= n
      PROVE  Known(B \cup {c}, first, last, k) = Known(B, first, last, k)
  BY <1>1, <1>4, KnownStays
<1>5. \A k \in r.seen..r.upTo : k \in Nat /\ k <= n
  BY <1>1, <1>2
<1>6. \A k \in Nat : k <= n => WindowAt(r, B \cup {c}, k) = WindowAt(r, B, k)
  BY <1>4 DEF WindowAt
<1>7. DeckRead(r, B \cup {c})
  <2> SUFFICES ASSUME r.kind = "deck"
               PROVE  FiguresRead(r, B \cup {c}) /\ TopRead(r, B \cup {c})
                      /\ TrendRead(r, B \cup {c}) /\ SlabsRead(r, B \cup {c})
    BY DEF DeckRead
  <2>0. FiguresRead(r, B) /\ TopRead(r, B) /\ TrendRead(r, B) /\ SlabsRead(r, B)
    BY DEF ReportRead, DeckRead
  <2>1. FiguresRead(r, B \cup {c})
    BY <1>2, <1>6, <2>0 DEF FiguresRead
  <2>2. TopRead(r, B \cup {c})
    BY <1>5, <1>6, <2>0 DEF TopRead
  <2>3. SlabsRead(r, B \cup {c})
    BY <1>5, <1>6, <2>0 DEF SlabsRead
  <2>4. PICK ks \in Seq(r.seen..r.upTo) :
          /\ TrendIs(r, B, ks)
          /\ r.pc \in {"bills", "top", "window"} => Len(ks) = 0
          /\ r.pc = "trend" => Len(ks) < WindowDays
          /\ r.pc \in {"slabs", "topQty", "low", "done"} => Len(ks) = WindowDays
    BY <2>0 DEF TrendRead
  <2>5. ASSUME NEW i \in 1..Len(ks)
        PROVE  Totals(TrendDay(r, B \cup {c}, i, ks[i])) = Totals(TrendDay(r, B, i, ks[i]))
    <3>1. ks[i] \in r.seen..r.upTo
      BY ElementOfSeq
    <3>2. ks[i] \in Nat /\ ks[i] <= n
      BY <1>5, <3>1
    <3>3. TrendDay(r, B \cup {c}, i, ks[i]) = TrendDay(r, B, i, ks[i])
      BY <1>4, <3>2 DEF TrendDay
    <3> QED
      BY <3>3
  <2>6. TrendIs(r, B \cup {c}, ks)
    BY <2>4, <2>5 DEF TrendIs
  <2>7. TrendRead(r, B \cup {c})
    BY <2>4, <2>6 DEF TrendRead
  <2> QED
    BY <2>1, <2>2, <2>3, <2>7
<1>8. ReorderRead(r, B \cup {c})
  <2>1. StockAt(B \cup {c}, r.seen) = StockAt(B, r.seen)
    <3>1. ~(c.id <= r.seen)
      BY <1>1, <1>2
    <3>2. {b \in B \cup {c} : b.id <= r.seen} = {b \in B : b.id <= r.seen}
      BY <3>1
    <3> QED
      BY <3>2 DEF StockAt
  <2>2. ReorderRead(r, B)
    BY DEF ReportRead
  <2> QED
    BY <1>5, <1>6, <2>1, <2>2 DEF ReorderRead
<1> QED
  BY <1>3, <1>7, <1>8 DEF ReportRead

LEMMA CommitReads ==
  ASSUME ReportInv, NEW t \in Tills, CommitBill(t)
  PROVE  ShopTyped' /\ ReportRead(report, bills)'
<1> DEFINE sale == till[t].sale
           c == BillOf(Cardinality(bills) + 1, till[t].begun, sale)
           n == Cardinality(bills)
<1>1. /\ till[t] # Idle /\ \A p \in ProductIds : sale.qty[p] <= stock[p]
      /\ bills' = bills \cup {c} /\ stock' = [p \in ProductIds |-> stock[p] - sale.qty[p]]
      /\ till' = [till EXCEPT ![t] = Idle] /\ now' = now /\ report' = report
  BY DEF CommitBill, InsertBill
<1>2. sale \in Sales /\ till[t].begun \in 0..now /\ now \in Nat
  BY <1>1 DEF ReportInv, ShopTyped, CloseInv, Timed
<1>3. sale.qty \in [ProductIds -> Nat]
  BY <1>2, ReportsAssumption
<1>4. BillRow(c) /\ c.id = n + 1 /\ c.at = till[t].begun /\ c.qty = sale.qty
  BY <1>2, NewBillRow
<1> HIDE DEF c, sale
<1>5. BillsTable(bills) /\ StockIs(stock, bills) /\ BillSet(bills) /\ IsFiniteSet(bills)
  BY DEF ReportInv, ShopTyped, BillsTable, BillSet
<1>6. n \in Nat
  BY <1>5, FS_CardinalityType
<1>7. c \notin bills
  BY <1>4, <1>5, <1>6 DEF BillsTable
<1>8. IsFiniteSet(bills') /\ Cardinality(bills') = n + 1
  BY <1>1, <1>5, <1>7, FS_AddElement
<1> HIDE DEF n
<1>9. BillsTable(bills')
  <2>1. BillSet(bills')
    BY <1>1, <1>4, <1>5, <1>8 DEF BillSet
  <2>2. \A b \in bills : b.id \in 1..n /\ b.at \in Nat
    BY <1>5 DEF BillsTable, n
  <2>3. \A b \in bills' : b.id \in 1..Cardinality(bills') /\ b.at \in Nat
    BY <1>1, <1>2, <1>4, <1>6, <1>8, <2>2
  <2>4. \A b, d \in bills' : b.id = d.id => b = d
    <3>1. \A b \in bills : b.id # c.id
      BY <1>4, <1>6, <2>2
    <3>2. \A b, d \in bills : b.id = d.id => b = d
      BY <1>5 DEF BillsTable
    <3> QED
      BY <1>1, <3>1, <3>2
  <2> QED
    BY <2>1, <2>3, <2>4 DEF BillsTable
<1>10. StockIs(stock', bills')
  <2>1. ASSUME NEW p \in ProductIds
        PROVE  stock'[p] = OpeningStock[p] - UnitsSold(p, bills') /\ stock'[p] \in Nat
    <3>0. UnitsSold(p, bills \cup {c}) = UnitsSold(p, bills) + c.qty[p]
      BY <1>4, <1>5, <1>7, UnitsAdd
    <3>1. UnitsSold(p, bills') = UnitsSold(p, bills) + sale.qty[p]
      BY <1>1, <1>4, <3>0
    <3>2. UnitsSold(p, bills) \in Nat /\ sale.qty[p] \in Nat /\ OpeningStock[p] \in Nat
      BY <1>3, <1>5, ProductSums, ReportsAssumption
    <3>3. stock[p] = OpeningStock[p] - UnitsSold(p, bills) /\ stock[p] \in Nat
      BY <1>5 DEF StockIs
    <3>4. stock'[p] = stock[p] - sale.qty[p] /\ sale.qty[p] <= stock[p]
      BY <1>1
    <3> QED
      BY <3>1, <3>2, <3>3, <3>4
  <2> QED
    BY <1>1, <2>1 DEF StockIs
<1>11. \A b \in bills' : b.at <= now'
  BY <1>1, <1>2, <1>4 DEF ReportInv, ShopTyped
<1>12. \A u \in Tills : till'[u] = Idle \/ (till'[u].sale \in Sales /\ till'[u].begun \in 0..now')
  BY <1>1 DEF ReportInv, ShopTyped, CloseInv, Timed
<1>13. ShopTyped'
  BY <1>1, <1>9, <1>10, <1>11, <1>12 DEF ReportInv, ShopTyped
<1>14. ReportRead(report, bills \cup {c})
  BY <1>4, <1>5, <1>7, ReadStays DEF ReportInv, n
<1> QED
  BY <1>1, <1>13, <1>14

-----------------------------------------------------------------------------
(* Steps that read nothing *)

\* The tables and the report are left alone.
LEMMA NothingRead ==
  ASSUME ReportInv, UNCHANGED <<bills, stock, report>>, now' \in 0..MaxSlot, now <= now',
         \A t \in Tills : till'[t] = Idle \/ (till'[t].sale \in Sales /\ till'[t].begun \in 0..now')
  PROVE  ShopTyped' /\ ReportRead(report, bills)'
<1>1. now \in Nat /\ now' \in Nat
  BY DEF ReportInv, CloseInv, Timed
<1>2. \A b \in bills : b.at \in Nat /\ b.at <= now
  BY DEF ReportInv, ShopTyped, BillsTable
<1>3. \A b \in bills : b.at <= now'
  BY <1>1, <1>2
<1>4. ShopTyped'
  BY <1>3 DEF ReportInv, ShopTyped
<1>5. ReportRead(report, bills)
  BY DEF ReportInv
<1> QED
  BY <1>4, <1>5

LEMMA QuietReads ==
  ASSUME ReportInv,
         \/ UNCHANGED vars
         \/ Tick
         \/ \E t \in Tills, sale \in Sales : BeginBill(t, sale)
         \/ \E t \in Tills : RollBack(t)
  PROVE  ShopTyped' /\ ReportRead(report, bills)'
<1>1. /\ now \in 0..MaxSlot /\ MaxSlot \in Nat /\ DOMAIN till = Tills
      /\ \A t \in Tills : till[t] = Idle \/ (till[t].sale \in Sales /\ till[t].begun \in 0..now)
  BY ReportsAssumption DEF ReportInv, ShopTyped, CloseInv, Timed
<1>2. CASE UNCHANGED vars
  <2>1. UNCHANGED <<bills, stock, report>> /\ now' = now /\ till' = till
    BY <1>2 DEF vars
  <2> QED
    BY <1>1, <2>1, NothingRead
<1>3. CASE Tick
  <2>1. UNCHANGED <<bills, stock, report>> /\ now' = now + 1 /\ till' = till /\ now < MaxSlot
    BY <1>3 DEF Tick
  <2>2. \A t \in Tills : till'[t] = Idle \/ (till'[t].sale \in Sales /\ till'[t].begun \in 0..now')
    BY <1>1, <2>1
  <2> QED
    BY <1>1, <2>1, <2>2, NothingRead
<1>4. ASSUME NEW t \in Tills, NEW sale \in Sales, BeginBill(t, sale)
      PROVE  ShopTyped' /\ ReportRead(report, bills)'
  <2>1. UNCHANGED <<bills, stock, report>> /\ now' = now
        /\ till' = [till EXCEPT ![t] = [sale |-> sale, begun |-> now]]
    BY <1>4 DEF BeginBill
  <2>2. \A u \in Tills : till'[u] = Idle \/ (till'[u].sale \in Sales /\ till'[u].begun \in 0..now')
    BY <1>1, <2>1
  <2> QED
    BY <1>1, <2>1, <2>2, NothingRead
<1>5. ASSUME NEW t \in Tills, RollBack(t)
      PROVE  ShopTyped' /\ ReportRead(report, bills)'
  <2>1. UNCHANGED <<bills, stock, report>> /\ now' = now /\ till' = [till EXCEPT ![t] = Idle]
    BY <1>5 DEF RollBack
  <2>2. \A u \in Tills : till'[u] = Idle \/ (till'[u].sale \in Sales /\ till'[u].begun \in 0..now')
    BY <1>1, <2>1
  <2> QED
    BY <1>1, <2>1, <2>2, NothingRead
<1> QED
  BY <1>2, <1>3, <1>4, <1>5

-----------------------------------------------------------------------------
(* SELECTs *)

\* The tables stay; the report goes on.
LEMMA TablesStay ==
  ASSUME ReportInv, UNCHANGED <<now, stock, bills, till>>
  PROVE  ShopTyped'
BY DEF ReportInv, ShopTyped

LEMMA AskReads ==
  ASSUME ReportInv, NEW kind, NEW first \in Int, NEW last \in Int, first <= last, NEW pc,
         Ask(kind, first, last, pc),
         \/ kind \in {"close", "weekly"} /\ pc = "bills"
         \/ kind = "deck" /\ pc = "bills" /\ last = first + WindowDays - 1
         \/ kind = "reorder" /\ pc = "low" /\ last = first + WindowDays - 1
  PROVE  ShopTyped' /\ ReportRead(report, bills)'
<1>1. /\ report'.kind = kind /\ report'.pc = pc /\ report'.first = first /\ report'.last = last
      /\ report'.seen = 0 /\ report'.upTo = 0 /\ report'.trend = <<>>
      /\ UNCHANGED <<now, stock, bills, till>>
  BY DEF Ask, NoReport
<1> DEFINE s == report'
<1>2. ReportRead(s, bills)
  <2> HIDE DEF s
  <2>0. /\ s.kind = kind /\ s.pc = pc /\ s.first = first /\ s.last = last
        /\ s.seen = 0 /\ s.upTo = 0 /\ s.trend = <<>>
    BY <1>1 DEF s
  <2>1. Cardinality(bills) \in Nat
    BY FS_CardinalityType DEF ReportInv, ShopTyped, BillsTable, BillSet
  <2>2. Protocol(s) /\ Moments(s, Cardinality(bills))
    BY <2>0, <2>1 DEF Protocol, Moments
  <2>3. ReorderRead(s, bills)
    BY <2>0 DEF ReorderRead
  <2>4. CASE kind # "deck"
    BY <2>0, <2>2, <2>3, <2>4 DEF ReportRead, DeckRead
  <2>5. CASE kind = "deck"
    <3>1. <<>> \in Seq(s.seen..s.upTo) /\ Len(<<>>) = 0
      OBVIOUS
    <3>2. TrendIs(s, bills, <<>>)
      BY <2>0 DEF TrendIs
    <3>3. s.pc = "bills"
      BY <2>0, <2>5
    <3>4. TrendRead(s, bills)
      BY <3>1, <3>2, <3>3 DEF TrendRead
    <3>5. FiguresRead(s, bills) /\ TopRead(s, bills) /\ SlabsRead(s, bills)
      BY <3>3 DEF FiguresRead, TopRead, SlabsRead
    <3> QED
      BY <2>2, <2>3, <3>4, <3>5 DEF ReportRead, DeckRead
  <2> QED
    BY <2>4, <2>5
<1>3. ShopTyped'
  BY <1>1, TablesStay
<1>4. bills' = bills
  BY <1>1
<1> QED
  BY <1>2, <1>3, <1>4

\* s is the report r after one SELECT more.
Later(r, s, n) ==
  /\ s.kind = r.kind /\ s.first = r.first /\ s.last = r.last
  /\ s.upTo = n

LEMMA LaterTyped ==
  ASSUME NEW r, NEW s, NEW n, Moments(r, n), Protocol(r), Later(r, s, n)
  PROVE  /\ s.seen \in {r.seen, n} => Moments(s, n)
         /\ r.upTo <= s.upTo /\ r.upTo \in Nat /\ s.upTo \in Nat /\ n \in Nat /\ r.seen \in Nat
         /\ s.seen = r.seen => r.seen..r.upTo \subseteq s.seen..s.upTo
         /\ r.seen <= n /\ n \in r.seen..n
BY DEF Moments, Protocol, Later

\* What was read before stays as it was.
LEMMA FiguresStay ==
  ASSUME NEW r, NEW s, NEW B, s.first = r.first, s.last = r.last, s.seen = r.seen,
         s.figures = r.figures, r.pc # "bills", FiguresRead(r, B)
  PROVE  FiguresRead(s, B)
BY DEF FiguresRead, WindowAt

LEMMA TopStays ==
  ASSUME NEW r, NEW s, NEW B, s.first = r.first, s.last = r.last, s.top = r.top,
         r.seen..r.upTo \subseteq s.seen..s.upTo, r.pc \notin {"bills", "top"}, TopRead(r, B)
  PROVE  TopRead(s, B)
BY DEF TopRead, WindowAt

LEMMA SlabsStay ==
  ASSUME NEW r, NEW s, NEW B, s.first = r.first, s.last = r.last, s.slabs = r.slabs,
         r.seen..r.upTo \subseteq s.seen..s.upTo, r.pc \in {"topQty", "low", "done"}, SlabsRead(r, B)
  PROVE  SlabsRead(s, B)
BY DEF SlabsRead, WindowAt

LEMMA TrendStays ==
  ASSUME NEW r, NEW s, NEW B, s.trend = r.trend, s.trendFirst = r.trendFirst,
         r.seen..r.upTo \subseteq s.seen..s.upTo, TrendRead(r, B),
         \/ r.pc \in {"bills", "top", "window"} /\ s.pc \in {"bills", "top", "window"}
         \/ r.pc \in {"slabs", "topQty", "low", "done"} /\ s.pc \in {"slabs", "topQty", "low", "done"}
  PROVE  TrendRead(s, B)
<1>1. PICK ks \in Seq(r.seen..r.upTo) :
        /\ TrendIs(r, B, ks)
        /\ r.pc \in {"bills", "top", "window"} => Len(ks) = 0
        /\ r.pc = "trend" => Len(ks) < WindowDays
        /\ r.pc \in {"slabs", "topQty", "low", "done"} => Len(ks) = WindowDays
  BY DEF TrendRead
<1>2. ks \in Seq(s.seen..s.upTo)
  BY <1>1, SeqMonotonic
<1>3. TrendIs(s, B, ks)
  BY <1>1 DEF TrendIs, TrendDay
<1> QED
  BY <1>1, <1>2, <1>3 DEF TrendRead

\* No day of the trend was read yet.
LEMMA TrendNotBegun ==
  ASSUME NEW r, NEW s, NEW B, s.trend = r.trend, TrendRead(r, B),
         r.pc \in {"bills", "top", "window"}, s.pc \in {"bills", "top", "window", "trend"}
  PROVE  TrendRead(s, B)
<1>1. PICK ks \in Seq(r.seen..r.upTo) : TrendIs(r, B, ks) /\ Len(ks) = 0
  BY DEF TrendRead
<1>2. r.trend = <<>>
  BY <1>1 DEF TrendIs
<1>3. TrendIs(s, B, <<>>) /\ <<>> \in Seq(s.seen..s.upTo) /\ Len(<<>>) = 0
  BY <1>2 DEF TrendIs
<1>4. 0 < WindowDays
  BY SalesFiguresAssumption
<1> QED
  BY <1>3, <1>4 DEF TrendRead

-----------------------------------------------------------------------------
(* Each SELECT *)

\* A day is appended.
LEMMA TrendAppends ==
  ASSUME NEW r, NEW s, NEW B, NEW S, NEW ks \in Seq(S), NEW k,
         TrendIs(r, B, ks), s.trendFirst = r.trendFirst,
         Len(Append(ks, k)) = Len(ks) + 1,
         \A i \in 1..Len(ks) + 1 : Append(ks, k)[i] = IF i <= Len(ks) THEN ks[i] ELSE k,
         s.trend = Append(r.trend, Totals(Known(B, r.trendFirst + Len(ks), r.trendFirst + Len(ks), k))),
         r.trendFirst + Len(ks) = r.trendFirst + (Len(ks) + 1) - 1
  PROVE  TrendIs(s, B, Append(ks, k))
<1> DEFINE e(i) == Totals(TrendDay(r, B, i, ks[i]))
           x == Totals(Known(B, r.trendFirst + Len(ks), r.trendFirst + Len(ks), k))
           n == Len(ks)
           new(i) == Totals(TrendDay(s, B, i, Append(ks, k)[i]))
           R == {e(i) : i \in 1..n} \cup {x}
<1>1. n \in Nat
  BY LenProperties
<1>2. r.trend = [i \in 1..n |-> e(i)]
  BY DEF TrendIs
<1>3. \A i \in 1..n : new(i) = e(i)
  BY <1>1 DEF TrendDay
<1>4. new(n + 1) = x
  BY <1>1 DEF TrendDay
<1> HIDE DEF e, x, n, new
<1>5. r.trend \in Seq(R) /\ x \in R /\ Len(r.trend) = n
  BY <1>1, <1>2
<1>6. /\ Append(r.trend, x) \in Seq(R) /\ Len(Append(r.trend, x)) = n + 1
      /\ \A i \in 1..n + 1 : Append(r.trend, x)[i] = IF i <= n THEN r.trend[i] ELSE x
  BY <1>5, AppendProperties
<1>7. Append(r.trend, x) = [i \in 1..n + 1 |-> Append(r.trend, x)[i]]
  BY <1>1, <1>6
<1>8. \A i \in 1..n + 1 : Append(r.trend, x)[i] = new(i)
  BY <1>1, <1>2, <1>3, <1>4, <1>6
<1>9. Append(r.trend, x) = [i \in 1..n + 1 |-> new(i)]
  BY <1>7, <1>8
<1> QED
  BY <1>9 DEF TrendIs, new, x, n

\* The figures are those of the Bills there are.
LEMMA LoadBillsReads ==
  ASSUME ReportInv, LoadBills
  PROVE  ShopTyped' /\ ReportRead(report, bills)'
<1> DEFINE s == report'
           n == Cardinality(bills)
<1>1. /\ report.pc = "bills" /\ s.pc = "top" /\ s.kind = report.kind
      /\ s.first = report.first /\ s.last = report.last /\ s.trend = report.trend
      /\ s.figures = Figures(Window) /\ s.seen = n /\ s.upTo = n
      /\ UNCHANGED <<now, stock, bills, till>>
  BY DEF LoadBills, Read, ReportInv, CloseInv, Shaped, NoReport
<1>2. ShopTyped' /\ bills' = bills
  BY <1>1, TablesStay
<1>3. /\ Protocol(report) /\ Moments(report, n) /\ BillsTable(bills)
      /\ report.kind = "deck" => FiguresRead(report, bills) /\ TopRead(report, bills)
                                 /\ TrendRead(report, bills) /\ SlabsRead(report, bills)
      /\ ReorderRead(report, bills)
  BY DEF ReportInv, ReportRead, ShopTyped, DeckRead
<1> HIDE DEF s, n
<1>4. ReportRead(s, bills)
  <2>1. Later(report, s, n)
    BY <1>1 DEF Later
  <2>2. Moments(s, n)
    BY <1>1, <1>3, <2>1, LaterTyped
  <2>3. Protocol(s)
    BY <1>1, <1>3 DEF Protocol
  <2>4. s.kind # "reorder" /\ ReorderRead(s, bills)
    BY <1>1, <1>3 DEF Protocol, ReorderRead
  <2>5. ASSUME s.kind = "deck"
        PROVE  FiguresRead(s, bills) /\ TopRead(s, bills) /\ TrendRead(s, bills) /\ SlabsRead(s, bills)
    <3>1. Window = WindowAt(s, bills, s.seen)
      BY <1>1, <1>3, KnownNow DEF Window, WindowAt, n
    <3>2. FiguresRead(s, bills)
      BY <1>1, <3>1 DEF FiguresRead
    <3>3. TopRead(s, bills) /\ SlabsRead(s, bills)
      BY <1>1 DEF TopRead, SlabsRead
    <3>4. TrendRead(report, bills) /\ report.pc \in {"bills", "top", "window"}
          /\ s.pc \in {"bills", "top", "window", "trend"} /\ s.trend = report.trend
      BY <1>1, <1>3, <2>5
    <3>5. TrendRead(s, bills)
      BY <3>4, TrendNotBegun
    <3> QED
      BY <3>2, <3>3, <3>5
  <2> QED
    BY <2>2, <2>3, <2>4, <2>5 DEF ReportRead, DeckRead, n
<1> QED
  BY <1>2, <1>4 DEF s

\* The top Products are those of some moment not before.
LEMMA LoadTopReads ==
  ASSUME ReportInv, LoadTop
  PROVE  ShopTyped' /\ ReportRead(report, bills)'
<1> DEFINE s == report'
           n == Cardinality(bills)
<1>1. PICK top \in TopRows(Window, "revenue") :
      /\ report.pc = "top" /\ s.pc = (IF report.kind = "deck" THEN "window" ELSE "done")
      /\ s.kind = report.kind
      /\ s.first = report.first /\ s.last = report.last /\ s.trend = report.trend
      /\ s.figures = report.figures /\ s.top = top /\ s.seen = report.seen /\ s.upTo = n
      /\ UNCHANGED <<now, stock, bills, till>>
  BY DEF LoadTop, Read, ReportInv, CloseInv, Shaped, NoReport
<1>2. ShopTyped' /\ bills' = bills
  BY <1>1, TablesStay
<1>3. /\ Protocol(report) /\ Moments(report, n) /\ BillsTable(bills)
      /\ report.kind = "deck" => FiguresRead(report, bills) /\ TopRead(report, bills)
                                 /\ TrendRead(report, bills) /\ SlabsRead(report, bills)
      /\ ReorderRead(report, bills)
  BY DEF ReportInv, ReportRead, ShopTyped, DeckRead
<1> HIDE DEF s, n
<1>4. ReportRead(s, bills)
  <2>1. Later(report, s, n)
    BY <1>1 DEF Later
  <2>2. Moments(s, n) /\ n \in s.seen..s.upTo
    BY <1>1, <1>3, <2>1, LaterTyped
  <2>3. Protocol(s)
    BY <1>1, <1>3 DEF Protocol
  <2>4. s.kind # "reorder" /\ ReorderRead(s, bills)
    BY <1>1, <1>3 DEF Protocol, ReorderRead
  <2>5. ASSUME s.kind = "deck"
        PROVE  FiguresRead(s, bills) /\ TopRead(s, bills) /\ TrendRead(s, bills) /\ SlabsRead(s, bills)
    <3>0. s.pc = "window" /\ report.kind = "deck"
      BY <1>1, <2>5
    <3>1. Window = WindowAt(s, bills, n)
      BY <1>1, <1>3, KnownNow DEF Window, WindowAt, n
    <3>2. FiguresRead(s, bills)
      BY <1>1, <1>3, <3>0, FiguresStay
    <3>3. TopRead(s, bills) /\ SlabsRead(s, bills)
      BY <1>1, <2>2, <3>0, <3>1 DEF TopRead, SlabsRead
    <3>4. TrendRead(report, bills) /\ report.pc \in {"bills", "top", "window"}
          /\ s.pc \in {"bills", "top", "window", "trend"} /\ s.trend = report.trend
      BY <1>1, <1>3, <3>0
    <3>5. TrendRead(s, bills)
      BY <3>4, TrendNotBegun
    <3> QED
      BY <3>2, <3>3, <3>5
  <2> QED
    BY <2>2, <2>3, <2>4, <2>5 DEF ReportRead, DeckRead, n
<1> QED
  BY <1>2, <1>4 DEF s

\* The window of the trend.
LEMMA StartTrendReads ==
  ASSUME ReportInv, StartTrend
  PROVE  ShopTyped' /\ ReportRead(report, bills)'
<1> DEFINE s == report'
           n == Cardinality(bills)
<1>1. /\ report.pc = "window" /\ s.pc = "trend"
      /\ s.kind = report.kind
      /\ s.first = report.first /\ s.last = report.last /\ s.trend = report.trend
      /\ s.figures = report.figures /\ s.top = report.top
      /\ s.seen = report.seen /\ s.upTo = report.upTo
      /\ UNCHANGED <<now, stock, bills, till>>
  BY DEF StartTrend, ReportInv, CloseInv, Shaped, NoReport
<1>2. ShopTyped' /\ bills' = bills
  BY <1>1, TablesStay
<1>3. /\ Protocol(report) /\ Moments(report, n) /\ BillsTable(bills)
      /\ report.kind = "deck" => FiguresRead(report, bills) /\ TopRead(report, bills)
                                 /\ TrendRead(report, bills) /\ SlabsRead(report, bills)
      /\ ReorderRead(report, bills)
  BY DEF ReportInv, ReportRead, ShopTyped, DeckRead
<1> HIDE DEF s, n
<1>4. ReportRead(s, bills)
  <2>0. report.kind = "deck"
    BY <1>1, <1>3 DEF Protocol
  <2>1. report.seen..report.upTo \subseteq s.seen..s.upTo
    BY <1>1
  <2>2. Moments(s, n)
    BY <1>1, <1>3 DEF Moments
  <2>3. Protocol(s)
    BY <1>1, <1>3 DEF Protocol
  <2>4. ReorderRead(s, bills)
    BY <1>1, <2>0 DEF ReorderRead
  <2>5. FiguresRead(s, bills)
    BY <1>1, <1>3, <2>0, FiguresStay
  <2>6. TopRead(s, bills)
    BY <1>1, <1>3, <2>0, <2>1, TopStays
  <2>7. SlabsRead(s, bills)
    BY <1>1 DEF SlabsRead
  <2>8. TrendRead(report, bills) /\ report.pc \in {"bills", "top", "window"}
        /\ s.pc \in {"bills", "top", "window", "trend"} /\ s.trend = report.trend
    BY <1>1, <1>3, <2>0
  <2>9. TrendRead(s, bills)
    BY <2>8, TrendNotBegun
  <2> QED
    BY <2>2, <2>3, <2>4, <2>5, <2>6, <2>7, <2>9 DEF ReportRead, DeckRead, n
<1> QED
  BY <1>2, <1>4 DEF s

\* One day more, of the moment it is read.
LEMMA LoadTrendDayReads ==
  ASSUME ReportInv, LoadTrendDay
  PROVE  ShopTyped' /\ ReportRead(report, bills)'
<1> DEFINE s == report'
           n == Cardinality(bills)
<1> DEFINE l == Len(report.trend)
           day == report.trendFirst + l
<1>1. /\ report.pc = "trend" /\ s.pc = (IF l + 1 = WindowDays THEN "slabs" ELSE "trend")
      /\ s.kind = report.kind /\ s.first = report.first /\ s.last = report.last /\ s.upTo = n
      /\ s.figures = report.figures /\ s.top = report.top
      /\ s.trend = Append(report.trend, Totals(InRange(day, day))) /\ s.trendFirst = report.trendFirst /\ s.seen = report.seen
      /\ UNCHANGED <<now, stock, bills, till>>
  BY DEF LoadTrendDay, Read, ReportInv, CloseInv, Shaped, NoReport
<1>2. ShopTyped' /\ bills' = bills
  BY <1>1, TablesStay
<1>3. /\ Protocol(report) /\ Moments(report, n) /\ BillsTable(bills)
      /\ report.kind = "deck" => FiguresRead(report, bills) /\ TopRead(report, bills)
                                 /\ TrendRead(report, bills) /\ SlabsRead(report, bills)
      /\ ReorderRead(report, bills)
  BY DEF ReportInv, ReportRead, ShopTyped, DeckRead
<1> HIDE DEF s, n
<1>4. ReportRead(s, bills)
  <2>0. report.kind = "deck" /\ s.kind = "deck"
    BY <1>1, <1>3 DEF Protocol
  <2>1. Later(report, s, n) /\ s.seen = report.seen
    BY <1>1 DEF Later
  <2>2. Moments(s, n) /\ n \in s.seen..s.upTo /\ report.seen..report.upTo \subseteq s.seen..s.upTo
    BY <1>1, <1>3, <2>1, LaterTyped
  <2>3. Protocol(s)
    BY <1>1, <1>3 DEF Protocol
  <2>4. ReorderRead(s, bills)
    BY <2>0 DEF ReorderRead
  <2>5. FiguresRead(s, bills)
    BY <1>1, <1>3, <2>0, FiguresStay
  <2>6. TopRead(s, bills)
    BY <1>1, <1>3, <2>0, <2>2, TopStays
  <2>7. SlabsRead(s, bills)
    BY <1>1 DEF SlabsRead
  <2>8. PICK ks \in Seq(report.seen..report.upTo) : TrendIs(report, bills, ks) /\ Len(ks) < WindowDays
    BY <1>1, <1>3, <2>0 DEF TrendRead
  <2>9. ks \in Seq(s.seen..s.upTo) /\ Len(ks) \in Nat
    BY <2>2, <2>8, SeqMonotonic, LenProperties
  <2>10. Append(ks, n) \in Seq(s.seen..s.upTo) /\ Len(Append(ks, n)) = Len(ks) + 1
         /\ \A i \in 1..Len(ks) + 1 : Append(ks, n)[i] = IF i <= Len(ks) THEN ks[i] ELSE n
    BY <2>2, <2>9, AppendProperties
  <2>11. InRange(report.trendFirst + Len(ks), report.trendFirst + Len(ks))
           = Known(bills, report.trendFirst + Len(ks), report.trendFirst + Len(ks), n)
    BY <1>3, KnownNow DEF n
  <2>12. Len(report.trend) = Len(ks)
    BY <2>8, <2>9 DEF TrendIs
  <2>13. TrendIs(s, bills, Append(ks, n))
    BY <1>1, <2>8, <2>9, <2>10, <2>11, <2>12, TrendAppends DEF l, day
  <2>14. WindowDays \in Nat
    BY SalesFiguresAssumption
  <2>15. /\ s.pc \in {"trend", "slabs"}
         /\ s.pc = "trend" => Len(ks) + 1 < WindowDays
         /\ s.pc = "slabs" => Len(ks) + 1 = WindowDays
    BY <1>1, <2>8, <2>9, <2>12, <2>14 DEF l
  <2>16. TrendRead(s, bills)
    BY <2>10, <2>13, <2>15 DEF TrendRead
  <2> QED
    BY <2>2, <2>3, <2>4, <2>5, <2>6, <2>7, <2>16 DEF ReportRead, DeckRead, n
<1> QED
  BY <1>2, <1>4 DEF s

\* The GST by slab.
LEMMA LoadSlabsReads ==
  ASSUME ReportInv, LoadSlabs
  PROVE  ShopTyped' /\ ReportRead(report, bills)'
<1> DEFINE s == report'
           n == Cardinality(bills)
<1>1. /\ report.pc = "slabs" /\ s.pc = "topQty"
      /\ s.kind = report.kind /\ s.first = report.first /\ s.last = report.last /\ s.upTo = n
      /\ s.figures = report.figures /\ s.top = report.top
      /\ s.trend = report.trend /\ s.trendFirst = report.trendFirst /\ s.slabs = TaxBySlab(Window) /\ s.seen = report.seen
      /\ UNCHANGED <<now, stock, bills, till>>
  BY DEF LoadSlabs, Read, ReportInv, CloseInv, Shaped, NoReport
<1>2. ShopTyped' /\ bills' = bills
  BY <1>1, TablesStay
<1>3. /\ Protocol(report) /\ Moments(report, n) /\ BillsTable(bills)
      /\ report.kind = "deck" => FiguresRead(report, bills) /\ TopRead(report, bills)
                                 /\ TrendRead(report, bills) /\ SlabsRead(report, bills)
      /\ ReorderRead(report, bills)
  BY DEF ReportInv, ReportRead, ShopTyped, DeckRead
<1> HIDE DEF s, n
<1>4. ReportRead(s, bills)
  <2>0. report.kind = "deck" /\ s.kind = "deck"
    BY <1>1, <1>3 DEF Protocol
  <2>1. Later(report, s, n) /\ s.seen = report.seen
    BY <1>1 DEF Later
  <2>2. Moments(s, n) /\ n \in s.seen..s.upTo /\ report.seen..report.upTo \subseteq s.seen..s.upTo
    BY <1>1, <1>3, <2>1, LaterTyped
  <2>3. Protocol(s)
    BY <1>1, <1>3 DEF Protocol
  <2>4. ReorderRead(s, bills)
    BY <2>0 DEF ReorderRead
  <2>5. FiguresRead(s, bills)
    BY <1>1, <1>3, <2>0, FiguresStay
  <2>6. TopRead(s, bills)
    BY <1>1, <1>3, <2>0, <2>2, TopStays
  <2>7. Window = WindowAt(s, bills, n)
    BY <1>1, <1>3, KnownNow DEF Window, WindowAt, n
  <2>8. SlabsRead(s, bills)
    BY <1>1, <2>2, <2>7 DEF SlabsRead
  <2>9. TrendRead(s, bills)
    BY <1>1, <1>3, <2>0, <2>2, TrendStays
  <2> QED
    BY <2>2, <2>3, <2>4, <2>5, <2>6, <2>8, <2>9 DEF ReportRead, DeckRead, n
<1> QED
  BY <1>2, <1>4 DEF s

\* The top Products by quantity.
LEMMA LoadTopByQuantityReads ==
  ASSUME ReportInv, LoadTopByQuantity
  PROVE  ShopTyped' /\ ReportRead(report, bills)'
<1> DEFINE s == report'
           n == Cardinality(bills)
<1>1. /\ report.pc = "topQty" /\ s.pc = "low"
      /\ s.kind = report.kind /\ s.first = report.first /\ s.last = report.last /\ s.upTo = n
      /\ s.figures = report.figures /\ s.top = report.top
      /\ s.trend = report.trend /\ s.trendFirst = report.trendFirst /\ s.slabs = report.slabs /\ s.seen = report.seen
      /\ UNCHANGED <<now, stock, bills, till>>
  BY DEF LoadTopByQuantity, Read, ReportInv, CloseInv, Shaped, NoReport
<1>2. ShopTyped' /\ bills' = bills
  BY <1>1, TablesStay
<1>3. /\ Protocol(report) /\ Moments(report, n) /\ BillsTable(bills)
      /\ report.kind = "deck" => FiguresRead(report, bills) /\ TopRead(report, bills)
                                 /\ TrendRead(report, bills) /\ SlabsRead(report, bills)
      /\ ReorderRead(report, bills)
  BY DEF ReportInv, ReportRead, ShopTyped, DeckRead
<1> HIDE DEF s, n
<1>4. ReportRead(s, bills)
  <2>0. report.kind = "deck" /\ s.kind = "deck"
    BY <1>1, <1>3 DEF Protocol
  <2>1. Later(report, s, n) /\ s.seen = report.seen
    BY <1>1 DEF Later
  <2>2. Moments(s, n) /\ n \in s.seen..s.upTo /\ report.seen..report.upTo \subseteq s.seen..s.upTo
    BY <1>1, <1>3, <2>1, LaterTyped
  <2>3. Protocol(s)
    BY <1>1, <1>3 DEF Protocol
  <2>4. ReorderRead(s, bills)
    BY <2>0 DEF ReorderRead
  <2>5. FiguresRead(s, bills)
    BY <1>1, <1>3, <2>0, FiguresStay
  <2>6. TopRead(s, bills)
    BY <1>1, <1>3, <2>0, <2>2, TopStays
  <2>7. SlabsRead(s, bills)
    BY <1>1, <1>3, <2>0, <2>2, SlabsStay
  <2>8. TrendRead(s, bills)
    BY <1>1, <1>3, <2>0, <2>2, TrendStays
  <2> QED
    BY <2>2, <2>3, <2>4, <2>5, <2>6, <2>7, <2>8 DEF ReportRead, DeckRead, n
<1> QED
  BY <1>2, <1>4 DEF s

\* The stock is that of the Bills there are.
LEMMA LoadLowStockReads ==
  ASSUME ReportInv, LoadLowStock
  PROVE  ShopTyped' /\ ReportRead(report, bills)'
<1> DEFINE s == report'
           n == Cardinality(bills)
<1>1. /\ report.pc = "low" /\ s.pc = (IF report.kind = "deck" THEN "done" ELSE "sold")
      /\ s.kind = report.kind /\ s.first = report.first /\ s.last = report.last /\ s.upTo = n
      /\ s.figures = report.figures /\ s.top = report.top /\ s.trend = report.trend
      /\ s.trendFirst = report.trendFirst /\ s.slabs = report.slabs /\ s.low = LowStock(stock)
      /\ s.seen = (IF report.kind = "reorder" THEN n ELSE report.seen)
      /\ UNCHANGED <<now, stock, bills, till>>
  BY DEF LoadLowStock, Read, ReportInv, CloseInv, Shaped, NoReport
<1>2. ShopTyped' /\ bills' = bills
  BY <1>1, TablesStay
<1>3. /\ Protocol(report) /\ Moments(report, n) /\ BillsTable(bills)
      /\ report.kind = "deck" => FiguresRead(report, bills) /\ TopRead(report, bills)
                                 /\ TrendRead(report, bills) /\ SlabsRead(report, bills)
      /\ ReorderRead(report, bills)
  BY DEF ReportInv, ReportRead, ShopTyped, DeckRead
<1> HIDE DEF s, n
<1>4. ReportRead(s, bills)
  <2>1. Later(report, s, n) /\ s.seen \in {report.seen, n}
    BY <1>1 DEF Later
  <2>2. Moments(s, n)
    BY <1>1, <1>3, <2>1, LaterTyped
  <2>3. report.kind \in {"deck", "reorder"} /\ Protocol(s)
    BY <1>1, <1>3 DEF Protocol
  <2>4. CASE report.kind = "deck"
    <3>0. s.kind = "deck" /\ s.pc = "done" /\ s.seen = report.seen
      BY <1>1, <2>4
    <3>1. report.seen..report.upTo \subseteq s.seen..s.upTo
      BY <1>3, <2>1, <3>0, LaterTyped
    <3>2. ReorderRead(s, bills)
      BY <3>0 DEF ReorderRead
    <3>3. FiguresRead(s, bills)
      BY <1>1, <1>3, <2>4, <3>0, FiguresStay
    <3>4. TopRead(s, bills)
      BY <1>1, <1>3, <2>4, <3>1, TopStays
    <3>5. SlabsRead(s, bills)
      BY <1>1, <1>3, <2>4, <3>1, SlabsStay
    <3>6. TrendRead(s, bills)
      BY <1>1, <1>3, <2>4, <3>0, <3>1, TrendStays
    <3> QED
      BY <2>2, <2>3, <3>2, <3>3, <3>4, <3>5, <3>6 DEF ReportRead, DeckRead, n
  <2>5. CASE report.kind = "reorder"
    <3>0. s.kind = "reorder" /\ s.pc = "sold" /\ s.seen = n
      BY <1>1, <2>5
    <3>1. stock = StockAt(bills, n)
      <4>1. \A b \in bills : b.id <= n
        <5>1. n \in Nat /\ \A b \in bills : b.id \in 1..n
          BY <1>3, CardParts DEF BillsTable, BillSet, n
        <5> QED
          BY <5>1
      <4>2. {b \in bills : b.id <= n} = bills
        BY <4>1
      <4>3. stock = [p \in ProductIds |-> OpeningStock[p] - UnitsSold(p, bills)]
        BY DEF ReportInv, ShopTyped, StockIs
      <4> QED
        BY <4>2, <4>3 DEF StockAt
    <3>2. ReorderRead(s, bills)
      BY <1>1, <3>0, <3>1 DEF ReorderRead
    <3> QED
      BY <2>2, <2>3, <3>0, <3>2 DEF ReportRead, DeckRead, n
  <2> QED
    BY <2>3, <2>4, <2>5
<1> QED
  BY <1>2, <1>4 DEF s

\* The sales are those of some moment not before the stock's.
LEMMA LoadSoldReads ==
  ASSUME ReportInv, LoadSold
  PROVE  ShopTyped' /\ ReportRead(report, bills)'
<1> DEFINE s == report'
           n == Cardinality(bills)
<1>1. PICK list \in Suggestions(report.low, Window) :
      /\ report.pc = "sold" /\ s.pc = "done"
      /\ s.kind = report.kind /\ s.first = report.first /\ s.last = report.last /\ s.upTo = n
      /\ s.low = report.low /\ s.suggestions = list /\ s.seen = report.seen
      /\ UNCHANGED <<now, stock, bills, till>>
  BY DEF LoadSold, Read, ReportInv, CloseInv, Shaped, NoReport
<1>2. ShopTyped' /\ bills' = bills
  BY <1>1, TablesStay
<1>3. /\ Protocol(report) /\ Moments(report, n) /\ BillsTable(bills)
      /\ report.kind = "deck" => FiguresRead(report, bills) /\ TopRead(report, bills)
                                 /\ TrendRead(report, bills) /\ SlabsRead(report, bills)
      /\ ReorderRead(report, bills)
  BY DEF ReportInv, ReportRead, ShopTyped, DeckRead
<1> HIDE DEF s, n
<1>4. ReportRead(s, bills)
  <2>0. report.kind = "reorder" /\ s.kind = "reorder"
    BY <1>1, <1>3 DEF Protocol
  <2>1. Later(report, s, n)
    BY <1>1 DEF Later
  <2>2. Moments(s, n) /\ n \in s.seen..s.upTo
    BY <1>1, <1>3, <2>1, LaterTyped
  <2>3. Protocol(s)
    BY <1>1, <1>3 DEF Protocol
  <2>4. Window = WindowAt(s, bills, n)
    BY <1>1, <1>3, KnownNow DEF Window, WindowAt, n
  <2>5. s.low = LowStock(StockAt(bills, s.seen))
    BY <1>1, <1>3, <2>0 DEF ReorderRead
  <2>6. s.suggestions \in Suggestions(s.low, WindowAt(s, bills, n))
    BY <1>1, <2>4
  <2>7. ReorderRead(s, bills)
    BY <2>2, <2>5, <2>6 DEF ReorderRead
  <2> QED
    BY <2>0, <2>2, <2>3, <2>7 DEF ReportRead, DeckRead, n
<1> QED
  BY <1>2, <1>4 DEF s

-----------------------------------------------------------------------------
LEMMA ReportInit == Init => ReportInv
<1> SUFFICES ASSUME Init PROVE ReportInv
  OBVIOUS
<1>1. CloseInv
  BY CloseInit
<1>2. /\ now = 0 /\ stock = OpeningStock /\ bills = {} /\ till = [t \in Tills |-> Idle]
      /\ report.kind = "none" /\ report.pc = "done" /\ report.first = 0 /\ report.last = 0
      /\ report.seen = 0 /\ report.upTo = 0
  BY DEF Init, NoReport
<1>3. IsFiniteSet({}) /\ Cardinality({}) = 0
  BY CardEmpty
<1>4. BillsTable({})
  BY <1>3 DEF BillsTable, BillSet
<1>5. StockIs(OpeningStock, {})
  <2>1. OpeningStock \in [ProductIds -> Nat]
    BY ReportsAssumption
  <2>2. \A p \in ProductIds : UnitsSold(p, {}) = 0
    BY SumInEmpty DEF UnitsSold
  <2>3. \A p \in ProductIds : OpeningStock[p] = OpeningStock[p] - UnitsSold(p, {})
    BY <2>1, <2>2
  <2> QED
    BY <2>1, <2>3 DEF StockIs
<1>6. ShopTyped
  BY <1>2, <1>4, <1>5, ReportsAssumption DEF ShopTyped
<1>7. ReportRead(report, bills)
  BY <1>2, <1>3 DEF ReportRead, Protocol, Moments, DeckRead, ReorderRead
<1> QED
  BY <1>1, <1>6, <1>7 DEF ReportInv

LEMMA ReportStep == ReportInv /\ [Next]_vars => ReportInv'
<1> SUFFICES ASSUME ReportInv, [Next]_vars PROVE ShopTyped' /\ ReportRead(report, bills)'
  BY CloseStep DEF ReportInv
<1>0. /\ Today \in Nat /\ FirstOfWindow(Today) \in Int /\ FirstOfWindow(Today) <= Today
      /\ Today = FirstOfWindow(Today) + WindowDays - 1
  <2>1. Today \in Nat
    BY DateIsRange, 0 \in Int DEF ReportInv, CloseInv, Timed, Today
  <2> QED
    BY <2>1, SalesFiguresAssumption DEF FirstOfWindow
<1>1. CASE \/ UNCHANGED vars
           \/ Tick
           \/ \E t \in Tills, sale \in Sales : BeginBill(t, sale)
           \/ \E t \in Tills : RollBack(t)
  BY <1>1, QuietReads
<1>2. ASSUME NEW t \in Tills, CommitBill(t)
      PROVE  ShopTyped' /\ ReportRead(report, bills)'
  BY <1>2, CommitReads
<1>3. ASSUME NEW day \in 0..Today, AskDailyClose(day)
      PROVE  ShopTyped' /\ ReportRead(report, bills)'
  BY <1>0, <1>3, AskReads DEF AskDailyClose
<1>4. CASE AskWeekly
  BY <1>0, <1>4, AskReads DEF AskWeekly
<1>5. CASE AskDeck
  BY <1>0, <1>5, AskReads DEF AskDeck
<1>6. CASE AskReorder
  BY <1>0, <1>6, AskReads DEF AskReorder
<1>7. CASE LoadBills \/ LoadTop \/ StartTrend \/ LoadTrendDay
  BY <1>7, LoadBillsReads, LoadTopReads, StartTrendReads, LoadTrendDayReads
<1>8. CASE LoadSlabs \/ LoadTopByQuantity \/ LoadLowStock \/ LoadSold
  BY <1>8, LoadSlabsReads, LoadTopByQuantityReads, LoadLowStockReads, LoadSoldReads
<1> QED
  BY <1>1, <1>2, <1>3, <1>4, <1>5, <1>6, <1>7, <1>8 DEF Next

\* For any calendar and number of tills: stock is never oversold, Bills are
\* numbered in the order they commit and no two share a number, and a report is
\* always at a SELECT of its kind.
THEOREM ReportsTyped == Spec => []TypeOK
<1>1. ReportInv => TypeOK
  <2> SUFFICES ASSUME ReportInv PROVE TypeOK
    OBVIOUS
  <2>1. now \in 0..MaxSlot /\ stock \in [ProductIds -> Nat]
    BY DEF ReportInv, ShopTyped, StockIs
  <2>2. now \in Nat /\ \A b \in bills : /\ b.id \in 1..Cardinality(bills) /\ b.at \in Nat /\ b.at <= now
                                        /\ b.mode \in PaymentModes
    BY AmountTyped DEF ReportInv, ShopTyped, BillsTable, BillSet, CloseInv, Timed
  <2>3. \A b \in bills : b.id \in 1..Cardinality(bills) /\ b.at \in 0..now /\ b.mode \in PaymentModes
    BY <2>2
  <2>4. \A b, c \in bills : b.id = c.id => b = c
    BY DEF ReportInv, ShopTyped, BillsTable
  <2>5. \A t \in Tills : till[t] = Idle \/ (till[t].sale \in Sales /\ till[t].begun \in 0..now)
    BY DEF ReportInv, ShopTyped
  <2>6. /\ report.kind \in {"none", "close", "weekly", "deck", "reorder"} /\ report.first <= report.last
        /\ report.pc \in {"bills", "top", "window", "trend", "slabs", "topQty", "low", "sold", "done"}
    BY DEF ReportInv, ReportRead, Protocol
  <2> QED
    BY <2>1, <2>3, <2>4, <2>5, <2>6 DEF TypeOK
<1> QED
  BY <1>1, ReportInit, ReportStep, PTL DEF Spec

-----------------------------------------------------------------------------
(* The slides of one deck *)

\* A deck that is done.
DeckDone == ReportInv /\ report.kind = "deck" /\ report.pc = "done"

\* The Bills of the figures on the title.
TitleBills == WindowAt(report, bills, report.seen)

LEMMA DeckFacts ==
  ASSUME DeckDone
  PROVE  /\ BillsTable(bills) /\ BillSet(TitleBills)
         /\ report.first \in Int /\ report.last = report.first + WindowDays - 1
         /\ report.seen \in Nat /\ report.upTo \in Nat
         /\ report.figures = Figures(TitleBills)
         /\ TopRead(report, bills) /\ TrendRead(report, bills) /\ SlabsRead(report, bills)
<1>1. BillsTable(bills) /\ Protocol(report) /\ Moments(report, Cardinality(bills))
  BY DEF DeckDone, ReportInv, ShopTyped, ReportRead
<1>2. /\ report.first \in Int /\ report.last = report.first + WindowDays - 1
      /\ report.seen \in Nat /\ report.upTo \in Nat
  BY <1>1 DEF Protocol, Moments, DeckDone
<1>3. BillSet(TitleBills)
  BY <1>1, <1>2, KnownGrows DEF TitleBills, WindowAt
<1>4. /\ FiguresRead(report, bills)
      /\ TopRead(report, bills) /\ TrendRead(report, bills) /\ SlabsRead(report, bills)
  BY DEF DeckDone, ReportInv, ReportRead, DeckRead
<1>5. report.figures = Figures(TitleBills)
  BY <1>4 DEF FiguresRead, DeckDone, TitleBills
<1> QED
  BY <1>1, <1>2, <1>3, <1>4, <1>5

LEMMA DeckFigures ==
  ASSUME DeckDone
  PROVE  /\ report.figures.split = ModeSplit(TitleBills)
         /\ report.figures.totals.total = Total("total", TitleBills)
         /\ report.figures.totals.subtotal = Total("subtotal", TitleBills)
         /\ report.figures.totals.roundOff = Total("roundOff", TitleBills)
         /\ report.figures.totals.tax = Total("cgst", TitleBills) + Total("sgst", TitleBills)
<1>1. report.figures = Figures(TitleBills)
  BY DeckFacts
<1> QED
  BY <1>1 DEF Figures, Totals

\* GST by slab.
LEMMA DeckTax ==
  ASSUME DeckDone
  PROVE  LET slabs == report.slabs
             tax   == SumIn([slab \in DOMAIN slabs |-> slabs[slab].tax], DOMAIN slabs)
         IN  /\ tax >= Total("cgst", TitleBills) + Total("sgst", TitleBills)
             /\ report.seen = report.upTo => tax = Total("cgst", TitleBills) + Total("sgst", TitleBills)
<1>1. PICK k \in report.seen..report.upTo : report.slabs = TaxBySlab(WindowAt(report, bills, k))
  BY DeckFacts DEF SlabsRead, DeckDone
<1> DEFINE U == WindowAt(report, bills, k)
           slabs == report.slabs
           tax   == SumIn([slab \in DOMAIN slabs |-> slabs[slab].tax], DOMAIN slabs)
<1>2. /\ k \in Nat /\ report.seen \in Nat /\ report.seen <= k
      /\ report.seen = report.upTo => k = report.seen
  BY DeckFacts
<1>3. TitleBills \in SUBSET U /\ BillSet(U) /\ BillSet(TitleBills)
  BY <1>2, DeckFacts, KnownGrows DEF WindowAt, TitleBills
<1>4. slabs = TaxBySlab(U)
  BY <1>1
<1>5. report.seen = report.upTo => U = TitleBills
  BY <1>2 DEF TitleBills
<1> HIDE DEF U
<1>6. tax = Total("cgst", U) + Total("sgst", U)
  BY <1>3, <1>4, SlabsAddUp
<1>7. "cgst" \in NatColumns /\ "sgst" \in NatColumns
  BY DEF NatColumns
<1>8. /\ Total("cgst", TitleBills) <= Total("cgst", U) /\ Total("sgst", TitleBills) <= Total("sgst", U)
      /\ Total("cgst", U) \in Nat /\ Total("sgst", U) \in Nat
      /\ Total("cgst", TitleBills) \in Nat /\ Total("sgst", TitleBills) \in Nat
  BY <1>3, <1>7, TotalGrows, TotalTyped
<1> HIDE DEF tax
<1>9. tax >= Total("cgst", TitleBills) + Total("sgst", TitleBills)
  BY <1>6, <1>8
<1>10. report.seen = report.upTo => tax = Total("cgst", TitleBills) + Total("sgst", TitleBills)
  BY <1>5, <1>6
<1> QED
  BY <1>9, <1>10 DEF tax

\* The trend.
LEMMA DeckTrend ==
  ASSUME DeckDone, report.trendFirst = report.first
  PROVE  LET slide == TrendSlide(report)
             trend == SumIn(slide, DOMAIN slide)
         IN  /\ trend >= Total("total", TitleBills)
             /\ report.seen = report.upTo => trend = Total("total", TitleBills)
<1>1. PICK ks \in Seq(report.seen..report.upTo) :
        TrendIs(report, bills, ks) /\ Len(ks) = WindowDays
  BY DeckFacts DEF TrendRead, DeckDone
<1> DEFINE W == WindowDays
           first == report.first
           day(i) == Known(bills, first + i - 1, first + i - 1, ks[i])
           sums == DayTotals(bills, first, ks)
<1>2. W \in Nat /\ report.seen \in Nat /\ report.upTo \in Nat /\ first \in Int
  BY DeckFacts, SalesFiguresAssumption
<1>3. \A i \in 1..W : ks[i] \in report.seen..report.upTo
  BY <1>1, ElementOfSeq
<1>4. \A i \in 1..W : ks[i] \in Nat /\ report.seen <= ks[i]
                      /\ (report.seen = report.upTo => ks[i] = report.seen)
  BY <1>2, <1>3
<1>5. TitleBills = Known(bills, first, first + W - 1, report.seen)
  BY DeckFacts DEF TitleBills, WindowAt
<1>6. report.trend = [i \in 1..W |-> Totals(day(i))]
  BY <1>1 DEF TrendIs, TrendDay
<1>7. \A i \in 1..W : Totals(day(i)).total = Total("total", day(i))
  BY DEF Totals
<1>8. TrendSlide(report) = sums /\ DOMAIN sums = 1..W
  BY <1>6, <1>7 DEF TrendSlide, DayTotals
<1>9. BillsTable(bills)
  BY DeckFacts
<1>10. /\ SumIn(sums, 1..W) >= Total("total", Known(bills, first, first + W - 1, report.seen))
       /\ (\A i \in 1..W : ks[i] = report.seen)
            => SumIn(sums, 1..W) = Total("total", Known(bills, first, first + W - 1, report.seen))
  BY <1>2, <1>4, <1>9, TrendAddsUp
<1> HIDE DEF sums, W, first
<1>11. report.seen = report.upTo => \A i \in 1..W : ks[i] = report.seen
  BY <1>4
<1> QED
  BY <1>5, <1>8, <1>10, <1>11

\* The top Products, if no Bill was committed meanwhile.
LEMMA DeckTop ==
  ASSUME DeckDone, report.seen = report.upTo
  PROVE  LET top   == Head5(report.top)
             items == SumIn([i \in DOMAIN top |-> top[i].revenue], DOMAIN top)
         IN  /\ items <= Total("subtotal", TitleBills)
             /\ Cardinality(ProductRows(Window)) <= Min({TopLimit, TopOnSlide})
                  => items = Total("subtotal", TitleBills)
<1>1. PICK k \in report.seen..report.upTo : report.top \in TopRows(WindowAt(report, bills, k), "revenue")
  BY DeckFacts DEF TopRead, DeckDone
<1>2. k = report.seen
  BY DeckFacts
<1>3. report.top \in TopRows(TitleBills, "revenue") /\ BillSet(TitleBills)
  BY <1>1, <1>2, DeckFacts DEF TitleBills
<1> DEFINE top   == Head5(report.top)
           items == SumIn([i \in DOMAIN top |-> top[i].revenue], DOMAIN top)
           m     == Min({TopLimit, TopOnSlide})
<1>4. /\ items <= Total("subtotal", TitleBills)
      /\ Cardinality(ProductRows(TitleBills)) <= m => items = Total("subtotal", TitleBills)
  BY <1>3, TopAddsUp
<1>5. TitleBills \in SUBSET Window /\ BillSet(Window)
  <2>1. Window \in SUBSET bills /\ TitleBills \in SUBSET Window
    BY DEF Window, InRange, TitleBills, WindowAt, Known
  <2>2. BillSet(bills)
    BY DeckFacts DEF BillsTable
  <2> QED
    BY <2>1, <2>2, PartOfBillSet
<1>6. /\ Cardinality(ProductRows(TitleBills)) <= Cardinality(ProductRows(Window))
      /\ Cardinality(ProductRows(TitleBills)) \in Nat /\ Cardinality(ProductRows(Window)) \in Nat
  BY <1>5, RowsGrow
<1>7. m \in Nat
  BY MinOfTwo, SalesFiguresAssumption
<1> HIDE DEF items, m
<1>8. Cardinality(ProductRows(Window)) <= m => items = Total("subtotal", TitleBills)
  BY <1>4, <1>6, <1>7
<1> QED
  BY <1>4, <1>8 DEF items, m

\* gather_analysis_deck_data, for any calendar, Products, tills and number of
\* Bills committed while the slides are read: the payment mix adds up to the
\* title's total; the GST by slab and (with the title's window) the daily trend
\* miss no sale of the title; and without Bills in between they agree with it,
\* and the top Products add up to no more than the subtotal.
THEOREM DeckAlwaysAddsUp == Spec => []DeckAddsUp
<1>1. ReportInv => DeckAddsUp
  <2> SUFFICES ASSUME ReportInv, report.kind = "deck", report.pc = "done" PROVE DeckAddsUp
    BY DEF DeckAddsUp
  <2> DEFINE deck == Deck(report)
             trend  == SumIn(deck.trend, DOMAIN deck.trend)
             tax    == SumIn(deck.slabs, DOMAIN deck.slabs)
             items  == SumIn([i \in DOMAIN deck.topItems.byRevenue |-> deck.topItems.byRevenue[i].revenue],
                             DOMAIN deck.topItems.byRevenue)
             sums == report.figures.totals
  <2>0. DeckDone
    BY DEF DeckDone
  <2>1. /\ deck.mix = report.figures.split /\ deck.title.total = sums.total
        /\ deck.insights.tax = sums.tax /\ deck.trend = TrendSlide(report)
        /\ deck.topItems.byRevenue = Head5(report.top)
        /\ deck.slabs = [slab \in DOMAIN report.slabs |-> report.slabs[slab].tax]
        /\ DOMAIN deck.slabs = DOMAIN report.slabs
    BY DEF Deck, MixSlide, TitleSlide, InsightsSlide, TopItemsSlide, SlabSlide
  <2>2. /\ report.figures.split = ModeSplit(TitleBills)
        /\ sums.total = Total("total", TitleBills)
        /\ sums.subtotal = Total("subtotal", TitleBills)
        /\ sums.roundOff = Total("roundOff", TitleBills)
        /\ sums.tax = Total("cgst", TitleBills) + Total("sgst", TitleBills)
    BY <2>0, DeckFigures
  <2>3. BillSet(TitleBills)
    BY <2>0, DeckFacts
  <2> HIDE DEF deck, sums
  <2>4. SumIn(deck.mix, PaymentModes) = deck.title.total
    BY <2>1, <2>2, <2>3, MixAddsUp
  <2>5. sums.total = sums.subtotal + sums.roundOff
    BY <2>2, <2>3, RoundOffAddsUp
  <2>6. tax >= deck.insights.tax /\ (report.seen = report.upTo => tax = deck.insights.tax)
    BY <2>0, <2>1, <2>2, DeckTax
  <2>7. report.trendFirst = report.first =>
          trend >= deck.title.total /\ (report.seen = report.upTo => trend = deck.title.total)
    BY <2>0, <2>1, <2>2, DeckTrend
  <2>8. report.seen = report.upTo =>
          /\ items <= sums.subtotal
          /\ Cardinality(ProductRows(Window)) <= Min({TopLimit, TopOnSlide}) => items = sums.subtotal
    BY <2>0, <2>1, <2>2, DeckTop
  <2> HIDE DEF trend, tax, items
  <2>9. /\ SumIn(deck.mix, PaymentModes) = deck.title.total
        /\ sums.total = sums.subtotal + sums.roundOff
        /\ tax >= deck.insights.tax
        /\ report.trendFirst = report.first => trend >= deck.title.total
        /\ report.seen = report.upTo =>
             /\ tax = deck.insights.tax
             /\ report.trendFirst = report.first => trend = deck.title.total
             /\ items <= sums.subtotal
             /\ Cardinality(ProductRows(Window)) <= Min({TopLimit, TopOnSlide}) => items = sums.subtotal
    BY <2>4, <2>5, <2>6, <2>7, <2>8
  <2> QED
    BY <2>9 DEF DeckAddsUp, deck, trend, tax, items, sums
<1> QED
  BY <1>1, ReportInit, ReportStep, PTL DEF Spec

-----------------------------------------------------------------------------
(* Reorder suggestions *)

Increasing(s) == \A i, j \in DOMAIN s : i < j => s[i] < s[j]

\* Every set of Products can be listed in order.
LEMMA InOrderExists ==
  ASSUME NEW N \in Nat, NEW S \in SUBSET (0..N)
  PROVE  \E s \in [1..Cardinality(S) -> S] : Increasing(s)
<1> DEFINE Listed(T) == \E s \in [1..Cardinality(T) -> T] : Increasing(s)
           P == {n \in Nat : \A T \in SUBSET (0..N) : Cardinality(T) = n => Listed(T)}
<1>0. \A T \in SUBSET (0..N) : IsFiniteSet(T) /\ Cardinality(T) \in Nat
  <2>1. IsFiniteSet(0..N)
    BY FS_Interval, 0 \in Int, N \in Int
  <2> QED
    BY <2>1, CardParts
<1>1. 0 \in P
  <2>1. ASSUME NEW T \in SUBSET (0..N), Cardinality(T) = 0
        PROVE  Listed(T)
    <3>1. [i \in 1..0 |-> i] \in [1..0 -> T] /\ Increasing([i \in 1..0 |-> i])
      BY DEF Increasing
    <3> QED
      BY <2>1, <3>1
  <2> QED
    BY <2>1
<1>2. ASSUME NEW n \in P
      PROVE  n + 1 \in P
  <2>1. ASSUME NEW T \in SUBSET (0..N), Cardinality(T) = n + 1
        PROVE  Listed(T)
    <3>1. n \in Nat /\ IsFiniteSet(T) /\ n + 1 # 0
      BY <1>0
    <3>2. T # {}
      BY <2>1, <3>1, CardEmpty
    <3>3. PICK m \in T : \A k \in T : k <= m
      BY <3>2, LargestExists
    <3>4. T \ {m} \in SUBSET (0..N) /\ Cardinality(T \ {m}) = n
      <4>1. Cardinality(T \ {m}) = Cardinality(T) - 1
        BY <3>1, CardLess
      <4> QED
        BY <2>1, <3>1, <4>1
    <3>5. PICK s \in [1..n -> T \ {m}] : Increasing(s)
      BY <3>4
    <3> DEFINE u == [i \in 1..n + 1 |-> IF i <= n THEN s[i] ELSE m]
    <3>6. u \in [1..n + 1 -> T]
      BY <3>1, <3>3, <3>5
    <3>7. Increasing(u)
      <4>1. \A i \in 1..n : s[i] \in 0..N /\ s[i] <= m /\ s[i] # m
        BY <3>3, <3>5
      <4>2. m \in 0..N
        BY <3>3
      <4>3. ASSUME NEW i \in 1..n + 1, NEW j \in 1..n + 1, i < j
            PROVE  u[i] < u[j]
        <5>1. i \in 1..n /\ u[i] = s[i]
          BY <3>1, <4>3
        <5>2. CASE j <= n
          <6>1. j \in 1..n /\ u[j] = s[j] /\ DOMAIN s = 1..n
            BY <3>1, <5>2
          <6> QED
            BY <3>5, <4>3, <5>1, <6>1 DEF Increasing
        <5>3. CASE ~(j <= n)
          <6>1. u[j] = m
            BY <5>3
          <6>2. s[i] \in Int /\ m \in Int /\ s[i] <= m /\ s[i] # m
            BY <4>1, <4>2, <5>1
          <6> QED
            BY <5>1, <6>1, <6>2
        <5> QED
          BY <5>2, <5>3
      <4> HIDE DEF u
      <4>4. DOMAIN u = 1..n + 1
        BY <3>6
      <4> QED
        BY <4>3, <4>4 DEF Increasing
    <3> HIDE DEF u
    <3> QED
      BY <2>1, <3>6, <3>7
  <2>2. n + 1 \in Nat
    OBVIOUS
  <2> QED
    BY <2>1, <2>2
<1> HIDE DEF P
<1>3. P \in SUBSET Nat
  BY DEF P
<1>4. P = Nat
  BY <1>1, <1>2, <1>3, SetInduction
<1> QED
  BY <1>0, <1>4 DEF P

\* The rows of list_low_stock are Products below their Reorder Level.
LEMMA LowRows ==
  ASSUME NEW q, NEW i \in DOMAIN LowStock(q)
  PROVE  LET row == LowStock(q)[i]
         IN  /\ row.product \in ProductIds /\ row.quantity = q[row.product]
             /\ q[row.product] < ReorderLevel[row.product]
<1> DEFINE S == {p \in ProductIds : q[p] < ReorderLevel[p]}
           low == InOrder(S)
<1>1. NumProducts \in Nat /\ S \in SUBSET (0..NumProducts)
  BY ProductsFinite DEF ProductIds
<1>2. \E s \in [1..Cardinality(S) -> S] : Increasing(s)
  BY <1>1, InOrderExists
<1>3. low \in [1..Cardinality(S) -> S]
  BY <1>2 DEF InOrder, Increasing
<1>4. LowStock(q) = [j \in DOMAIN low |-> [product |-> low[j], quantity |-> q[low[j]]]]
  BY DEF LowStock
<1> HIDE DEF low
<1>5. i \in DOMAIN low /\ low[i] \in S
  BY <1>3, <1>4
<1>6. LowStock(q)[i] = [product |-> low[i], quantity |-> q[low[i]]]
  BY <1>4, <1>5
<1> QED
  BY <1>5, <1>6

\* A suggestion is such a row with what was sold of its Product.
LEMMA SuggestionRows ==
  ASSUME NEW q, NEW bs, NEW list \in Suggestions(LowStock(q), bs), NEW i \in DOMAIN list
  PROVE  LET row == list[i]
         IN  /\ row.product \in ProductIds
             /\ row = [product |-> row.product, quantity |-> q[row.product],
                       sold |-> UnitsSold(row.product, bs)]
             /\ q[row.product] < ReorderLevel[row.product]
<1> DEFINE low == LowStock(q)
           row(j) == [product |-> low[j].product, quantity |-> low[j].quantity,
                      sold |-> UnitsSold(low[j].product, bs)]
<1>1. list \in [DOMAIN low -> {row(j) : j \in DOMAIN low}]
  BY DEF Suggestions
<1> HIDE DEF low
<1>2. PICK j \in DOMAIN low : list[i] = row(j)
  BY <1>1
<1>3. /\ low[j].product \in ProductIds /\ low[j].quantity = q[low[j].product]
      /\ q[low[j].product] < ReorderLevel[low[j].product]
  BY LowRows DEF low
<1>4. list[i] = [product |-> low[j].product, quantity |-> q[low[j].product],
                 sold |-> UnitsSold(low[j].product, bs)]
  BY <1>2, <1>3
<1> QED
  BY <1>3, <1>4

\* Two suggestions are of different Products, and the first runs out first.
LEMMA SuggestionOrder ==
  ASSUME NEW q, NEW bs, BillSet(bs), NEW list \in Suggestions(LowStock(q), bs),
         \A p \in ProductIds : q[p] \in Int,
         NEW i \in DOMAIN list, NEW j \in DOMAIN list, i < j, i # j
  PROVE  LET a == list[i]
             b == list[j]
         IN  /\ b.sold > 0 => a.sold > 0 /\ a.quantity * b.sold <= b.quantity * a.sold
             /\ a.product # b.product
<1> DEFINE a == list[i]
           b == list[j]
<1>1. /\ a.product \in ProductIds
      /\ a = [product |-> a.product, quantity |-> q[a.product], sold |-> UnitsSold(a.product, bs)]
      /\ b.product \in ProductIds
      /\ b = [product |-> b.product, quantity |-> q[b.product], sold |-> UnitsSold(b.product, bs)]
  BY SuggestionRows
<1>2. IsInjective(list) /\ ~RunsOutBefore(b, a)
  BY DEF Suggestions
<1>3. a # b
  BY <1>2 DEF IsInjective
<1> HIDE DEF a, b
<1>4. a.product # b.product
  BY <1>1, <1>3
<1>5. a.sold \in Nat /\ b.sold \in Nat /\ a.quantity \in Int /\ b.quantity \in Int
  BY <1>1, ProductSums
<1>6. b.sold > 0 => a.sold > 0
  BY <1>2, <1>5 DEF RunsOutBefore
<1>7. b.sold > 0 => ~(b.quantity * a.sold < a.quantity * b.sold)
  BY <1>2, <1>6 DEF RunsOutBefore
<1>8. b.quantity * a.sold \in Int /\ a.quantity * b.sold \in Int
  BY <1>5
<1>9. b.sold > 0 => a.quantity * b.sold <= b.quantity * a.sold
  BY <1>7, <1>8
<1> QED
  BY <1>4, <1>6, <1>9 DEF a, b

\* reorder_suggestions, for any Products, stock and sales meanwhile: the stock of
\* a suggestion is what the Bills of one moment left, below the Reorder Level; no
\* sale of the window's business days that lowered it is missing from its
\* velocity; no Product is suggested twice, and the one that runs out first comes
\* first.
THEOREM SuggestionsAlwaysErrEarly == Spec => []SuggestionsErrEarly
<1>1. ReportInv => SuggestionsErrEarly
  <2> SUFFICES ASSUME ReportInv, report.kind = "reorder", report.pc = "done" PROVE SuggestionsErrEarly
    BY DEF SuggestionsErrEarly
  <2> DEFINE q == StockAt(bills, report.seen)
             list == report.suggestions
             past == {b \in bills : b.id <= report.seen}
             before == {b \in SoldInWindow(report.last) : b.id <= report.seen}
  <2>1. PICK k \in report.seen..report.upTo : list \in Suggestions(LowStock(q), WindowAt(report, bills, k))
    BY DEF ReportInv, ReportRead, ReorderRead
  <2> DEFINE bs == WindowAt(report, bills, k)
  <2>2. /\ report.seen \in Nat /\ k \in Nat /\ report.seen <= k
        /\ report.first \in Int /\ report.last \in Int /\ report.first <= report.last
        /\ report.last = report.first + WindowDays - 1
    BY DEF ReportInv, ReportRead, Moments, Protocol
  <2>3. BillsTable(bills) /\ BillSet(bills) /\ BillSet(bs)
    BY <2>2, KnownGrows DEF ReportInv, ShopTyped, BillsTable, WindowAt
  <2>4. \A p \in ProductIds : q[p] \in Int /\ q[p] = OpeningStock[p] - UnitsSold(p, past)
    <3>1. BillSet(past)
      BY <2>3, PartOfBillSet
    <3>2. \A p \in ProductIds : UnitsSold(p, past) \in Nat /\ OpeningStock[p] \in Nat
      BY <3>1, ProductSums, ReportsAssumption
    <3> HIDE DEF past
    <3>3. \A p \in ProductIds : q[p] = OpeningStock[p] - UnitsSold(p, past)
      BY DEF StockAt, past
    <3> QED
      BY <3>2, <3>3
  <2>5. before \in SUBSET bs
    <3> SUFFICES ASSUME NEW b \in before PROVE b \in bs
      OBVIOUS
    <3> DEFINE d == BusinessDate(b.at)
    <3>1. /\ b \in bills /\ b.at \in Nat /\ b.id \in Nat /\ b.id <= report.seen
          /\ report.last - d \in 0..WindowDays - 1
      BY <2>3 DEF SoldInWindow, BillsTable
    <3>2. d \in Int /\ WindowDays \in Nat
      BY <3>1, DateIsRange, SalesFiguresAssumption
    <3> HIDE DEF d
    <3>3. report.first <= d /\ d <= report.last
      BY <2>2, <3>1, <3>2
    <3>4. RangeStart(report.first) <= b.at /\ b.at < RangeEnd(report.last)
      BY <2>2, <3>1, <3>3, PeriodIsDates DEF d
    <3>5. b.id <= k
      BY <2>2, <3>1
    <3> QED
      BY <3>1, <3>4, <3>5 DEF WindowAt, Known
  <2> HIDE DEF q, bs, before
  <2>6. ASSUME NEW i \in DOMAIN list
        PROVE  LET row == list[i]
               IN  /\ row.sold >= UnitsSold(row.product, before)
                   /\ row.quantity = OpeningStock[row.product] - UnitsSold(row.product, past)
                   /\ row.quantity < ReorderLevel[row.product]
    <3> DEFINE p == list[i].product
    <3>1. /\ p \in ProductIds /\ q[p] < ReorderLevel[p]
          /\ list[i] = [product |-> p, quantity |-> q[p], sold |-> UnitsSold(p, bs)]
      BY <2>1, SuggestionRows DEF bs
    <3>2. list[i].quantity = q[p] /\ list[i].sold = UnitsSold(p, bs)
      BY <3>1
    <3>3. UnitsSold(p, bs) >= UnitsSold(p, before)
      <4>1. UnitsSold(p, before) <= UnitsSold(p, bs) /\ BillSet(before)
        BY <2>3, <2>5, <3>1, UnitsGrow, PartOfBillSet
      <4>2. UnitsSold(p, before) \in Nat /\ UnitsSold(p, bs) \in Nat
        BY <2>3, <3>1, <4>1, ProductSums
      <4> QED
        BY <4>1, <4>2
    <3> HIDE DEF p, past
    <3> QED
      BY <2>4, <3>1, <3>2, <3>3 DEF p
  <2>7. ASSUME NEW i \in DOMAIN list, NEW j \in DOMAIN list, i < j
        PROVE  LET a == list[i]
                   b == list[j]
               IN  /\ b.sold > 0 => a.sold > 0 /\ a.quantity * b.sold <= b.quantity * a.sold
                   /\ a.product # b.product
    <3>1. DOMAIN list \subseteq Int
      <4> DEFINE S == {p \in ProductIds : q[p] < ReorderLevel[p]}
      <4>1. NumProducts \in Nat /\ S \in SUBSET (0..NumProducts)
        BY ProductsFinite DEF ProductIds
      <4>2. \E s \in [1..Cardinality(S) -> S] : Increasing(s)
        BY <4>1, InOrderExists
      <4>3. InOrder(S) \in [1..Cardinality(S) -> S]
        BY <4>2 DEF InOrder, Increasing
      <4>4. DOMAIN LowStock(q) = 1..Cardinality(S)
        BY <4>3 DEF LowStock
      <4>5. DOMAIN list = DOMAIN LowStock(q)
        BY <2>1 DEF Suggestions
      <4> QED
        BY <4>4, <4>5
    <3>2. i # j
      BY <2>7, <3>1
    <3> QED
      BY <2>1, <2>3, <2>4, <2>7, <3>2, SuggestionOrder DEF bs
  <2> QED
    BY <2>6, <2>7 DEF SuggestionsErrEarly, before
<1> QED
  BY <1>1, ReportInit, ReportStep, PTL DEF Spec
=============================================================================
