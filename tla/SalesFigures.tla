---------------------------- MODULE SalesFigures ----------------------------
(***************************************************************************)
(* What the reports compute from the Bills (domain/analytics.py, the views *)
(* of migration 005, shop_time.py) and what the slides of the analysis     *)
(* deck show of it (domain/analysis_deck.py).  A Bill is its row with its  *)
(* Lines; its time is in slots of UTC, a business day is a day of IST.     *)
(***************************************************************************)
EXTENDS Pricing, Sums, FiniteSets, FiniteSetsExt, SequencesExt

CONSTANTS
  NumProducts,
  Mrp, Slab,      \* by product_id; all packaged here
  ReorderLevel,
  SlotsPerDay,
  IstOffset,      \* slots by which IST is ahead of UTC
  WindowDays,     \* days of the rolling window: 7
  TopLimit,       \* TOP_ITEMS_LIMIT
  TopOnSlide,     \* Top Items on their slide: 5
  LowOnSlide      \* Products on the slide of stock health: 8

ProductIds   == 1..NumProducts
PaymentModes == {"cash", "upi", "card", "khata"}

ASSUME SalesFiguresAssumption ==
  /\ NumProducts \in Nat /\ TopLimit \in Nat /\ TopOnSlide \in Nat /\ LowOnSlide \in Nat
  /\ Mrp \in [ProductIds -> Nat] /\ Slab \in [ProductIds -> GstSlabs]
  /\ ReorderLevel \in [ProductIds -> Nat]
  /\ SlotsPerDay \in Nat \ {0} /\ IstOffset \in 0..SlotsPerDay - 1 /\ WindowDays \in Nat \ {0}

-----------------------------------------------------------------------------
(* The calendar *)

BusinessDate(t) == (t + IstOffset) \div SlotsPerDay

\* (mutant) Midnight of UTC.
StartInUtc(first) == first * SlotsPerDay

\* [start, end) in UTC of a range of IST days
RangeStart(first) == first * SlotsPerDay - IstOffset
RangeEnd(last)    == (last + 1) * SlotsPerDay - IstOffset

\* (mutant) A day short.
FirstOfShortWindow(today) == today - (WindowDays - 2)

FirstOfWindow(today) == today - (WindowDays - 1)

-----------------------------------------------------------------------------
(* Sums over a set of Bills *)

Line(p, units) == PackagedLine(Mrp[p], units, Slab[p])

Total(column, bs) == SumIn([b \in bs |-> b[column]], bs)

ModeSplit(bs) == [mode \in PaymentModes |-> Total("total", {b \in bs : b.mode = mode})]

Totals(bs) ==
  [count |-> Cardinality(bs), subtotal |-> Total("subtotal", bs),
   cgst |-> Total("cgst", bs), sgst |-> Total("sgst", bs),
   tax |-> Total("cgst", bs) + Total("sgst", bs),
   roundOff |-> Total("roundOff", bs), total |-> Total("total", bs)]

Figures(bs) == [totals |-> Totals(bs), split |-> ModeSplit(bs)]

UnitsSold(p, bs) == SumIn([b \in bs |-> b.qty[p]], bs)
LineSum(p, column, bs) == SumIn([b \in bs |-> Line(p, b.qty[p])[column]], bs)

\* One row per Product that is on a Line.
ProductRows(bs) ==
  {[product |-> p, quantity |-> UnitsSold(p, bs), revenue |-> LineSum(p, "total", bs)]
     : p \in {q \in ProductIds : UnitsSold(q, bs) > 0}}

\* ORDER BY measure DESC LIMIT TopLimit: Postgres orders ties as it likes.
TopRows(bs, measure) ==
  LET rows == ProductRows(bs)
  IN  {top \in [1..Min({TopLimit, Cardinality(rows)}) -> rows] :
         /\ IsInjective(top)
         /\ \A i, j \in DOMAIN top : i < j => top[i][measure] >= top[j][measure]
         /\ \A row \in rows \ Range(top), i \in DOMAIN top : top[i][measure] >= row[measure]}

TaxBySlab(bs) ==
  LET of(slab, column) ==
        SumIn([p \in ProductIds |-> LineSum(p, column, bs)], {p \in ProductIds : Slab[p] = slab})
      slabs == {Slab[p] : p \in {q \in ProductIds : UnitsSold(q, bs) > 0}}
  IN  [slab \in slabs |-> [tax     |-> of(slab, "cgst") + of(slab, "sgst"),
                           taxable |-> of(slab, "taxable")]]

InOrder(S) ==
  CHOOSE s \in [1..Cardinality(S) -> S] : \A i, j \in DOMAIN s : i < j => s[i] < s[j]

\* list_low_stock: ORDER BY name; Products are numbered by their names.
LowStock(quantity) ==
  LET low == InOrder({p \in ProductIds : quantity[p] < ReorderLevel[p]})
  IN  [i \in DOMAIN low |-> [product |-> low[i], quantity |-> quantity[low[i]]]]

-----------------------------------------------------------------------------
(* Reorder suggestions *)

\* Days of stock is quantity over velocity, velocity is sold over the days of
\* the window: 28 digits keep two different ones in order, but may order two
\* equal ones of different quantities either way.
RunsOutBefore(a, b) ==
  IF a.sold > 0 /\ b.sold > 0 THEN
    \/ a.quantity * b.sold < b.quantity * a.sold
    \/ a.quantity * b.sold = b.quantity * a.sold /\ a.quantity = b.quantity /\ a.product < b.product
  ELSE a.sold > 0 \/ (b.sold = 0 /\ a.product < b.product)

Suggestions(low, bs) ==
  LET rows == {[product |-> low[i].product, quantity |-> low[i].quantity,
                sold |-> UnitsSold(low[i].product, bs)] : i \in DOMAIN low}
  IN  {list \in [DOMAIN low -> rows] :
         IsInjective(list) /\ \A i, j \in DOMAIN list : i < j => ~RunsOutBefore(list[j], list[i])}

-----------------------------------------------------------------------------
(* The views daily_summary and sales_report *)

OnDay(day, bs) == {b \in bs : BusinessDate(b.at) = day}

DailySummary(day, bs) == Figures(OnDay(day, bs))
SalesReport(day, bs)  == ProductRows(OnDay(day, bs))

-----------------------------------------------------------------------------
(* The slides *)

Head5(rows) == SubSeq(rows, 1, Min({TopOnSlide, Len(rows)}))

TitleSlide(r)    == [first |-> r.first, last |-> r.last, bills |-> r.figures.totals.count,
                     total |-> r.figures.totals.total]
TrendSlide(r)    == [i \in DOMAIN r.trend |-> r.trend[i].total]
TopItemsSlide(r) == [byRevenue |-> Head5(r.top), byQuantity |-> Head5(r.topQty)]
MixSlide(r)      == r.figures.split
SlabSlide(r)     == [slab \in DOMAIN r.slabs |-> r.slabs[slab].tax]
StockSlide(r)    == SubSeq(r.low, 1, Min({LowOnSlide, Len(r.low)}))
InsightsSlide(r) == [total |-> r.figures.totals.total, bills |-> r.figures.totals.count,
                     tax |-> r.figures.totals.tax, split |-> r.figures.split,
                     topItem |-> IF r.top = <<>> THEN {} ELSE {r.top[1]},
                     slabs |-> SlabSlide(r), lowCount |-> Len(r.low)]

Deck(r) ==
  [title |-> TitleSlide(r), trend |-> TrendSlide(r), topItems |-> TopItemsSlide(r),
   mix |-> MixSlide(r), slabs |-> SlabSlide(r), stock |-> StockSlide(r),
   insights |-> InsightsSlide(r)]
=============================================================================
