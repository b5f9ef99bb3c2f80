------------------------------ MODULE Reports ------------------------------
(***************************************************************************)
(* The reports: Daily Close, weekly sales, the figures of the analysis     *)
(* deck and the reorder suggestions, read while the tills go on selling.   *)
(* A report is a series of SELECTs under READ COMMITTED, so each of its    *)
(* figures is of the moment its statement ran.  A Bill's finalized_at is   *)
(* now() in Postgres: the time its transaction began, not the time it      *)
(* committed.                                                              *)
(***************************************************************************)
EXTENDS SalesFigures

CONSTANTS
  Tills,         \* finalize_bill calls that can run at the same time
  OpeningStock,
  Sales,         \* what may be sold at once: [mode, qty], qty by product_id
  MaxSlot,       \* bound: last slot of the calendar
  MaxBills       \* bound: Bills

ASSUME ReportsAssumption ==
  /\ MaxSlot \in Nat /\ MaxBills \in Nat /\ OpeningStock \in [ProductIds -> Nat]
  /\ \A sale \in Sales : sale.mode \in PaymentModes /\ sale.qty \in [ProductIds -> Nat]

VARIABLES
  now,     \* UTC, in slots
  stock,   \* products.quantity
  bills,   \* the table bills with its bill_lines
  till,    \* the sale each till is finalizing, and when its transaction began
  report   \* the report being made or last made

vars == <<now, stock, bills, till, report>>

Today == BusinessDate(now)

-----------------------------------------------------------------------------
(* Bills *)

\* The row finalize_bill inserts, with its Lines.
BillOf(id, at, sale) ==
  LET sold == {p \in ProductIds : sale.qty[p] > 0}
      sum(column) == SumIn([p \in sold |-> Line(p, sale.qty[p])[column]], sold)
  IN  [id |-> id, at |-> at, mode |-> sale.mode, qty |-> sale.qty,
       subtotal |-> sum("total"), cgst |-> sum("cgst"), sgst |-> sum("sgst"),
       roundOff |-> RoundOff(sum("total")), total |-> RoundedTotal(sum("total"))]

NoSale == [mode |-> "none"]
Idle   == [sale |-> NoSale, begun |-> 0]

BeginBill(t, sale) ==
  /\ till[t] = Idle
  /\ till' = [till EXCEPT ![t] = [sale |-> sale, begun |-> now]]
  /\ UNCHANGED <<now, stock, bills, report>>

InsertBill(t) ==
  LET sale == till[t].sale IN
  /\ sale # NoSale /\ Cardinality(bills) < MaxBills
  /\ bills' = bills \cup {BillOf(Cardinality(bills) + 1, till[t].begun, sale)}
  /\ stock' = [p \in ProductIds |-> stock[p] - sale.qty[p]]
  /\ till'  = [till EXCEPT ![t] = Idle]
  /\ UNCHANGED <<now, report>>

\* (mutant) Without the oversell check.
CommitUnchecked(t) == InsertBill(t)

CommitBill(t) ==
  /\ till[t] # Idle /\ \A p \in ProductIds : till[t].sale.qty[p] <= stock[p]
  /\ InsertBill(t)

\* Refused, failed or crashed.
RollBack(t) ==
  /\ till[t] # Idle
  /\ till' = [till EXCEPT ![t] = Idle]
  /\ UNCHANGED <<now, stock, bills, report>>

Tick ==
  /\ now < MaxSlot
  /\ now' = now + 1
  /\ UNCHANGED <<stock, bills, till, report>>

-----------------------------------------------------------------------------
(* Reports.  pc names the next SELECT.  History, read by the properties      *)
(* only: seen and upTo are the numbers of Bills at the first and the last    *)
(* SELECT, settled says that no Bill of the period could still come.         *)

InRange(first, last) == {b \in bills : RangeStart(first) <= b.at /\ b.at < RangeEnd(last)}
Window == InRange(report.first, report.last)

NoReport ==
  [kind |-> "none", pc |-> "done", first |-> 0, last |-> 0, figures |-> Figures({}), top |-> <<>>,
   trendFirst |-> 0, trend |-> <<>>, slabs |-> TaxBySlab({}), topQty |-> <<>>, low |-> <<>>,
   suggestions |-> <<>>, seen |-> 0, upTo |-> 0, settled |-> FALSE]

NoneInFlight(last) == \A t \in Tills : till[t] # Idle => BusinessDate(till[t].begun) > last

\* A report is asked for; one that fails on the way leaves nothing behind.
Ask(kind, first, last, pc) ==
  /\ report.pc = "done"
  /\ report' = [NoReport EXCEPT !.kind = kind, !.pc = pc, !.first = first, !.last = last,
                                !.settled = last < Today /\ NoneInFlight(last)]
  /\ UNCHANGED <<now, stock, bills, till>>

AskDailyClose(day) == Ask("close", day, day, "bills")
AskWeekly          == Ask("weekly", FirstOfWindow(Today), Today, "bills")
AskDeck            == Ask("deck", FirstOfWindow(Today), Today, "bills")
AskReorder         == Ask("reorder", FirstOfWindow(Today), Today, "low")

\* The SELECT that report.pc names returned; next is the one to follow.
Read(pc, next, fields) ==
  /\ report.pc = pc
  /\ report' = [fields EXCEPT !.pc = next, !.upTo = Cardinality(bills)]
  /\ UNCHANGED <<now, stock, bills, till>>

LoadBills ==
  Read("bills", "top", [report EXCEPT !.figures = Figures(Window), !.seen = Cardinality(bills)])

LoadTop ==
  \E top \in TopRows(Window, "revenue") :
    Read("top", IF report.kind = "deck" THEN "window" ELSE "done", [report EXCEPT !.top = top])

\* sales_trend computes the window again.
StartTrend ==
  /\ report.pc = "window"
  /\ report' = [report EXCEPT !.pc = "trend", !.trendFirst = FirstOfWindow(Today)]
  /\ UNCHANGED <<now, stock, bills, till>>

\* (mutant) The loop ends before today.
LoadTrendDayBeforeToday ==
  LET day == report.trendFirst + Len(report.trend)
  IN  Read("trend", IF Len(report.trend) + 2 >= WindowDays THEN "slabs" ELSE "trend",
           [report EXCEPT !.trend = Append(@, Totals(InRange(day, day)))])

LoadTrendDay ==
  LET day == report.trendFirst + Len(report.trend)
  IN  Read("trend", IF Len(report.trend) + 1 = WindowDays THEN "slabs" ELSE "trend",
           [report EXCEPT !.trend = Append(@, Totals(InRange(day, day)))])

LoadSlabs == Read("slabs", "topQty", [report EXCEPT !.slabs = TaxBySlab(Window)])

LoadTopByQuantity ==
  \E top \in TopRows(Window, "quantity") : Read("topQty", "low", [report EXCEPT !.topQty = top])

LoadLowStock ==
  Read("low", IF report.kind = "deck" THEN "done" ELSE "sold",
       [report EXCEPT !.low = LowStock(stock),
                      !.seen = IF report.kind = "reorder" THEN Cardinality(bills) ELSE @])

LoadSold ==
  \E list \in Suggestions(report.low, Window) :
    Read("sold", "done", [report EXCEPT !.suggestions = list])

-----------------------------------------------------------------------------
Init ==
  /\ now = 0 /\ stock = OpeningStock /\ bills = {}
  /\ till = [t \in Tills |-> Idle] /\ report = NoReport

Next ==
  \/ \E t \in Tills, sale \in Sales : BeginBill(t, sale)
  \/ \E t \in Tills : CommitBill(t) \/ RollBack(t)
  \/ Tick
  \/ \E day \in 0..Today : AskDailyClose(day)
  \/ AskWeekly \/ AskDeck \/ AskReorder
  \/ LoadBills \/ LoadTop \/ StartTrend \/ LoadTrendDay \/ LoadSlabs
  \/ LoadTopByQuantity \/ LoadLowStock \/ LoadSold

Spec == Init /\ [][Next]_vars

-----------------------------------------------------------------------------
\* Stock is never oversold, Bills are numbered in the order they commit, and a
\* report says of every period what kind of report it is.
TypeOK ==
  /\ now \in 0..MaxSlot /\ stock \in [ProductIds -> Nat]
  /\ \A b \in bills : b.id \in 1..Cardinality(bills) /\ b.at \in 0..now /\ b.mode \in PaymentModes
  /\ \A b, c \in bills : b.id = c.id => b = c
  /\ \A t \in Tills : till[t] = Idle \/ (till[t].sale \in Sales /\ till[t].begun \in 0..now)
  /\ report.kind \in {"none", "close", "weekly", "deck", "reorder"} /\ report.first <= report.last
  /\ report.pc \in {"bills", "top", "window", "trend", "slabs", "topQty", "low", "sold", "done"}

\* docs/agents/analytics.md: asking for a Daily Close again returns the same
\* figures.  A close of a past day is final if every finalize_bill that began
\* on that day had ended when it was asked for: it says now, and for ever,
\* what the view daily_summary says of the day.  (A Bill that began before
\* midnight and commits after the close is dated on the closed day.)
DayCloseSettles ==
  report.kind = "close" /\ report.pc = "done" /\ report.settled =>
    /\ report.figures = DailySummary(report.last, bills)
    /\ \A row \in Range(report.top) : row \in SalesReport(report.last, bills)

\* gather_analysis_deck_data: the slides of one deck are read one after the
\* other.  The payment mix always adds up to the title's total.  While the
\* trend has the title's window, no slide misses a sale an earlier one has;
\* and if no Bill is committed meanwhile, they all tell the same story.
DeckAddsUp ==
  LET deck   == Deck(report)
      trend  == SumIn(deck.trend, DOMAIN deck.trend)
      tax    == SumIn(deck.slabs, DOMAIN deck.slabs)
      items  == SumIn([i \in DOMAIN deck.topItems.byRevenue |-> deck.topItems.byRevenue[i].revenue],
                      DOMAIN deck.topItems.byRevenue)
      totals == report.figures.totals
  IN  report.kind = "deck" /\ report.pc = "done" =>
        /\ SumIn(deck.mix, PaymentModes) = deck.title.total
        /\ totals.total = totals.subtotal + totals.roundOff
        /\ tax >= deck.insights.tax
        /\ report.trendFirst = report.first => trend >= deck.title.total
        /\ report.seen = report.upTo =>
             /\ tax = deck.insights.tax
             /\ report.trendFirst = report.first => trend = deck.title.total
             /\ items <= totals.subtotal
             /\ Cardinality(ProductRows(Window)) <= Min({TopLimit, TopOnSlide}) => items = totals.subtotal

\* The Bills of the window_day_count business days up to last.
SoldInWindow(last) == {b \in bills : last - BusinessDate(b.at) \in 0..WindowDays - 1}

\* reorder_suggestions reads the stock first and the sales after: a sale of any
\* business day of the window that has lowered the stock it shows is also in the
\* velocity, so a Product is never said to last longer than it will at the pace
\* of its sales; the ones that run out first come first, and a Product that did
\* not sell comes last.
SuggestionsErrEarly ==
  report.kind = "reorder" /\ report.pc = "done" =>
    /\ \A i \in DOMAIN report.suggestions :
         LET row == report.suggestions[i]
             before == {b \in SoldInWindow(report.last) : b.id <= report.seen}
         IN  /\ row.sold >= UnitsSold(row.product, before)
             /\ row.quantity = OpeningStock[row.product]
                                 - UnitsSold(row.product, {b \in bills : b.id <= report.seen})
             /\ row.quantity < ReorderLevel[row.product]
    /\ \A i, j \in DOMAIN report.suggestions :
         LET a == report.suggestions[i]
             b == report.suggestions[j]
         IN  i < j => /\ b.sold > 0 => a.sold > 0 /\ a.quantity * b.sold <= b.quantity * a.sold
                      /\ a.product # b.product
=============================================================================
