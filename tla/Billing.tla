------------------------------ MODULE Billing ------------------------------
(***************************************************************************)
(* Draft Bills, finalize_bill and receive_stock as concurrent database     *)
(* transactions.  One tool call is one transaction of one session; its     *)
(* statements read what is committed when they run (READ COMMITTED), its   *)
(* row locks are held to the end, and its writes become visible together   *)
(* at commit.  An action is one statement of the source that reads or      *)
(* locks something another session can change, with the local work and     *)
(* early returns that follow it; the writes of a transaction are the last  *)
(* action, which commits.                                                  *)
(***************************************************************************)
EXTENDS StockBatches, Pricing, FiniteSets

CONSTANTS
  Sessions,        \* tool calls that can run at the same time
  Chats,           \* chats that own Draft Bills
  Customers,       \* rows of the table customers
  NumProducts,     \* product_ids are 1..NumProducts
  Mrp, CostPrice,  \* mrp_paise and cost_price_paise of each Product
  OpeningBatches,  \* stock_batches before the first call
  Calls,           \* the tool calls the model may make
  MaxDrafts,       \* bound: Draft Bills ever opened
  MaxBatches,      \* bound: Batches ever received
  MaxQty,          \* bound: quantity of a Line
  MaxDay           \* bound: last day of the calendar

Products == 1..NumProducts
BatchIds == 1..MaxBatches
Days     == 0..MaxDay
NoExpiry == MaxDay + 1       \* expiry_date IS NULL

\* The arguments a tool call can carry.  A quantity of 0 stands for every
\* quantity _validate_quantity refuses, and for a product_id with no row: both
\* are refused after _get_or_create_open_draft has run; mode "unresolved" for a payment mode
\* that is invalid, or omitted with no default; customer "none" for an
\* omitted customer_id and "unknown" for an id with no row.
CallType ==
  [op: {"open_draft"}, chat: Chats]
    \cup [op: {"add_line", "update_line"}, chat: Chats, product: Products, qty: 0..MaxQty]
    \cup [op: {"remove_line"}, chat: Chats, product: Products]
    \cup [op: {"finalize"}, chat: Chats, mode: {"cash", "khata", "unresolved"},
          customer: Customers \cup {"none", "unknown"}, confirm: BOOLEAN]
    \cup [op: {"receive"}, product: Products, qty: 0..MaxQty, expiry: 0..NoExpiry]

ASSUME BillingAssumption ==
  /\ IsFiniteSet(Sessions)
  /\ NumProducts \in Nat \ {0}
  /\ MaxDrafts \in Nat
  /\ MaxBatches \in Nat
  /\ MaxQty \in Nat
  /\ MaxDay \in Nat
  /\ Mrp \in [Products -> Nat]
  /\ CostPrice \in [Products -> Nat]
  /\ Calls \subseteq CallType
  /\ OpeningBatches \in Seq([product: Products, qty: Nat, expiry: 0..NoExpiry])
  /\ Len(OpeningBatches) <= MaxBatches
  /\ "none" \notin Customers /\ "unknown" \notin Customers

VARIABLES
  drafts,     \* draft_bills: [chat, status, bill] by draft_bill_id
  lines,      \* draft_lines: lines[d][p] is the quantity, 0 for no row
  bills,      \* bills and bill_lines by bill_id
  batches,    \* stock_batches by batch_id
  quantity,   \* products.quantity
  ledger,     \* stock_ledger, one sequence per Product
  counter,    \* invoice_counters.last_seq by day, 0 for no row
  khata,      \* khata_entries
  istDay,     \* today_ist()
  localDay,   \* date.today() of the server, which turns after the IST day
  tx,         \* what each session's transaction has read so far
  held        \* the row locks each session holds

tables == <<drafts, lines, bills, batches, quantity, ledger, counter, khata>>
clocks == <<istDay, localDay>>
vars   == <<tables, clocks, tx, held>>

-----------------------------------------------------------------------------
(* Sessions *)

NoLines == [p \in Products |-> 0]

NoCall == [op |-> "none"]

\* A session between calls; answer is what its last finalize_bill returned.
Idle(answer) ==
  [pc     |-> "idle",   \* the statement to run next
   call   |-> NoCall,   \* the tool call
   draft  |-> 0,        \* draft_bill_id in hand, 0 for one it has created itself
   seen   |-> 0,        \* quantity of the draft_line that was read, 0 for none
   lines  |-> NoLines,  \* draft_lines that were loaded
   todo   |-> {},       \* ids still to be locked
   qty    |-> NoLines,  \* products.quantity read under lock
   batch  |-> [b \in BatchIds |-> 0],   \* batch_qty read under lock
   asOf   |-> 0, day |-> 0, seq |-> 0,  \* expiry day, invoice day, last_seq
   answer |-> answer]

\* The transaction of a call, about to run the statement pc.
Running(pc, call, draft) ==
  [Idle("none") EXCEPT !.pc = pc, !.call = call, !.draft = draft]

At(t, pc)      == tx[t].pc = pc
Op(t)          == tx[t].call.op
Goto(t, state) == tx' = [tx EXCEPT ![t] = state]

\* The transaction ends and its locks are released; only the answer of
\* finalize_bill is kept.
Finish(t, answer) ==
  /\ Goto(t, Idle(IF Op(t) = "finalize" THEN answer ELSE "none"))
  /\ held' = [held EXCEPT ![t] = {}]

\* (mutant) An early return that leaves the session's transaction open.
RefuseKeepingLocks(t, answer) ==
  Goto(t, Idle(answer)) /\ UNCHANGED <<held, tables, clocks>>

\* The transaction ends without having written anything.
Refuse(t, answer) == Finish(t, answer) /\ UNCHANGED <<tables, clocks>>

-----------------------------------------------------------------------------
(* Row locks.  SELECT ... FOR UPDATE takes an "update" lock; an INSERT takes *)
(* a "share" lock on the rows its foreign keys reference, and an "update"    *)
(* lock on a unique index entry it creates.                                  *)

OpenDraftKey(chat) == <<"open_draft", chat>>   \* uq_draft_bills_one_open_per_chat
DraftRow(d)        == <<"draft", d>>
ProductRow(p)      == <<"product", p>>
CustomerRow(c)     == <<"customer", c>>
BatchRow(b)        == <<"batch", b>>
CounterRow(day)    == <<"counter", day>>

ForUpdate(row) == [row |-> row, mode |-> "update"]
ForShare(row)  == [row |-> row, mode |-> "share"]

Conflict(k, l) == k.row = l.row /\ "update" \in {k.mode, l.mode}

\* (mutant) Products are read without FOR UPDATE.
CanLockUnlessProduct(t, lock) ==
  lock.row[1] = "product" \/ \A u \in Sessions \ {t} : \A k \in held[u] : ~Conflict(k, lock)

CanLock(t, lock) == \A u \in Sessions \ {t} : \A k \in held[u] : ~Conflict(k, lock)

Take(t, lock) ==
  /\ CanLock(t, lock)
  /\ held' = [held EXCEPT ![t] = @ \cup {lock}]

\* (mutant) Descending ids.
Last(ids) == CHOOSE i \in ids : \A j \in ids : j <= i

First(ids) == CHOOSE i \in ids : \A j \in ids : i <= j   \* sorted(set(ids))[0]

-----------------------------------------------------------------------------
(* Draft Bills: open_draft_bill, add_line, update_line, remove_line          *)

OpenDrafts(chat) ==
  {d \in 1..Len(drafts) : drafts[d].chat = chat /\ drafts[d].status = "open"}

FinalizedDrafts(chat) ==
  {d \in 1..Len(drafts) : drafts[d].chat = chat /\ drafts[d].status = "finalized"}

\* Sessions that may still insert a Draft Bill, a Line or a Batch (bounds only).
Creating  == {u \in Sessions : Op(u) \in {"open_draft", "add_line"} /\ tx[u].draft = 0}
Adding    == {u \in Sessions : Op(u) = "add_line"}
Receiving == {u \in Sessions : Op(u) = "receive"}

\* _get_or_create_open_draft, when the chat has an open Draft Bill.  A
\* refused quantity ends the call: the transaction commits, empty.
ReadOpenDraft(t) ==
  /\ At(t, "idle")
  /\ \E call \in Calls :
       /\ call.op \in {"add_line", "update_line", "remove_line"}
       /\ call.op # "remove_line" => call.qty > 0
       /\ \E d \in OpenDrafts(call.chat) :
            /\ call.op = "add_line" =>
                 lines[d][call.product] + call.qty * (Cardinality(Adding) + 1) <= MaxQty
            /\ Goto(t, Running("read_line", call, d))
  /\ UNCHANGED <<tables, clocks, held>>

\* _get_or_create_open_draft, when the chat has none.
MissOpenDraft(t) ==
  /\ At(t, "idle")
  /\ Len(drafts) + Cardinality(Creating) < MaxDrafts
  /\ \E call \in Calls :
       /\ call.op \in {"open_draft", "add_line"}
       /\ OpenDrafts(call.chat) = {}
       /\ Goto(t, Running("create_draft", call, 0))
  /\ UNCHANGED <<tables, clocks, held>>

NewDraft(chat) == [chat |-> chat, status |-> "open", bill |-> 0]

CommitNewDraft(t, draftLines) ==
  /\ drafts' = Append(drafts, NewDraft(tx[t].call.chat))
  /\ lines'  = Append(lines, draftLines)
  /\ Finish(t, "none")
  /\ UNCHANGED <<bills, batches, quantity, ledger, counter, khata, clocks>>

\* (mutant) No unique index.
NeverRefused(chat) == FALSE

\* uq_draft_bills_one_open_per_chat refuses a second open Draft Bill.
OpenDraftExists(chat) == OpenDrafts(chat) # {}

\* INSERT INTO draft_bills.  The unique index admits one open Draft Bill per
\* chat: the INSERT waits for another session's uncommitted one, and fails if
\* that one commits.  add_line goes on to its Line; open_draft_bill, and an
\* add_line whose quantity is refused, leave the new Draft Bill behind.
CreateDraft(t) ==
  LET call == tx[t].call
      key  == ForUpdate(OpenDraftKey(call.chat))
  IN  /\ At(t, "create_draft")
      /\ CanLock(t, key)
      /\ IF OpenDraftExists(call.chat) THEN Refuse(t, "error")
         ELSE IF call.op = "add_line" /\ call.qty > 0
         THEN /\ Take(t, key)
              /\ Goto(t, [tx[t] EXCEPT !.pc = "share_product"])
              /\ UNCHANGED <<tables, clocks>>
         ELSE CommitNewDraft(t, NoLines)

\* _get_draft_line.  Without a row add_line inserts one, the others refuse.
ReadLine(t) ==
  LET x    == tx[t]
      seen == lines[x.draft][x.call.product]
  IN  /\ At(t, "read_line")
      /\ IF seen = 0 /\ Op(t) # "add_line" THEN Refuse(t, "refused")
         ELSE /\ Goto(t, [x EXCEPT !.seen = seen,
                                    !.pc = IF seen = 0 THEN "share_draft"
                                           ELSE "write_line"])
              /\ UNCHANGED <<tables, clocks, held>>

\* The foreign keys of INSERT INTO draft_lines: draft_bills, then products.
ShareDraft(t) ==
  /\ At(t, "share_draft")
  /\ Take(t, ForShare(DraftRow(tx[t].draft)))
  /\ Goto(t, [tx[t] EXCEPT !.pc = "share_product"])
  /\ UNCHANGED <<tables, clocks>>

ShareProduct(t) ==
  /\ At(t, "share_product")
  /\ Take(t, ForShare(ProductRow(tx[t].call.product)))
  /\ Goto(t, [tx[t] EXCEPT !.pc = "write_line"])
  /\ UNCHANGED <<tables, clocks>>

SetLine(t, q) ==
  /\ lines' = [lines EXCEPT ![tx[t].draft][tx[t].call.product] = q]
  /\ Finish(t, "none")
  /\ UNCHANGED <<drafts, bills, batches, quantity, ledger, counter, khata, clocks>>

\* INSERT INTO draft_lines: into the Draft Bill just created, or into the one
\* that was read, where (draft_bill_id, product_id) is unique.
InsertLine(t) ==
  LET x == tx[t]
  IN  /\ At(t, "write_line") /\ Op(t) = "add_line" /\ x.seen = 0
      /\ IF x.draft = 0
         THEN CommitNewDraft(t, [NoLines EXCEPT ![x.call.product] = x.call.qty])
         ELSE IF lines[x.draft][x.call.product] > 0 THEN Refuse(t, "error")
         ELSE SetLine(t, x.call.qty)

\* UPDATE draft_lines: add_line writes the quantity it read plus its own.  A
\* row that was deleted meanwhile raises StaleDataError.
UpdateLine(t) ==
  LET x == tx[t]
  IN  /\ At(t, "write_line") /\ Op(t) # "remove_line" /\ x.seen > 0
      /\ IF lines[x.draft][x.call.product] = 0 THEN Refuse(t, "error")
         ELSE SetLine(t, IF Op(t) = "add_line" THEN x.seen + x.call.qty ELSE x.call.qty)

\* DELETE FROM draft_lines: a row that is already gone is not an error.
DeleteLine(t) ==
  /\ At(t, "write_line") /\ Op(t) = "remove_line"
  /\ SetLine(t, 0)

-----------------------------------------------------------------------------
(* finalize_bill                                                             *)

NeedsCustomer(call) == call.mode = "khata" /\ call.customer = "none"

\* The early returns before any lock: the payment mode, the customer, and no
\* open Draft Bill, which replays the Bill of the chat's latest finalized one.
AnswerAtOnce(t) ==
  /\ At(t, "idle")
  /\ \E call \in Calls :
       /\ call.op = "finalize"
       /\ \/ /\ call.mode = "unresolved" \/ NeedsCustomer(call)
             /\ Goto(t, Idle("refused"))
          \/ /\ call.mode # "unresolved" /\ ~NeedsCustomer(call)
             /\ OpenDrafts(call.chat) = {}
             /\ Goto(t, Idle(IF FinalizedDrafts(call.chat) = {} THEN "refused" ELSE "replay"))
  /\ UNCHANGED <<tables, clocks, held>>

\* _get_open_draft finds one: the row is now in the session's identity map.
BeginFinalize(t) ==
  /\ At(t, "idle")
  /\ \E call \in Calls :
       /\ call.op = "finalize" /\ call.mode # "unresolved" /\ ~NeedsCustomer(call)
       /\ \E d \in OpenDrafts(call.chat) : Goto(t, Running("lock_draft", call, d))
  /\ UNCHANGED <<tables, clocks, held>>

LockDraft(t) ==
  /\ At(t, "lock_draft")
  /\ Take(t, ForUpdate(DraftRow(tx[t].draft)))
  /\ Goto(t, [tx[t] EXCEPT !.pc = "load_lines"])
  /\ UNCHANGED <<tables, clocks>>

\* draft.status after _lock_draft_by_id.  The SELECT ... FOR UPDATE returns an
\* instance the identity map already holds and, without populate_existing,
\* the ORM keeps the attributes it loaded before the lock was waited for.
StatusSeen(t) == "open"

LoadLines(t) ==
  LET x     == tx[t]
      found == {p \in Products : lines[x.draft][p] > 0}
  IN  /\ At(t, "load_lines")
      /\ IF StatusSeen(t) = "finalized" THEN Refuse(t, "replay")
         ELSE IF found = {} THEN Refuse(t, "refused")
         ELSE /\ Goto(t, [x EXCEPT !.lines = lines[x.draft], !.todo = found,
                                   !.pc = "lock_product"])
              /\ UNCHANGED <<tables, clocks, held>>

\* The statement after the last product lock.
AfterProducts(t) ==
  LET call == tx[t].call
  IN  IF call.op = "receive" THEN "receive"
      ELSE IF call.mode = "khata" THEN "lock_customer" ELSE "check_cost"

\* (mutant) Products locked without their FOR UPDATE.
ReadProduct(t) ==
  LET x == tx[t]
      p == First(x.todo)
  IN  /\ At(t, "lock_product")
      /\ Goto(t, [x EXCEPT !.qty[p] = quantity[p], !.todo = @ \ {p},
                           !.pc = IF x.todo = {p} THEN AfterProducts(t) ELSE @])
      /\ UNCHANGED <<tables, clocks, held>>

\* (mutant) Products locked in the order of the Lines.
LockProductUnsorted(t) ==
  LET x == tx[t]
  IN  /\ At(t, "lock_product")
      /\ \E p \in x.todo :
           /\ Take(t, ForUpdate(ProductRow(p)))
           /\ Goto(t, [x EXCEPT !.qty[p] = quantity[p], !.todo = @ \ {p},
                                !.pc = IF x.todo = {p} THEN AfterProducts(t) ELSE @])
      /\ UNCHANGED <<tables, clocks>>

\* One row of lock_products_sorted (or receive_stock's _lock_product): the row
\* is not in the identity map yet, so the quantity read is the committed one.
LockProduct(t) ==
  LET x == tx[t]
      p == First(x.todo)
  IN  /\ At(t, "lock_product")
      /\ Take(t, ForUpdate(ProductRow(p)))
      /\ Goto(t, [x EXCEPT !.qty[p] = quantity[p], !.todo = @ \ {p},
                           !.pc = IF x.todo = {p} THEN AfterProducts(t) ELSE @])
      /\ UNCHANGED <<tables, clocks>>

LockCustomer(t) ==
  /\ At(t, "lock_customer")
  /\ IF tx[t].call.customer \notin Customers THEN Refuse(t, "refused")
     ELSE /\ Take(t, ForUpdate(CustomerRow(tx[t].call.customer)))
          /\ Goto(t, [tx[t] EXCEPT !.pc = "check_cost"])
          /\ UNCHANGED <<tables, clocks>>

BelowCost(x) == \E p \in Products : x.lines[p] > 0 /\ Mrp[p] < CostPrice[p]

\* The below-cost guard, then _batch_ids_for_products.
CheckCost(t) ==
  LET x   == tx[t]
      ids == {b \in 1..Len(batches) : x.lines[batches[b].product] > 0 /\ batches[b].qty > 0}
  IN  /\ At(t, "check_cost")
      /\ IF BelowCost(x) /\ ~x.call.confirm THEN Refuse(t, "refused")
         ELSE /\ Goto(t, [x EXCEPT !.todo = ids,
                                   !.pc = IF ids = {} THEN "check_stock" ELSE "lock_batch"])
              /\ UNCHANGED <<tables, clocks, held>>

\* One row of lock_batches_sorted.
LockBatch(t) ==
  LET x == tx[t]
      b == First(x.todo)
  IN  /\ At(t, "lock_batch")
      /\ Take(t, ForUpdate(BatchRow(b)))
      /\ Goto(t, [x EXCEPT !.batch[b] = batches[b].qty, !.todo = @ \ {b},
                           !.pc = IF x.todo = {b} THEN "check_stock" ELSE @])
      /\ UNCHANGED <<tables, clocks>>

\* (mutant) The oversell guard on products.quantity, expired Batches included.
OversoldOnHand(x, today) == \E p \in Products : x.qty[p] < x.lines[p]

\* (mutant) The oversell guard off by one.
OversoldByOne(x, today) ==
  \E p \in Products : SellableQuantity(batches, x.batch, p, today) + 1 < x.lines[p]

Oversold(x, today) ==
  \E p \in Products : SellableQuantity(batches, x.batch, p, today) < x.lines[p]

\* The oversell guard on today's sellable Batches; the two calendars are read.
CheckStock(t) ==
  LET x == tx[t]
  IN  /\ At(t, "check_stock")
      /\ IF Oversold(x, istDay) THEN Refuse(t, "refused")
         ELSE /\ Goto(t, [x EXCEPT !.asOf = istDay, !.day = localDay, !.pc = "mint"])
              /\ UNCHANGED <<tables, clocks, held>>

\* (mutant) The counter is committed when the number is minted.
MintAndCommit(t) ==
  LET x == tx[t]
  IN  /\ At(t, "mint")
      /\ CanLock(t, ForUpdate(CounterRow(x.day)))
      /\ Goto(t, [x EXCEPT !.seq = counter[x.day], !.pc = "write_bill"])
      /\ counter' = [counter EXCEPT ![x.day] = @ + 1]
      /\ UNCHANGED <<drafts, lines, bills, batches, quantity, ledger, khata, clocks, held>>

\* _mint_invoice_number: lock today's counter row, if there is one.
MintNumber(t) ==
  LET x == tx[t]
  IN  /\ At(t, "mint")
      /\ IF counter[x.day] = 0
         THEN Goto(t, [x EXCEPT !.pc = "insert_counter"]) /\ UNCHANGED held
         ELSE /\ Take(t, ForUpdate(CounterRow(x.day)))
              /\ Goto(t, [x EXCEPT !.seq = counter[x.day], !.pc = "write_bill"])
      /\ UNCHANGED <<tables, clocks>>

\* The day's first Bill inserts the row; the INSERT waits for another session's
\* uncommitted one, and fails if that one commits.
InsertCounter(t) ==
  LET x == tx[t]
  IN  /\ At(t, "insert_counter")
      /\ CanLock(t, ForUpdate(CounterRow(x.day)))
      /\ IF counter[x.day] > 0 THEN Refuse(t, "error")
         ELSE /\ Take(t, ForUpdate(CounterRow(x.day)))
              /\ Goto(t, [x EXCEPT !.pc = "write_bill"])
              /\ UNCHANGED <<tables, clocks>>

BillTotal(sold) ==
  RoundedTotal(SumTo([p \in Products |-> PackagedLine(Mrp[p], sold[p], 0).total],
                     NumProducts))

NewBill(x) ==
  [draft |-> x.draft, chat |-> x.call.chat, invoice |-> <<x.day, x.seq + 1>>,
   mode |-> x.call.mode, lines |-> x.lines, total |-> BillTotal(x.lines)]

\* What the FEFO loop takes from Batch b.
Taken(x, b) ==
  LET p == batches[b].product
  IN  FefoTake(batches, x.batch, p, x.asOf, x.lines[p], b)

\* (mutant) Every row carries the balance before its own decrement.
SaleRowsTooEarly(x, p, billId) ==
  LET used    == {b \in 1..Len(batches) : batches[b].product = p /\ Taken(x, b) > 0}
      upto(b) == {a \in used : FefoBefore(batches, a, b)}
      nth(i)  == CHOOSE b \in used : Cardinality(upto(b)) = i - 1
      taken   == [b \in 1..Len(batches) |-> Taken(x, b)]
  IN  [i \in 1..Cardinality(used) |->
         [reason |-> "sale", ref |-> billId, delta |-> -Taken(x, nth(i)),
          balance |-> x.qty[p] - SumOver(taken, upto(nth(i)), Len(batches))]]

\* The stock_ledger rows of one Product's sale, in FEFO order.
SaleRows(x, p, billId) ==
  LET used    == {b \in 1..Len(batches) : batches[b].product = p /\ Taken(x, b) > 0}
      upto(b) == {a \in used : a = b \/ FefoBefore(batches, a, b)}
      nth(i)  == CHOOSE b \in used : Cardinality(upto(b)) = i
      taken   == [b \in 1..Len(batches) |-> Taken(x, b)]
  IN  [i \in 1..Cardinality(used) |->
         [reason |-> "sale", ref |-> billId, delta |-> -Taken(x, nth(i)),
          balance |-> x.qty[p] - SumOver(taken, upto(nth(i)), Len(batches))]]

\* (mutant) bills.draft_bill_id is not unique.
NotUnique(bill) == FALSE

\* INSERT INTO bills: draft_bill_id and invoice_number are unique.
Duplicate(bill) ==
  \E b \in 1..Len(bills) : bills[b].draft = bill.draft \/ bills[b].invoice = bill.invoice

\* (mutant) The charge is what the Lines add up to, before the round-off.
ChargeUnrounded(x, bill, billId) ==
  IF bill.mode = "khata"
  THEN <<[customer |-> x.call.customer, bill |-> billId,
          amount |-> SumTo([p \in Products |-> Mrp[p] * bill.lines[p]], NumProducts)]>>
  ELSE <<>>

\* append_bill_charge, for a khata Bill.
Charge(x, bill, billId) ==
  IF bill.mode = "khata"
  THEN <<[customer |-> x.call.customer, bill |-> billId, amount |-> bill.total]>>
  ELSE <<>>

\* Everything finalize_bill writes, in one transaction: the Bill and its Lines,
\* the Batches, Products and ledger, the Draft Bill, the khata charge (whose
\* amount_paise must be positive) and the invoice counter.
CommitBill(t) ==
  LET x      == tx[t]
      bill   == NewBill(x)
      billId == Len(bills) + 1
  IN  /\ At(t, "write_bill")
      /\ IF Duplicate(bill) \/ (bill.mode = "khata" /\ bill.total = 0)
         THEN Refuse(t, "error")
         ELSE /\ bills'    = Append(bills, bill)
              /\ drafts'   = [drafts EXCEPT ![x.draft].status = "finalized",
                                            ![x.draft].bill = billId]
              /\ batches'  = [b \in 1..Len(batches) |->
                               IF Taken(x, b) > 0
                               THEN [batches[b] EXCEPT !.qty = x.batch[b] - Taken(x, b)]
                               ELSE batches[b]]
              /\ quantity' = [p \in Products |->
                               IF x.lines[p] > 0 THEN x.qty[p] - x.lines[p] ELSE quantity[p]]
              /\ ledger'   = [p \in Products |-> ledger[p] \o SaleRows(x, p, billId)]
              /\ counter'  = [counter EXCEPT ![x.day] = x.seq + 1]
              /\ khata'    = khata \o Charge(x, bill, billId)
              /\ Finish(t, "ok")
              /\ UNCHANGED <<lines, clocks>>

-----------------------------------------------------------------------------
(* receive_stock                                                             *)

BeginReceive(t) ==
  /\ At(t, "idle")
  /\ Len(batches) + Cardinality(Receiving) < MaxBatches
  /\ \E call \in Calls :
       /\ call.op = "receive" /\ call.qty > 0
       /\ Goto(t, [Running("lock_product", call, 0) EXCEPT !.todo = {call.product}])
  /\ UNCHANGED <<tables, clocks, held>>

\* INSERT the Batch, reconcile products.quantity to the sum of the Batches, and
\* append the stock_in row.
CommitReceive(t) ==
  LET call     == tx[t].call
      p        == call.product
      received == Append(batches, [product |-> p, qty |-> call.qty, expiry |-> call.expiry])
      onHand   == OnHand(received, p)
  IN  /\ At(t, "receive")
      /\ batches'  = received
      /\ quantity' = [quantity EXCEPT ![p] = onHand]
      /\ ledger'   = [ledger EXCEPT ![p] =
                        Append(@, [reason |-> "stock_in", ref |-> Len(received),
                                   delta |-> call.qty, balance |-> onHand])]
      /\ Finish(t, "none")
      /\ UNCHANGED <<drafts, lines, bills, counter, khata, clocks>>

-----------------------------------------------------------------------------
(* The process, the database and the calendar                                *)

\* The call is cancelled, the process dies or the connection is lost: the
\* database rolls the transaction back.
Abort(t) == ~At(t, "idle") /\ Refuse(t, "lost")

IstMidnight ==
  /\ istDay = localDay /\ istDay < MaxDay
  /\ istDay' = istDay + 1
  /\ UNCHANGED <<tables, localDay, tx, held>>

LocalMidnight ==
  /\ localDay < istDay
  /\ localDay' = localDay + 1
  /\ UNCHANGED <<tables, istDay, tx, held>>

Init ==
  /\ drafts = <<>> /\ lines = <<>> /\ bills = <<>> /\ khata = <<>>
  /\ batches  = OpeningBatches
  /\ quantity = [p \in Products |-> OnHand(OpeningBatches, p)]
  /\ ledger   = [p \in Products |-> <<>>]
  /\ counter  = [day \in Days |-> 0]
  /\ istDay = 0 /\ localDay = 0
  /\ tx   = [t \in Sessions |-> Idle("none")]
  /\ held = [t \in Sessions |-> {}]

DraftStep(t) ==
  \/ ReadOpenDraft(t) \/ MissOpenDraft(t) \/ CreateDraft(t) \/ ReadLine(t)
  \/ ShareDraft(t) \/ ShareProduct(t) \/ InsertLine(t) \/ UpdateLine(t) \/ DeleteLine(t)

FinalizeStep(t) ==
  \/ AnswerAtOnce(t) \/ BeginFinalize(t) \/ LockDraft(t) \/ LoadLines(t)
  \/ LockProduct(t) \/ LockCustomer(t) \/ CheckCost(t) \/ LockBatch(t)
  \/ CheckStock(t) \/ MintNumber(t) \/ InsertCounter(t) \/ CommitBill(t)

ReceiveStep(t) == BeginReceive(t) \/ CommitReceive(t)

Next ==
  \/ \E t \in Sessions : DraftStep(t) \/ FinalizeStep(t) \/ ReceiveStep(t) \/ Abort(t)
  \/ IstMidnight \/ LocalMidnight

Spec == Init /\ [][Next]_vars
=============================================================================
