------------------------- MODULE BillingProperties -------------------------
(***************************************************************************)
(* What the transactions of module Billing promise together.               *)
(***************************************************************************)
EXTENDS Billing

CallArgs == Calls \cup {NoCall}

PcNames ==
  {"idle", "create_draft", "read_line", "share_draft", "share_product", "write_line",
   "lock_draft", "load_lines", "lock_product", "lock_customer", "check_cost",
   "lock_batch", "check_stock", "mint", "insert_counter", "write_bill", "receive"}

Answers == {"none", "ok", "replay", "refused", "error", "lost"}

DraftType == [chat: Chats, status: {"open", "finalized"}, bill: Nat]
BatchType == [product: Products, qty: Nat, expiry: 0..NoExpiry]
BillType  == [draft: Nat, chat: Chats, invoice: Days \X Nat, mode: {"cash", "khata"},
              lines: [Products -> Nat], total: Nat]
KhataType == [customer: Customers, bill: Nat, amount: Nat]
TxType    == [pc: PcNames, call: CallArgs, draft: Nat, seen: Nat,
              lines: [Products -> Nat], todo: SUBSET Nat, qty: [Products -> Int],
              batch: [BatchIds -> Nat], asOf: Days, day: Days, seq: Nat, answer: Answers]
RowType   == ({"open_draft"} \X Chats) \cup ({"customer"} \X Customers)
               \cup ({"draft", "product", "batch", "counter"} \X Nat)
LockType  == [row: RowType, mode: {"update", "share"}]

\* Every table, clock and session variable has its type; in particular no
\* Batch and no Product quantity is ever negative.
TypeOK ==
  /\ drafts \in Seq(DraftType)
  /\ lines \in Seq([Products -> Nat]) /\ Len(lines) = Len(drafts)
  /\ bills \in Seq(BillType)
  /\ batches \in Seq(BatchType) /\ Len(batches) <= MaxBatches
  /\ quantity \in [Products -> Nat]
  /\ counter \in [Days -> Nat]
  /\ khata \in Seq(KhataType)
  /\ istDay \in Days /\ localDay \in Days
  /\ tx \in [Sessions -> TxType]
  /\ held \in [Sessions -> SUBSET LockType]

-----------------------------------------------------------------------------
(* Locking                                                                   *)

\* finalize_bill from the Lines it has loaded to its commit, and the part after
\* the customer.
SellingPcs ==
  {"lock_product", "lock_customer", "check_cost", "lock_batch", "check_stock",
   "mint", "insert_counter", "write_bill"}
ChargingPcs == SellingPcs \ {"lock_product", "lock_customer"}

Selling(t)  == Op(t) = "finalize" /\ tx[t].pc \in SellingPcs
Charging(t) == Op(t) = "finalize" /\ tx[t].call.mode = "khata" /\ tx[t].pc \in ChargingPcs
ReadQuantity(t, p) ==
  Selling(t) /\ tx[t].lines[p] > 0 /\ ~(At(t, "lock_product") /\ p \in tx[t].todo)

\* The rows a call works on: it has read them, and has yet to write what it
\* computes from them.  (A Draft Bill's Lines are not among them: add_line and
\* update_line lock none, so the later of two calls overwrites the earlier.)
DraftsInWork(t)    == {d \in {tx[t].draft} : At(t, "load_lines") \/ Selling(t)}
ProductsInWork(t)  == {p \in Products : \/ ReadQuantity(t, p)
                                        \/ At(t, "receive") /\ p = tx[t].call.product}
CustomersInWork(t) == {c \in Customers : Charging(t) /\ c = tx[t].call.customer}
BatchesInWork(t)   == {b \in BatchIds : tx[t].batch[b] > 0}
CountersInWork(t)  == {day \in Days : At(t, "write_bill") /\ day = tx[t].day}

\* No two calls work on a row at the same time: neither can overwrite what the
\* other is about to write, or read what it is about to change.  This is what
\* lock_products_sorted, lock_batches_sorted, _lock_draft_by_id, the customer's
\* and the counter's FOR UPDATE are for, in both finalize_bill and receive_stock.
ComputesAlone ==
  \A t, u \in Sessions : t # u =>
    /\ DraftsInWork(t) \cap DraftsInWork(u) = {}
    /\ ProductsInWork(t) \cap ProductsInWork(u) = {}
    /\ CustomersInWork(t) \cap CustomersInWork(u) = {}
    /\ BatchesInWork(t) \cap BatchesInWork(u) = {}
    /\ CountersInWork(t) \cap CountersInWork(u) = {}

\* What finalize_bill writes back is computed from quantities read under lock:
\* they are still the committed ones, however long the transaction waits for
\* the other locks (src/domain/stock.py, ADR-0005 and ADR-0012).
LockedReadsCurrent ==
  \A t \in Sessions :
    /\ \A p \in Products :
         ForUpdate(ProductRow(p)) \in held[t] => tx[t].qty[p] = quantity[p]
    /\ \A b \in 1..Len(batches) :
         ForUpdate(BatchRow(b)) \in held[t] => tx[t].batch[b] = batches[b].qty
    /\ At(t, "write_bill") => tx[t].seq = counter[tx[t].day]

\* The row a session is about to lock, if any.
Wanted(t) ==
  LET x == tx[t]
  IN  CASE At(t, "create_draft")   -> {ForUpdate(OpenDraftKey(x.call.chat))}
        [] At(t, "share_draft")    -> {ForShare(DraftRow(x.draft))}
        [] At(t, "share_product")  -> {ForShare(ProductRow(x.call.product))}
        [] At(t, "lock_draft")     -> {ForUpdate(DraftRow(x.draft))}
        [] At(t, "lock_product")   -> {ForUpdate(ProductRow(First(x.todo)))}
        [] At(t, "lock_customer")  -> {ForUpdate(CustomerRow(x.call.customer))}
        [] At(t, "lock_batch")     -> {ForUpdate(BatchRow(First(x.todo)))}
        [] At(t, "mint") /\ counter[x.day] > 0 -> {ForUpdate(CounterRow(x.day))}
        [] At(t, "insert_counter") -> {ForUpdate(CounterRow(x.day))}
        [] OTHER -> {}

\* t waits for a row that u holds.
WaitsFor(t, u) ==
  t # u /\ \E want \in Wanted(t) : \E k \in held[u] : Conflict(k, want)

\* No set of tool calls wait for each other in a circle: Postgres never has a
\* deadlock victim to roll back.
NoWaitCycle ==
  \A S \in SUBSET Sessions :
    S # {} => \E t \in S : \A u \in S : ~WaitsFor(t, u)

\* The reason: whatever the call, a row it waits for comes after every row it
\* holds, in one order of all rows: the open-draft key, Draft Bills, Products
\* by id, customers, Batches by id, counter rows.
Level == [open_draft |-> 1, draft |-> 2, product |-> 3, customer |-> 4, batch |-> 5,
          counter |-> 6]
RowBefore(r, s) ==
  \/ Level[r[1]] < Level[s[1]]
  \/ r[1] = s[1] /\ r[1] \in {"product", "batch"} /\ r[2] < s[2]

LocksInOrder ==
  \A t \in Sessions : \A want \in Wanted(t) : \A k \in held[t] : RowBefore(k.row, want.row)

-----------------------------------------------------------------------------
(* Draft Bills and Bills                                                     *)

\* At most one open Draft Bill per chat, whatever calls race to open it.
OneOpenDraft == \A c \in Chats : Cardinality(OpenDrafts(c)) <= 1

\* A Draft Bill is finalized exactly when one Bill was made from it, of the
\* same chat, and the two refer to each other: no race or crash makes a second
\* Bill, or leaves a Draft Bill and its Bill disagreeing.
BillsMatchDrafts ==
  /\ \A b \in 1..Len(bills) :
       /\ bills[b].draft \in 1..Len(drafts)
       /\ drafts[bills[b].draft].bill = b
       /\ drafts[bills[b].draft].chat = bills[b].chat
  /\ \A d \in 1..Len(drafts) :
       (drafts[d].status = "finalized") <=>
         \E b \in 1..Len(bills) : bills[b].draft = d

\* On each day the invoice numbers are 1, 2, ... last_seq, each of one Bill:
\* no rolled-back finalize_bill burns a number and no two Bills share one.
InvoicesGapFree ==
  \A day \in Days :
    LET ofDay == {b \in 1..Len(bills) : bills[b].invoice[1] = day}
    IN  /\ {bills[b].invoice[2] : b \in ofDay} = 1..counter[day]
        /\ Cardinality(ofDay) = counter[day]

\* A khata Bill charges its customer exactly once, its whole total; no other
\* Bill charges anyone.
KhataChargedOnce ==
  /\ \A b \in 1..Len(bills) :
       Cardinality({e \in 1..Len(khata) : khata[e].bill = b})
         = IF bills[b].mode = "khata" THEN 1 ELSE 0
  /\ \A e \in 1..Len(khata) :
       khata[e].amount = bills[khata[e].bill].total /\ khata[e].amount > 0

\* tests and ADR-0004: "a finalize on an already-finalized draft returns the
\* existing bill_id".  A call that has locked a finalized Draft Bill and ends
\* (other than by a crash) answers with a replay.
ReplaysFinalizedDraft ==
  [][\A t \in Sessions :
       (/\ tx[t].pc # "idle" /\ tx'[t].pc = "idle" /\ tx'[t].answer # "lost"
        /\ Op(t) = "finalize" /\ ForUpdate(DraftRow(tx[t].draft)) \in held[t]
        /\ drafts[tx[t].draft].status = "finalized")
       => tx'[t].answer = "replay"]_vars

-----------------------------------------------------------------------------
(* Stock                                                                     *)

\* products.quantity, which finalize_bill decrements and receive_stock
\* recomputes, is always the sum of the Product's Batches.
StockIsBatchSum == \A p \in Products : quantity[p] = OnHand(batches, p)

Sold(p) == SumTo([b \in 1..Len(bills) |-> bills[b].lines[p]], Len(bills))

Received(p) ==
  LET stockIn == {e \in 1..Len(ledger[p]) : ledger[p][e].reason = "stock_in"}
  IN  SumOver([e \in 1..Len(ledger[p]) |-> ledger[p][e].delta], stockIn, Len(ledger[p]))

\* Nothing is sold that was not there and nothing vanishes: opening stock plus
\* receipts is what is on hand plus what is on the Bills.
StockConserved ==
  \A p \in Products :
    OnHand(OpeningBatches, p) + Received(p) = quantity[p] + Sold(p)

\* stock_ledger is an audit trail: each row's balance is the previous balance
\* plus its delta, and the last one is the Product's quantity.
LedgerExplainsStock ==
  \A p \in Products :
    LET rows == ledger[p]
        balance(i) == IF i = 0 THEN OnHand(OpeningBatches, p) ELSE rows[i].balance
    IN  /\ \A i \in 1..Len(rows) : balance(i) = balance(i - 1) + rows[i].delta
        /\ balance(Len(rows)) = quantity[p]

\* A commit that takes from a Batch takes it before its expiry day is over, on
\* the day of its own oversell check, and leaves nothing in any sellable Batch of
\* the Product that expires earlier.
FefoAction ==
  \A b \in 1..Len(batches) :
    batches'[b].qty < batches[b].qty =>
      \E t \in Sessions :
        /\ At(t, "write_bill") /\ tx'[t].pc = "idle"
        /\ IsNonExpired(batches[b], tx[t].asOf)
        /\ \A a \in SellableBatches(batches, batches[b].product, tx[t].asOf) :
             batches[a].expiry < batches[b].expiry => batches'[a].qty = 0

\* First expiry first out, on what finalize_bill commits (select_fefo).
FefoRespected == [][FefoAction]_vars

-----------------------------------------------------------------------------
(* Liveness                                                                  *)

\* Postgres queues the waiters of a row in order, so a session whose lock is
\* again and again free gets it (strong fairness); every other statement of a
\* running call runs.  Nothing forces a call to start, midnight, or a crash.
Statement(t) ==
  CreateDraft(t) \/ ReadLine(t) \/ ShareDraft(t) \/ ShareProduct(t) \/ InsertLine(t)
    \/ UpdateLine(t) \/ DeleteLine(t) \/ LockDraft(t) \/ LoadLines(t) \/ LockProduct(t)
    \/ LockCustomer(t) \/ CheckCost(t) \/ LockBatch(t) \/ CheckStock(t)
    \/ MintNumber(t) \/ InsertCounter(t) \/ CommitBill(t) \/ CommitReceive(t)

FairSpec == Spec /\ \A t \in Sessions : SF_vars(Statement(t))

\* Every tool call ends: it answers, refuses or fails, and frees its locks.
EveryCallEnds == \A t \in Sessions : ~At(t, "idle") ~> At(t, "idle")
=============================================================================
