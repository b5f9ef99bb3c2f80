------------------------- MODULE BillingInvariants -------------------------
(***************************************************************************)
(* The inductive invariants behind the properties of Billing: what a       *)
(* running transaction knows and holds at each statement.                  *)
(***************************************************************************)
EXTENDS BillingProperties

-----------------------------------------------------------------------------
(* Types, for the proofs: quantity may be any integer until the stock        *)
(* invariant bounds it.                                                      *)

Tables ==
  /\ drafts \in Seq(DraftType)
  /\ lines \in Seq([Products -> Nat]) /\ Len(lines) = Len(drafts)
  /\ bills \in Seq(BillType)
  /\ batches \in Seq(BatchType)
  /\ quantity \in [Products -> Int]
  /\ counter \in [Days -> Nat]
  /\ khata \in Seq(KhataType)
  /\ istDay \in Days /\ localDay \in Days

LineOps     == {"add_line", "update_line", "remove_line"}
LinePcs     == {"read_line", "share_draft", "share_product", "write_line"}
FinalizePcs == {"lock_draft", "load_lines", "lock_customer", "check_cost", "lock_batch",
                "check_stock", "mint", "insert_counter", "write_bill"}

\* The call a transaction runs, by the statement it is about to run.
CallOfPc(x) ==
  /\ x.pc = "idle" => x.call = NoCall
  /\ x.pc # "idle" => x.call \in Calls
  /\ x.pc = "create_draft" => x.call.op \in {"open_draft", "add_line"}
  /\ x.pc \in LinePcs => x.call.op \in LineOps
  /\ x.pc \in {"share_draft", "share_product"} => x.call.op = "add_line"
  /\ x.pc = "lock_product" => x.call.op \in {"finalize", "receive"}
  /\ x.pc = "receive" => x.call.op = "receive"
  /\ x.pc \in FinalizePcs => x.call.op = "finalize"
  /\ x.call.op = "finalize" => x.call.mode # "unresolved" /\ ~NeedsCustomer(x.call)
  /\ x.call.op = "receive" => x.call.qty > 0

\* The rows a transaction has in hand or is left to lock are rows of the tables,
\* which have m Draft Bills and n Batches so far.
RowsOfPc(x, m, n) ==
  /\ x.call.op \in {"update_line", "remove_line", "finalize"} => x.draft \in 1..m
  /\ x.pc \in {"read_line", "share_draft"} => x.draft \in 1..m
  /\ x.pc \in {"create_draft", "share_draft", "share_product"} => x.seen = 0
  /\ x.pc = "write_line" /\ x.seen > 0 => x.draft \in 1..m
  /\ x.draft # 0 => x.draft \in 1..m
  /\ x.pc = "lock_product" => x.todo \in SUBSET Products /\ x.todo # {}
  /\ x.pc = "lock_batch" => x.todo \in SUBSET (1..n) /\ x.todo # {}

\* A khata Bill past its customer lock has a customer.
CustomerOfPc(x) ==
  x.pc \in {"check_cost", "lock_batch", "check_stock", "mint", "insert_counter", "write_bill"}
    /\ x.call.mode = "khata" => x.call.customer \in Customers

SessionInv ==
  /\ tx \in [Sessions -> TxType]
  /\ held \in [Sessions -> SUBSET LockType]
  /\ \A t \in Sessions :
       /\ CallOfPc(tx[t]) /\ CustomerOfPc(tx[t])
       /\ RowsOfPc(tx[t], Len(drafts), Len(batches))

BatchRoom == Len(batches) + Cardinality(Receiving) <= MaxBatches

TypeInv == Tables /\ SessionInv /\ BatchRoom

-----------------------------------------------------------------------------
(* Locks.  A transaction goes through the levels of RowBefore upwards.       *)

\* The highest level a transaction holds a row of, by its statement.
HeldLevel ==
  [idle |-> 0, create_draft |-> 0, read_line |-> 0, share_draft |-> 0, share_product |-> 2,
   write_line |-> 3, lock_draft |-> 0, load_lines |-> 2, lock_product |-> 3, receive |-> 3,
   lock_customer |-> 3, check_cost |-> 4, lock_batch |-> 5, check_stock |-> 5, mint |-> 5,
   insert_counter |-> 5, write_bill |-> 6]

\* Of a session's transaction x and the locks H it holds.
LocksOfPc(x, H) ==
  \A k \in H :
    /\ Level[k.row[1]] <= HeldLevel[x.pc]
    /\ x.pc = "lock_product" /\ k.row[1] = "product" => \A p \in x.todo : k.row[2] < p
    /\ x.pc = "lock_batch" /\ k.row[1] = "batch" => \A b \in x.todo : k.row[2] < b

OrderInv == \A t \in Sessions : LocksOfPc(tx[t], held[t])

\* Two sessions never hold conflicting locks on a row.
LocksExclude ==
  \A t, u \in Sessions : t # u =>
    \A k \in held[t], l \in held[u] :
      k.row = l.row => k.mode = "share" /\ l.mode = "share"

LockInv == LocksExclude /\ OrderInv
-----------------------------------------------------------------------------
(* Rows in hand.  What a transaction writes it holds, and what it has read   *)
(* of a row it holds is still in the table.                                  *)

\* A transaction that has inserted its Draft Bill, which no one else sees yet.
Created(x) == x.pc \in {"share_product", "write_line"} /\ x.draft = 0

PricedPcs == {"mint", "insert_counter", "write_bill"}

OwnsDraft(x, H) == Created(x) => ForUpdate(OpenDraftKey(x.call.chat)) \in H

OwnsCounter(x, H) ==
  /\ x.pc = "write_bill" => ForUpdate(CounterRow(x.day)) \in H
  /\ x.pc # "write_bill" => x.seq = 0

OwnsProducts(x, H) ==
  /\ x.pc = "lock_product" /\ x.call.op = "receive" => x.todo = {x.call.product}
  /\ x.pc = "receive" => ForUpdate(ProductRow(x.call.product)) \in H
  /\ x.pc \in SellingPcs /\ x.call.op = "finalize" =>
       \A p \in Products : x.lines[p] > 0 =>
         \/ ForUpdate(ProductRow(p)) \in H
         \/ x.pc = "lock_product" /\ p \in x.todo

OwnsBatches(x, H) == \A b \in BatchIds : x.batch[b] > 0 => ForUpdate(BatchRow(b)) \in H

OwnsOfPc(x, H) ==
  /\ x.pc = "idle" => H = {}
  /\ OwnsDraft(x, H) /\ OwnsCounter(x, H) /\ OwnsProducts(x, H) /\ OwnsBatches(x, H)

OwnsInv == \A t \in Sessions : OwnsOfPc(tx[t], held[t])

-----------------------------------------------------------------------------
(* The tables                                                                *)

BothOpen(d, e) ==
  drafts[d].chat = drafts[e].chat /\ drafts[d].status = "open" /\ drafts[e].status = "open"

\* A chat has one open Draft Bill, none while a session creates its own.
DraftsInv ==
  /\ \A d, e \in 1..Len(drafts) : BothOpen(d, e) => d = e
  /\ \A t \in Sessions : \A k \in held[t] :
       k.row[1] = "open_draft" => OpenDrafts(k.row[2]) = {}

\* The Draft Bill finalize_bill has in hand is its chat's.
ChatsInv ==
  \A t \in Sessions : Op(t) = "finalize" => drafts[tx[t].draft].chat = tx[t].call.chat

\* A session about to write its Bill has the counter's last number.
SeqInv == \A t \in Sessions : At(t, "write_bill") => tx[t].seq = counter[tx[t].day]

\* A locked Batch is a row of the table.
RowsInv ==
  \A t \in Sessions : \A k \in held[t] : k.row[1] = "batch" => k.row[2] \in 1..Len(batches)

ChargesInv == \A e \in 1..Len(khata) : khata[e].bill \in 1..Len(bills)

\* The rows of stock_ledger.
LedgerRow == [reason: {"sale", "stock_in"}, ref: Nat, delta: Int, balance: Int]
LedgerInv == ledger \in [Products -> Seq(LedgerRow)]

\* finalize_bill holds its Draft Bill from _lock_draft_by_id on, and the customer
\* of a khata Bill from the customer's lock on.
HoldsParties(x, H) ==
  x.call.op = "finalize" =>
    /\ x.pc \in {"load_lines"} \cup SellingPcs => ForUpdate(DraftRow(x.draft)) \in H
    /\ x.pc \in ChargingPcs /\ x.call.mode = "khata" =>
         ForUpdate(CustomerRow(x.call.customer)) \in H

PartiesInv == \A t \in Sessions : HoldsParties(tx[t], held[t])

\* From _batch_ids_for_products on, finalize_bill holds or is about to lock every
\* Batch with stock of the Products on its Lines: receive_stock adds none.
ChosenPcs == {"lock_batch", "check_stock"} \cup PricedPcs

Chosen(x, H) ==
  x.pc \in ChosenPcs => \A b \in 1..Len(batches) :
    x.lines[batches[b].product] > 0 /\ batches[b].qty > 0 =>
      ForUpdate(BatchRow(b)) \in H \/ (x.pc = "lock_batch" /\ b \in x.todo)

ChosenInv == \A t \in Sessions : Chosen(tx[t], held[t])

\* The Batches a session has locked still cover its Lines.
CoveredInv ==
  \A t \in Sessions : tx[t].pc \in PricedPcs => ~Oversold(tx[t], tx[t].asOf)

=============================================================================
