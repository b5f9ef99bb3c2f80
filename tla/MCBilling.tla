----------------------------- MODULE MCBilling -----------------------------
(* Instances of Billing for TLC.                                           *)
EXTENDS BillingInvariants, TLC

CONSTANTS s1, s2, s3, c1, c2, k1

Batch(p, q, e) == [product |-> p, qty |-> q, expiry |-> e]
Add(c, p, q)     == [op |-> "add_line", chat |-> c, product |-> p, qty |-> q]
Update(c, p, q)  == [op |-> "update_line", chat |-> c, product |-> p, qty |-> q]
Remove(c, p)     == [op |-> "remove_line", chat |-> c, product |-> p]
Open(c)          == [op |-> "open_draft", chat |-> c]
Finalize(c, m, k, ok) ==
  [op |-> "finalize", chat |-> c, mode |-> m, customer |-> k, confirm |-> ok]
Receive(p, q, e) == [op |-> "receive", product |-> p, qty |-> q, expiry |-> e]

\* One Product at Rs 60, one at 40 paise that costs the shop more.
TwoMrps  == <<6000, 40>>
TwoCosts == <<5000, 50>>
OneMrp   == <<6000>>
OneCost  == <<5000>>

SessionSymmetry == Permutations(Sessions)

\* Stock: two chats sell the same Product from two Batches, one of which
\* expires on day 0, while the shop receives a third that expires first.
StockBatchRows == <<Batch(1, 1, 0), Batch(1, 2, NoExpiry)>>
StockCalls ==
  {Add(c1, 1, 2), Add(c2, 1, 1), Receive(1, 1, 0),
   Finalize(c1, "cash", "none", FALSE), Finalize(c2, "cash", "none", FALSE)}

\* Bills: three sessions; two chats bill the same customer on khata and have the
\* same two Products on their Draft Bills, added in opposite orders.  Product 2
\* is sold below its cost, and at a price that rounds to nothing.
BillBatches == <<Batch(2, 2, NoExpiry), Batch(1, 2, NoExpiry)>>
BillCalls ==
  {Add(c1, 1, 1), Add(c1, 2, 1), Add(c2, 2, 1), Add(c2, 1, 1), Receive(2, 1, NoExpiry),
   Finalize(c1, "khata", k1, TRUE), Finalize(c2, "khata", k1, TRUE)}

\* Liveness: every kind of call on one chat's Draft Bill, waiting for the others'
\* Draft Bill, Products and Batches, with all the refusals of finalize_bill.
LiveBatches == <<Batch(1, 1, NoExpiry), Batch(2, 1, NoExpiry)>>
LiveCalls ==
  {Open(c1), Add(c1, 1, 1), Add(c1, 2, 1), Add(c1, 1, 0), Update(c1, 1, 1), Remove(c1, 1),
   Receive(2, 1, NoExpiry),
   Finalize(c1, "khata", k1, FALSE), Finalize(c1, "khata", k1, TRUE),
   Finalize(c1, "khata", "none", FALSE), Finalize(c1, "khata", "unknown", TRUE),
   Finalize(c1, "unresolved", "none", FALSE)}

\* A finalize_bill retried, or a Line added, while the first is still running.
ReplayBatches == <<Batch(1, 2, 1)>>
ReplayCalls == {Add(c1, 1, 1), Finalize(c1, "cash", "none", FALSE)}
=============================================================================
