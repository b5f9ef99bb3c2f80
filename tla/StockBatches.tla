---------------------------- MODULE StockBatches ----------------------------
(***************************************************************************)
(* The Batch arithmetic that receive_stock and finalize_bill share: the    *)
(* sum that reconciles a Product's quantity, the sellable quantity of the  *)
(* oversell check, and first-expiry-first-out consumption.                 *)
(*                                                                         *)
(* batches is the table stock_batches: a sequence of records whose index   *)
(* is the batch_id.  An expiry date is a day number; a NULL expiry is a    *)
(* day after every day of the calendar, which is how the code orders it.   *)
(* qty is the batch_qty a transaction read under its row locks: a function *)
(* on batch ids, 0 for a Batch the transaction did not lock.               *)
(***************************************************************************)
EXTENDS Integers, Sequences, Sums

\* SELECT coalesce(sum(batch_qty), 0) WHERE product_id = p
OnHand(batches, p) ==
  SumTo([b \in 1..Len(batches) |->
           IF batches[b].product = p THEN batches[b].qty ELSE 0],
        Len(batches))

\* A Batch without expiry, or one that expires on as_of or later, is sellable.
IsNonExpired(batch, asOf) == batch.expiry >= asOf

SellableBatches(batches, p, asOf) ==
  {b \in 1..Len(batches) :
     batches[b].product = p /\ IsNonExpired(batches[b], asOf)}

SellableQuantity(batches, qty, p, asOf) ==
  SumOver(qty, SellableBatches(batches, p, asOf), Len(batches))

\* (mutant) First in, first out.
FifoBefore(batches, a, b) == a < b

\* The sort key of _fefo_sorted_batches: earliest expiry, NULL last, then id.
FefoBefore(batches, a, b) ==
  \/ batches[a].expiry < batches[b].expiry
  \/ batches[a].expiry = batches[b].expiry /\ a < b

\* What the consumption loop takes from Batch b for a Line of `need`: the
\* Batches before it in FEFO order are emptied first, b gives what remains.
FefoTake(batches, qty, p, asOf, need, b) ==
  LET sellable  == SellableBatches(batches, p, asOf)
      earlier   == {a \in sellable : FefoBefore(batches, a, b)}
      remaining == need - SumOver(qty, earlier, Len(batches))
  IN  IF b \notin sellable \/ remaining <= 0 THEN 0
      ELSE IF qty[b] < remaining THEN qty[b] ELSE remaining
=============================================================================
