----------------------------- MODULE KhataBook -----------------------------
(***************************************************************************)
(* What a Khata promises: one account per Customer.  A charge raises what  *)
(* is owed, a payment lowers it, and only a payment the Owner confirmed    *)
(* may exceed it.                                                          *)
(***************************************************************************)
EXTENDS Integers, Sequences

CONSTANT Amounts     \* amounts in paise

VARIABLES
  owed,     \* balance_paise of each Customer
  advance   \* of it, what was paid under confirm_overpayment

Init == owed = <<>> /\ advance = <<>>

\* A new Customer owes nothing.
Open == owed' = Append(owed, 0) /\ advance' = Append(advance, 0)

Charge(c, a) == owed' = [owed EXCEPT ![c] = @ + a] /\ UNCHANGED advance

Pay(c, a) ==
  /\ a <= owed[c]
  /\ owed' = [owed EXCEPT ![c] = @ - a]
  /\ UNCHANGED advance

PayConfirmed(c, a) ==
  /\ owed' = [owed EXCEPT ![c] = @ - a]
  /\ advance' = [advance EXCEPT ![c] = @ + a]

Next ==
  \/ Open
  \/ \E c \in DOMAIN owed, a \in Amounts : Charge(c, a) \/ Pay(c, a) \/ PayConfirmed(c, a)

Spec == Init /\ [][Next]_<<owed, advance>>
=============================================================================
