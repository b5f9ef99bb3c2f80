------------------------------ MODULE MCKhata ------------------------------
(* Instances of KhataAccounts for TLC.                                     *)
EXTENDS KhataAccounts, TLC

CONSTANTS s1, s2

SessionSymmetry == Permutations(Sessions)

Find(n)      == [op |-> "find", name |-> n, confirm |-> TRUE]
Charge(c, a) == [op |-> "charge", customer |-> c, amount |-> a]
Bill(c, a)   == [op |-> "bill", customer |-> c, amount |-> a]
Pay(c, a, ok) == [op |-> "pay", customer |-> c, amount |-> a, confirm |-> ok]

\* "Ravi" and "Ravi K" resemble each other, "Meena" neither.
ShopNames == {"Ravi", "Ravi K", "Meena"}
ShopScore == [p \in ShopNames \X ShopNames |->
                IF p[1] = p[2] THEN 100 ELSE IF "Meena" \in {p[1], p[2]} THEN 0 ELSE 60]

\* Customers come and go on credit: charges, Bills, payments that may exceed
\* what is owed, with and without the Owner's confirmation.
ShopCalls ==
  {Find("Ravi"), Find("Ravi K"), [Find("Meena") EXCEPT !.confirm = FALSE],
   Charge(1, 1), Bill(1, 2), Bill(2, 1),
   Pay(1, 1, FALSE), Pay(1, 2, FALSE), Pay(2, 2, FALSE), Pay(1, 2, TRUE)}
=============================================================================
