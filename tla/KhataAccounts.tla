--------------------------- MODULE KhataAccounts ---------------------------
(***************************************************************************)
(* KhataService as concurrent database transactions: find_or_create_       *)
(* customer, add_khata_charge, record_payment, and the credit Bill of      *)
(* finalize_bill as far as it touches a Khata.  An action is one statement *)
(* that reads or locks what another session can change, with what follows  *)
(* it; a transaction's INSERT is its last statement and commits.           *)
(***************************************************************************)
EXTENDS Integers, Sequences, Sums

CONSTANTS
  Sessions,      \* tool calls that can run at the same time
  Names,         \* names, with a phone number where one is given
  Score,         \* match_score of a customer's name against a query, 0..100
  MinScore,      \* MIN_MATCH_SCORE
  Amounts,       \* amounts in paise
  Calls,         \* the tool calls the model may make
  MaxCustomers,  \* bound: customers ever created
  MaxEntries     \* bound: khata_entries ever written

CustomerIds == 1..MaxCustomers

CallType ==
  [op: {"find"}, name: Names, confirm: BOOLEAN]
    \cup [op: {"charge", "bill"}, customer: CustomerIds, amount: Amounts]
    \cup [op: {"pay"}, customer: CustomerIds, amount: Amounts, confirm: BOOLEAN]

ASSUME KhataAssumption ==
  /\ MaxCustomers \in Nat /\ MaxEntries \in Nat /\ MinScore \in Nat
  /\ Amounts \subseteq Nat \ {0}
  /\ Score \in [Names \X Names -> 0..100]
  /\ \A n \in Names : Score[<<n, n>>] = 100
  /\ Calls \subseteq CallType

VARIABLES
  customers,   \* the names of the customers, by customer_id
  entries,     \* khata_entries, in the order they were committed
  tx,          \* each session's transaction: the statement to run and its call
  locked       \* the customer rows each session holds FOR UPDATE

vars == <<customers, entries, tx, locked>>

Idle == [pc |-> "idle", call |-> [op |-> "none"]]

At(s, pc)   == tx[s].pc = pc
Call(s)     == tx[s].call
Goto(s, pc) == tx' = [tx EXCEPT ![s].pc = pc]
Exists(c)   == c \in 1..Len(customers)

\* The transaction ends, committed or rolled back.
Finish(s) == tx' = [tx EXCEPT ![s] = Idle] /\ locked' = [locked EXCEPT ![s] = {}]
Refuse(s) == Finish(s) /\ UNCHANGED <<customers, entries>>

Proceed(s, pc) == Goto(s, pc) /\ UNCHANGED <<customers, entries, locked>>

-----------------------------------------------------------------------------
(* find_or_create_customer *)

Candidates(name) == {c \in 1..Len(customers) : Score[<<customers[c], name>>] >= MinScore}

\* Nobody matches and the Owner has confirmed: go on to create.  Otherwise the
\* call answers with the candidates, or asks for the confirmation.
FindCustomer(s) ==
  /\ At(s, "find")
  /\ IF Candidates(Call(s).name) = {} /\ Call(s).confirm THEN Proceed(s, "create") ELSE Refuse(s)

CreateCustomer(s) ==
  /\ At(s, "create") /\ Len(customers) < MaxCustomers
  /\ customers' = Append(customers, Call(s).name)
  /\ Finish(s)
  /\ UNCHANGED entries

-----------------------------------------------------------------------------
(* Charges and payments *)

\* (mutant) record_payment does not lock the customer.
PayWithoutLock(s) ==
  /\ At(s, "get")
  /\ IF Exists(Call(s).customer) THEN Proceed(s, "balance") ELSE Refuse(s)

\* record_payment looks the customer up before it locks.
GetCustomer(s) ==
  /\ At(s, "get")
  /\ IF Exists(Call(s).customer) THEN Proceed(s, "lock") ELSE Refuse(s)

\* lock_customer: SELECT ... FOR UPDATE, or CustomerNotFoundError.
LockCustomer(s) ==
  /\ At(s, "lock")
  /\ LET c == Call(s).customer IN
       IF ~Exists(c) THEN Refuse(s)
       ELSE /\ \A u \in Sessions \ {s} : c \notin locked[u]
            /\ locked' = [locked EXCEPT ![s] = {c}]
            /\ Goto(s, IF Call(s).op = "pay" THEN "balance" ELSE "post")
            /\ UNCHANGED <<customers, entries>>

EntriesOf(c) == {i \in 1..Len(entries) : entries[i].customer = c}

\* _balance_for_customer: charges less payments.
Signed(e)  == IF e.type = "charge" THEN e.amount ELSE -e.amount
Balance(c) ==
  SumOver([i \in 1..Len(entries) |-> Signed(entries[i])], EntriesOf(c), Len(entries))

\* (mutant) The refusal returns with the transaction still open.
AskKeepingLock(s) ==
  /\ At(s, "balance")
  /\ IF Call(s).amount > Balance(Call(s).customer) /\ ~Call(s).confirm
       THEN tx' = [tx EXCEPT ![s] = Idle] /\ UNCHANGED <<customers, entries, locked>>
       ELSE Proceed(s, "post")

\* A payment above the balance needs confirm_overpayment.
CheckOverpayment(s) ==
  /\ At(s, "balance")
  /\ IF Call(s).amount > Balance(Call(s).customer) /\ ~Call(s).confirm
       THEN Refuse(s) ELSE Proceed(s, "post")

\* The Khata Entry is written and committed.  (A Bill charges what it totals.)
PostEntry(s) ==
  /\ At(s, "post") /\ Len(entries) < MaxEntries
  /\ entries' = Append(entries,
       [customer  |-> Call(s).customer,
        type      |-> IF Call(s).op = "pay" THEN "payment" ELSE "charge",
        amount    |-> Call(s).amount,
        confirmed |-> Call(s).op = "pay" /\ Call(s).confirm])
  /\ Finish(s)
  /\ UNCHANGED customers

-----------------------------------------------------------------------------
FirstStatement(op) ==
  CASE op = "find" -> "find" [] op = "pay" -> "get" [] op \in {"charge", "bill"} -> "lock"

Begin(s) ==
  /\ At(s, "idle")
  /\ \E call \in Calls : tx' = [tx EXCEPT ![s] = [pc |-> FirstStatement(call.op), call |-> call]]
  /\ UNCHANGED <<customers, entries, locked>>

\* A statement fails, the process dies, or a finalize_bill refuses: rollback.
Abort(s) == ~At(s, "idle") /\ Refuse(s)

Init ==
  /\ customers = <<>> /\ entries = <<>>
  /\ tx = [s \in Sessions |-> Idle]
  /\ locked = [s \in Sessions |-> {}]

Next ==
  \E s \in Sessions :
    \/ Begin(s) \/ Abort(s)
    \/ FindCustomer(s) \/ CreateCustomer(s)
    \/ GetCustomer(s) \/ LockCustomer(s) \/ CheckOverpayment(s) \/ PostEntry(s)

Spec == Init /\ [][Next]_vars

-----------------------------------------------------------------------------
(* Properties *)

\* Every variable has its type; entries name customers that exist; and a session
\* holds a customer row exactly while it is deciding and writing.
TypeOK ==
  /\ customers \in Seq(Names) /\ Len(customers) <= MaxCustomers
  /\ Len(entries) <= MaxEntries
  /\ \A i \in 1..Len(entries) : Exists(entries[i].customer) /\ entries[i].amount \in Amounts
  /\ \A s \in Sessions :
       /\ tx[s].pc \in {"idle", "find", "create", "get", "lock", "balance", "post"}
       /\ locked[s] = IF tx[s].pc \in {"balance", "post"} THEN {Call(s).customer} ELSE {}

\* Concurrent charges, payments and credit Bills act on a Khata as if one at a
\* time: the sums of the entries follow KhataBook, where an unconfirmed payment
\* never exceeds what is owed at the moment it commits.
Owed == [c \in 1..Len(customers) |-> Balance(c)]

Paid(e) == IF e.confirmed THEN e.amount ELSE 0

Advance ==
  [c \in 1..Len(customers) |->
     SumOver([i \in 1..Len(entries) |-> Paid(entries[i])], EntriesOf(c), Len(entries))]

Book == INSTANCE KhataBook WITH owed <- Owed, advance <- Advance

KeepsBook == Book!Spec
=============================================================================
