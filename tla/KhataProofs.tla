---------------------------- MODULE KhataProofs ----------------------------
(***************************************************************************)
(* Concurrent charges, credit Bills and payments implement the KhataBook:  *)
(* a session that is deciding or writing is alone on its Customer's row,   *)
(* so the balance it compared the payment with is the balance it changes.  *)
(***************************************************************************)
EXTENDS KhataAccounts, OperatorProofs

Pcs       == {"idle", "find", "create", "get", "lock", "balance", "post"}
Deciding  == {"balance", "post"}
EntryType == [customer: Nat, type: {"charge", "payment"}, amount: Amounts, confirmed: BOOLEAN]
Tx        == [pc: Pcs, call: CallType \cup {Idle.call}]

Books ==
  /\ customers \in Seq(Names) /\ Len(customers) <= MaxCustomers
  /\ entries \in Seq(EntryType) /\ Len(entries) <= MaxEntries
  /\ \A i \in 1..Len(entries) : entries[i].customer \in 1..Len(customers)

\* What a transaction is about at each of its statements.
CallOf(x) ==
  /\ x.pc \in {"find", "create"} => x.call.op = "find"
  /\ x.pc \in {"get", "balance"} => x.call.op = "pay"
  /\ x.pc \in {"lock", "post"} => x.call.op \in {"charge", "bill", "pay"}

Transactions ==
  /\ tx \in [Sessions -> Tx] /\ locked \in [Sessions -> SUBSET Nat]
  /\ \A s \in Sessions :
       /\ CallOf(tx[s])
       /\ tx[s].pc \in Deciding => tx[s].call.customer \in 1..Len(customers)
       /\ locked[s] = IF tx[s].pc \in Deciding THEN {tx[s].call.customer} ELSE {}

\* No Khata has two sessions deciding about it.
Alone ==
  \A s, u \in Sessions :
    s # u /\ tx[s].pc \in Deciding /\ tx[u].pc \in Deciding => tx[s].call.customer # tx[u].call.customer

\* A payment about to be written is confirmed, or covered by what is still owed.
Decided ==
  \A s \in Sessions, c \in Nat :
    tx[s].pc = "post" /\ tx[s].call.op = "pay" /\ tx[s].call.customer = c =>
      tx[s].call.confirm \/ tx[s].call.amount <= Balance(c)

AccountsInv == Books /\ Transactions /\ Alone /\ Decided

-----------------------------------------------------------------------------
(* Balances                                                                  *)

\* A table with one row more.
LEMMA SumOverLonger ==
  ASSUME NEW n \in Nat, NEW q, NEW S, NEW r, NEW T,
         \A i \in 1..n : q[i] \in Int /\ r[i] = q[i] /\ (i \in T <=> i \in S),
         n + 1 \in T => r[n + 1] \in Int
  PROVE  /\ SumOver(q, S, n) \in Int
         /\ SumOver(r, T, n + 1) = SumOver(q, S, n) + (IF n + 1 \in T THEN r[n + 1] ELSE 0)
<1> DEFINE f == [b \in 1..n |-> IF b \in S THEN q[b] ELSE 0]
           g == [b \in 1..(n + 1) |-> IF b \in T THEN r[b] ELSE 0]
<1>1. \A i \in 1..n : f[i] \in Int /\ g[i] = f[i]
  OBVIOUS
<1>2. g[n + 1] = IF n + 1 \in T THEN r[n + 1] ELSE 0
  OBVIOUS
<1>3. SumOver(q, S, n) = SumTo(f, n) /\ SumOver(r, T, n + 1) = SumTo(g, n + 1)
  BY DEF SumOver
<1> HIDE DEF f, g
<1>4. SumTo(f, n) \in Int
  BY <1>1, SumTyped
<1>5. SumTo(g, n + 1) = SumTo(f, n) + g[n + 1]
  BY <1>1, SumLonger
<1>. QED
  BY <1>2, <1>3, <1>4, <1>5

\* The fields of an entry, and what it adds.
LEMMA EntryFields ==
  ASSUME NEW e \in EntryType
  PROVE  e.amount \in Nat \ {0} /\ e.amount \in Amounts /\ Signed(e) \in Int /\ Paid(e) \in Int
<1>1. e.amount \in Amounts
  BY DEF EntryType
<1>2. Amounts \subseteq Nat \ {0}
  BY KhataAssumption
<1>3. e.amount \in Nat \ {0}
  BY <1>1, <1>2
<1>4. e.amount \in Int /\ -e.amount \in Int /\ 0 \in Int
  BY <1>3
<1>5. Signed(e) \in Int
  BY <1>4, Zenon DEF Signed
<1>6. Paid(e) \in Int
  BY <1>4, Zenon DEF Paid
<1>. QED
  BY <1>1, <1>3, <1>5, <1>6

AdvanceOf(c) == SumOver([i \in 1..Len(entries) |-> Paid(entries[i])], EntriesOf(c), Len(entries))

\* An entry is added to its Customer's balance and to no other.
LEMMA Posted ==
  ASSUME Books, NEW e \in EntryType, entries' = Append(entries, e), NEW c
  PROVE  /\ Balance(c) \in Int /\ AdvanceOf(c) \in Int
         /\ Balance(c)' = Balance(c) + (IF e.customer = c THEN Signed(e) ELSE 0)
         /\ AdvanceOf(c)' = AdvanceOf(c) + (IF e.customer = c THEN Paid(e) ELSE 0)
<1> DEFINE n == Len(entries)
           q == [i \in 1..n |-> Signed(entries[i])]
           r == [i \in 1..(n + 1) |-> Signed(entries'[i])]
           v == [i \in 1..n |-> Paid(entries[i])]
           w == [i \in 1..(n + 1) |-> Paid(entries'[i])]
           S == {i \in 1..n : entries[i].customer = c}
           T == {i \in 1..(n + 1) : entries'[i].customer = c}
<1>1. /\ n \in Nat /\ Len(entries') = n + 1 /\ entries'[n + 1] = e
      /\ \A i \in 1..n : entries'[i] = entries[i] /\ entries[i] \in EntryType
  BY DEF Books
<1>2. /\ Balance(c) = SumOver(q, S, n) /\ Balance(c)' = SumOver(r, T, n + 1)
      /\ AdvanceOf(c) = SumOver(v, S, n) /\ AdvanceOf(c)' = SumOver(w, T, n + 1)
  BY <1>1 DEF Balance, AdvanceOf, EntriesOf
<1>3. \A i \in 1..n : Signed(entries[i]) \in Int /\ Paid(entries[i]) \in Int
  BY <1>1, EntryFields
<1>4. \A i \in 1..n : /\ q[i] \in Int /\ r[i] = q[i] /\ v[i] \in Int /\ w[i] = v[i]
                      /\ (i \in T <=> i \in S)
  <2> SUFFICES ASSUME NEW i \in 1..n
               PROVE  /\ q[i] \in Int /\ r[i] = q[i] /\ v[i] \in Int /\ w[i] = v[i]
                      /\ (i \in T <=> i \in S)
    OBVIOUS
  <2>1. i \in 1..(n + 1) /\ entries'[i] = entries[i]
    BY <1>1
  <2>. QED
    BY <1>3, <2>1
<1>5. /\ n + 1 \in T <=> e.customer = c
      /\ r[n + 1] = Signed(e) /\ w[n + 1] = Paid(e)
  BY <1>1
<1>6. Signed(e) \in Int /\ Paid(e) \in Int
  BY EntryFields
<1> HIDE DEF n, q, r, v, w, S, T
<1>7. /\ n \in Nat
      /\ \A i \in 1..n : q[i] \in Int /\ r[i] = q[i] /\ (i \in T <=> i \in S)
      /\ \A i \in 1..n : v[i] \in Int /\ w[i] = v[i] /\ (i \in T <=> i \in S)
      /\ n + 1 \in T => r[n + 1] \in Int
      /\ n + 1 \in T => w[n + 1] \in Int
  BY <1>1, <1>4, <1>5, <1>6
<1>8. /\ SumOver(q, S, n) \in Int
      /\ SumOver(r, T, n + 1) = SumOver(q, S, n) + (IF n + 1 \in T THEN r[n + 1] ELSE 0)
  BY ONLY <1>7, SumOverLonger
<1>9. /\ SumOver(v, S, n) \in Int
      /\ SumOver(w, T, n + 1) = SumOver(v, S, n) + (IF n + 1 \in T THEN w[n + 1] ELSE 0)
  BY ONLY <1>7, SumOverLonger
<1>. QED
  BY <1>2, <1>5, <1>8, <1>9

LEMMA BalanceTyped ==
  ASSUME Books, NEW c
  PROVE  Balance(c) \in Int
<1> DEFINE n == Len(entries)
           f == [i \in 1..n |-> IF i \in EntriesOf(c) THEN Signed(entries[i]) ELSE 0]
<1>1. n \in Nat /\ \A i \in 1..n : f[i] \in Int
  BY EntryFields DEF Books
<1>2. Balance(c) = SumTo(f, n)
  BY DEF Balance, SumOver
<1> HIDE DEF f, n
<1>. QED
  BY <1>1, <1>2, SumTyped

\* A Customer nobody has charged or paid for owes nothing.
LEMMA NothingOwed ==
  ASSUME Books, NEW c, \A i \in 1..Len(entries) : entries[i].customer # c
  PROVE  Balance(c) = 0 /\ AdvanceOf(c) = 0
<1>1. EntriesOf(c) = {} /\ Len(entries) \in Nat
  BY DEF EntriesOf, Books
<1>. QED
  BY <1>1, SumOverEmpty DEF Balance, AdvanceOf

-----------------------------------------------------------------------------
(* The invariant                                                             *)

LEMMA CallFields ==
  ASSUME NEW call \in CallType \cup {Idle.call}
  PROVE  /\ call.op \in {"find", "charge", "bill", "pay", "none"}
         /\ call.op = "none" => call = Idle.call
         /\ call.op = "find" => call.name \in Names
         /\ call.op \in {"charge", "bill", "pay"} => call.customer \in Nat /\ call.amount \in Amounts
BY KhataAssumption DEF CallType, Idle, CustomerIds

LEMMA AccountsStart == Init => AccountsInv
<1> SUFFICES ASSUME Init PROVE AccountsInv
  OBVIOUS
<1>1. Books
  BY KhataAssumption DEF Init, Books
<1>2. \A s \in Sessions : tx[s] = Idle /\ locked[s] = {}
  BY DEF Init
<1>3. Idle \in Tx /\ Idle.pc = "idle"
  BY DEF Tx, Idle, Pcs
<1>4. Transactions
  BY <1>2, <1>3 DEF Init, Transactions, CallOf, Deciding
<1>5. Alone /\ Decided
  BY <1>2, <1>3 DEF Alone, Decided, Deciding
<1>. QED
  BY <1>1, <1>4, <1>5 DEF AccountsInv

\* A transaction that ends leaves the others as they were, if what it wrote is
\* about nobody they are deciding about.
LEMMA FinishKeeps ==
  ASSUME AccountsInv, NEW s \in Sessions, Finish(s),
         \A c : Exists(c) => Exists(c)',
         \A u \in Sessions \ {s}, c \in Nat :
           tx[u].pc \in Deciding /\ tx[u].call.customer = c => Balance(c)' = Balance(c)
  PROVE  Transactions' /\ Alone' /\ Decided'
<1>1. /\ tx' \in [Sessions -> Tx] /\ locked' \in [Sessions -> SUBSET Nat]
      /\ tx'[s] = Idle /\ locked'[s] = {}
      /\ \A u \in Sessions \ {s} : tx'[u] = tx[u] /\ locked'[u] = locked[u]
  <2>1. Idle \in Tx
    BY DEF Tx, Idle, Pcs
  <2>. QED
    BY <2>1 DEF Finish, AccountsInv, Transactions
<1>2. Idle.pc = "idle"
  BY DEF Idle
<1>3. Transactions'
  <2>1. ASSUME NEW u \in Sessions
        PROVE  /\ CallOf(tx'[u])
               /\ tx'[u].pc \in Deciding => tx'[u].call.customer \in 1..Len(customers')
               /\ locked'[u] = IF tx'[u].pc \in Deciding THEN {tx'[u].call.customer} ELSE {}
    <3>1. CASE u = s
      BY <1>1, <1>2, <3>1 DEF CallOf, Deciding
    <3>2. CASE u # s
      <4>1. tx'[u] = tx[u] /\ locked'[u] = locked[u]
        BY <1>1, <3>2
      <4>2. /\ CallOf(tx[u])
            /\ tx[u].pc \in Deciding => tx[u].call.customer \in 1..Len(customers)
            /\ locked[u] = IF tx[u].pc \in Deciding THEN {tx[u].call.customer} ELSE {}
        BY DEF AccountsInv, Transactions
      <4>3. tx[u].pc \in Deciding => tx[u].call.customer \in 1..Len(customers')
        BY <4>2 DEF Exists
      <4>. QED
        BY <4>1, <4>2, <4>3
    <3>. QED
      BY <3>1, <3>2
  <2>. QED
    BY <1>1, <2>1 DEF Transactions
<1>4. Alone'
  BY <1>1, <1>2 DEF AccountsInv, Alone, Deciding
<1>5. Decided'
  <2> SUFFICES ASSUME NEW u \in Sessions, NEW c \in Nat,
                      tx'[u].pc = "post", tx'[u].call.op = "pay", tx'[u].call.customer = c
               PROVE  tx'[u].call.confirm \/ tx'[u].call.amount <= Balance(c)'
    BY DEF Decided
  <2>1. u # s /\ tx'[u] = tx[u]
    BY <1>1, <1>2
  <2>2. Balance(c)' = Balance(c)
    BY <2>1 DEF Deciding
  <2>. QED
    BY <2>1, <2>2 DEF AccountsInv, Decided
<1>. QED
  BY <1>3, <1>4, <1>5

\* A statement that only moves its transaction on.
LEMMA GotoKeeps ==
  ASSUME AccountsInv, NEW s \in Sessions, NEW pc \in Pcs,
         Goto(s, pc), UNCHANGED <<customers, entries>>,
         locked' = [locked EXCEPT ![s] = IF pc \in Deciding THEN {Call(s).customer} ELSE {}],
         CallOf([pc |-> pc, call |-> Call(s)]),
         pc \in Deciding =>
           /\ Exists(Call(s).customer)
           /\ \A u \in Sessions \ {s} : Call(s).customer \notin locked[u],
         pc = "post" /\ Call(s).op = "pay" =>
           Call(s).confirm \/ Call(s).amount <= Balance(Call(s).customer)
  PROVE  AccountsInv'
<1> DEFINE x == [pc |-> pc, call |-> tx[s].call]
<1>1. tx \in [Sessions -> Tx] /\ locked \in [Sessions -> SUBSET Nat]
  BY DEF AccountsInv, Transactions
<1>2. /\ tx'[s] = x /\ x.pc = pc /\ x.call = tx[s].call
      /\ \A u \in Sessions \ {s} : tx'[u] = tx[u]
  <2>1. tx[s] \in Tx
    BY <1>1
  <2>2. [tx[s] EXCEPT !.pc = pc] = x
    BY <2>1 DEF Tx
  <2>3. tx' = [tx EXCEPT ![s] = [tx[s] EXCEPT !.pc = pc]]
    BY DEF Goto
  <2>. QED
    BY <1>1, <2>2, <2>3
<1>3. tx' \in [Sessions -> Tx]
  <2>1. x \in Tx
    BY <1>1 DEF Tx
  <2>2. tx' = [tx EXCEPT ![s] = [tx[s] EXCEPT !.pc = pc]]
    BY DEF Goto
  <2> HIDE DEF x
  <2>. QED
    BY <1>1, <1>2, <2>1, <2>2
<1>4. CallOf(x)
  BY DEF Call
<1> HIDE DEF x
<1>5. /\ locked'[s] = IF pc \in Deciding THEN {tx[s].call.customer} ELSE {}
      /\ \A u \in Sessions \ {s} : locked'[u] = locked[u]
  BY <1>1 DEF Call
<1>6. pc \in Deciding => tx[s].call.customer \in 1..Len(customers)
  BY DEF Call, Exists
<1>7. locked' \in [Sessions -> SUBSET Nat]
  <2>1. (IF pc \in Deciding THEN {Call(s).customer} ELSE {}) \in SUBSET Nat
    BY <1>6 DEF Call
  <2>. QED
    BY <1>1, <2>1
<1>8. Books'
  BY DEF AccountsInv, Books
<1>9. Transactions'
  <2>1. ASSUME NEW u \in Sessions
        PROVE  /\ CallOf(tx'[u])
               /\ tx'[u].pc \in Deciding => tx'[u].call.customer \in 1..Len(customers')
               /\ locked'[u] = IF tx'[u].pc \in Deciding THEN {tx'[u].call.customer} ELSE {}
    <3>1. CASE u = s
      BY <1>2, <1>4, <1>5, <1>6, <3>1
    <3>2. CASE u # s
      BY <1>2, <1>5, <3>2 DEF AccountsInv, Transactions
    <3>. QED
      BY <3>1, <3>2
  <2>. QED
    BY <1>3, <1>7, <2>1 DEF Transactions
<1>10. Alone'
  <2>1. ASSUME NEW u \in Sessions \ {s}, tx'[u].pc \in Deciding, pc \in Deciding
        PROVE  tx'[s].call.customer # tx'[u].call.customer
    <3>1. locked[u] = {tx[u].call.customer}
      BY <1>2, <2>1 DEF AccountsInv, Transactions
    <3>. QED
      BY <1>2, <2>1, <3>1 DEF Call
  <2>2. ASSUME NEW u \in Sessions, NEW w \in Sessions, u # w,
               tx'[u].pc \in Deciding, tx'[w].pc \in Deciding
        PROVE  tx'[u].call.customer # tx'[w].call.customer
    <3>1. CASE u = s
      BY <1>2, <2>1, <2>2, <3>1
    <3>2. CASE w = s
      BY <1>2, <2>1, <2>2, <3>2
    <3>3. CASE u # s /\ w # s
      BY <1>2, <2>2, <3>3 DEF AccountsInv, Alone
    <3>. QED
      BY <3>1, <3>2, <3>3
  <2>. QED
    BY <2>2 DEF Alone
<1>11. Decided'
  <2> SUFFICES ASSUME NEW u \in Sessions, NEW c \in Nat,
                      tx'[u].pc = "post", tx'[u].call.op = "pay", tx'[u].call.customer = c
               PROVE  tx'[u].call.confirm \/ tx'[u].call.amount <= Balance(c)'
    BY DEF Decided
  <2>1. Balance(c)' = Balance(c)
    BY DEF Balance, EntriesOf
  <2>2. CASE u = s
    BY <1>2, <2>1, <2>2 DEF Call
  <2>3. CASE u # s
    BY <1>2, <2>1, <2>3 DEF AccountsInv, Decided
  <2>. QED
    BY <2>2, <2>3
<1>. QED
  BY <1>8, <1>9, <1>10, <1>11 DEF AccountsInv

\* A rollback, or an answer that changes nothing.
LEMMA RefuseKeeps ==
  ASSUME AccountsInv, NEW s \in Sessions, Refuse(s)
  PROVE  AccountsInv'
<1>1. UNCHANGED <<customers, entries>> /\ Finish(s)
  BY DEF Refuse
<1>2. \A c \in Nat : Balance(c)' = Balance(c)
  BY <1>1 DEF Balance, EntriesOf
<1>3. \A c : Exists(c) => Exists(c)'
  BY <1>1 DEF Exists
<1>4. Books'
  BY <1>1 DEF AccountsInv, Books
<1>5. Transactions' /\ Alone' /\ Decided'
  BY <1>1, <1>2, <1>3, FinishKeeps
<1>. QED
  BY <1>4, <1>5 DEF AccountsInv

LEMMA BeginKeeps ==
  ASSUME AccountsInv, NEW s \in Sessions, Begin(s)
  PROVE  AccountsInv'
<1>1. PICK call \in Calls :
        tx' = [tx EXCEPT ![s] = [pc |-> FirstStatement(call.op), call |-> call]]
  BY DEF Begin
<1> DEFINE x == [pc |-> FirstStatement(call.op), call |-> call]
<1>2. call \in CallType /\ call.op \in {"find", "charge", "bill", "pay"}
  BY <1>1, KhataAssumption DEF CallType
<1>3. /\ call.op = "find" => FirstStatement(call.op) = "find"
      /\ call.op = "pay" => FirstStatement(call.op) = "get"
      /\ call.op \in {"charge", "bill"} => FirstStatement(call.op) = "lock"
  BY DEF FirstStatement
<1>4. x \in Tx /\ CallOf(x) /\ x.pc \notin Deciding /\ x.pc # "post"
  BY <1>2, <1>3 DEF Tx, Pcs, CallOf, Deciding
<1>5. tx' = [tx EXCEPT ![s] = x]
  BY <1>1
<1> HIDE DEF x
<1>6. UNCHANGED <<customers, entries, locked>> /\ tx[s].pc = "idle"
  BY DEF Begin, At
<1>7. tx \in [Sessions -> Tx]
  BY DEF AccountsInv, Transactions
<1>8. /\ tx' \in [Sessions -> Tx] /\ tx'[s] = x
      /\ \A u \in Sessions \ {s} : tx'[u] = tx[u]
  BY <1>4, <1>5, <1>7
<1>9. locked'[s] = {}
  BY <1>6 DEF AccountsInv, Transactions, Deciding
<1>10. Books'
  BY <1>6 DEF AccountsInv, Books
<1>11. Transactions'
  <2>1. ASSUME NEW u \in Sessions
        PROVE  /\ CallOf(tx'[u])
               /\ tx'[u].pc \in Deciding => tx'[u].call.customer \in 1..Len(customers')
               /\ locked'[u] = IF tx'[u].pc \in Deciding THEN {tx'[u].call.customer} ELSE {}
    <3>1. CASE u = s
      BY <1>4, <1>8, <1>9, <3>1
    <3>2. CASE u # s
      BY <1>6, <1>8, <3>2 DEF AccountsInv, Transactions
    <3>. QED
      BY <3>1, <3>2
  <2>2. locked' \in [Sessions -> SUBSET Nat]
    BY <1>6 DEF AccountsInv, Transactions
  <2>. QED
    BY <1>8, <2>1, <2>2 DEF Transactions
<1>12. Alone'
  BY <1>4, <1>8 DEF AccountsInv, Alone
<1>13. Decided'
  <2> SUFFICES ASSUME NEW u \in Sessions, NEW c \in Nat,
                      tx'[u].pc = "post", tx'[u].call.op = "pay", tx'[u].call.customer = c
               PROVE  tx'[u].call.confirm \/ tx'[u].call.amount <= Balance(c)'
    BY DEF Decided
  <2>1. Balance(c)' = Balance(c)
    BY <1>6 DEF Balance, EntriesOf
  <2>2. u # s
    BY <1>4, <1>8
  <2>. QED
    BY <1>8, <2>1, <2>2 DEF AccountsInv, Decided
<1>. QED
  BY <1>10, <1>11, <1>12, <1>13 DEF AccountsInv

\* A statement whose transaction holds the same lock before and after it.
LEMMA ProceedKeeps ==
  ASSUME AccountsInv, NEW s \in Sessions, NEW pc \in Pcs, Proceed(s, pc),
         CallOf([pc |-> pc, call |-> Call(s)]),
         tx[s].pc \in Deciding <=> pc \in Deciding,
         pc = "post" /\ Call(s).op = "pay" =>
           Call(s).confirm \/ Call(s).amount <= Balance(Call(s).customer)
  PROVE  AccountsInv'
<1>1. Goto(s, pc) /\ UNCHANGED <<customers, entries>> /\ locked' = locked
  BY DEF Proceed
<1>2. /\ locked \in [Sessions -> SUBSET Nat]
      /\ locked[s] = IF pc \in Deciding THEN {Call(s).customer} ELSE {}
  BY DEF AccountsInv, Transactions, Call
<1>3. locked' = [locked EXCEPT ![s] = IF pc \in Deciding THEN {Call(s).customer} ELSE {}]
  BY <1>1, <1>2
<1>4. pc \in Deciding => Exists(Call(s).customer)
  BY DEF AccountsInv, Transactions, Call, Exists
<1>5. ASSUME pc \in Deciding, NEW u \in Sessions \ {s}
      PROVE  Call(s).customer \notin locked[u]
  <2>1. locked[u] = IF tx[u].pc \in Deciding THEN {tx[u].call.customer} ELSE {}
    BY DEF AccountsInv, Transactions
  <2>2. tx[u].pc \in Deciding => tx[s].call.customer # tx[u].call.customer
    BY <1>5 DEF AccountsInv, Alone
  <2>. QED
    BY <2>1, <2>2 DEF Call
<1>. QED
  BY <1>1, <1>3, <1>4, <1>5, GotoKeeps

LEMMA FindCustomerKeeps ==
  ASSUME AccountsInv, NEW s \in Sessions, FindCustomer(s)
  PROVE  AccountsInv'
<1>1. CASE Refuse(s)
  BY <1>1, RefuseKeeps
<1>2. CASE Proceed(s, "create")
  <2>1. tx[s].pc = "find" /\ tx[s].call.op = "find"
    BY DEF FindCustomer, At, AccountsInv, Transactions, CallOf
  <2>2. CallOf([pc |-> "create", call |-> Call(s)])
    BY <2>1 DEF CallOf, Call
  <2>3. "create" \in Pcs /\ (tx[s].pc \in Deciding <=> "create" \in Deciding)
    BY <2>1 DEF Pcs, Deciding
  <2>. QED
    BY <1>2, <2>2, <2>3, ProceedKeeps
<1>. QED
  BY <1>1, <1>2 DEF FindCustomer

LEMMA GetCustomerKeeps ==
  ASSUME AccountsInv, NEW s \in Sessions, GetCustomer(s)
  PROVE  AccountsInv'
<1>1. CASE Refuse(s)
  BY <1>1, RefuseKeeps
<1>2. CASE Proceed(s, "lock")
  <2>1. tx[s].pc = "get" /\ tx[s].call.op = "pay"
    BY DEF GetCustomer, At, AccountsInv, Transactions, CallOf
  <2>2. CallOf([pc |-> "lock", call |-> Call(s)])
    BY <2>1 DEF CallOf, Call
  <2>3. "lock" \in Pcs /\ (tx[s].pc \in Deciding <=> "lock" \in Deciding)
    BY <2>1 DEF Pcs, Deciding
  <2>. QED
    BY <1>2, <2>2, <2>3, ProceedKeeps
<1>. QED
  BY <1>1, <1>2 DEF GetCustomer

LEMMA CheckOverpaymentKeeps ==
  ASSUME AccountsInv, NEW s \in Sessions, CheckOverpayment(s)
  PROVE  AccountsInv'
<1>1. CASE Refuse(s)
  BY <1>1, RefuseKeeps
<1>2. CASE /\ ~(Call(s).amount > Balance(Call(s).customer) /\ ~Call(s).confirm)
           /\ Proceed(s, "post")
  <2>1. tx[s].pc = "balance" /\ tx[s].call.op = "pay" /\ tx[s] \in Tx
    BY DEF CheckOverpayment, At, AccountsInv, Transactions, CallOf
  <2>2. CallOf([pc |-> "post", call |-> Call(s)])
    BY <2>1 DEF CallOf, Call
  <2>3. "post" \in Pcs /\ (tx[s].pc \in Deciding <=> "post" \in Deciding)
    BY <2>1 DEF Pcs, Deciding
  <2>4. Call(s).confirm \/ Call(s).amount <= Balance(Call(s).customer)
    <3>1. Call(s).amount \in Int
      <4>1. Call(s).amount \in Amounts
        BY <2>1, CallFields DEF Tx, Call
      <4>2. \A a \in Amounts : a \in Nat
        BY KhataAssumption
      <4>3. \A a \in Amounts : a \in Int
        BY <4>2
      <4>. QED
        BY <4>1, <4>3
    <3>2. Balance(Call(s).customer) \in Int
      BY BalanceTyped DEF AccountsInv
    <3>3. Call(s).confirm \/ ~(Call(s).amount > Balance(Call(s).customer))
      BY <1>2, Zenon
    <3>. QED
      BY <3>1, <3>2, <3>3
  <2>. QED
    BY <1>2, <2>2, <2>3, <2>4, ProceedKeeps
<1>. QED
  BY <1>1, <1>2 DEF CheckOverpayment

LEMMA LockCustomerKeeps ==
  ASSUME AccountsInv, NEW s \in Sessions, LockCustomer(s)
  PROVE  AccountsInv'
<1>1. CASE Refuse(s)
  BY <1>1, RefuseKeeps
<1>2. CASE /\ Exists(Call(s).customer)
           /\ \A u \in Sessions \ {s} : Call(s).customer \notin locked[u]
           /\ locked' = [locked EXCEPT ![s] = {Call(s).customer}]
           /\ Goto(s, IF Call(s).op = "pay" THEN "balance" ELSE "post")
           /\ UNCHANGED <<customers, entries>>
  <2> DEFINE pc == IF Call(s).op = "pay" THEN "balance" ELSE "post"
  <2>1. tx[s].call.op \in {"charge", "bill", "pay"}
    BY DEF LockCustomer, At, AccountsInv, Transactions, CallOf
  <2>2. /\ pc \in Pcs /\ pc \in Deciding /\ CallOf([pc |-> pc, call |-> Call(s)])
        /\ ~(pc = "post" /\ Call(s).op = "pay") /\ Goto(s, pc)
    BY <1>2, <2>1 DEF CallOf, Call, Pcs, Deciding
  <2> HIDE DEF pc
  <2>3. locked' = [locked EXCEPT ![s] = IF pc \in Deciding THEN {Call(s).customer} ELSE {}]
    BY <1>2, <2>2
  <2>. QED
    BY <1>2, <2>2, <2>3, GotoKeeps
<1>. QED
  BY <1>1, <1>2 DEF LockCustomer

LEMMA CreateCustomerKeeps ==
  ASSUME AccountsInv, NEW s \in Sessions, CreateCustomer(s)
  PROVE  AccountsInv'
<1>1. /\ customers' = Append(customers, Call(s).name) /\ Len(customers) < MaxCustomers
      /\ Finish(s) /\ entries' = entries
  BY DEF CreateCustomer
<1>2. Call(s).name \in Names
  <2>1. tx[s] \in Tx /\ tx[s].call.op = "find"
    BY DEF CreateCustomer, At, AccountsInv, Transactions, CallOf
  <2>. QED
    BY <2>1, CallFields DEF Tx, Call
<1>3. customers' \in Seq(Names) /\ Len(customers') = Len(customers) + 1 /\ Len(customers) \in Nat
  BY <1>1, <1>2 DEF AccountsInv, Books
<1>4. Len(customers') <= MaxCustomers
  BY <1>1, <1>3, KhataAssumption
<1>5. Books'
  BY <1>1, <1>3, <1>4 DEF AccountsInv, Books
<1>6. \A c : Exists(c) => Exists(c)'
  BY <1>3 DEF Exists
<1>7. \A c \in Nat : Balance(c)' = Balance(c)
  BY <1>1 DEF Balance, EntriesOf
<1>8. Transactions' /\ Alone' /\ Decided'
  BY <1>1, <1>6, <1>7, FinishKeeps
<1>. QED
  BY <1>5, <1>8 DEF AccountsInv

\* What PostEntry writes.
Entry(s) ==
  [customer  |-> Call(s).customer,
   type      |-> IF Call(s).op = "pay" THEN "payment" ELSE "charge",
   amount    |-> Call(s).amount,
   confirmed |-> Call(s).op = "pay" /\ Call(s).confirm]

LEMMA EntryWritten ==
  ASSUME AccountsInv, NEW s \in Sessions, PostEntry(s)
  PROVE  /\ entries' = Append(entries, Entry(s)) /\ Entry(s) \in EntryType
         /\ Entry(s).customer = Call(s).customer /\ Entry(s).amount = Call(s).amount
         /\ Call(s).customer \in 1..Len(customers) /\ Call(s).amount \in Amounts
         /\ tx[s].pc = "post" /\ Call(s).op \in {"charge", "bill", "pay"}
<1>1. tx[s].pc = "post" /\ entries' = Append(entries, Entry(s))
  BY DEF PostEntry, At, Entry
<1>2. /\ tx[s] \in Tx /\ tx[s].call.op \in {"charge", "bill", "pay"}
      /\ tx[s].call.customer \in 1..Len(customers)
  BY <1>1 DEF AccountsInv, Transactions, CallOf, Deciding
<1>3. tx[s].call.amount \in Amounts /\ tx[s].call.customer \in Nat
  BY <1>2, CallFields DEF Tx
<1>4. (Call(s).op = "pay" /\ Call(s).confirm) \in BOOLEAN
  OBVIOUS
<1>5. Entry(s) \in EntryType
  BY <1>2, <1>3, <1>4, Zenon DEF Entry, EntryType, Call
<1>6. Entry(s).customer = Call(s).customer /\ Entry(s).amount = Call(s).amount
  BY DEF Entry
<1>. QED
  BY <1>1, <1>2, <1>3, <1>5, <1>6 DEF Call

LEMMA PostEntryKeeps ==
  ASSUME AccountsInv, NEW s \in Sessions, PostEntry(s)
  PROVE  AccountsInv'
<1>1. /\ customers' = customers /\ Len(entries) < MaxEntries /\ Finish(s)
  BY DEF PostEntry
<1>2. /\ entries' = Append(entries, Entry(s)) /\ Entry(s) \in EntryType
      /\ Entry(s).customer \in 1..Len(customers) /\ tx[s].pc = "post"
  BY EntryWritten
<1>3. Books'
  <2>1. entries \in Seq(EntryType) /\ \A i \in 1..Len(entries) : entries[i].customer \in 1..Len(customers)
    BY DEF AccountsInv, Books
  <2>2. entries' \in Seq(EntryType) /\ Len(entries') = Len(entries) + 1 /\ Len(entries) \in Nat
    BY <1>2, <2>1
  <2>3. Len(entries') <= MaxEntries
    BY <1>1, <2>2, KhataAssumption
  <2>4. \A i \in 1..Len(entries') : entries'[i].customer \in 1..Len(customers')
    BY <1>1, <1>2, <2>1, <2>2
  <2>. QED
    BY <1>1, <2>2, <2>3, <2>4 DEF AccountsInv, Books
<1>4. \A c : Exists(c) => Exists(c)'
  BY <1>1 DEF Exists
<1>5. ASSUME NEW u \in Sessions \ {s}, NEW c \in Nat, tx[u].pc \in Deciding, tx[u].call.customer = c
      PROVE  Balance(c)' = Balance(c)
  <2>1. tx[s].call.customer # c
    BY <1>2, <1>5 DEF AccountsInv, Alone, Deciding
  <2>2. Entry(s).customer # c
    BY <2>1, EntryWritten DEF Call
  <2>3. Balance(c) \in Int /\ Balance(c)' = Balance(c) + (IF Entry(s).customer = c THEN Signed(Entry(s)) ELSE 0)
    BY <1>2, Posted DEF AccountsInv
  <2>. QED
    BY <2>2, <2>3
<1>6. Transactions' /\ Alone' /\ Decided'
  BY <1>1, <1>4, <1>5, FinishKeeps
<1>. QED
  BY <1>3, <1>6 DEF AccountsInv

LEMMA AccountsInvKept == AccountsInv /\ [Next]_vars => AccountsInv'
<1> SUFFICES ASSUME AccountsInv, [Next]_vars PROVE AccountsInv'
  OBVIOUS
<1>1. CASE UNCHANGED vars
  BY <1>1 DEF vars, AccountsInv, Books, Transactions, Alone, Decided, Balance, EntriesOf
<1>2. CASE Next
  <2> SUFFICES ASSUME NEW s \in Sessions,
                      \/ Begin(s) \/ Abort(s)
                      \/ FindCustomer(s) \/ CreateCustomer(s)
                      \/ GetCustomer(s) \/ LockCustomer(s) \/ CheckOverpayment(s) \/ PostEntry(s)
               PROVE  AccountsInv'
    BY <1>2 DEF Next
  <2>1. CASE Begin(s)
    BY <2>1, BeginKeeps
  <2>2. CASE Abort(s)
    BY <2>2, RefuseKeeps DEF Abort
  <2>3. CASE FindCustomer(s)
    BY <2>3, FindCustomerKeeps
  <2>4. CASE CreateCustomer(s)
    BY <2>4, CreateCustomerKeeps
  <2>5. CASE GetCustomer(s)
    BY <2>5, GetCustomerKeeps
  <2>6. CASE LockCustomer(s)
    BY <2>6, LockCustomerKeeps
  <2>7. CASE CheckOverpayment(s)
    BY <2>7, CheckOverpaymentKeeps
  <2>8. CASE PostEntry(s)
    BY <2>8, PostEntryKeeps
  <2>. QED
    BY <2>1, <2>2, <2>3, <2>4, <2>5, <2>6, <2>7, <2>8
<1>. QED
  BY <1>1, <1>2

\* A session deciding about a Khata is alone on its row, and what it decided holds.
THEOREM AccountsInvariant == Spec => []AccountsInv
BY AccountsStart, AccountsInvKept, PTL DEF Spec

-----------------------------------------------------------------------------
(* The refinement                                                            *)

LEMMA BookColumns ==
  ASSUME Books
  PROVE  /\ Len(customers) \in Nat
         /\ Owed \in [1..Len(customers) -> Int] /\ \A c \in 1..Len(customers) : Owed[c] = Balance(c)
         /\ DOMAIN Advance = 1..Len(customers)
         /\ \A c \in 1..Len(customers) : Advance[c] = AdvanceOf(c)
BY BalanceTyped DEF Books, Owed, Advance, AdvanceOf

LEMMA AppendZero ==
  ASSUME NEW n \in Nat, NEW f, f = [c \in 1..n |-> f[c]],
         NEW g, g = [c \in 1..(n + 1) |-> g[c]],
         \A c \in 1..n : g[c] = f[c], g[n + 1] = 0
  PROVE  g = Append(f, 0)
<1>1. Len(f) = n
  OBVIOUS
<1>2. Append(f, 0) = [c \in 1..(n + 1) |-> IF c = n + 1 THEN 0 ELSE f[c]]
  BY <1>1
<1>3. ASSUME NEW c \in 1..(n + 1) PROVE g[c] = IF c = n + 1 THEN 0 ELSE f[c]
  <2>1. CASE c = n + 1
    BY <2>1
  <2>2. CASE c # n + 1
    <3>1. c \in 1..n
      BY <2>2
    <3>. QED
      BY <2>2, <3>1
  <2>. QED
    BY <2>1, <2>2
<1>4. g = [c \in 1..(n + 1) |-> IF c = n + 1 THEN 0 ELSE f[c]]
  BY <1>3, Zenon
<1>. QED
  BY <1>2, <1>4

LEMMA BookStart == Init => Book!Init
<1> SUFFICES ASSUME Init PROVE Book!Init
  OBVIOUS
<1>1. Len(customers) = 0 /\ 1..0 = {}
  BY DEF Init
<1>2. Owed = <<>> /\ Advance = <<>>
  BY <1>1 DEF Owed, Advance
<1>. QED
  BY <1>2 DEF Book!Init

LEMMA Stutters ==
  ASSUME UNCHANGED <<customers, entries>>
  PROVE  Owed' = Owed /\ Advance' = Advance
<1>1. \A c : Balance(c)' = Balance(c) /\ EntriesOf(c)' = EntriesOf(c)
  BY DEF Balance, EntriesOf
<1>. QED
  BY <1>1 DEF Owed, Advance

\* A new Customer is a new account, at nothing.
LEMMA CreateOpens ==
  ASSUME AccountsInv, NEW s \in Sessions, CreateCustomer(s)
  PROVE  Book!Open
<1> DEFINE n == Len(customers)
<1>1. Books /\ Books'
  BY CreateCustomerKeeps DEF AccountsInv
<1>2. n \in Nat /\ Len(customers') = n + 1 /\ entries' = entries
  BY <1>1 DEF CreateCustomer, Books
<1>3. \A c : Balance(c)' = Balance(c) /\ AdvanceOf(c)' = AdvanceOf(c)
  BY <1>2 DEF Balance, AdvanceOf, EntriesOf
<1>4. Balance(n + 1) = 0 /\ AdvanceOf(n + 1) = 0
  <2>1. \A i \in 1..Len(entries) : entries[i].customer # n + 1
    BY <1>1, <1>2 DEF Books
  <2>. QED
    BY <1>1, <2>1, NothingOwed
<1>5. /\ Owed = [c \in 1..n |-> Balance(c)] /\ Owed' = [c \in 1..(n + 1) |-> Balance(c)]
      /\ Advance = [c \in 1..n |-> AdvanceOf(c)] /\ Advance' = [c \in 1..(n + 1) |-> AdvanceOf(c)]
  BY <1>2, <1>3 DEF Owed, Advance, AdvanceOf
<1> HIDE DEF n
<1>6. Owed' = Append(Owed, 0)
  BY <1>2, <1>4, <1>5, AppendZero
<1>7. Advance' = Append(Advance, 0)
  BY <1>2, <1>4, <1>5, AppendZero
<1>. QED
  BY <1>6, <1>7 DEF Book!Open

\* An entry moves its Customer's account, by its amount.
LEMMA PostMoves ==
  ASSUME AccountsInv, NEW s \in Sessions, PostEntry(s)
  PROVE  /\ Call(s).customer \in DOMAIN Owed /\ Call(s).amount \in Amounts
         /\ Owed' = [Owed EXCEPT ![Call(s).customer] = @ + Signed(Entry(s))]
         /\ Advance' = [Advance EXCEPT ![Call(s).customer] = @ + Paid(Entry(s))]
<1> DEFINE n == Len(customers)
           k == Call(s).customer
           e == Entry(s)
<1>1. /\ entries' = Append(entries, e) /\ e \in EntryType /\ e.customer = k
      /\ k \in 1..n /\ Call(s).amount \in Amounts
  BY EntryWritten
<1>2. Books /\ customers' = customers /\ n \in Nat
  BY DEF PostEntry, AccountsInv, Books
<1>3. Signed(e) \in Int /\ Paid(e) \in Int
  BY <1>1, EntryFields
<1>4. ASSUME NEW c
      PROVE  /\ Balance(c) \in Int /\ AdvanceOf(c) \in Int
             /\ Balance(c)' = Balance(c) + (IF c = k THEN Signed(e) ELSE 0)
             /\ AdvanceOf(c)' = AdvanceOf(c) + (IF c = k THEN Paid(e) ELSE 0)
  BY <1>1, <1>2, Posted
<1>5. /\ Owed = [c \in 1..n |-> Balance(c)] /\ Owed' = [c \in 1..n |-> Balance(c)']
      /\ Advance = [c \in 1..n |-> AdvanceOf(c)] /\ Advance' = [c \in 1..n |-> AdvanceOf(c)']
  BY <1>2 DEF Owed, Advance, AdvanceOf
<1> HIDE DEF n, k, e
<1>6. Owed' = [Owed EXCEPT ![k] = @ + Signed(e)]
  <2>1. \A c \in 1..n : Owed'[c] = [Owed EXCEPT ![k] = @ + Signed(e)][c]
    BY <1>1, <1>3, <1>4, <1>5
  <2>. QED
    BY <1>5, <2>1
<1>7. Advance' = [Advance EXCEPT ![k] = @ + Paid(e)]
  <2>1. \A c \in 1..n : Advance'[c] = [Advance EXCEPT ![k] = @ + Paid(e)][c]
    BY <1>1, <1>3, <1>4, <1>5
  <2>. QED
    BY <1>5, <2>1
<1>8. k \in DOMAIN Owed
  BY <1>1, <1>5
<1>. QED
  BY <1>1, <1>6, <1>7, <1>8 DEF k, e, n

\* A charge or a credit Bill raises what is owed, a confirmed payment lowers it
\* and is an advance; any other payment was covered when it was decided, and the
\* row lock kept the balance so.
LEMMA PostIsBookStep ==
  ASSUME AccountsInv, NEW s \in Sessions, PostEntry(s)
  PROVE  \E c \in DOMAIN Owed, a \in Amounts :
           Book!Charge(c, a) \/ Book!Pay(c, a) \/ Book!PayConfirmed(c, a)
<1> DEFINE k == Call(s).customer
           a == Call(s).amount
           e == Entry(s)
<1>1. /\ k \in DOMAIN Owed /\ a \in Amounts
      /\ Owed' = [Owed EXCEPT ![k] = @ + Signed(e)]
      /\ Advance' = [Advance EXCEPT ![k] = @ + Paid(e)]
  BY PostMoves
<1>2. /\ tx[s].pc = "post" /\ Call(s).op \in {"charge", "bill", "pay"} /\ k \in 1..Len(customers)
      /\ e.amount = a
  BY EntryWritten
<1>3. Books
  BY DEF AccountsInv
<1>4. a \in Int
  <2>1. \A x \in Amounts : x \in Nat
    BY KhataAssumption
  <2>2. \A x \in Amounts : x \in Int
    BY <2>1
  <2>. QED
    BY <1>1, <2>2
<1>5. /\ k \in Nat /\ Owed[k] = Balance(k) /\ Balance(k) \in Int
      /\ Advance = [c \in 1..Len(customers) |-> Advance[c]] /\ Advance[k] = AdvanceOf(k)
  BY <1>2, <1>3, BookColumns, BalanceTyped DEF Advance
<1>6. AdvanceOf(k) \in Int
  BY <1>3, EntryWritten, Posted
<1>7. CASE Call(s).op \in {"charge", "bill"}
  <2>1. Signed(e) = a /\ Paid(e) = 0
    <3>1. e.type = "charge"
      BY <1>7 DEF Entry
    <3>2. e.confirmed = FALSE
      BY <1>7 DEF Entry
    <3>. QED
      BY <1>2, <3>1, <3>2 DEF Signed, Paid
  <2> HIDE DEF k, a, e
  <2>2. Advance' = Advance
    BY <1>1, <1>5, <1>6, <2>1
  <2>3. Book!Charge(k, a)
    BY <1>1, <2>1, <2>2 DEF Book!Charge
  <2>. QED
    BY <1>1, <2>3
<1>8. CASE Call(s).op = "pay" /\ Call(s).confirm
  <2>1. Signed(e) = -a /\ Paid(e) = a
    <3>1. e.type = "payment"
      BY <1>8 DEF Entry
    <3>2. e.confirmed = TRUE
      BY <1>8, Zenon DEF Entry
    <3>. QED
      BY <1>2, <3>1, <3>2 DEF Signed, Paid
  <2> HIDE DEF k, a, e
  <2>2. Owed' = [Owed EXCEPT ![k] = @ - a]
    <3>1. Owed[k] + Signed(e) = Owed[k] - a
      BY <1>4, <1>5, <2>1
    <3>. QED
      BY <1>1, <3>1
  <2>3. Book!PayConfirmed(k, a)
    BY <1>1, <2>1, <2>2 DEF Book!PayConfirmed
  <2>. QED
    BY <1>1, <2>3
<1>9. CASE Call(s).op = "pay" /\ ~Call(s).confirm
  <2>1. Signed(e) = -a /\ Paid(e) = 0
    <3>1. e.type = "payment"
      BY <1>9 DEF Entry
    <3>2. e.confirmed = FALSE
      BY <1>9, Zenon DEF Entry
    <3>. QED
      BY <1>2, <3>1, <3>2 DEF Signed, Paid
  <2>2. a <= Owed[k]
    <3>1. Call(s).confirm \/ a <= Balance(k)
      BY <1>2, <1>5, <1>9 DEF AccountsInv, Decided, Call
    <3>. QED
      BY <1>5, <1>9, <3>1
  <2> HIDE DEF k, a, e
  <2>3. Owed' = [Owed EXCEPT ![k] = @ - a]
    <3>1. Owed[k] + Signed(e) = Owed[k] - a
      BY <1>4, <1>5, <2>1
    <3>. QED
      BY <1>1, <3>1
  <2>4. Advance' = Advance
    BY <1>1, <1>5, <1>6, <2>1
  <2>5. Book!Pay(k, a)
    BY <2>2, <2>3, <2>4 DEF Book!Pay
  <2>. QED
    BY <1>1, <2>5
<1>10. Call(s).confirm \/ ~Call(s).confirm
  OBVIOUS
<1>. QED
  BY <1>2, <1>7, <1>8, <1>9, <1>10

LEMMA BookStep ==
  ASSUME AccountsInv, [Next]_vars
  PROVE  [Book!Next]_<<Owed, Advance>>
<1>1. CASE UNCHANGED <<customers, entries>>
  BY <1>1, Stutters
<1>2. CASE \E s \in Sessions : CreateCustomer(s)
  BY <1>2, CreateOpens DEF Book!Next
<1>3. CASE \E s \in Sessions : PostEntry(s)
  BY <1>3, PostIsBookStep DEF Book!Next
<1>4. ASSUME NEW s \in Sessions,
             \/ Begin(s) \/ Abort(s) \/ FindCustomer(s)
             \/ GetCustomer(s) \/ LockCustomer(s) \/ CheckOverpayment(s)
      PROVE  UNCHANGED <<customers, entries>>
  BY <1>4 DEF Begin, Abort, FindCustomer, GetCustomer, LockCustomer, CheckOverpayment, Refuse, Proceed
<1>. QED
  BY <1>1, <1>2, <1>3, <1>4 DEF Next, vars

-----------------------------------------------------------------------------
(* Theorems                                                                  *)

\* KhataService (khata.py) implements the KhataBook for any number of sessions
\* and Customers: concurrent charges, credit Bills and payments move one account
\* at a time by their amount, and a payment nobody confirmed never exceeds what
\* is owed when it commits.
THEOREM AccountsKeepBook == Spec => KeepsBook
<1>1. Spec => []AccountsInv
  BY AccountsInvariant
<1>2. Init => Book!Init
  BY BookStart
<1>3. AccountsInv /\ [Next]_vars => [Book!Next]_<<Owed, Advance>>
  BY BookStep
<1>. QED
  BY <1>1, <1>2, <1>3, PTL DEF Spec, KeepsBook, Book!Spec

\* The rows have their types, entries name Customers that exist, and a session
\* holds a Customer's row exactly while it decides about that Customer.
THEOREM AccountsTyped == Spec => []TypeOK
<1>1. AccountsInv => TypeOK
  <2> SUFFICES ASSUME AccountsInv PROVE TypeOK
    OBVIOUS
  <2>1. /\ customers \in Seq(Names) /\ Len(customers) <= MaxCustomers
        /\ Len(entries) <= MaxEntries
    BY DEF AccountsInv, Books
  <2>2. \A i \in 1..Len(entries) : Exists(entries[i].customer) /\ entries[i].amount \in Amounts
    BY EntryFields DEF AccountsInv, Books, Exists
  <2>3. \A s \in Sessions :
          /\ tx[s].pc \in {"idle", "find", "create", "get", "lock", "balance", "post"}
          /\ locked[s] = IF tx[s].pc \in {"balance", "post"} THEN {Call(s).customer} ELSE {}
    BY DEF AccountsInv, Transactions, Tx, Pcs, Deciding, Call
  <2>. QED
    BY <2>1, <2>2, <2>3 DEF TypeOK
<1>. QED
  BY <1>1, AccountsInvariant, PTL
=============================================================================
