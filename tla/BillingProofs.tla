--------------------------- MODULE BillingProofs ---------------------------
(***************************************************************************)
(* Billing for any number of sessions, chats, Products and Batches.        *)
(*                                                                         *)
(* Part 1: the types of its tables and transactions, and its row locks.    *)
(* Every transaction locks upwards in one order of all rows, and so no     *)
(* calls wait for each other in a circle.                                  *)
(*                                                                         *)
(* Part 2: the tables.  What a transaction writes it holds a row lock on,  *)
(* so what it has read of that row is still in the table; hence Bills      *)
(* match Draft Bills, invoice numbers have no gap, a khata Bill is charged *)
(* once, a Product's quantity is the sum of its Batches, and every call    *)
(* works alone on the rows it has read and will write.                     *)
(***************************************************************************)
EXTENDS BillingInvariants, OperatorProofs, SequenceTheorems

-----------------------------------------------------------------------------
(* Calls                                                                     *)

LEMMA CallFields ==
  ASSUME NEW call \in Calls
  PROVE  /\ call.op \in {"open_draft", "finalize"} \cup LineOps \cup {"receive"}
         /\ call.op # "receive" => call.chat \in Chats
         /\ call.op \in LineOps => call.product \in Products
         /\ call.op \in {"add_line", "update_line"} => call.qty \in Nat
         /\ call.op = "finalize" =>
              /\ call.mode \in {"cash", "khata", "unresolved"}
              /\ call.customer \in Customers \cup {"none", "unknown"}
              /\ call.confirm \in BOOLEAN
         /\ call.op = "receive" =>
              call.product \in Products /\ call.qty \in Nat /\ call.expiry \in 0..NoExpiry
<1>1. call \in CallType
  BY BillingAssumption
<1>2. MaxQty \in Nat
  BY BillingAssumption
<1>. QED
  BY <1>1, <1>2 DEF CallType, LineOps

LEMMA IdleTyped ==
  ASSUME NEW answer \in Answers
  PROVE  /\ Idle(answer) \in TxType
         /\ CallOfPc(Idle(answer)) /\ CustomerOfPc(Idle(answer))
         /\ \A m, n : RowsOfPc(Idle(answer), m, n)
         /\ Idle(answer).call = NoCall
<1>1. 0 \in Days
  BY BillingAssumption DEF Days
<1>. QED
  BY <1>1 DEF Idle, TxType, PcNames, CallArgs, NoCall, NoLines, CallOfPc, CustomerOfPc, RowsOfPc,
              LinePcs, FinalizePcs

LEMMA RunningTyped ==
  ASSUME NEW pc \in PcNames, NEW call \in Calls, NEW draft \in Nat
  PROVE  /\ Running(pc, call, draft) \in TxType
         /\ Running(pc, call, draft).pc = pc
         /\ Running(pc, call, draft).call = call
         /\ Running(pc, call, draft).draft = draft
         /\ Running(pc, call, draft).todo = {}
         /\ Running(pc, call, draft).seen = 0
<1> DEFINE i == Idle("none")
<1>1. i \in TxType /\ i.todo = {} /\ i.seen = 0
  BY IdleTyped DEF Answers, Idle
<1>2. Running(pc, call, draft) = [i EXCEPT !.pc = pc, !.call = call, !.draft = draft]
  BY DEF Running
<1>3. call \in CallArgs
  BY DEF CallArgs
<1> HIDE DEF i
<1>. QED
  BY <1>1, <1>2, <1>3 DEF TxType

-----------------------------------------------------------------------------
(* Steps of one session                                                      *)

LEMMA SessionStep ==
  ASSUME SessionInv, NEW t \in Sessions, NEW s \in TxType,
         tx' = [tx EXCEPT ![t] = s],
         CallOfPc(s), RowsOfPc(s, Len(drafts'), Len(batches')), CustomerOfPc(s),
         held' \in [Sessions -> SUBSET LockType],
         Len(batches) \in Nat, Len(batches') \in Nat, Len(batches) <= Len(batches'),
         Len(drafts) \in Nat, Len(drafts') \in Nat, Len(drafts) <= Len(drafts')
  PROVE  SessionInv'
<1>1. tx' \in [Sessions -> TxType]
  BY DEF SessionInv
<1>2. ASSUME NEW u \in Sessions
      PROVE  CallOfPc(tx'[u]) /\ RowsOfPc(tx'[u], Len(drafts'), Len(batches')) /\ CustomerOfPc(tx'[u])
  <2>1. CASE u = t
    BY <2>1 DEF SessionInv
  <2>2. CASE u # t
    <3>1. tx'[u] = tx[u]
      BY <2>2 DEF SessionInv
    <3>2. RowsOfPc(tx[u], Len(drafts'), Len(batches'))
      BY DEF SessionInv, RowsOfPc
    <3>. QED
      BY <3>1, <3>2 DEF SessionInv
  <2>. QED
    BY <2>1, <2>2
<1>. QED
  BY <1>1, <1>2 DEF SessionInv

\* The sessions that may still insert a Batch.
LEMMA RoomKept ==
  ASSUME TypeInv, NEW t \in Sessions, NEW s \in TxType,
         tx' = [tx EXCEPT ![t] = s], s.call.op = "receive" => Op(t) = "receive",
         Len(batches') = Len(batches)
  PROVE  BatchRoom'
<1>1. Receiving' \subseteq Receiving
  <2>1. ASSUME NEW u \in Sessions, tx'[u].call.op = "receive" PROVE Op(u) = "receive"
    BY <2>1 DEF TypeInv, SessionInv, Op
  <2>. QED
    BY <2>1 DEF Receiving, Op
<1>2. IsFiniteSet(Receiving)
  BY BillingAssumption, FS_Subset DEF Receiving
<1>3. Cardinality(Receiving') <= Cardinality(Receiving) /\ Cardinality(Receiving') \in Nat
        /\ Cardinality(Receiving) \in Nat
  BY <1>1, <1>2, FS_Subset, FS_CardinalityType
<1>4. Len(batches) \in Nat
  BY DEF TypeInv, Tables
<1>. QED
  BY <1>3, <1>4, BillingAssumption DEF TypeInv, BatchRoom

\* A step that only reads or locks.
LEMMA LocalStep ==
  ASSUME TypeInv, UNCHANGED <<tables, clocks>>, NEW t \in Sessions, NEW s \in TxType,
         tx' = [tx EXCEPT ![t] = s], s.call.op = "receive" => Op(t) = "receive",
         CallOfPc(s), RowsOfPc(s, Len(drafts), Len(batches)), CustomerOfPc(s),
         held' \in [Sessions -> SUBSET LockType]
  PROVE  TypeInv'
<1>1. Tables'
  BY DEF TypeInv, Tables, tables, clocks
<1>2. batches' = batches /\ drafts' = drafts /\ Len(batches) \in Nat /\ Len(drafts) \in Nat
  BY DEF tables, TypeInv, Tables
<1>3. SessionInv'
  <2>1. /\ SessionInv /\ Len(batches') \in Nat /\ Len(batches) <= Len(batches')
        /\ Len(drafts') \in Nat /\ Len(drafts) <= Len(drafts')
        /\ RowsOfPc(s, Len(drafts'), Len(batches'))
    BY <1>2 DEF TypeInv
  <2>. QED
    BY <1>2, <2>1, SessionStep
<1>4. BatchRoom'
  BY <1>2, RoomKept
<1>. QED
  BY <1>1, <1>3, <1>4 DEF TypeInv

LEMMA FinishTyped ==
  ASSUME TypeInv, NEW t \in Sessions, NEW answer \in Answers, Finish(t, answer)
  PROVE  \E s \in TxType :
           /\ tx' = [tx EXCEPT ![t] = s] /\ s.call = NoCall
           /\ CallOfPc(s) /\ CustomerOfPc(s) /\ \A m, n : RowsOfPc(s, m, n)
           /\ held' \in [Sessions -> SUBSET LockType]
<1> DEFINE a == IF Op(t) = "finalize" THEN answer ELSE "none"
<1>1. a \in Answers
  BY DEF Answers
<1>2. tx' = [tx EXCEPT ![t] = Idle(a)] /\ held' = [held EXCEPT ![t] = {}]
  BY DEF Finish, Goto
<1>3. held' \in [Sessions -> SUBSET LockType]
  BY <1>2 DEF TypeInv, SessionInv
<1> HIDE DEF a
<1>. QED
  BY <1>1, <1>2, <1>3, IdleTyped

LEMMA RefuseStep ==
  ASSUME TypeInv, NEW t \in Sessions, NEW answer \in Answers, Refuse(t, answer)
  PROVE  TypeInv'
<1>1. PICK s \in TxType :
         /\ tx' = [tx EXCEPT ![t] = s] /\ s.call = NoCall
         /\ CallOfPc(s) /\ CustomerOfPc(s) /\ \A m, n : RowsOfPc(s, m, n)
         /\ held' \in [Sessions -> SUBSET LockType]
  BY FinishTyped DEF Refuse
<1>2. s.call.op # "receive"
  BY <1>1 DEF NoCall
<1>. QED
  BY <1>1, <1>2, LocalStep DEF Refuse

LEMMA TakeTyped ==
  ASSUME TypeInv, NEW t \in Sessions, NEW lock \in LockType, Take(t, lock)
  PROVE  held' \in [Sessions -> SUBSET LockType]
BY DEF Take, TypeInv, SessionInv

LEMMA RowsTyped ==
  /\ \A c \in Chats : ForUpdate(OpenDraftKey(c)) \in LockType
  /\ \A n \in Nat : /\ ForUpdate(DraftRow(n)) \in LockType /\ ForShare(DraftRow(n)) \in LockType
                    /\ ForUpdate(ProductRow(n)) \in LockType /\ ForShare(ProductRow(n)) \in LockType
                    /\ ForUpdate(BatchRow(n)) \in LockType /\ ForUpdate(CounterRow(n)) \in LockType
  /\ \A c \in Customers : ForUpdate(CustomerRow(c)) \in LockType
BY DEF LockType, RowType, ForUpdate, ForShare, OpenDraftKey, DraftRow, ProductRow, BatchRow,
       CounterRow, CustomerRow

\* What TypeInv says of one session.
LEMMA OneSession ==
  ASSUME TypeInv, NEW t \in Sessions
  PROVE  /\ tx[t] \in TxType
         /\ CallOfPc(tx[t]) /\ RowsOfPc(tx[t], Len(drafts), Len(batches)) /\ CustomerOfPc(tx[t])
         /\ held[t] \in SUBSET LockType /\ held \in [Sessions -> SUBSET LockType]
         /\ Len(batches) \in Nat /\ Len(batches) <= MaxBatches
         /\ Len(drafts) \in Nat /\ Len(lines) = Len(drafts)
<1>1. IsFiniteSet(Receiving)
  BY BillingAssumption, FS_Subset DEF Receiving
<1>2. Cardinality(Receiving) \in Nat /\ MaxBatches \in Nat
  BY <1>1, FS_CardinalityType, BillingAssumption
<1>3. Len(batches) \in Nat /\ Len(drafts) \in Nat /\ Len(lines) = Len(drafts)
  BY DEF TypeInv, Tables
<1>4. Len(batches) <= MaxBatches
  BY <1>2, <1>3 DEF TypeInv, BatchRoom
<1>. QED
  BY <1>3, <1>4 DEF TypeInv, SessionInv

LEMMA RoomLeft ==
  ASSUME TypeInv
  PROVE  Len(batches) \in Nat /\ MaxBatches \in Nat /\ Len(batches) <= MaxBatches
<1>1. IsFiniteSet(Receiving)
  BY BillingAssumption, FS_Subset DEF Receiving
<1>2. Cardinality(Receiving) \in Nat /\ MaxBatches \in Nat /\ Len(batches) \in Nat
  BY <1>1, FS_CardinalityType, BillingAssumption DEF TypeInv, Tables
<1>. QED
  BY <1>2 DEF TypeInv, BatchRoom

LEMMA BatchFields ==
  ASSUME TypeInv, NEW b \in 1..Len(batches)
  PROVE  /\ batches[b] \in BatchType /\ b \in BatchIds
         /\ batches[b].product \in Products /\ batches[b].qty \in Nat
         /\ batches[b].expiry \in 0..NoExpiry
<1>1. batches[b] \in BatchType
  BY DEF TypeInv, Tables
<1>2. Len(batches) \in Nat /\ Len(batches) <= MaxBatches /\ MaxBatches \in Nat
  BY RoomLeft
<1>. QED
  BY <1>1, <1>2 DEF BatchType, BatchIds

-----------------------------------------------------------------------------
(* Draft Bill calls                                                          *)

LEMMA ReadOpenDraftTyped ==
  ASSUME TypeInv, NEW t \in Sessions, ReadOpenDraft(t) PROVE TypeInv'
<1>1. PICK call \in Calls : \E d \in OpenDrafts(call.chat) :
        /\ call.op \in LineOps
        /\ tx' = [tx EXCEPT ![t] = Running("read_line", call, d)]
  BY DEF ReadOpenDraft, Goto, LineOps
<1>0. PICK d \in OpenDrafts(call.chat) :
        /\ call.op \in LineOps
        /\ tx' = [tx EXCEPT ![t] = Running("read_line", call, d)]
  BY <1>1
<1> DEFINE s == Running("read_line", call, d)
<1>2. d \in Nat /\ d \in 1..Len(drafts) /\ "read_line" \in PcNames
  BY DEF TypeInv, Tables, OpenDrafts, PcNames
<1>3. s \in TxType /\ s.pc = "read_line" /\ s.call = call /\ s.draft = d
  BY <1>2, RunningTyped
<1> HIDE DEF s
<1>4. CallOfPc(s) /\ CustomerOfPc(s) /\ RowsOfPc(s, Len(drafts), Len(batches)) /\ s.call.op # "receive"
  BY <1>0, <1>2, <1>3 DEF CallOfPc, CustomerOfPc, RowsOfPc, LinePcs, LineOps, FinalizePcs
<1>5. held' \in [Sessions -> SUBSET LockType] /\ UNCHANGED <<tables, clocks>>
  BY DEF ReadOpenDraft, TypeInv, SessionInv
<1>. QED
  BY <1>0, <1>3, <1>4, <1>5, LocalStep DEF s

LEMMA MissOpenDraftTyped ==
  ASSUME TypeInv, NEW t \in Sessions, MissOpenDraft(t) PROVE TypeInv'
<1>1. PICK call \in Calls :
        /\ call.op \in {"open_draft", "add_line"}
        /\ tx' = [tx EXCEPT ![t] = Running("create_draft", call, 0)]
  BY DEF MissOpenDraft, Goto
<1> DEFINE s == Running("create_draft", call, 0)
<1>2. s \in TxType /\ s.pc = "create_draft" /\ s.call = call /\ s.draft = 0 /\ s.seen = 0
  BY "create_draft" \in PcNames, RunningTyped DEF PcNames
<1> HIDE DEF s
<1>3. CallOfPc(s) /\ CustomerOfPc(s) /\ RowsOfPc(s, Len(drafts), Len(batches)) /\ s.call.op # "receive"
  BY <1>1, <1>2 DEF CallOfPc, CustomerOfPc, RowsOfPc, LinePcs, LineOps, FinalizePcs
<1>4. held' \in [Sessions -> SUBSET LockType] /\ UNCHANGED <<tables, clocks>>
  BY DEF MissOpenDraft, TypeInv, SessionInv
<1>. QED
  BY <1>1, <1>2, <1>3, <1>4, LocalStep DEF s

\* A commit: the tables keep their types and the transaction is over.
LEMMA CommitStep ==
  ASSUME TypeInv, NEW t \in Sessions, NEW answer \in Answers, Finish(t, answer),
         Tables', Len(batches') = Len(batches), Len(drafts) <= Len(drafts')
  PROVE  TypeInv'
<1>1. PICK s \in TxType :
         /\ tx' = [tx EXCEPT ![t] = s] /\ s.call = NoCall
         /\ CallOfPc(s) /\ CustomerOfPc(s) /\ \A m, n : RowsOfPc(s, m, n)
         /\ held' \in [Sessions -> SUBSET LockType]
  BY FinishTyped
<1>2. /\ SessionInv /\ Len(batches) \in Nat /\ Len(batches') \in Nat
      /\ Len(batches) <= Len(batches')
      /\ Len(drafts) \in Nat /\ Len(drafts') \in Nat
      /\ RowsOfPc(s, Len(drafts'), Len(batches'))
  BY <1>1 DEF TypeInv, Tables
<1>3. SessionInv'
  BY <1>1, <1>2, SessionStep
<1>4. s.call.op # "receive"
  BY <1>1 DEF NoCall
<1>5. BatchRoom'
  BY <1>1, <1>4, RoomKept
<1>. QED
  BY <1>3, <1>5 DEF TypeInv

LEMMA CommitNewDraftTyped ==
  ASSUME TypeInv, NEW t \in Sessions, NEW draftLines \in [Products -> Nat],
         tx[t].call.chat \in Chats, CommitNewDraft(t, draftLines)
  PROVE  TypeInv'
<1>1. NewDraft(tx[t].call.chat) \in DraftType
  BY DEF NewDraft, DraftType
<1>2. Finish(t, "none") /\ Len(batches') = Len(batches) /\ Len(drafts) <= Len(drafts')
  BY DEF CommitNewDraft, TypeInv, Tables
<1>3. drafts' \in Seq(DraftType) /\ lines' \in Seq([Products -> Nat]) /\ Len(lines') = Len(drafts')
  BY <1>1 DEF CommitNewDraft, TypeInv, Tables
<1>4. Tables'
  BY <1>3 DEF CommitNewDraft, TypeInv, Tables, clocks
<1>. QED
  BY <1>2, <1>4, CommitStep DEF Answers

LEMMA CreateDraftTyped ==
  ASSUME TypeInv, NEW t \in Sessions, CreateDraft(t) PROVE TypeInv'
<1> DEFINE x == tx[t]
<1>1. /\ x \in TxType /\ x.call \in Calls /\ x.call.op \in {"open_draft", "add_line"}
      /\ x.call.chat \in Chats /\ RowsOfPc(x, Len(drafts), Len(batches))
      /\ x.pc = "create_draft"
  <2>1. /\ x \in TxType /\ x.call \in Calls /\ x.call.op \in {"open_draft", "add_line"}
        /\ x.pc = "create_draft"
        /\ RowsOfPc(x, Len(drafts), Len(batches))
    BY OneSession DEF CallOfPc, CreateDraft, At
  <2>. QED
    BY <2>1, CallFields
<1>2. CASE Refuse(t, "error")
  BY <1>2, RefuseStep DEF Answers
<1>3. CASE CommitNewDraft(t, NoLines)
  BY <1>1, <1>3, CommitNewDraftTyped DEF NoLines
<1>4. CASE /\ Take(t, ForUpdate(OpenDraftKey(x.call.chat))) /\ x.call.op = "add_line"
           /\ Goto(t, [x EXCEPT !.pc = "share_product"])
           /\ UNCHANGED <<tables, clocks>>
  <2> DEFINE s == [x EXCEPT !.pc = "share_product"]
  <2>1. s \in TxType /\ s.pc = "share_product" /\ s.call = x.call /\ s.draft = x.draft
        /\ s.seen = x.seen
    BY <1>1 DEF TxType, PcNames
  <2> HIDE DEF s
  <2>2. CallOfPc(s) /\ CustomerOfPc(s) /\ RowsOfPc(s, Len(drafts), Len(batches)) /\ s.call.op # "receive"
    BY <1>1, <1>4, <2>1 DEF CallOfPc, CustomerOfPc, RowsOfPc, LinePcs, LineOps, FinalizePcs
  <2>3. held' \in [Sessions -> SUBSET LockType]
    BY <1>1, <1>4, RowsTyped, TakeTyped
  <2>. QED
    BY <1>4, <2>1, <2>2, <2>3, LocalStep DEF s, Goto
<1>. QED
  BY <1>2, <1>3, <1>4 DEF CreateDraft

LEMMA ReadLineTyped ==
  ASSUME TypeInv, NEW t \in Sessions, ReadLine(t) PROVE TypeInv'
<1> DEFINE x == tx[t]
           seen == lines[x.draft][x.call.product]
           s == [x EXCEPT !.seen = seen, !.pc = IF seen = 0 THEN "share_draft" ELSE "write_line"]
<1>1. /\ x \in TxType /\ x.pc = "read_line" /\ CallOfPc(x) /\ CustomerOfPc(x)
      /\ RowsOfPc(x, Len(drafts), Len(batches)) /\ x.call \in Calls /\ x.call.op \in LineOps
  BY OneSession DEF ReadLine, At, CallOfPc, LinePcs
<1>2. x.draft \in 1..Len(lines) /\ x.call.product \in Products
  BY <1>1, CallFields, OneSession DEF RowsOfPc
<1>3. seen \in Nat
  <2>1. lines \in Seq([Products -> Nat])
    BY DEF TypeInv, Tables
  <2> HIDE DEF x
  <2>2. lines[x.draft] \in [Products -> Nat]
    BY <1>2, <2>1
  <2>. QED
    BY <1>2, <2>2
<1>4. CASE Refuse(t, "refused")
  BY <1>4, RefuseStep DEF Answers
<1>5. CASE /\ tx' = [tx EXCEPT ![t] = s] /\ UNCHANGED <<tables, clocks, held>>
           /\ seen = 0 => x.call.op = "add_line"
  <2>1. /\ s \in TxType /\ s.call = x.call /\ s.draft = x.draft /\ s.seen = seen
        /\ s.pc = IF seen = 0 THEN "share_draft" ELSE "write_line"
    BY <1>1, <1>3 DEF TxType, PcNames
  <2> HIDE DEF s, seen
  <2>2. CallOfPc(s) /\ CustomerOfPc(s) /\ RowsOfPc(s, Len(drafts), Len(batches))
          /\ s.call.op # "receive"
    BY <1>1, <1>5, <2>1 DEF CallOfPc, CustomerOfPc, RowsOfPc, LinePcs, LineOps, FinalizePcs
  <2>3. held' \in [Sessions -> SUBSET LockType]
    BY <1>5, OneSession
  <2>. QED
    BY <1>5, <2>1, <2>2, <2>3, LocalStep
<1>. QED
  BY <1>4, <1>5 DEF ReadLine, Goto, Op

LEMMA ShareDraftTyped ==
  ASSUME TypeInv, NEW t \in Sessions, ShareDraft(t) PROVE TypeInv'
<1> DEFINE x == tx[t]
           s == [x EXCEPT !.pc = "share_product"]
<1>1. /\ x \in TxType /\ x.pc = "share_draft" /\ CallOfPc(x) /\ CustomerOfPc(x)
      /\ RowsOfPc(x, Len(drafts), Len(batches)) /\ x.call \in Calls
  BY OneSession DEF ShareDraft, At, CallOfPc
<1>2. Take(t, ForShare(DraftRow(x.draft))) /\ ForShare(DraftRow(x.draft)) \in LockType
  BY <1>1, RowsTyped DEF ShareDraft, TxType
<1>3. tx' = [tx EXCEPT ![t] = s] /\ UNCHANGED <<tables, clocks>>
  BY DEF ShareDraft, Goto
<1>4. /\ s \in TxType /\ s.call = x.call /\ s.draft = x.draft /\ s.seen = x.seen
      /\ s.pc = "share_product"
  BY <1>1 DEF TxType, PcNames
<1> HIDE DEF s
<1>5. CallOfPc(s) /\ CustomerOfPc(s) /\ RowsOfPc(s, Len(drafts), Len(batches))
        /\ s.call.op # "receive"
  BY <1>1, <1>4 DEF CallOfPc, CustomerOfPc, RowsOfPc, LinePcs, LineOps, FinalizePcs
<1>6. held' \in [Sessions -> SUBSET LockType]
  BY <1>2, TakeTyped
<1>. QED
  BY <1>3, <1>4, <1>5, <1>6, LocalStep

LEMMA ShareProductTyped ==
  ASSUME TypeInv, NEW t \in Sessions, ShareProduct(t) PROVE TypeInv'
<1> DEFINE x == tx[t]
           s == [x EXCEPT !.pc = "write_line"]
<1>1. /\ x \in TxType /\ x.pc = "share_product" /\ CallOfPc(x) /\ CustomerOfPc(x)
      /\ RowsOfPc(x, Len(drafts), Len(batches)) /\ x.call \in Calls
  BY OneSession DEF ShareProduct, At, CallOfPc
<1>2. Take(t, ForShare(ProductRow(x.call.product))) /\ ForShare(ProductRow(x.call.product)) \in LockType
  <2>1. x.call.product \in Nat
    BY <1>1, CallFields DEF CallOfPc, Products, LineOps
  <2>. QED
    BY <2>1, RowsTyped DEF ShareProduct
<1>3. tx' = [tx EXCEPT ![t] = s] /\ UNCHANGED <<tables, clocks>>
  BY DEF ShareProduct, Goto
<1>4. /\ s \in TxType /\ s.call = x.call /\ s.draft = x.draft /\ s.seen = x.seen
      /\ s.pc = "write_line"
  BY <1>1 DEF TxType, PcNames
<1> HIDE DEF s
<1>5. CallOfPc(s) /\ CustomerOfPc(s) /\ RowsOfPc(s, Len(drafts), Len(batches))
        /\ s.call.op # "receive"
  BY <1>1, <1>4 DEF CallOfPc, CustomerOfPc, RowsOfPc, LinePcs, LineOps, FinalizePcs
<1>6. held' \in [Sessions -> SUBSET LockType]
  BY <1>2, TakeTyped
<1>. QED
  BY <1>3, <1>4, <1>5, <1>6, LocalStep

LEMMA SetLineTyped ==
  ASSUME TypeInv, NEW t \in Sessions, NEW q \in Nat, SetLine(t, q) PROVE TypeInv'
<1>1. /\ lines \in Seq([Products -> Nat])
      /\ lines' = [lines EXCEPT ![tx[t].draft][tx[t].call.product] = q]
  BY DEF SetLine, TypeInv, Tables
<1>2. lines' \in Seq([Products -> Nat]) /\ Len(lines') = Len(lines)
  <2> DEFINE d == tx[t].draft
             row == [lines[d] EXCEPT ![tx[t].call.product] = q]
  <2>1. lines' = [lines EXCEPT ![d] = row]
    BY <1>1
  <2>2. d \in 1..Len(lines) => row \in [Products -> Nat]
    <3> SUFFICES ASSUME d \in 1..Len(lines) PROVE row \in [Products -> Nat]
      OBVIOUS
    <3>1. lines[d] \in [Products -> Nat]
      BY <1>1
    <3>. QED
      BY <3>1
  <2> HIDE DEF row, d
  <2>3. CASE d \in 1..Len(lines)
    <3>1. row \in [Products -> Nat] /\ lines \in Seq([Products -> Nat])
      BY <1>1, <2>2, <2>3
    <3>2. /\ [lines EXCEPT ![d] = row] \in Seq([Products -> Nat])
          /\ Len([lines EXCEPT ![d] = row]) = Len(lines)
      BY <2>3, <3>1, ExceptSeq
    <3>. QED
      BY <2>1, <3>2
  <2>4. CASE d \notin 1..Len(lines)
    <3>1. lines' = lines
      BY <1>1, <2>1, <2>4
    <3>. QED
      BY <1>1, <3>1
  <2>. QED
    BY <2>3, <2>4
<1>3. Tables' /\ Len(batches') = Len(batches) /\ Len(drafts) <= Len(drafts')
  BY <1>2 DEF SetLine, TypeInv, Tables, clocks
<1>. QED
  BY <1>3, CommitStep DEF SetLine, Answers

\* The quantity and the Product of a Line call.
LEMMA LineCall ==
  ASSUME TypeInv, NEW t \in Sessions, At(t, "write_line")
  PROVE  /\ tx[t] \in TxType /\ tx[t].seen \in Nat
         /\ tx[t].call \in Calls /\ tx[t].call.op \in LineOps
         /\ tx[t].call.product \in Products /\ tx[t].call.chat \in Chats
         /\ tx[t].call.op # "remove_line" => tx[t].call.qty \in Nat
<1>1. /\ tx[t] \in TxType /\ tx[t].seen \in Nat
      /\ tx[t].call \in Calls /\ tx[t].call.op \in LineOps
  BY OneSession DEF At, CallOfPc, LinePcs, TxType
<1>. QED
  BY <1>1, CallFields DEF LineOps

LEMMA InsertLineTyped ==
  ASSUME TypeInv, NEW t \in Sessions, InsertLine(t) PROVE TypeInv'
<1> DEFINE x == tx[t]
<1>1. x.call.product \in Products /\ x.call.chat \in Chats /\ x.call.qty \in Nat
  BY LineCall DEF InsertLine, Op
<1>2. CASE Refuse(t, "error")
  BY <1>2, RefuseStep DEF Answers
<1>3. CASE SetLine(t, x.call.qty)
  BY <1>1, <1>3, SetLineTyped
<1>4. CASE CommitNewDraft(t, [NoLines EXCEPT ![x.call.product] = x.call.qty])
  <2>1. [NoLines EXCEPT ![x.call.product] = x.call.qty] \in [Products -> Nat]
    BY <1>1 DEF NoLines
  <2>. QED
    BY <1>1, <1>4, <2>1, CommitNewDraftTyped
<1>. QED
  BY <1>2, <1>3, <1>4 DEF InsertLine

LEMMA UpdateLineTyped ==
  ASSUME TypeInv, NEW t \in Sessions, UpdateLine(t) PROVE TypeInv'
<1> DEFINE q == IF Op(t) = "add_line" THEN tx[t].seen + tx[t].call.qty ELSE tx[t].call.qty
<1>1. q \in Nat
  BY LineCall DEF UpdateLine, Op
<1>2. CASE Refuse(t, "error")
  BY <1>2, RefuseStep DEF Answers
<1>3. CASE SetLine(t, q)
  BY <1>1, <1>3, SetLineTyped
<1>. QED
  BY <1>2, <1>3 DEF UpdateLine

LEMMA DeleteLineTyped ==
  ASSUME TypeInv, NEW t \in Sessions, DeleteLine(t) PROVE TypeInv'
BY SetLineTyped DEF DeleteLine

-----------------------------------------------------------------------------
(* finalize_bill                                                             *)

LEMMA AnswerAtOnceTyped ==
  ASSUME TypeInv, NEW t \in Sessions, AnswerAtOnce(t) PROVE TypeInv'
<1>1. PICK a \in Answers : tx' = [tx EXCEPT ![t] = Idle(a)]
  BY DEF AnswerAtOnce, Goto, Answers
<1>2. UNCHANGED <<tables, clocks>> /\ held' \in [Sessions -> SUBSET LockType]
  BY OneSession DEF AnswerAtOnce
<1> DEFINE s == Idle(a)
<1>3. /\ s \in TxType /\ CallOfPc(s) /\ CustomerOfPc(s) /\ RowsOfPc(s, Len(drafts), Len(batches))
      /\ s.call = NoCall
  BY IdleTyped
<1> HIDE DEF s
<1>4. s.call.op # "receive"
  BY <1>3 DEF NoCall
<1>. QED
  BY <1>1, <1>2, <1>3, <1>4, LocalStep DEF s

LEMMA BeginFinalizeTyped ==
  ASSUME TypeInv, NEW t \in Sessions, BeginFinalize(t) PROVE TypeInv'
<1>1. PICK call \in Calls :
        /\ call.op = "finalize" /\ call.mode # "unresolved" /\ ~NeedsCustomer(call)
        /\ \E d \in OpenDrafts(call.chat) :
             tx' = [tx EXCEPT ![t] = Running("lock_draft", call, d)]
  BY DEF BeginFinalize, Goto
<1>2. PICK d \in OpenDrafts(call.chat) : tx' = [tx EXCEPT ![t] = Running("lock_draft", call, d)]
  BY <1>1
<1> DEFINE s == Running("lock_draft", call, d)
<1>3. d \in Nat /\ d \in 1..Len(drafts) /\ "lock_draft" \in PcNames
  BY DEF TypeInv, Tables, OpenDrafts, PcNames
<1>4. s \in TxType /\ s.pc = "lock_draft" /\ s.call = call /\ s.draft = d
  BY <1>3, RunningTyped
<1> HIDE DEF s
<1>5. CallOfPc(s) /\ CustomerOfPc(s) /\ RowsOfPc(s, Len(drafts), Len(batches))
        /\ s.call.op # "receive"
  BY <1>1, <1>3, <1>4 DEF CallOfPc, CustomerOfPc, RowsOfPc, LinePcs, LineOps, FinalizePcs
<1>6. UNCHANGED <<tables, clocks>> /\ held' \in [Sessions -> SUBSET LockType]
  BY OneSession DEF BeginFinalize
<1>. QED
  BY <1>2, <1>4, <1>5, <1>6, LocalStep DEF s

LEMMA LockDraftTyped ==
  ASSUME TypeInv, NEW t \in Sessions, LockDraft(t) PROVE TypeInv'
<1> DEFINE x == tx[t]
           s == [x EXCEPT !.pc = "load_lines"]
<1>1. /\ x \in TxType /\ x.pc = "lock_draft" /\ CallOfPc(x) /\ CustomerOfPc(x)
      /\ RowsOfPc(x, Len(drafts), Len(batches)) /\ x.call \in Calls
  BY OneSession DEF LockDraft, At, CallOfPc
<1>2. Take(t, ForUpdate(DraftRow(x.draft))) /\ ForUpdate(DraftRow(x.draft)) \in LockType
  BY <1>1, RowsTyped DEF LockDraft, TxType
<1>3. tx' = [tx EXCEPT ![t] = s] /\ UNCHANGED <<tables, clocks>>
  BY DEF LockDraft, Goto
<1>4. /\ s \in TxType /\ s.call = x.call /\ s.draft = x.draft /\ s.seen = x.seen
      /\ s.pc = "load_lines"
  BY <1>1 DEF TxType, PcNames
<1> HIDE DEF s
<1>5. CallOfPc(s) /\ CustomerOfPc(s) /\ RowsOfPc(s, Len(drafts), Len(batches))
        /\ s.call.op # "receive"
  BY <1>1, <1>4 DEF CallOfPc, CustomerOfPc, RowsOfPc, LinePcs, LineOps, FinalizePcs
<1>6. held' \in [Sessions -> SUBSET LockType]
  BY <1>2, TakeTyped
<1>. QED
  BY <1>3, <1>4, <1>5, <1>6, LocalStep

LEMMA LoadLinesTyped ==
  ASSUME TypeInv, NEW t \in Sessions, LoadLines(t) PROVE TypeInv'
<1> DEFINE x == tx[t]
<1>1. /\ x \in TxType /\ x.pc = "load_lines" /\ CallOfPc(x) /\ CustomerOfPc(x)
      /\ RowsOfPc(x, Len(drafts), Len(batches)) /\ x.call \in Calls
  BY OneSession DEF LoadLines, At, CallOfPc
<1>2. x.draft \in 1..Len(lines) /\ x.call.op = "finalize"
  BY <1>1, OneSession DEF CallOfPc, RowsOfPc, FinalizePcs
<1> DEFINE found == {p \in Products : lines[x.draft][p] > 0}
           s == [x EXCEPT !.lines = lines[x.draft], !.todo = found, !.pc = "lock_product"]
<1>3. lines[x.draft] \in [Products -> Nat] /\ found \in SUBSET Products /\ found \in SUBSET Nat
  BY <1>2 DEF TypeInv, Tables, Products
<1>4. CASE Refuse(t, "replay") \/ Refuse(t, "refused")
  BY <1>4, RefuseStep DEF Answers
<1>5. CASE /\ found # {} /\ tx' = [tx EXCEPT ![t] = s] /\ UNCHANGED <<tables, clocks, held>>
  <2>1. /\ s \in TxType /\ s.call = x.call /\ s.draft = x.draft /\ s.seen = x.seen
        /\ s.pc = "lock_product" /\ s.todo = found
    BY <1>1, <1>3 DEF TxType, PcNames
  <2> HIDE DEF s, found
  <2>2. CallOfPc(s) /\ CustomerOfPc(s) /\ RowsOfPc(s, Len(drafts), Len(batches))
          /\ s.call.op # "receive"
    BY <1>1, <1>2, <1>3, <1>5, <2>1 DEF CallOfPc, CustomerOfPc, RowsOfPc, LinePcs, LineOps, FinalizePcs
  <2>3. held' \in [Sessions -> SUBSET LockType]
    BY <1>5, OneSession
  <2>. QED
    BY <1>5, <2>1, <2>2, <2>3, LocalStep
<1>. QED
  BY <1>4, <1>5 DEF LoadLines, Goto, StatusSeen

\* First(ids) is one of ids.
LEMMA FirstExists ==
  ASSUME NEW ids \in SUBSET Nat, ids # {}
  PROVE  First(ids) \in ids /\ \A j \in ids : First(ids) <= j
<1>1. \E i \in ids : \A j \in ids : i <= j
  BY LeastExists
<1>. QED
  BY <1>1 DEF First

LEMMA LockProductTyped ==
  ASSUME TypeInv, NEW t \in Sessions, LockProduct(t) PROVE TypeInv'
<1> DEFINE x == tx[t]
<1>1. /\ x \in TxType /\ x.pc = "lock_product" /\ CallOfPc(x) /\ CustomerOfPc(x)
      /\ RowsOfPc(x, Len(drafts), Len(batches)) /\ x.call \in Calls
  BY OneSession DEF LockProduct, At, CallOfPc
<1> DEFINE p == First(x.todo)
           s == [x EXCEPT !.qty[p] = quantity[p], !.todo = @ \ {p},
                          !.pc = IF x.todo = {p} THEN AfterProducts(t) ELSE @]
<1>2. x.todo \in SUBSET Products /\ x.todo # {} /\ x.todo \in SUBSET Nat
        /\ x.call.op \in {"finalize", "receive"}
  BY <1>1 DEF RowsOfPc, CallOfPc, Products
<1>3. p \in x.todo /\ p \in Products /\ p \in Nat
  BY <1>2, FirstExists
<1>4. quantity[p] \in Int
  BY <1>3 DEF TypeInv, Tables
<1>5. Take(t, ForUpdate(ProductRow(p))) /\ ForUpdate(ProductRow(p)) \in LockType
  BY <1>3, RowsTyped DEF LockProduct
<1>6. tx' = [tx EXCEPT ![t] = s] /\ UNCHANGED <<tables, clocks>>
  BY DEF LockProduct, Goto
<1>7. AfterProducts(t) \in PcNames
        /\ AfterProducts(t) = IF x.call.op = "receive" THEN "receive"
                              ELSE IF x.call.mode = "khata" THEN "lock_customer" ELSE "check_cost"
  BY DEF AfterProducts, PcNames
<1>8. /\ s \in TxType /\ s.call = x.call /\ s.draft = x.draft /\ s.seen = x.seen
      /\ s.todo = x.todo \ {p}
      /\ s.pc = IF x.todo = {p} THEN AfterProducts(t) ELSE "lock_product"
  <2>1. [x.qty EXCEPT ![p] = quantity[p]] \in [Products -> Int]
    BY <1>1, <1>4 DEF TxType
  <2> DEFINE q == [x.qty EXCEPT ![p] = quantity[p]]
             pc == IF x.todo = {p} THEN AfterProducts(t) ELSE x.pc
             todo == x.todo \ {p}
  <2>2. pc \in PcNames /\ todo \in SUBSET Nat
    BY <1>1, <1>2, <1>7 DEF TxType
  <2>3. s = [x EXCEPT !.qty = q, !.todo = todo, !.pc = pc]
    BY <1>1 DEF TxType
  <2> HIDE DEF q, pc, todo, p, s
  <2>4. [x EXCEPT !.qty = q, !.todo = todo, !.pc = pc] \in TxType
    BY <1>1, <2>1, <2>2 DEF TxType, q
  <2>. QED
    BY <1>1, <2>3, <2>4 DEF TxType, todo, pc
<1> HIDE DEF s, p
<1>9. CallOfPc(s)
  BY <1>1, <1>2, <1>7, <1>8 DEF CallOfPc, LinePcs, FinalizePcs
<1>10. CustomerOfPc(s)
  BY <1>1, <1>2, <1>7, <1>8 DEF CustomerOfPc
<1>11. RowsOfPc(s, Len(drafts), Len(batches))
  BY <1>1, <1>2, <1>3, <1>7, <1>8 DEF RowsOfPc
<1>12. held' \in [Sessions -> SUBSET LockType]
  BY <1>5, TakeTyped
<1>. QED
  BY <1>6, <1>8, <1>9, <1>10, <1>11, <1>12, LocalStep DEF Op

LEMMA LockCustomerTyped ==
  ASSUME TypeInv, NEW t \in Sessions, LockCustomer(t) PROVE TypeInv'
<1> DEFINE x == tx[t]
<1>1. /\ x \in TxType /\ x.pc = "lock_customer" /\ CallOfPc(x) /\ CustomerOfPc(x)
      /\ RowsOfPc(x, Len(drafts), Len(batches)) /\ x.call \in Calls
  BY OneSession DEF LockCustomer, At, CallOfPc
<1> DEFINE c == x.call.customer
           s == [x EXCEPT !.pc = "check_cost"]
<1>2. CASE Refuse(t, "refused")
  BY <1>2, RefuseStep DEF Answers
<1>3. CASE /\ c \in Customers /\ Take(t, ForUpdate(CustomerRow(c)))
           /\ tx' = [tx EXCEPT ![t] = s] /\ UNCHANGED <<tables, clocks>>
  <2>1. /\ s \in TxType /\ s.call = x.call /\ s.draft = x.draft /\ s.seen = x.seen
        /\ s.pc = "check_cost"
    BY <1>1 DEF TxType, PcNames
  <2> HIDE DEF s
  <2>2. CallOfPc(s) /\ CustomerOfPc(s) /\ RowsOfPc(s, Len(drafts), Len(batches))
          /\ s.call.op # "receive"
    BY <1>1, <1>3, <2>1 DEF CallOfPc, CustomerOfPc, RowsOfPc, LinePcs, LineOps, FinalizePcs
  <2>3. held' \in [Sessions -> SUBSET LockType]
    BY <1>3, RowsTyped, TakeTyped
  <2>. QED
    BY <1>3, <2>1, <2>2, <2>3, LocalStep
<1>. QED
  BY <1>2, <1>3 DEF LockCustomer, Goto

LEMMA CheckCostTyped ==
  ASSUME TypeInv, NEW t \in Sessions, CheckCost(t) PROVE TypeInv'
<1> DEFINE x == tx[t]
<1>1. /\ x \in TxType /\ x.pc = "check_cost" /\ CallOfPc(x) /\ CustomerOfPc(x)
      /\ RowsOfPc(x, Len(drafts), Len(batches)) /\ x.call \in Calls
  BY OneSession DEF CheckCost, At, CallOfPc
<1> DEFINE ids == {b \in 1..Len(batches) : x.lines[batches[b].product] > 0 /\ batches[b].qty > 0}
           s == [x EXCEPT !.todo = ids, !.pc = IF ids = {} THEN "check_stock" ELSE "lock_batch"]
<1>2. CASE Refuse(t, "refused")
  BY <1>2, RefuseStep DEF Answers
<1>3. CASE /\ tx' = [tx EXCEPT ![t] = s] /\ UNCHANGED <<tables, clocks, held>>
  <2>0. ids \in SUBSET (1..Len(batches)) /\ ids \in SUBSET Nat
    OBVIOUS
  <2> HIDE DEF ids
  <2>1. /\ s \in TxType /\ s.call = x.call /\ s.draft = x.draft /\ s.seen = x.seen
        /\ s.pc = (IF ids = {} THEN "check_stock" ELSE "lock_batch") /\ s.todo = ids
    BY <1>1, <2>0 DEF TxType, PcNames
  <2> HIDE DEF s
  <2>2. CallOfPc(s) /\ CustomerOfPc(s) /\ RowsOfPc(s, Len(drafts), Len(batches))
          /\ s.call.op # "receive"
    BY <1>1, <2>0, <2>1 DEF CallOfPc, CustomerOfPc, RowsOfPc, LinePcs, LineOps, FinalizePcs
  <2>3. held' \in [Sessions -> SUBSET LockType]
    BY <1>3, OneSession
  <2>. QED
    BY <1>3, <2>1, <2>2, <2>3, LocalStep
<1>. QED
  BY <1>2, <1>3 DEF CheckCost, Goto

LEMMA LockBatchTyped ==
  ASSUME TypeInv, NEW t \in Sessions, LockBatch(t) PROVE TypeInv'
<1> DEFINE x == tx[t]
<1>1. /\ x \in TxType /\ x.pc = "lock_batch" /\ CallOfPc(x) /\ CustomerOfPc(x)
      /\ RowsOfPc(x, Len(drafts), Len(batches)) /\ x.call \in Calls
  BY OneSession DEF LockBatch, At, CallOfPc
<1> DEFINE b == First(x.todo)
           s == [x EXCEPT !.batch[b] = batches[b].qty, !.todo = @ \ {b},
                          !.pc = IF x.todo = {b} THEN "check_stock" ELSE @]
<1>2. x.todo \in SUBSET (1..Len(batches)) /\ x.todo # {} /\ x.todo \in SUBSET Nat
        /\ x.call.op = "finalize"
  BY <1>1 DEF RowsOfPc, CallOfPc, FinalizePcs
<1>3. b \in x.todo /\ b \in 1..Len(batches) /\ b \in Nat
  BY <1>2, FirstExists
<1>4. batches[b].qty \in Nat
  BY <1>3, BatchFields
<1>5. Take(t, ForUpdate(BatchRow(b))) /\ ForUpdate(BatchRow(b)) \in LockType
  BY <1>3, RowsTyped DEF LockBatch
<1>6. tx' = [tx EXCEPT ![t] = s] /\ UNCHANGED <<tables, clocks>>
  BY DEF LockBatch, Goto
<1>8. /\ s \in TxType /\ s.call = x.call /\ s.draft = x.draft /\ s.seen = x.seen
      /\ s.todo = x.todo \ {b}
      /\ s.pc = IF x.todo = {b} THEN "check_stock" ELSE "lock_batch"
  <2>1. [x.batch EXCEPT ![b] = batches[b].qty] \in [BatchIds -> Nat]
    BY <1>1, <1>4 DEF TxType
  <2> DEFINE q == [x.batch EXCEPT ![b] = batches[b].qty]
             pc == IF x.todo = {b} THEN "check_stock" ELSE x.pc
             todo == x.todo \ {b}
  <2>2. pc \in PcNames /\ todo \in SUBSET Nat
    BY <1>1, <1>2 DEF TxType, PcNames
  <2>3. s = [x EXCEPT !.batch = q, !.todo = todo, !.pc = pc]
    BY <1>1 DEF TxType
  <2> HIDE DEF q, pc, todo, b, s
  <2>4. [x EXCEPT !.batch = q, !.todo = todo, !.pc = pc] \in TxType
    BY <1>1, <2>1, <2>2 DEF TxType, q
  <2>. QED
    BY <1>1, <2>3, <2>4 DEF TxType, todo, pc
<1> HIDE DEF s, b
<1>9. CallOfPc(s) /\ s.call.op # "receive"
  BY <1>1, <1>2, <1>8 DEF CallOfPc, LinePcs, FinalizePcs
<1>10. CustomerOfPc(s)
  BY <1>1, <1>2, <1>8 DEF CustomerOfPc
<1>11. RowsOfPc(s, Len(drafts), Len(batches))
  BY <1>1, <1>2, <1>3, <1>8 DEF RowsOfPc
<1>12. held' \in [Sessions -> SUBSET LockType]
  BY <1>5, TakeTyped
<1>. QED
  BY <1>6, <1>8, <1>9, <1>10, <1>11, <1>12, LocalStep

LEMMA CheckStockTyped ==
  ASSUME TypeInv, NEW t \in Sessions, CheckStock(t) PROVE TypeInv'
<1> DEFINE x == tx[t]
<1>1. /\ x \in TxType /\ x.pc = "check_stock" /\ CallOfPc(x) /\ CustomerOfPc(x)
      /\ RowsOfPc(x, Len(drafts), Len(batches)) /\ x.call \in Calls
  BY OneSession DEF CheckStock, At, CallOfPc
<1> DEFINE s == [x EXCEPT !.asOf = istDay, !.day = localDay, !.pc = "mint"]
<1>2. CASE Refuse(t, "refused")
  BY <1>2, RefuseStep DEF Answers
<1>3. CASE /\ tx' = [tx EXCEPT ![t] = s] /\ UNCHANGED <<tables, clocks, held>>
  <2>1. /\ s \in TxType /\ s.call = x.call /\ s.draft = x.draft /\ s.seen = x.seen
        /\ s.pc = "mint"
    BY <1>1 DEF TxType, PcNames, TypeInv, Tables
  <2> HIDE DEF s
  <2>2. CallOfPc(s) /\ CustomerOfPc(s) /\ RowsOfPc(s, Len(drafts), Len(batches))
          /\ s.call.op # "receive"
    BY <1>1, <2>1 DEF CallOfPc, CustomerOfPc, RowsOfPc, LinePcs, LineOps, FinalizePcs
  <2>3. held' \in [Sessions -> SUBSET LockType]
    BY <1>3, OneSession
  <2>. QED
    BY <1>3, <2>1, <2>2, <2>3, LocalStep
<1>. QED
  BY <1>2, <1>3 DEF CheckStock, Goto

LEMMA MintNumberTyped ==
  ASSUME TypeInv, NEW t \in Sessions, MintNumber(t) PROVE TypeInv'
<1> DEFINE x == tx[t]
<1>1. /\ x \in TxType /\ x.pc = "mint" /\ CallOfPc(x) /\ CustomerOfPc(x)
      /\ RowsOfPc(x, Len(drafts), Len(batches)) /\ x.call \in Calls
  BY OneSession DEF MintNumber, At, CallOfPc
<1>2. x.day \in Days /\ counter[x.day] \in Nat /\ x.day \in Nat
  BY <1>1 DEF TxType, TypeInv, Tables, Days
<1> DEFINE n == IF counter[x.day] = 0 THEN x.seq ELSE counter[x.day]
           s == [x EXCEPT !.seq = n,
                          !.pc = IF counter[x.day] = 0 THEN "insert_counter" ELSE "write_bill"]
<1>3. n \in Nat
  BY <1>1, <1>2 DEF TxType
<1>4. tx' = [tx EXCEPT ![t] = s] /\ UNCHANGED <<tables, clocks>>
  <2>1. x.seq = x.seq /\ [x EXCEPT !.pc = "insert_counter"] = [x EXCEPT !.seq = x.seq, !.pc = "insert_counter"]
    BY <1>1 DEF TxType
  <2>. QED
    BY <2>1 DEF MintNumber, Goto
<1>5. held' \in [Sessions -> SUBSET LockType]
  BY <1>2, RowsTyped, TakeTyped, OneSession DEF MintNumber
<1>6. /\ s \in TxType /\ s.call = x.call /\ s.draft = x.draft /\ s.seen = x.seen
      /\ s.pc = IF counter[x.day] = 0 THEN "insert_counter" ELSE "write_bill"
  BY <1>1, <1>3 DEF TxType, PcNames
<1> HIDE DEF s
<1>7. CallOfPc(s) /\ CustomerOfPc(s) /\ RowsOfPc(s, Len(drafts), Len(batches))
        /\ s.call.op # "receive"
  BY <1>1, <1>6 DEF CallOfPc, CustomerOfPc, RowsOfPc, LinePcs, LineOps, FinalizePcs
<1>. QED
  BY <1>4, <1>5, <1>6, <1>7, LocalStep

LEMMA InsertCounterTyped ==
  ASSUME TypeInv, NEW t \in Sessions, InsertCounter(t) PROVE TypeInv'
<1> DEFINE x == tx[t]
<1>1. /\ x \in TxType /\ x.pc = "insert_counter" /\ CallOfPc(x) /\ CustomerOfPc(x)
      /\ RowsOfPc(x, Len(drafts), Len(batches)) /\ x.call \in Calls
  BY OneSession DEF InsertCounter, At, CallOfPc
<1>2. x.day \in Nat
  BY <1>1 DEF TxType, Days
<1> DEFINE s == [x EXCEPT !.pc = "write_bill"]
<1>3. CASE Refuse(t, "error")
  BY <1>3, RefuseStep DEF Answers
<1>4. CASE /\ Take(t, ForUpdate(CounterRow(x.day)))
           /\ tx' = [tx EXCEPT ![t] = s] /\ UNCHANGED <<tables, clocks>>
  <2>1. /\ s \in TxType /\ s.call = x.call /\ s.draft = x.draft /\ s.seen = x.seen
        /\ s.pc = "write_bill"
    BY <1>1 DEF TxType, PcNames
  <2> HIDE DEF s
  <2>2. CallOfPc(s) /\ CustomerOfPc(s) /\ RowsOfPc(s, Len(drafts), Len(batches))
          /\ s.call.op # "receive"
    BY <1>1, <2>1 DEF CallOfPc, CustomerOfPc, RowsOfPc, LinePcs, LineOps, FinalizePcs
  <2>3. held' \in [Sessions -> SUBSET LockType]
    BY <1>2, <1>4, RowsTyped, TakeTyped
  <2>. QED
    BY <1>4, <2>1, <2>2, <2>3, LocalStep
<1>. QED
  BY <1>3, <1>4 DEF InsertCounter, Goto

LEMMA BillTotalTyped ==
  ASSUME NEW sold \in [Products -> Nat] PROVE BillTotal(sold) \in Nat
<1> DEFINE f == [p \in Products |-> PackagedLine(Mrp[p], sold[p], 0).total]
<1>1. ASSUME NEW p \in 1..NumProducts PROVE f[p] \in Nat
  <2>1. Mrp[p] \in Nat /\ sold[p] \in Nat /\ 0 \in GstSlabs /\ p \in Products
    BY BillingAssumption DEF Products, GstSlabs
  <2>2. PackagedLine(Mrp[p], sold[p], 0).total \in Nat
    BY <2>1, PackagedLineParts
  <2>. QED
    BY <2>1, <2>2
<1> HIDE DEF f
<1>2. SumTo(f, NumProducts) \in Nat
  BY <1>1, BillingAssumption, SumTyped
<1>. QED
  BY <1>2, RoundOffBounds DEF BillTotal, f

\* What the FEFO loop takes from a Batch is there.
LEMMA TakenBounds ==
  ASSUME TypeInv, NEW x \in TxType, NEW b \in 1..Len(batches)
  PROVE  Taken(x, b) \in Nat /\ x.batch[b] \in Nat /\ Taken(x, b) <= x.batch[b]
<1>0. x.batch \in [BatchIds -> Nat] /\ x.lines \in [Products -> Nat] /\ Len(batches) \in Nat
  BY RoomLeft DEF TxType
<1>1. /\ Len(batches) \in Nat /\ \A a \in 1..Len(batches) : x.batch[a] \in Nat
      /\ x.lines[batches[b].product] \in Nat
  BY <1>0, BatchFields
<1> DEFINE p == batches[b].product
           q == x.batch
           need == x.lines[p]
<1>2. Taken(x, b) = FefoTake(batches, q, p, x.asOf, need, b)
  BY DEF Taken
<1>3. Len(batches) \in Nat /\ (\A a \in 1..Len(batches) : q[a] \in Nat) /\ need \in Nat
  BY <1>1
<1> HIDE DEF p, q, need
<1>4. /\ FefoTake(batches, q, p, x.asOf, need, b) \in Nat
      /\ FefoTake(batches, q, p, x.asOf, need, b) <= q[b]
  BY <1>3, FefoTakeBounds
<1>. QED
  BY <1>1, <1>2, <1>4 DEF q

LEMMA CommitBillTyped ==
  ASSUME TypeInv, NEW t \in Sessions, CommitBill(t) PROVE TypeInv'
<1> DEFINE x == tx[t]
           bill == NewBill(x)
           billId == Len(bills) + 1
<1>1. /\ x \in TxType /\ x.pc = "write_bill" /\ CallOfPc(x) /\ CustomerOfPc(x)
      /\ RowsOfPc(x, Len(drafts), Len(batches)) /\ x.call \in Calls /\ x.call.op = "finalize"
  BY OneSession DEF CommitBill, At, CallOfPc, FinalizePcs
<1>2. /\ x.call.mode \in {"cash", "khata"} /\ x.call.chat \in Chats
      /\ x.call.mode = "khata" => x.call.customer \in Customers
      /\ x.draft \in 1..Len(drafts) /\ x.lines \in [Products -> Nat] /\ x.qty \in [Products -> Int]
      /\ x.seq \in Nat /\ x.day \in Days /\ x.draft \in Nat
  BY <1>1, CallFields DEF CallOfPc, CustomerOfPc, RowsOfPc, TxType
<1>3. bill \in BillType /\ billId \in Nat
  <2>1. BillTotal(x.lines) \in Nat /\ Len(bills) \in Nat /\ x.seq + 1 \in Nat
    BY <1>2, BillTotalTyped DEF TypeInv, Tables
  <2>. QED
    BY <1>2, <2>1 DEF BillType, NewBill
<1>4. CASE Refuse(t, "error")
  BY <1>4, RefuseStep DEF Answers
<1>5. CASE ~(Duplicate(bill) \/ (bill.mode = "khata" /\ bill.total = 0))
  <2>0. /\ bills' = Append(bills, bill)
        /\ drafts' = [drafts EXCEPT ![x.draft].status = "finalized", ![x.draft].bill = billId]
        /\ batches' = [b \in 1..Len(batches) |->
                        IF Taken(x, b) > 0
                        THEN [batches[b] EXCEPT !.qty = x.batch[b] - Taken(x, b)]
                        ELSE batches[b]]
        /\ quantity' = [p \in Products |->
                         IF x.lines[p] > 0 THEN x.qty[p] - x.lines[p] ELSE quantity[p]]
        /\ counter' = [counter EXCEPT ![x.day] = x.seq + 1]
        /\ khata' = khata \o Charge(x, bill, billId)
        /\ Finish(t, "ok") /\ UNCHANGED <<lines, clocks>>
    BY <1>5 DEF CommitBill
  <2>1. bills' \in Seq(BillType)
    BY <1>3, <2>0 DEF TypeInv, Tables
  <2>2. drafts' \in Seq(DraftType) /\ Len(drafts') = Len(drafts)
    <3> DEFINE d == x.draft
               new == [drafts[d] EXCEPT !.status = "finalized", !.bill = billId]
    <3>1. drafts[d] \in DraftType /\ drafts \in Seq(DraftType)
      BY <1>2 DEF TypeInv, Tables
    <3>2. new \in DraftType
      BY <1>3, <3>1 DEF DraftType
    <3>3. drafts' = [drafts EXCEPT ![d] = new]
      BY <2>0
    <3> HIDE DEF new, d
    <3>4. d \in 1..Len(drafts)
      BY <1>2 DEF d
    <3>5. /\ [drafts EXCEPT ![d] = new] \in Seq(DraftType)
          /\ Len([drafts EXCEPT ![d] = new]) = Len(drafts)
      BY <3>1, <3>2, <3>4, ExceptSeq
    <3>. QED
      BY <3>3, <3>5
  <2>3. batches' \in Seq(BatchType) /\ Len(batches') = Len(batches)
    <3> DEFINE new(b) == IF Taken(x, b) > 0
                         THEN [batches[b] EXCEPT !.qty = x.batch[b] - Taken(x, b)]
                         ELSE batches[b]
    <3>1. ASSUME NEW b \in 1..Len(batches) PROVE new(b) \in BatchType
      <4>1. x.batch[b] - Taken(x, b) \in Nat
        BY <1>1, TakenBounds
      <4>2. batches[b] \in BatchType
        BY BatchFields
      <4>. QED
        BY <4>1, <4>2 DEF BatchType
    <3>2. batches' = [b \in 1..Len(batches) |-> new(b)] /\ Len(batches) \in Nat
      BY <2>0 DEF TypeInv, Tables
    <3> HIDE DEF new
    <3>. QED
      BY <3>1, <3>2
  <2>4. quantity' \in [Products -> Int]
    <3>1. quantity \in [Products -> Int]
      BY DEF TypeInv, Tables
    <3>2. ASSUME NEW p \in Products
          PROVE  (IF x.lines[p] > 0 THEN x.qty[p] - x.lines[p] ELSE quantity[p]) \in Int
      BY <1>2, <3>1
    <3>. QED
      BY <2>0, <3>2
  <2>5. counter' \in [Days -> Nat]
    <3>1. counter' = [counter EXCEPT ![x.day] = x.seq + 1] /\ counter \in [Days -> Nat]
      BY <2>0 DEF TypeInv, Tables
    <3>2. x.seq + 1 \in Nat
      BY <1>2
    <3>. QED
      BY <3>1, <3>2
  <2>6. khata' \in Seq(KhataType)
    <3>1. Charge(x, bill, billId) \in Seq(KhataType)
      <4>1. bill.mode = x.call.mode /\ bill.total \in Nat
        BY <1>3 DEF NewBill, BillType
      <4>2. bill.mode = "khata" =>
              [customer |-> x.call.customer, bill |-> billId, amount |-> bill.total] \in KhataType
        BY <1>2, <1>3, <4>1 DEF KhataType
      <4>. QED
        BY <4>2 DEF Charge
    <3>2. khata' = khata \o Charge(x, bill, billId) /\ khata \in Seq(KhataType)
      BY <2>0 DEF TypeInv, Tables
    <3>. QED
      BY <3>1, <3>2, ConcatProperties
  <2>7. Tables'
    BY <2>0, <2>1, <2>2, <2>3, <2>4, <2>5, <2>6 DEF TypeInv, Tables, clocks
  <2>8. Finish(t, "ok") /\ Len(drafts) <= Len(drafts')
    BY <2>0, <2>2 DEF TypeInv, Tables
  <2>. QED
    BY <2>3, <2>7, <2>8, CommitStep DEF Answers
<1>. QED
  BY <1>4, <1>5 DEF CommitBill

-----------------------------------------------------------------------------
(* receive_stock, crashes and the calendar                                   *)

LEMMA BeginReceiveTyped ==
  ASSUME TypeInv, NEW t \in Sessions, BeginReceive(t) PROVE TypeInv'
<1>1. PICK call \in Calls :
        /\ call.op = "receive" /\ call.qty > 0
        /\ tx' = [tx EXCEPT ![t] = [Running("lock_product", call, 0) EXCEPT !.todo = {call.product}]]
  BY DEF BeginReceive, Goto
<1> DEFINE r == Running("lock_product", call, 0)
           s == [r EXCEPT !.todo = {call.product}]
<1>2. call.product \in Products /\ call.product \in Nat
  BY <1>1, CallFields DEF Products
<1>3. s \in TxType /\ s.pc = "lock_product" /\ s.call = call /\ s.draft = 0
        /\ s.todo = {call.product}
  <2>1. r \in TxType /\ r.pc = "lock_product" /\ r.call = call /\ r.draft = 0
    BY "lock_product" \in PcNames, RunningTyped DEF PcNames
  <2> HIDE DEF r
  <2>. QED
    BY <1>2, <2>1 DEF TxType
<1>4. tx' = [tx EXCEPT ![t] = s]
  BY <1>1
<1> HIDE DEF s
<1>5. CallOfPc(s) /\ CustomerOfPc(s) /\ RowsOfPc(s, Len(drafts), Len(batches))
  BY <1>1, <1>2, <1>3 DEF CallOfPc, CustomerOfPc, RowsOfPc, LinePcs, LineOps, FinalizePcs
<1>6. UNCHANGED <<tables, clocks>> /\ held' \in [Sessions -> SUBSET LockType]
  BY OneSession DEF BeginReceive
<1>7. Tables' /\ batches' = batches /\ drafts' = drafts /\ Len(batches) \in Nat /\ Len(drafts) \in Nat
  BY <1>6 DEF TypeInv, Tables, tables, clocks
<1>8. SessionInv'
  <2>1. /\ SessionInv /\ Len(batches') \in Nat /\ Len(batches) <= Len(batches')
        /\ Len(drafts') \in Nat /\ Len(drafts) <= Len(drafts')
        /\ RowsOfPc(s, Len(drafts'), Len(batches'))
    BY <1>5, <1>7 DEF TypeInv
  <2>. QED
    BY <1>3, <1>4, <1>5, <1>6, <1>7, <2>1, SessionStep
<1>9. BatchRoom'
  <2>1. Receiving' = Receiving \cup {t}
    <3>1. ASSUME NEW u \in Sessions PROVE tx'[u] = IF u = t THEN s ELSE tx[u]
      BY <1>4 DEF TypeInv, SessionInv
    <3>. QED
      BY <1>1, <1>3, <3>1 DEF Receiving, Op
  <2>2. IsFiniteSet(Receiving) /\ Cardinality(Receiving) \in Nat
    BY BillingAssumption, FS_Subset, FS_CardinalityType DEF Receiving
  <2>3. Cardinality(Receiving \cup {t}) = Cardinality(Receiving)
          \/ Cardinality(Receiving \cup {t}) = Cardinality(Receiving) + 1
    <3>1. CASE t \in Receiving
      <4>1. Receiving \cup {t} = Receiving
        BY <3>1
      <4>. QED
        BY <4>1
    <3>2. CASE t \notin Receiving
      BY <2>2, <3>2, FS_AddElement
    <3>. QED
      BY <3>1, <3>2
  <2>4. MaxBatches \in Nat /\ Len(batches) + Cardinality(Receiving) < MaxBatches
    BY BillingAssumption DEF BeginReceive
  <2>. QED
    BY <1>7, <2>1, <2>2, <2>3, <2>4 DEF BatchRoom
<1>. QED
  BY <1>7, <1>8, <1>9 DEF TypeInv

LEMMA OnHandTyped ==
  ASSUME NEW B \in Seq(BatchType), NEW p PROVE OnHand(B, p) \in Nat
<1> DEFINE f == [b \in 1..Len(B) |-> IF B[b].product = p THEN B[b].qty ELSE 0]
<1>1. Len(B) \in Nat
  OBVIOUS
<1>2. ASSUME NEW b \in 1..Len(B) PROVE f[b] \in Nat
  <2>1. B[b] \in BatchType
    OBVIOUS
  <2>. QED
    BY <2>1 DEF BatchType
<1> HIDE DEF f
<1>3. SumTo(f, Len(B)) \in Nat
  BY <1>1, <1>2, SumTyped
<1>. QED
  BY <1>3 DEF OnHand, f

LEMMA CommitReceiveTyped ==
  ASSUME TypeInv, NEW t \in Sessions, CommitReceive(t) PROVE TypeInv'
<1> DEFINE x == tx[t]
           p == x.call.product
           new == [product |-> p, qty |-> x.call.qty, expiry |-> x.call.expiry]
<1>1. x \in TxType /\ x.pc = "receive" /\ x.call.op = "receive" /\ x.call \in Calls
  BY OneSession DEF CommitReceive, At, CallOfPc
<1>2. p \in Products /\ new \in BatchType
  BY <1>1, CallFields DEF BatchType
<1>3. batches \in Seq(BatchType) /\ batches' = Append(batches, new)
  BY DEF CommitReceive, TypeInv, Tables
<1> HIDE DEF new
<1>4. batches' \in Seq(BatchType) /\ Len(batches') = Len(batches) + 1 /\ Len(batches) \in Nat
  BY <1>2, <1>3
<1>5. quantity' \in [Products -> Int]
  <2>1. OnHand(batches', p) \in Nat
    BY <1>4, OnHandTyped
  <2>2. quantity' = [quantity EXCEPT ![p] = OnHand(batches', p)]
    BY <1>3 DEF CommitReceive, new
  <2>3. quantity \in [Products -> Int]
    BY DEF TypeInv, Tables
  <2> DEFINE n == OnHand(batches', p)
  <2>4. n \in Int /\ quantity' = [quantity EXCEPT ![p] = n]
    BY <2>1, <2>2
  <2> HIDE DEF n
  <2>. QED
    BY <2>3, <2>4
<1>6. Tables'
  BY <1>4, <1>5 DEF CommitReceive, TypeInv, Tables, clocks
<1>7. Finish(t, "none") /\ drafts' = drafts /\ Len(drafts) \in Nat
  BY DEF CommitReceive, TypeInv, Tables
<1>8. PICK s \in TxType :
         /\ tx' = [tx EXCEPT ![t] = s] /\ s.call = NoCall
         /\ CallOfPc(s) /\ CustomerOfPc(s) /\ \A m, n : RowsOfPc(s, m, n)
         /\ held' \in [Sessions -> SUBSET LockType]
  BY <1>7, FinishTyped DEF Answers
<1>9. SessionInv'
  <2>1. /\ SessionInv /\ Len(batches') \in Nat /\ Len(batches) <= Len(batches')
        /\ Len(drafts') \in Nat /\ Len(drafts) <= Len(drafts')
        /\ RowsOfPc(s, Len(drafts'), Len(batches'))
    BY <1>4, <1>7, <1>8 DEF TypeInv
  <2>. QED
    BY <1>4, <1>7, <1>8, <2>1, SessionStep
<1>10. BatchRoom'
  <2>1. Receiving' = Receiving \ {t} /\ t \in Receiving
    <3>1. ASSUME NEW u \in Sessions PROVE tx'[u] = IF u = t THEN s ELSE tx[u]
      BY <1>8 DEF TypeInv, SessionInv
    <3>2. s.call.op # "receive"
      BY <1>8 DEF NoCall
    <3>. QED
      BY <1>1, <3>1, <3>2 DEF Receiving, Op
  <2>2. IsFiniteSet(Receiving)
    BY BillingAssumption, FS_Subset DEF Receiving
  <2>3. Cardinality(Receiving \ {t}) = Cardinality(Receiving) - 1 /\ Cardinality(Receiving) \in Nat
    BY <2>1, <2>2, FS_RemoveElement, FS_CardinalityType
  <2>. QED
    BY <1>4, <2>1, <2>3, BillingAssumption DEF TypeInv, BatchRoom
<1>. QED
  BY <1>6, <1>9, <1>10 DEF TypeInv

LEMMA MidnightTyped ==
  ASSUME TypeInv, IstMidnight \/ LocalMidnight PROVE TypeInv'
<1>0. MaxDay \in Nat /\ istDay \in 0..MaxDay /\ localDay \in 0..MaxDay
  BY BillingAssumption DEF TypeInv, Tables, Days
<1>1. istDay' \in Days /\ localDay' \in Days /\ UNCHANGED <<tables, tx, held>>
  <2>1. CASE IstMidnight
    <3>1. istDay < MaxDay /\ istDay' = istDay + 1 /\ localDay' = localDay /\ UNCHANGED <<tables, tx, held>>
      BY <2>1 DEF IstMidnight
    <3>. QED
      BY <1>0, <3>1 DEF Days
  <2>2. CASE LocalMidnight
    <3>1. localDay < istDay /\ localDay' = localDay + 1 /\ istDay' = istDay /\ UNCHANGED <<tables, tx, held>>
      BY <2>2 DEF LocalMidnight
    <3>. QED
      BY <1>0, <3>1 DEF Days
  <2>. QED
    BY <2>1, <2>2
<1>. QED
  BY <1>1 DEF TypeInv, Tables, SessionInv, BatchRoom, Receiving, Op, tables

LEMMA TypeInvInit == Init => TypeInv
<1> SUFFICES ASSUME Init PROVE TypeInv
  OBVIOUS
<1>0. /\ MaxDay \in Nat /\ OpeningBatches \in Seq(BatchType) /\ Len(OpeningBatches) <= MaxBatches
      /\ 0 \in Days
  BY BillingAssumption DEF BatchType, Days
<1>1. Tables
  <2>1. \A p \in Products : OnHand(OpeningBatches, p) \in Nat
    BY <1>0, OnHandTyped
  <2>. QED
    BY <1>0, <2>1 DEF Init, Tables
<1>2. \A t \in Sessions : tx[t] = Idle("none") /\ held[t] = {}
  BY DEF Init
<1>3. SessionInv
  <2>1. Idle("none") \in TxType /\ CallOfPc(Idle("none")) /\ CustomerOfPc(Idle("none"))
          /\ \A m, n : RowsOfPc(Idle("none"), m, n)
    BY IdleTyped DEF Answers
  <2>. QED
    BY <2>1 DEF Init, SessionInv
<1>4. BatchRoom
  <2>1. \A t \in Sessions : Op(t) # "receive"
    BY <1>2 DEF Op, Idle, NoCall
  <2>2. Receiving = {}
    BY <2>1 DEF Receiving
  <2>. QED
    BY <1>0, <2>2, FS_EmptySet DEF Init, BatchRoom
<1>. QED
  BY <1>1, <1>3, <1>4 DEF TypeInv

LEMMA TypeInvNext == TypeInv /\ [Next]_vars => TypeInv'
<1> SUFFICES ASSUME TypeInv, [Next]_vars PROVE TypeInv'
  OBVIOUS
<1>1. ASSUME NEW t \in Sessions, DraftStep(t) PROVE TypeInv'
  BY <1>1, ReadOpenDraftTyped, MissOpenDraftTyped, CreateDraftTyped, ReadLineTyped,
     ShareDraftTyped, ShareProductTyped, InsertLineTyped, UpdateLineTyped, DeleteLineTyped
     DEF DraftStep
<1>2. ASSUME NEW t \in Sessions, FinalizeStep(t) PROVE TypeInv'
  BY <1>2, AnswerAtOnceTyped, BeginFinalizeTyped, LockDraftTyped, LoadLinesTyped,
     LockProductTyped, LockCustomerTyped, CheckCostTyped, LockBatchTyped, CheckStockTyped,
     MintNumberTyped, InsertCounterTyped, CommitBillTyped
     DEF FinalizeStep
<1>3. ASSUME NEW t \in Sessions, ReceiveStep(t) \/ Abort(t) PROVE TypeInv'
  <2>1. CASE Abort(t)
    BY <2>1, RefuseStep DEF Abort, Answers
  <2>. QED
    BY <1>3, <2>1, BeginReceiveTyped, CommitReceiveTyped DEF ReceiveStep
<1>4. CASE UNCHANGED vars
  BY <1>4 DEF vars, TypeInv, Tables, SessionInv, BatchRoom, Receiving, Op, tables, clocks
<1>. QED
  BY <1>1, <1>2, <1>3, <1>4, MidnightTyped DEF Next

\* Whatever the calls, the crashes and the interleaving, every table and every
\* transaction has its type.
THEOREM TablesTyped == Spec => []TypeInv
BY TypeInvInit, TypeInvNext, PTL DEF Spec

-----------------------------------------------------------------------------
(* Rows and levels                                                           *)

LEMMA Levels ==
  /\ Level["open_draft"] = 1 /\ Level["draft"] = 2 /\ Level["product"] = 3
  /\ Level["customer"] = 4 /\ Level["batch"] = 5 /\ Level["counter"] = 6
BY DEF Level

LEMMA HeldLevels ==
  /\ HeldLevel["idle"] = 0 /\ HeldLevel["create_draft"] = 0 /\ HeldLevel["read_line"] = 0
  /\ HeldLevel["share_draft"] = 0 /\ HeldLevel["share_product"] = 2
  /\ HeldLevel["write_line"] = 3 /\ HeldLevel["lock_draft"] = 0
  /\ HeldLevel["load_lines"] = 2 /\ HeldLevel["lock_product"] = 3
  /\ HeldLevel["receive"] = 3 /\ HeldLevel["lock_customer"] = 3
  /\ HeldLevel["check_cost"] = 4 /\ HeldLevel["lock_batch"] = 5
  /\ HeldLevel["check_stock"] = 5 /\ HeldLevel["mint"] = 5
  /\ HeldLevel["insert_counter"] = 5 /\ HeldLevel["write_bill"] = 6
BY DEF HeldLevel

LEMMA LockKinds ==
  ASSUME NEW k \in LockType
  PROVE  /\ k.row[1] \in {"open_draft", "draft", "product", "customer", "batch", "counter"}
         /\ k.row[1] \in {"product", "batch"} => k.row[2] \in Nat
         /\ Level[k.row[1]] \in 1..6
<1>1. /\ k.row[1] \in {"open_draft", "draft", "product", "customer", "batch", "counter"}
      /\ k.row[1] \in {"product", "batch"} => k.row[2] \in Nat
  BY DEF LockType, RowType
<1>. QED
  BY <1>1, Levels

LEMMA RowKinds ==
  /\ \A c : /\ ForUpdate(OpenDraftKey(c)).row[1] = "open_draft"
            /\ ForUpdate(CustomerRow(c)).row[1] = "customer"
  /\ \A n : /\ ForUpdate(DraftRow(n)).row[1] = "draft" /\ ForShare(DraftRow(n)).row[1] = "draft"
            /\ ForUpdate(ProductRow(n)).row[1] = "product" /\ ForUpdate(ProductRow(n)).row[2] = n
            /\ ForShare(ProductRow(n)).row[1] = "product"
            /\ ForUpdate(BatchRow(n)).row[1] = "batch" /\ ForUpdate(BatchRow(n)).row[2] = n
            /\ ForUpdate(CounterRow(n)).row[1] = "counter"
BY DEF ForUpdate, ForShare, OpenDraftKey, CustomerRow, DraftRow, ProductRow, BatchRow, CounterRow

-----------------------------------------------------------------------------
(* Every transaction locks upwards                                           *)

\* A statement from pc `from` to pc `to` that locks nothing, or a row of a kind.
StaysUp(from, to) ==
  /\ HeldLevel[from] \in Nat /\ HeldLevel[to] \in Nat /\ HeldLevel[from] <= HeldLevel[to]
  /\ to = "lock_product" => HeldLevel[from] < 3
  /\ to = "lock_batch" => HeldLevel[from] < 5

TakesUp(from, kind, to) ==
  /\ HeldLevel[from] \in Nat /\ HeldLevel[to] \in Nat /\ HeldLevel[from] <= HeldLevel[to]
  /\ Level[kind] \in Nat /\ Level[kind] <= HeldLevel[to]
  /\ to \notin {"lock_product", "lock_batch"}

LEMMA GoingUp ==
  /\ TakesUp("create_draft", "open_draft", "share_product")
  /\ TakesUp("share_draft", "draft", "share_product")
  /\ TakesUp("share_product", "product", "write_line")
  /\ TakesUp("lock_draft", "draft", "load_lines")
  /\ StaysUp("load_lines", "lock_product")
  /\ TakesUp("lock_customer", "customer", "check_cost")
  /\ StaysUp("check_cost", "check_stock") /\ StaysUp("check_cost", "lock_batch")
  /\ StaysUp("check_stock", "mint") /\ StaysUp("mint", "insert_counter")
  /\ TakesUp("mint", "counter", "write_bill")
  /\ TakesUp("insert_counter", "counter", "write_bill")
BY Levels, HeldLevels DEF StaysUp, TakesUp

LEMMA StepOrdered ==
  ASSUME TypeInv, OrderInv, NEW t \in Sessions, NEW s, tx' = [tx EXCEPT ![t] = s],
         NEW H, held' = [held EXCEPT ![t] = H], LocksOfPc(s, H)
  PROVE  OrderInv'
<1>1. ASSUME NEW u \in Sessions PROVE LocksOfPc(tx'[u], held'[u])
  <2>1. CASE u = t
    <3>1. tx'[u] = s /\ held'[u] = H
      BY <2>1 DEF TypeInv, SessionInv
    <3>. QED
      BY <3>1
  <2>2. CASE u # t
    <3>1. tx'[u] = tx[u] /\ held'[u] = held[u]
      BY <2>2 DEF TypeInv, SessionInv
    <3>. QED
      BY <3>1 DEF OrderInv
  <2>. QED
    BY <2>1, <2>2
<1>. QED
  BY <1>1 DEF OrderInv, LocksOfPc

LEMMA FinishOrdered ==
  ASSUME TypeInv, OrderInv, NEW t \in Sessions, NEW answer, Finish(t, answer)
  PROVE  OrderInv'
<1> DEFINE s == Idle(IF Op(t) = "finalize" THEN answer ELSE "none")
<1>1. tx' = [tx EXCEPT ![t] = s] /\ held' = [held EXCEPT ![t] = {}]
  BY DEF Finish, Goto
<1>2. LocksOfPc(s, {})
  BY DEF LocksOfPc
<1> HIDE DEF s
<1>. QED
  BY <1>1, <1>2, StepOrdered

LEMMA HeldNothing ==
  ASSUME TypeInv, OrderInv, NEW t \in Sessions, HeldLevel[tx[t].pc] = 0
  PROVE  held[t] = {} /\ (held' = held => held' = [held EXCEPT ![t] = {}])
<1>1. ASSUME NEW k \in held[t] PROVE FALSE
  <2>1. Level[k.row[1]] <= 0
    BY DEF OrderInv, LocksOfPc
  <2>2. k \in LockType
    BY OneSession
  <2>. QED
    BY <2>1, <2>2, LockKinds
<1>. QED
  BY <1>1 DEF TypeInv, SessionInv

\* The first statement of a call.
LEMMA StartOrdered ==
  ASSUME TypeInv, OrderInv, NEW t \in Sessions, HeldLevel[tx[t].pc] = 0,
         NEW s, tx' = [tx EXCEPT ![t] = s], held' = held
  PROVE  OrderInv'
<1>1. held' = [held EXCEPT ![t] = {}]
  BY HeldNothing
<1>2. LocksOfPc(s, {})
  BY DEF LocksOfPc
<1>. QED
  BY <1>1, <1>2, StepOrdered

\* A statement that locks nothing.
LEMMA StayOrdered ==
  ASSUME TypeInv, OrderInv, NEW t \in Sessions, NEW s, tx' = [tx EXCEPT ![t] = s], held' = held,
         StaysUp(tx[t].pc, s.pc)
  PROVE  OrderInv'
<1>1. held' = [held EXCEPT ![t] = held[t]]
  BY DEF TypeInv, SessionInv
<1>2. ASSUME NEW k \in held[t]
      PROVE  /\ Level[k.row[1]] <= HeldLevel[s.pc]
             /\ s.pc = "lock_product" => k.row[1] # "product"
             /\ s.pc = "lock_batch" => k.row[1] # "batch"
  <2>1. Level[k.row[1]] <= HeldLevel[tx[t].pc]
    BY DEF OrderInv, LocksOfPc
  <2>2. k \in LockType
    BY OneSession
  <2>. QED
    BY <2>1, <2>2, LockKinds, Levels DEF StaysUp
<1>3. LocksOfPc(s, held[t])
  BY <1>2 DEF LocksOfPc
<1>. QED
  BY <1>1, <1>3, StepOrdered

\* A statement that locks a row of a level above all the rows it holds.
LEMMA TakeOrdered ==
  ASSUME TypeInv, OrderInv, NEW t \in Sessions, NEW s, tx' = [tx EXCEPT ![t] = s],
         NEW lock, Take(t, lock),
         TakesUp(tx[t].pc, lock.row[1], s.pc)
  PROVE  OrderInv'
<1>1. held' = [held EXCEPT ![t] = held[t] \cup {lock}]
  BY DEF Take
<1>2. ASSUME NEW k \in held[t] \cup {lock} PROVE Level[k.row[1]] <= HeldLevel[s.pc]
  <2>1. CASE k = lock
    BY <2>1 DEF TakesUp
  <2>2. CASE k \in held[t]
    <3>1. Level[k.row[1]] <= HeldLevel[tx[t].pc]
      BY <2>2 DEF OrderInv, LocksOfPc
    <3>2. k \in LockType
      BY <2>2, OneSession
    <3>. QED
      BY <3>1, <3>2, LockKinds DEF TakesUp
  <2>. QED
    BY <2>1, <2>2
<1>3. LocksOfPc(s, held[t] \cup {lock})
  BY <1>2 DEF LocksOfPc, TakesUp
<1>. QED
  BY <1>1, <1>3, StepOrdered

LEMMA DraftStepOrdered ==
  ASSUME TypeInv, OrderInv, NEW t \in Sessions, DraftStep(t) PROVE OrderInv'
<1> DEFINE x == tx[t]
<1>0. x \in TxType
  BY OneSession
<1>1. CASE ReadOpenDraft(t) \/ MissOpenDraft(t)
  <2>1. \E s : tx' = [tx EXCEPT ![t] = s]
    BY <1>1 DEF ReadOpenDraft, MissOpenDraft, Goto
  <2>2. x.pc = "idle" /\ held' = held
    BY <1>1 DEF ReadOpenDraft, MissOpenDraft, At
  <2>. QED
    BY <2>1, <2>2, HeldLevels, StartOrdered
<1>2. CASE CreateDraft(t)
  <2> DEFINE key == ForUpdate(OpenDraftKey(x.call.chat))
             s == [x EXCEPT !.pc = "share_product"]
  <2>1. CASE Refuse(t, "error") \/ CommitNewDraft(t, NoLines)
    BY <2>1, FinishOrdered DEF Refuse, CommitNewDraft
  <2>2. CASE Take(t, key) /\ tx' = [tx EXCEPT ![t] = s]
    <3>1. x.pc = "create_draft" /\ s.pc = "share_product"
      BY <1>0, <1>2 DEF CreateDraft, At, TxType
    <3>2. key.row[1] = "open_draft"
      BY RowKinds
    <3> HIDE DEF key, s
    <3>. QED
      BY <2>2, <3>1, <3>2, GoingUp, TakeOrdered
  <2>. QED
    BY <1>2, <2>1, <2>2 DEF CreateDraft, Goto
<1>3. CASE ReadLine(t)
  <2>1. CASE Refuse(t, "refused")
    BY <2>1, FinishOrdered DEF Refuse
  <2>2. CASE ~Refuse(t, "refused")
    <3>1. \E s : tx' = [tx EXCEPT ![t] = s]
      BY <1>3, <2>2 DEF ReadLine, Goto
    <3>2. x.pc = "read_line" /\ held' = held
      BY <1>3, <2>2 DEF ReadLine, At
    <3>. QED
      BY <3>1, <3>2, HeldLevels, StartOrdered
  <2>. QED
    BY <2>1, <2>2
<1>4. CASE ShareDraft(t)
  <2> DEFINE s == [x EXCEPT !.pc = "share_product"]
             lock == ForShare(DraftRow(x.draft))
  <2>1. Take(t, lock) /\ tx' = [tx EXCEPT ![t] = s] /\ x.pc = "share_draft"
    BY <1>4 DEF ShareDraft, Goto, At
  <2>2. s.pc = "share_product" /\ lock.row[1] = "draft"
    BY <1>0, RowKinds DEF TxType
  <2> HIDE DEF s, lock
  <2>. QED
    BY <2>1, <2>2, GoingUp, TakeOrdered
<1>5. CASE ShareProduct(t)
  <2> DEFINE s == [x EXCEPT !.pc = "write_line"]
             lock == ForShare(ProductRow(x.call.product))
  <2>1. Take(t, lock) /\ tx' = [tx EXCEPT ![t] = s] /\ x.pc = "share_product"
    BY <1>5 DEF ShareProduct, Goto, At
  <2>2. s.pc = "write_line" /\ lock.row[1] = "product"
    BY <1>0, RowKinds DEF TxType
  <2> HIDE DEF s, lock
  <2>. QED
    BY <2>1, <2>2, GoingUp, TakeOrdered
<1>6. CASE InsertLine(t) \/ UpdateLine(t) \/ DeleteLine(t)
  <2>1. \E a : Finish(t, a)
    BY <1>6 DEF InsertLine, UpdateLine, DeleteLine, SetLine, CommitNewDraft, Refuse
  <2>. QED
    BY <2>1, FinishOrdered
<1>. QED
  BY <1>1, <1>2, <1>3, <1>4, <1>5, <1>6 DEF DraftStep

\* From one row of a kind to the next one, or to the statement after the last.
NextUp(kind, to) ==
  /\ HeldLevel[to] \in Nat /\ Level[kind] <= HeldLevel[to]
  /\ to = "lock_product" => kind = "product"
  /\ to = "lock_batch" => kind = "batch"

LEMMA GoingNext ==
  /\ NextUp("product", "lock_product") /\ NextUp("product", "receive")
  /\ NextUp("product", "lock_customer") /\ NextUp("product", "check_cost")
  /\ NextUp("batch", "lock_batch") /\ NextUp("batch", "check_stock")
BY Levels, HeldLevels DEF NextUp

\* Locking the least of the ids left to lock keeps those locked below those left.
LEMMA LockNextOrdered ==
  ASSUME TypeInv, OrderInv, NEW t \in Sessions, NEW kind \in {"product", "batch"},
         tx[t].pc = IF kind = "product" THEN "lock_product" ELSE "lock_batch",
         tx[t].todo \in SUBSET Nat, tx[t].todo # {},
         NEW s, tx' = [tx EXCEPT ![t] = s], s.todo = tx[t].todo \ {First(tx[t].todo)},
         NEW lock, Take(t, lock), lock.row[1] = kind, lock.row[2] = First(tx[t].todo),
         NextUp(kind, s.pc)
  PROVE  OrderInv'
<1> DEFINE i == First(tx[t].todo)
<1>1. held' = [held EXCEPT ![t] = held[t] \cup {lock}]
  BY DEF Take
<1>2. /\ i \in tx[t].todo /\ i \in Nat /\ (\A j \in tx[t].todo : i <= j)
      /\ \A j \in s.todo : i < j /\ j \in tx[t].todo
  <2>1. i \in tx[t].todo /\ \A j \in tx[t].todo : i <= j
    BY FirstExists
  <2> HIDE DEF i
  <2>2. s.todo = tx[t].todo \ {i}
    BY DEF i
  <2>. QED
    BY <2>1, <2>2
<1>3. /\ HeldLevel[tx[t].pc] \in Nat /\ Level[kind] \in Nat /\ Level[kind] <= HeldLevel[s.pc]
      /\ HeldLevel[s.pc] \in Nat /\ HeldLevel[tx[t].pc] = Level[kind]
      /\ s.pc = "lock_product" => kind = "product"
      /\ s.pc = "lock_batch" => kind = "batch"
  BY HeldLevels, Levels DEF NextUp
<1> HIDE DEF i
<1>4. ASSUME NEW k \in held[t] \cup {lock}
      PROVE  /\ Level[k.row[1]] <= HeldLevel[s.pc]
             /\ s.pc = "lock_product" /\ k.row[1] = "product" => \A p \in s.todo : k.row[2] < p
             /\ s.pc = "lock_batch" /\ k.row[1] = "batch" => \A b \in s.todo : k.row[2] < b
  <2>1. CASE k = lock
    BY <1>2, <1>3, <2>1 DEF i
  <2>2. CASE k \in held[t]
    <3>1. /\ Level[k.row[1]] <= HeldLevel[tx[t].pc]
          /\ k.row[1] = kind => \A j \in tx[t].todo : k.row[2] < j
      <4>1. /\ Level[k.row[1]] <= HeldLevel[tx[t].pc]
            /\ tx[t].pc = "lock_product" /\ k.row[1] = "product" =>
                 \A j \in tx[t].todo : k.row[2] < j
            /\ tx[t].pc = "lock_batch" /\ k.row[1] = "batch" =>
                 \A j \in tx[t].todo : k.row[2] < j
        BY <2>2 DEF OrderInv, LocksOfPc
      <4>2. kind = "product" => tx[t].pc = "lock_product"
        OBVIOUS
      <4>3. kind = "batch" => tx[t].pc = "lock_batch"
        OBVIOUS
      <4>. QED
        BY <4>1, <4>2, <4>3
    <3>2. k \in LockType
      BY <2>2, OneSession
    <3>3. Level[k.row[1]] <= HeldLevel[s.pc]
      BY <1>3, <3>1, <3>2, LockKinds
    <3>4. s.pc \in {"lock_product", "lock_batch"} /\ k.row[1] = kind => \A j \in s.todo : k.row[2] < j
      BY <1>2, <3>1
    <3>5. /\ s.pc = "lock_product" => kind = "product"
          /\ s.pc = "lock_batch" => kind = "batch"
      BY <1>3
    <3>. QED
      BY <3>3, <3>4, <3>5
  <2>. QED
    BY <2>1, <2>2
<1>5. LocksOfPc(s, held[t] \cup {lock})
  BY <1>4 DEF LocksOfPc
<1>. QED
  BY <1>1, <1>5, StepOrdered

LEMMA LockProductOrdered ==
  ASSUME TypeInv, OrderInv, NEW t \in Sessions, LockProduct(t) PROVE OrderInv'
<1> DEFINE x == tx[t]
           p == First(x.todo)
           s == [x EXCEPT !.qty[p] = quantity[p], !.todo = @ \ {p},
                          !.pc = IF x.todo = {p} THEN AfterProducts(t) ELSE @]
           lock == ForUpdate(ProductRow(p))
<1>1. /\ x \in TxType /\ x.pc = "lock_product" /\ x.todo \in SUBSET Nat /\ x.todo # {}
      /\ Take(t, lock) /\ tx' = [tx EXCEPT ![t] = s]
  BY OneSession DEF LockProduct, At, Goto, RowsOfPc, TxType
<1>2. s.todo = x.todo \ {p} /\ s.pc = IF x.todo = {p} THEN AfterProducts(t) ELSE "lock_product"
  BY <1>1 DEF TxType
<1>3. AfterProducts(t) \in {"receive", "lock_customer", "check_cost"}
  BY DEF AfterProducts
<1>4. lock.row[1] = "product" /\ lock.row[2] = p
  BY RowKinds
<1> HIDE DEF s, lock
<1>. QED
  BY <1>1, <1>2, <1>3, <1>4, GoingNext, LockNextOrdered

LEMMA LockBatchOrdered ==
  ASSUME TypeInv, OrderInv, NEW t \in Sessions, LockBatch(t) PROVE OrderInv'
<1> DEFINE x == tx[t]
           b == First(x.todo)
           s == [x EXCEPT !.batch[b] = batches[b].qty, !.todo = @ \ {b},
                          !.pc = IF x.todo = {b} THEN "check_stock" ELSE @]
           lock == ForUpdate(BatchRow(b))
<1>1. /\ x \in TxType /\ x.pc = "lock_batch" /\ x.todo \in SUBSET Nat /\ x.todo # {}
      /\ Take(t, lock) /\ tx' = [tx EXCEPT ![t] = s]
  BY OneSession DEF LockBatch, At, Goto, RowsOfPc, TxType
<1>2. s.todo = x.todo \ {b} /\ s.pc = IF x.todo = {b} THEN "check_stock" ELSE "lock_batch"
  BY <1>1 DEF TxType
<1>4. lock.row[1] = "batch" /\ lock.row[2] = b
  BY RowKinds
<1> HIDE DEF s, lock
<1>. QED
  BY <1>1, <1>2, <1>4, GoingNext, LockNextOrdered

LEMMA FinalizeStepOrdered ==
  ASSUME TypeInv, OrderInv, NEW t \in Sessions, FinalizeStep(t) PROVE OrderInv'
<1> DEFINE x == tx[t]
<1>0. x \in TxType
  BY OneSession
<1>1. CASE AnswerAtOnce(t) \/ BeginFinalize(t)
  <2>1. \E s : tx' = [tx EXCEPT ![t] = s]
    BY <1>1 DEF AnswerAtOnce, BeginFinalize, Goto
  <2>2. x.pc = "idle" /\ held' = held
    BY <1>1 DEF AnswerAtOnce, BeginFinalize, At
  <2>. QED
    BY <2>1, <2>2, HeldLevels, StartOrdered
<1>2. CASE LockDraft(t)
  <2> DEFINE s == [x EXCEPT !.pc = "load_lines"]
             lock == ForUpdate(DraftRow(x.draft))
  <2>1. Take(t, lock) /\ tx' = [tx EXCEPT ![t] = s] /\ x.pc = "lock_draft"
    BY <1>2 DEF LockDraft, Goto, At
  <2>2. s.pc = "load_lines" /\ lock.row[1] = "draft"
    BY <1>0, RowKinds DEF TxType
  <2> HIDE DEF s, lock
  <2>. QED
    BY <2>1, <2>2, GoingUp, TakeOrdered
<1>3. CASE LoadLines(t)
  <2> DEFINE found == {p \in Products : lines[x.draft][p] > 0}
             s == [x EXCEPT !.lines = lines[x.draft], !.todo = found, !.pc = "lock_product"]
  <2>1. CASE Refuse(t, "replay") \/ Refuse(t, "refused")
    BY <2>1, FinishOrdered DEF Refuse
  <2>2. CASE tx' = [tx EXCEPT ![t] = s] /\ held' = held
    <3>1. x.pc = "load_lines" /\ s.pc = "lock_product"
      BY <1>0, <1>3 DEF LoadLines, At, TxType
    <3> HIDE DEF s
    <3>. QED
      BY <2>2, <3>1, GoingUp, StayOrdered
  <2>. QED
    BY <1>3, <2>1, <2>2 DEF LoadLines, Goto
<1>4. CASE LockCustomer(t)
  <2> DEFINE s == [x EXCEPT !.pc = "check_cost"]
             lock == ForUpdate(CustomerRow(x.call.customer))
  <2>1. CASE Refuse(t, "refused")
    BY <2>1, FinishOrdered DEF Refuse
  <2>2. CASE Take(t, lock) /\ tx' = [tx EXCEPT ![t] = s]
    <3>1. x.pc = "lock_customer" /\ s.pc = "check_cost" /\ lock.row[1] = "customer"
      BY <1>0, <1>4, RowKinds DEF LockCustomer, At, TxType
    <3> HIDE DEF s, lock
    <3>. QED
      BY <2>2, <3>1, GoingUp, TakeOrdered
  <2>. QED
    BY <1>4, <2>1, <2>2 DEF LockCustomer, Goto
<1>5. CASE CheckCost(t)
  <2> DEFINE ids == {b \in 1..Len(batches) : x.lines[batches[b].product] > 0 /\ batches[b].qty > 0}
             s == [x EXCEPT !.todo = ids, !.pc = IF ids = {} THEN "check_stock" ELSE "lock_batch"]
  <2>1. CASE Refuse(t, "refused")
    BY <2>1, FinishOrdered DEF Refuse
  <2>2. CASE tx' = [tx EXCEPT ![t] = s] /\ held' = held
    <3>1. x.pc = "check_cost" /\ s.pc \in {"check_stock", "lock_batch"}
      BY <1>0, <1>5 DEF CheckCost, At, TxType
    <3> HIDE DEF s
    <3>. QED
      BY <2>2, <3>1, GoingUp, StayOrdered
  <2>. QED
    BY <1>5, <2>1, <2>2 DEF CheckCost, Goto
<1>6. CASE CheckStock(t)
  <2> DEFINE s == [x EXCEPT !.asOf = istDay, !.day = localDay, !.pc = "mint"]
  <2>1. CASE Refuse(t, "refused")
    BY <2>1, FinishOrdered DEF Refuse
  <2>2. CASE tx' = [tx EXCEPT ![t] = s] /\ held' = held
    <3>1. x.pc = "check_stock" /\ s.pc = "mint"
      BY <1>0, <1>6 DEF CheckStock, At, TxType
    <3> HIDE DEF s
    <3>. QED
      BY <2>2, <3>1, GoingUp, StayOrdered
  <2>. QED
    BY <1>6, <2>1, <2>2 DEF CheckStock, Goto
<1>7. CASE MintNumber(t)
  <2> DEFINE s1 == [x EXCEPT !.pc = "insert_counter"]
             s2 == [x EXCEPT !.seq = counter[x.day], !.pc = "write_bill"]
             lock == ForUpdate(CounterRow(x.day))
  <2>1. x.pc = "mint" /\ s1.pc = "insert_counter" /\ s2.pc = "write_bill" /\ lock.row[1] = "counter"
    BY <1>0, <1>7, RowKinds DEF MintNumber, At, TxType
  <2>2. CASE tx' = [tx EXCEPT ![t] = s1] /\ held' = held
    <3> HIDE DEF s1
    <3>. QED
      BY <2>1, <2>2, GoingUp, StayOrdered
  <2>3. CASE tx' = [tx EXCEPT ![t] = s2] /\ Take(t, lock)
    <3> HIDE DEF s2, lock
    <3>. QED
      BY <2>1, <2>3, GoingUp, TakeOrdered
  <2>. QED
    BY <1>7, <2>2, <2>3 DEF MintNumber, Goto
<1>8. CASE InsertCounter(t)
  <2> DEFINE s == [x EXCEPT !.pc = "write_bill"]
             lock == ForUpdate(CounterRow(x.day))
  <2>1. CASE Refuse(t, "error")
    BY <2>1, FinishOrdered DEF Refuse
  <2>2. CASE Take(t, lock) /\ tx' = [tx EXCEPT ![t] = s]
    <3>1. x.pc = "insert_counter" /\ s.pc = "write_bill" /\ lock.row[1] = "counter"
      BY <1>0, <1>8, RowKinds DEF InsertCounter, At, TxType
    <3> HIDE DEF s, lock
    <3>. QED
      BY <2>2, <3>1, GoingUp, TakeOrdered
  <2>. QED
    BY <1>8, <2>1, <2>2 DEF InsertCounter, Goto
<1>9. CASE CommitBill(t)
  <2>1. \E a : Finish(t, a)
    BY <1>9 DEF CommitBill, Refuse
  <2>. QED
    BY <2>1, FinishOrdered
<1>. QED
  BY <1>1, <1>2, <1>3, <1>4, <1>5, <1>6, <1>7, <1>8, <1>9, LockProductOrdered, LockBatchOrdered
     DEF FinalizeStep

LEMMA OrderInvNext == TypeInv /\ OrderInv /\ [Next]_vars => OrderInv'
<1> SUFFICES ASSUME TypeInv, OrderInv, [Next]_vars PROVE OrderInv'
  OBVIOUS
<1>1. ASSUME NEW t \in Sessions, ReceiveStep(t) \/ Abort(t) PROVE OrderInv'
  <2>1. CASE BeginReceive(t)
    <3>1. \E s : tx' = [tx EXCEPT ![t] = s]
      BY <2>1 DEF BeginReceive, Goto
    <3>2. tx[t].pc = "idle" /\ held' = held
      BY <2>1 DEF BeginReceive, At
    <3>. QED
      BY <3>1, <3>2, HeldLevels, StartOrdered
  <2>2. CASE CommitReceive(t) \/ Abort(t)
    <3>1. \E a : Finish(t, a)
      BY <2>2 DEF CommitReceive, Abort, Refuse
    <3>. QED
      BY <3>1, FinishOrdered
  <2>. QED
    BY <1>1, <2>1, <2>2 DEF ReceiveStep
<1>2. CASE IstMidnight \/ LocalMidnight \/ UNCHANGED vars
  <2>1. UNCHANGED <<tx, held>>
    BY <1>2 DEF IstMidnight, LocalMidnight, vars
  <2>. QED
    BY <2>1 DEF OrderInv, LocksOfPc
<1>. QED
  BY <1>1, <1>2, DraftStepOrdered, FinalizeStepOrdered DEF Next

-----------------------------------------------------------------------------
(* Conflicting locks                                                         *)

LEMMA Conflicts ==
  ASSUME NEW k \in LockType, NEW l \in LockType
  PROVE  ~Conflict(k, l) <=> (k.row = l.row => k.mode = "share" /\ l.mode = "share")
BY DEF Conflict, LockType

LEMMA HeldShapes ==
  ASSUME TypeInv, [Next]_vars
  PROVE  \/ held' = held
         \/ \E t \in Sessions : held' = [held EXCEPT ![t] = {}]
         \/ \E t \in Sessions : \E lock : Take(t, lock)
<1>1. ASSUME NEW t \in Sessions, \E a : Finish(t, a)
      PROVE  held' = [held EXCEPT ![t] = {}]
  BY <1>1 DEF Finish
<1>2. ASSUME NEW t \in Sessions, DraftStep(t)
      PROVE  held' = held \/ (\E a : Finish(t, a)) \/ \E lock : Take(t, lock)
  BY <1>2 DEF DraftStep, ReadOpenDraft, MissOpenDraft, CreateDraft, ReadLine, ShareDraft,
              ShareProduct, InsertLine, UpdateLine, DeleteLine, SetLine, CommitNewDraft, Refuse
<1>3. ASSUME NEW t \in Sessions, FinalizeStep(t)
      PROVE  held' = held \/ (\E a : Finish(t, a)) \/ \E lock : Take(t, lock)
  <2>1. CASE AnswerAtOnce(t) \/ BeginFinalize(t) \/ LockDraft(t) \/ LoadLines(t)
               \/ LockProduct(t) \/ LockCustomer(t)
    BY <2>1 DEF AnswerAtOnce, BeginFinalize, LockDraft, LoadLines, LockProduct, LockCustomer, Refuse
  <2>2. CASE CheckCost(t) \/ LockBatch(t) \/ CheckStock(t) \/ MintNumber(t) \/ InsertCounter(t)
    BY <2>2 DEF CheckCost, LockBatch, CheckStock, MintNumber, InsertCounter, Refuse
  <2>3. CASE CommitBill(t)
    BY <2>3 DEF CommitBill, Refuse
  <2>. QED
    BY <1>3, <2>1, <2>2, <2>3 DEF FinalizeStep
<1>4. ASSUME NEW t \in Sessions, ReceiveStep(t) \/ Abort(t)
      PROVE  held' = held \/ \E a : Finish(t, a)
  BY <1>4 DEF ReceiveStep, BeginReceive, CommitReceive, Abort, Refuse
<1>5. CASE IstMidnight \/ LocalMidnight \/ UNCHANGED vars
  BY <1>5 DEF IstMidnight, LocalMidnight, vars
<1>. QED
  BY <1>1, <1>2, <1>3, <1>4, <1>5 DEF Next

LEMMA LocksExcludeNext == TypeInv /\ TypeInv' /\ LocksExclude /\ [Next]_vars => LocksExclude'
<1> SUFFICES ASSUME TypeInv, TypeInv', LocksExclude, [Next]_vars,
                    NEW t \in Sessions, NEW u \in Sessions, t # u,
                    NEW k \in held'[t], NEW l \in held'[u], k.row = l.row
             PROVE  k.mode = "share" /\ l.mode = "share"
  BY DEF LocksExclude
<1>0. k \in LockType /\ l \in LockType /\ held \in [Sessions -> SUBSET LockType]
  BY DEF TypeInv, SessionInv
<1>1. CASE held' = held
  BY <1>1 DEF LocksExclude
<1>2. CASE \E v \in Sessions : held' = [held EXCEPT ![v] = {}]
  <2>1. k \in held[t] /\ l \in held[u]
    BY <1>0, <1>2
  <2>. QED
    BY <2>1 DEF LocksExclude
<1>3. ASSUME NEW v \in Sessions, NEW lock, Take(v, lock)
      PROVE  k.mode = "share" /\ l.mode = "share"
  <2>1. held' = [held EXCEPT ![v] = held[v] \cup {lock}] /\ CanLock(v, lock)
    BY <1>3 DEF Take
  <2>2. CASE k \in held[t] /\ l \in held[u]
    BY <2>2 DEF LocksExclude
  <2>3. CASE ~(k \in held[t] /\ l \in held[u])
    <3>1. \/ v = t /\ k = lock /\ l \in held[u]
          \/ v = u /\ l = lock /\ k \in held[t]
      BY <1>0, <2>1, <2>3
    <3>2. ~Conflict(k, l) \/ ~Conflict(l, k)
      BY <2>1, <3>1 DEF CanLock
    <3>. QED
      BY <1>0, <3>2, Conflicts
  <2>. QED
    BY <2>2, <2>3
<1>. QED
  BY <1>1, <1>2, <1>3, HeldShapes

-----------------------------------------------------------------------------
(* No deadlock                                                               *)

\* The row a session is about to lock is of a level above all those it holds,
\* or is the least of the ids left to lock.
MaxId == IF NumProducts > MaxBatches THEN NumProducts ELSE MaxBatches

LEMMA WantedRow ==
  ASSUME TypeInv, NEW t \in Sessions, NEW want \in Wanted(t)
  PROVE  /\ want.row[1] \in {"open_draft", "draft", "product", "customer", "batch", "counter"}
         /\ \/ tx[t].pc # "lock_product" /\ tx[t].pc # "lock_batch"
                 /\ HeldLevel[tx[t].pc] < Level[want.row[1]]
            \/ /\ tx[t].pc = "lock_product" /\ want.row[1] = "product"
               /\ want.row[2] \in tx[t].todo
            \/ /\ tx[t].pc = "lock_batch" /\ want.row[1] = "batch"
               /\ want.row[2] \in tx[t].todo
         /\ want.row[1] \in {"product", "batch"} => want.row[2] \in 0..MaxId
<1> DEFINE x == tx[t]
<1>1. x \in TxType /\ RowsOfPc(x, Len(drafts), Len(batches))
  BY OneSession
<1>2. /\ x.pc = "lock_product" => x.todo \in SUBSET Products /\ x.todo # {}
      /\ x.pc = "lock_batch" => x.todo \in SUBSET (1..Len(batches)) /\ x.todo # {}
  BY <1>1 DEF RowsOfPc
<1>3. x.pc \in {"lock_product", "lock_batch"} =>
        x.todo \in SUBSET (0..MaxId) /\ x.todo \in SUBSET Nat /\ x.todo # {}
  <2>1. Len(batches) \in Nat /\ Len(batches) <= MaxBatches /\ NumProducts \in Nat /\ MaxBatches \in Nat
    BY RoomLeft, BillingAssumption DEF TypeInv, Tables
  <2>. QED
    BY <1>2, <2>1 DEF Products, MaxId
<1>4. CASE x.pc = "lock_product"
  <2>1. want = ForUpdate(ProductRow(First(x.todo)))
    BY <1>4 DEF Wanted, At
  <2>2. First(x.todo) \in x.todo
    BY <1>3, <1>4, FirstExists
  <2>. QED
    BY <1>3, <1>4, <2>1, <2>2, RowKinds
<1>5. CASE x.pc = "lock_batch"
  <2>1. want = ForUpdate(BatchRow(First(x.todo)))
    BY <1>5 DEF Wanted, At
  <2>2. First(x.todo) \in x.todo
    BY <1>3, <1>5, FirstExists
  <2>. QED
    BY <1>3, <1>5, <2>1, <2>2, RowKinds
<1>6. CASE x.pc = "create_draft" \/ x.pc = "share_draft" \/ x.pc = "share_product"
  <2>1. \/ x.pc = "create_draft" /\ want = ForUpdate(OpenDraftKey(x.call.chat))
        \/ x.pc = "share_draft" /\ want = ForShare(DraftRow(x.draft))
        \/ x.pc = "share_product" /\ want = ForShare(ProductRow(x.call.product))
    BY <1>6 DEF Wanted, At
  <2>2. x.pc = "share_product" => ForShare(ProductRow(x.call.product)).row[2] \in 0..MaxId
    <3>1. x.pc = "share_product" => x.call \in Calls /\ x.call.op = "add_line"
      BY OneSession DEF CallOfPc
    <3>2. x.pc = "share_product" => x.call.product \in Products
      BY <3>1, CallFields DEF LineOps
    <3>3. ForShare(ProductRow(x.call.product)).row[2] = x.call.product
      BY DEF ForShare, ProductRow
    <3>. QED
      BY <3>2, <3>3, BillingAssumption DEF Products, MaxId
  <2>. QED
    BY <2>1, <2>2, RowKinds, Levels, HeldLevels
<1>7. CASE x.pc = "lock_draft" \/ x.pc = "lock_customer" \/ x.pc = "mint" \/ x.pc = "insert_counter"
  <2>1. \/ x.pc = "lock_draft" /\ want = ForUpdate(DraftRow(x.draft))
        \/ x.pc = "lock_customer" /\ want = ForUpdate(CustomerRow(x.call.customer))
        \/ x.pc = "mint" /\ want = ForUpdate(CounterRow(x.day))
        \/ x.pc = "insert_counter" /\ want = ForUpdate(CounterRow(x.day))
    BY <1>7 DEF Wanted, At
  <2>. QED
    BY <2>1, RowKinds, Levels, HeldLevels
<1>. QED
  BY <1>4, <1>5, <1>6, <1>7 DEF Wanted, At

LEMMA LocksInOrderHolds == TypeInv /\ OrderInv => LocksInOrder
<1> SUFFICES ASSUME TypeInv, OrderInv, NEW t \in Sessions, NEW want \in Wanted(t), NEW k \in held[t]
             PROVE  RowBefore(k.row, want.row)
  BY DEF LocksInOrder
<1>1. /\ Level[k.row[1]] <= HeldLevel[tx[t].pc]
      /\ tx[t].pc = "lock_product" /\ k.row[1] = "product" => \A p \in tx[t].todo : k.row[2] < p
      /\ tx[t].pc = "lock_batch" /\ k.row[1] = "batch" => \A b \in tx[t].todo : k.row[2] < b
  BY DEF OrderInv, LocksOfPc
<1>2. k \in LockType
  BY OneSession
<1>3. /\ Level[k.row[1]] \in 1..6
      /\ k.row[1] \in {"open_draft", "draft", "product", "customer", "batch", "counter"}
  BY <1>2, LockKinds
<1>4. CASE tx[t].pc # "lock_product" /\ tx[t].pc # "lock_batch"
  <2>1. /\ HeldLevel[tx[t].pc] < Level[want.row[1]]
        /\ want.row[1] \in {"open_draft", "draft", "product", "customer", "batch", "counter"}
    BY <1>4, WantedRow
  <2>2. HeldLevel[tx[t].pc] \in 0..6
    <3>1. tx[t].pc \in PcNames
      BY OneSession DEF TxType
    <3>. QED
      BY <3>1, HeldLevels DEF PcNames
  <2>3. Level[want.row[1]] \in 1..6
    BY <2>1, Levels
  <2>. QED
    BY <1>1, <1>3, <2>1, <2>2, <2>3 DEF RowBefore
<1>5. CASE tx[t].pc = "lock_product"
  <2>1. want.row[1] = "product" /\ want.row[2] \in tx[t].todo
    BY <1>5, WantedRow
  <2>2. Level[k.row[1]] <= 3
    BY <1>1, <1>5, HeldLevels
  <2>3. k.row[1] = "product" \/ Level[k.row[1]] < 3
    BY <1>3, <2>2, Levels
  <2>. QED
    BY <1>1, <1>5, <2>1, <2>3, Levels DEF RowBefore
<1>6. CASE tx[t].pc = "lock_batch"
  <2>1. want.row[1] = "batch" /\ want.row[2] \in tx[t].todo
    BY <1>6, WantedRow
  <2>2. Level[k.row[1]] <= 5
    BY <1>1, <1>6, HeldLevels
  <2>3. k.row[1] = "batch" \/ Level[k.row[1]] < 5
    BY <1>3, <2>2, Levels
  <2>. QED
    BY <1>1, <1>6, <2>1, <2>3, Levels DEF RowBefore
<1>. QED
  BY <1>4, <1>5, <1>6

\* If every session of a set waited for another, the one that wants the last
\* row of all would wait for a session that wants a row after it.
LEMMA NoWaitCycleHolds == TypeInv /\ LocksInOrder => NoWaitCycle
<1> SUFFICES ASSUME TypeInv, LocksInOrder, NEW S \in SUBSET Sessions, S # {},
                    \A t \in S : \E u \in S : WaitsFor(t, u)
             PROVE  FALSE
  BY DEF NoWaitCycle
<1>1. ASSUME NEW t \in S
      PROVE  \E u \in S : \E want \in Wanted(t) : \E next \in Wanted(u) :
               RowBefore(want.row, next.row)
  <2>1. PICK u \in S : WaitsFor(t, u)
    OBVIOUS
  <2>2. PICK want \in Wanted(t) : \E k \in held[u] : Conflict(k, want)
    BY <2>1 DEF WaitsFor
  <2>3. PICK k \in held[u] : k.row = want.row
    BY <2>2 DEF Conflict
  <2>4. PICK v \in S : WaitsFor(u, v)
    OBVIOUS
  <2>5. PICK next \in Wanted(u) : TRUE
    BY <2>4 DEF WaitsFor
  <2>6. RowBefore(k.row, next.row)
    BY DEF LocksInOrder
  <2>. QED
    BY <2>3, <2>6
<1> DEFINE wants == UNION {Wanted(t) : t \in S}
           levels == {Level[w.row[1]] : w \in wants}
<1>2. \A w \in wants : Level[w.row[1]] \in 1..6
  BY WantedRow, Levels
<1>3. levels \in SUBSET (0..6) /\ levels # {}
  <2>1. PICK t \in S : TRUE
    OBVIOUS
  <2>2. Wanted(t) # {}
    BY <1>1
  <2>. QED
    BY <1>2, <2>2
<1>4. PICK top \in levels : \A l \in levels : l <= top
  BY <1>3, LargestExists
<1> DEFINE ids == {w.row[2] : w \in {w \in wants : Level[w.row[1]] = top}}
<1>5. ASSUME NEW w \in wants, Level[w.row[1]] = top
      PROVE  /\ w.row[1] \in {"product", "batch"} /\ w.row[2] \in 0..MaxId
             /\ \E next \in wants : Level[next.row[1]] = top /\ w.row[2] < next.row[2]
  <2>1. PICK t \in S : w \in Wanted(t)
    OBVIOUS
  <2>2. PICK u \in S : \E want \in Wanted(t) : \E next \in Wanted(u) :
                         RowBefore(want.row, next.row)
    BY <1>1
  <2>3. \A want \in Wanted(t) : want = w
    BY <2>1 DEF Wanted, At
  <2>4. PICK next \in Wanted(u) : RowBefore(w.row, next.row)
    BY <2>2, <2>3
  <2>5. next \in wants /\ Level[next.row[1]] \in levels
    OBVIOUS
  <2>6. Level[next.row[1]] <= top /\ top \in 1..6 /\ Level[next.row[1]] \in 1..6
    BY <1>2, <1>4, <1>5, <2>5
  <2>7. /\ w.row[1] = next.row[1] /\ w.row[1] \in {"product", "batch"}
        /\ w.row[2] < next.row[2]
    BY <1>5, <2>4, <2>6 DEF RowBefore
  <2>8. w.row[2] \in 0..MaxId
    BY <2>1, <2>7, WantedRow
  <2>. QED
    BY <1>5, <2>5, <2>7, <2>8
<1>6. ids \in SUBSET (0..MaxId) /\ ids # {} /\ MaxId \in Nat
  <2>1. MaxId \in Nat
    BY BillingAssumption DEF MaxId
  <2>2. PICK w \in wants : Level[w.row[1]] = top
    OBVIOUS
  <2>. QED
    BY <1>5, <2>1, <2>2
<1>7. PICK last \in ids : \A i \in ids : i <= last
  BY <1>6, LargestExists
<1>8. PICK w \in wants : Level[w.row[1]] = top /\ w.row[2] = last
  OBVIOUS
<1>9. PICK next \in wants : Level[next.row[1]] = top /\ w.row[2] < next.row[2]
  BY <1>5, <1>8
<1>10. next.row[2] \in ids /\ next.row[2] \in 0..MaxId /\ last \in 0..MaxId
  BY <1>6, <1>9
<1>11. next.row[2] <= last
  BY <1>7, <1>10
<1> HIDE DEF wants, levels, ids
<1>12. \A i, j \in 0..MaxId : ~(i <= j /\ j < i)
  OBVIOUS
<1>. QED
  BY <1>8, <1>9, <1>10, <1>11, <1>12

LEMMA LockInvInit == Init => LockInv
<1> SUFFICES ASSUME Init PROVE LockInv
  OBVIOUS
<1>1. \A t \in Sessions : held[t] = {}
  BY DEF Init
<1>. QED
  BY <1>1 DEF LockInv, LocksExclude, OrderInv, LocksOfPc

-----------------------------------------------------------------------------
(* Theorems                                                                  *)

\* Whatever the calls, a row a transaction waits for comes after every row it
\* holds in the one order of rows: ADR-0005 and lock_products_sorted, with the
\* Draft Bill before, and the customer, the Batches and the counter after.
THEOREM LocksTakenInOrder == Spec => []LocksInOrder
<1>1. Init => OrderInv
  BY LockInvInit DEF LockInv
<1>2. TypeInv /\ OrderInv /\ [Next]_vars => OrderInv'
  BY OrderInvNext
<1>. QED
  BY <1>1, <1>2, TablesTyped, LocksInOrderHolds, PTL DEF Spec

\* No set of tool calls, of any size, deadlocks on row locks.
THEOREM NeverDeadlocks == Spec => []NoWaitCycle
BY TablesTyped, LocksTakenInOrder, NoWaitCycleHolds, PTL

-----------------------------------------------------------------------------
(* Part 2: the tables                                                        *)
-----------------------------------------------------------------------------
(* What a session owns                                                       *)

\* A session moves by its own steps only.
Steps(t) == DraftStep(t) \/ FinalizeStep(t) \/ ReceiveStep(t) \/ Abort(t)
Still(t) == tx'[t] = tx[t] /\ held'[t] = held[t]

LEMMA StepShape ==
  ASSUME TypeInv, NEW t \in Sessions, Steps(t)
  PROVE  /\ \E s : tx' = [tx EXCEPT ![t] = s]
         /\ \E H : held' = [held EXCEPT ![t] = H]
<1>0. held = [held EXCEPT ![t] = held[t]]
  BY DEF TypeInv, SessionInv
<1>1. CASE \E a : Finish(t, a)
  BY <1>1 DEF Finish, Goto
<1>2. CASE ReadOpenDraft(t) \/ MissOpenDraft(t) \/ AnswerAtOnce(t) \/ BeginFinalize(t) \/ BeginReceive(t)
  <2>1. held' = held
    BY <1>2 DEF ReadOpenDraft, MissOpenDraft, AnswerAtOnce, BeginFinalize, BeginReceive
  <2>2. \E s : tx' = [tx EXCEPT ![t] = s]
    BY <1>2 DEF ReadOpenDraft, MissOpenDraft, AnswerAtOnce, BeginFinalize, BeginReceive, Goto
  <2>. QED
    BY <1>0, <2>1, <2>2
<1>3. CASE ShareDraft(t) \/ ShareProduct(t) \/ LockDraft(t) \/ LockProduct(t) \/ LockBatch(t)
  BY <1>3 DEF ShareDraft, ShareProduct, LockDraft, LockProduct, LockBatch, Take, Goto
<1>4. ASSUME CreateDraft(t) \/ LockCustomer(t) \/ InsertCounter(t) PROVE (\E a : Finish(t, a)) \/
         ((\E s : tx' = [tx EXCEPT ![t] = s]) /\ \E H : held' = [held EXCEPT ![t] = H])
  BY <1>4 DEF CreateDraft, LockCustomer, InsertCounter, Refuse, CommitNewDraft, Take, Goto
<1>5. ASSUME ReadLine(t) \/ LoadLines(t) \/ CheckCost(t) \/ CheckStock(t)
      PROVE (\E a : Finish(t, a)) \/ ((\E s : tx' = [tx EXCEPT ![t] = s]) /\ held' = held)
  BY <1>5 DEF ReadLine, LoadLines, CheckCost, CheckStock, Refuse, Goto
<1>6. CASE MintNumber(t)
  BY <1>0, <1>6 DEF MintNumber, Take, Goto
<1>7. ASSUME InsertLine(t) \/ UpdateLine(t) \/ DeleteLine(t) \/ CommitReceive(t) \/ Abort(t)
      PROVE \E a : Finish(t, a)
  BY <1>7 DEF InsertLine, UpdateLine, DeleteLine, CommitReceive, Abort, Refuse, CommitNewDraft, SetLine
<1>8. ASSUME CommitBill(t) PROVE \E a : Finish(t, a)
  BY <1>8 DEF CommitBill, Refuse
<1>. QED
  BY <1>0, <1>1, <1>2, <1>3, <1>4, <1>5, <1>6, <1>7, <1>8 DEF Steps, DraftStep, FinalizeStep, ReceiveStep

LEMMA OthersStill ==
  ASSUME TypeInv, NEW t \in Sessions, Steps(t)
  PROVE  \A u \in Sessions \ {t} : Still(u)
BY StepShape DEF TypeInv, SessionInv, Still

LEMMA Movers ==
  ASSUME TypeInv, [Next]_vars
  PROVE  \/ (\A u \in Sessions : Still(u)) /\ UNCHANGED tables
         \/ \E t \in Sessions : Steps(t) /\ \A u \in Sessions \ {t} : Still(u)
<1>1. CASE \E t \in Sessions : Steps(t)
  BY <1>1, OthersStill
<1>2. CASE IstMidnight \/ LocalMidnight \/ UNCHANGED vars
  BY <1>2 DEF IstMidnight, LocalMidnight, vars, Still
<1>. QED
  BY <1>1, <1>2 DEF Next, Steps
\* The fields of a transaction a step leaves alone.
SameRows(x, s) ==
  /\ s.call = x.call /\ s.draft = x.draft /\ s.lines = x.lines
  /\ s.batch = x.batch /\ s.seq = x.seq

LEMMA MovedTo ==
  ASSUME TypeInv, NEW t \in Sessions
  PROVE  /\ \A s : Goto(t, s) => tx'[t] = s
         /\ held' = held => held'[t] = held[t]
         /\ \A lock : Take(t, lock) => held'[t] = held[t] \cup {lock}
BY DEF TypeInv, SessionInv, Goto, Take

LEMMA FinishOwns ==
  ASSUME TypeInv, NEW t \in Sessions, NEW a, Finish(t, a)
  PROVE  OwnsOfPc(tx'[t], held'[t]) /\ held'[t] = {} /\ tx'[t].pc = "idle"
<1> DEFINE s == Idle(IF Op(t) = "finalize" THEN a ELSE "none")
<1>1. tx'[t] = s /\ held'[t] = {}
  BY DEF Finish, Goto, TypeInv, SessionInv
<1>2. s.pc = "idle" /\ s.seq = 0 /\ \A b \in BatchIds : s.batch[b] = 0
  BY DEF Idle
<1> HIDE DEF s
<1>. QED
  BY <1>1, <1>2 DEF OwnsOfPc, OwnsDraft, OwnsCounter, OwnsProducts, OwnsBatches, Created, SellingPcs, PricedPcs

LEMMA RunningFields ==
  ASSUME NEW pc, NEW call, NEW draft
  PROVE  LET s == Running(pc, call, draft)
         IN  /\ s.pc = pc /\ s.call = call /\ s.draft = draft /\ s.seq = 0
             /\ s.lines = NoLines /\ \A b \in BatchIds : s.batch[b] = 0
BY DEF Running, Idle

\* The first statement of a call that does not receive stock.
LEMMA StartOwns ==
  ASSUME NEW pc \in {"read_line", "create_draft", "lock_draft"}, NEW call, NEW draft, NEW H
  PROVE  OwnsOfPc(Running(pc, call, draft), H)
<1> DEFINE s == Running(pc, call, draft)
<1>1. s.pc = pc /\ s.seq = 0 /\ \A b \in BatchIds : s.batch[b] = 0
  BY RunningFields
<1> HIDE DEF s
<1>2. OwnsOfPc(s, H)
  BY <1>1 DEF OwnsOfPc, OwnsDraft, OwnsCounter, OwnsProducts, OwnsBatches, Created, SellingPcs, PricedPcs
<1>. QED
  BY <1>2 DEF s

LEMMA DraftStepOwns ==
  ASSUME TypeInv, OwnsInv, NEW t \in Sessions, DraftStep(t)
  PROVE  OwnsOfPc(tx'[t], held'[t])
<1> DEFINE x == tx[t]
<1>0. x \in TxType /\ OwnsOfPc(x, held[t]) /\ RowsOfPc(x, Len(drafts), Len(batches))
  BY OneSession DEF OwnsInv
<1>1. CASE ReadOpenDraft(t)
  <2>1. PICK call, d : Goto(t, Running("read_line", call, d))
    BY <1>1 DEF ReadOpenDraft
  <2>. QED
    BY <2>1, MovedTo, StartOwns
<1>2. CASE MissOpenDraft(t)
  <2>1. PICK call : Goto(t, Running("create_draft", call, 0))
    BY <1>2 DEF MissOpenDraft
  <2>. QED
    BY <2>1, MovedTo, StartOwns
<1>3. CASE CreateDraft(t)
  <2> DEFINE key == ForUpdate(OpenDraftKey(x.call.chat))
             s == [x EXCEPT !.pc = "share_product"]
  <2>1. CASE \E a : Finish(t, a)
    BY <2>1, FinishOwns
  <2>2. CASE x.pc = "create_draft" /\ Take(t, key) /\ Goto(t, s)
    <3>1. s.pc = "share_product" /\ SameRows(x, s)
      BY <1>0 DEF TxType, SameRows
    <3> HIDE DEF s
    <3>2. tx'[t] = s /\ held'[t] = held[t] \cup {key}
      BY <2>2, MovedTo
    <3>. QED
      BY <1>0, <2>2, <3>1, <3>2 DEF OwnsOfPc, OwnsDraft, OwnsCounter, OwnsProducts, OwnsBatches,
         Created, SellingPcs, PricedPcs, SameRows
  <2>. QED
    BY <1>3, <2>1, <2>2 DEF CreateDraft, Refuse, CommitNewDraft, At
<1>4. CASE ReadLine(t)
  <2> DEFINE seen == lines[x.draft][x.call.product]
             s == [x EXCEPT !.seen = seen, !.pc = IF seen = 0 THEN "share_draft" ELSE "write_line"]
  <2>1. CASE \E a : Finish(t, a)
    BY <2>1, FinishOwns
  <2>2. CASE x.pc = "read_line" /\ held' = held /\ Goto(t, s)
    <3>1. s.pc \in {"share_draft", "write_line"} /\ SameRows(x, s)
      BY <1>0 DEF TxType, SameRows
    <3>2. x.draft # 0
      BY <1>0, <2>2 DEF RowsOfPc
    <3> HIDE DEF s
    <3>3. tx'[t] = s /\ held'[t] = held[t]
      BY <2>2, MovedTo
    <3>. QED
      BY <1>0, <2>2, <3>1, <3>2, <3>3 DEF OwnsOfPc, OwnsDraft, OwnsCounter, OwnsProducts, OwnsBatches,
         Created, SellingPcs, PricedPcs, SameRows
  <2>. QED
    BY <1>4, <2>1, <2>2 DEF ReadLine, Refuse, At
<1>5. CASE ShareDraft(t)
  <2> DEFINE s == [x EXCEPT !.pc = "share_product"]
             lock == ForShare(DraftRow(x.draft))
  <2>1. s.pc = "share_product" /\ SameRows(x, s)
    BY <1>0 DEF TxType, SameRows
  <2>2. x.pc = "share_draft" /\ x.draft # 0
    BY <1>0, <1>5 DEF ShareDraft, At, RowsOfPc
  <2> HIDE DEF s, lock
  <2>3. tx'[t] = s /\ held'[t] = held[t] \cup {lock}
    BY <1>5, MovedTo DEF ShareDraft, s, lock
  <2>. QED
    BY <1>0, <2>1, <2>2, <2>3 DEF OwnsOfPc, OwnsDraft, OwnsCounter, OwnsProducts, OwnsBatches,
         Created, SellingPcs, PricedPcs, SameRows
<1>6. CASE ShareProduct(t)
  <2> DEFINE s == [x EXCEPT !.pc = "write_line"]
             lock == ForShare(ProductRow(x.call.product))
  <2>1. s.pc = "write_line" /\ SameRows(x, s)
    BY <1>0 DEF TxType, SameRows
  <2>2. x.pc = "share_product"
    BY <1>6 DEF ShareProduct, At
  <2> HIDE DEF s, lock
  <2>3. tx'[t] = s /\ held'[t] = held[t] \cup {lock}
    BY <1>6, MovedTo DEF ShareProduct, s, lock
  <2>. QED
    BY <1>0, <2>1, <2>2, <2>3 DEF OwnsOfPc, OwnsDraft, OwnsCounter, OwnsProducts, OwnsBatches,
         Created, SellingPcs, PricedPcs, SameRows
<1>7. CASE InsertLine(t) \/ UpdateLine(t) \/ DeleteLine(t)
  <2>1. \E a : Finish(t, a)
    BY <1>7 DEF InsertLine, UpdateLine, DeleteLine, SetLine, CommitNewDraft, Refuse
  <2>. QED
    BY <2>1, FinishOwns
<1>. QED
  BY <1>1, <1>2, <1>3, <1>4, <1>5, <1>6, <1>7 DEF DraftStep
\* A statement of finalize_bill that locks no Product or Batch and loads no Line.
LEMMA FinalizeMoves ==
  ASSUME NEW x \in TxType, NEW H, NEW s, NEW G, OwnsOfPc(x, H), H \subseteq G, SameRows(x, s),
         x.pc \in FinalizePcs, x.pc \notin {"lock_draft", "load_lines"},
         s.pc \in FinalizePcs \ {"lock_draft", "load_lines", "write_bill"},
         x.call.op = "finalize", x.pc # "write_bill"
  PROVE  OwnsOfPc(s, G)
BY DEF OwnsOfPc, OwnsDraft, OwnsCounter, OwnsProducts, OwnsBatches, Created, SellingPcs, PricedPcs,
       SameRows, FinalizePcs

LEMMA LockingOwns ==
  ASSUME TypeInv, OwnsInv, NEW t \in Sessions,
         LockDraft(t) \/ LoadLines(t) \/ LockCustomer(t) \/ CheckCost(t) \/ CheckStock(t)
  PROVE  OwnsOfPc(tx'[t], held'[t])
<1> DEFINE x == tx[t]
<1>0. x \in TxType /\ OwnsOfPc(x, held[t]) /\ CallOfPc(x)
  BY OneSession DEF OwnsInv
<1>1. CASE \E a : Finish(t, a)
  BY <1>1, FinishOwns
<1>2. CASE LockDraft(t)
  <2> DEFINE s == [x EXCEPT !.pc = "load_lines"]
             lock == ForUpdate(DraftRow(x.draft))
  <2>1. s.pc = "load_lines" /\ SameRows(x, s)
    BY <1>0 DEF TxType, SameRows
  <2>2. x.pc = "lock_draft"
    BY <1>2 DEF LockDraft, At
  <2> HIDE DEF s, lock
  <2>3. tx'[t] = s /\ held'[t] = held[t] \cup {lock}
    BY <1>2, MovedTo DEF LockDraft, s, lock
  <2>. QED
    BY <1>0, <2>1, <2>2, <2>3 DEF OwnsOfPc, OwnsDraft, OwnsCounter, OwnsProducts, OwnsBatches,
         Created, SellingPcs, PricedPcs, SameRows
<1>3. CASE LoadLines(t) /\ held' = held /\ ~\E a : Finish(t, a)
  <2> DEFINE found == {p \in Products : lines[x.draft][p] > 0}
             s == [x EXCEPT !.lines = lines[x.draft], !.todo = found, !.pc = "lock_product"]
  <2>1. /\ s.pc = "lock_product" /\ s.call = x.call /\ s.draft = x.draft /\ s.batch = x.batch
        /\ s.seq = x.seq /\ \A p \in Products : s.lines[p] > 0 => p \in s.todo
    BY <1>0 DEF TxType
  <2>2. x.pc = "load_lines" /\ Goto(t, s)
    BY <1>3 DEF LoadLines, At, Refuse
  <2>3. x.call.op = "finalize"
    BY <1>0, <2>2 DEF CallOfPc, FinalizePcs
  <2> HIDE DEF s
  <2>4. tx'[t] = s /\ held'[t] = held[t]
    BY <1>3, <2>2, MovedTo
  <2>. QED
    BY <1>0, <2>1, <2>2, <2>3, <2>4 DEF OwnsOfPc, OwnsDraft, OwnsCounter, OwnsProducts, OwnsBatches,
         Created, SellingPcs, PricedPcs
<1>4. CASE LockCustomer(t) /\ ~\E a : Finish(t, a)
  <2> DEFINE s == [x EXCEPT !.pc = "check_cost"]
             lock == ForUpdate(CustomerRow(x.call.customer))
  <2>1. s.pc = "check_cost" /\ SameRows(x, s)
    BY <1>0 DEF TxType, SameRows
  <2>2. x.pc = "lock_customer" /\ Goto(t, s) /\ Take(t, lock)
    BY <1>4 DEF LockCustomer, At, Refuse
  <2> HIDE DEF s, lock
  <2>3. tx'[t] = s /\ held[t] \subseteq held'[t] /\ x.call.op = "finalize"
    BY <1>0, <2>2, MovedTo DEF CallOfPc, FinalizePcs
  <2>. QED
    BY <1>0, <2>1, <2>2, <2>3, FinalizeMoves DEF FinalizePcs
<1>5. CASE CheckCost(t) /\ ~\E a : Finish(t, a)
  <2> DEFINE ids == {b \in 1..Len(batches) : x.lines[batches[b].product] > 0 /\ batches[b].qty > 0}
             s == [x EXCEPT !.todo = ids, !.pc = IF ids = {} THEN "check_stock" ELSE "lock_batch"]
  <2>1. s.pc \in {"check_stock", "lock_batch"} /\ SameRows(x, s)
    BY <1>0 DEF TxType, SameRows
  <2>2. x.pc = "check_cost" /\ Goto(t, s) /\ held' = held
    BY <1>5 DEF CheckCost, At, Refuse
  <2> HIDE DEF s
  <2>3. tx'[t] = s /\ held[t] \subseteq held'[t] /\ x.call.op = "finalize"
    BY <1>0, <2>2, MovedTo DEF CallOfPc, FinalizePcs
  <2>. QED
    BY <1>0, <2>1, <2>2, <2>3, FinalizeMoves DEF FinalizePcs
<1>6. CASE CheckStock(t) /\ ~\E a : Finish(t, a)
  <2> DEFINE s == [x EXCEPT !.asOf = istDay, !.day = localDay, !.pc = "mint"]
  <2>1. s.pc = "mint" /\ SameRows(x, s)
    BY <1>0 DEF TxType, SameRows
  <2>2. x.pc = "check_stock" /\ Goto(t, s) /\ held' = held
    BY <1>6 DEF CheckStock, At, Refuse
  <2> HIDE DEF s
  <2>3. tx'[t] = s /\ held[t] \subseteq held'[t] /\ x.call.op = "finalize"
    BY <1>0, <2>2, MovedTo DEF CallOfPc, FinalizePcs
  <2>. QED
    BY <1>0, <2>1, <2>2, <2>3, FinalizeMoves DEF FinalizePcs
<1>7. LoadLines(t) => held' = held \/ \E a : Finish(t, a)
  BY DEF LoadLines, Refuse
<1>. QED
  BY <1>1, <1>2, <1>3, <1>4, <1>5, <1>6, <1>7

\* Locking the next Product: those left to lock are still named.
LEMMA LockProductOwns ==
  ASSUME TypeInv, OwnsInv, NEW t \in Sessions, LockProduct(t)
  PROVE  OwnsOfPc(tx'[t], held'[t])
<1> DEFINE x == tx[t]
           p == First(x.todo)
           lock == ForUpdate(ProductRow(p))
           s == [x EXCEPT !.qty[p] = quantity[p], !.todo = @ \ {p},
                          !.pc = IF x.todo = {p} THEN AfterProducts(t) ELSE @]
<1>0. x \in TxType /\ OwnsOfPc(x, held[t]) /\ CallOfPc(x)
  BY OneSession DEF OwnsInv
<1>1. x.pc = "lock_product" /\ Goto(t, s) /\ Take(t, lock)
  BY DEF LockProduct, At
<1>2. /\ SameRows(x, s) /\ s.todo = x.todo \ {p}
      /\ s.pc = IF x.todo = {p} THEN AfterProducts(t) ELSE "lock_product"
  BY <1>0, <1>1 DEF TxType, SameRows
<1>3. x.call.op \in {"finalize", "receive"}
  BY <1>0, <1>1 DEF CallOfPc
<1>4. AfterProducts(t) \in IF x.call.op = "receive" THEN {"receive"} ELSE {"lock_customer", "check_cost"}
  BY <1>3 DEF AfterProducts
<1> HIDE DEF s, p
<1>5. tx'[t] = s /\ held'[t] = held[t] \cup {lock}
  BY <1>1, MovedTo
<1>6. OwnsDraft(s, held'[t]) /\ OwnsCounter(s, held'[t]) /\ OwnsBatches(s, held'[t]) /\ s.pc # "idle"
  BY <1>0, <1>1, <1>2, <1>4, <1>5 DEF OwnsOfPc, OwnsDraft, OwnsCounter, OwnsBatches, Created, SameRows
<1>7. CASE x.call.op = "receive"
  <2>1. x.todo = {x.call.product} 
    BY <1>0, <1>1, <1>7 DEF OwnsOfPc, OwnsProducts
  <2>2. p = x.call.product
    <3>1. x.todo \in SUBSET Nat /\ x.todo # {}
      BY <1>0, <2>1 DEF TxType
    <3>2. First(x.todo) \in x.todo
      BY <3>1, FirstExists
    <3>. QED
      BY <2>1, <3>2 DEF p
  <2>3. s.pc = "receive"
    BY <1>2, <1>4, <1>7, <2>1, <2>2
  <2>4. OwnsProducts(s, held'[t])
    BY <1>2, <1>5, <1>7, <2>2, <2>3 DEF OwnsProducts, SameRows
  <2>. QED
    BY <1>5, <1>6, <2>4 DEF OwnsOfPc
<1>8. CASE x.call.op = "finalize"
  <2>1. s.call.op = "finalize" /\ s.pc \in {"lock_product", "lock_customer", "check_cost"} /\ s.lines = x.lines
    BY <1>2, <1>4, <1>8 DEF SameRows
  <2>2. ASSUME NEW q \in Products, x.lines[q] > 0
        PROVE  ForUpdate(ProductRow(q)) \in held[t] \/ q \in x.todo
    BY <1>0, <1>1, <1>8, <2>2 DEF OwnsOfPc, OwnsProducts, SellingPcs
  <2>3. ASSUME NEW q \in Products, x.lines[q] > 0
        PROVE  ForUpdate(ProductRow(q)) \in held'[t] \/ (s.pc = "lock_product" /\ q \in s.todo)
    <3>1. CASE q = p
      BY <1>5, <3>1
    <3>2. CASE q # p
      BY <1>2, <1>5, <2>2, <2>3, <3>2
    <3>. QED
      BY <3>1, <3>2
  <2>4. OwnsProducts(s, held'[t])
    BY <2>1, <2>3 DEF OwnsProducts
  <2>. QED
    BY <1>5, <1>6, <2>4 DEF OwnsOfPc
<1>. QED
  BY <1>3, <1>7, <1>8

\* Locking the next Batch, whose quantity is read.
LEMMA LockBatchOwns ==
  ASSUME TypeInv, OwnsInv, NEW t \in Sessions, LockBatch(t)
  PROVE  OwnsOfPc(tx'[t], held'[t])
<1> DEFINE x == tx[t]
           b == First(x.todo)
           lock == ForUpdate(BatchRow(b))
           s == [x EXCEPT !.batch[b] = batches[b].qty, !.todo = @ \ {b},
                          !.pc = IF x.todo = {b} THEN "check_stock" ELSE @]
<1>0. x \in TxType /\ OwnsOfPc(x, held[t]) /\ CallOfPc(x)
  BY OneSession DEF OwnsInv
<1>1. x.pc = "lock_batch" /\ Goto(t, s) /\ Take(t, lock)
  BY DEF LockBatch, At
<1>2. /\ s.call = x.call /\ s.draft = x.draft /\ s.lines = x.lines /\ s.seq = x.seq
      /\ s.pc \in {"check_stock", "lock_batch"}
      /\ \A a \in BatchIds : a # b => s.batch[a] = x.batch[a]
  BY <1>0, <1>1 DEF TxType
<1>3. x.call.op = "finalize"
  BY <1>0, <1>1 DEF CallOfPc, FinalizePcs
<1> HIDE DEF s, b
<1>4. tx'[t] = s /\ held'[t] = held[t] \cup {lock}
  BY <1>1, MovedTo
<1>5. OwnsDraft(s, held'[t]) /\ OwnsCounter(s, held'[t]) /\ OwnsProducts(s, held'[t]) /\ s.pc # "idle"
  BY <1>0, <1>1, <1>2, <1>3, <1>4 DEF OwnsOfPc, OwnsDraft, OwnsCounter, OwnsProducts, Created, SellingPcs, PricedPcs
<1>6. OwnsBatches(s, held'[t])
  <2> SUFFICES ASSUME NEW a \in BatchIds, s.batch[a] > 0 PROVE ForUpdate(BatchRow(a)) \in held'[t]
    BY DEF OwnsBatches
  <2>1. CASE a = b
    BY <1>4, <2>1
  <2>2. CASE a # b
    BY <1>0, <1>2, <1>4, <2>2 DEF OwnsOfPc, OwnsBatches
  <2>. QED
    BY <2>1, <2>2
<1>. QED
  BY <1>4, <1>5, <1>6 DEF OwnsOfPc

\* The invoice counter.
LEMMA MintOwns ==
  ASSUME TypeInv, OwnsInv, NEW t \in Sessions, MintNumber(t) \/ InsertCounter(t)
  PROVE  OwnsOfPc(tx'[t], held'[t])
<1> DEFINE x == tx[t]
           lock == ForUpdate(CounterRow(x.day))
<1>0. x \in TxType /\ OwnsOfPc(x, held[t]) /\ CallOfPc(x)
  BY OneSession DEF OwnsInv
<1>1. x.pc \in {"mint", "insert_counter"}
  BY DEF MintNumber, InsertCounter, At
<1>2. x.call.op = "finalize"
  BY <1>0, <1>1 DEF CallOfPc, FinalizePcs
<1>3. CASE \E a : Finish(t, a)
  BY <1>3, FinishOwns
<1>4. CASE Goto(t, [x EXCEPT !.pc = "insert_counter"]) /\ held' = held
  <2> DEFINE s == [x EXCEPT !.pc = "insert_counter"]
  <2>1. s.pc = "insert_counter" /\ SameRows(x, s)
    BY <1>0 DEF TxType, SameRows
  <2> HIDE DEF s
  <2>2. tx'[t] = s /\ held[t] \subseteq held'[t]
    BY <1>4, MovedTo DEF s
  <2>. QED
    BY <1>0, <1>1, <1>2, <2>1, <2>2, FinalizeMoves DEF FinalizePcs
<1>5. ASSUME NEW s, s.pc = "write_bill", s.call = x.call, s.draft = x.draft, s.lines = x.lines,
             s.batch = x.batch, s.day = x.day, Goto(t, s), Take(t, lock)
      PROVE  OwnsOfPc(tx'[t], held'[t])
  <2>1. tx'[t] = s /\ held'[t] = held[t] \cup {lock}
    BY <1>5, MovedTo
  <2>. QED
    BY <1>0, <1>1, <1>2, <1>5, <2>1 DEF OwnsOfPc, OwnsDraft, OwnsCounter, OwnsProducts, OwnsBatches,
       Created, SellingPcs, PricedPcs
<1>6. CASE Goto(t, [x EXCEPT !.seq = counter[x.day], !.pc = "write_bill"]) /\ Take(t, lock)
  <2> DEFINE s == [x EXCEPT !.seq = counter[x.day], !.pc = "write_bill"]
  <2>1. /\ s.pc = "write_bill" /\ s.call = x.call /\ s.draft = x.draft /\ s.lines = x.lines
        /\ s.batch = x.batch /\ s.day = x.day
    BY <1>0 DEF TxType
  <2> HIDE DEF s
  <2>. QED
    BY <1>5, <1>6, <2>1 DEF s
<1>7. CASE Goto(t, [x EXCEPT !.pc = "write_bill"]) /\ Take(t, lock)
  <2> DEFINE s == [x EXCEPT !.pc = "write_bill"]
  <2>1. /\ s.pc = "write_bill" /\ s.call = x.call /\ s.draft = x.draft /\ s.lines = x.lines
        /\ s.batch = x.batch /\ s.day = x.day
    BY <1>0 DEF TxType
  <2> HIDE DEF s
  <2>. QED
    BY <1>5, <1>7, <2>1 DEF s
<1>. QED
  BY <1>3, <1>4, <1>6, <1>7 DEF MintNumber, InsertCounter, Refuse

LEMMA StepOwns ==
  ASSUME TypeInv, OwnsInv, NEW t \in Sessions, Steps(t)
  PROVE  OwnsOfPc(tx'[t], held'[t])
<1>0. tx[t] \in TxType /\ OwnsOfPc(tx[t], held[t])
  BY OneSession DEF OwnsInv
<1>1. CASE CommitBill(t) \/ CommitReceive(t) \/ Abort(t)
  <2>1. \E a : Finish(t, a)
    BY <1>1 DEF CommitBill, CommitReceive, Abort, Refuse
  <2>. QED
    BY <2>1, FinishOwns
<1>2. CASE AnswerAtOnce(t)
  <2>1. PICK a : Goto(t, Idle(a)) /\ held' = held /\ tx[t].pc = "idle"
    BY <1>2 DEF AnswerAtOnce, At
  <2> DEFINE s == Idle(a)
  <2>2. s.pc = "idle" /\ s.seq = 0 /\ \A b \in BatchIds : s.batch[b] = 0
    BY DEF Idle
  <2>3. tx'[t] = s /\ held'[t] = {}
    BY <1>0, <2>1, MovedTo DEF OwnsOfPc
  <2> HIDE DEF s
  <2>. QED
    BY <2>2, <2>3 DEF OwnsOfPc, OwnsDraft, OwnsCounter, OwnsProducts, OwnsBatches, Created, SellingPcs, PricedPcs
<1>3. CASE BeginFinalize(t)
  <2>1. PICK call, d : Goto(t, Running("lock_draft", call, d))
    BY <1>3 DEF BeginFinalize
  <2>. QED
    BY <2>1, MovedTo, StartOwns
<1>4. CASE BeginReceive(t)
  <2>1. PICK call \in Calls : Goto(t, [Running("lock_product", call, 0) EXCEPT !.todo = {call.product}])
                              /\ call.op = "receive"
    BY <1>4 DEF BeginReceive
  <2> DEFINE r == Running("lock_product", call, 0)
             s == [r EXCEPT !.todo = {call.product}]
  <2>2. r \in TxType /\ r.pc = "lock_product" /\ r.call = call /\ r.seq = 0
        /\ \A b \in BatchIds : r.batch[b] = 0
    BY RunningTyped, RunningFields DEF PcNames
  <2>3. tx'[t] = s
    BY <2>1, MovedTo
  <2> HIDE DEF r
  <2>4. s.pc = "lock_product" /\ s.call = call /\ s.seq = 0 /\ s.todo = {call.product}
        /\ \A b \in BatchIds : s.batch[b] = 0
    BY <2>2 DEF TxType
  <2> HIDE DEF s
  <2>. QED
    BY <2>1, <2>3, <2>4 DEF OwnsOfPc, OwnsDraft, OwnsCounter, OwnsProducts, OwnsBatches, Created, SellingPcs, PricedPcs
<1>. QED
  BY <1>1, <1>2, <1>3, <1>4, DraftStepOwns, LockingOwns, LockProductOwns, LockBatchOwns, MintOwns
     DEF Steps, FinalizeStep, ReceiveStep

LEMMA OwnsNext == TypeInv /\ OwnsInv /\ [Next]_vars => OwnsInv'
<1> SUFFICES ASSUME TypeInv, OwnsInv, [Next]_vars, NEW u \in Sessions
             PROVE  OwnsOfPc(tx'[u], held'[u])
  BY DEF OwnsInv, OwnsOfPc, OwnsDraft, OwnsCounter, OwnsProducts, OwnsBatches
<1>1. CASE Still(u)
  BY <1>1 DEF OwnsInv, Still
<1>2. CASE Steps(u)
  BY <1>2, StepOwns
<1>. QED
  BY <1>1, <1>2, Movers

LEMMA OwnsInit == Init => OwnsInv
<1> SUFFICES ASSUME Init, NEW t \in Sessions PROVE OwnsOfPc(tx[t], held[t])
  BY DEF OwnsInv
<1> DEFINE s == Idle("none")
<1>1. tx[t] = s /\ held[t] = {}
  BY DEF Init
<1>2. s.pc = "idle" /\ s.seq = 0 /\ \A b \in BatchIds : s.batch[b] = 0
  BY DEF Idle
<1> HIDE DEF s
<1>. QED
  BY <1>1, <1>2 DEF OwnsOfPc, OwnsDraft, OwnsCounter, OwnsProducts, OwnsBatches, Created, SellingPcs, PricedPcs
-----------------------------------------------------------------------------
(* What a step changes                                                       *)

\* The first statement of a call.
Starts(t) ==
  /\ UNCHANGED tables /\ held' = held /\ held[t] = {}
  /\ tx'[t].pc \notin ChosenPcs
  /\ tx'[t].call.op = "finalize" => tx'[t].draft \in OpenDrafts(tx'[t].call.chat)

Ends(t) == \E a : Finish(t, a)

\* What a transaction has read under lock.
SameReads(x, s) ==
  /\ s.qty = x.qty /\ s.batch = x.batch
  /\ s.pc \in PricedPcs => x.pc \in PricedPcs /\ s.lines = x.lines /\ s.asOf = x.asOf

\* A statement in between.
Goes(t) ==
  /\ UNCHANGED tables
  /\ tx'[t].call = tx[t].call /\ tx'[t].draft = tx[t].draft
  /\ LockProduct(t) \/ LockBatch(t) \/ CheckStock(t) \/ SameReads(tx[t], tx'[t])

LEMMA StartFields ==
  ASSUME TypeInv, OwnsInv, NEW t \in Sessions,
         ReadOpenDraft(t) \/ MissOpenDraft(t) \/ AnswerAtOnce(t) \/ BeginFinalize(t) \/ BeginReceive(t)
  PROVE  Starts(t)
<1>1. UNCHANGED tables /\ held' = held /\ tx[t].pc = "idle"
  BY DEF ReadOpenDraft, MissOpenDraft, AnswerAtOnce, BeginFinalize, BeginReceive, At
<1>2. held[t] = {}
  BY <1>1 DEF OwnsInv, OwnsOfPc
<1>3. CASE AnswerAtOnce(t)
  <2>1. PICK a : Goto(t, Idle(a))
    BY <1>3 DEF AnswerAtOnce
  <2>2. Idle(a).pc = "idle" /\ Idle(a).call.op = "none"
    BY DEF Idle, NoCall
  <2>3. tx'[t].pc = "idle" /\ tx'[t].call.op = "none"
    BY <2>1, <2>2, MovedTo
  <2>. QED
    BY <1>1, <1>2, <2>3 DEF Starts, ChosenPcs, PricedPcs
<1>4. ASSUME NEW pc \in {"read_line", "create_draft", "lock_draft"}, NEW call, NEW d,
             Goto(t, Running(pc, call, d)), call.op = "finalize" => d \in OpenDrafts(call.chat)
      PROVE  Starts(t)
  <2>1. tx'[t].pc = pc /\ tx'[t].call = call /\ tx'[t].draft = d
    BY <1>4, MovedTo, RunningFields
  <2>. QED
    BY <1>1, <1>2, <1>4, <2>1 DEF Starts, ChosenPcs, PricedPcs
<1>5. CASE ReadOpenDraft(t)
  <2>1. PICK call, d : call.op # "finalize" /\ Goto(t, Running("read_line", call, d))
    BY <1>5 DEF ReadOpenDraft
  <2>. QED
    BY <1>4, <2>1
<1>6. CASE MissOpenDraft(t)
  <2>1. PICK call : call.op # "finalize" /\ Goto(t, Running("create_draft", call, 0))
    BY <1>6 DEF MissOpenDraft
  <2>. QED
    BY <1>4, <2>1
<1>7. CASE BeginFinalize(t)
  <2>1. PICK call, d : d \in OpenDrafts(call.chat) /\ Goto(t, Running("lock_draft", call, d))
    BY <1>7 DEF BeginFinalize
  <2>. QED
    BY <1>4, <2>1
<1>8. CASE BeginReceive(t)
  <2>1. PICK call \in Calls : Goto(t, [Running("lock_product", call, 0) EXCEPT !.todo = {call.product}])
                              /\ call.op = "receive"
    BY <1>8 DEF BeginReceive
  <2> DEFINE r == Running("lock_product", call, 0)
             s == [r EXCEPT !.todo = {call.product}]
  <2>2. r \in TxType /\ r.pc = "lock_product" /\ r.call = call
    BY RunningTyped DEF PcNames
  <2>3. tx'[t] = s
    BY <2>1, MovedTo
  <2> HIDE DEF r
  <2>4. s.pc = "lock_product" /\ s.call = call
    BY <2>2 DEF TxType
  <2> HIDE DEF s
  <2>. QED
    BY <1>1, <1>2, <2>1, <2>3, <2>4 DEF Starts, ChosenPcs, PricedPcs
<1>. QED
  BY <1>3, <1>5, <1>6, <1>7, <1>8

LEMMA GoFields ==
  ASSUME TypeInv, NEW t \in Sessions, UNCHANGED tables, NEW s, Goto(t, s),
         s.call = tx[t].call, s.draft = tx[t].draft, SameReads(tx[t], s)
  PROVE  Goes(t)
<1>1. tx'[t] = s
  BY MovedTo
<1>. QED
  BY <1>1 DEF Goes

LEMMA DraftStepKind ==
  ASSUME TypeInv, OwnsInv, NEW t \in Sessions, DraftStep(t)
  PROVE  Starts(t) \/ Goes(t) \/ Ends(t)
<1> DEFINE x == tx[t]
<1>0. x \in TxType
  BY OneSession
<1>1. CASE ReadOpenDraft(t) \/ MissOpenDraft(t)
  BY <1>1, StartFields
<1>2. CASE InsertLine(t) \/ UpdateLine(t) \/ DeleteLine(t)
  BY <1>2 DEF InsertLine, UpdateLine, DeleteLine, SetLine, CommitNewDraft, Refuse, Ends
<1>3. ASSUME NEW pc \in {"share_product", "write_line"}, Goto(t, [x EXCEPT !.pc = pc]), UNCHANGED tables
      PROVE  Goes(t)
  <2> DEFINE s == [x EXCEPT !.pc = pc]
  <2>1. s.call = x.call /\ s.draft = x.draft /\ SameReads(x, s)
    BY <1>0 DEF TxType, SameReads, PricedPcs
  <2> HIDE DEF s
  <2>. QED
    BY <1>3, <2>1, GoFields DEF s
<1>4. CASE CreateDraft(t) /\ ~Ends(t)
  BY <1>3, <1>4 DEF CreateDraft, Refuse, CommitNewDraft, Ends
<1>5. CASE ShareDraft(t) \/ ShareProduct(t)
  BY <1>3, <1>5 DEF ShareDraft, ShareProduct
<1>6. CASE ReadLine(t) /\ ~Ends(t)
  <2> DEFINE seen == lines[x.draft][x.call.product]
             s == [x EXCEPT !.seen = seen, !.pc = IF seen = 0 THEN "share_draft" ELSE "write_line"]
  <2>1. s.call = x.call /\ s.draft = x.draft /\ SameReads(x, s)
    BY <1>0 DEF TxType, SameReads, PricedPcs
  <2>2. Goto(t, s) /\ UNCHANGED tables
    BY <1>6 DEF ReadLine, Refuse, Ends
  <2> HIDE DEF s
  <2>. QED
    BY <2>1, <2>2, GoFields
<1>. QED
  BY <1>1, <1>2, <1>4, <1>5, <1>6 DEF DraftStep

LEMMA FinalizeStepKind ==
  ASSUME TypeInv, OwnsInv, NEW t \in Sessions, FinalizeStep(t)
  PROVE  Starts(t) \/ Goes(t) \/ Ends(t)
<1> DEFINE x == tx[t]
<1>0. x \in TxType
  BY OneSession
<1>1. CASE AnswerAtOnce(t) \/ BeginFinalize(t)
  BY <1>1, StartFields
<1>2. CASE CommitBill(t)
  BY <1>2 DEF CommitBill, Refuse, Ends
<1>3. ASSUME NEW pc \in {"load_lines", "check_cost"}, Goto(t, [x EXCEPT !.pc = pc]), UNCHANGED tables
      PROVE  Goes(t)
  <2> DEFINE s == [x EXCEPT !.pc = pc]
  <2>1. s.call = x.call /\ s.draft = x.draft /\ SameReads(x, s)
    BY <1>0 DEF TxType, SameReads, PricedPcs
  <2> HIDE DEF s
  <2>. QED
    BY <1>3, <2>1, GoFields DEF s
<1>4. CASE LockDraft(t) \/ (LockCustomer(t) /\ ~Ends(t))
  BY <1>3, <1>4 DEF LockDraft, LockCustomer, Refuse, Ends
<1>5. CASE LoadLines(t) /\ ~Ends(t)
  <2> DEFINE found == {p \in Products : lines[x.draft][p] > 0}
             s == [x EXCEPT !.lines = lines[x.draft], !.todo = found, !.pc = "lock_product"]
  <2>1. s.call = x.call /\ s.draft = x.draft /\ SameReads(x, s)
    BY <1>0 DEF TxType, SameReads, PricedPcs
  <2>2. Goto(t, s) /\ UNCHANGED tables
    BY <1>5 DEF LoadLines, Refuse, Ends
  <2> HIDE DEF s
  <2>. QED
    BY <2>1, <2>2, GoFields
<1>6. CASE CheckCost(t) /\ ~Ends(t)
  <2> DEFINE ids == {b \in 1..Len(batches) : x.lines[batches[b].product] > 0 /\ batches[b].qty > 0}
             s == [x EXCEPT !.todo = ids, !.pc = IF ids = {} THEN "check_stock" ELSE "lock_batch"]
  <2>1. s.call = x.call /\ s.draft = x.draft /\ SameReads(x, s)
    BY <1>0 DEF TxType, SameReads, PricedPcs
  <2>2. Goto(t, s) /\ UNCHANGED tables
    BY <1>6 DEF CheckCost, Refuse, Ends
  <2> HIDE DEF s
  <2>. QED
    BY <2>1, <2>2, GoFields
<1>7. CASE CheckStock(t) /\ ~Ends(t)
  <2> DEFINE s == [x EXCEPT !.asOf = istDay, !.day = localDay, !.pc = "mint"]
  <2>1. s.call = x.call /\ s.draft = x.draft
    BY <1>0 DEF TxType
  <2>2. Goto(t, s) /\ UNCHANGED tables
    BY <1>7 DEF CheckStock, Refuse, Ends
  <2> HIDE DEF s
  <2>3. tx'[t] = s
    BY <2>2, MovedTo
  <2>. QED
    BY <1>7, <2>1, <2>2, <2>3 DEF Goes
<1>8. CASE LockProduct(t)
  <2> DEFINE p == First(x.todo)
             s == [x EXCEPT !.qty[p] = quantity[p], !.todo = @ \ {p},
                            !.pc = IF x.todo = {p} THEN AfterProducts(t) ELSE @]
  <2>1. s.call = x.call /\ s.draft = x.draft
    BY <1>0 DEF TxType
  <2>2. Goto(t, s) /\ UNCHANGED tables
    BY <1>8 DEF LockProduct
  <2> HIDE DEF s
  <2>3. tx'[t] = s
    BY <2>2, MovedTo
  <2>. QED
    BY <1>8, <2>1, <2>2, <2>3 DEF Goes
<1>9. CASE LockBatch(t)
  <2> DEFINE b == First(x.todo)
             s == [x EXCEPT !.batch[b] = batches[b].qty, !.todo = @ \ {b},
                            !.pc = IF x.todo = {b} THEN "check_stock" ELSE @]
  <2>1. s.call = x.call /\ s.draft = x.draft
    BY <1>0 DEF TxType
  <2>2. Goto(t, s) /\ UNCHANGED tables
    BY <1>9 DEF LockBatch
  <2> HIDE DEF s
  <2>3. tx'[t] = s
    BY <2>2, MovedTo
  <2>. QED
    BY <1>9, <2>1, <2>2, <2>3 DEF Goes
<1>10. CASE (MintNumber(t) \/ InsertCounter(t)) /\ ~Ends(t)
  <2>1. PICK s \in {[x EXCEPT !.pc = "insert_counter"], [x EXCEPT !.pc = "write_bill"],
                    [x EXCEPT !.seq = counter[x.day], !.pc = "write_bill"]} : Goto(t, s)
    BY <1>10 DEF MintNumber, InsertCounter, Refuse, Ends
  <2>2. UNCHANGED tables /\ x.pc \in PricedPcs
    BY <1>10 DEF MintNumber, InsertCounter, Refuse, Ends, At, PricedPcs
  <2>3. s.call = x.call /\ s.draft = x.draft /\ SameReads(x, s)
    BY <1>0, <2>2 DEF TxType, SameReads
  <2>. QED
    BY <2>1, <2>2, <2>3, GoFields
<1>. QED
  BY <1>1, <1>2, <1>4, <1>5, <1>6, <1>7, <1>8, <1>9, <1>10 DEF FinalizeStep

LEMMA StepKind ==
  ASSUME TypeInv, OwnsInv, NEW t \in Sessions, Steps(t)
  PROVE  Starts(t) \/ Goes(t) \/ Ends(t)
<1>1. CASE CommitReceive(t) \/ Abort(t)
  BY <1>1 DEF CommitReceive, Abort, Refuse, Ends
<1>. QED
  BY <1>1, DraftStepKind, FinalizeStepKind, StartFields DEF Steps, ReceiveStep
\* The lock a step may take.
Takes(t, k) ==
  \/ /\ At(t, "create_draft") /\ k = ForUpdate(OpenDraftKey(tx[t].call.chat))
     /\ OpenDrafts(tx[t].call.chat) = {}
  \/ LockProduct(t) /\ k = ForUpdate(ProductRow(First(tx[t].todo)))
  \/ LockBatch(t) /\ k = ForUpdate(BatchRow(First(tx[t].todo)))
  \/ (MintNumber(t) \/ InsertCounter(t)) /\ k.row[1] = "counter"
  \/ k.row[1] \in {"draft", "customer"}
  \/ k.row[1] = "product" /\ k.mode = "share"

LEMMA LocksTaken ==
  ASSUME TypeInv, NEW t \in Sessions, Steps(t), NEW k \in held'[t], k \notin held[t]
  PROVE  Takes(t, k)
<1>0. ASSUME held' = held PROVE FALSE
  BY <1>0
<1>1. ASSUME NEW a, Finish(t, a) PROVE FALSE
  BY <1>1 DEF Finish, TypeInv, SessionInv
<1>2. ASSUME NEW lock, Take(t, lock) PROVE k = lock
  BY <1>2, MovedTo
<1>3. CASE DraftStep(t)
  <2>1. CASE CreateDraft(t)
    BY <1>1, <1>2, <2>1 DEF CreateDraft, Refuse, CommitNewDraft, OpenDraftExists, Takes
  <2>2. CASE ShareDraft(t)
    BY <1>2, <2>2, RowKinds DEF ShareDraft, Takes
  <2>3. CASE ShareProduct(t)
    <3>1. k = ForShare(ProductRow(tx[t].call.product))
      BY <1>2, <2>3 DEF ShareProduct
    <3>2. k.mode = "share" /\ k.row[1] = "product"
      BY <3>1, RowKinds DEF ForShare
    <3>. QED
      BY <3>2 DEF Takes
  <2>4. CASE ReadOpenDraft(t) \/ MissOpenDraft(t) \/ ReadLine(t) \/ InsertLine(t) \/ UpdateLine(t)
               \/ DeleteLine(t)
    BY <1>0, <1>1, <2>4 DEF ReadOpenDraft, MissOpenDraft, ReadLine, InsertLine, UpdateLine,
       DeleteLine, SetLine, CommitNewDraft, Refuse
  <2>. QED
    BY <1>3, <2>1, <2>2, <2>3, <2>4 DEF DraftStep
<1>4. CASE FinalizeStep(t)
  <2>1. CASE LockDraft(t) \/ LockCustomer(t)
    BY <1>1, <1>2, <2>1, RowKinds DEF LockDraft, LockCustomer, Refuse, Takes
  <2>2. CASE LockProduct(t) \/ LockBatch(t)
    BY <1>2, <2>2 DEF LockProduct, LockBatch, Takes
  <2>3. CASE MintNumber(t) \/ InsertCounter(t)
    <3>1. k = ForUpdate(CounterRow(tx[t].day))
      BY <1>0, <1>1, <1>2, <2>3 DEF MintNumber, InsertCounter, Refuse
    <3>. QED
      BY <2>3, <3>1, RowKinds DEF Takes
  <2>4. CASE AnswerAtOnce(t) \/ BeginFinalize(t) \/ LoadLines(t) \/ CheckCost(t) \/ CheckStock(t)
    BY <1>0, <1>1, <2>4 DEF AnswerAtOnce, BeginFinalize, LoadLines, CheckCost, CheckStock, Refuse
  <2>5. CASE CommitBill(t)
    BY <1>1, <2>5 DEF CommitBill, Refuse
  <2>. QED
    BY <1>4, <2>1, <2>2, <2>3, <2>4, <2>5 DEF FinalizeStep
<1>5. CASE ReceiveStep(t) \/ Abort(t)
  BY <1>0, <1>1, <1>5 DEF ReceiveStep, BeginReceive, CommitReceive, Abort, Refuse
<1>. QED
  BY <1>3, <1>4, <1>5 DEF Steps

-----------------------------------------------------------------------------
(* What the commits write                                                    *)

\* Every table but draft_lines, which no invariant here reads.
stock == <<drafts, bills, batches, quantity, ledger, counter, khata>>

Creates(t) ==
  /\ ForUpdate(OpenDraftKey(tx[t].call.chat)) \in held[t]
       \/ CanLock(t, ForUpdate(OpenDraftKey(tx[t].call.chat)))
  /\ OpenDrafts(tx[t].call.chat) = {}
  /\ drafts' = Append(drafts, NewDraft(tx[t].call.chat))
  /\ UNCHANGED <<bills, batches, quantity, ledger, counter, khata>>

Bills(t) ==
  /\ At(t, "write_bill") /\ CommitBill(t) /\ ~Refuse(t, "error")

LEMMA EndKind ==
  ASSUME TypeInv, OwnsInv, DraftsInv, NEW t \in Sessions, Steps(t), Ends(t)
  PROVE  UNCHANGED stock \/ Creates(t) \/ Bills(t) \/ CommitReceive(t)
<1>0. ASSUME UNCHANGED tables PROVE UNCHANGED stock
  BY <1>0 DEF tables, stock
<1>1. CASE CreateDraft(t)
  BY <1>0, <1>1 DEF CreateDraft, Refuse, OpenDraftExists, CommitNewDraft, Creates
<1>2. CASE InsertLine(t)
  <2>1. CASE tx[t].draft = 0
    <3>1. ForUpdate(OpenDraftKey(tx[t].call.chat)) \in held[t]
      BY <1>2, <2>1 DEF InsertLine, At, Created, OwnsInv, OwnsOfPc, OwnsDraft
    <3>2. OpenDrafts(tx[t].call.chat) = {}
      <4>1. ForUpdate(OpenDraftKey(tx[t].call.chat)).row = <<"open_draft", tx[t].call.chat>>
        BY DEF ForUpdate, OpenDraftKey
      <4>. QED
        BY <3>1, <4>1 DEF DraftsInv
    <3>. QED
      BY <1>2, <2>1, <3>1, <3>2 DEF InsertLine, CommitNewDraft, Creates
  <2>2. CASE tx[t].draft # 0
    BY <1>0, <1>2, <2>2 DEF InsertLine, Refuse, SetLine, stock
  <2>. QED
    BY <2>1, <2>2
<1>3. CASE UpdateLine(t) \/ DeleteLine(t)
  BY <1>0, <1>3 DEF UpdateLine, DeleteLine, Refuse, SetLine, stock
<1>4. CASE CommitBill(t)
  BY <1>0, <1>4 DEF CommitBill, Refuse, Bills
<1>5. CASE Starts(t) \/ Goes(t)
  BY <1>0, <1>5 DEF Starts, Goes
<1>6. CASE Abort(t)
  BY <1>0, <1>6 DEF Abort, Refuse
<1>7. CASE ReadLine(t) \/ ShareDraft(t) \/ ShareProduct(t) \/ LockDraft(t) \/ LoadLines(t)
             \/ LockProduct(t) \/ LockCustomer(t) \/ CheckCost(t) \/ LockBatch(t)
  BY <1>0, <1>7 DEF ReadLine, ShareDraft, ShareProduct, LockDraft, LoadLines, LockProduct,
     LockCustomer, CheckCost, LockBatch, Refuse
<1>8. CASE CheckStock(t) \/ MintNumber(t) \/ InsertCounter(t)
  BY <1>0, <1>8 DEF CheckStock, MintNumber, InsertCounter, Refuse
<1>9. CASE ReadOpenDraft(t) \/ MissOpenDraft(t) \/ AnswerAtOnce(t) \/ BeginFinalize(t) \/ BeginReceive(t)
  BY <1>5, <1>9, StartFields
<1>. QED
  BY <1>1, <1>2, <1>3, <1>4, <1>6, <1>7, <1>8, <1>9 DEF Steps, DraftStep, FinalizeStep, ReceiveStep

\* The rows a Bill writes.
LEMMA BillWrites ==
  ASSUME TypeInv, NEW t \in Sessions, Bills(t)
  PROVE  /\ tx[t] \in TxType /\ tx[t].pc = "write_bill" /\ tx[t].call.op = "finalize"
         /\ tx[t].draft \in 1..Len(drafts)
         /\ ~Duplicate(NewBill(tx[t]))
         /\ bills' = Append(bills, NewBill(tx[t]))
         /\ drafts' = [drafts EXCEPT ![tx[t].draft].status = "finalized",
                                     ![tx[t].draft].bill = Len(bills) + 1]
         /\ counter' = [counter EXCEPT ![tx[t].day] = tx[t].seq + 1]
         /\ khata' = khata \o Charge(tx[t], NewBill(tx[t]), Len(bills) + 1)
         /\ NewBill(tx[t]).mode = "khata" => NewBill(tx[t]).total # 0
         /\ held'[t] = {} /\ tx'[t].pc = "idle"
<1>1. /\ tx[t] \in TxType /\ tx[t].pc = "write_bill"
      /\ CallOfPc(tx[t]) /\ RowsOfPc(tx[t], Len(drafts), Len(batches))
  BY OneSession DEF Bills, At
<1>2. tx[t].call.op = "finalize" /\ tx[t].draft \in 1..Len(drafts)
  BY <1>1 DEF CallOfPc, RowsOfPc, FinalizePcs
<1>3. /\ ~Duplicate(NewBill(tx[t])) /\ Finish(t, "ok")
      /\ NewBill(tx[t]).mode = "khata" => NewBill(tx[t]).total # 0
      /\ bills' = Append(bills, NewBill(tx[t]))
      /\ drafts' = [drafts EXCEPT ![tx[t].draft].status = "finalized",
                                  ![tx[t].draft].bill = Len(bills) + 1]
      /\ counter' = [counter EXCEPT ![tx[t].day] = tx[t].seq + 1]
      /\ khata' = khata \o Charge(tx[t], NewBill(tx[t]), Len(bills) + 1)
  BY DEF Bills, CommitBill
<1>4. held'[t] = {} /\ tx'[t].pc = "idle"
  BY <1>3 DEF Finish, Goto, Idle, TypeInv, SessionInv
<1>. QED
  BY <1>1, <1>2, <1>3, <1>4

\* The drafts and the Bill, typed.
LEMMA NewBillFields ==
  ASSUME TypeInv, NEW t \in Sessions, Bills(t)
  PROVE  LET bill == NewBill(tx[t])
         IN  /\ bill.draft = tx[t].draft /\ bill.chat = tx[t].call.chat
             /\ bill.invoice = <<tx[t].day, tx[t].seq + 1>> /\ bill.mode = tx[t].call.mode
             /\ bill.lines = tx[t].lines
BY DEF NewBill
-----------------------------------------------------------------------------
(* Draft Bills                                                               *)

\* Of the Draft Bills, a Bill only closes one and opens none.
LEMMA BillCloses ==
  ASSUME TypeInv, NEW t \in Sessions, Bills(t)
  PROVE  /\ Len(drafts') = Len(drafts)
         /\ \A d \in 1..Len(drafts) :
              /\ drafts'[d].chat = drafts[d].chat
              /\ drafts'[d].status = IF d = tx[t].draft THEN "finalized" ELSE drafts[d].status
              /\ drafts'[d].bill = IF d = tx[t].draft THEN Len(bills) + 1 ELSE drafts[d].bill
<1>1. drafts \in Seq(DraftType) /\ tx[t].draft \in 1..Len(drafts)
  BY BillWrites DEF TypeInv, Tables
<1>2. \A d \in 1..Len(drafts) : drafts[d] \in DraftType
  BY <1>1
<1> DEFINE e == tx[t].draft
           new == [drafts[e] EXCEPT !.status = "finalized", !.bill = Len(bills) + 1]
<1>3. drafts' = [drafts EXCEPT ![e] = new]
  BY <1>1, BillWrites
<1>4. new.chat = drafts[e].chat /\ new.status = "finalized" /\ new.bill = Len(bills) + 1
  BY <1>1, <1>2 DEF DraftType
<1> HIDE DEF new
<1>. QED
  BY <1>1, <1>3, <1>4

LEMMA CreateOpens ==
  ASSUME TypeInv, NEW t \in Sessions, Creates(t)
  PROVE  /\ Len(drafts) \in Nat /\ Len(drafts') = Len(drafts) + 1
         /\ \A d \in 1..Len(drafts) : drafts'[d] = drafts[d]
         /\ drafts'[Len(drafts) + 1].chat = tx[t].call.chat
         /\ drafts'[Len(drafts) + 1].status = "open"
<1>1. Len(drafts) \in Nat /\ drafts \in Seq(DraftType)
  BY DEF TypeInv, Tables
<1>. QED
  BY <1>1 DEF Creates, NewDraft

LEMMA DraftsStep ==
  ASSUME TypeInv, OwnsInv, LocksExclude, DraftsInv, NEW t \in Sessions, Steps(t)
  PROVE  DraftsInv'
<1>0. Len(drafts) \in Nat /\ \A u \in Sessions \ {t} : held'[u] = held[u]
  BY OthersStill DEF TypeInv, Tables, Still
<1>1. ASSUME drafts' = drafts PROVE DraftsInv'
  <2>1. /\ \A c : OpenDrafts(c)' = OpenDrafts(c)
        /\ \A d, e \in 1..Len(drafts)' : BothOpen(d, e)' => d = e
    BY <1>1 DEF OpenDrafts, DraftsInv, BothOpen
  <2>2. ASSUME NEW u \in Sessions, NEW k \in held'[u], k.row[1] = "open_draft"
        PROVE  OpenDrafts(k.row[2]) = {}
    <3>1. CASE k \in held[u]
      BY <2>2, <3>1 DEF DraftsInv
    <3>2. CASE k \notin held[u]
      <4>1. u = t /\ Takes(t, k)
        BY <1>0, <2>2, <3>2, LocksTaken
      <4>2. k = ForUpdate(OpenDraftKey(tx[t].call.chat)) /\ OpenDrafts(tx[t].call.chat) = {}
        BY <2>2, <4>1, RowKinds DEF Takes
      <4>3. k.row[2] = tx[t].call.chat
        BY <4>2 DEF ForUpdate, OpenDraftKey
      <4>. QED
        BY <4>2, <4>3
    <3>. QED
      BY <3>1, <3>2
  <2>. QED
    BY <2>1, <2>2 DEF DraftsInv
<1>2. CASE Starts(t) \/ Goes(t)
  BY <1>1, <1>2 DEF Starts, Goes, tables
<1>3. CASE UNCHANGED stock \/ CommitReceive(t)
  BY <1>1, <1>3 DEF stock, CommitReceive
<1>4. CASE Creates(t) /\ Ends(t)
  <2> DEFINE chat == tx[t].call.chat
             n == Len(drafts)
  <2>0. /\ n \in Nat /\ Len(drafts') = n + 1 /\ \A d \in 1..n : drafts'[d] = drafts[d]
        /\ drafts'[n + 1].chat = chat
    <3>1. Creates(t)
      BY <1>4
    <3>. QED
      BY <3>1, CreateOpens
  <2>1. held'[t] = {}
    BY <1>4, FinishOwns DEF Ends
  <2>2. ASSUME NEW d \in 1..Len(drafts'), NEW e \in 1..Len(drafts'), BothOpen(d, e)'
        PROVE  d = e
    <3>1. ASSUME NEW a \in 1..n, drafts'[a].chat = chat, drafts'[a].status = "open"
          PROVE  FALSE
      BY <1>4, <3>1, CreateOpens DEF Creates, OpenDrafts
    <3>2. CASE d \in 1..n /\ e \in 1..n
      BY <1>4, <2>2, <3>2, CreateOpens DEF BothOpen, DraftsInv
    <3>3. (d \in 1..n \/ d = n + 1) /\ (e \in 1..n \/ e = n + 1)
      BY <2>0
    <3>. QED
      BY <2>0, <2>2, <3>1, <3>2, <3>3 DEF BothOpen
  <2>3. ASSUME NEW u \in Sessions, NEW k \in held'[u], k.row[1] = "open_draft"
        PROVE  OpenDrafts(k.row[2])' = {}
    <3>1. u # t /\ k \in held[u] /\ OpenDrafts(k.row[2]) = {}
      BY <1>0, <2>1, <2>3 DEF DraftsInv
    <3>2. k.row[2] # chat
      <4>1. SUFFICES ASSUME k.row[2] = chat PROVE FALSE
        OBVIOUS
      <4>2. k.row = ForUpdate(OpenDraftKey(chat)).row
        <5>1. k \in LockType
          BY <3>1, OneSession
        <5>2. k.row = <<k.row[1], k.row[2]>>
          BY <5>1 DEF LockType, RowType
        <5>. QED
          BY <2>3, <4>1, <5>2 DEF ForUpdate, OpenDraftKey
      <4>3. ForUpdate(OpenDraftKey(chat)).mode = "update"
        BY DEF ForUpdate
      <4>4. CASE ForUpdate(OpenDraftKey(chat)) \in held[t]
        BY <3>1, <4>2, <4>3, <4>4 DEF LocksExclude
      <4>5. CASE CanLock(t, ForUpdate(OpenDraftKey(chat)))
        BY <3>1, <4>2, <4>3, <4>5 DEF CanLock, Conflict
      <4>. QED
        BY <1>4, <4>4, <4>5 DEF Creates
    <3>3. ASSUME NEW d \in 1..Len(drafts'), drafts'[d].chat = k.row[2], drafts'[d].status = "open"
          PROVE  FALSE
      <4>1. d \in 1..n \/ d = n + 1
        BY <2>0
      <4>2. d \in 1..n
        BY <2>0, <3>2, <3>3, <4>1
      <4>3. d \in OpenDrafts(k.row[2])
        BY <1>4, <3>3, <4>2, CreateOpens DEF OpenDrafts
      <4>. QED
        BY <3>1, <4>3
    <3>. QED
      BY <3>3 DEF OpenDrafts
  <2>. QED
    BY <2>2, <2>3 DEF DraftsInv
<1>5. CASE Bills(t)
  <2>1. \A d, e \in 1..Len(drafts)' : BothOpen(d, e)' => d = e
    BY <1>5, BillCloses DEF BothOpen, DraftsInv
  <2>2. \A c : OpenDrafts(c)' \subseteq OpenDrafts(c)
    BY <1>5, BillCloses DEF OpenDrafts
  <2>3. \A u \in Sessions : held'[u] \subseteq held[u]
    BY <1>0, <1>5, BillWrites
  <2>. QED
    BY <2>1, <2>2, <2>3 DEF DraftsInv
<1>. QED
  BY <1>2, <1>3, <1>4, <1>5, StepKind, EndKind

LEMMA DraftsNext == TypeInv /\ OwnsInv /\ LocksExclude /\ DraftsInv /\ [Next]_vars => DraftsInv'
<1> SUFFICES ASSUME TypeInv, OwnsInv, LocksExclude, DraftsInv, [Next]_vars PROVE DraftsInv'
  OBVIOUS
<1>1. CASE (\A u \in Sessions : Still(u)) /\ UNCHANGED tables
  BY <1>1 DEF Still, tables, DraftsInv, OpenDrafts, BothOpen
<1>2. CASE \E t \in Sessions : Steps(t)
  BY <1>2, DraftsStep
<1>. QED
  BY <1>1, <1>2, Movers

LEMMA OneOpenDraftHolds == TypeInv /\ DraftsInv => OneOpenDraft
<1> SUFFICES ASSUME TypeInv, DraftsInv, NEW c \in Chats PROVE Cardinality(OpenDrafts(c)) <= 1
  BY DEF OneOpenDraft
<1>1. CASE OpenDrafts(c) = {}
  BY <1>1, FS_EmptySet
<1>2. CASE OpenDrafts(c) # {}
  <2>1. PICK d : OpenDrafts(c) = {d}
    <3>1. PICK d \in OpenDrafts(c) : TRUE
      BY <1>2
    <3>2. \A e \in OpenDrafts(c) : e = d
      BY <3>1 DEF OpenDrafts, DraftsInv, BothOpen
    <3>. QED
      BY <3>1, <3>2
  <2>2. Cardinality({d}) = 1
    BY FS_Singleton
  <2>. QED
    BY <2>1, <2>2
<1>. QED
  BY <1>1, <1>2
LEMMA EndsIdle ==
  ASSUME TypeInv, NEW t \in Sessions, Ends(t)
  PROVE  tx'[t].pc = "idle" /\ tx'[t].call.op = "none" /\ held'[t] = {}
<1>1. PICK a : Goto(t, Idle(a)) /\ held' = [held EXCEPT ![t] = {}]
  BY DEF Ends, Finish
<1>2. Idle(a).pc = "idle" /\ Idle(a).call.op = "none"
  BY DEF Idle, NoCall
<1>3. tx'[t] = Idle(a)
  BY <1>1, MovedTo
<1>. QED
  BY <1>1, <1>2, <1>3 DEF TypeInv, SessionInv

LEMMA FinalizingDraft ==
  ASSUME TypeInv, NEW u \in Sessions, Op(u) = "finalize"
  PROVE  tx[u].draft \in 1..Len(drafts)
BY OneSession DEF Op, RowsOfPc

\* Every step but a commit leaves the tables that matter here alone.
LEMMA StockKind ==
  ASSUME TypeInv, OwnsInv, DraftsInv, NEW t \in Sessions, Steps(t)
  PROVE  UNCHANGED stock \/ (Ends(t) /\ (Creates(t) \/ Bills(t) \/ CommitReceive(t)))
<1>1. CASE Starts(t) \/ Goes(t)
  BY <1>1 DEF Starts, Goes, tables, stock
<1>2. CASE Ends(t)
  BY <1>2, EndKind
<1>. QED
  BY <1>1, <1>2, StepKind

LEMMA ChatsStep ==
  ASSUME TypeInv, OwnsInv, DraftsInv, ChatsInv, NEW t \in Sessions, Steps(t)
  PROVE  ChatsInv'
<1> SUFFICES ASSUME NEW u \in Sessions, tx'[u].call.op = "finalize"
             PROVE  drafts'[tx'[u].draft].chat = tx'[u].call.chat
  BY DEF ChatsInv, Op
<1>1. ASSUME NEW d \in 1..Len(drafts) PROVE drafts'[d].chat = drafts[d].chat
  <2>1. CASE UNCHANGED stock \/ CommitReceive(t)
    BY <2>1 DEF stock, CommitReceive
  <2>2. CASE Creates(t)
    BY <2>2, CreateOpens
  <2>3. CASE Bills(t)
    BY <2>3, BillCloses
  <2>. QED
    BY <2>1, <2>2, <2>3, StockKind
<1>2. CASE tx'[u].call = tx[u].call /\ tx'[u].draft = tx[u].draft
  <2>1. Op(u) = "finalize"
    BY <1>2 DEF Op
  <2>2. tx[u].draft \in 1..Len(drafts) /\ drafts[tx[u].draft].chat = tx[u].call.chat
    BY <2>1, FinalizingDraft DEF ChatsInv
  <2>. QED
    BY <1>1, <1>2, <2>2
<1>3. CASE u # t
  BY <1>2, <1>3, OthersStill DEF Still
<1>4. CASE u = t
  <2>1. CASE Starts(t)
    BY <1>4, <2>1 DEF Starts, OpenDrafts, tables
  <2>2. CASE Goes(t)
    BY <1>2, <1>4, <2>2 DEF Goes
  <2>3. CASE Ends(t)
    BY <1>4, <2>3, EndsIdle
  <2>. QED
    BY <2>1, <2>2, <2>3, StepKind
<1>. QED
  BY <1>3, <1>4

\* The Bill a commit appends, beside those there were.
LEMMA BillAppended ==
  ASSUME TypeInv, NEW t \in Sessions, Bills(t)
  PROVE  /\ Len(bills) \in Nat /\ Len(bills') = Len(bills) + 1
         /\ \A b \in 1..Len(bills) : bills'[b] = bills[b] /\ bills[b].draft # tx[t].draft
         /\ bills'[Len(bills) + 1] = NewBill(tx[t])
<1>1. Len(bills) \in Nat /\ bills \in Seq(BillType)
  BY DEF TypeInv, Tables
<1>2. bills' = Append(bills, NewBill(tx[t])) /\ ~Duplicate(NewBill(tx[t]))
  BY BillWrites
<1>3. NewBill(tx[t]).draft = tx[t].draft
  BY DEF NewBill
<1>. QED
  BY <1>1, <1>2, <1>3 DEF Duplicate

LEMMA MatchStep ==
  ASSUME TypeInv, OwnsInv, DraftsInv, ChatsInv, BillsMatchDrafts, NEW t \in Sessions, Steps(t)
  PROVE  BillsMatchDrafts'
<1>1. CASE UNCHANGED stock \/ CommitReceive(t)
  BY <1>1 DEF stock, CommitReceive, BillsMatchDrafts
<1>2. CASE Creates(t)
  <2> DEFINE n == Len(drafts)
  <2>0. /\ n \in Nat /\ Len(drafts') = n + 1 /\ \A d \in 1..n : drafts'[d] = drafts[d]
    <3>1. Creates(t)
      BY <1>2
    <3>. QED
      BY <3>1, CreateOpens
  <2>1. bills' = bills /\ drafts'[n + 1].status = "open"
    <3>1. Creates(t)
      BY <1>2
    <3>. QED
      BY <3>1, CreateOpens DEF Creates
  <2>2. \A b \in 1..Len(bills) :
          bills[b].draft \in 1..n /\ drafts[bills[b].draft].bill = b
            /\ drafts[bills[b].draft].chat = bills[b].chat
    BY DEF BillsMatchDrafts
  <2>3. \A d \in 1..n : (drafts[d].status = "finalized") <=> \E b \in 1..Len(bills) : bills[b].draft = d
    BY DEF BillsMatchDrafts
  <2> HIDE DEF n
  <2>4. ASSUME NEW d \in 1..(n + 1)
        PROVE  (drafts'[d].status = "finalized") <=> \E b \in 1..Len(bills) : bills[b].draft = d
    <3>1. CASE d \in 1..n
      BY <2>0, <2>3, <3>1
    <3>2. CASE d = n + 1
      <4>1. n + 1 \notin 1..n
        BY <2>0
      <4>. QED
        BY <2>1, <2>2, <3>2, <4>1
    <3>. QED
      BY <2>0, <3>1, <3>2
  <2>5. \A b \in 1..Len(bills) : bills[b].draft \in 1..(n + 1)
    BY <2>0, <2>2
  <2>6. \A b \in 1..Len(bills') :
          /\ bills'[b].draft \in 1..Len(drafts')
          /\ drafts'[bills'[b].draft].bill = b
          /\ drafts'[bills'[b].draft].chat = bills'[b].chat
    BY <2>0, <2>1, <2>2, <2>5
  <2>7. \A d \in 1..Len(drafts') :
          (drafts'[d].status = "finalized") <=> \E b \in 1..Len(bills') : bills'[b].draft = d
    BY <2>0, <2>1, <2>4
  <2>. QED
    BY <2>6, <2>7 DEF BillsMatchDrafts
<1>3. CASE Bills(t)
  <2> DEFINE n == Len(drafts)
             m == Len(bills)
             e == tx[t].draft
  <2>1. /\ e \in 1..n /\ drafts[e].chat = tx[t].call.chat
    <3>1. Op(t) = "finalize" /\ e \in 1..n
      BY <1>3, BillWrites DEF Op
    <3>. QED
      BY <3>1 DEF ChatsInv
  <2>2. /\ m \in Nat /\ Len(bills') = m + 1
        /\ \A b \in 1..m : bills'[b] = bills[b] /\ bills[b].draft # e
        /\ bills'[m + 1].draft = e /\ bills'[m + 1].chat = tx[t].call.chat
    BY <1>3, BillAppended, NewBillFields
  <2>3. /\ Len(drafts') = n
        /\ \A d \in 1..n :
             /\ drafts'[d].chat = drafts[d].chat
             /\ drafts'[d].status = IF d = e THEN "finalized" ELSE drafts[d].status
             /\ drafts'[d].bill = IF d = e THEN m + 1 ELSE drafts[d].bill
    BY <1>3, BillCloses
  <2>4. /\ \A b \in 1..m : bills[b].draft \in 1..n /\ drafts[bills[b].draft].bill = b
                             /\ drafts[bills[b].draft].chat = bills[b].chat
        /\ \A d \in 1..n : (drafts[d].status = "finalized") <=> \E b \in 1..m : bills[b].draft = d
    BY DEF BillsMatchDrafts
  <2> HIDE DEF n, m, e
  <2>5. ASSUME NEW b \in 1..(m + 1)
        PROVE  /\ bills'[b].draft \in 1..n /\ drafts'[bills'[b].draft].bill = b
               /\ drafts'[bills'[b].draft].chat = bills'[b].chat
    <3>1. CASE b \in 1..m
      BY <2>2, <2>3, <2>4, <3>1
    <3>2. CASE b = m + 1
      BY <2>1, <2>2, <2>3, <3>2
    <3>. QED
      BY <2>2, <3>1, <3>2
  <2>6. ASSUME NEW d \in 1..n
        PROVE  (drafts'[d].status = "finalized") <=> \E b \in 1..(m + 1) : bills'[b].draft = d
    <3>1. CASE d = e
      <4>1. m + 1 \in 1..(m + 1)
        BY <2>2
      <4>. QED
        BY <2>2, <2>3, <3>1, <4>1
    <3>2. CASE d # e
      <4>1. \A b \in 1..(m + 1) : b \in 1..m \/ b = m + 1
        BY <2>2
      <4>2. \A b \in 1..m : b \in 1..(m + 1)
        BY <2>2
      <4>. QED
        BY <2>2, <2>3, <2>4, <3>2, <4>1, <4>2
    <3>. QED
      BY <3>1, <3>2
  <2>. QED
    BY <2>2, <2>3, <2>5, <2>6 DEF BillsMatchDrafts
<1>. QED
  BY <1>1, <1>2, <1>3, StockKind

-----------------------------------------------------------------------------
(* Invoice numbers                                                           *)

\* Two sessions never hold the same counter row.
LEMMA CounterExclusive ==
  ASSUME LocksExclude, NEW t \in Sessions, NEW u \in Sessions, t # u, NEW day, NEW other,
         ForUpdate(CounterRow(day)) \in held[t], ForUpdate(CounterRow(other)) \in held[u]
  PROVE  day # other
<1> DEFINE k == ForUpdate(CounterRow(day))
           l == ForUpdate(CounterRow(other))
<1>1. k.mode = "update" /\ (day = other => k.row = l.row)
  BY DEF ForUpdate
<1>. QED
  BY <1>1 DEF LocksExclude

LEMMA WriteBillEnds ==
  ASSUME TypeInv, NEW t \in Sessions, tx[t].pc = "write_bill", Steps(t)
  PROVE  Ends(t)
<1>1. CASE CommitBill(t) \/ Abort(t)
  BY <1>1 DEF CommitBill, Abort, Refuse, Ends
<1>2. ASSUME DraftStep(t) PROVE FALSE
  BY <1>2 DEF DraftStep, ReadOpenDraft, MissOpenDraft, CreateDraft, ReadLine, ShareDraft, ShareProduct,
     InsertLine, UpdateLine, DeleteLine, At
<1>3. ASSUME FinalizeStep(t), ~CommitBill(t) PROVE FALSE
  BY <1>3 DEF FinalizeStep, AnswerAtOnce, BeginFinalize, LockDraft, LoadLines, LockProduct,
     LockCustomer, CheckCost, LockBatch, CheckStock, MintNumber, InsertCounter, At
<1>4. ASSUME ReceiveStep(t) PROVE FALSE
  BY <1>4 DEF ReceiveStep, BeginReceive, CommitReceive, At
<1>. QED
  BY <1>1, <1>2, <1>3, <1>4 DEF Steps

LEMMA SeqStep ==
  ASSUME TypeInv, OrderInv, OwnsInv, OwnsInv', LocksExclude, DraftsInv, SeqInv, NEW t \in Sessions, Steps(t)
  PROVE  SeqInv'
<1> SUFFICES ASSUME NEW u \in Sessions, tx'[u].pc = "write_bill"
             PROVE  tx'[u].seq = counter'[tx'[u].day]
  BY DEF SeqInv, At
<1>1. CASE u # t
  <2>1. tx'[u] = tx[u] /\ held'[u] = held[u] /\ tx[u].seq = counter[tx[u].day]
    BY <1>1, OthersStill DEF Still, SeqInv, At
  <2>2. ForUpdate(CounterRow(tx[u].day)) \in held[u] /\ tx[u] \in TxType
    BY <2>1, OneSession DEF OwnsInv, OwnsOfPc, OwnsCounter
  <2>3. CASE Bills(t)
    <3>1. /\ tx[t].pc = "write_bill" /\ counter' = [counter EXCEPT ![tx[t].day] = tx[t].seq + 1]
      BY <2>3, BillWrites
    <3>2. ForUpdate(CounterRow(tx[t].day)) \in held[t]
      BY <3>1 DEF OwnsInv, OwnsOfPc, OwnsCounter
    <3>3. tx[t].day # tx[u].day
      BY <1>1, <2>2, <3>2, CounterExclusive
    <3>4. tx[u].day \in DOMAIN counter
      BY <2>2 DEF TxType, TypeInv, Tables
    <3>. QED
      BY <2>1, <3>1, <3>3, <3>4
  <2>4. CASE counter' = counter
    BY <2>1, <2>4
  <2>. QED
    BY <2>3, <2>4, StockKind DEF stock, Creates, CommitReceive
<1>2. CASE u = t
  <2>0. ForUpdate(CounterRow(tx'[t].day)) \in held'[t]
    BY <1>2 DEF OwnsInv, OwnsOfPc, OwnsCounter
  <2> DEFINE x == tx[t]
             k == ForUpdate(CounterRow(tx'[t].day))
  <2>1. k.row[1] = "counter"
    BY RowKinds
  <2>2. x \in TxType /\ OwnsCounter(x, held[t]) /\ ~Ends(t)
    BY <1>2, OneSession, EndsIdle DEF OwnsInv, OwnsOfPc
  <2>3. k \notin held[t]
    <3>1. SUFFICES ASSUME k \in held[t] PROVE FALSE
      OBVIOUS
    <3>2. Level["counter"] <= HeldLevel[x.pc]
      BY <2>1, <3>1 DEF OrderInv, LocksOfPc
    <3>3. x.pc = "write_bill"
      BY <2>2, <3>2, Levels, HeldLevels DEF TxType, PcNames
    <3>. QED
      BY <2>2, <3>3, WriteBillEnds
  <2> HIDE DEF k
  <2>4. MintNumber(t) \/ InsertCounter(t)
    BY <2>0, <2>1, <2>3, LocksTaken, RowKinds DEF Takes, k
  <2>5. CASE MintNumber(t)
    <3> DEFINE s == [x EXCEPT !.seq = counter[x.day], !.pc = "write_bill"]
    <3>1. held' = held \/ Goto(t, s)
      BY <2>5 DEF MintNumber
    <3>2. Goto(t, s) /\ counter' = counter
      BY <2>0, <2>3, <2>5, <3>1 DEF MintNumber, tables, k
    <3>3. s.seq = counter[x.day] /\ s.day = x.day
      BY <2>2 DEF TxType
    <3>4. tx'[t] = s
      BY <3>2, MovedTo
    <3>. QED
      BY <1>2, <3>2, <3>3, <3>4
  <2>6. CASE InsertCounter(t)
    <3> DEFINE s == [x EXCEPT !.pc = "write_bill"]
    <3>1. Goto(t, s) /\ counter' = counter /\ ~(counter[x.day] > 0) /\ x.pc = "insert_counter"
      BY <2>2, <2>6 DEF InsertCounter, Refuse, Ends, tables, At
    <3>2. s.seq = x.seq /\ s.day = x.day /\ x.day \in Days
      BY <2>2 DEF TxType
    <3>3. x.seq = 0 /\ counter[x.day] = 0
      BY <2>2, <3>1, <3>2 DEF OwnsCounter, TypeInv, Tables
    <3>4. tx'[t] = s
      BY <3>1, MovedTo
    <3>. QED
      BY <1>2, <3>1, <3>2, <3>3, <3>4
  <2>. QED
    BY <2>4, <2>5, <2>6
<1>. QED
  BY <1>1, <1>2

\* The numbers of one day's Bills are 1..n.
Numbered(day, B, n) ==
  LET ofDay == {b \in 1..Len(B) : B[b].invoice[1] = day}
  IN  {B[b].invoice[2] : b \in ofDay} = 1..n /\ Cardinality(ofDay) = n

LEMMA NumberedNext ==
  ASSUME TypeInv, NEW t \in Sessions, Bills(t), NEW day, NEW n \in Nat, Numbered(day, bills, n),
         day = tx[t].day => tx[t].seq = n
  PROVE  Numbered(day, bills', IF day = tx[t].day THEN n + 1 ELSE n)
<1> DEFINE m == Len(bills)
           before == {b \in 1..m : bills[b].invoice[1] = day}
           after  == {b \in 1..Len(bills') : bills'[b].invoice[1] = day}
<1>1. /\ m \in Nat /\ Len(bills') = m + 1 /\ \A b \in 1..m : bills'[b] = bills[b]
      /\ bills'[m + 1].invoice[1] = tx[t].day /\ bills'[m + 1].invoice[2] = tx[t].seq + 1
  <2>1. /\ m \in Nat /\ Len(bills') = m + 1 /\ \A b \in 1..m : bills'[b] = bills[b]
        /\ bills'[m + 1] = NewBill(tx[t])
    BY BillAppended
  <2>2. NewBill(tx[t]).invoice = <<tx[t].day, tx[t].seq + 1>>
    BY NewBillFields
  <2>. QED
    BY <2>1, <2>2
<1>2. {bills[b].invoice[2] : b \in before} = 1..n /\ Cardinality(before) = n
  BY DEF Numbered
<1>3. IsFiniteSet(before) /\ m + 1 \notin before
  <2>1. IsFiniteSet(1..m)
    BY <1>1, FS_Interval
  <2>. QED
    BY <1>1, <2>1, FS_Subset
<1> SUFFICES LET k == IF day = tx[t].day THEN n + 1 ELSE n
             IN  {bills'[b].invoice[2] : b \in after} = 1..k /\ Cardinality(after) = k
  BY DEF Numbered
<1>4. CASE day = tx[t].day
  <2>1. after = before \cup {m + 1}
    BY <1>1, <1>4
  <2>2. \A b \in before : bills'[b] = bills[b]
    BY <1>1
  <2>3. bills'[m + 1].invoice[2] = n + 1
    BY <1>1, <1>4
  <2> HIDE DEF before, after, m
  <2>4. {bills'[b].invoice[2] : b \in after} = (1..n) \cup {n + 1}
    BY <1>2, <2>1, <2>2, <2>3
  <2>5. (1..n) \cup {n + 1} = 1..(n + 1)
    OBVIOUS
  <2>6. Cardinality(after) = n + 1
    BY <1>2, <1>3, <2>1, FS_AddElement
  <2>. QED
    BY <1>4, <2>4, <2>5, <2>6
<1>5. CASE day # tx[t].day
  <2>1. after = before
    BY <1>1, <1>5
  <2>2. \A b \in before : bills'[b] = bills[b]
    BY <1>1
  <2> HIDE DEF before, after, m
  <2>. QED
    BY <1>2, <1>5, <2>1, <2>2
<1>. QED
  BY <1>4, <1>5

LEMMA InvoicesStep ==
  ASSUME TypeInv, OwnsInv, DraftsInv, SeqInv, InvoicesGapFree, NEW t \in Sessions, Steps(t)
  PROVE  InvoicesGapFree'
<1>1. \A day \in Days : Numbered(day, bills, counter[day])
  BY DEF InvoicesGapFree, Numbered
<1>2. SUFFICES ASSUME NEW day \in Days PROVE Numbered(day, bills', counter'[day])
  BY DEF InvoicesGapFree, Numbered
<1>3. CASE UNCHANGED <<bills, counter>>
  BY <1>1, <1>3
<1>4. CASE Bills(t)
  <2>1. /\ counter' = [counter EXCEPT ![tx[t].day] = tx[t].seq + 1] /\ tx[t].pc = "write_bill"
        /\ counter \in [Days -> Nat]
    BY <1>4, BillWrites DEF TypeInv, Tables
  <2>2. tx[t].seq = counter[tx[t].day]
    BY <2>1 DEF SeqInv, At
  <2>3. counter'[day] = IF day = tx[t].day THEN counter[day] + 1 ELSE counter[day]
    BY <2>1, <2>2
  <2>4. counter[day] \in Nat
    BY <2>1
  <2>. QED
    BY <1>1, <1>4, <2>2, <2>3, <2>4, NumberedNext
<1>. QED
  BY <1>3, <1>4, StockKind DEF stock, Creates, CommitReceive
-----------------------------------------------------------------------------
(* Khata                                                                     *)

KhataInv == ChargesInv /\ KhataChargedOnce

LEMMA KhataStep ==
  ASSUME TypeInv, OwnsInv, DraftsInv, KhataInv, NEW t \in Sessions, Steps(t)
  PROVE  KhataInv'
<1>1. CASE UNCHANGED <<bills, khata>>
  BY <1>1 DEF KhataInv, ChargesInv, KhataChargedOnce
<1>2. CASE Bills(t)
  <2> DEFINE m == Len(bills)
             n == Len(khata)
             bill == NewBill(tx[t])
             c == [customer |-> tx[t].call.customer, bill |-> m + 1, amount |-> bill.total]
  <2>1. /\ m \in Nat /\ Len(bills') = m + 1 /\ \A b \in 1..m : bills'[b] = bills[b]
        /\ bills'[m + 1] = bill
    BY <1>2, BillAppended
  <2>2. n \in Nat /\ khata \in Seq(KhataType)
    BY DEF TypeInv, Tables
  <2>3. bill.total \in Nat
    <3>1. tx[t].lines \in [Products -> Nat]
      BY OneSession DEF TxType
    <3>2. BillTotal(tx[t].lines) \in Nat
      BY <3>1, BillTotalTyped
    <3>. QED
      BY <3>2 DEF NewBill
  <2>4. /\ \A e \in 1..n : khata[e].bill \in 1..m
        /\ \A b \in 1..m : Cardinality({e \in 1..n : khata[e].bill = b})
                             = IF bills[b].mode = "khata" THEN 1 ELSE 0
        /\ \A e \in 1..n : khata[e].amount = bills[khata[e].bill].total /\ khata[e].amount > 0
    BY DEF KhataInv, ChargesInv, KhataChargedOnce
  <2>5. CASE bill.mode = "khata"
    <3>1. /\ khata' = khata \o <<c>> /\ bill.total > 0
      <4>1. bill.total # 0 /\ khata' = khata \o Charge(tx[t], bill, m + 1)
        BY <1>2, <2>5, BillWrites
      <4>. QED
        BY <2>3, <2>5, <4>1 DEF Charge
    <3>2. /\ Len(khata') = n + 1 /\ \A e \in 1..n : khata'[e] = khata[e]
          /\ khata'[n + 1] = c
      BY <2>2, <3>1
    <3>3. c.bill = m + 1 /\ c.amount = bill.total
      OBVIOUS
    <3> HIDE DEF m, n, bill, c
    <3>4. ASSUME NEW e \in 1..(n + 1)
          PROVE  /\ khata'[e].bill \in 1..(m + 1)
                 /\ khata'[e].amount = bills'[khata'[e].bill].total /\ khata'[e].amount > 0
      <4>1. CASE e \in 1..n
        BY <2>1, <2>4, <3>2, <4>1
      <4>2. CASE e = n + 1
        BY <2>1, <3>1, <3>2, <3>3, <4>2
      <4>. QED
        BY <2>2, <4>1, <4>2
    <3>5. ASSUME NEW b \in 1..(m + 1)
          PROVE  Cardinality({e \in 1..(n + 1) : khata'[e].bill = b})
                   = IF bills'[b].mode = "khata" THEN 1 ELSE 0
      <4>1. CASE b \in 1..m
        <5>1. b # m + 1
          BY <2>1, <4>1
        <5>2. {e \in 1..(n + 1) : khata'[e].bill = b} = {e \in 1..n : khata[e].bill = b}
          BY <2>2, <3>2, <3>3, <5>1
        <5>. QED
          BY <2>1, <2>4, <4>1, <5>2
      <4>2. CASE b = m + 1
        <5>1. {e \in 1..(n + 1) : khata'[e].bill = b} = {n + 1}
          BY <2>1, <2>2, <2>4, <3>2, <3>3, <4>2
        <5>2. Cardinality({n + 1}) = 1
          BY FS_Singleton
        <5>. QED
          BY <2>1, <2>5, <4>2, <5>1, <5>2
      <4>. QED
        BY <2>1, <4>1, <4>2
    <3>. QED
      BY <2>1, <3>2, <3>4, <3>5 DEF KhataInv, ChargesInv, KhataChargedOnce
  <2>6. CASE bill.mode # "khata"
    <3>1. khata' = khata
      <4>1. khata' = khata \o Charge(tx[t], bill, m + 1)
        BY <1>2, BillWrites
      <4>2. Charge(tx[t], bill, m + 1) = <<>>
        BY <2>6 DEF Charge
      <4>. QED
        BY <2>2, <4>1, <4>2
    <3> HIDE DEF m, n, bill, c
    <3>2. ASSUME NEW e \in 1..n
          PROVE  /\ khata[e].bill \in 1..(m + 1)
                 /\ khata[e].amount = bills'[khata[e].bill].total /\ khata[e].amount > 0
      BY <2>1, <2>4
    <3>3. ASSUME NEW b \in 1..(m + 1)
          PROVE  Cardinality({e \in 1..n : khata[e].bill = b})
                   = IF bills'[b].mode = "khata" THEN 1 ELSE 0
      <4>1. CASE b \in 1..m
        BY <2>1, <2>4, <4>1
      <4>2. CASE b = m + 1
        <5>1. {e \in 1..n : khata[e].bill = b} = {}
          BY <2>1, <2>4, <4>2
        <5>. QED
          BY <2>1, <2>6, <4>2, <5>1, FS_EmptySet
      <4>. QED
        BY <2>1, <4>1, <4>2
    <3>. QED
      BY <2>1, <3>1, <3>2, <3>3 DEF KhataInv, ChargesInv, KhataChargedOnce, n
  <2>. QED
    BY <2>5, <2>6
<1>. QED
  BY <1>1, <1>2, StockKind DEF stock, Creates, CommitReceive

-----------------------------------------------------------------------------
(* Locked reads                                                              *)

\* The Products and Batches whose rows a session has locked.
HasProduct(t, p) == ForUpdate(ProductRow(p)) \in held[t]
HasBatch(t, b)   == ForUpdate(BatchRow(b)) \in held[t]

LEMMA RowsExclusive ==
  ASSUME LocksExclude, NEW t \in Sessions, NEW u \in Sessions, t # u
  PROVE  /\ \A p : ~(HasProduct(t, p) /\ HasProduct(u, p))
         /\ \A b : ~(HasBatch(t, b) /\ HasBatch(u, b))
BY DEF LocksExclude, HasProduct, HasBatch, ForUpdate

\* What a commit may change: rows the transaction holds.
LEMMA BillOwnRows ==
  ASSUME TypeInv, OwnsInv, NEW t \in Sessions, Bills(t)
  PROVE  /\ \A p \in Products : HasProduct(t, p) \/ (tx[t].lines[p] = 0 /\ quantity'[p] = quantity[p])
         /\ \A p \in Products :
              quantity'[p] = IF tx[t].lines[p] > 0 THEN tx[t].qty[p] - tx[t].lines[p] ELSE quantity[p]
         /\ Len(batches') = Len(batches) /\ Len(batches) \in Nat
         /\ \A b \in 1..Len(batches) :
              /\ batches'[b].product = batches[b].product /\ batches'[b].expiry = batches[b].expiry
              /\ Taken(tx[t], b) \in Nat
              /\ Taken(tx[t], b) > 0 => HasBatch(t, b)
              /\ batches'[b].qty = IF Taken(tx[t], b) > 0 THEN tx[t].batch[b] - Taken(tx[t], b)
                                   ELSE batches[b].qty
<1> DEFINE x == tx[t]
<1>1. /\ x \in TxType /\ OwnsProducts(x, held[t]) /\ OwnsBatches(x, held[t])
      /\ x.pc = "write_bill" /\ x.call.op = "finalize"
  BY OneSession, BillWrites DEF OwnsInv, OwnsOfPc
<1>2. /\ batches' = [b \in 1..Len(batches) |->
                       IF Taken(x, b) > 0
                       THEN [batches[b] EXCEPT !.qty = x.batch[b] - Taken(x, b)]
                       ELSE batches[b]]
      /\ quantity' = [p \in Products |->
                       IF x.lines[p] > 0 THEN x.qty[p] - x.lines[p] ELSE quantity[p]]
  BY DEF Bills, CommitBill
<1>3. \A p \in Products : x.lines[p] \in Nat
  BY <1>1 DEF TxType
<1>4. \A p \in Products : HasProduct(t, p) \/ (x.lines[p] = 0 /\ quantity'[p] = quantity[p])
  BY <1>1, <1>2, <1>3 DEF OwnsProducts, HasProduct, SellingPcs, PricedPcs
<1>5. Len(batches) \in Nat /\ Len(batches) <= MaxBatches /\ batches \in Seq(BatchType)
  BY OneSession DEF TypeInv, Tables
<1>6. Len(batches') = Len(batches)
  BY <1>2, <1>5
<1>7. ASSUME NEW b \in 1..Len(batches)
      PROVE  /\ batches'[b].product = batches[b].product /\ batches'[b].expiry = batches[b].expiry
             /\ Taken(x, b) \in Nat
             /\ Taken(x, b) > 0 => HasBatch(t, b)
             /\ batches'[b].qty = IF Taken(x, b) > 0 THEN x.batch[b] - Taken(x, b) ELSE batches[b].qty
  <2>1. Taken(x, b) \in Nat /\ x.batch[b] \in Nat /\ Taken(x, b) <= x.batch[b]
    BY <1>1, TakenBounds
  <2>2. b \in BatchIds
    BY <1>5, BillingAssumption DEF BatchIds
  <2>3. Taken(x, b) > 0 => HasBatch(t, b)
    BY <1>1, <2>1, <2>2 DEF OwnsBatches, HasBatch
  <2>4. batches[b] \in BatchType
    BY <1>5
  <2> DEFINE left == x.batch[b] - Taken(x, b)
             row == [batches[b] EXCEPT !.qty = left]
  <2>5. batches'[b] = IF Taken(x, b) > 0 THEN row ELSE batches[b]
    BY <1>2
  <2>6. row.product = batches[b].product /\ row.expiry = batches[b].expiry /\ row.qty = left
    BY <2>4 DEF BatchType
  <2> HIDE DEF row
  <2>. QED
    BY <2>1, <2>3, <2>5, <2>6
<1>. QED
  BY <1>2, <1>4, <1>5, <1>6, <1>7

LEMMA ReceiveOwnRows ==
  ASSUME TypeInv, OwnsInv, NEW t \in Sessions, CommitReceive(t)
  PROVE  LET call == tx[t].call
         IN  /\ call.product \in Products /\ HasProduct(t, call.product)
             /\ \A p \in Products \ {call.product} : quantity'[p] = quantity[p]
             /\ quantity'[call.product] = OnHand(batches', call.product)
             /\ Len(batches) \in Nat /\ Len(batches') = Len(batches) + 1
             /\ Len(batches) + 1 \in BatchIds
             /\ \A b \in 1..Len(batches) : batches'[b] = batches[b]
             /\ batches'[Len(batches) + 1].product = call.product
             /\ batches'[Len(batches) + 1].qty = call.qty /\ call.qty \in Nat
<1> DEFINE call == tx[t].call
           row == [product |-> call.product, qty |-> call.qty, expiry |-> call.expiry]
<1>1. /\ tx[t].pc = "receive" /\ OwnsProducts(tx[t], held[t]) /\ CallOfPc(tx[t])
      /\ batches \in Seq(BatchType) /\ quantity \in [Products -> Int]
  BY OneSession DEF OwnsInv, OwnsOfPc, CommitReceive, At, TypeInv, Tables
<1>2. call.op = "receive" /\ call \in Calls
  BY <1>1 DEF CallOfPc
<1>3. call.product \in Products /\ call.qty \in Nat
  BY <1>2, CallFields
<1>4. /\ batches' = Append(batches, row)
      /\ quantity' = [quantity EXCEPT ![call.product] = OnHand(batches', call.product)]
  <2>1. /\ batches' = Append(batches, row)
        /\ quantity' = [quantity EXCEPT ![call.product] = OnHand(Append(batches, row), call.product)]
    BY DEF CommitReceive
  <2> HIDE DEF row, call
  <2>. QED
    BY <2>1
<1>5. Len(batches) \in Nat /\ Len(batches) + 1 <= MaxBatches
  <2>1. t \in Receiving
    BY <1>2 DEF Receiving, Op
  <2>2. IsFiniteSet(Receiving)
    BY BillingAssumption, FS_Subset DEF Receiving
  <2>3. Cardinality(Receiving) \in Nat /\ Cardinality(Receiving) # 0
    BY <2>1, <2>2, FS_CardinalityType, FS_EmptySet
  <2>4. Len(batches) \in Nat /\ MaxBatches \in Nat
    BY RoomLeft
  <2>. QED
    BY <2>3, <2>4 DEF TypeInv, BatchRoom
<1>6. Len(batches) + 1 \in BatchIds
  BY <1>5, BillingAssumption DEF BatchIds
<1>7. /\ Len(batches') = Len(batches) + 1 /\ \A b \in 1..Len(batches) : batches'[b] = batches[b]
      /\ batches'[Len(batches) + 1] = row
  BY <1>1, <1>4, <1>5
<1>8. row.product = call.product /\ row.qty = call.qty
  OBVIOUS
<1>9. HasProduct(t, call.product)
  BY <1>1 DEF OwnsProducts, HasProduct
<1> HIDE DEF row
<1>. QED
  BY <1>1, <1>3, <1>4, <1>5, <1>6, <1>7, <1>8, <1>9

\* What a statement in between reads of a Product or a Batch.
LEMMA GoesReads ==
  ASSUME TypeInv, NEW t \in Sessions, Goes(t)
  PROVE  /\ \A p \in Products : tx'[t].qty[p] = tx[t].qty[p] \/ tx'[t].qty[p] = quantity[p]
         /\ \A b \in 1..Len(batches) : tx'[t].batch[b] = tx[t].batch[b] \/ tx'[t].batch[b] = batches[b].qty
         /\ LockProduct(t) => tx'[t].qty[First(tx[t].todo)] = quantity[First(tx[t].todo)]
         /\ LockBatch(t) => tx'[t].batch[First(tx[t].todo)] = batches[First(tx[t].todo)].qty
         /\ LockBatch(t) => First(tx[t].todo) \in 1..Len(batches)
<1> DEFINE x == tx[t]
           i == First(x.todo)
<1>0. /\ x \in TxType /\ RowsOfPc(x, Len(drafts), Len(batches)) /\ Len(batches) <= MaxBatches
      /\ Len(batches) \in Nat
  BY OneSession
<1>1. CASE LockProduct(t)
  <2> DEFINE s == [x EXCEPT !.qty[i] = quantity[i], !.todo = @ \ {i},
                            !.pc = IF x.todo = {i} THEN AfterProducts(t) ELSE @]
  <2>1. x.pc = "lock_product" /\ tx'[t] = s
    BY <1>1, MovedTo DEF LockProduct, At
  <2>2. i \in Products
    <3>1. x.todo \in SUBSET Products /\ x.todo # {} /\ x.todo \in SUBSET Nat
      BY <1>0, <2>1 DEF RowsOfPc, Products
    <3>. QED
      BY <3>1, FirstExists
  <2>3. s.batch = x.batch /\ s.qty = [x.qty EXCEPT ![i] = quantity[i]] /\ x.qty \in [Products -> Int]
    BY <1>0 DEF TxType
  <2>4. ~LockBatch(t)
    BY <2>1 DEF LockBatch, At
  <2> HIDE DEF s, i
  <2>. QED
    BY <2>1, <2>2, <2>3, <2>4 DEF i
<1>2. CASE LockBatch(t)
  <2> DEFINE s == [x EXCEPT !.batch[i] = batches[i].qty, !.todo = @ \ {i},
                            !.pc = IF x.todo = {i} THEN "check_stock" ELSE @]
  <2>1. x.pc = "lock_batch" /\ tx'[t] = s
    BY <1>2, MovedTo DEF LockBatch, At
  <2>2. i \in 1..Len(batches) /\ i \in BatchIds
    <3>1. x.todo \in SUBSET (1..Len(batches)) /\ x.todo # {} /\ x.todo \in SUBSET Nat
      BY <1>0, <2>1 DEF RowsOfPc
    <3>2. i \in 1..Len(batches)
      BY <3>1, FirstExists
    <3>. QED
      BY <1>0, <3>2, BillingAssumption DEF BatchIds
  <2>3. s.qty = x.qty /\ s.batch = [x.batch EXCEPT ![i] = batches[i].qty] /\ x.batch \in [BatchIds -> Nat]
    BY <1>0 DEF TxType
  <2>4. ~LockProduct(t)
    BY <2>1 DEF LockProduct, At
  <2>5. \A b \in 1..Len(batches) : b \in BatchIds
    BY <1>0, BillingAssumption DEF BatchIds
  <2> HIDE DEF s, i
  <2>. QED
    BY <2>1, <2>2, <2>3, <2>4, <2>5 DEF i
<1>3. CASE ~LockProduct(t) /\ ~LockBatch(t)
  <2>1. CASE CheckStock(t)
    <3> DEFINE s == [x EXCEPT !.asOf = istDay, !.day = localDay, !.pc = "mint"]
    <3>1. Goto(t, s) \/ Ends(t)
      BY <2>1 DEF CheckStock, Refuse, Ends
    <3>2. ~Ends(t)
      <4>1. x.call.op # "none"
        BY <2>1, OneSession DEF CheckStock, At, CallOfPc, FinalizePcs
      <4>. QED
        BY <4>1, EndsIdle DEF Goes
    <3>3. s.qty = x.qty /\ s.batch = x.batch
      BY <1>0 DEF TxType
    <3> HIDE DEF s
    <3>4. tx'[t] = s
      BY <3>1, <3>2, MovedTo
    <3>. QED
      BY <1>3, <3>3, <3>4
  <2>2. CASE SameReads(x, tx'[t])
    BY <1>3, <2>2 DEF SameReads
  <2>. QED
    BY <1>3, <2>1, <2>2 DEF Goes
<1>. QED
  BY <1>1, <1>2, <1>3

ReadsInv ==
  \A t \in Sessions :
    /\ \A p \in Products : HasProduct(t, p) => tx[t].qty[p] = quantity[p]
    /\ \A b \in 1..Len(batches) : HasBatch(t, b) => tx[t].batch[b] = batches[b].qty

\* A row a step has just locked it has just read.
LEMMA TakesReads ==
  ASSUME TypeInv, NEW t \in Sessions, Steps(t), NEW k \in held'[t], k \notin held[t],
         k.mode = "update", NEW i
  PROVE  /\ k.row = ProductRow(i) => LockProduct(t) /\ i = First(tx[t].todo)
         /\ k.row = BatchRow(i) => LockBatch(t) /\ i = First(tx[t].todo)
<1>1. Takes(t, k)
  BY LocksTaken
<1>2. ASSUME k.row[1] = "product" PROVE k = ForUpdate(ProductRow(First(tx[t].todo))) /\ LockProduct(t)
  BY <1>1, <1>2, RowKinds DEF Takes
<1>3. ASSUME k.row[1] = "batch" PROVE k = ForUpdate(BatchRow(First(tx[t].todo))) /\ LockBatch(t)
  BY <1>1, <1>3, RowKinds DEF Takes
<1>. QED
  BY <1>2, <1>3 DEF ForUpdate, ProductRow, BatchRow

LEMMA ReadsStep ==
  ASSUME TypeInv, OwnsInv, LocksExclude, DraftsInv, RowsInv, ReadsInv, NEW t \in Sessions, Steps(t)
  PROVE  ReadsInv'
<1> SUFFICES ASSUME NEW u \in Sessions
             PROVE  /\ \A p \in Products : HasProduct(u, p)' => tx'[u].qty[p] = quantity'[p]
                    /\ \A b \in 1..Len(batches') : HasBatch(u, b)' => tx'[u].batch[b] = batches'[b].qty
  BY DEF ReadsInv
<1>1. CASE u # t
  <2>1. /\ tx'[u] = tx[u] /\ held'[u] = held[u]
        /\ \A p \in Products : HasProduct(u, p) => tx[u].qty[p] = quantity[p]
        /\ \A b \in 1..Len(batches) : HasBatch(u, b) => tx[u].batch[b] = batches[b].qty
    BY <1>1, OthersStill DEF Still, ReadsInv
  <2>2. (\A p : HasProduct(u, p)' <=> HasProduct(u, p)) /\ (\A b : HasBatch(u, b)' <=> HasBatch(u, b))
    BY <2>1 DEF HasProduct, HasBatch
  <2>3. CASE UNCHANGED <<batches, quantity>>
    BY <2>1, <2>2, <2>3
  <2>4. CASE Bills(t)
    BY <1>1, <2>1, <2>2, <2>4, BillOwnRows, RowsExclusive
  <2>5. CASE CommitReceive(t)
    <3>1. ~HasBatch(u, Len(batches) + 1)
      <4>1. SUFFICES ASSUME HasBatch(u, Len(batches) + 1) PROVE FALSE
        OBVIOUS
      <4>2. ForUpdate(BatchRow(Len(batches) + 1)).row = <<"batch", Len(batches) + 1>>
        BY DEF ForUpdate, BatchRow
      <4>3. Len(batches) + 1 \in 1..Len(batches)
        BY <4>1, <4>2 DEF RowsInv, HasBatch
      <4>. QED
        BY <4>3, OneSession
    <3>2. \A p \in Products : HasProduct(u, p) => tx[u].qty[p] = quantity'[p]
      BY <1>1, <2>1, <2>5, ReceiveOwnRows, RowsExclusive
    <3>3. \A b \in 1..Len(batches') : b = Len(batches) + 1 \/ (b \in 1..Len(batches) /\ batches'[b] = batches[b])
      <4>1. /\ Len(batches) \in Nat /\ Len(batches') = Len(batches) + 1
            /\ \A b \in 1..Len(batches) : batches'[b] = batches[b]
        BY <2>5, ReceiveOwnRows
      <4>. QED
        BY <4>1
    <3>. QED
      BY <2>1, <2>2, <3>1, <3>2, <3>3
  <2>. QED
    BY <2>3, <2>4, <2>5, StockKind DEF stock, Creates
<1>2. CASE u = t
  <2>1. CASE Starts(t) \/ Ends(t)
    <3>1. held'[t] = {}
      BY <2>1, EndsIdle DEF Starts
    <3>. QED
      BY <1>2, <3>1 DEF HasProduct, HasBatch
  <2>2. CASE Goes(t)
    <3>1. batches' = batches /\ quantity' = quantity
      BY <2>2 DEF Goes, tables
    <3>2. ASSUME NEW p \in Products, HasProduct(t, p)' PROVE tx'[t].qty[p] = quantity[p]
      <4>1. CASE HasProduct(t, p)
        BY <2>2, <4>1, GoesReads DEF ReadsInv
      <4>2. CASE ~HasProduct(t, p)
        <5>1. ForUpdate(ProductRow(p)).row = ProductRow(p) /\ ForUpdate(ProductRow(p)).mode = "update"
          BY DEF ForUpdate
        <5>2. LockProduct(t) /\ p = First(tx[t].todo)
          BY <3>2, <4>2, <5>1, TakesReads DEF HasProduct
        <5>. QED
          BY <2>2, <5>2, GoesReads
      <4>. QED
        BY <4>1, <4>2
    <3>3. ASSUME NEW b \in 1..Len(batches), HasBatch(t, b)' PROVE tx'[t].batch[b] = batches[b].qty
      <4>1. CASE HasBatch(t, b)
        BY <2>2, <4>1, GoesReads DEF ReadsInv
      <4>2. CASE ~HasBatch(t, b)
        <5>1. ForUpdate(BatchRow(b)).row = BatchRow(b) /\ ForUpdate(BatchRow(b)).mode = "update"
          BY DEF ForUpdate
        <5>2. LockBatch(t) /\ b = First(tx[t].todo)
          BY <3>3, <4>2, <5>1, TakesReads DEF HasBatch
        <5>. QED
          BY <2>2, <5>2, GoesReads
      <4>. QED
        BY <4>1, <4>2
    <3>. QED
      BY <1>2, <3>1, <3>2, <3>3
  <2>. QED
    BY <2>1, <2>2, StepKind
<1>. QED
  BY <1>1, <1>2

LEMMA RowsStep ==
  ASSUME TypeInv, OwnsInv, DraftsInv, RowsInv, NEW t \in Sessions, Steps(t)
  PROVE  RowsInv'
<1> SUFFICES ASSUME NEW u \in Sessions, NEW k \in held'[u], k.row[1] = "batch"
             PROVE  k.row[2] \in 1..Len(batches')
  BY DEF RowsInv
<1>1. Len(batches) \in Nat /\ Len(batches') \in Nat /\ Len(batches) <= Len(batches')
  <2>0. Len(batches) \in Nat
    BY OneSession
  <2>1. CASE batches' = batches
    BY <2>0, <2>1
  <2>2. CASE Bills(t)
    BY <2>2, BillOwnRows
  <2>3. CASE CommitReceive(t)
    <3>1. Len(batches') = Len(batches) + 1
      BY <2>3, ReceiveOwnRows
    <3>. QED
      BY <2>0, <3>1
  <2>. QED
    BY <2>1, <2>2, <2>3, StockKind DEF stock, Creates
<1>2. CASE k \in held[u]
  BY <1>1, <1>2 DEF RowsInv
<1>3. CASE k \notin held[u]
  <2>1. u = t /\ Takes(t, k)
    BY <1>3, OthersStill, LocksTaken DEF Still
  <2>2. LockBatch(t) /\ k = ForUpdate(BatchRow(First(tx[t].todo)))
    BY <2>1, RowKinds DEF Takes
  <2>3. k.row[2] = First(tx[t].todo)
    BY <2>2 DEF ForUpdate, BatchRow
  <2>4. First(tx[t].todo) \in 1..Len(batches)
    <3>1. /\ tx[t].todo \in SUBSET (1..Len(batches)) /\ tx[t].todo # {} /\ tx[t].todo \in SUBSET Nat
      BY <2>2, OneSession DEF LockBatch, At, RowsOfPc
    <3>. QED
      BY <3>1, FirstExists
  <2>. QED
    BY <1>1, <2>3, <2>4
<1>. QED
  BY <1>2, <1>3
-----------------------------------------------------------------------------
(* The Batches                                                               *)

\* A table with one row more.
Longer(B, C) == /\ Len(B) \in Nat /\ Len(C) = Len(B) + 1
                /\ \A b \in 1..Len(B) : C[b] = B[b]

LEMMA OnHandLonger ==
  ASSUME NEW B, NEW C, Longer(B, C), NEW p
  PROVE  OnHand(C, p) = OnHand(B, p) + (IF C[Len(B) + 1].product = p THEN C[Len(B) + 1].qty ELSE 0)
<1> DEFINE n == Len(B)
           f == [b \in 1..n |-> IF B[b].product = p THEN B[b].qty ELSE 0]
           g == [b \in 1..(n + 1) |-> IF C[b].product = p THEN C[b].qty ELSE 0]
<1>1. n \in Nat /\ Len(C) = n + 1 /\ \A b \in 1..n : C[b] = B[b]
  BY DEF Longer
<1>2. \A i \in 1..n : g[i] = f[i]
  BY <1>1
<1>3. g[n + 1] = IF C[n + 1].product = p THEN C[n + 1].qty ELSE 0
  BY <1>1
<1>4. OnHand(B, p) = SumTo(f, n) /\ OnHand(C, p) = SumTo(g, n + 1)
  BY <1>1 DEF OnHand
<1> HIDE DEF f, g, n
<1>5. SumTo(g, n + 1) = SumTo(f, n) + g[n + 1]
  BY <1>1, <1>2, SumLonger
<1>. QED
  BY <1>3, <1>4, <1>5 DEF n

\* A Batch a transaction has not locked adds nothing to what it may sell.
LEMMA SellableLonger ==
  ASSUME NEW B, NEW C, Longer(B, C), NEW p, NEW asOf, NEW q, q[Len(B) + 1] = 0,
         \A b \in 1..Len(B) : q[b] \in Nat
  PROVE  SellableQuantity(C, q, p, asOf) = SellableQuantity(B, q, p, asOf)
<1> DEFINE n == Len(B)
           S == SellableBatches(B, p, asOf)
           R == SellableBatches(C, p, asOf)
           f == [b \in 1..n |-> IF b \in S THEN q[b] ELSE 0]
           g == [b \in 1..(n + 1) |-> IF b \in R THEN q[b] ELSE 0]
<1>1. n \in Nat /\ Len(C) = n + 1 /\ \A b \in 1..n : C[b] = B[b]
  BY DEF Longer
<1>2. \A b \in 1..n : b \in R <=> b \in S
  BY <1>1 DEF SellableBatches, IsNonExpired
<1>3. g[n + 1] = 0
  BY <1>1
<1>4. SellableQuantity(B, q, p, asOf) = SumTo(f, n) /\ SellableQuantity(C, q, p, asOf) = SumTo(g, n + 1)
  BY <1>1 DEF SellableQuantity, SumOver
<1>5. SumTo(f, n) \in Nat
  BY <1>1, SumTyped
<1> HIDE DEF S, R
<1>6. \A i \in 1..n : g[i] = f[i]
  BY <1>1, <1>2
<1> HIDE DEF f, g, n
<1>7. SumTo(g, n + 1) = SumTo(f, n) + g[n + 1]
  BY <1>1, <1>6, SumLonger
<1>. QED
  BY <1>3, <1>4, <1>5, <1>7

LEMMA SellableSame ==
  ASSUME NEW B, NEW C, Len(B) = Len(C),
         \A b \in 1..Len(B) : C[b].product = B[b].product /\ C[b].expiry = B[b].expiry,
         NEW p, NEW asOf, NEW q
  PROVE  SellableQuantity(C, q, p, asOf) = SellableQuantity(B, q, p, asOf)
<1>1. SellableBatches(C, p, asOf) = SellableBatches(B, p, asOf)
  BY DEF SellableBatches, IsNonExpired
<1>. QED
  BY <1>1 DEF SellableQuantity

LEMMA LockingPcs ==
  ASSUME TypeInv, NEW t \in Sessions, LockProduct(t) \/ LockBatch(t)
  PROVE  tx'[t].pc \in {"lock_product", "lock_batch", "check_stock", "receive", "lock_customer", "check_cost"}
<1> DEFINE x == tx[t]
           i == First(x.todo)
<1>0. x \in TxType
  BY OneSession
<1>1. CASE LockProduct(t)
  <2> DEFINE s == [x EXCEPT !.qty[i] = quantity[i], !.todo = @ \ {i},
                            !.pc = IF x.todo = {i} THEN AfterProducts(t) ELSE @]
  <2>1. x.pc = "lock_product" /\ tx'[t] = s
    BY <1>1, MovedTo DEF LockProduct, At
  <2>2. s.pc = IF x.todo = {i} THEN AfterProducts(t) ELSE x.pc
    BY <1>0 DEF TxType
  <2>3. AfterProducts(t) \in {"receive", "lock_customer", "check_cost"}
    BY DEF AfterProducts
  <2> HIDE DEF s
  <2>. QED
    BY <2>1, <2>2, <2>3
<1>2. CASE LockBatch(t)
  <2> DEFINE s == [x EXCEPT !.batch[i] = batches[i].qty, !.todo = @ \ {i},
                            !.pc = IF x.todo = {i} THEN "check_stock" ELSE @]
  <2>1. x.pc = "lock_batch" /\ tx'[t] = s
    BY <1>2, MovedTo DEF LockBatch, At
  <2>2. s.pc = IF x.todo = {i} THEN "check_stock" ELSE x.pc
    BY <1>0 DEF TxType
  <2> HIDE DEF s
  <2>. QED
    BY <2>1, <2>2
<1>. QED
  BY <1>1, <1>2

LEMMA CoveredStep ==
  ASSUME TypeInv, OwnsInv, DraftsInv, RowsInv, CoveredInv, NEW t \in Sessions, Steps(t)
  PROVE  CoveredInv'
<1> SUFFICES ASSUME NEW u \in Sessions, tx'[u].pc \in PricedPcs, NEW p \in Products
             PROVE  ~(SellableQuantity(batches', tx'[u].batch, p, tx'[u].asOf) < tx'[u].lines[p])
  BY DEF CoveredInv, Oversold
<1>1. CASE u # t
  <2>1. tx'[u] = tx[u] /\ tx[u].pc \in PricedPcs
    BY <1>1, OthersStill DEF Still
  <2>2. ~(SellableQuantity(batches, tx[u].batch, p, tx[u].asOf) < tx[u].lines[p])
    BY <2>1 DEF CoveredInv, Oversold
  <2>3. SellableQuantity(batches', tx[u].batch, p, tx[u].asOf)
          = SellableQuantity(batches, tx[u].batch, p, tx[u].asOf)
    <3>1. CASE batches' = batches
      BY <3>1
    <3>2. CASE Bills(t)
      <4>1. Len(batches') = Len(batches) /\ \A b \in 1..Len(batches) :
              batches'[b].product = batches[b].product /\ batches'[b].expiry = batches[b].expiry
        BY <3>2, BillOwnRows
      <4>. QED
        BY <4>1, SellableSame
    <3>3. CASE CommitReceive(t)
      <4>1. Longer(batches, batches') /\ Len(batches) + 1 \in BatchIds
        BY <3>3, ReceiveOwnRows DEF Longer
      <4>2. tx[u] \in TxType /\ Len(batches) \in Nat /\ Len(batches) <= MaxBatches
        BY OneSession
      <4>3. tx[u].batch[Len(batches) + 1] = 0 /\ \A b \in 1..Len(batches) : tx[u].batch[b] \in Nat
        <5>1. tx[u].batch \in [BatchIds -> Nat]
          BY <4>2 DEF TxType
        <5>2. ASSUME tx[u].batch[Len(batches) + 1] > 0 PROVE FALSE
          <6>1. ForUpdate(BatchRow(Len(batches) + 1)) \in held[u]
            BY <4>1, <5>2 DEF OwnsInv, OwnsOfPc, OwnsBatches
          <6>2. ForUpdate(BatchRow(Len(batches) + 1)).row = <<"batch", Len(batches) + 1>>
            BY DEF ForUpdate, BatchRow
          <6>3. Len(batches) + 1 \in 1..Len(batches)
            BY <6>1, <6>2 DEF RowsInv
          <6>. QED
            BY <4>2, <6>3
        <5>3. \A b \in 1..Len(batches) : b \in BatchIds
          BY <4>2, BillingAssumption DEF BatchIds
        <5>. QED
          BY <4>1, <5>1, <5>2, <5>3
      <4> DEFINE q == tx[u].batch
                 asOf == tx[u].asOf
      <4>4. q[Len(batches) + 1] = 0 /\ \A b \in 1..Len(batches) : q[b] \in Nat
        BY <4>3
      <4> HIDE DEF q, asOf
      <4>5. SellableQuantity(batches', q, p, asOf) = SellableQuantity(batches, q, p, asOf)
        BY <4>1, <4>4, SellableLonger
      <4>. QED
        BY <4>5 DEF q, asOf
    <3>. QED
      BY <3>1, <3>2, <3>3, StockKind DEF stock, Creates
  <2>. QED
    BY <2>1, <2>2, <2>3
<1>2. CASE u = t
  <2> DEFINE x == tx[t]
  <2>1. ~Starts(t) /\ ~Ends(t)
    BY <1>2, EndsIdle DEF Starts, ChosenPcs, PricedPcs
  <2>2. Goes(t) /\ batches' = batches
    BY <2>1, StepKind DEF Goes, tables
  <2>3. CASE SameReads(x, tx'[t])
    <3>1. x.pc \in PricedPcs /\ tx'[t].lines = x.lines /\ tx'[t].asOf = x.asOf /\ tx'[t].batch = x.batch
      BY <1>2, <2>3 DEF SameReads
    <3>2. ~(SellableQuantity(batches, x.batch, p, x.asOf) < x.lines[p])
      BY <3>1 DEF CoveredInv, Oversold
    <3>. QED
      BY <1>2, <2>2, <3>1, <3>2
  <2>4. CASE CheckStock(t)
    <3> DEFINE s == [x EXCEPT !.asOf = istDay, !.day = localDay, !.pc = "mint"]
    <3>1. Goto(t, s) /\ ~Oversold(x, istDay)
      BY <2>1, <2>4 DEF CheckStock, Refuse, Ends
    <3>2. x \in TxType
      BY OneSession
    <3>3. s.batch = x.batch /\ s.lines = x.lines /\ s.asOf = istDay
      BY <3>2 DEF TxType
    <3> HIDE DEF s
    <3>4. tx'[t] = s
      BY <3>1, MovedTo
    <3>5. ~(SellableQuantity(batches, x.batch, p, istDay) < x.lines[p])
      BY <3>1 DEF Oversold
    <3>. QED
      BY <1>2, <2>2, <3>3, <3>4, <3>5
  <2>5. ASSUME LockProduct(t) \/ LockBatch(t) PROVE FALSE
    <3>1. tx'[t].pc \in {"lock_product", "lock_batch", "check_stock", "receive", "lock_customer", "check_cost"}
      BY <2>5, LockingPcs
    <3>. QED
      BY <1>2, <3>1 DEF PricedPcs
  <2>. QED
    BY <2>2, <2>3, <2>4, <2>5 DEF Goes
<1>. QED
  BY <1>1, <1>2

\* finalize_bill takes exactly its Line of a Product, from Batches of it.
LEMMA SaleTaken ==
  ASSUME TypeInv, OwnsInv, CoveredInv, NEW t \in Sessions, Bills(t), NEW p \in Products
  PROVE  LET x    == tx[t]
             take == FefoTakes(batches, x.batch, p, x.asOf, x.lines[p])
         IN  /\ x.lines[p] \in Nat
             /\ SumTo(take, Len(batches)) = x.lines[p]
             /\ \A b \in 1..Len(batches) :
                  take[b] = IF batches[b].product = p THEN Taken(x, b) ELSE 0
<1> DEFINE x == tx[t]
           n == Len(batches)
           q == x.batch
           need == x.lines[p]
           asOf == x.asOf
           take == FefoTakes(batches, q, p, asOf, need)
<1>1. /\ x \in TxType /\ n \in Nat /\ n <= MaxBatches /\ MaxBatches \in Nat /\ x.pc = "write_bill"
      /\ batches \in Seq(BatchType)
  BY OneSession, BillWrites, BillingAssumption DEF TypeInv, Tables
<1>2. need \in Nat /\ \A b \in 1..n : q[b] \in Nat
  BY <1>1 DEF TxType, BatchIds
<1>3. need <= SellableQuantity(batches, q, p, asOf)
  <2>1. ~(SellableQuantity(batches, q, p, asOf) < need)
    BY <1>1 DEF CoveredInv, Oversold, PricedPcs
  <2>2. SumOver(q, SellableBatches(batches, p, asOf), n) \in Nat
    BY <1>1, <1>2, SumOverTyped
  <2>3. SellableQuantity(batches, q, p, asOf) \in Nat
    BY <2>2 DEF SellableQuantity
  <2>. QED
    BY <1>2, <2>1, <2>3
<1>4. ExpiriesWithin(NoExpiry, batches) /\ NoExpiry \in Nat
  <2>1. \A b \in 1..Len(batches) : batches[b].expiry \in 0..NoExpiry
    BY BatchFields DEF BatchType
  <2>2. NoExpiry \in Nat
    BY BillingAssumption DEF NoExpiry
  <2>. QED
    BY <2>1, <2>2 DEF ExpiriesWithin
<1>5. SumTo(take, n) = need
  <2> HIDE DEF q, need, asOf
  <2>. QED
    BY <1>1, <1>2, <1>3, <1>4, FefoTakesNeed
<1>6. ASSUME NEW b \in 1..n
      PROVE  take[b] = IF batches[b].product = p THEN Taken(x, b) ELSE 0
  <2>1. take[b] = FefoTake(batches, q, p, asOf, need, b)
    BY DEF FefoTakes
  <2>2. CASE batches[b].product = p
    BY <2>1, <2>2 DEF Taken
  <2>3. CASE batches[b].product # p
    <3>1. b \notin SellableBatches(batches, p, asOf)
      BY <2>3 DEF SellableBatches
    <3>. QED
      BY <2>1, <2>3, <3>1 DEF FefoTake
  <2>. QED
    BY <2>2, <2>3
<1>. QED
  BY <1>2, <1>5, <1>6

\* What a Bill sells of a Product leaves its Batches, all of it.
LEMMA SoldLeaves ==
  ASSUME TypeInv, OwnsInv, ReadsInv, CoveredInv, NEW t \in Sessions, Bills(t), NEW p \in Products
  PROVE  OnHand(batches', p) = OnHand(batches, p) - tx[t].lines[p] /\ tx[t].lines[p] \in Nat
<1> DEFINE x == tx[t]
           n == Len(batches)
           need == x.lines[p]
           take == FefoTakes(batches, x.batch, p, x.asOf, need)
           f == [b \in 1..n |-> IF batches[b].product = p THEN batches[b].qty ELSE 0]
           g == [b \in 1..n |-> IF batches'[b].product = p THEN batches'[b].qty ELSE 0]
<1>1. n \in Nat /\ Len(batches') = n
  BY BillOwnRows
<1>2. /\ need \in Nat /\ SumTo(take, n) = need
      /\ \A b \in 1..n : take[b] = IF batches[b].product = p THEN Taken(x, b) ELSE 0
  BY SaleTaken
<1>3. ASSUME NEW b \in 1..n
      PROVE  take[b] \in Int /\ g[b] \in Int /\ f[b] = take[b] + g[b]
  <2>1. batches[b].product \in Products /\ batches[b].qty \in Nat
    BY BatchFields
  <2>2. /\ batches'[b].product = batches[b].product
        /\ Taken(x, b) \in Nat /\ (Taken(x, b) > 0 => HasBatch(t, b))
        /\ batches'[b].qty = IF Taken(x, b) > 0 THEN x.batch[b] - Taken(x, b) ELSE batches[b].qty
    BY BillOwnRows
  <2>3. Taken(x, b) > 0 => x.batch[b] = batches[b].qty
    BY <2>2 DEF ReadsInv
  <2>4. batches'[b].qty = batches[b].qty - Taken(x, b)
    BY <2>1, <2>2, <2>3
  <2>5. CASE batches[b].product = p
    <3>1. take[b] = Taken(x, b)
      BY <1>2, <2>5
    <3>2. f[b] = batches[b].qty /\ g[b] = batches[b].qty - Taken(x, b)
      BY <2>2, <2>4, <2>5
    <3>. QED
      BY <2>1, <2>2, <3>1, <3>2
  <2>6. CASE batches[b].product # p
    <3>1. take[b] = 0
      BY <1>2, <2>6
    <3>2. f[b] = 0 /\ g[b] = 0
      BY <2>2, <2>6
    <3>. QED
      BY <3>1, <3>2
  <2>. QED
    BY <2>5, <2>6
<1>4. OnHand(batches, p) = SumTo(f, n)
  BY DEF OnHand
<1>5. OnHand(batches', p) = SumTo(g, n)
  BY <1>1 DEF OnHand
<1> HIDE DEF take, f, g, n, need
<1>6. SumTo(f, n) = SumTo(take, n) + SumTo(g, n)
  BY <1>1, <1>3, SumAdds
<1>7. SumTo(g, n) \in Int
  BY <1>1, <1>3, SumTyped
<1>. QED
  BY <1>2, <1>4, <1>5, <1>6, <1>7 DEF need

LEMMA StockStep ==
  ASSUME TypeInv, OwnsInv, DraftsInv, ReadsInv, CoveredInv, StockIsBatchSum, NEW t \in Sessions, Steps(t)
  PROVE  StockIsBatchSum'
<1> SUFFICES ASSUME NEW p \in Products PROVE quantity'[p] = OnHand(batches', p)
  BY DEF StockIsBatchSum
<1>0. quantity[p] = OnHand(batches, p) /\ quantity[p] \in Int
  BY DEF StockIsBatchSum, TypeInv, Tables
<1>1. CASE UNCHANGED <<quantity, batches>>
  BY <1>0, <1>1
<1>2. CASE Bills(t)
  <2>1. OnHand(batches', p) = OnHand(batches, p) - tx[t].lines[p] /\ tx[t].lines[p] \in Nat
    BY <1>2, SoldLeaves
  <2>2. HasProduct(t, p) \/ (tx[t].lines[p] = 0 /\ quantity'[p] = quantity[p])
    BY <1>2, BillOwnRows
  <2>3. quantity'[p] = IF tx[t].lines[p] > 0 THEN tx[t].qty[p] - tx[t].lines[p] ELSE quantity[p]
    BY <1>2, BillOwnRows
  <2>4. HasProduct(t, p) => tx[t].qty[p] = quantity[p]
    BY DEF ReadsInv
  <2>. QED
    BY <1>0, <2>1, <2>2, <2>3, <2>4
<1>3. CASE CommitReceive(t)
  <2> DEFINE r == tx[t].call.product
  <2>1. /\ Longer(batches, batches') /\ batches'[Len(batches) + 1].product = r
        /\ quantity'[r] = OnHand(batches', r) /\ (p # r => quantity'[p] = quantity[p])
    BY <1>3, ReceiveOwnRows DEF Longer
  <2>2. CASE p = r
    BY <2>1, <2>2
  <2>3. CASE p # r
    <3>1. OnHand(batches', p) = OnHand(batches, p) + 0
      BY <2>1, <2>3, OnHandLonger
    <3>. QED
      BY <1>0, <2>1, <2>3, <3>1
  <2>. QED
    BY <2>2, <2>3
<1>. QED
  BY <1>1, <1>2, <1>3, StockKind DEF stock, Creates
-----------------------------------------------------------------------------
(* First expiry first out                                                    *)

\* The session that moves keeps what it has chosen.
LEMMA ChosenMoves ==
  ASSUME TypeInv, OwnsInv, ChosenInv, NEW t \in Sessions, Steps(t), ~Ends(t), batches' = batches
  PROVE  Chosen(tx'[t], held'[t])
<1> DEFINE x == tx[t]
<1>0. x \in TxType /\ Chosen(x, held[t])
  BY OneSession DEF ChosenInv
<1>1. ASSUME tx'[t].pc \notin ChosenPcs PROVE Chosen(tx'[t], held'[t])
  BY <1>1 DEF Chosen
<1>2. CASE ReadOpenDraft(t) \/ MissOpenDraft(t) \/ AnswerAtOnce(t) \/ BeginFinalize(t) \/ BeginReceive(t)
  BY <1>1, <1>2, StartFields DEF Starts
<1>3. ASSUME NEW s, Goto(t, s), s.pc \notin ChosenPcs PROVE Chosen(tx'[t], held'[t])
  BY <1>1, <1>3, MovedTo
<1>4. ASSUME NEW pc, Goto(t, [x EXCEPT !.pc = pc]), pc \notin ChosenPcs PROVE Chosen(tx'[t], held'[t])
  <2> DEFINE s == [x EXCEPT !.pc = pc]
  <2>1. s.pc = pc
    BY <1>0 DEF TxType
  <2> HIDE DEF s
  <2>. QED
    BY <1>3, <1>4, <2>1 DEF s
<1>5. CASE CreateDraft(t) \/ ShareDraft(t) \/ ShareProduct(t) \/ LockDraft(t) \/ LockCustomer(t)
  <2>1. \E pc \in {"share_product", "write_line", "load_lines", "check_cost"} : Goto(t, [x EXCEPT !.pc = pc])
    BY <1>5 DEF CreateDraft, ShareDraft, ShareProduct, LockDraft, LockCustomer, Refuse, CommitNewDraft, Ends
  <2>. QED
    BY <1>4, <2>1 DEF ChosenPcs, PricedPcs
<1>6. CASE ReadLine(t)
  <2> DEFINE seen == lines[x.draft][x.call.product]
             s == [x EXCEPT !.seen = seen, !.pc = IF seen = 0 THEN "share_draft" ELSE "write_line"]
  <2>1. Goto(t, s)
    BY <1>6 DEF ReadLine, Refuse, Ends
  <2>2. s.pc \in {"share_draft", "write_line"}
    BY <1>0 DEF TxType
  <2> HIDE DEF s
  <2>. QED
    BY <1>3, <2>1, <2>2 DEF ChosenPcs, PricedPcs
<1>7. CASE LoadLines(t)
  <2> DEFINE found == {p \in Products : lines[x.draft][p] > 0}
             s == [x EXCEPT !.lines = lines[x.draft], !.todo = found, !.pc = "lock_product"]
  <2>1. Goto(t, s)
    BY <1>7 DEF LoadLines, Refuse, Ends
  <2>2. s.pc = "lock_product"
    BY <1>0 DEF TxType
  <2> HIDE DEF s
  <2>. QED
    BY <1>3, <2>1, <2>2 DEF ChosenPcs, PricedPcs
<1>8. CASE LockProduct(t)
  <2> DEFINE i == First(x.todo)
             s == [x EXCEPT !.qty[i] = quantity[i], !.todo = @ \ {i},
                            !.pc = IF x.todo = {i} THEN AfterProducts(t) ELSE @]
  <2>1. x.pc = "lock_product" /\ Goto(t, s)
    BY <1>8 DEF LockProduct, At
  <2>2. s.pc = IF x.todo = {i} THEN AfterProducts(t) ELSE x.pc
    BY <1>0 DEF TxType
  <2>3. AfterProducts(t) \in {"receive", "lock_customer", "check_cost"}
    BY DEF AfterProducts
  <2> HIDE DEF s
  <2>. QED
    BY <1>3, <2>1, <2>2, <2>3 DEF ChosenPcs, PricedPcs
<1>9. CASE CheckCost(t)
  <2> DEFINE ids == {b \in 1..Len(batches) : x.lines[batches[b].product] > 0 /\ batches[b].qty > 0}
             s == [x EXCEPT !.todo = ids, !.pc = IF ids = {} THEN "check_stock" ELSE "lock_batch"]
  <2>1. Goto(t, s)
    BY <1>9 DEF CheckCost, Refuse, Ends
  <2>2. s.lines = x.lines /\ s.todo = ids /\ s.pc = IF ids = {} THEN "check_stock" ELSE "lock_batch"
    BY <1>0 DEF TxType
  <2> HIDE DEF s
  <2>3. tx'[t] = s
    BY <2>1, MovedTo
  <2>. QED
    BY <2>2, <2>3 DEF Chosen
<1>10. CASE LockBatch(t)
  <2> DEFINE b == First(x.todo)
             lock == ForUpdate(BatchRow(b))
             s == [x EXCEPT !.batch[b] = batches[b].qty, !.todo = @ \ {b},
                            !.pc = IF x.todo = {b} THEN "check_stock" ELSE @]
  <2>1. x.pc = "lock_batch" /\ Goto(t, s) /\ Take(t, lock)
    BY <1>10 DEF LockBatch, At
  <2>2. s.lines = x.lines /\ s.todo = x.todo \ {b} /\ s.pc = IF x.todo = {b} THEN "check_stock" ELSE "lock_batch"
    BY <1>0, <2>1 DEF TxType
  <2>3. tx'[t] = s /\ held'[t] = held[t] \cup {lock}
    BY <2>1, MovedTo
  <2> HIDE DEF s, b
  <2>4. SUFFICES ASSUME NEW a \in 1..Len(batches), x.lines[batches[a].product] > 0, batches[a].qty > 0
                 PROVE  ForUpdate(BatchRow(a)) \in held'[t] \/ (s.pc = "lock_batch" /\ a \in s.todo)
    BY <2>2, <2>3 DEF Chosen
  <2>5. ForUpdate(BatchRow(a)) \in held[t] \/ a \in x.todo
    BY <1>0, <2>1, <2>4 DEF Chosen, ChosenPcs
  <2>6. CASE a = b
    BY <2>3, <2>6
  <2>. QED
    BY <2>2, <2>3, <2>5, <2>6
<1>11. CASE CheckStock(t) \/ MintNumber(t) \/ InsertCounter(t)
  <2>1. PICK s \in {[x EXCEPT !.asOf = istDay, !.day = localDay, !.pc = "mint"],
                    [x EXCEPT !.pc = "insert_counter"], [x EXCEPT !.pc = "write_bill"],
                    [x EXCEPT !.seq = counter[x.day], !.pc = "write_bill"]} : Goto(t, s)
    BY <1>11 DEF CheckStock, MintNumber, InsertCounter, Refuse, Ends
  <2>2. x.pc \in ChosenPcs /\ x.pc # "lock_batch"
    BY <1>11 DEF CheckStock, MintNumber, InsertCounter, At, ChosenPcs, PricedPcs
  <2>3. s.lines = x.lines
    BY <1>0 DEF TxType
  <2>4. tx'[t] = s
    BY <2>1, MovedTo
  <2>5. held[t] \subseteq held'[t]
    BY <1>11, MovedTo DEF CheckStock, MintNumber, InsertCounter, Refuse, Ends
  <2>. QED
    BY <1>0, <2>2, <2>3, <2>4, <2>5 DEF Chosen
<1>12. CASE InsertLine(t) \/ UpdateLine(t) \/ DeleteLine(t) \/ CommitReceive(t) \/ Abort(t)
  BY <1>12 DEF InsertLine, UpdateLine, DeleteLine, CommitReceive, Abort, Refuse, CommitNewDraft, SetLine, Ends
<1>13. CASE CommitBill(t)
  BY <1>13 DEF CommitBill, Refuse, Ends
<1>. QED
  BY <1>2, <1>5, <1>6, <1>7, <1>8, <1>9, <1>10, <1>11, <1>12, <1>13
     DEF Steps, DraftStep, FinalizeStep, ReceiveStep

LEMMA ChosenStep ==
  ASSUME TypeInv, OwnsInv, LocksExclude, DraftsInv, ReadsInv, ChosenInv, NEW t \in Sessions, Steps(t)
  PROVE  ChosenInv'
<1> SUFFICES ASSUME NEW u \in Sessions, tx'[u].pc \in ChosenPcs, NEW b \in 1..Len(batches'),
                    tx'[u].lines[batches'[b].product] > 0, batches'[b].qty > 0
             PROVE  ForUpdate(BatchRow(b)) \in held'[u] \/ (tx'[u].pc = "lock_batch" /\ b \in tx'[u].todo)
  BY DEF ChosenInv, Chosen
<1>1. CASE u # t
  <2>1. tx'[u] = tx[u] /\ held'[u] = held[u] /\ Chosen(tx[u], held[u])
    BY <1>1, OthersStill DEF Still, ChosenInv
  <2>2. ASSUME b \in 1..Len(batches), batches[b].product = batches'[b].product, batches[b].qty > 0
        PROVE  ForUpdate(BatchRow(b)) \in held'[u] \/ (tx'[u].pc = "lock_batch" /\ b \in tx'[u].todo)
    BY <2>1, <2>2 DEF Chosen
  <2>3. CASE batches' = batches
    BY <2>2, <2>3
  <2>4. CASE Bills(t)
    <3>1. /\ b \in 1..Len(batches) /\ batches[b].product = batches'[b].product
          /\ Taken(tx[t], b) \in Nat /\ (Taken(tx[t], b) > 0 => HasBatch(t, b))
          /\ batches'[b].qty = IF Taken(tx[t], b) > 0 THEN tx[t].batch[b] - Taken(tx[t], b)
                               ELSE batches[b].qty
      BY <2>4, BillOwnRows
    <3>2. HasBatch(t, b) => tx[t].batch[b] = batches[b].qty
      BY <3>1 DEF ReadsInv
    <3>3. batches[b].qty \in Nat
      BY <3>1, BatchFields
    <3>4. batches[b].qty > 0
      BY <3>1, <3>2, <3>3
    <3>. QED
      BY <2>2, <3>1, <3>4
  <2>5. CASE CommitReceive(t)
    <3>1. /\ Len(batches) \in Nat /\ Len(batches') = Len(batches) + 1
          /\ \A a \in 1..Len(batches) : batches'[a] = batches[a]
          /\ batches'[Len(batches) + 1].product = tx[t].call.product
          /\ HasProduct(t, tx[t].call.product) /\ tx[t].call.product \in Products
      BY <2>5, ReceiveOwnRows
    <3>2. b # Len(batches) + 1
      <4> SUFFICES ASSUME b = Len(batches) + 1 PROVE FALSE
        OBVIOUS
      <4>1. tx[u].lines[tx[t].call.product] > 0 /\ tx[u].pc \in ChosenPcs
        BY <2>1, <3>1
      <4>2. tx[u].call.op = "finalize"
        BY <4>1, OneSession DEF CallOfPc, ChosenPcs, PricedPcs, FinalizePcs
      <4>3. tx[u].pc \in SellingPcs /\ tx[u].pc # "lock_product"
        BY <4>1 DEF ChosenPcs, SellingPcs, PricedPcs
      <4>4. HasProduct(u, tx[t].call.product)
        BY <3>1, <4>1, <4>2, <4>3 DEF OwnsInv, OwnsOfPc, OwnsProducts, HasProduct
      <4>. QED
        BY <1>1, <3>1, <4>4, RowsExclusive
    <3>3. b \in 1..Len(batches)
      BY <3>1, <3>2
    <3>. QED
      BY <2>2, <3>1, <3>3
  <2>. QED
    BY <2>3, <2>4, <2>5, StockKind DEF stock, Creates
<1>2. CASE u = t
  <2>1. ~Ends(t)
    BY <1>2, EndsIdle DEF ChosenPcs, PricedPcs
  <2>2. batches' = batches
    BY <2>1, StockKind DEF stock
  <2>3. Chosen(tx'[t], held'[t])
    BY <2>1, <2>2, ChosenMoves
  <2>. QED
    BY <1>2, <2>2, <2>3 DEF Chosen
<1>. QED
  BY <1>1, <1>2

\* Selling an earlier Batch leaves nothing of it: of Batches a and b, both
\* sellable, the loop comes to b only with the whole of a.
LEMMA EarlierTaken ==
  ASSUME NEW B, Len(B) \in Nat, NEW q, \A b \in 1..Len(B) : q[b] \in Nat, NEW p, NEW asOf,
         NEW need \in Nat, \A b \in 1..Len(B) : B[b].expiry \in Nat,
         NEW a \in SellableBatches(B, p, asOf), NEW b \in SellableBatches(B, p, asOf),
         B[a].expiry < B[b].expiry, FefoTake(B, q, p, asOf, need, b) > 0
  PROVE  FefoTake(B, q, p, asOf, need, a) = q[a] /\ need > 0
<1> DEFINE n == Len(B)
           S == SellableBatches(B, p, asOf)
           before(c) == {d \in S : FefoBefore(B, d, c)}
           A == before(a)
           C == before(b)
<1>1. a \in 1..n /\ b \in 1..n /\ S \subseteq 1..n /\ q[a] \in Nat
  BY DEF SellableBatches
<1>2. a \in C /\ a \notin A /\ A \subseteq C
  BY <1>1 DEF FefoBefore
<1>3. SumOver(q, A, n) \in Nat /\ SumOver(q, C, n) \in Nat
  BY SumOverTyped
<1>4. need - SumOver(q, C, n) > 0
  <2>1. FefoTake(B, q, p, asOf, need, b)
          = IF b \notin S \/ need - SumOver(q, C, n) <= 0 THEN 0
            ELSE IF q[b] < need - SumOver(q, C, n) THEN q[b] ELSE need - SumOver(q, C, n)
    BY DEF FefoTake
  <2> HIDE DEF S, C, n
  <2>. QED
    BY <1>3, <2>1
<1>5. FefoTake(B, q, p, asOf, need, a)
        = IF a \notin S \/ need - SumOver(q, A, n) <= 0 THEN 0
          ELSE IF q[a] < need - SumOver(q, A, n) THEN q[a] ELSE need - SumOver(q, A, n)
  BY DEF FefoTake
<1>6. a \in S
  OBVIOUS
<1> HIDE DEF S, A, C, n
<1>7. SumOver(q, A \cup {a}, n) = SumOver(q, A, n) + q[a]
  BY <1>1, <1>2, SumOverAdd DEF n
<1>8. SumOver(q, A \cup {a}, n) <= SumOver(q, C, n)
  <2> DEFINE f == [i \in 1..n |-> IF i \in A \cup {a} THEN q[i] ELSE 0]
             g == [i \in 1..n |-> IF i \in C THEN q[i] ELSE 0]
  <2>1. n \in Nat /\ \A i \in 1..n : f[i] \in Int /\ g[i] \in Int /\ f[i] <= g[i]
    BY <1>2 DEF n
  <2>2. SumOver(q, A \cup {a}, n) = SumTo(f, n) /\ SumOver(q, C, n) = SumTo(g, n)
    BY DEF SumOver
  <2> HIDE DEF f, g
  <2>. QED
    BY <2>1, <2>2, SumMonotone
<1>. QED
  BY <1>1, <1>3, <1>4, <1>5, <1>6, <1>7, <1>8

\* First expiry first out, of one step.
LEMMA FefoStep ==
  ASSUME TypeInv, OwnsInv, DraftsInv, ReadsInv, ChosenInv, NEW t \in Sessions, Steps(t),
         NEW b \in 1..Len(batches), batches'[b].qty < batches[b].qty
  PROVE  /\ At(t, "write_bill") /\ tx'[t].pc = "idle"
         /\ IsNonExpired(batches[b], tx[t].asOf)
         /\ \A a \in SellableBatches(batches, batches[b].product, tx[t].asOf) :
              batches[a].expiry < batches[b].expiry => batches'[a].qty = 0
<1> DEFINE x == tx[t]
           p == batches[b].product
           q == x.batch
<1>0. batches[b].qty \in Nat
  BY BatchFields
<1>1. Bills(t)
  <2>1. CASE batches' = batches
    BY <1>0, <2>1
  <2>2. CASE CommitReceive(t)
    <3>1. batches'[b] = batches[b]
      BY <2>2, ReceiveOwnRows
    <3>. QED
      BY <1>0, <3>1
  <2>. QED
    BY <2>1, <2>2, StockKind DEF stock, Creates
<1>2. /\ x \in TxType /\ x.pc = "write_bill" /\ Len(batches) \in Nat /\ Chosen(x, held[t])
      /\ Len(batches) <= MaxBatches /\ tx'[t].pc = "idle"
  BY <1>1, BillWrites, OneSession DEF ChosenInv
<1>3. Taken(x, b) > 0
  BY <1>0, <1>1, BillOwnRows
<1>4. b \in SellableBatches(batches, p, x.asOf)
  BY <1>3 DEF Taken, FefoTake
<1>5. IsNonExpired(batches[b], x.asOf)
  BY <1>4 DEF SellableBatches
<1>6. ASSUME NEW a \in SellableBatches(batches, p, x.asOf), batches[a].expiry < batches[b].expiry
      PROVE  batches'[a].qty = 0
  <2>1. a \in 1..Len(batches) /\ batches[a].product = p
    BY DEF SellableBatches
  <2>2. p \in Products /\ x.lines[p] \in Nat
    BY <1>2, BatchFields DEF TxType
  <2>3. \A c \in 1..Len(batches) : q[c] \in Nat /\ batches[c].expiry \in Nat
    <3>1. \A c \in 1..Len(batches) : c \in BatchIds /\ batches[c].expiry \in 0..NoExpiry
      BY BatchFields DEF BatchType
    <3>2. q \in [BatchIds -> Nat] /\ NoExpiry \in Nat
      BY <1>2, BillingAssumption DEF TxType, NoExpiry
    <3>. QED
      BY <3>1, <3>2
  <2>4. FefoTake(batches, q, p, x.asOf, x.lines[p], b) > 0
    BY <1>3 DEF Taken
  <2>5. FefoTake(batches, q, p, x.asOf, x.lines[p], a) = q[a] /\ x.lines[p] > 0
    <3> HIDE DEF p, q
    <3>. QED
      BY <1>2, <1>4, <1>6, <2>2, <2>3, <2>4, EarlierTaken
  <2>6. Taken(x, a) = q[a]
    BY <2>1, <2>5 DEF Taken
  <2>7. /\ Taken(x, a) \in Nat /\ (Taken(x, a) > 0 => HasBatch(t, a))
        /\ batches'[a].qty = IF Taken(x, a) > 0 THEN q[a] - Taken(x, a) ELSE batches[a].qty
    BY <1>1, <2>1, BillOwnRows
  <2>8. batches[a].qty \in Nat
    BY <2>1, BatchFields
  <2>9. CASE Taken(x, a) > 0
    BY <2>6, <2>7, <2>9
  <2>10. CASE Taken(x, a) = 0
    <3>1. ASSUME batches[a].qty > 0 PROVE FALSE
      <4>1. HasBatch(t, a)
        BY <1>2, <2>1, <2>5, <3>1 DEF Chosen, ChosenPcs, PricedPcs, HasBatch
      <4>2. q[a] = batches[a].qty
        BY <2>1, <4>1 DEF ReadsInv
      <4>3. batches[a].qty = 0
        BY <2>6, <2>10, <4>2
      <4>. QED
        BY <3>1, <4>3
    <3>. QED
      BY <2>7, <2>8, <2>10, <3>1
  <2>. QED
    BY <2>7, <2>9, <2>10
<1>. QED
  BY <1>2, <1>5, <1>6 DEF At

-----------------------------------------------------------------------------
(* The ledger of a sale: its Batches in FEFO order                           *)

Upto(B, U, b) == {a \in U : a = b \/ FefoBefore(B, a, b)}

Nth(B, U, i) == CHOOSE b \in U : Cardinality(Upto(B, U, b)) = i

\* U is a set of the Batches B[1] .. B[n], whose expiry days are at most X.
RanksOf(B, U, n, X) ==
  n \in Nat /\ X \in Nat /\ U \in SUBSET (1..n) /\ \A b \in 1..n : B[b].expiry \in 0..X

LEMMA UptoFinite ==
  ASSUME NEW B, NEW U, NEW n, NEW X, RanksOf(B, U, n, X), NEW D \in SUBSET U
  PROVE  /\ IsFiniteSet(D) /\ Cardinality(D) \in Nat
         /\ (Cardinality(D) = 0) <=> (D = {})
         /\ \A C \in SUBSET D : Cardinality(C) <= Cardinality(D)
                                /\ (Cardinality(C) = Cardinality(D) => C = D)
<1>1. IsFiniteSet(1..n) /\ D \in SUBSET (1..n)
  BY FS_Interval DEF RanksOf
<1>2. IsFiniteSet(D)
  BY <1>1, FS_Subset
<1>3. Cardinality(D) \in Nat /\ ((Cardinality(D) = 0) <=> (D = {}))
  BY <1>2, FS_CardinalityType, FS_EmptySet
<1>4. \A C \in SUBSET D : Cardinality(C) <= Cardinality(D)
                                /\ (Cardinality(C) = Cardinality(D) => C = D)
  BY <1>2, FS_Subset
<1>. QED
  BY <1>2, <1>3, <1>4

LEMMA FefoTransitive ==
  ASSUME NEW B, NEW U, NEW n, NEW X, RanksOf(B, U, n, X), NEW a \in U, NEW b \in U, NEW c \in U,
         FefoBefore(B, a, b), FefoBefore(B, b, c)
  PROVE  FefoBefore(B, a, c)
<1>1. /\ a \in Nat /\ b \in Nat /\ c \in Nat
      /\ B[a].expiry \in Nat /\ B[b].expiry \in Nat /\ B[c].expiry \in Nat
  <2>1. n \in Nat /\ X \in Nat /\ \A i \in 1..n : B[i].expiry \in 0..X
    BY DEF RanksOf
  <2>2. a \in 1..n /\ b \in 1..n /\ c \in 1..n
    BY DEF RanksOf
  <2>. QED
    BY <2>1, <2>2
<1>. QED
  BY <1>1 DEF FefoBefore

\* What comes before b is what comes up to the Batch before it.
LEMMA UptoPrevious ==
  ASSUME NEW B, NEW U, NEW n, NEW X, RanksOf(B, U, n, X), NEW b \in U, Upto(B, U, b) \ {b} # {}
  PROVE  \E c \in U : Upto(B, U, c) = Upto(B, U, b) \ {b}
<1> DEFINE D == Upto(B, U, b) \ {b}
<1>1. /\ D \in SUBSET (1..n) /\ n \in Nat /\ X \in Nat /\ \A a \in 1..n : B[a].expiry \in 0..X
      /\ D \in SUBSET U /\ U \in SUBSET (1..n)
  BY DEF RanksOf, Upto
<1>2. PICK c \in D : \A a \in D : a # c => FefoBefore(B, a, c)
  BY <1>1, FefoLast
<1>3. c \in U /\ c # b /\ FefoBefore(B, c, b)
  BY <1>2 DEF Upto
<1>4. ASSUME NEW a \in Upto(B, U, c) PROVE a \in D
  <2>1. a \in U /\ (a = c \/ FefoBefore(B, a, c))
    BY <1>4 DEF Upto
  <2>2. CASE a = c
    BY <1>2, <2>2
  <2>3. CASE FefoBefore(B, a, c)
    <3>1. FefoBefore(B, a, b)
      BY <1>3, <2>1, <2>3, FefoTransitive
    <3>2. a # b
      <4>1. ~(FefoBefore(B, b, c) /\ FefoBefore(B, c, b))
        <5>1. b \in 1..n /\ c \in 1..n /\ \A i \in 1..n : B[i].expiry \in Nat
          BY <1>1, <1>3
        <5>. QED
          BY <1>1, <5>1, FefoOrder
      <4>. QED
        BY <1>3, <2>3, <4>1
    <3>. QED
      BY <2>1, <3>1, <3>2 DEF Upto
  <2>. QED
    BY <2>1, <2>2, <2>3
<1>5. ASSUME NEW a \in D PROVE a \in Upto(B, U, c)
  BY <1>1, <1>2, <1>5 DEF Upto
<1>6. Upto(B, U, c) = D
  BY <1>4, <1>5
<1>. QED
  BY <1>3, <1>6

\* Every rank up to the size of U is the rank of a Batch.
LEMMA RankExists ==
  ASSUME NEW B, NEW U, NEW n, NEW X, RanksOf(B, U, n, X), NEW i \in 1..Cardinality(U)
  PROVE  \E b \in U : Cardinality(Upto(B, U, b)) = i
<1> DEFINE m == Cardinality(U)
           Missing == {j \in 1..m : \A b \in U : Cardinality(Upto(B, U, b)) # j}
<1>0. m \in Nat /\ IsFiniteSet(U) /\ ((m = 0) <=> (U = {}))
  BY UptoFinite, U \in SUBSET U
<1>1. SUFFICES ASSUME Missing # {} PROVE FALSE
  OBVIOUS
<1>2. Missing \in SUBSET (0..m)
  BY <1>0
<1>3. PICK j \in Missing : \A k \in Missing : k <= j
  BY <1>0, <1>1, <1>2, LargestExists
<1>4. \E b \in U : Cardinality(Upto(B, U, b)) = m
  <2>1. U # {} /\ U \in SUBSET (1..n) /\ n \in Nat /\ X \in Nat /\ \A b \in 1..n : B[b].expiry \in 0..X
    BY <1>0 DEF RanksOf
  <2>2. PICK b \in U : \A a \in U : a # b => FefoBefore(B, a, b)
    BY <2>1, FefoLast
  <2>3. Upto(B, U, b) = U
    BY <2>2 DEF Upto
  <2>. QED
    BY <2>3
<1>5. j \in 1..m /\ j # m
  BY <1>3, <1>4
<1>6. j + 1 \in 1..m /\ j + 1 \notin Missing
  BY <1>0, <1>3, <1>5
<1>7. PICK b \in U : Cardinality(Upto(B, U, b)) = j + 1
  BY <1>6
<1> DEFINE D == Upto(B, U, b) \ {b}
<1>8. Cardinality(D) = j
  <2>1. IsFiniteSet(Upto(B, U, b)) /\ b \in Upto(B, U, b)
    BY UptoFinite DEF Upto
  <2>2. Cardinality(Upto(B, U, b) \ {b}) = Cardinality(Upto(B, U, b)) - 1
    BY <2>1, FS_RemoveElement
  <2>. QED
    BY <1>5, <1>7, <2>2
<1>9. D # {}
  BY <1>5, <1>8, FS_EmptySet
<1>10. PICK c \in U : Upto(B, U, c) = D
  BY <1>9, UptoPrevious
<1>11. Cardinality(Upto(B, U, c)) = j
  BY <1>8, <1>10
<1>. QED
  BY <1>3, <1>11

LEMMA RankUnique ==
  ASSUME NEW B, NEW U, NEW n, NEW X, RanksOf(B, U, n, X), NEW a \in U, NEW b \in U,
         Cardinality(Upto(B, U, a)) = Cardinality(Upto(B, U, b))
  PROVE  a = b
<1>0. /\ a \in 1..n /\ b \in 1..n /\ n \in Nat /\ \A i \in 1..n : B[i].expiry \in Nat
  BY DEF RanksOf
<1>1. ASSUME NEW c \in U, NEW d \in U, c # d, FefoBefore(B, c, d),
             Cardinality(Upto(B, U, c)) = Cardinality(Upto(B, U, d))
      PROVE  FALSE
  <2>1. Upto(B, U, c) \in SUBSET Upto(B, U, d)
    BY <1>1, FefoTransitive DEF Upto
  <2>2. Upto(B, U, d) \in SUBSET U
    BY DEF Upto
  <2>3. Upto(B, U, c) = Upto(B, U, d)
    BY <1>1, <2>1, <2>2, UptoFinite
  <2>4. FefoBefore(B, d, c)
    BY <1>1, <2>3 DEF Upto
  <2>5. c \in 1..n /\ d \in 1..n
    BY DEF RanksOf
  <2>6. ~(FefoBefore(B, c, d) /\ FefoBefore(B, d, c))
    BY <1>0, <2>5, FefoOrder
  <2>. QED
    BY <1>1, <2>4, <2>6
<1>2. a # b => FefoBefore(B, a, b) \/ FefoBefore(B, b, a)
  BY <1>0, FefoOrder
<1>. QED
  BY <1>1, <1>2

\* The Batches of U in order: each is added to what came before it.
LEMMA NthInOrder ==
  ASSUME NEW B, NEW U, NEW n, NEW X, RanksOf(B, U, n, X), NEW i \in 1..Cardinality(U)
  PROVE  LET b == Nth(B, U, i)
         IN  /\ b \in U /\ b \in Upto(B, U, b) /\ Upto(B, U, b) \subseteq U
             /\ Upto(B, U, b) \ {b} = IF i = 1 THEN {} ELSE Upto(B, U, Nth(B, U, i - 1))
             /\ i = Cardinality(U) => Upto(B, U, b) = U
<1> DEFINE b == Nth(B, U, i)
           m == Cardinality(U)
           D == Upto(B, U, b) \ {b}
<1>0. m \in Nat /\ IsFiniteSet(U)
  BY UptoFinite, U \in SUBSET U
<1>1. \A k \in 1..m : Nth(B, U, k) \in U /\ Cardinality(Upto(B, U, Nth(B, U, k))) = k
  BY RankExists DEF Nth
<1>2. b \in U /\ Cardinality(Upto(B, U, b)) = i
  BY <1>1
<1> HIDE DEF b
<1>3. b \in Upto(B, U, b) /\ Upto(B, U, b) \subseteq U
  BY <1>2 DEF Upto
<1>4. i = m => Upto(B, U, b) = U
  BY <1>2, <1>3, UptoFinite
<1>5. Cardinality(D) = i - 1
  <2>1. IsFiniteSet(Upto(B, U, b))
    BY <1>3, UptoFinite
  <2>. QED
    BY <1>2, <1>3, <2>1, FS_RemoveElement
<1>6. CASE i = 1
  <2>1. D \in SUBSET U
    BY <1>3
  <2>2. D = {}
    BY <1>5, <1>6, <2>1, UptoFinite
  <2>. QED
    BY <1>2, <1>3, <1>4, <1>6, <2>2 DEF b
<1>7. CASE i # 1
  <2>1. D # {} /\ i - 1 \in 1..m
    <3>1. i - 1 \in 1..m
      BY <1>0, <1>7
    <3>. QED
      BY <1>5, <1>7, <3>1, FS_EmptySet
  <2>2. PICK c \in U : Upto(B, U, c) = D
    BY <1>2, <2>1, UptoPrevious
  <2>3. c = Nth(B, U, i - 1)
    <3>1. /\ Nth(B, U, i - 1) \in U
          /\ Cardinality(Upto(B, U, Nth(B, U, i - 1))) = Cardinality(Upto(B, U, c))
      BY <1>1, <1>5, <2>1, <2>2
    <3>. QED
      BY <3>1, RankUnique
  <2>. QED
    BY <1>2, <1>3, <1>4, <1>7, <2>2, <2>3 DEF b
<1>. QED
  BY <1>6, <1>7

-----------------------------------------------------------------------------
(* The ledger                                                                *)

Bal(rows, first, i) == IF i = 0 THEN first ELSE rows[i].balance

\* The rows take the balance from first to last, each by its delta.
Explains(rows, first, last) ==
  /\ \A i \in 1..Len(rows) : Bal(rows, first, i) = Bal(rows, first, i - 1) + rows[i].delta
  /\ Bal(rows, first, Len(rows)) = last

LEMMA ExplainsMore ==
  ASSUME NEW rows \in Seq(LedgerRow), NEW more \in Seq(LedgerRow), NEW first, NEW middle, NEW last,
         Explains(rows, first, middle), Explains(more, middle, last)
  PROVE  Explains(rows \o more, first, last)
<1> DEFINE n == Len(rows)
           m == Len(more)
           all == rows \o more
<1>1. /\ n \in Nat /\ m \in Nat /\ Len(all) = n + m
      /\ \A i \in 1..n : all[i] = rows[i]
      /\ \A i \in 1..m : all[n + i] = more[i]
  <2>1. /\ n \in Nat /\ m \in Nat /\ Len(all) = n + m
        /\ \A i \in 1..(n + m) : all[i] = IF i <= n THEN rows[i] ELSE more[i - n]
    BY ConcatProperties
  <2> HIDE DEF all, n, m
  <2>2. ASSUME NEW i \in 1..m PROVE all[n + i] = more[i]
    <3>1. n + i \in 1..(n + m) /\ ~(n + i <= n) /\ (n + i) - n = i
      BY <2>1
    <3>. QED
      BY <2>1, <3>1
  <2>. QED
    BY <2>1, <2>2
<1>2. /\ \A i \in 1..n : Bal(rows, first, i) = Bal(rows, first, i - 1) + rows[i].delta
      /\ Bal(rows, first, n) = middle
      /\ \A i \in 1..m : Bal(more, middle, i) = Bal(more, middle, i - 1) + more[i].delta
      /\ Bal(more, middle, m) = last
  BY DEF Explains
<1> HIDE DEF all, n, m
<1>3. \A i \in 0..n : Bal(all, first, i) = Bal(rows, first, i)
  BY <1>1 DEF Bal
<1>4. \A i \in 0..m : Bal(all, first, n + i) = Bal(more, middle, i)
  <2> SUFFICES ASSUME NEW i \in 0..m PROVE Bal(all, first, n + i) = Bal(more, middle, i)
    OBVIOUS
  <2>1. CASE i = 0
    <3>1. Bal(all, first, n) = middle
      <4>1. n \in 0..n
        BY <1>1
      <4>. QED
        BY <1>2, <1>3, <4>1
    <3>2. Bal(more, middle, 0) = middle
      BY DEF Bal
    <3>3. n + i = n
      BY <1>1, <2>1
    <3>. QED
      BY <2>1, <3>1, <3>2, <3>3
  <2>2. CASE i # 0
    <3>1. i \in 1..m /\ n + i # 0
      BY <1>1, <2>2
    <3>2. all[n + i] = more[i]
      BY <1>1, <3>1
    <3>. QED
      BY <3>1, <3>2, <2>2 DEF Bal
  <2>. QED
    BY <2>1, <2>2
<1>5. ASSUME NEW i \in 1..(n + m)
      PROVE  Bal(all, first, i) = Bal(all, first, i - 1) + all[i].delta
  <2>1. CASE i \in 1..n
    <3>1. i \in 0..n /\ i - 1 \in 0..n /\ all[i] = rows[i]
      BY <1>1, <2>1
    <3>. QED
      BY <1>2, <1>3, <2>1, <3>1
  <2>2. CASE i \notin 1..n
    <3> DEFINE k == i - n
    <3>1. k \in 1..m /\ k - 1 \in 0..m /\ k \in 0..m /\ i = n + k /\ i - 1 = n + (k - 1)
      BY <1>1, <2>2
    <3> HIDE DEF k
    <3>2. all[i] = more[k]
      BY <1>1, <3>1
    <3>3. Bal(all, first, i) = Bal(more, middle, k) /\ Bal(all, first, i - 1) = Bal(more, middle, k - 1)
      BY <1>4, <3>1
    <3>. QED
      BY <1>2, <3>1, <3>2, <3>3
  <2>. QED
    BY <2>1, <2>2
<1>6. Bal(all, first, n + m) = last
  BY <1>1, <1>2, <1>4
<1>7. Explains(all, first, last)
  BY <1>1, <1>5, <1>6 DEF Explains
<1>. QED
  BY <1>7 DEF all

\* The rows of a sale take the balance from the quantity before the Bill to the
\* quantity after it, one Batch at a time.
LEMMA SaleRowsExplain ==
  ASSUME TypeInv, OwnsInv, ReadsInv, CoveredInv, NEW t \in Sessions, Bills(t), NEW p \in Products,
         NEW billId \in Nat
  PROVE  LET rows == SaleRows(tx[t], p, billId)
         IN  /\ rows \in Seq(LedgerRow)
             /\ \A i \in 1..Len(rows) : rows[i].reason = "sale"
             /\ Explains(rows, quantity[p], quantity'[p])
<1> DEFINE x == tx[t]
           n == Len(batches)
           need == x.lines[p]
           U == {b \in 1..n : batches[b].product = p /\ Taken(x, b) > 0}
           taken == [b \in 1..n |-> Taken(x, b)]
           m == Cardinality(U)
           nth(i) == Nth(batches, U, i)
           sum(i) == IF i = 0 THEN 0 ELSE SumOver(taken, Upto(batches, U, nth(i)), n)
           row(i) == [reason |-> "sale", ref |-> billId, delta |-> -Taken(x, nth(i)),
                      balance |-> x.qty[p] - SumOver(taken, Upto(batches, U, nth(i)), n)]
           rows == SaleRows(x, p, billId)
<1>1. rows = [i \in 1..m |-> row(i)]
  BY DEF SaleRows, Nth, Upto
<1>2. x \in TxType /\ n \in Nat
  BY BillWrites, OneSession
<1>3. RanksOf(batches, U, n, NoExpiry)
  <2>1. \A b \in 1..n : batches[b].expiry \in 0..NoExpiry
    BY BatchFields DEF BatchType
  <2>2. NoExpiry \in Nat
    BY BillingAssumption DEF NoExpiry
  <2>. QED
    BY <1>2, <2>1, <2>2 DEF RanksOf
<1>4. \A b \in 1..n : Taken(x, b) \in Nat /\ taken[b] = Taken(x, b)
  BY BillOwnRows
<1>5. /\ need \in Nat /\ x.qty[p] \in Int /\ quantity[p] \in Int
      /\ quantity'[p] = IF need > 0 THEN x.qty[p] - need ELSE quantity[p]
      /\ need > 0 => x.qty[p] = quantity[p]
  <2>1. x.qty[p] \in Int /\ quantity[p] \in Int /\ need \in Nat
    BY <1>2 DEF TxType, TypeInv, Tables
  <2>2. /\ quantity'[p] = IF need > 0 THEN x.qty[p] - need ELSE quantity[p]
        /\ HasProduct(t, p) \/ need = 0
    BY BillOwnRows
  <2>. QED
    BY <2>1, <2>2 DEF ReadsInv
<1>6. SumOver(taken, U, n) = need
  <2> DEFINE take == FefoTakes(batches, x.batch, p, x.asOf, x.lines[p])
             f == [b \in 1..n |-> IF b \in U THEN taken[b] ELSE 0]
  <2>1. /\ SumTo(take, n) = need
        /\ \A b \in 1..n : take[b] = IF batches[b].product = p THEN Taken(x, b) ELSE 0
    BY SaleTaken
  <2>2. ASSUME NEW b \in 1..n PROVE f[b] = take[b]
    BY <1>4, <2>1
  <2>3. SumOver(taken, U, n) = SumTo(f, n)
    BY DEF SumOver
  <2> HIDE DEF take, f
  <2>. QED
    BY <1>2, <2>1, <2>2, <2>3, SumSame
<1>7. need = 0 => U = {}
  <2> SUFFICES ASSUME need = 0, NEW b \in U PROVE FALSE
    OBVIOUS
  <2> DEFINE earlier == {a \in SellableBatches(batches, p, x.asOf) : FefoBefore(batches, a, b)}
             before  == SumOver(x.batch, earlier, n)
  <2>1. \A a \in 1..n : x.batch[a] \in Nat
    BY <1>2, OneSession, BillingAssumption DEF TxType, BatchIds
  <2>2. before \in Nat
    BY <1>2, <2>1, SumOverTyped
  <2>3. Taken(x, b) = FefoTake(batches, x.batch, p, x.asOf, 0, b)
    BY DEF Taken
  <2>4. 0 - before <= 0
    BY <2>2
  <2>5. FefoTake(batches, x.batch, p, x.asOf, 0, b) = 0
    BY <2>4 DEF FefoTake
  <2>. QED
    BY <2>3, <2>5
<1> HIDE DEF U, taken, need
<1>8. m \in Nat /\ ((m = 0) <=> (U = {}))
  BY <1>3, UptoFinite, U \in SUBSET U
<1> HIDE DEF m
<1>9. ASSUME NEW i \in 1..m
      PROVE  /\ nth(i) \in 1..n /\ Taken(x, nth(i)) \in Nat
             /\ sum(i) \in Nat /\ sum(i) = sum(i - 1) + Taken(x, nth(i))
             /\ i = m => sum(i) = need
  <2> DEFINE b == nth(i)
             D == Upto(batches, U, b)
  <2>1. /\ b \in U /\ b \in D /\ D \subseteq U
        /\ D \ {b} = IF i = 1 THEN {} ELSE Upto(batches, U, nth(i - 1))
        /\ i = m => D = U
    BY <1>3, NthInOrder DEF m
  <2>2. b \in 1..n /\ Taken(x, b) \in Nat /\ taken[b] = Taken(x, b)
    BY <1>4, <2>1 DEF U
  <2>3. \A a \in 1..n : taken[a] \in Nat
    BY <1>4
  <2>4. sum(i) = SumOver(taken, D, n)
    BY <1>8
  <2>5. sum(i - 1) = SumOver(taken, D \ {b}, n)
    <3>1. CASE i = 1
      BY <1>2, <2>1, <3>1, SumOverEmpty
    <3>2. CASE i # 1
      <4>1. i - 1 # 0
        BY <1>8, <3>2
      <4>2. sum(i - 1) = SumOver(taken, Upto(batches, U, nth(i - 1)), n)
        BY <4>1
      <4>3. D \ {b} = Upto(batches, U, nth(i - 1))
        BY <2>1, <3>2
      <4> HIDE DEF D, b, sum
      <4>. QED
        BY <4>2, <4>3
    <3>. QED
      BY <3>1, <3>2
  <2> HIDE DEF b, D
  <2>6. SumOver(taken, (D \ {b}) \cup {b}, n) = SumOver(taken, D \ {b}, n) + taken[b]
    <3> DEFINE E == D \ {b}
    <3>1. b \notin E
      OBVIOUS
    <3> HIDE DEF E
    <3>2. SumOver(taken, E \cup {b}, n) = SumOver(taken, E, n) + taken[b]
      BY <1>2, <2>2, <2>3, <3>1, SumOverAdd
    <3>. QED
      BY <3>2 DEF E
  <2>7. (D \ {b}) \cup {b} = D
    BY <2>1
  <2>8. SumOver(taken, D, n) \in Nat
    BY <1>2, <2>3, SumOverTyped
  <2>. QED
    BY <1>6, <2>1, <2>2, <2>4, <2>5, <2>6, <2>7, <2>8 DEF b
<1>10. ASSUME NEW i \in 1..m
       PROVE  /\ row(i) \in LedgerRow /\ row(i).reason = "sale"
              /\ row(i).balance = x.qty[p] - sum(i) /\ row(i).delta = -Taken(x, nth(i))
  <2>1. sum(i) = SumOver(taken, Upto(batches, U, nth(i)), n)
    BY <1>8
  <2> DEFINE d == -Taken(x, nth(i))
             l == x.qty[p] - sum(i)
  <2>2. d \in Int /\ l \in Int
    BY <1>5, <1>9
  <2>3. row(i) = [reason |-> "sale", ref |-> billId, delta |-> d, balance |-> l]
    BY <2>1
  <2> HIDE DEF d, l, row
  <2>. QED
    BY <2>2, <2>3 DEF LedgerRow, d, l
<1> HIDE DEF nth, sum, row, rows
<1>11. /\ rows \in Seq(LedgerRow) /\ Len(rows) = m /\ \A i \in 1..m : rows[i] = row(i)
  BY <1>1, <1>8, <1>10
<1>12. Explains(rows, quantity[p], quantity'[p])
  <2>1. CASE m = 0
    <3>1. need = 0
      BY <1>2, <1>6, <1>8, <2>1, SumOverEmpty
    <3>. QED
      BY <1>5, <1>11, <2>1, <3>1 DEF Explains, Bal
  <2>2. CASE m # 0
    <3>1. need > 0
      BY <1>5, <1>7, <1>8, <2>2
    <3>2. ASSUME NEW i \in 0..m PROVE Bal(rows, quantity[p], i) = x.qty[p] - sum(i)
      <4>1. CASE i = 0
        BY <1>5, <3>1, <4>1 DEF Bal, sum
      <4>2. CASE i # 0
        <5>1. i \in 1..m
          BY <1>8, <4>2
        <5>. QED
          BY <1>10, <1>11, <4>2, <5>1 DEF Bal
      <4>. QED
        BY <4>1, <4>2
    <3>3. ASSUME NEW i \in 1..m
          PROVE  Bal(rows, quantity[p], i) = Bal(rows, quantity[p], i - 1) + rows[i].delta
      <4>1. i \in 0..m /\ i - 1 \in 0..m
        BY <1>8
      <4>2. sum(i - 1) \in Int
        <5>1. CASE i = 1
          BY <5>1 DEF sum
        <5>2. CASE i # 1
          <6>1. i - 1 \in 1..m
            BY <1>8, <5>2
          <6>. QED
            BY <1>9, <6>1
        <5>. QED
          BY <5>1, <5>2
      <4>3. rows[i].delta = -Taken(x, nth(i)) /\ sum(i) = sum(i - 1) + Taken(x, nth(i))
            /\ Taken(x, nth(i)) \in Nat
        BY <1>9, <1>10, <1>11
      <4>4. Bal(rows, quantity[p], i) = x.qty[p] - sum(i) /\ Bal(rows, quantity[p], i - 1) = x.qty[p] - sum(i - 1)
        BY <3>2, <4>1
      <4>. QED
        BY <1>5, <4>2, <4>3, <4>4
    <3>4. Bal(rows, quantity[p], m) = quantity'[p]
      <4>1. m \in 0..m /\ m \in 1..m
        BY <1>8, <2>2
      <4>2. sum(m) = need
        BY <1>9, <4>1
      <4>3. Bal(rows, quantity[p], m) = x.qty[p] - sum(m)
        BY <3>2, <4>1
      <4>. QED
        BY <1>5, <3>1, <4>2, <4>3
    <3>. QED
      BY <1>11, <3>3, <3>4 DEF Explains
  <2>. QED
    BY <2>1, <2>2
<1>13. \A i \in 1..Len(rows) : rows[i].reason = "sale"
  BY <1>10, <1>11
<1>. QED
  BY <1>11, <1>12, <1>13 DEF rows

\* The rows a step adds to a Product's ledger explain what it does to its quantity.
LEMMA LedgerGrows ==
  ASSUME TypeInv, OwnsInv, DraftsInv, ReadsInv, CoveredInv, StockIsBatchSum, LedgerInv,
         NEW t \in Sessions, Steps(t), NEW p \in Products
  PROVE  \/ ledger'[p] = ledger[p] /\ quantity'[p] = quantity[p] /\ ~Bills(t)
         \/ \E more \in Seq(LedgerRow) :
              /\ ledger'[p] = ledger[p] \o more /\ Explains(more, quantity[p], quantity'[p])
              /\ \/ Bills(t) /\ \A i \in 1..Len(more) : more[i].reason = "sale"
                 \/ /\ ~Bills(t) /\ Len(more) = 1 /\ more[1].reason = "stock_in"
                    /\ UNCHANGED bills
<1>0. ledger[p] \in Seq(LedgerRow) /\ ledger \in [Products -> Seq(LedgerRow)]
  BY DEF LedgerInv
<1>1. ASSUME UNCHANGED stock \/ Creates(t) \/ CommitReceive(t) PROVE ~Bills(t)
  <2> SUFFICES ASSUME Bills(t) PROVE FALSE
    OBVIOUS
  <2>1. bills' = Append(bills, NewBill(tx[t])) /\ bills \in Seq(BillType)
    BY BillWrites DEF TypeInv, Tables
  <2>2. bills' = bills
    BY <1>1 DEF stock, Creates, CommitReceive
  <2>3. Len(bills') = Len(bills) + 1 /\ Len(bills) \in Nat
    BY <2>1
  <2>. QED
    BY <2>2, <2>3
<1>2. CASE UNCHANGED stock \/ Creates(t)
  BY <1>1, <1>2 DEF stock, Creates
<1>3. CASE Bills(t)
  <2> DEFINE more == SaleRows(tx[t], p, Len(bills) + 1)
  <2>1. ledger'[p] = ledger[p] \o more
    BY <1>3 DEF Bills, CommitBill
  <2>2. Len(bills) + 1 \in Nat
    BY DEF TypeInv, Tables
  <2>3. /\ more \in Seq(LedgerRow) /\ Explains(more, quantity[p], quantity'[p])
        /\ \A i \in 1..Len(more) : more[i].reason = "sale"
    BY <1>3, <2>2, SaleRowsExplain
  <2> HIDE DEF more
  <2>. QED
    BY <1>3, <2>1, <2>3
<1>4. CASE CommitReceive(t)
  <2> DEFINE call == tx[t].call
             r == call.product
             received == Append(batches, [product |-> r, qty |-> call.qty, expiry |-> call.expiry])
             onHand == OnHand(received, r)
             row == [reason |-> "stock_in", ref |-> Len(received), delta |-> call.qty, balance |-> onHand]
  <2>1. /\ ledger' = [ledger EXCEPT ![r] = Append(@, row)] /\ batches' = received /\ UNCHANGED bills
    BY <1>4 DEF CommitReceive
  <2>2. /\ r \in Products /\ \A q \in Products \ {r} : quantity'[q] = quantity[q]
        /\ quantity'[r] = OnHand(batches', r)
        /\ Longer(batches, batches') /\ Len(batches') = Len(batches) + 1
        /\ batches'[Len(batches) + 1].product = r
        /\ batches'[Len(batches) + 1].qty = call.qty /\ call.qty \in Nat
    BY <1>4, ReceiveOwnRows DEF Longer
  <2>3. CASE p # r
    <3> HIDE DEF r, row
    <3>1. ledger'[p] = ledger[p]
      BY <1>0, <2>1, <2>3
    <3>. QED
      BY <1>1, <1>4, <2>2, <2>3, <3>1
  <2>4. CASE p = r
    <3>1. OnHand(batches', r) = OnHand(batches, r) + call.qty
      BY <2>2, OnHandLonger
    <3>2. quantity[p] \in Int /\ quantity[p] = OnHand(batches, p)
      BY DEF StockIsBatchSum, TypeInv, Tables
    <3>3. onHand = quantity'[p] /\ onHand = quantity[p] + call.qty /\ onHand \in Int
      BY <2>1, <2>2, <2>4, <3>1, <3>2
    <3>4. Len(received) \in Nat
      BY <2>1, <2>2 DEF Longer
    <3> HIDE DEF onHand, received
    <3>5. row \in LedgerRow /\ row.reason = "stock_in" /\ row.delta = call.qty /\ row.balance = onHand
      BY <2>2, <3>3, <3>4 DEF LedgerRow
    <3> HIDE DEF row, r, call
    <3>6. ledger'[p] = Append(ledger[p], row)
      BY <1>0, <2>1, <2>4
    <3>7. Append(ledger[p], row) = ledger[p] \o <<row>>
      BY <1>0, <3>5, AppendIsConcat
    <3>8. <<row>> \in Seq(LedgerRow) /\ Len(<<row>>) = 1 /\ <<row>>[1] = row
      BY <3>5
    <3>9. Explains(<<row>>, quantity[p], quantity'[p])
      BY <2>2, <3>2, <3>3, <3>5, <3>8 DEF Explains, Bal
    <3>10. ledger'[p] = ledger[p] \o <<row>>
      BY <3>6, <3>7
    <3> DEFINE more == <<row>>
    <3>11. more[1].reason = "stock_in"
      BY <3>5, <3>8
    <3>12. more \in Seq(LedgerRow) /\ Len(more) = 1
      BY <3>8
    <3>13. ledger'[p] = ledger[p] \o more /\ Explains(more, quantity[p], quantity'[p])
      BY <3>9, <3>10
    <3> HIDE DEF more
    <3>. QED
      BY <1>1, <1>4, <2>1, <3>11, <3>12, <3>13
  <2>. QED
    BY <2>3, <2>4
<1>. QED
  BY <1>2, <1>3, <1>4, StockKind

Explained == \A p \in Products : Explains(ledger[p], OnHand(OpeningBatches, p), quantity[p])

LEMMA ExplainedIs == Explained <=> LedgerExplainsStock
BY DEF Explained, Explains, Bal, LedgerExplainsStock

LEMMA LedgerStep ==
  ASSUME TypeInv, OwnsInv, DraftsInv, ReadsInv, CoveredInv, StockIsBatchSum, LedgerInv, Explained,
         NEW t \in Sessions, Steps(t)
  PROVE  LedgerInv' /\ Explained'
<1>1. ASSUME NEW p \in Products
      PROVE  /\ ledger'[p] \in Seq(LedgerRow)
             /\ Explains(ledger'[p], OnHand(OpeningBatches, p), quantity'[p])
  <2>1. ledger[p] \in Seq(LedgerRow) /\ Explains(ledger[p], OnHand(OpeningBatches, p), quantity[p])
    BY DEF LedgerInv, Explained
  <2>2. ASSUME NEW more \in Seq(LedgerRow), ledger'[p] = ledger[p] \o more,
               Explains(more, quantity[p], quantity'[p])
        PROVE  /\ ledger'[p] \in Seq(LedgerRow)
               /\ Explains(ledger'[p], OnHand(OpeningBatches, p), quantity'[p])
    BY <2>1, <2>2, ExplainsMore
  <2>. QED
    BY <2>1, <2>2, LedgerGrows
<1>2. ledger' \in [Products -> Seq(LedgerRow)]
  <2>1. ledger' = [p \in Products |-> ledger'[p]]
    <3>1. CASE Bills(t)
      BY <3>1 DEF Bills, CommitBill
    <3>2. CASE UNCHANGED ledger
      BY <3>2 DEF LedgerInv
    <3>3. CASE CommitReceive(t)
      BY <3>3 DEF CommitReceive, LedgerInv
    <3>. QED
      BY <3>1, <3>2, <3>3, StockKind DEF stock, Creates
  <2>. QED
    BY <1>1, <2>1
<1>. QED
  BY <1>1, <1>2 DEF LedgerInv, Explained

-----------------------------------------------------------------------------
(* Stock is conserved                                                        *)

LEMMA SumZeros ==
  ASSUME NEW n \in Nat, NEW k \in Nat, NEW f, NEW g, \A i \in 1..n : g[i] = f[i] /\ f[i] \in Int,
         \A i \in 1..k : g[n + i] = 0
  PROVE  SumTo(g, n + k) = SumTo(f, n)
<1> DEFINE S == {j \in Nat : j <= k => SumTo(g, n + j) = SumTo(f, n)}
<1>0. SumTo(f, n) \in Int
  BY SumTyped
<1>1. 0 \in S
  BY SumSame
<1>2. ASSUME NEW j \in S PROVE j + 1 \in S
  <2> SUFFICES ASSUME j + 1 <= k PROVE SumTo(g, n + (j + 1)) = SumTo(f, n)
    OBVIOUS
  <2>1. j \in Nat /\ j <= k /\ SumTo(g, n + j) = SumTo(f, n) /\ j + 1 \in 1..k
    OBVIOUS
  <2>2. n + j \in Nat /\ (n + j) + 1 = n + (j + 1)
    BY <2>1
  <2>3. SumTo(g, (n + j) + 1) = SumTo(g, n + j) + g[(n + j) + 1]
    BY <2>2, SumToNext
  <2>4. g[n + (j + 1)] = 0
    BY <2>1
  <2>. QED
    BY <1>0, <2>1, <2>2, <2>3, <2>4
<1>3. S \in SUBSET Nat
  OBVIOUS
<1> HIDE DEF S
<1>4. S = Nat
  BY <1>1, <1>2, <1>3, SetInduction
<1>5. k \in S
  BY <1>4
<1>. QED
  BY <1>5 DEF S

\* What the rows say was received.
StockInOf(rows) ==
  LET stockIn == {e \in 1..Len(rows) : rows[e].reason = "stock_in"}
  IN  SumOver([e \in 1..Len(rows) |-> rows[e].delta], stockIn, Len(rows))

LEMMA StockInMore ==
  ASSUME NEW rows \in Seq(LedgerRow), NEW more \in Seq(LedgerRow)
  PROVE  /\ StockInOf(rows) \in Int
         /\ (\A i \in 1..Len(more) : more[i].reason = "sale") => StockInOf(rows \o more) = StockInOf(rows)
         /\ Len(more) = 1 /\ more[1].reason = "stock_in" =>
              StockInOf(rows \o more) = StockInOf(rows) + more[1].delta
<1> DEFINE n == Len(rows)
           m == Len(more)
           all == rows \o more
           in(r, e) == IF r[e].reason = "stock_in" THEN r[e].delta ELSE 0
           f == [e \in 1..n |-> in(rows, e)]
           g == [e \in 1..(n + m) |-> in(all, e)]
<1>1. /\ n \in Nat /\ m \in Nat /\ Len(all) = n + m
      /\ \A i \in 1..(n + m) : all[i] = IF i <= n THEN rows[i] ELSE more[i - n]
  BY ConcatProperties
<1>2. \A i \in 1..n : rows[i] \in LedgerRow
  OBVIOUS
<1>3. \A i \in 1..n : f[i] \in Int
  BY <1>2 DEF LedgerRow
<1>4. ASSUME NEW r, NEW k \in Nat, Len(r) = k
      PROVE  StockInOf(r) = SumTo([e \in 1..k |-> in(r, e)], k)
  <2> DEFINE d == [e \in 1..k |-> r[e].delta]
             T == {e \in 1..k : r[e].reason = "stock_in"}
  <2>1. StockInOf(r) = SumTo([e \in 1..k |-> IF e \in T THEN d[e] ELSE 0], k)
    BY <1>4 DEF StockInOf, SumOver
  <2>2. [e \in 1..k |-> IF e \in T THEN d[e] ELSE 0] = [e \in 1..k |-> in(r, e)]
    OBVIOUS
  <2>. QED
    BY <2>1, <2>2
<1>5. StockInOf(rows) = SumTo(f, n) /\ StockInOf(all) = SumTo(g, n + m)
  <2>1. n + m \in Nat
    BY <1>1
  <2>. QED
    BY <1>1, <1>4, <2>1
<1> HIDE DEF n, m, all
<1>6. \A i \in 1..n : g[i] = f[i]
  BY <1>1
<1>7. \A i \in 1..m : g[n + i] = in(more, i)
  <2> SUFFICES ASSUME NEW i \in 1..m PROVE g[n + i] = in(more, i)
    OBVIOUS
  <2>1. n + i \in 1..(n + m) /\ ~(n + i <= n) /\ (n + i) - n = i
    BY <1>1
  <2>2. all[n + i] = more[i]
    BY <1>1, <2>1
  <2>. QED
    BY <2>1, <2>2
<1>8. \A i \in 1..m : more[i].reason = "sale" => in(more, i) = 0
  OBVIOUS
<1>9. \A i \in 1..m : more[i].reason = "stock_in" => in(more, i) = more[i].delta
  OBVIOUS
<1> HIDE DEF f, g, in
<1>10. SumTo(f, n) \in Int
  BY <1>1, <1>3, SumTyped
<1>11. ASSUME \A i \in 1..m : more[i].reason = "sale" PROVE SumTo(g, n + m) = SumTo(f, n)
  <2>1. \A i \in 1..m : g[n + i] = 0
    BY <1>7, <1>8, <1>11
  <2>. QED
    BY <1>1, <1>3, <1>6, <2>1, SumZeros
<1>12. ASSUME m = 1, more[1].reason = "stock_in" PROVE SumTo(g, n + m) = SumTo(f, n) + more[1].delta
  <2>1. SumTo(g, n + 1) = SumTo(f, n) + g[n + 1]
    BY <1>1, <1>6, SumLonger
  <2>2. g[n + 1] = more[1].delta
    BY <1>7, <1>9, <1>12
  <2>. QED
    BY <1>12, <2>1, <2>2
<1>. QED
  BY <1>5, <1>10, <1>11, <1>12 DEF m, all

LEMMA SoldStep ==
  ASSUME TypeInv, NEW t \in Sessions, NEW p \in Products
  PROVE  /\ Sold(p) \in Nat
         /\ Bills(t) => Sold(p)' = Sold(p) + tx[t].lines[p] /\ tx[t].lines[p] \in Nat
<1> DEFINE n == Len(bills)
           f == [b \in 1..n |-> bills[b].lines[p]]
           g == [b \in 1..(n + 1) |-> bills'[b].lines[p]]
<1>1. n \in Nat /\ bills \in Seq(BillType)
  BY DEF TypeInv, Tables
<1>2. \A b \in 1..n : bills[b] \in BillType
  BY <1>1
<1>3. \A b \in 1..n : f[b] \in Nat
  BY <1>2 DEF BillType
<1>4. Sold(p) = SumTo(f, n)
  BY DEF Sold
<1>5. SumTo(f, n) \in Nat
  <2> HIDE DEF f, n
  <2>. QED
    BY <1>1, <1>3, SumTyped
<1>6. ASSUME Bills(t) PROVE Sold(p)' = Sold(p) + tx[t].lines[p] /\ tx[t].lines[p] \in Nat
  <2>1. Len(bills') = n + 1 /\ (\A b \in 1..n : bills'[b] = bills[b]) /\ bills'[n + 1] = NewBill(tx[t])
    <3>1. bills' = Append(bills, NewBill(tx[t]))
      BY <1>6, BillWrites
    <3>. QED
      BY <1>1, <3>1
  <2>2. Sold(p)' = SumTo(g, n + 1)
    BY <2>1 DEF Sold
  <2>3. g[n + 1] = tx[t].lines[p]
    BY <1>1, <2>1 DEF NewBill
  <2>4. \A b \in 1..n : g[b] = f[b]
    BY <1>1, <2>1
  <2>5. tx[t].lines[p] \in Nat
    BY OneSession DEF TxType
  <2> HIDE DEF f, g, n
  <2>6. SumTo(g, n + 1) = SumTo(f, n) + g[n + 1]
    BY <1>1, <2>4, SumLonger
  <2>. QED
    BY <1>4, <2>2, <2>3, <2>5, <2>6
<1>. QED
  BY <1>4, <1>5, <1>6

LEMMA ConservedStep ==
  ASSUME TypeInv, OwnsInv, DraftsInv, ReadsInv, CoveredInv, StockIsBatchSum, LedgerInv, StockConserved,
         NEW t \in Sessions, Steps(t)
  PROVE  StockConserved'
<1> SUFFICES ASSUME NEW p \in Products
             PROVE  OnHand(OpeningBatches, p) + Received(p)' = quantity'[p] + Sold(p)'
  BY DEF StockConserved
<1> DEFINE opening == OnHand(OpeningBatches, p)
<1>0. /\ opening \in Nat /\ quantity[p] \in Int /\ ledger[p] \in Seq(LedgerRow)
      /\ opening + Received(p) = quantity[p] + Sold(p) /\ Sold(p) \in Nat
  <2>1. opening \in Nat
    BY BillingAssumption, OnHandTyped DEF BatchType
  <2>. QED
    BY <2>1, SoldStep DEF TypeInv, Tables, LedgerInv, StockConserved
<1>1. Received(p) = StockInOf(ledger[p]) /\ Received(p)' = StockInOf(ledger'[p])
  BY DEF Received, StockInOf
<1>2. StockInOf(ledger[p]) \in Int
  BY <1>0, StockInMore
<1> HIDE DEF opening
<1>3. CASE ledger'[p] = ledger[p] /\ quantity'[p] = quantity[p] /\ ~Bills(t)
  <2>1. bills' = bills
    BY <1>3, StockKind DEF stock, Creates, CommitReceive
  <2>2. Sold(p)' = Sold(p)
    BY <2>1 DEF Sold
  <2>. QED
    BY <1>0, <1>1, <1>3, <2>2 DEF opening
<1>4. ASSUME NEW more \in Seq(LedgerRow), ledger'[p] = ledger[p] \o more,
             Bills(t), \A i \in 1..Len(more) : more[i].reason = "sale"
      PROVE  opening + Received(p)' = quantity'[p] + Sold(p)'
  <2>1. Received(p)' = Received(p)
    BY <1>0, <1>1, <1>4, StockInMore
  <2>2. Sold(p)' = Sold(p) + tx[t].lines[p] /\ tx[t].lines[p] \in Nat
    BY <1>4, SoldStep
  <2>3. quantity'[p] = quantity[p] - tx[t].lines[p]
    <3>1. /\ HasProduct(t, p) \/ (tx[t].lines[p] = 0 /\ quantity'[p] = quantity[p])
          /\ quantity'[p] = IF tx[t].lines[p] > 0 THEN tx[t].qty[p] - tx[t].lines[p] ELSE quantity[p]
      BY <1>4, BillOwnRows
    <3>2. HasProduct(t, p) => tx[t].qty[p] = quantity[p]
      BY DEF ReadsInv
    <3>. QED
      BY <1>0, <2>2, <3>1, <3>2
  <2>. QED
    BY <1>0, <1>1, <1>2, <2>1, <2>2, <2>3
<1>5. ASSUME NEW more \in Seq(LedgerRow), ledger'[p] = ledger[p] \o more,
             Explains(more, quantity[p], quantity'[p]), Len(more) = 1,
             more[1].reason = "stock_in", UNCHANGED bills
      PROVE  opening + Received(p)' = quantity'[p] + Sold(p)'
  <2>1. Received(p)' = Received(p) + more[1].delta
    BY <1>0, <1>1, <1>5, StockInMore
  <2>2. Sold(p)' = Sold(p)
    BY <1>5 DEF Sold
  <2>3. quantity'[p] = quantity[p] + more[1].delta
    BY <1>5 DEF Explains, Bal
  <2>4. more[1] \in LedgerRow
    <3>1. 1 \in 1..Len(more)
      BY <1>5
    <3> HIDE DEF LedgerRow
    <3>. QED
      BY <3>1
  <2> DEFINE d == more[1].delta
  <2>5. d \in Int
    BY <2>4 DEF LedgerRow
  <2>6. Received(p)' = Received(p) + d /\ quantity'[p] = quantity[p] + d
    BY <2>1, <2>3
  <2> HIDE DEF d
  <2>7. /\ opening \in Int /\ quantity[p] \in Int /\ Received(p) \in Int /\ Sold(p) \in Int
        /\ opening + Received(p) = quantity[p] + Sold(p)
    BY <1>0, <1>1, <1>2
  <2> DEFINE S == Sold(p)
             R == Received(p)
             q == quantity[p]
  <2>8. /\ opening \in Int /\ q \in Int /\ R \in Int /\ S \in Int /\ opening + R = q + S
        /\ Received(p)' = R + d /\ quantity'[p] = q + d /\ Sold(p)' = S
    BY <2>2, <2>6, <2>7
  <2> HIDE DEF S, R, q
  <2>9. opening + (R + d) = (q + d) + S
    BY <2>5, <2>8
  <2>. QED
    BY <2>8, <2>9
<1>. QED
  BY <1>3, <1>4, <1>5, LedgerGrows DEF opening

-----------------------------------------------------------------------------
(* The inductive invariant                                                   *)

\* What holds of the tables, and of what the sessions have in hand of them.
TableInv ==
  /\ OwnsInv /\ DraftsInv /\ ChatsInv /\ SeqInv /\ RowsInv /\ ReadsInv /\ CoveredInv
  /\ ChosenInv /\ KhataInv /\ BillsMatchDrafts /\ InvoicesGapFree /\ StockIsBatchSum
  /\ LedgerInv /\ Explained /\ StockConserved

BillingInv == TypeInv /\ LockInv /\ TableInv

LEMMA TableInvStill ==
  ASSUME TableInv, \A u \in Sessions : Still(u), UNCHANGED tables
  PROVE  TableInv'
<1>1. OwnsInv'
  BY DEF TableInv, OwnsInv, Still, OwnsOfPc, OwnsDraft, OwnsCounter, OwnsProducts, OwnsBatches
<1>2. DraftsInv'
  BY DEF TableInv, DraftsInv, Still, tables, OpenDrafts, BothOpen
<1>3. ChatsInv' /\ SeqInv' /\ RowsInv'
  BY DEF TableInv, ChatsInv, SeqInv, RowsInv, Still, tables, Op, At
<1>4. ReadsInv'
  BY DEF TableInv, ReadsInv, HasProduct, HasBatch, Still, tables
<1>7. ChosenInv'
  BY DEF TableInv, ChosenInv, Chosen, Still, tables
<1>5. CoveredInv'
  <2> SUFFICES ASSUME NEW t \in Sessions, tx'[t].pc \in PricedPcs, NEW p \in Products
               PROVE  ~(SellableQuantity(batches', tx'[t].batch, p, tx'[t].asOf) < tx'[t].lines[p])
    BY DEF CoveredInv, Oversold
  <2>1. tx'[t] = tx[t] /\ batches' = batches
    BY DEF Still, tables
  <2>2. ~(SellableQuantity(batches, tx[t].batch, p, tx[t].asOf) < tx[t].lines[p])
    BY <2>1 DEF TableInv, CoveredInv, Oversold
  <2>. QED
    BY <2>1, <2>2
<1>6. KhataInv' /\ BillsMatchDrafts' /\ InvoicesGapFree' /\ StockIsBatchSum'
  <2>0. /\ drafts' = drafts /\ bills' = bills /\ khata' = khata /\ counter' = counter
        /\ quantity' = quantity /\ batches' = batches
    BY DEF tables
  <2>1. KhataInv'
    BY <2>0 DEF TableInv, KhataInv, ChargesInv, KhataChargedOnce
  <2>2. BillsMatchDrafts'
    BY <2>0 DEF TableInv, BillsMatchDrafts
  <2>3. InvoicesGapFree'
    BY <2>0 DEF TableInv, InvoicesGapFree
  <2>4. StockIsBatchSum'
    BY <2>0 DEF TableInv, StockIsBatchSum
  <2>. QED
    BY <2>1, <2>2, <2>3, <2>4
<1>8. LedgerInv' /\ Explained' /\ StockConserved'
  <2>1. ledger' = ledger /\ quantity' = quantity /\ bills' = bills
    BY DEF tables
  <2>2. LedgerInv' /\ Explained'
    BY <2>1 DEF TableInv, LedgerInv, Explained
  <2>3. \A p : Received(p)' = Received(p) /\ Sold(p)' = Sold(p)
    BY <2>1 DEF Received, Sold
  <2>4. StockConserved'
    BY <2>1, <2>3 DEF TableInv, StockConserved
  <2>. QED
    BY <2>2, <2>4
<1>. QED
  BY <1>1, <1>2, <1>3, <1>4, <1>5, <1>6, <1>7, <1>8 DEF TableInv

LEMMA TableInvStep ==
  ASSUME BillingInv, TypeInv', LockInv', NEW t \in Sessions, Steps(t), OwnsInv'
  PROVE  TableInv'
<1>1. /\ TypeInv /\ LocksExclude /\ OrderInv /\ OwnsInv /\ DraftsInv /\ ChatsInv /\ SeqInv /\ RowsInv
      /\ ReadsInv /\ CoveredInv /\ ChosenInv /\ KhataInv /\ BillsMatchDrafts /\ InvoicesGapFree
      /\ StockIsBatchSum /\ LedgerInv /\ Explained /\ StockConserved
  BY DEF BillingInv, LockInv, TableInv
<1>2. DraftsInv' /\ ChatsInv' /\ BillsMatchDrafts'
  BY <1>1, DraftsStep, ChatsStep, MatchStep
<1>3. SeqInv' /\ InvoicesGapFree' /\ KhataInv'
  BY <1>1, SeqStep, InvoicesStep, KhataStep
<1>4. RowsInv' /\ ReadsInv' /\ CoveredInv' /\ ChosenInv' /\ StockIsBatchSum'
  BY <1>1, RowsStep, ReadsStep, CoveredStep, ChosenStep, StockStep
<1>5. LedgerInv' /\ Explained' /\ StockConserved'
  BY <1>1, LedgerStep, ConservedStep
<1>. QED
  BY <1>2, <1>3, <1>4, <1>5 DEF TableInv

LEMMA BillingInvNext == BillingInv /\ [Next]_vars => BillingInv'
<1> SUFFICES ASSUME BillingInv, [Next]_vars PROVE BillingInv'
  OBVIOUS
<1>1. TypeInv /\ LocksExclude /\ OrderInv /\ OwnsInv /\ TableInv
  BY DEF BillingInv, LockInv, TableInv
<1>2. TypeInv'
  BY <1>1, TypeInvNext
<1>3. LockInv'
  BY <1>1, <1>2, OrderInvNext, LocksExcludeNext DEF LockInv
<1>4. OwnsInv'
  BY <1>1, OwnsNext
<1>5. TableInv'
  <2>1. CASE (\A u \in Sessions : Still(u)) /\ UNCHANGED tables
    BY <1>1, <2>1, TableInvStill
  <2>2. CASE \E t \in Sessions : Steps(t)
    BY <1>2, <1>3, <1>4, <2>2, TableInvStep
  <2>. QED
    BY <1>1, <2>1, <2>2, Movers
<1>. QED
  BY <1>2, <1>3, <1>5 DEF BillingInv

LEMMA BillingInvInit == Init => BillingInv
<1> SUFFICES ASSUME Init PROVE BillingInv
  OBVIOUS
<1>1. TypeInv /\ LockInv /\ OwnsInv
  BY TypeInvInit, LockInvInit, OwnsInit
<1>2. /\ Len(drafts) = 0 /\ Len(bills) = 0 /\ Len(khata) = 0
      /\ \A t \in Sessions : tx[t] = Idle("none") /\ held[t] = {}
  BY DEF Init
<1>3. Idle("none").pc = "idle" /\ Idle("none").call.op = "none"
  BY DEF Idle, NoCall
<1>4. DraftsInv /\ ChatsInv /\ SeqInv /\ RowsInv
  BY <1>2, <1>3 DEF DraftsInv, ChatsInv, SeqInv, RowsInv, Op, At
<1>5. ReadsInv
  BY <1>2 DEF ReadsInv, HasProduct, HasBatch
<1>6. CoveredInv /\ ChosenInv
  BY <1>2, <1>3 DEF CoveredInv, ChosenInv, Chosen, ChosenPcs, PricedPcs
<1>7. KhataInv /\ BillsMatchDrafts
  BY <1>2 DEF KhataInv, ChargesInv, KhataChargedOnce, BillsMatchDrafts
<1>8. InvoicesGapFree
  <2>1. \A day \in Days : counter[day] = 0
    BY DEF Init
  <2>2. \A day : {b \in 1..Len(bills) : bills[b].invoice[1] = day} = {}
    BY <1>2
  <2>3. 1..0 = {} /\ Cardinality({}) = 0
    BY FS_EmptySet
  <2>. QED
    BY <2>1, <2>2, <2>3 DEF InvoicesGapFree
<1>9. StockIsBatchSum
  BY DEF Init, StockIsBatchSum
<1>10. LedgerInv /\ Explained /\ StockConserved
  <2>1. ledger = [p \in Products |-> <<>>] /\ \A p \in Products : quantity[p] = OnHand(OpeningBatches, p)
    BY DEF Init
  <2>2. \A p \in Products : ledger[p] = <<>> /\ Len(ledger[p]) = 0
    BY <2>1
  <2>3. LedgerInv
    <3> HIDE DEF LedgerRow
    <3>. QED
      BY <2>1 DEF LedgerInv
  <2>4. Explained
    BY <2>1, <2>2 DEF Explained, Explains, Bal
  <2>5. \A p \in Products : Received(p) = 0 /\ Sold(p) = 0
    BY <1>2, <2>2, SumToZero DEF Received, Sold, SumOver
  <2>6. \A p \in Products : OnHand(OpeningBatches, p) \in Nat
    BY BillingAssumption, OnHandTyped DEF BatchType
  <2>7. StockConserved
    BY <2>1, <2>5, <2>6 DEF StockConserved
  <2>. QED
    BY <2>3, <2>4, <2>7
<1>. QED
  BY <1>1, <1>4, <1>5, <1>6, <1>7, <1>8, <1>9, <1>10 DEF BillingInv, TableInv

LEMMA ReadsCurrent == BillingInv => LockedReadsCurrent
BY DEF BillingInv, TableInv, ReadsInv, SeqInv, HasProduct, HasBatch, LockedReadsCurrent

LEMMA AllTyped == BillingInv => TypeOK
<1> SUFFICES ASSUME BillingInv PROVE TypeOK
  OBVIOUS
<1>1. TypeInv /\ StockIsBatchSum /\ batches \in Seq(BatchType)
  BY DEF BillingInv, TableInv, TypeInv, Tables
<1>2. \A p \in Products : OnHand(batches, p) \in Nat
  BY <1>1, OnHandTyped
<1>3. quantity \in [Products -> Nat]
  BY <1>1, <1>2 DEF TypeInv, Tables, StockIsBatchSum
<1>4. Len(batches) <= MaxBatches
  BY <1>1, RoomLeft
<1>. QED
  BY <1>1, <1>3, <1>4 DEF TypeOK, TypeInv, Tables, SessionInv

-----------------------------------------------------------------------------
(* Rows in work                                                              *)

\* A statement that stays in the same call and releases nothing.
LEMMA PartiesKept ==
  ASSUME NEW x, NEW H, NEW s, NEW G, HoldsParties(x, H), H \subseteq G,
         s.call = x.call, s.draft = x.draft,
         s.pc \in {"load_lines"} \cup SellingPcs =>
           x.pc \in {"load_lines"} \cup SellingPcs \/ ForUpdate(DraftRow(x.draft)) \in G,
         s.pc \in ChargingPcs /\ x.call.mode = "khata" =>
           x.pc \in ChargingPcs \/ ForUpdate(CustomerRow(x.call.customer)) \in G
  PROVE  HoldsParties(s, G)
BY DEF HoldsParties

LEMMA PartiesStart ==
  ASSUME TypeInv, NEW t \in Sessions,
         ReadOpenDraft(t) \/ MissOpenDraft(t) \/ AnswerAtOnce(t) \/ BeginFinalize(t) \/ BeginReceive(t)
  PROVE  HoldsParties(tx'[t], held'[t])
<1>1. ASSUME NEW s, Goto(t, s), s.pc \in {"idle", "read_line", "create_draft", "lock_draft"}
      PROVE  HoldsParties(tx'[t], held'[t])
  <2>1. tx'[t] = s
    BY <1>1, MovedTo
  <2>. QED
    BY <1>1, <2>1 DEF HoldsParties, SellingPcs, ChargingPcs
<1>2. ASSUME NEW pc \in {"read_line", "create_draft", "lock_draft"}, NEW call, NEW d,
             Goto(t, Running(pc, call, d))
      PROVE  HoldsParties(tx'[t], held'[t])
  <2>1. Running(pc, call, d).pc = pc
    BY RunningFields
  <2>. QED
    BY <1>1, <1>2, <2>1
<1>3. CASE AnswerAtOnce(t)
  <2>1. PICK a : Goto(t, Idle(a))
    BY <1>3 DEF AnswerAtOnce
  <2>2. Idle(a).pc = "idle"
    BY DEF Idle
  <2>. QED
    BY <1>1, <2>1, <2>2
<1>4. CASE ReadOpenDraft(t)
  BY <1>2, <1>4 DEF ReadOpenDraft
<1>5. CASE MissOpenDraft(t)
  BY <1>2, <1>5 DEF MissOpenDraft
<1>6. CASE BeginFinalize(t)
  BY <1>2, <1>6 DEF BeginFinalize
<1>7. CASE BeginReceive(t)
  <2>1. PICK call \in Calls : Goto(t, [Running("lock_product", call, 0) EXCEPT !.todo = {call.product}])
                              /\ call.op = "receive"
    BY <1>7 DEF BeginReceive
  <2> DEFINE r == Running("lock_product", call, 0)
             s == [r EXCEPT !.todo = {call.product}]
  <2>2. r \in TxType /\ r.call = call
    BY RunningTyped DEF PcNames
  <2>3. tx'[t] = s
    BY <2>1, MovedTo
  <2> HIDE DEF r
  <2>4. s.call = call
    BY <2>2 DEF TxType
  <2> HIDE DEF s
  <2>. QED
    BY <2>1, <2>3, <2>4 DEF HoldsParties
<1>. QED
  BY <1>3, <1>4, <1>5, <1>6, <1>7

\* The statements on a Draft Bill's Lines are not finalize_bill's.
LEMMA PartiesDraft ==
  ASSUME TypeInv, NEW t \in Sessions,
         CreateDraft(t) \/ ReadLine(t) \/ ShareDraft(t) \/ ShareProduct(t), ~Ends(t)
  PROVE  HoldsParties(tx'[t], held'[t])
<1> DEFINE x == tx[t]
<1>1. x \in TxType /\ x.call.op # "finalize"
  <2>1. x.pc \in {"create_draft"} \cup LinePcs
    BY DEF CreateDraft, ReadLine, ShareDraft, ShareProduct, At, LinePcs
  <2>. QED
    BY <2>1, OneSession DEF CallOfPc, LineOps
<1>2. ASSUME NEW s, Goto(t, s), s.call = x.call PROVE HoldsParties(tx'[t], held'[t])
  <2>1. tx'[t] = s
    BY <1>2, MovedTo
  <2>. QED
    BY <1>1, <1>2, <2>1 DEF HoldsParties
<1>3. ASSUME NEW pc, Goto(t, [x EXCEPT !.pc = pc]) PROVE HoldsParties(tx'[t], held'[t])
  <2> DEFINE s == [x EXCEPT !.pc = pc]
  <2>1. s.call = x.call
    BY <1>1 DEF TxType
  <2> HIDE DEF s
  <2>. QED
    BY <1>2, <1>3, <2>1 DEF s
<1>4. CASE CreateDraft(t)
  BY <1>3, <1>4 DEF CreateDraft, CommitNewDraft, Refuse, Ends
<1>5. CASE ShareDraft(t) \/ ShareProduct(t)
  BY <1>3, <1>5 DEF ShareDraft, ShareProduct
<1>6. CASE ReadLine(t)
  <2>1. PICK seen, pc : Goto(t, [x EXCEPT !.seen = seen, !.pc = pc])
    BY <1>6 DEF ReadLine, Refuse, Ends
  <2> DEFINE s == [x EXCEPT !.seen = seen, !.pc = pc]
  <2>2. s.call = x.call
    BY <1>1 DEF TxType
  <2> HIDE DEF s
  <2>. QED
    BY <1>2, <2>1, <2>2 DEF s
<1>. QED
  BY <1>4, <1>5, <1>6

\* The two locks, and the statements that keep them.
LEMMA PartiesFinalize ==
  ASSUME TypeInv, PartiesInv, NEW t \in Sessions, FinalizeStep(t), ~AnswerAtOnce(t),
         ~BeginFinalize(t), ~Ends(t)
  PROVE  HoldsParties(tx'[t], held'[t])
<1> DEFINE x == tx[t]
<1>0. x \in TxType /\ CallOfPc(x) /\ HoldsParties(x, held[t])
  BY OneSession DEF PartiesInv
<1>1. ASSUME NEW s, Goto(t, s), s.call = x.call, s.draft = x.draft, held[t] \subseteq held'[t],
             x.pc \in ChargingPcs \/ (x.pc \in {"load_lines", "lock_product"} /\ s.pc \notin ChargingPcs)
      PROVE  HoldsParties(tx'[t], held'[t])
  <2>1. tx'[t] = s
    BY <1>1, MovedTo
  <2>. QED
    BY <1>0, <1>1, <2>1, PartiesKept DEF SellingPcs, ChargingPcs
<1>2. CASE LockDraft(t)
  <2> DEFINE s == [x EXCEPT !.pc = "load_lines"]
             lock == ForUpdate(DraftRow(x.draft))
  <2>1. s.pc = "load_lines" /\ s.call = x.call /\ s.draft = x.draft
    BY <1>0 DEF TxType
  <2> HIDE DEF s, lock
  <2>2. tx'[t] = s /\ held'[t] = held[t] \cup {lock}
    BY <1>2, MovedTo DEF LockDraft, s, lock
  <2>. QED
    BY <1>0, <2>1, <2>2, PartiesKept DEF lock, SellingPcs, ChargingPcs
<1>3. CASE LoadLines(t)
  <2> DEFINE found == {p \in Products : lines[x.draft][p] > 0}
             s == [x EXCEPT !.lines = lines[x.draft], !.todo = found, !.pc = "lock_product"]
  <2>1. s.pc = "lock_product" /\ s.call = x.call /\ s.draft = x.draft
    BY <1>0 DEF TxType
  <2>2. x.pc = "load_lines" /\ Goto(t, s) /\ held' = held
    BY <1>3 DEF LoadLines, At, Refuse, Ends
  <2> HIDE DEF s
  <2>. QED
    BY <1>1, <2>1, <2>2 DEF ChargingPcs
<1>4. CASE LockProduct(t)
  <2> DEFINE p == First(x.todo)
             lock == ForUpdate(ProductRow(p))
             s == [x EXCEPT !.qty[p] = quantity[p], !.todo = @ \ {p},
                            !.pc = IF x.todo = {p} THEN AfterProducts(t) ELSE @]
  <2>1. x.pc = "lock_product" /\ Goto(t, s) /\ Take(t, lock)
    BY <1>4 DEF LockProduct, At
  <2>2. /\ s.call = x.call /\ s.draft = x.draft
        /\ s.pc = IF x.todo = {p} THEN AfterProducts(t) ELSE "lock_product"
    BY <1>0, <2>1 DEF TxType
  <2>3. x.call.mode = "khata" /\ x.call.op = "finalize" => AfterProducts(t) = "lock_customer"
    BY DEF AfterProducts
  <2> HIDE DEF s, lock, p
  <2>4. tx'[t] = s /\ held'[t] = held[t] \cup {lock}
    BY <2>1, MovedTo
  <2>5. CASE x.call.op = "finalize"
    BY <1>0, <2>1, <2>2, <2>3, <2>4, <2>5, PartiesKept DEF SellingPcs, ChargingPcs
  <2>6. CASE x.call.op # "finalize"
    BY <2>2, <2>4, <2>6 DEF HoldsParties
  <2>. QED
    BY <2>5, <2>6
<1>5. CASE LockCustomer(t)
  <2> DEFINE s == [x EXCEPT !.pc = "check_cost"]
             lock == ForUpdate(CustomerRow(x.call.customer))
  <2>1. s.pc = "check_cost" /\ s.call = x.call /\ s.draft = x.draft
    BY <1>0 DEF TxType
  <2>2. x.pc = "lock_customer" /\ Goto(t, s) /\ Take(t, lock)
    BY <1>5 DEF LockCustomer, At, Refuse, Ends
  <2> HIDE DEF s, lock
  <2>3. tx'[t] = s /\ held'[t] = held[t] \cup {lock}
    BY <2>2, MovedTo
  <2>. QED
    BY <1>0, <2>1, <2>2, <2>3, PartiesKept DEF lock, SellingPcs, ChargingPcs
<1>6. CASE CheckCost(t)
  <2> DEFINE ids == {b \in 1..Len(batches) : x.lines[batches[b].product] > 0 /\ batches[b].qty > 0}
             s == [x EXCEPT !.todo = ids, !.pc = IF ids = {} THEN "check_stock" ELSE "lock_batch"]
  <2>1. s.call = x.call /\ s.draft = x.draft
    BY <1>0 DEF TxType
  <2>2. x.pc = "check_cost" /\ Goto(t, s) /\ held' = held
    BY <1>6 DEF CheckCost, At, Refuse, Ends
  <2> HIDE DEF s
  <2>. QED
    BY <1>1, <2>1, <2>2 DEF SellingPcs, ChargingPcs
<1>7. CASE LockBatch(t)
  <2> DEFINE b == First(x.todo)
             lock == ForUpdate(BatchRow(b))
             s == [x EXCEPT !.batch[b] = batches[b].qty, !.todo = @ \ {b},
                            !.pc = IF x.todo = {b} THEN "check_stock" ELSE @]
  <2>1. x.pc = "lock_batch" /\ Goto(t, s) /\ Take(t, lock)
    BY <1>7 DEF LockBatch, At
  <2>2. s.call = x.call /\ s.draft = x.draft
    BY <1>0 DEF TxType
  <2> HIDE DEF s, lock
  <2>3. held[t] \subseteq held'[t]
    BY <2>1, MovedTo
  <2>. QED
    BY <1>1, <2>1, <2>2, <2>3 DEF SellingPcs, ChargingPcs
<1>8. CASE CheckStock(t)
  <2> DEFINE s == [x EXCEPT !.asOf = istDay, !.day = localDay, !.pc = "mint"]
  <2>1. s.call = x.call /\ s.draft = x.draft
    BY <1>0 DEF TxType
  <2>2. x.pc = "check_stock" /\ Goto(t, s) /\ held' = held
    BY <1>8 DEF CheckStock, At, Refuse, Ends
  <2> HIDE DEF s
  <2>. QED
    BY <1>1, <2>1, <2>2 DEF SellingPcs, ChargingPcs
<1>9. CASE MintNumber(t) \/ InsertCounter(t)
  <2>1. x.pc \in ChargingPcs
    BY <1>9 DEF MintNumber, InsertCounter, At, SellingPcs, ChargingPcs
  <2>2. held' = held \/ Take(t, ForUpdate(CounterRow(x.day)))
    BY <1>9 DEF MintNumber, InsertCounter, Refuse, Ends
  <2>3. held[t] \subseteq held'[t]
    BY <2>2, MovedTo
  <2>4. \E pc : Goto(t, [x EXCEPT !.pc = pc]) \/ Goto(t, [x EXCEPT !.seq = counter[x.day], !.pc = pc])
    BY <1>9 DEF MintNumber, InsertCounter, Refuse, Ends
  <2>5. PICK pc, seq : Goto(t, [x EXCEPT !.pc = pc]) \/ Goto(t, [x EXCEPT !.seq = seq, !.pc = pc])
    BY <2>4
  <2> DEFINE r == [x EXCEPT !.pc = pc]
             s == [x EXCEPT !.seq = seq, !.pc = pc]
  <2>6. r.call = x.call /\ r.draft = x.draft /\ s.call = x.call /\ s.draft = x.draft
    BY <1>0 DEF TxType
  <2>7. Goto(t, r) \/ Goto(t, s)
    BY <2>5
  <2> HIDE DEF r, s
  <2>. QED
    BY <1>1, <2>1, <2>3, <2>6, <2>7
<1>10. ~CommitBill(t)
  BY DEF CommitBill, Refuse, Ends
<1>. QED
  BY <1>2, <1>3, <1>4, <1>5, <1>6, <1>7, <1>8, <1>9, <1>10 DEF FinalizeStep

LEMMA PartiesNext == TypeInv /\ PartiesInv /\ [Next]_vars => PartiesInv'
<1> SUFFICES ASSUME TypeInv, PartiesInv, [Next]_vars, NEW u \in Sessions
             PROVE  HoldsParties(tx'[u], held'[u])
  BY DEF PartiesInv, HoldsParties
<1>1. CASE Still(u)
  BY <1>1 DEF PartiesInv, Still
<1>2. CASE Ends(u)
  <2>1. tx'[u].call.op # "finalize"
    BY <1>2, EndsIdle
  <2>. QED
    BY <2>1 DEF HoldsParties
<1>3. CASE Steps(u) /\ ~Ends(u)
  <2>1. ASSUME InsertLine(u) \/ UpdateLine(u) \/ DeleteLine(u) \/ CommitReceive(u) \/ Abort(u)
        PROVE  FALSE
    BY <1>3, <2>1 DEF InsertLine, UpdateLine, DeleteLine, SetLine, CommitNewDraft, CommitReceive,
       Abort, Refuse, Ends
  <2>. QED
    BY <1>3, <2>1, PartiesStart, PartiesDraft, PartiesFinalize
       DEF Steps, DraftStep, FinalizeStep, ReceiveStep
<1>. QED
  BY <1>1, <1>2, <1>3, Movers

LEMMA PartiesInit == Init => PartiesInv
<1> SUFFICES ASSUME Init, NEW t \in Sessions PROVE HoldsParties(tx[t], held[t])
  BY DEF PartiesInv
<1>1. tx[t] = Idle("none")
  BY DEF Init
<1>2. Idle("none").call.op = "none"
  BY DEF Idle, NoCall
<1>. QED
  BY <1>1, <1>2 DEF HoldsParties

\* A row in work is a row whose "update" lock the session holds.
WorksOn(t) ==
  {DraftRow(d) : d \in DraftsInWork(t)} \cup {ProductRow(p) : p \in ProductsInWork(t)}
    \cup {CustomerRow(c) : c \in CustomersInWork(t)} \cup {BatchRow(b) : b \in BatchesInWork(t)}
    \cup {CounterRow(day) : day \in CountersInWork(t)}

LEMMA WorkIsHeld ==
  ASSUME TypeInv, OwnsInv, PartiesInv, NEW t \in Sessions, NEW row \in WorksOn(t)
  PROVE  ForUpdate(row) \in held[t]
<1> DEFINE x == tx[t]
<1>0. /\ x \in TxType /\ CallOfPc(x) /\ HoldsParties(x, held[t])
      /\ OwnsProducts(x, held[t]) /\ OwnsBatches(x, held[t]) /\ OwnsCounter(x, held[t])
  BY OneSession DEF OwnsInv, OwnsOfPc, PartiesInv
<1>1. ASSUME NEW d \in DraftsInWork(t) PROVE ForUpdate(DraftRow(d)) \in held[t]
  <2>1. d = x.draft /\ x.call.op = "finalize" /\ x.pc \in {"load_lines"} \cup SellingPcs
    BY <1>0, <1>1 DEF DraftsInWork, Selling, Op, At, CallOfPc, FinalizePcs
  <2>. QED
    BY <1>0, <2>1 DEF HoldsParties
<1>2. ASSUME NEW p \in ProductsInWork(t) PROVE ForUpdate(ProductRow(p)) \in held[t]
  <2>1. CASE ReadQuantity(t, p)
    BY <1>0, <1>2, <2>1 DEF ProductsInWork, ReadQuantity, Selling, Op, At, OwnsProducts
  <2>2. CASE At(t, "receive") /\ p = x.call.product
    BY <1>0, <2>2 DEF OwnsProducts, At
  <2>. QED
    BY <1>2, <2>1, <2>2 DEF ProductsInWork
<1>3. ASSUME NEW c \in CustomersInWork(t) PROVE ForUpdate(CustomerRow(c)) \in held[t]
  BY <1>0, <1>3 DEF CustomersInWork, Charging, Op, HoldsParties
<1>4. ASSUME NEW b \in BatchesInWork(t) PROVE ForUpdate(BatchRow(b)) \in held[t]
  BY <1>0, <1>4 DEF BatchesInWork, OwnsBatches
<1>5. ASSUME NEW day \in CountersInWork(t) PROVE ForUpdate(CounterRow(day)) \in held[t]
  BY <1>0, <1>5 DEF CountersInWork, At, OwnsCounter
<1>. QED
  BY <1>1, <1>2, <1>3, <1>4, <1>5 DEF WorksOn

LEMMA EachAlone == TypeInv /\ LocksExclude /\ OwnsInv /\ PartiesInv => ComputesAlone
<1> SUFFICES ASSUME TypeInv, LocksExclude, OwnsInv, PartiesInv,
                    NEW t \in Sessions, NEW u \in Sessions, t # u
             PROVE  /\ DraftsInWork(t) \cap DraftsInWork(u) = {}
                    /\ ProductsInWork(t) \cap ProductsInWork(u) = {}
                    /\ CustomersInWork(t) \cap CustomersInWork(u) = {}
                    /\ BatchesInWork(t) \cap BatchesInWork(u) = {}
                    /\ CountersInWork(t) \cap CountersInWork(u) = {}
  BY DEF ComputesAlone
<1>1. ASSUME NEW row \in WorksOn(t), row \in WorksOn(u) PROVE FALSE
  <2>1. ForUpdate(row) \in held[t] /\ ForUpdate(row) \in held[u]
    BY <1>1, WorkIsHeld
  <2>2. ForUpdate(row).mode = "update"
    BY DEF ForUpdate
  <2>. QED
    BY <2>1, <2>2 DEF LocksExclude
<1>2. DraftsInWork(t) \cap DraftsInWork(u) = {}
  BY <1>1 DEF WorksOn
<1>3. ProductsInWork(t) \cap ProductsInWork(u) = {}
  BY <1>1 DEF WorksOn
<1>4. CustomersInWork(t) \cap CustomersInWork(u) = {}
  BY <1>1 DEF WorksOn
<1>5. BatchesInWork(t) \cap BatchesInWork(u) = {}
  BY <1>1 DEF WorksOn
<1>6. CountersInWork(t) \cap CountersInWork(u) = {}
  BY <1>1 DEF WorksOn
<1>. QED
  BY <1>2, <1>3, <1>4, <1>5, <1>6

-----------------------------------------------------------------------------
(* Theorems                                                                  *)

\* Everything at once, of every instance: the induction behind what follows.
THEOREM TablesAgree == Spec => []BillingInv
BY BillingInvInit, BillingInvNext, PTL DEF Spec

\* Every variable has its type; in particular finalize_bill never makes the
\* quantity of a Product or of a Batch negative.
THEOREM NothingNegative == Spec => []TypeOK
BY TablesAgree, AllTyped, PTL

\* However many calls race to open one, a chat has at most one open Draft Bill.
THEOREM OneOpenDraftEver == Spec => []OneOpenDraft
<1>1. BillingInv => OneOpenDraft
  BY OneOpenDraftHolds DEF BillingInv, TableInv
<1>. QED
  BY <1>1, TablesAgree, PTL

\* A Draft Bill is finalized exactly when one Bill was made from it, and the
\* two name each other: finalize_bill never bills a Draft Bill twice.
THEOREM OneBillPerDraft == Spec => []BillsMatchDrafts
<1>1. BillingInv => BillsMatchDrafts
  BY DEF BillingInv, TableInv
<1>. QED
  BY <1>1, TablesAgree, PTL

\* The day's invoice numbers are 1, 2, ... without a gap or a repetition,
\* whatever finalize_bill calls roll back.
THEOREM InvoicesNeverSkip == Spec => []InvoicesGapFree
<1>1. BillingInv => InvoicesGapFree
  BY DEF BillingInv, TableInv
<1>. QED
  BY <1>1, TablesAgree, PTL

\* Each khata Bill charges its customer once, its whole total; no other Bill does.
THEOREM ChargedExactlyOnce == Spec => []KhataChargedOnce
<1>1. BillingInv => KhataChargedOnce
  BY DEF BillingInv, TableInv, KhataInv
<1>. QED
  BY <1>1, TablesAgree, PTL

\* However many calls run at once, no row that one of them has read, and will
\* write from what it read, is read or written for that purpose by another:
\* finalize_bill and receive_stock lock every such row before they read it.
THEOREM EachComputesAlone == Spec => []ComputesAlone
<1>1. TypeInv /\ PartiesInv /\ [Next]_vars => PartiesInv'
  BY PartiesNext
<1>2. BillingInv => TypeInv /\ LocksExclude /\ OwnsInv
  BY DEF BillingInv, LockInv, TableInv
<1>3. TypeInv /\ LocksExclude /\ OwnsInv /\ PartiesInv => ComputesAlone
  BY EachAlone
<1>. QED
  BY <1>1, <1>2, <1>3, PartiesInit, TablesAgree, PTL DEF Spec

\* Whatever finalize_bill has read under a row lock is still what the table
\* says when it writes.
THEOREM LockedReadsStayCurrent == Spec => []LockedReadsCurrent
BY TablesAgree, ReadsCurrent, PTL

\* products.quantity is always the sum of the Product's Batches, though
\* finalize_bill decrements both and receive_stock recomputes one from the other.
THEOREM QuantityIsBatchSum == Spec => []StockIsBatchSum
<1>1. BillingInv => StockIsBatchSum
  BY DEF BillingInv, TableInv
<1>. QED
  BY <1>1, TablesAgree, PTL

\* Nothing is sold that was not there and nothing vanishes: opening stock plus
\* what receive_stock added is what is on hand plus what the Bills sold.
THEOREM StockNeverVanishes == Spec => []StockConserved
<1>1. BillingInv => StockConserved
  BY DEF BillingInv, TableInv
<1>. QED
  BY <1>1, TablesAgree, PTL

\* stock_ledger explains products.quantity: each row continues the balance of
\* the row before it by its delta, and the last one is the quantity.
THEOREM LedgerAlwaysExplains == Spec => []LedgerExplainsStock
<1>1. BillingInv => LedgerExplainsStock
  BY ExplainedIs DEF BillingInv, TableInv
<1>. QED
  BY <1>1, TablesAgree, PTL

\* First expiry first out on what is committed: whatever interleaves, a Bill
\* takes from a Batch only on a day it is sellable, and only after emptying
\* every sellable Batch of the Product that expires earlier.
THEOREM EarliestExpiryFirst == Spec => FefoRespected
<1>1. BillingInv /\ [Next]_vars => FefoAction
  <2> SUFFICES ASSUME BillingInv, [Next]_vars, NEW b \in 1..Len(batches), batches'[b].qty < batches[b].qty
               PROVE  \E t \in Sessions :
                        /\ At(t, "write_bill") /\ tx'[t].pc = "idle"
                        /\ IsNonExpired(batches[b], tx[t].asOf)
                        /\ \A a \in SellableBatches(batches, batches[b].product, tx[t].asOf) :
                             batches[a].expiry < batches[b].expiry => batches'[a].qty = 0
    BY DEF FefoAction
  <2>1. TypeInv /\ OwnsInv /\ DraftsInv /\ ReadsInv /\ ChosenInv
    BY DEF BillingInv, TableInv
  <2>2. CASE UNCHANGED tables
    <3>1. batches[b].qty \in Nat
      BY <2>1, BatchFields
    <3>. QED
      BY <2>2, <3>1 DEF tables
  <2>3. CASE \E t \in Sessions : Steps(t)
    BY <2>1, <2>3, FefoStep
  <2>. QED
    BY <2>1, <2>2, <2>3, Movers
<1>. QED
  BY <1>1, TablesAgree, PTL DEF Spec, FefoRespected
=============================================================================
