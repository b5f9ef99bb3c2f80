-------------------------- MODULE DocumentsProofs --------------------------
(* Theorems about Documents.  Part 1, the lock: renders never overlap, and  *)
(* nobody waits for an idle renderer.  Part 2, the pool: who holds a        *)
(* connection.  Part 3, the documents: an invoice is of the right Bill.     *)
EXTENDS Documents, FiniteSetTheorems, TLAPS

Queued(q, c) == \E i \in DOMAIN q : q[i] = c

NoTwice(q) == \A i, j \in DOMAIN q : q[i] = q[j] => i = j

\* Every call has a pc.
HasPc == DOMAIN call = Calls /\ \A c \in Calls : "pc" \in DOMAIN call[c]

LockTyped == renderer \in SUBSET Calls /\ waiters \in Seq(Calls)

\* OneRenderAtATime, and what a step on a call or on the lock relies on.
LockInv == HasPc /\ LockTyped /\ OneRenderAtATime

\* Call c moves to pc, and no other call moves.
Moves(c, pc) ==
  /\ HasPc'
  /\ call'[c].pc = pc
  /\ \A d \in Calls \ {c} : call'[d].pc = call[d].pc

-----------------------------------------------------------------------------
(* The queue *)

\* A call that is not in the queue may join it at its end.
LEMMA AppendQueued ==
  ASSUME NEW S, NEW q \in Seq(S), NEW x \in S, NoTwice(q), ~Queued(q, x)
  PROVE  /\ Append(q, x) \in Seq(S) /\ Append(q, x) # <<>>
         /\ NoTwice(Append(q, x))
         /\ \A c : Queued(Append(q, x), c) <=> Queued(q, c) \/ c = x
<1>1. /\ Append(q, x) \in Seq(S) /\ Append(q, x) # <<>>
      /\ DOMAIN Append(q, x) = 1..(Len(q) + 1) /\ DOMAIN q = 1..Len(q)
      /\ Len(q) \in Nat
      /\ Append(q, x)[Len(q) + 1] = x
      /\ \A i \in 1..Len(q) : Append(q, x)[i] = q[i]
  OBVIOUS
<1>2. NoTwice(Append(q, x))
  BY <1>1 DEF NoTwice, Queued
<1>3. ASSUME NEW c
      PROVE  Queued(Append(q, x), c) <=> Queued(q, c) \/ c = x
  BY <1>1 DEF Queued
<1> QED
  BY <1>1, <1>2, <1>3

\* The first waiter leaves; the others stay.
LEMMA TailQueued ==
  ASSUME NEW S, NEW q \in Seq(S), q # <<>>, NoTwice(q)
  PROVE  /\ Tail(q) \in Seq(S) /\ Head(q) \in S
         /\ Queued(q, Head(q))
         /\ NoTwice(Tail(q))
         /\ \A c : Queued(Tail(q), c) <=> Queued(q, c) /\ c # Head(q)
<1>1. /\ Tail(q) \in Seq(S) /\ Head(q) \in S /\ Head(q) = q[1]
      /\ Len(q) \in Nat /\ Len(q) >= 1
      /\ DOMAIN q = 1..Len(q) /\ DOMAIN Tail(q) = 1..(Len(q) - 1)
      /\ \A i \in 1..(Len(q) - 1) : Tail(q)[i] = q[i + 1]
  OBVIOUS
<1>2. NoTwice(Tail(q))
  BY <1>1 DEF NoTwice
<1>3. ASSUME NEW c, Queued(Tail(q), c)
      PROVE  Queued(q, c) /\ c # Head(q)
  BY <1>1, <1>3 DEF Queued, NoTwice
<1>4. ASSUME NEW c, Queued(q, c), c # Head(q)
      PROVE  Queued(Tail(q), c)
  <2>1. PICK i \in 1..Len(q) : q[i] = c
    BY <1>1, <1>4 DEF Queued
  <2>2. i # 1
    BY <1>1, <1>4, <2>1
  <2>3. PICK j \in 1..(Len(q) - 1) : j + 1 = i
    BY <1>1, <2>1, <2>2
  <2>4. Tail(q)[j] = c
    BY <1>1, <2>1, <2>3
  <2> QED
    BY <1>1, <2>3, <2>4 DEF Queued
<1>5. Queued(q, Head(q))
  <2>1. 1 \in DOMAIN q /\ q[1] = Head(q)
    BY <1>1
  <2> QED
    BY <2>1 DEF Queued
<1>6. \A c : Queued(Tail(q), c) <=> Queued(q, c) /\ c # Head(q)
  BY <1>3, <1>4
<1> QED
  BY <1>1, <1>2, <1>5, <1>6

-----------------------------------------------------------------------------
(* Steps of one call *)

LEMMA GotoMoves ==
  ASSUME HasPc, NEW c \in Calls, NEW pc, Goto(c, pc)
  PROVE  Moves(c, pc)
BY DEF HasPc, Goto, Moves

LEMMA ForgetMoves ==
  ASSUME HasPc, NEW c \in Calls, Forget(c)
  PROVE  Moves(c, "ended")
BY DEF HasPc, Forget, Moves, NoCall

\* The lock stays, and the call neither begins nor ends to render.
LEMMA MovesAway ==
  ASSUME LockInv, NEW c \in Calls, NEW pc, Moves(c, pc), UNCHANGED docLock,
         call[c].pc # "render", pc # "render"
  PROVE  LockInv'
BY DEF LockInv, LockTyped, OneRenderAtATime, Moves, docLock

LEMMA AskRendererSafe ==
  ASSUME LockInv, NEW c \in Calls, Moves(c, "render"), call[c].pc # "render", AskRenderer(c)
  PROVE  LockInv'
<1>1. c \notin renderer /\ ~Queued(waiters, c) /\ NoTwice(waiters)
  BY DEF LockInv, OneRenderAtATime, Queued, NoTwice
<1>2. CASE renderer = {} /\ waiters = <<>>
  BY <1>2 DEF LockInv, LockTyped, OneRenderAtATime, Moves, AskRenderer
<1>3. CASE ~(renderer = {} /\ waiters = <<>>)
  <2>1. renderer' = renderer /\ waiters' = Append(waiters, c) /\ renderer # {}
    BY <1>3 DEF AskRenderer, LockInv, OneRenderAtATime
  <2>2. /\ waiters' \in Seq(Calls) /\ NoTwice(waiters')
        /\ \A d : Queued(waiters', d) <=> Queued(waiters, d) \/ d = c
    BY <1>1, <2>1, AppendQueued DEF LockInv, LockTyped
  <2>3. ASSUME NEW d \in Calls
        PROVE  /\ call'[d].pc = "render" <=> Queued(waiters', d) \/ d \in renderer'
               /\ ~(Queued(waiters', d) /\ d \in renderer')
    <3>1. CASE d = c
      BY <1>1, <2>1, <2>2, <3>1 DEF Moves
    <3>2. CASE d # c
      BY <2>1, <2>2, <3>2 DEF Moves, LockInv, OneRenderAtATime, Queued
    <3> QED
      BY <3>1, <3>2
  <2> QED
    BY <2>1, <2>2, <2>3 DEF LockInv, LockTyped, OneRenderAtATime, Moves, Queued, NoTwice
<1> QED
  BY <1>2, <1>3

LEMMA LeaveRendererSafe ==
  ASSUME LockInv, NEW c \in Calls, NEW pc, Moves(c, pc), pc # "render", c \in renderer,
         LeaveRenderer
  PROVE  LockInv'
<1>1. renderer = {c} /\ ~Queued(waiters, c) /\ NoTwice(waiters)
  BY DEF LockInv, OneRenderAtATime, Queued, NoTwice, LockTyped
<1>2. CASE waiters = <<>>
  <2>1. renderer' = {} /\ waiters' = <<>> /\ \A d : ~Queued(waiters, d)
    BY <1>2 DEF LeaveRenderer, Queued
  <2>2. ASSUME NEW d \in Calls
        PROVE  call'[d].pc # "render"
    BY <1>1, <2>1 DEF Moves, LockInv, OneRenderAtATime, Queued
  <2> QED
    BY <1>2, <2>1, <2>2 DEF LockInv, LockTyped, OneRenderAtATime, Moves
<1>3. CASE waiters # <<>>
  <2>1. renderer' = {Head(waiters)} /\ waiters' = Tail(waiters)
    BY <1>3 DEF LeaveRenderer
  <2>2. /\ waiters' \in Seq(Calls) /\ Head(waiters) \in Calls
        /\ Queued(waiters, Head(waiters)) /\ NoTwice(waiters')
        /\ \A d : Queued(waiters', d) <=> Queued(waiters, d) /\ d # Head(waiters)
    BY <1>1, <1>3, <2>1, TailQueued DEF LockInv, LockTyped
  <2>3. ASSUME NEW d \in Calls
        PROVE  /\ call'[d].pc = "render" <=> Queued(waiters', d) \/ d \in renderer'
               /\ ~(Queued(waiters', d) /\ d \in renderer')
    <3>1. CASE d = c
      BY <1>1, <2>1, <2>2, <3>1 DEF Moves
    <3>2. CASE d # c
      BY <1>1, <2>1, <2>2, <3>2 DEF Moves, LockInv, OneRenderAtATime, Queued
    <3> QED
      BY <3>1, <3>2
  <2> QED
    BY <2>1, <2>2, <2>3 DEF LockInv, LockTyped, OneRenderAtATime, Moves, Queued, NoTwice
<1> QED
  BY <1>2, <1>3

-----------------------------------------------------------------------------
\* What never touches the calls and the lock.
LEMMA ElsewhereSafe ==
  ASSUME LockInv, UNCHANGED <<call, docLock>>
  PROVE  LockInv'
BY DEF LockInv, HasPc, LockTyped, OneRenderAtATime, docLock

LEMMA LockInit == Init => LockInv
BY DEF Init, LockInv, HasPc, LockTyped, OneRenderAtATime, NoCall

LEMMA LockStep == LockInv /\ [Next]_vars => LockInv'
<1> SUFFICES ASSUME LockInv, [Next]_vars PROVE LockInv'
  OBVIOUS
<1>0. HasPc
  BY DEF LockInv
<1>1. CASE UNCHANGED vars
  BY <1>1, ElsewhereSafe DEF vars
<1>2. CASE \E t \in Tills : (\E chat \in Chats : BeginBill(t, chat)) \/ BillStep(t)
  BY <1>2, ElsewhereSafe DEF BeginBill, BillStep, CommitBill, RollBackBill
<1>3. CASE SetShopProfile
  BY <1>3, ElsewhereSafe DEF SetShopProfile
<1>4. ASSUME NEW c \in Calls, NEW r \in Requests, Ask(c, r)
      PROVE  LockInv'
  <2>1. Moves(c, "connect")
    BY <1>0, <1>4 DEF Ask, NoCall, Moves, HasPc
  <2> QED
    BY <1>4, <2>1, MovesAway DEF Ask
<1>5. ASSUME NEW c \in Calls, CallStep(c)
      PROVE  LockInv'
  <2>1. CASE Connect(c)
    BY <1>0, <2>1, GotoMoves, MovesAway DEF Connect
  <2>2. CASE PoolTimeout(c)
    BY <1>0, <2>2, ForgetMoves, MovesAway DEF PoolTimeout
  <2>3. CASE RefuseBill(c)
    BY <1>0, <2>3, ForgetMoves, MovesAway DEF RefuseBill, GiveUp
  <2>4. CASE FindBill(c)
    BY <1>0, <2>4, GotoMoves, MovesAway DEF FindBill, End
  <2>5. CASE Resolve(c)
    <3>1. Moves(c, "load")
      BY <1>0, <2>5 DEF Resolve, Moves, HasPc
    <3> QED
      BY <2>5, <3>1, MovesAway DEF Resolve
  <2>6. CASE LoadBill(c)
    BY <1>0, <2>6, GotoMoves, MovesAway DEF LoadBill
  <2>7. CASE RefuseProfile(c)
    BY <1>0, <2>7, ForgetMoves, MovesAway DEF RefuseProfile, GiveUp
  <2>8. CASE LoadProfile(c)
    <3>1. CASE Goto(c, "payer") /\ UNCHANGED docLock
      BY <1>0, <2>8, <3>1, GotoMoves, MovesAway DEF LoadProfile
    <3>2. CASE Goto(c, "render") /\ AskRenderer(c)
      BY <1>0, <2>8, <3>2, GotoMoves, AskRendererSafe DEF LoadProfile
    <3> QED
      BY <2>8, <3>1, <3>2 DEF LoadProfile
  <2>9. CASE LoadPayer(c)
    <3>1. Moves(c, "render")
      BY <1>0, <2>9 DEF LoadPayer, Moves, HasPc
    <3> QED
      BY <2>9, <3>1, AskRendererSafe DEF LoadPayer
  <2>10. CASE GatherDeck(c)
    BY <1>0, <2>10, GotoMoves, AskRendererSafe DEF GatherDeck
  <2>11. CASE Render(c)
    BY <1>0, <2>11, GotoMoves, LeaveRendererSafe DEF Render
  <2>12. CASE SendDocument(c)
    BY <1>0, <2>12, GotoMoves, MovesAway DEF SendDocument, End
  <2> QED
    BY <1>5, <2>1, <2>2, <2>3, <2>4, <2>5, <2>6, <2>7, <2>8, <2>9, <2>10, <2>11, <2>12
       DEF CallStep
<1>6. ASSUME NEW c \in Calls, Fail(c)
      PROVE  LockInv'
  <2>1. Moves(c, "ended")
    BY <1>0, <1>6, ForgetMoves DEF Fail, GiveUp
  <2>2. CASE call[c].pc \in Working /\ UNCHANGED docLock
    BY <2>1, <2>2, MovesAway DEF Working
  <2>3. CASE call[c].pc = "render" /\ c \in renderer /\ LeaveRenderer
    BY <2>1, <2>3, LeaveRendererSafe
  <2> QED
    BY <1>6, <2>2, <2>3 DEF Fail
<1> QED
  BY <1>1, <1>2, <1>3, <1>4, <1>5, <1>6 DEF Next

\* docs/adr/0014: for any number of calls, chats and connections two renders
\* never overlap, nobody waits for an idle renderer and nobody waits twice
\* (run_cpu_bound, _DOC_GEN_LOCK).
THEOREM RendersNeverOverlap == Spec => []OneRenderAtATime
<1>1. LockInv => OneRenderAtATime
  BY DEF LockInv
<1> QED
  BY <1>1, LockInit, LockStep, PTL DEF Spec

-----------------------------------------------------------------------------
(* Part 2: the pool *)

\* The calls that hold a connection, and the tills that do.
Attached == {c \in Calls : call[c].pc \in Working \cup {"render"}}
Billing  == {t \in Tills : till[t] # NotBilling}

\* Who holds a connection is between its first statement and its end.
PoolInv ==
  /\ HasPc /\ DOMAIN till = Tills /\ begun \in Nat
  /\ connected = Attached \cup Billing
  /\ IsFiniteSet(connected) /\ Cardinality(connected) <= PoolSize

\* The pool lends a connection when it has one left.
LEMMA Lends ==
  ASSUME NEW S, IsFiniteSet(S), NEW x, Cardinality(S) < PoolSize
  PROVE  IsFiniteSet(S \cup {x}) /\ Cardinality(S \cup {x}) <= PoolSize
<1>1. /\ IsFiniteSet(S \cup {x}) /\ Cardinality(S) \in Nat
      /\ Cardinality(S \cup {x}) = IF x \in S THEN Cardinality(S) ELSE Cardinality(S) + 1
  BY FS_AddElement, FS_CardinalityType
<1> QED
  BY <1>1, DocumentsAssumption DEF DocumentsAssumption

LEMMA TakesBack ==
  ASSUME NEW S, IsFiniteSet(S), NEW x, Cardinality(S) <= PoolSize
  PROVE  IsFiniteSet(S \ {x}) /\ Cardinality(S \ {x}) <= PoolSize
<1>1. /\ IsFiniteSet(S \ {x}) /\ Cardinality(S) \in Nat
      /\ Cardinality(S \ {x}) = IF x \in S THEN Cardinality(S) - 1 ELSE Cardinality(S)
  BY FS_RemoveElement, FS_CardinalityType
<1> QED
  BY <1>1, DocumentsAssumption DEF DocumentsAssumption

\* A call goes on and keeps its connection, or goes on without one.
LEMMA GoesOn ==
  ASSUME PoolInv, NEW c \in Calls, NEW pc, Moves(c, pc), UNCHANGED <<connected, till, begun>>,
         call[c].pc \in Working \cup {"render"} <=> pc \in Working \cup {"render"}
  PROVE  PoolInv'
<1>1. Attached' = Attached /\ Billing' = Billing
  BY DEF Moves, Attached, Billing, NotBilling
<1> QED
  BY <1>1 DEF PoolInv, Moves

LEMMA CallConnects ==
  ASSUME PoolInv, NEW c \in Calls, NEW pc \in Working \cup {"render"}, Moves(c, pc),
         Cardinality(connected) < PoolSize, connected' = connected \cup {c}, UNCHANGED <<till, begun>>
  PROVE  PoolInv'
<1>1. Attached' = Attached \cup {c} /\ Billing' = Billing
  BY DEF Moves, Attached, Billing, NotBilling
<1>2. IsFiniteSet(connected') /\ Cardinality(connected') <= PoolSize
  BY Lends DEF PoolInv
<1> QED
  BY <1>1, <1>2 DEF PoolInv, Moves

LEMMA CallReleases ==
  ASSUME PoolInv, NEW c \in Calls, NEW pc, pc \notin Working \cup {"render"}, Moves(c, pc),
         connected' = connected \ {c}, UNCHANGED <<till, begun>>
  PROVE  PoolInv'
<1>1. Attached' = Attached \ {c} /\ Billing' = Billing /\ c \notin Billing
  BY DocumentsAssumption DEF DocumentsAssumption, Moves, Attached, Billing, NotBilling
<1>2. IsFiniteSet(connected') /\ Cardinality(connected') <= PoolSize
  BY TakesBack DEF PoolInv
<1> QED
  BY <1>1, <1>2 DEF PoolInv, Moves

LEMMA TillConnects ==
  ASSUME PoolInv, NEW t \in Tills, NEW new, new # NotBilling,
         till' = [till EXCEPT ![t] = new], begun' \in Nat, UNCHANGED call,
         Cardinality(connected) < PoolSize, connected' = connected \cup {t}
  PROVE  PoolInv'
<1>1. Attached' = Attached /\ Billing' = Billing \cup {t}
  BY DEF PoolInv, Attached, Billing, NotBilling
<1>2. IsFiniteSet(connected') /\ Cardinality(connected') <= PoolSize
  BY Lends DEF PoolInv
<1> QED
  BY <1>1, <1>2 DEF PoolInv, HasPc

LEMMA TillReleases ==
  ASSUME PoolInv, NEW t \in Tills, till' = [till EXCEPT ![t] = NotBilling], UNCHANGED <<call, begun>>,
         connected' = connected \ {t}
  PROVE  PoolInv'
<1>1. Attached' = Attached /\ Billing' = Billing \ {t} /\ t \notin Attached
  BY DocumentsAssumption DEF DocumentsAssumption, PoolInv, Attached, Billing, NotBilling
<1>2. IsFiniteSet(connected') /\ Cardinality(connected') <= PoolSize
  BY TakesBack DEF PoolInv
<1> QED
  BY <1>1, <1>2 DEF PoolInv, HasPc

LEMMA PoolInit == Init => PoolInv
<1> SUFFICES ASSUME Init PROVE PoolInv
  OBVIOUS
<1>1. Attached = {} /\ Billing = {} /\ connected = {}
  BY DEF Init, Attached, Billing, NoCall, NotBilling, Working
<1>2. HasPc /\ DOMAIN till = Tills /\ begun \in Nat
  BY DEF Init, HasPc, NoCall
<1>3. IsFiniteSet(connected) /\ Cardinality(connected) <= PoolSize
  BY <1>1, FS_EmptySet, DocumentsAssumption DEF DocumentsAssumption
<1> QED
  BY <1>1, <1>2, <1>3 DEF PoolInv

LEMMA PoolStep == PoolInv /\ [Next]_vars => PoolInv'
<1> SUFFICES ASSUME PoolInv, [Next]_vars PROVE PoolInv'
  OBVIOUS
<1>0. HasPc
  BY DEF PoolInv
<1>1. CASE UNCHANGED <<call, till, connected, begun>>
  BY <1>1 DEF PoolInv, HasPc, Attached, Billing, NotBilling
<1>2. ASSUME NEW t \in Tills, NEW chat \in Chats, BeginBill(t, chat)
      PROVE  PoolInv'
  <2>1. [chat |-> chat, at |-> begun + 1, known |-> {b.id : b \in bills}] # NotBilling
    BY <1>2 DEF BeginBill, NotBilling, PoolInv
  <2>2. begun' \in Nat
    BY <1>2 DEF BeginBill, PoolInv
  <2> QED
    BY <1>2, <2>1, <2>2, TillConnects DEF BeginBill
<1>3. ASSUME NEW t \in Tills, BillStep(t)
      PROVE  PoolInv'
  BY <1>3, TillReleases DEF BillStep, CommitBill, RollBackBill
<1>4. ASSUME NEW c \in Calls, NEW r \in Requests, Ask(c, r)
      PROVE  PoolInv'
  <2>1. Moves(c, "connect")
    BY <1>0, <1>4 DEF Ask, NoCall, Moves, HasPc
  <2> QED
    BY <1>4, <2>1, GoesOn DEF Ask, Working, billVars
<1>5. ASSUME NEW c \in Calls, CallStep(c)
      PROVE  PoolInv'
  <2>1. CASE Connect(c)
    <3>1. PICK pc \in {"gather", "resolve"} : Goto(c, pc)
      BY <2>1 DEF Connect
    <3> QED
      BY <1>0, <2>1, <3>1, GotoMoves, CallConnects DEF Connect, Working, billVars
  <2>2. CASE PoolTimeout(c)
    BY <1>0, <2>2, ForgetMoves, GoesOn DEF PoolTimeout, Working, billVars
  <2>3. CASE RefuseBill(c)
    BY <1>0, <2>3, ForgetMoves, CallReleases DEF RefuseBill, GiveUp, Working, billVars
  <2>4. CASE FindBill(c)
    BY <1>0, <2>4, GotoMoves, CallReleases DEF FindBill, End, Working, billVars
  <2>5. CASE Resolve(c)
    <3>1. Moves(c, "load")
      BY <1>0, <2>5 DEF Resolve, Moves, HasPc
    <3> QED
      BY <2>5, <3>1, GoesOn DEF Resolve, Working, billVars
  <2>6. CASE LoadBill(c)
    BY <1>0, <2>6, GotoMoves, GoesOn DEF LoadBill, Working, billVars
  <2>7. CASE RefuseProfile(c)
    BY <1>0, <2>7, ForgetMoves, CallReleases DEF RefuseProfile, GiveUp, Working, billVars
  <2>8. CASE LoadProfile(c)
    <3>1. PICK pc \in {"payer", "render"} : Goto(c, pc)
      BY <2>8 DEF LoadProfile
    <3> QED
      BY <1>0, <2>8, <3>1, GotoMoves, GoesOn DEF LoadProfile, Working, billVars
  <2>9. CASE LoadPayer(c)
    <3>1. Moves(c, "render")
      BY <1>0, <2>9 DEF LoadPayer, Moves, HasPc
    <3> QED
      BY <2>9, <3>1, GoesOn DEF LoadPayer, Working, billVars
  <2>10. CASE GatherDeck(c)
    BY <1>0, <2>10, GotoMoves, GoesOn DEF GatherDeck, Working, billVars
  <2>11. CASE Render(c)
    BY <1>0, <2>11, GotoMoves, GoesOn DEF Render, Working, billVars
  <2>12. CASE SendDocument(c)
    BY <1>0, <2>12, GotoMoves, CallReleases DEF SendDocument, End, Working, billVars
  <2> QED
    BY <1>5, <2>1, <2>2, <2>3, <2>4, <2>5, <2>6, <2>7, <2>8, <2>9, <2>10, <2>11, <2>12
       DEF CallStep
<1>6. ASSUME NEW c \in Calls, Fail(c)
      PROVE  PoolInv'
  BY <1>0, <1>6, ForgetMoves, CallReleases DEF Fail, GiveUp, Working, billVars
<1> QED
  BY <1>1, <1>2, <1>3, <1>4, <1>5, <1>6 DEF Next, SetShopProfile, vars, billVars

-----------------------------------------------------------------------------
(* Part 3: Bills and tills *)

BillRec == [id : Nat, chat : Chats, at : Nat, known : SUBSET Nat, credit : BOOLEAN,
            charged : BOOLEAN]

\* What the Bills of set B are, when n tills have begun: numbered, each from a
\* moment of its own, and each younger than the Bills it knows.
BillsOk(B, n) ==
  /\ B \subseteq BillRec /\ IsFiniteSet(B)
  /\ \A b \in B : /\ b.id \in 1..Cardinality(B) /\ b.at \in 1..n
                  /\ b.known \subseteq 1..Cardinality(B)
                  /\ b.charged = b.credit
  /\ \A b, d \in B : b.id = d.id \/ b.at = d.at => b = d
  /\ \A b, d \in B : b.id \in d.known => b.at < d.at

\* What a till in flight is: it will commit a Bill like those of B.
TillOk(x, B, n) ==
  /\ x.chat \in Chats /\ x.at \in 1..n /\ x.known \subseteq 1..Cardinality(B)
  /\ \A b \in B : b.at # x.at /\ (b.id \in x.known => b.at < x.at)

\* Every Bill and every till in flight has used up one of the begun tills.
RoomLeft(B, T, n) == IsFiniteSet(T) /\ Cardinality(B) + Cardinality(T) <= n

TillsInv ==
  /\ begun \in Nat /\ begun <= MaxBills
  /\ BillsOk(bills, begun)
  /\ RoomLeft(bills, Billing, begun)
  /\ DOMAIN till = Tills
  /\ \A t \in Billing : TillOk(till[t], bills, begun)
  /\ \A s, t \in Billing : till[s].at = till[t].at => s = t

\* The Bills a till finds when it begins.
LEMMA KnownOk ==
  ASSUME NEW n \in Nat, NEW B, BillsOk(B, n), NEW chat \in Chats
  PROVE  TillOk([chat |-> chat, at |-> n + 1, known |-> {b.id : b \in B}], B, n + 1)
BY DEF BillsOk, TillOk, BillRec

LEMMA LaterOk ==
  ASSUME NEW n \in Nat, NEW B
  PROVE  /\ BillsOk(B, n) => BillsOk(B, n + 1)
         /\ \A x : TillOk(x, B, n) => TillOk(x, B, n + 1)
BY DEF BillsOk, TillOk

\* The Bill of a till that commits.
NewBill(x, B, credit) ==
  [id |-> Cardinality(B) + 1, chat |-> x.chat, at |-> x.at, known |-> x.known,
   credit |-> credit, charged |-> credit]

LEMMA OneBillMore ==
  ASSUME NEW n \in Nat, NEW B, BillsOk(B, n), NEW x, TillOk(x, B, n), NEW credit \in BOOLEAN
  PROVE  LET C == B \cup {NewBill(x, B, credit)}
         IN  /\ Cardinality(B) \in Nat /\ Cardinality(C) = Cardinality(B) + 1
             /\ BillsOk(C, n)
<1> DEFINE new == NewBill(x, B, credit)
           C   == B \cup {new}
<1>1. /\ Cardinality(B) \in Nat
      /\ IsFiniteSet(C)
      /\ Cardinality(C) = IF new \in B THEN Cardinality(B) ELSE Cardinality(B) + 1
  BY FS_AddElement, FS_CardinalityType DEF BillsOk
<1>2. /\ new \in BillRec /\ new.id = Cardinality(B) + 1 /\ new.at = x.at /\ new.known = x.known
      /\ new.charged = new.credit
  BY <1>1 DEF TillOk, NewBill, BillRec
<1> HIDE DEF new
<1>3. new \notin B
  BY <1>1, <1>2 DEF BillsOk
<1>4. Cardinality(C) = Cardinality(B) + 1
  BY <1>1, <1>3
<1>5. C \subseteq BillRec
  BY <1>2 DEF BillsOk
<1>6. ASSUME NEW b \in C
      PROVE  /\ b.id \in 1..Cardinality(C) /\ b.at \in 1..n
             /\ b.known \subseteq 1..Cardinality(C)
             /\ b.charged = b.credit
  <2> HIDE DEF C
  <2>1. b \in B \/ b = new
    BY DEF C
  <2>2. CASE b \in B
    BY <1>1, <1>4, <2>2 DEF BillsOk
  <2>3. CASE b = new
    <3>1. new.id \in 1..Cardinality(C) /\ new.at \in 1..n
      BY <1>1, <1>2, <1>4 DEF TillOk
    <3>2. new.known \subseteq 1..Cardinality(C)
      BY <1>1, <1>2, <1>4 DEF TillOk
    <3> QED
      BY <1>2, <2>3, <3>1, <3>2
  <2> QED
    BY <2>1, <2>2, <2>3
<1>7. ASSUME NEW b \in C, NEW d \in C, b.id = d.id \/ b.at = d.at
      PROVE  b = d
  BY <1>1, <1>2, <1>7 DEF BillsOk, TillOk
<1>8. ASSUME NEW b \in C, NEW d \in C, b.id \in d.known
      PROVE  b.at < d.at
  BY <1>1, <1>2, <1>8 DEF BillsOk, TillOk
<1>9. BillsOk(C, n)
  BY <1>1, <1>5, <1>6, <1>7, <1>8 DEF BillsOk
<1> QED
  BY <1>1, <1>4, <1>9 DEF new

\* What another till's Bill leaves of a till.
LEMMA OtherTillOk ==
  ASSUME NEW n \in Nat, NEW B, BillsOk(B, n), NEW x, TillOk(x, B, n), NEW credit \in BOOLEAN,
         NEW y, TillOk(y, B, n), x.at # y.at
  PROVE  TillOk(y, B \cup {NewBill(x, B, credit)}, n)
<1>1. /\ Cardinality(B) \in Nat
      /\ Cardinality(B \cup {NewBill(x, B, credit)}) = Cardinality(B) + 1
  BY OneBillMore
<1>2. NewBill(x, B, credit).id = Cardinality(B) + 1 /\ NewBill(x, B, credit).at = x.at
  BY DEF NewBill
<1> QED
  BY <1>1, <1>2 DEF TillOk

LEMMA TillsInit == Init => TillsInv
<1> SUFFICES ASSUME Init PROVE TillsInv
  OBVIOUS
<1>1. Billing = {} /\ bills = {} /\ begun = 0 /\ DOMAIN till = Tills
  BY DEF Init, Billing, NotBilling
<1>2. IsFiniteSet({}) /\ Cardinality({}) = 0
  BY FS_EmptySet
<1> QED
  BY <1>1, <1>2, DocumentsAssumption DEF TillsInv, BillsOk, RoomLeft, DocumentsAssumption

LEMMA BeginBillSafe ==
  ASSUME TillsInv, NEW t \in Tills, NEW chat \in Chats, BeginBill(t, chat)
  PROVE  TillsInv'
<1> DEFINE new == [chat |-> chat, at |-> begun + 1, known |-> {b.id : b \in bills}]
<1>1. /\ begun \in Nat /\ begun' = begun + 1 /\ begun' <= MaxBills /\ bills' = bills
      /\ till' = [till EXCEPT ![t] = new] /\ DOMAIN till = Tills /\ t \notin Billing
      /\ \A s \in Tills \ {t} : till'[s] = till[s]
      /\ till'[t] = new /\ DOMAIN till' = Tills
  BY DocumentsAssumption DEF TillsInv, BeginBill, Billing, DocumentsAssumption
<1>2. TillOk(new, bills, begun + 1) /\ new.at = begun + 1
  BY <1>1, KnownOk DEF TillsInv
<1> HIDE DEF new
<1>3. /\ BillsOk(bills, begun + 1)
      /\ \A s \in Billing : TillOk(till[s], bills, begun + 1)
  BY <1>1, LaterOk DEF TillsInv
<1>4. new # NotBilling
  BY <1>1, <1>2 DEF NotBilling
<1>5. Billing' = Billing \cup {t}
  BY <1>1, <1>4 DEF Billing, NotBilling
<1>6. RoomLeft(bills, Billing \cup {t}, begun + 1)
  <2>1. /\ IsFiniteSet(Billing \cup {t}) /\ Cardinality(Billing) \in Nat
        /\ Cardinality(Billing \cup {t}) = Cardinality(Billing) + 1
    BY <1>1, FS_AddElement, FS_CardinalityType DEF TillsInv, RoomLeft
  <2>2. Cardinality(bills) \in Nat
    BY FS_CardinalityType DEF TillsInv, BillsOk
  <2> QED
    BY <1>1, <2>1, <2>2 DEF TillsInv, RoomLeft
<1>7. ASSUME NEW s \in Billing'
      PROVE  TillOk(till'[s], bills, begun + 1)
  BY <1>1, <1>2, <1>3, <1>5, <1>7 DEF Billing
<1>8. ASSUME NEW s \in Billing', NEW u \in Billing', till'[s].at = till'[u].at
      PROVE  s = u
  <2>1. \A v \in Billing : till[v].at \in 1..begun /\ till'[v] = till[v]
    BY <1>1 DEF TillsInv, TillOk, Billing
  <2> QED
    BY <1>1, <1>2, <1>5, <1>8, <2>1 DEF TillsInv
<1> QED
  BY <1>1, <1>3, <1>5, <1>6, <1>7, <1>8 DEF TillsInv

LEMMA CommitBillSafe ==
  ASSUME TillsInv, NEW t \in Tills, NEW credit \in BOOLEAN, CommitBill(t, credit)
  PROVE  TillsInv'
<1> DEFINE C == bills \cup {NewBill(till[t], bills, credit)}
<1>1. /\ begun \in Nat /\ begun' = begun /\ bills' = C /\ t \in Billing
      /\ till' = [till EXCEPT ![t] = NotBilling] /\ DOMAIN till' = Tills
      /\ \A s \in Tills \ {t} : till'[s] = till[s]
      /\ till'[t] = NotBilling
  BY DEF TillsInv, CommitBill, NewBill, Billing
<1>2. TillOk(till[t], bills, begun) /\ BillsOk(bills, begun)
  BY <1>1 DEF TillsInv
<1>3. /\ Cardinality(bills) \in Nat /\ Cardinality(C) = Cardinality(bills) + 1
      /\ BillsOk(C, begun)
  BY <1>1, <1>2, OneBillMore
<1>4. Billing' = Billing \ {t}
  BY <1>1 DEF Billing, NotBilling
<1>5. ASSUME NEW s \in Billing'
      PROVE  TillOk(till'[s], C, begun)
  <2>1. s \in Billing /\ s # t /\ till'[s] = till[s]
    BY <1>1, <1>4, <1>5 DEF Billing
  <2>2. TillOk(till[s], bills, begun) /\ till[t].at # till[s].at
    BY <1>1, <2>1 DEF TillsInv
  <2> QED
    BY <1>1, <1>2, <2>1, <2>2, OtherTillOk
<1> HIDE DEF C
<1>6. RoomLeft(C, Billing \ {t}, begun)
  <2>1. /\ IsFiniteSet(Billing \ {t}) /\ Cardinality(Billing) \in Nat
        /\ Cardinality(Billing \ {t}) = Cardinality(Billing) - 1
    BY <1>1, FS_RemoveElement, FS_CardinalityType DEF TillsInv, RoomLeft
  <2> QED
    BY <1>1, <1>3, <2>1 DEF TillsInv, RoomLeft
<1>7. ASSUME NEW s \in Billing', NEW u \in Billing', till'[s].at = till'[u].at
      PROVE  s = u
  <2>1. \A v \in Billing' : v \in Billing /\ till'[v] = till[v]
    BY <1>1, <1>4 DEF Billing
  <2> QED
    BY <1>7, <2>1 DEF TillsInv
<1> QED
  BY <1>1, <1>3, <1>4, <1>5, <1>6, <1>7 DEF TillsInv

LEMMA RollBackBillSafe ==
  ASSUME TillsInv, NEW t \in Tills, RollBackBill(t)
  PROVE  TillsInv'
<1>1. /\ begun \in Nat /\ begun' = begun /\ bills' = bills /\ t \in Billing
      /\ DOMAIN till' = Tills
      /\ \A s \in Tills \ {t} : till'[s] = till[s]
      /\ till'[t] = NotBilling
  BY DEF TillsInv, RollBackBill, Billing
<1>2. Billing' = Billing \ {t}
  BY <1>1 DEF Billing, NotBilling
<1>3. \A v \in Billing' : v \in Billing /\ till'[v] = till[v]
  BY <1>1, <1>2 DEF Billing
<1>4. RoomLeft(bills, Billing \ {t}, begun)
  <2>1. /\ IsFiniteSet(Billing \ {t}) /\ Cardinality(Billing) \in Nat
        /\ Cardinality(Billing \ {t}) = Cardinality(Billing) - 1
    BY <1>1, FS_RemoveElement, FS_CardinalityType DEF TillsInv, RoomLeft
  <2>2. Cardinality(bills) \in Nat
    BY FS_CardinalityType DEF TillsInv, BillsOk
  <2> QED
    BY <1>1, <2>1, <2>2 DEF TillsInv, RoomLeft
<1> QED
  BY <1>1, <1>2, <1>3, <1>4 DEF TillsInv

LEMMA TillsStep == TillsInv /\ [Next]_vars => TillsInv'
<1> SUFFICES ASSUME TillsInv, [Next]_vars PROVE TillsInv'
  OBVIOUS
<1>1. CASE UNCHANGED billVars
  BY <1>1 DEF TillsInv, Billing, NotBilling, billVars
<1>2. CASE \E t \in Tills : (\E chat \in Chats : BeginBill(t, chat)) \/ BillStep(t)
  BY <1>2, BeginBillSafe, CommitBillSafe, RollBackBillSafe DEF BillStep
<1>3. CASE \E c \in Calls : (\E r \in Requests : Ask(c, r)) \/ CallStep(c) \/ Fail(c)
  BY <1>1, <1>3 DEF Ask, CallStep, Fail, Connect, PoolTimeout, RefuseBill, FindBill, Resolve,
     LoadBill, RefuseProfile, LoadProfile, LoadPayer, GatherDeck, Render, SendDocument
<1> QED
  BY <1>1, <1>2, <1>3 DEF Next, SetShopProfile, vars

-----------------------------------------------------------------------------
(* Part 3, continued: the documents *)

Pcs == Working \cup {"idle", "connect", "render", "ended"}

CallRec == [pc : Pcs, kind : Kinds, chat : Chats \cup {"none"}, target : Nat,
            bill : SUBSET BillRec, payer : BOOLEAN, asked : SUBSET Nat]

\* Bill b is the one that request r asked for, given the Bills B.
Right(r, b, B) ==
  /\ b.chat = r.chat
  /\ r.target # Latest => b.id = r.target
  /\ r.target = Latest =>
       ~ \E newer \in B : newer.chat = b.chat /\ newer.id \in r.asked /\ b.id \in newer.known

\* The payer of a credit Bill is named on its invoice.
Named(r, b) == r.payer = b.credit

\* What a call r that has sent S relies on, given the Bills B and whether there
\* is a Shop Profile: it carries one Bill at most, and only for an invoice.
Carries(r, B, p) ==
  /\ r.bill \subseteq B /\ (\A b, d \in r.bill : b = d)
  /\ \A b \in r.bill : Right(r, b, B)
  /\ r.bill # {} => r.kind = "invoice"
  /\ r.pc \in {"payer", "render", "send"} /\ r.bill # {} => p
  /\ r.pc \in {"load", "profile", "payer"} => r.payer = FALSE
  /\ r.pc \in {"render", "send"} => \A b \in r.bill : Named(r, b)
  /\ r.pc \in {"idle", "connect", "gather", "resolve"} => r.bill = {} /\ r.payer = FALSE

HasSent(r, S, B, p) ==
  /\ S \subseteq B
  /\ r.pc # "ended" => S = {}
  /\ \A b \in S : Right(r, b, B) /\ (r.kind = "invoice" => p /\ Named(r, b))

CallOk(r, S, B, p) ==
  /\ r \in CallRec /\ p \in BOOLEAN
  /\ r.asked \subseteq 1..Cardinality(B)
  /\ Carries(r, B, p)
  /\ HasSent(r, S, B, p)

CallsInv ==
  /\ DOMAIN call = Calls /\ DOMAIN sent = Calls /\ profile \in BOOLEAN
  /\ \A c \in Calls : CallOk(call[c], sent[c], bills, profile)

DocumentsInv == TillsInv /\ CallsInv

\* The step of one call.
LEMMA OneCall ==
  ASSUME CallsInv, NEW c \in Calls, NEW r, NEW S, UNCHANGED <<bills, profile>>,
         call' = [call EXCEPT ![c] = r], sent' = [sent EXCEPT ![c] = S],
         CallOk(r, S, bills, profile)
  PROVE  CallsInv'
<1>1. DOMAIN call' = Calls /\ DOMAIN sent' = Calls
  BY DEF CallsInv
<1>2. ASSUME NEW d \in Calls
      PROVE  CallOk(call'[d], sent'[d], bills, profile)
  <2>1. CASE d = c
    BY <2>1 DEF CallsInv
  <2>2. CASE d # c
    <3>1. call'[d] = call[d] /\ sent'[d] = sent[d]
      BY <2>2 DEF CallsInv
    <3> QED
      BY <3>1 DEF CallsInv
  <2> QED
    BY <2>1, <2>2
<1>3. bills' = bills /\ profile' = profile
  OBVIOUS
<1> QED
  BY <1>1, <1>2, <1>3 DEF CallsInv

\* The same when the call sends nothing.
LEMMA OneCallOnly ==
  ASSUME CallsInv, NEW c \in Calls, NEW r, UNCHANGED <<bills, profile, sent>>,
         call' = [call EXCEPT ![c] = r],
         CallOk(r, sent[c], bills, profile)
  PROVE  CallsInv'
<1>1. /\ DOMAIN call' = Calls /\ DOMAIN sent' = Calls /\ call'[c] = r
      /\ \A d \in Calls \ {c} : call'[d] = call[d]
      /\ sent' = sent /\ bills' = bills /\ profile' = profile
  BY DEF CallsInv
<1>2. ASSUME NEW d \in Calls
      PROVE  CallOk(call'[d], sent[d], bills, profile)
  BY <1>1 DEF CallsInv
<1> QED
  BY <1>1, <1>2 DEF CallsInv

\* A call that has not ended has sent nothing.
LEMMA NothingSent ==
  ASSUME CallsInv, NEW c \in Calls
  PROVE  /\ CallOk(call[c], sent[c], bills, profile)
         /\ call[c].pc # "ended" => sent[c] = {}
BY DEF CallsInv, CallOk, HasSent

LEMMA NoCallOk ==
  ASSUME NEW B, NEW p \in BOOLEAN
  PROVE  /\ CallOk(NoCall, {}, B, p)
         /\ CallOk([NoCall EXCEPT !.pc = "ended"], {}, B, p)
<1>1. NoCall \in CallRec /\ [NoCall EXCEPT !.pc = "ended"] \in CallRec
  BY DEF NoCall, CallRec, Pcs, Working, Kinds, Latest
<1>2. Carries(NoCall, B, p) /\ Carries([NoCall EXCEPT !.pc = "ended"], B, p)
  BY DEF NoCall, Carries
<1>3. HasSent(NoCall, {}, B, p) /\ HasSent([NoCall EXCEPT !.pc = "ended"], {}, B, p)
  BY DEF NoCall, HasSent
<1>4. NoCall.asked = {} /\ [NoCall EXCEPT !.pc = "ended"].asked = {}
  BY DEF NoCall
<1> QED
  BY <1>1, <1>2, <1>3, <1>4 DEF CallOk

\* A call fails or is refused.
LEMMA ForgetSafe ==
  ASSUME CallsInv, NEW c \in Calls, call[c].pc # "ended", Forget(c),
         UNCHANGED <<bills, profile, sent>>
  PROVE  CallsInv'
<1>1. sent[c] = {} /\ profile \in BOOLEAN
  BY NothingSent DEF CallOk
<1> QED
  BY <1>1, NoCallOk, OneCallOnly DEF Forget

\* What a call keeps when only its pc moves.
Sames(r, s) ==
  /\ s.kind = r.kind /\ s.chat = r.chat /\ s.target = r.target /\ s.bill = r.bill
  /\ s.payer = r.payer /\ s.asked = r.asked

LEMMA PcOnly ==
  ASSUME NEW r \in CallRec, NEW pc \in Pcs
  PROVE  /\ [r EXCEPT !.pc = pc] \in CallRec
         /\ [r EXCEPT !.pc = pc].pc = pc
         /\ Sames(r, [r EXCEPT !.pc = pc])
BY DEF CallRec, Sames

\* A call that sends nothing moves to pc, if it carries there what it should.
LEMMA GotoSafe ==
  ASSUME CallsInv, NEW c \in Calls, call[c].pc # "ended", NEW pc \in Pcs, Goto(c, pc),
         UNCHANGED <<bills, profile, sent>>,
         Carries([call[c] EXCEPT !.pc = pc], bills, profile)
  PROVE  CallsInv'
<1> DEFINE r == [call[c] EXCEPT !.pc = pc]
<1>1. CallOk(call[c], sent[c], bills, profile) /\ sent[c] = {}
  BY NothingSent
<1>2. r \in CallRec /\ r.pc = pc /\ Sames(call[c], r)
  BY <1>1, PcOnly DEF CallOk
<1>3. call' = [call EXCEPT ![c] = r]
  BY DEF Goto, CallsInv
<1> HIDE DEF r
<1>4. HasSent(r, {}, bills, profile)
  BY DEF HasSent
<1>5. CallOk(r, {}, bills, profile)
  <2>1. Carries(r, bills, profile)
    BY DEF r
  <2> QED
    BY <1>1, <1>2, <1>4, <2>1 DEF CallOk, Sames
<1> QED
  BY <1>1, <1>3, <1>5, OneCallOnly

LEMMA SameRight ==
  ASSUME NEW r, NEW s, Sames(r, s)
  PROVE  /\ \A b, B : Right(r, b, B) => Right(s, b, B)
         /\ \A b : Named(r, b) => Named(s, b)
BY DEF Sames, Right, Named

\* What is carried from one pc to another.
LEMMA CarriesOn ==
  ASSUME NEW r \in CallRec, NEW pc \in Pcs, NEW B, NEW p, Carries(r, B, p),
         \/ <<r.pc, pc>> \in {<<"idle", "connect">>, <<"connect", "gather">>,
                              <<"connect", "resolve">>, <<"load", "profile">>,
                              <<"resolve", "ended">>, <<"render", "send">>,
                              <<"gather", "render">>, <<"send", "ended">>}
         \/ r.pc = "profile" /\ pc = "payer" /\ p
         \/ r.pc = "profile" /\ pc = "render" /\ p /\ \A b \in r.bill : Named(r, b)
  PROVE  Carries([r EXCEPT !.pc = pc], B, p)
<1> DEFINE s == [r EXCEPT !.pc = pc]
<1>1. s.pc = pc /\ Sames(r, s)
  BY PcOnly
<1> HIDE DEF s
<1>2. /\ \A b : Right(r, b, B) => Right(s, b, B)
      /\ \A b : Named(r, b) => Named(s, b)
  BY <1>1, SameRight
<1>3. s.bill = r.bill /\ s.kind = r.kind /\ s.payer = r.payer
  BY <1>1 DEF Sames
<1>4. /\ s.bill \subseteq B /\ (\A b, d \in s.bill : b = d)
      /\ \A b \in s.bill : Right(s, b, B)
      /\ s.bill # {} => s.kind = "invoice"
  BY <1>2, <1>3 DEF Carries
<1>5. /\ s.pc \in {"payer", "render", "send"} /\ s.bill # {} => p
      /\ s.pc \in {"load", "profile", "payer"} => s.payer = FALSE
      /\ s.pc \in {"render", "send"} => \A b \in s.bill : Named(s, b)
      /\ s.pc \in {"idle", "connect", "gather", "resolve"} => s.bill = {} /\ s.payer = FALSE
  BY <1>1, <1>2, <1>3 DEF Carries
<1>6. Carries(s, B, p)
  BY <1>4, <1>5 DEF Carries
<1> QED
  BY <1>6 DEF s

-----------------------------------------------------------------------------
\* resolve_bill finds at most one Bill, and it is the right one.
LEMMA FoundRight ==
  ASSUME TillsInv, NEW c \in Calls
  PROVE  /\ Found(c) \subseteq bills
         /\ \A b \in Found(c) : Right(call[c], b, bills)
         /\ \A b, d \in Found(c) : b = d
<1>1. Found(c) \subseteq bills
  BY DEF Found
<1>2. BillsOk(bills, begun) /\ begun \in Nat /\ \A b \in bills : b.at \in Nat
  BY DEF TillsInv, BillsOk
<1>3. ASSUME NEW b \in Found(c)
      PROVE  Right(call[c], b, bills)
  <2>1. CASE call[c].target # Latest
    BY <1>3, <2>1 DEF Found, Right
  <2>2. CASE call[c].target = Latest
    <3>1. /\ b \in bills /\ b.chat = call[c].chat
          /\ \A other \in bills : other.chat = call[c].chat => other.at <= b.at
      BY <1>3, <2>2 DEF Found
    <3>2. ASSUME NEW newer \in bills, newer.chat = b.chat, b.id \in newer.known
          PROVE  FALSE
      <4>1. b.at < newer.at
        BY <1>2, <3>1, <3>2 DEF BillsOk
      <4> QED
        BY <1>2, <3>1, <3>2, <4>1
    <3> QED
      BY <2>2, <3>1, <3>2 DEF Right
  <2> QED
    BY <2>1, <2>2
<1>4. ASSUME NEW b \in Found(c), NEW d \in Found(c)
      PROVE  b = d
  <2>1. CASE call[c].target # Latest
    BY <1>2, <2>1 DEF Found, BillsOk
  <2>2. CASE call[c].target = Latest
    <3>1. /\ b \in bills /\ d \in bills /\ b.chat = call[c].chat /\ d.chat = call[c].chat
          /\ \A other \in bills : other.chat = call[c].chat => other.at <= b.at /\ other.at <= d.at
      BY <2>2 DEF Found
    <3>2. b.at = d.at
      BY <1>2, <3>1
    <3> QED
      BY <1>2, <3>1, <3>2 DEF BillsOk
  <2> QED
    BY <2>1, <2>2
<1> QED
  BY <1>1, <1>3, <1>4

-----------------------------------------------------------------------------
(* A Bill more leaves every document right: it was not asked for. *)

LEMMA RightStays ==
  ASSUME NEW r, NEW b, NEW B, Right(r, b, B), NEW new, new.id \notin r.asked
  PROVE  Right(r, b, B \cup {new})
BY DEF Right

LEMMA OneBillMoreCalls ==
  ASSUME NEW n \in Nat, NEW B, BillsOk(B, n), NEW x, TillOk(x, B, n), NEW credit \in BOOLEAN,
         NEW r, NEW S, NEW p, CallOk(r, S, B, p)
  PROVE  CallOk(r, S, B \cup {NewBill(x, B, credit)}, p)
<1> DEFINE new == NewBill(x, B, credit)
           C   == B \cup {new}
<1>1. /\ Cardinality(B) \in Nat /\ Cardinality(C) = Cardinality(B) + 1
  BY OneBillMore
<1>2. new.id = Cardinality(B) + 1
  BY DEF NewBill
<1> HIDE DEF new
<1>3. r.asked \subseteq 1..Cardinality(B)
  BY DEF CallOk
<1>4. new.id \notin r.asked
  BY <1>1, <1>2, <1>3
<1>5. r.asked \subseteq 1..Cardinality(C)
  BY <1>1, <1>3
<1>6. Carries(r, C, p)
  <2>1. Carries(r, B, p)
    BY DEF CallOk
  <2>2. r.bill \subseteq C
    BY <2>1 DEF Carries
  <2>3. ASSUME NEW b \in r.bill PROVE Right(r, b, C)
    BY <1>4, <2>1, RightStays DEF Carries
  <2> QED
    BY <2>1, <2>2, <2>3 DEF Carries
<1>7. HasSent(r, S, C, p)
  <2>1. HasSent(r, S, B, p)
    BY DEF CallOk
  <2>2. S \subseteq C
    BY <2>1 DEF HasSent
  <2>3. ASSUME NEW b \in S PROVE Right(r, b, C)
    BY <1>4, <2>1, RightStays DEF HasSent
  <2> QED
    BY <2>1, <2>2, <2>3 DEF HasSent
<1>8. r \in CallRec /\ p \in BOOLEAN
  BY DEF CallOk
<1>9. CallOk(r, S, C, p)
  BY <1>5, <1>6, <1>7, <1>8 DEF CallOk
<1> QED
  BY <1>9 DEF new

LEMMA CommitKeepsCalls ==
  ASSUME DocumentsInv, NEW t \in Tills, NEW credit \in BOOLEAN, CommitBill(t, credit)
  PROVE  CallsInv'
<1>1. /\ begun \in Nat /\ BillsOk(bills, begun) /\ TillOk(till[t], bills, begun)
  BY DEF DocumentsInv, TillsInv, CommitBill, Billing
<1>2. bills' = bills \cup {NewBill(till[t], bills, credit)}
  BY DEF CommitBill, NewBill
<1>3. call' = call /\ sent' = sent /\ profile' = profile
  BY DEF CommitBill
<1>4. ASSUME NEW c \in Calls
      PROVE  CallOk(call[c], sent[c], bills \cup {NewBill(till[t], bills, credit)}, profile)
  BY <1>1, OneBillMoreCalls DEF DocumentsInv, CallsInv
<1> QED
  BY <1>2, <1>3, <1>4 DEF DocumentsInv, CallsInv

\* The Owner gives the Shop Profile.
LEMMA ProfileKeepsCalls ==
  ASSUME CallsInv, SetShopProfile
  PROVE  CallsInv'
<1>1. /\ profile' = TRUE /\ call' = call /\ sent' = sent /\ bills' = bills
  BY DEF SetShopProfile, billVars
<1>2. ASSUME NEW c \in Calls
      PROVE  CallOk(call[c], sent[c], bills, TRUE)
  <2>1. CallOk(call[c], sent[c], bills, profile)
    BY DEF CallsInv
  <2>2. Carries(call[c], bills, TRUE)
    BY <2>1 DEF CallOk, Carries
  <2>3. HasSent(call[c], sent[c], bills, TRUE)
    BY <2>1 DEF CallOk, HasSent
  <2> QED
    BY <2>1, <2>2, <2>3 DEF CallOk
<1> QED
  BY <1>1, <1>2 DEF CallsInv

-----------------------------------------------------------------------------
(* The steps of a call *)

LEMMA AskSafe ==
  ASSUME DocumentsInv, NEW c \in Calls, NEW r \in Requests, Ask(c, r)
  PROVE  CallsInv'
<1> DEFINE ids == {b.id : b \in bills}
           s   == [pc |-> "connect", kind |-> r.kind, chat |-> r.chat, target |-> r.target,
                   bill |-> {}, payer |-> FALSE, asked |-> ids]
<1>1. ids \subseteq 1..Cardinality(bills) /\ Cardinality(bills) \in Nat
  BY FS_CardinalityType DEF DocumentsInv, TillsInv, BillsOk
<1>2. sent[c] = {} /\ profile \in BOOLEAN
  BY NothingSent DEF DocumentsInv, CallOk, Ask
<1> HIDE DEF ids
<1>3. r.kind \in Kinds /\ r.chat \in Chats /\ r.target \in Nat
  BY DocumentsAssumption DEF DocumentsAssumption, BillIds, Latest
<1>4. /\ s.pc = "connect" /\ s.bill = {} /\ s.payer = FALSE /\ s.asked = ids
      /\ s \in CallRec
  <2>1. ids \in SUBSET Nat
    BY <1>1
  <2> QED
    BY <1>3, <2>1 DEF CallRec, Pcs
<1>5. call' = [call EXCEPT ![c] = s]
  BY DEF Ask, ids
<1> HIDE DEF s
<1>6. Carries(s, bills, profile) /\ HasSent(s, {}, bills, profile)
  BY <1>4 DEF Carries, HasSent
<1>7. CallOk(s, {}, bills, profile)
  BY <1>1, <1>2, <1>4, <1>6 DEF CallOk
<1> QED
  BY <1>2, <1>5, <1>7, OneCallOnly DEF Ask, DocumentsInv, billVars

\* A call carries on, and moves to pc.
LEMMA MoveSafe ==
  ASSUME CallsInv, NEW c \in Calls, call[c].pc # "ended", NEW pc \in Pcs, Goto(c, pc),
         UNCHANGED <<bills, profile, sent>>,
         \/ <<call[c].pc, pc>> \in {<<"idle", "connect">>, <<"connect", "gather">>,
                              <<"connect", "resolve">>, <<"load", "profile">>,
                              <<"resolve", "ended">>, <<"render", "send">>,
                              <<"gather", "render">>, <<"send", "ended">>}
         \/ call[c].pc = "profile" /\ pc = "payer" /\ profile
         \/ /\ call[c].pc = "profile" /\ pc = "render" /\ profile
            /\ \A b \in call[c].bill : Named(call[c], b)
  PROVE  CallsInv'
<1>1. call[c] \in CallRec /\ Carries(call[c], bills, profile)
  BY DEF CallsInv, CallOk
<1>2. Carries([call[c] EXCEPT !.pc = pc], bills, profile)
  BY <1>1, CarriesOn
<1> QED
  BY <1>2, GotoSafe

LEMMA ConnectSafe ==
  ASSUME CallsInv, NEW c \in Calls, Connect(c)
  PROVE  CallsInv'
<1>1. PICK pc \in {"gather", "resolve"} : Goto(c, pc)
  BY DEF Connect
<1> QED
  BY <1>1, MoveSafe DEF Connect, Pcs, Working, billVars

LEMMA ResolveSafe ==
  ASSUME DocumentsInv, NEW c \in Calls, Resolve(c)
  PROVE  CallsInv'
<1> DEFINE s == [call[c] EXCEPT !.pc = "load", !.bill = Found(c)]
<1>1. CallOk(call[c], sent[c], bills, profile) /\ sent[c] = {}
  BY NothingSent DEF DocumentsInv, Resolve
<1>2. /\ Found(c) \subseteq bills /\ (\A b, d \in Found(c) : b = d)
      /\ \A b \in Found(c) : Right(call[c], b, bills)
      /\ bills \subseteq BillRec
  BY FoundRight DEF DocumentsInv, TillsInv, BillsOk
<1>3. call' = [call EXCEPT ![c] = s]
  BY DEF Resolve, DocumentsInv, CallsInv
<1>4. /\ s \in CallRec /\ s.pc = "load" /\ s.bill = Found(c) /\ s.kind = "invoice"
      /\ s.chat = call[c].chat /\ s.target = call[c].target
      /\ s.asked = call[c].asked /\ s.payer = call[c].payer
  BY <1>1, <1>2 DEF CallOk, CallRec, Resolve, Pcs, Working
<1>5. s.payer = FALSE
  BY <1>1, <1>4 DEF CallOk, Carries, Resolve
<1> HIDE DEF s
<1>6. Carries(s, bills, profile)
  BY <1>2, <1>4, <1>5 DEF Carries, Right
<1>7. HasSent(s, {}, bills, profile)
  BY DEF HasSent
<1>8. CallOk(s, {}, bills, profile)
  BY <1>1, <1>4, <1>6, <1>7 DEF CallOk
<1> QED
  BY <1>1, <1>3, <1>8, OneCallOnly DEF Resolve, DocumentsInv, billVars

LEMMA FindBillSafe ==
  ASSUME DocumentsInv, NEW c \in Calls, FindBill(c)
  PROVE  CallsInv'
<1> DEFINE s == [call[c] EXCEPT !.pc = "ended"]
<1>1. CallOk(call[c], sent[c], bills, profile) /\ call[c].kind = "find" /\ call[c].pc = "resolve"
  BY DEF DocumentsInv, CallsInv, FindBill
<1>2. /\ Found(c) \subseteq bills
      /\ \A b \in Found(c) : Right(call[c], b, bills)
  BY FoundRight DEF DocumentsInv
<1>3. call' = [call EXCEPT ![c] = s] /\ sent' = [sent EXCEPT ![c] = Found(c)]
  BY DEF FindBill, End, Goto, DocumentsInv, CallsInv
<1>4. s \in CallRec /\ s.pc = "ended" /\ Sames(call[c], s)
  BY <1>1, PcOnly DEF CallOk, Pcs
<1>5. Carries(s, bills, profile)
  BY <1>1, CarriesOn DEF CallOk, Pcs
<1> HIDE DEF s
<1>6. HasSent(s, Found(c), bills, profile)
  <2>1. s.kind = "find"
    BY <1>1, <1>4 DEF Sames
  <2>2. \A b \in Found(c) : Right(s, b, bills)
    BY <1>2, <1>4, SameRight
  <2> QED
    BY <1>2, <1>4, <2>1, <2>2 DEF HasSent
<1>7. CallOk(s, Found(c), bills, profile)
  BY <1>1, <1>4, <1>5, <1>6 DEF CallOk, Sames
<1> QED
  BY <1>3, <1>7, OneCall DEF FindBill, DocumentsInv, billVars

LEMMA LoadProfileSafe ==
  ASSUME DocumentsInv, NEW c \in Calls, LoadProfile(c)
  PROVE  CallsInv'
<1>1. CallsInv /\ call[c].pc = "profile" /\ profile
      /\ UNCHANGED <<bills, profile, sent>>
  BY DEF DocumentsInv, LoadProfile, billVars
<1>2. CASE Goto(c, "payer")
  BY <1>1, <1>2, MoveSafe DEF Pcs, Working
<1>3. CASE Goto(c, "render") /\ ~ \E b \in call[c].bill : b.credit
  <2>1. /\ call[c].payer = FALSE /\ call[c].bill \subseteq bills
        /\ bills \subseteq BillRec
    BY <1>1 DEF CallsInv, CallOk, Carries, DocumentsInv, TillsInv, BillsOk
  <2>2. ASSUME NEW b \in call[c].bill
        PROVE  Named(call[c], b)
    <3>1. b.credit \in BOOLEAN /\ ~b.credit
      BY <1>3, <2>1 DEF BillRec
    <3> QED
      BY <2>1, <3>1, Zenon DEF Named
  <2> QED
    BY <1>1, <1>3, <2>2, MoveSafe DEF Pcs, Working
<1> QED
  BY <1>2, <1>3 DEF LoadProfile

LEMMA LoadPayerSafe ==
  ASSUME DocumentsInv, NEW c \in Calls, LoadPayer(c)
  PROVE  CallsInv'
<1> DEFINE payer == \E b \in call[c].bill : b.charged
           s     == [call[c] EXCEPT !.pc = "render", !.payer = payer]
<1>1. CallOk(call[c], sent[c], bills, profile) /\ sent[c] = {} /\ call[c].pc = "payer"
  BY NothingSent DEF DocumentsInv, LoadPayer
<1>2. call' = [call EXCEPT ![c] = s]
  BY DEF LoadPayer, DocumentsInv, CallsInv
<1>3. payer \in BOOLEAN
  BY Zenon
<1>4. ASSUME NEW b \in call[c].bill
      PROVE  payer = b.credit
  <2>1. /\ \A d \in call[c].bill : d = b
        /\ b.charged = b.credit
        /\ b.credit \in BOOLEAN
    BY <1>1 DEF CallOk, Carries, DocumentsInv, TillsInv, BillsOk, BillRec
  <2> QED
    BY <2>1, Zenon
<1> HIDE DEF payer
<1>5. /\ s \in CallRec /\ s.pc = "render" /\ s.payer = payer
      /\ s.chat = call[c].chat /\ s.target = call[c].target /\ s.asked = call[c].asked
      /\ s.kind = call[c].kind /\ s.bill = call[c].bill
  BY <1>1, <1>3 DEF CallOk, CallRec, Pcs
<1> HIDE DEF s
<1>6. Carries(s, bills, profile)
  BY <1>1, <1>4, <1>5 DEF CallOk, Carries, Right, Named
<1>7. HasSent(s, {}, bills, profile)
  BY DEF HasSent
<1>8. CallOk(s, {}, bills, profile)
  BY <1>1, <1>5, <1>6, <1>7 DEF CallOk
<1> QED
  BY <1>1, <1>2, <1>8, OneCallOnly DEF LoadPayer, DocumentsInv, billVars

LEMMA SendDocumentSafe ==
  ASSUME DocumentsInv, NEW c \in Calls, SendDocument(c)
  PROVE  CallsInv'
<1> DEFINE s == [call[c] EXCEPT !.pc = "ended"]
<1>1. CallOk(call[c], sent[c], bills, profile) /\ call[c].pc = "send"
  BY DEF DocumentsInv, CallsInv, SendDocument
<1>2. call' = [call EXCEPT ![c] = s] /\ sent' = [sent EXCEPT ![c] = call[c].bill]
  BY DEF SendDocument, End, Goto, DocumentsInv, CallsInv
<1>3. s \in CallRec /\ s.pc = "ended" /\ Sames(call[c], s)
  BY <1>1, PcOnly DEF CallOk, Pcs
<1>4. Carries(s, bills, profile)
  BY <1>1, CarriesOn DEF CallOk, Pcs
<1> HIDE DEF s
<1>5. HasSent(s, call[c].bill, bills, profile)
  <2>1. Carries(call[c], bills, profile)
    BY <1>1 DEF CallOk
  <2>2. ASSUME NEW b \in call[c].bill
        PROVE  Right(s, b, bills) /\ profile /\ Named(s, b)
    BY <1>1, <1>3, <2>1, SameRight DEF Carries
  <2> QED
    BY <1>3, <2>1, <2>2 DEF HasSent, Carries
<1>6. CallOk(s, call[c].bill, bills, profile)
  BY <1>1, <1>3, <1>4, <1>5 DEF CallOk, Sames
<1> QED
  BY <1>2, <1>6, OneCall DEF SendDocument, DocumentsInv, billVars

-----------------------------------------------------------------------------
LEMMA CallsInit == Init => CallsInv
<1> SUFFICES ASSUME Init PROVE CallsInv
  OBVIOUS
<1>1. \A c \in Calls : call[c] = NoCall /\ sent[c] = {}
  BY DEF Init
<1>2. profile \in BOOLEAN /\ DOMAIN call = Calls /\ DOMAIN sent = Calls
  BY DEF Init
<1> QED
  BY <1>1, <1>2, NoCallOk DEF CallsInv

LEMMA CallsStep == DocumentsInv /\ [Next]_vars => CallsInv'
<1> SUFFICES ASSUME DocumentsInv, [Next]_vars PROVE CallsInv'
  OBVIOUS
<1>0. CallsInv
  BY DEF DocumentsInv
<1>1. CASE UNCHANGED <<call, sent, bills, profile>>
  BY <1>0, <1>1 DEF CallsInv
<1>2. CASE \E t \in Tills : (\E chat \in Chats : BeginBill(t, chat)) \/ BillStep(t)
  BY <1>1, <1>2, CommitKeepsCalls DEF BeginBill, BillStep, RollBackBill
<1>3. CASE SetShopProfile
  BY <1>0, <1>3, ProfileKeepsCalls
<1>4. ASSUME NEW c \in Calls, NEW r \in Requests, Ask(c, r)
      PROVE  CallsInv'
  BY <1>4, AskSafe
<1>5. ASSUME NEW c \in Calls, CallStep(c)
      PROVE  CallsInv'
  <2>1. CASE Connect(c)
    BY <1>0, <2>1, ConnectSafe
  <2>2. CASE PoolTimeout(c)
    BY <1>0, <2>2, ForgetSafe DEF PoolTimeout, billVars
  <2>3. CASE RefuseBill(c)
    BY <1>0, <2>3, ForgetSafe DEF RefuseBill, GiveUp, billVars
  <2>4. CASE FindBill(c)
    BY <2>4, FindBillSafe
  <2>5. CASE Resolve(c)
    BY <2>5, ResolveSafe
  <2>6. CASE LoadBill(c)
    BY <1>0, <2>6, MoveSafe DEF LoadBill, Pcs, Working, billVars
  <2>7. CASE RefuseProfile(c)
    BY <1>0, <2>7, ForgetSafe DEF RefuseProfile, GiveUp, billVars
  <2>8. CASE LoadProfile(c)
    BY <2>8, LoadProfileSafe
  <2>9. CASE LoadPayer(c)
    BY <2>9, LoadPayerSafe
  <2>10. CASE GatherDeck(c)
    BY <1>0, <2>10, MoveSafe DEF GatherDeck, Pcs, billVars
  <2>11. CASE Render(c)
    BY <1>0, <2>11, MoveSafe DEF Render, Pcs, Working, billVars
  <2>12. CASE SendDocument(c)
    BY <2>12, SendDocumentSafe
  <2> QED
    BY <1>5, <2>1, <2>2, <2>3, <2>4, <2>5, <2>6, <2>7, <2>8, <2>9, <2>10, <2>11, <2>12
       DEF CallStep
<1>6. ASSUME NEW c \in Calls, Fail(c)
      PROVE  CallsInv'
  BY <1>0, <1>6, ForgetSafe DEF Fail, GiveUp, Working, billVars
<1> QED
  BY <1>1, <1>2, <1>3, <1>4, <1>5, <1>6 DEF Next, vars, billVars

-----------------------------------------------------------------------------
(* What follows *)

LEMMA DocumentsInit == Init => DocumentsInv
BY TillsInit, CallsInit DEF DocumentsInv

LEMMA DocumentsStep == DocumentsInv /\ [Next]_vars => DocumentsInv'
BY TillsStep, CallsStep DEF DocumentsInv

\* The bound on faults holds by its guard.
LEMMA FaultsStep == faults \in 0..MaxFaults /\ [Next]_vars => (faults \in 0..MaxFaults)'
<1> SUFFICES ASSUME faults \in 0..MaxFaults, [Next]_vars
             PROVE  (faults \in 0..MaxFaults)'
  OBVIOUS
<1>1. CASE UNCHANGED faults
  BY <1>1
<1>2. ASSUME NEW c \in Calls, Fail(c)
      PROVE  faults' \in 0..MaxFaults
  BY <1>2, DocumentsAssumption DEF Fail, DocumentsAssumption
<1>3. CASE \E t \in Tills : (\E chat \in Chats : BeginBill(t, chat)) \/ BillStep(t)
  BY <1>1, <1>3 DEF BeginBill, BillStep, CommitBill, RollBackBill
<1>4. CASE \E c \in Calls : (\E r \in Requests : Ask(c, r)) \/ CallStep(c)
  BY <1>1, <1>4 DEF Ask, CallStep, Connect, PoolTimeout, RefuseBill, FindBill, Resolve,
     LoadBill, RefuseProfile, LoadProfile, LoadPayer, GatherDeck, Render, SendDocument
<1> QED
  BY <1>1, <1>2, <1>3, <1>4 DEF Next, SetShopProfile, vars

LEMMA TypedInside ==
  ASSUME LockInv, PoolInv, DocumentsInv, faults \in 0..MaxFaults
  PROVE  TypeOK
<1>1. begun \in 0..MaxBills /\ BillsOk(bills, begun) /\ RoomLeft(bills, Billing, begun)
  BY DocumentsAssumption DEF DocumentsInv, TillsInv, DocumentsAssumption
<1>2. \A b \in bills : b.id \in BillIds /\ b.at \in 1..begun /\ b.chat \in Chats
  <2>1. Cardinality(bills) \in Nat /\ Cardinality(Billing) \in Nat
    BY <1>1, FS_CardinalityType DEF BillsOk, RoomLeft
  <2>2. Cardinality(bills) <= MaxBills
    BY <1>1, <2>1, DocumentsAssumption DEF RoomLeft, DocumentsAssumption
  <2> QED
    BY <1>1, <2>1, <2>2, DocumentsAssumption DEF BillsOk, BillRec, BillIds, DocumentsAssumption
<1>3. /\ profile \in BOOLEAN
      /\ \A c \in Calls : call[c].pc \in Working \cup {"idle", "connect", "render", "ended"}
  BY DEF DocumentsInv, CallsInv, CallOk, CallRec, Pcs
<1>4. /\ connected = {c \in Calls : call[c].pc \in Working \cup {"render"}}
                       \cup {t \in Tills : till[t] # NotBilling}
      /\ Cardinality(connected) <= PoolSize
  BY DEF PoolInv, Attached, Billing
<1>5. waiters \in Seq(Calls)
  BY DEF LockInv, LockTyped
<1> QED
  BY <1>1, <1>2, <1>3, <1>4, <1>5 DEF TypeOK

\* docs/adr/0014: a call holds its connection from its first statement to its
\* end, a till until it commits or rolls back, nobody else holds one, and they
\* are never more than the pool has (get_session, create_async_engine), for any
\* pool and any number of calls, tills and chats.
THEOREM DocumentsTyped == Spec => []TypeOK
<1>1. Init => faults \in 0..MaxFaults
  BY DocumentsAssumption DEF Init, DocumentsAssumption
<1> QED
  BY <1>1, LockInit, LockStep, PoolInit, PoolStep, DocumentsInit, DocumentsStep, FaultsStep,
     TypedInside, PTL DEF Spec

LEMMA LatestInside ==
  ASSUME DocumentsInv
  PROVE  LatestInvoice
<1> SUFFICES ASSUME NEW c \in Calls, NEW b \in sent[c]
             PROVE  /\ Right(call[c], b, bills)
                    /\ call[c].kind = "invoice" => profile /\ (call[c].payer <=> b.credit)
  BY DEF LatestInvoice, Right
<1>1. Right(call[c], b, bills) /\ (call[c].kind = "invoice" => profile /\ Named(call[c], b))
  BY DEF DocumentsInv, CallsInv, CallOk, HasSent
<1>2. call[c].payer \in BOOLEAN /\ b.credit \in BOOLEAN
  BY DEF DocumentsInv, CallsInv, CallOk, HasSent, CallRec, TillsInv, BillsOk, BillRec
<1> QED
  BY <1>1, <1>2, Zenon DEF Named

\* docs/agents/documents.md: the invoice a chat is sent is of its own Bill, of
\* the Bill it named or else of its most recent one as far as one can be most
\* recent, and names the payer just when the Bill is on credit (resolve_bill,
\* _load_bill_with_lines), for any number of calls, tills, chats and requests.
THEOREM LatestInvoiceSent == Spec => []LatestInvoice
BY LatestInside, DocumentsInit, DocumentsStep, PTL DEF Spec
=============================================================================
