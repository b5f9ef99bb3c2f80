----------------------------- MODULE Documents -----------------------------
(***************************************************************************)
(* Invoice PDFs and analysis decks: tools/documents_tools.py with          *)
(* domain/invoice.py, analysis_deck_delivery.py and the lock of            *)
(* domain/doc_gen.py.  A call holds its database connection from its first *)
(* statement to its end, so also while it waits for the one renderer and   *)
(* while Telegram takes the document; finalize_bill needs a connection of  *)
(* the same pool.                                                          *)
(***************************************************************************)
EXTENDS Naturals, Sequences, FiniteSets

CONSTANTS
  Calls,         \* calls of the documents tools and of the weekly deck job
  Tills,         \* finalize_bill calls that can run at the same time
  Chats,
  Requests,      \* what the agent asks for: [kind, chat, target]
  PoolSize,      \* connections of the engine: 5 and 10 more in overflow
  MaxBills,      \* bound: finalize_bill calls that begin
  MaxFaults      \* bound: calls that fail on the way

Kinds   == {"find", "invoice", "deck"}
BillIds == 1..MaxBills
Latest  == 0      \* neither bill_id nor invoice_number was given

ASSUME DocumentsAssumption ==
  /\ PoolSize \in Nat \ {0} /\ MaxBills \in Nat /\ MaxFaults \in Nat
  /\ Calls \cap Tills = {}
  /\ \A r \in Requests : r.kind \in Kinds /\ r.chat \in Chats /\ r.target \in BillIds \cup {Latest}

VARIABLES
  bills,      \* finalized Bills
  till,       \* finalize_bill calls in flight
  begun,      \* how many have begun: their transactions' timestamps
  profile,    \* the Owner has a Shop Profile
  call,       \* calls in flight, by their next step
  connected,  \* calls and tills that hold a connection
  renderer,   \* the call that holds _DOC_GEN_LOCK, in a set
  waiters,    \* the calls that wait for it, in order
  sent,       \* the Bill of the invoice Telegram took, or of find_bill's answer
  faults

billVars == <<bills, till, begun>>
docLock  == <<renderer, waiters>>
vars == <<billVars, profile, call, connected, docLock, sent, faults>>

-----------------------------------------------------------------------------
(* Bills and the Shop Profile, as far as documents read them.  known is the  *)
(* history of a Bill: the Bills of its chat when its transaction began.      *)

NotBilling == [chat |-> "none", at |-> 0, known |-> {}]

BeginBill(t, chat) ==
  /\ till[t] = NotBilling /\ begun < MaxBills
  /\ Cardinality(connected) < PoolSize
  /\ begun' = begun + 1
  /\ till' = [till EXCEPT ![t] = [chat |-> chat, at |-> begun + 1, known |-> {b.id : b \in bills}]]
  /\ connected' = connected \cup {t}
  /\ UNCHANGED <<bills, profile, call, docLock, sent, faults>>

\* A credit Bill commits with its charge, in which the customer is named.
CommitBill(t, credit) ==
  /\ till[t] # NotBilling
  /\ bills' = bills \cup {[id |-> Cardinality(bills) + 1, chat |-> till[t].chat, at |-> till[t].at,
                           known |-> till[t].known, credit |-> credit, charged |-> credit]}
  /\ till' = [till EXCEPT ![t] = NotBilling]
  /\ connected' = connected \ {t}
  /\ UNCHANGED <<begun, profile, call, docLock, sent, faults>>

RollBackBill(t) ==
  /\ till[t] # NotBilling
  /\ till' = [till EXCEPT ![t] = NotBilling]
  /\ connected' = connected \ {t}
  /\ UNCHANGED <<bills, begun, profile, call, docLock, sent, faults>>

SetShopProfile ==
  /\ ~profile
  /\ profile' = TRUE
  /\ UNCHANGED <<billVars, call, connected, docLock, sent, faults>>

-----------------------------------------------------------------------------
(* Calls *)

NoCall == [pc |-> "idle", kind |-> "find", chat |-> "none", target |-> Latest, bill |-> {},
           payer |-> FALSE, asked |-> {}]

Goto(c, pc) == call' = [call EXCEPT ![c].pc = pc]

\* A call without a document leaves nothing behind.
Forget(c) == call' = [call EXCEPT ![c] = [NoCall EXCEPT !.pc = "ended"]]

\* The tool is called; asked is history: the Bills there were.
Ask(c, r) ==
  /\ call[c].pc = "idle"
  /\ call' = [call EXCEPT ![c] =
                [pc |-> "connect", kind |-> r.kind, chat |-> r.chat, target |-> r.target,
                 bill |-> {}, payer |-> FALSE, asked |-> {b.id : b \in bills}]]
  /\ UNCHANGED <<billVars, profile, connected, docLock, sent, faults>>

Connect(c) ==
  /\ call[c].pc = "connect" /\ Cardinality(connected) < PoolSize
  /\ Goto(c, IF call[c].kind = "deck" THEN "gather" ELSE "resolve")
  /\ connected' = connected \cup {c}
  /\ UNCHANGED <<billVars, profile, docLock, sent, faults>>

\* QueuePool gives up after 30 seconds.
PoolTimeout(c) ==
  /\ call[c].pc = "connect" /\ Cardinality(connected) = PoolSize
  /\ Forget(c)
  /\ UNCHANGED <<billVars, profile, connected, docLock, sent, faults>>

\* The session is closed and the connection goes back to the pool.
End(c)    == Goto(c, "ended") /\ connected' = connected \ {c}
GiveUp(c) == Forget(c) /\ connected' = connected \ {c}

\* (mutant) bill_id is looked up without the chat.
FoundInAnyChat(c) ==
  IF call[c].target # Latest THEN {b \in bills : b.id = call[c].target}
  ELSE {b \in bills : /\ b.chat = call[c].chat
                      /\ \A other \in bills : other.chat = call[c].chat => other.at <= b.at}

\* resolve_bill: by bill_id or invoice_number if the Bill is of this chat,
\* else the chat's Bill with the last finalized_at.
Found(c) ==
  {b \in bills :
     /\ b.chat = call[c].chat
     /\ IF call[c].target # Latest THEN b.id = call[c].target
        ELSE \A other \in bills : other.chat = call[c].chat => other.at <= b.at}

\* bill_not_found or no_bills
RefuseBill(c) ==
  /\ call[c].pc = "resolve" /\ Found(c) = {}
  /\ GiveUp(c)
  /\ UNCHANGED <<billVars, profile, docLock, sent, faults>>

FindBill(c) ==
  /\ call[c].pc = "resolve" /\ call[c].kind = "find" /\ Found(c) # {}
  /\ End(c)
  /\ sent' = [sent EXCEPT ![c] = Found(c)]
  /\ UNCHANGED <<billVars, profile, docLock, faults>>

Resolve(c) ==
  /\ call[c].pc = "resolve" /\ call[c].kind = "invoice" /\ Found(c) # {}
  /\ call' = [call EXCEPT ![c].pc = "load", ![c].bill = Found(c)]
  /\ UNCHANGED <<billVars, profile, connected, docLock, sent, faults>>

\* _load_bill_with_lines: a Bill is never deleted.
LoadBill(c) ==
  /\ call[c].pc = "load"
  /\ Goto(c, "profile")
  /\ UNCHANGED <<billVars, profile, connected, docLock, sent, faults>>

\* (mutant) Renders are not serialized.
AskNobody(c) == renderer' = renderer \cup {c} /\ waiters' = waiters

AskRenderer(c) ==
  IF renderer = {} /\ waiters = <<>>
  THEN renderer' = {c} /\ waiters' = waiters
  ELSE renderer' = renderer /\ waiters' = Append(waiters, c)

\* shop_profile_missing
RefuseProfile(c) ==
  /\ call[c].pc = "profile" /\ ~profile
  /\ GiveUp(c)
  /\ UNCHANGED <<billVars, profile, docLock, sent, faults>>

\* The name of a credit Bill's customer is another SELECT.
LoadProfile(c) ==
  /\ call[c].pc = "profile" /\ profile
  /\ IF \E b \in call[c].bill : b.credit
     THEN Goto(c, "payer") /\ UNCHANGED docLock
     ELSE Goto(c, "render") /\ AskRenderer(c)
  /\ UNCHANGED <<billVars, profile, connected, sent, faults>>

LoadPayer(c) ==
  /\ call[c].pc = "payer"
  /\ call' = [call EXCEPT ![c].pc = "render", ![c].payer = \E b \in call[c].bill : b.charged]
  /\ AskRenderer(c)
  /\ UNCHANGED <<billVars, profile, connected, sent, faults>>

\* gather_analysis_deck_data: its SELECTs are the subject of Reports.
GatherDeck(c) ==
  /\ call[c].pc = "gather"
  /\ Goto(c, "render") /\ AskRenderer(c)
  /\ UNCHANGED <<billVars, profile, connected, sent, faults>>

\* The holder of the lock leaves it; asyncio wakes the first waiter.
LeaveRenderer ==
  IF waiters = <<>> THEN renderer' = {} /\ waiters' = waiters
  ELSE renderer' = {Head(waiters)} /\ waiters' = Tail(waiters)

Render(c) ==
  /\ call[c].pc = "render" /\ c \in renderer
  /\ Goto(c, "send") /\ LeaveRenderer
  /\ UNCHANGED <<billVars, profile, connected, sent, faults>>

SendDocument(c) ==
  /\ call[c].pc = "send"
  /\ End(c)
  /\ sent' = [sent EXCEPT ![c] = call[c].bill]
  /\ UNCHANGED <<billVars, profile, docLock, faults>>

\* An exception in a statement, in the renderer or in Telegram: the blocks
\* `async with` close the session and leave the lock.
Working == {"gather", "resolve", "load", "profile", "payer", "send"}

\* (mutant) An exception in the renderer leaves the lock taken.
FailKeepingLock(c) ==
  /\ faults < MaxFaults /\ faults' = faults + 1
  /\ call[c].pc \in Working \/ (call[c].pc = "render" /\ c \in renderer)
  /\ GiveUp(c)
  /\ UNCHANGED <<billVars, profile, docLock, sent>>

\* (mutant) The session is not closed.
FailConnected(c) ==
  /\ faults < MaxFaults /\ faults' = faults + 1
  /\ \/ call[c].pc \in Working /\ UNCHANGED docLock
     \/ call[c].pc = "render" /\ c \in renderer /\ LeaveRenderer
  /\ Forget(c)
  /\ UNCHANGED <<billVars, profile, connected, sent>>

Fail(c) ==
  /\ faults < MaxFaults /\ faults' = faults + 1
  /\ \/ call[c].pc \in Working /\ UNCHANGED docLock
     \/ call[c].pc = "render" /\ c \in renderer /\ LeaveRenderer
  /\ GiveUp(c)
  /\ UNCHANGED <<billVars, profile, sent>>

-----------------------------------------------------------------------------
Init ==
  /\ bills = {} /\ till = [t \in Tills |-> NotBilling] /\ begun = 0
  /\ profile = FALSE
  /\ call = [c \in Calls |-> NoCall]
  /\ connected = {} /\ renderer = {} /\ waiters = <<>>
  /\ sent = [c \in Calls |-> {}] /\ faults = 0

BillStep(t) == (\E credit \in BOOLEAN : CommitBill(t, credit)) \/ RollBackBill(t)

CallStep(c) ==
  \/ Connect(c) \/ PoolTimeout(c)
  \/ RefuseBill(c) \/ FindBill(c) \/ Resolve(c) \/ LoadBill(c)
  \/ RefuseProfile(c) \/ LoadProfile(c) \/ LoadPayer(c) \/ GatherDeck(c)
  \/ Render(c) \/ SendDocument(c)

Next ==
  \/ \E t \in Tills : (\E chat \in Chats : BeginBill(t, chat)) \/ BillStep(t)
  \/ SetShopProfile
  \/ \E c \in Calls :
       (\E r \in Requests : Ask(c, r)) \/ CallStep(c) \/ Fail(c)

Spec == Init /\ [][Next]_vars

\* A statement, a render and a request to Telegram come back.
FairSpec == Spec /\ \A c \in Calls : WF_vars(CallStep(c))

-----------------------------------------------------------------------------
\* The connections in use are those of the calls between their first statement
\* and their end and of the tills, never more than the pool has.
TypeOK ==
  /\ begun \in 0..MaxBills /\ faults \in 0..MaxFaults /\ profile \in BOOLEAN
  /\ \A b \in bills : b.id \in BillIds /\ b.at \in 1..begun /\ b.chat \in Chats
  /\ \A c \in Calls : call[c].pc \in Working \cup {"idle", "connect", "render", "ended"}
  /\ connected = {c \in Calls : call[c].pc \in Working \cup {"render"}}
                   \cup {t \in Tills : till[t] # NotBilling}
  /\ Cardinality(connected) <= PoolSize
  /\ waiters \in Seq(Calls)

\* docs/adr/0014: two large renders never run at the same time, and no call
\* waits for a renderer that is idle: whoever waits has one call before it
\* that is rendering, and everyone in the queue is waiting, once.
OneRenderAtATime ==
  /\ \A c, d \in renderer : c = d
  /\ waiters # <<>> => renderer # {}
  /\ \A i, j \in DOMAIN waiters : waiters[i] = waiters[j] => i = j
  /\ \A c \in Calls :
       LET waiting == \E i \in DOMAIN waiters : waiters[i] = c
       IN  /\ call[c].pc = "render" <=> waiting \/ c \in renderer
           /\ ~ (waiting /\ c \in renderer)

\* docs/agents/documents.md: without an id, the invoice is of the most recent
\* Bill of this chat.  finalized_at is when a transaction began, so of two
\* Bills that overlapped either may be the latest; but a Bill that began after
\* the one sent was on record, and was itself on record when the invoice was
\* asked for, is never passed over.  No chat is shown the Bill of another one.
LatestInvoice ==
  \A c \in Calls : \A b \in sent[c] :
    /\ b.chat = call[c].chat
    /\ call[c].target # Latest => b.id = call[c].target
    /\ call[c].target = Latest =>
         ~ \E newer \in bills :
             newer.chat = b.chat /\ newer.id \in call[c].asked /\ b.id \in newer.known
    /\ call[c].kind = "invoice" => profile /\ (call[c].payer <=> b.credit)

\* Every call of a documents tool ends, however long the queue for the
\* renderer is and whatever fails, and gives its connection back.
CallEnds == \A c \in Calls : call[c].pc = "connect" ~> call[c].pc = "ended" /\ c \notin connected
=============================================================================
