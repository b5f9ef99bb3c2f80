# TLA+ for the kirana store bot

A shop owner talks to a Telegram bot; a language model turns the messages into
tool calls; every tool call is one Postgres transaction. What must be right is
in the transactions (Draft Bills, `finalize_bill`, stock and its Batches, the
khata) and in the process around them: the handler of updates and the scheduler.
Around them are the reads: searches, reports, documents, and what the shop has
told the bot. This directory models all of these, checks them with TLC and proves
every safety property with TLAPS.

Paths below are relative to the repository (`src/domain/billing.py` and so on).

## The system

| Component | Source | State | Operations | Talks to |
|---|---|---|---|---|
| Update handler | `src/bot/handler.py`, `src/db/processed_updates.py` | `processed_updates` | `handle`: claim the update, store `owner_chat_id`, run the agent, answer; `/new` | harness, Telegram |
| Agent harness | `src/agent/harness.py` | `_session_ids` (memory) | `reply`, `clear_session` | the model, the tools |
| Tools | `src/tools/*.py` | none | one transaction per call | domain services |
| Draft Bills and Bills | `src/domain/billing.py` | `draft_bills`, `draft_lines`, `bills`, `bill_lines`, `invoice_counters` | `open_draft_bill`, `add_line`, `update_line`, `remove_line`, `view_draft`, `finalize_bill` | stock, pricing, khata, preferences |
| Stock | `src/domain/inventory.py`, `src/domain/stock.py` | `products`, `stock_batches`, `stock_ledger` | `receive_stock`, `add_product`, aliases, searches | Draft Bills (shared rows) |
| Pricing | `src/domain/pricing.py` | none | `compute_line_pricing`, `compute_bill_totals` | billing |
| Khata | `src/domain/khata.py` | `customers`, `khata_entries` | `find_or_create_customer`, charges, payments, balance, threshold | billing (customer row) |
| Preferences | `src/domain/preferences.py` | `preferences` | set, get, list | handler, billing, scheduler |
| Scheduler | `src/scheduler/*.py`, `src/db/sent_jobs.py` | APScheduler jobs, `sent_jobs` | refresh, run a job | preferences, khata, analytics, Telegram |
| Reports | `src/domain/analytics.py`, `analysis_deck.py`, views of migration 005 | none | Daily Close, weekly sales, deck figures, reorder suggestions | `bills`, `products` (read) |
| Documents | `src/tools/documents_tools.py`, `src/domain/invoice.py`, `analysis_deck_delivery.py`, `doc_gen.py` | the render lock, the connection pool | find a Bill, invoice PDF, deck | billing (pool), profile, Telegram |
| Shop profile | `src/domain/shop_profile.py` | `shop_profile` | set, get | documents, standing memory |
| Product search | `src/domain/inventory.py`, `barcode.py` | none | find, scan, prepare from a photo | agent |
| Voice, barcodes | `src/domain/voice.py`, `barcode.py` | none | external decoders | handler, search |

aiogram handles updates as concurrent tasks of one process, and the agent may
run several tools at a time, so tool calls interleave at every `await`; crashes
and lost connections roll a transaction back. PROJECT.json lists, under
`hazards`, what is hard to test in this code, each at its line.

What makes each part correct:

- *Draft Bills*: one open per chat; Lines change only while it is open; one Bill
  per Draft Bill, and a retry answers with that Bill.
- *Stock*: no oversell, no sale of expired Batches, FEFO; `products.quantity` is
  the sum of the Batches; the ledger explains every change; nothing vanishes.
- *Invoices*: numbers without gap or repetition per day; amounts that add up.
- *Khata*: exactly one charge per khata Bill, of its total; balances that follow
  from the entries; no payment above the balance without confirmation.
- *Locking*: a call is alone on the rows it has read and will write; no deadlock;
  every call ends.
- *Handler*: an update is handled at most once; `/new` really starts afresh.
- *Scheduler*: one delivery per period; the registered schedule is the stored one.
- *Reports*: a closed day stays closed; the slides of a deck agree with each other;
  a suggestion counts every sale of its window that lowered the stock it shows.
- *Documents*: one render at a time; the chat's own latest Bill; every call ends and
  gives its connection back.
- *Preferences and profile*: what is stored is read back as it was meant, by every
  reader; nothing that was not mentioned is changed.
- *Search*: an answer that need not be confirmed is unambiguous.

## Modules

| Module | What it is |
|---|---|
| `Sums` | what SELECT sum() computes over the rows of a table |
| `StockBatches` | Batch arithmetic: on-hand sum, sellable quantity, FEFO order and consumption |
| `Pricing` | `pricing.py` in exact integers (paise; quantities in thousandths) |
| `Billing` | the concurrent transactions: all draft calls, `finalize_bill`, `receive_stock`, crashes, two calendars |
| `BillingProperties` | what they promise: invariants, action properties, fairness and liveness |
| `BillPricing` | `finalize_bill`'s pricing loop over any Lines, the invoice's tax breakup, and their properties |
| `Updates` | the Telegram edge: deliveries, `UpdateHandler.handle`, the harness's sessions, crashes |
| `Scheduler` | `refresh_scheduled_jobs`, triggers, both job runs, `sent_jobs`, crashes |
| `KhataBook` | the abstract account: open, charge, pay, pay more than owed when confirmed |
| `KhataAccounts` | `KhataService` as concurrent transactions; implements `KhataBook` |
| `SalesFigures` | the calendar, the figures of every report, the views, the slides |
| `Reports` | the reports as series of SELECTs beside the tills that go on selling |
| `Documents` | calls that resolve, load, render and send, with the lock, the pool and failures |
| `Catalogue` | match scores, ranking, ambiguity, barcodes, photos |
| `ShopMemory` | `add_product`, `set_preference`, `set_shop_profile`, searches and the standing memory as concurrent calls |
| `BillingInvariants` | inductive invariants of `Billing`, for the proofs |
| `OperatorProofs` | lemmas on `Sums`, `StockBatches` and `Pricing` |
| `BillingProofs` | theorems on locks, and on what is in the tables |
| `FiguresProofs` | theorems on `BillPricing` and on `Reports` |
| `MemoryProofs` | theorems on `ShopMemory` |
| `KhataProofs`, `UpdatesProofs`, `SchedulerProofs`, `DocumentsProofs` | theorems on the component of that name |
| `MCBilling`, `MCBillPricing`, `MCKhata`, `MCUpdates`, `MCScheduler`, `MCReports`, `MCDocuments`, `MCShopMemory` | instances for TLC |

`Billing` is the hub: `Reports` and `Documents` keep a coarser `finalize_bill` of their
own (its transaction's beginning, its commit or rollback), which is all they can see
of it; `KhataAccounts` keeps its customer lock and charge; `Scheduler` and `Updates`
keep of `set_preference` the rows they read, which `ShopMemory` has in full.

Operators marked `(mutant)` in a comment are wrong variants of the definition
that follows them; no specification uses them. Each property is violated
when one of them takes the place of the right one.

### How Billing reads the code

- A *session* is a tool call in flight. `tx[t].pc` names the statement it runs
  next; `tx[t]` holds what it has read. One action is one statement that reads or
  locks what others can change, with the local work after it: `ReadLine` is
  `_get_draft_line`, `LockProduct` is one turn of the loop of
  `lock_products_sorted`, `CheckStock` the oversell loop, and so on.
- A transaction's writes are invisible until commit and protected by its locks,
  so they are one action, the last (`CommitBill`, `CommitReceive`, `SetLine`,
  `CommitNewDraft`), which also releases the locks. A database error
  (unique index, CHECK, a deleted row) is an `IF` of that action that rolls back.
- Postgres: READ COMMITTED; `FOR UPDATE` is an "update" lock; an INSERT takes a
  "share" lock on the rows its foreign keys reference, and a unique index entry
  under insertion is an "update" lock on the key: another insert of it waits,
  then fails if the first one commits.
- SQLAlchemy: a row already in the session's identity map keeps the attributes
  it has when it is selected again, `FOR UPDATE` or not (`StatusSeen`). It is
  the case for the Draft Bill of `finalize_bill`, not for Products and Batches,
  which are first selected with their lock.
- `draft = 0` in a session is a Draft Bill it inserted itself and has not
  committed. A Line with quantity 0 is no row. A NULL expiry is a day after all.
- `istDay` is `today_ist()`, `localDay` is `date.today()` of the server
  (`_mint_invoice_number`), which turns later; `CheckStock` reads both, since
  nothing between the two reads can change what the transaction does but its
  day numbers.
- Abstracted: names, HSN codes, timestamps, answers' texts; the payment modes
  other than khata behave as cash; a default payment mode from the preferences
  is a call with that mode. In `Billing` Products are packaged (whole units) and
  a Bill keeps its total only; `BillPricing` has the amounts, slabs and loose
  quantities. Calls that fail before any effect (`update_line` or `remove_line` of an
  unknown product, a refused quantity on an open Draft Bill) change nothing and have
  no action. `add_line` opens the chat's Draft Bill before it looks at its arguments,
  so with an unknown product or a refused quantity it may leave an empty one behind:
  quantity 0 stands for both in `CreateDraft`.

### How Updates reads the code

- aiogram starts a task per update; `task[u].pc` names the await its task is in,
  and an action is the code from there to the next await. The claim and the
  stored chat are transactions of their own (`handler.py`, two `session_scope`).
- An update is a position of `inbox`. `polled` is what `getUpdates` returned to
  this process, `confirmed` what its next request confirmed: after a crash
  Telegram delivers again from `confirmed`, and `Poll` starts a second task.
- `set_preference` reads the row and then inserts or updates (`LoadOwnerChat`,
  `WriteOwnerChat`); two first messages of an Owner collide on the primary key.
- `session` is `_session_ids`; it is read in `StartTurn` and stored at the SDK's init
  message. What a conversation remembers is kept by the SDK (`memory`, external):
  a resumed conversation may keep its id or get a new one with its transcript.
- `since`, `calm`, `turns` and `answers` are history, read by the properties only. `calm[c]` says that since the last `/new` of a chat no two of
  its messages overlapped and none failed.
- The agent's tool calls are the other modules; two Owners meet only in their
  own rows, so one is enough.

### How Scheduler reads the code

- Time is counted in slots, the grain of a schedule; `period_key` is the day or
  week a slot falls into, computed when a run starts. `trigger[job].next` is
  APScheduler's `next_run_time`; `Fire` is its wake-up, with `max_instances=1`. With
  `coalesce` the missed runs are one run, the latest (`LastDue`), and
  `misfire_grace_time` counts from that one.
- A refresh reads the preferences, then removes and adds jobs without an await;
  the deck first, the reminders second. Calls of `set_preference` and `run_bot`
  refresh through the same code and may overlap.
- A run is check, open, send, record: the first session, the second look at
  `sent_jobs`, the message, the record and its commit. `RunFails` is an
  exception in any of them and `Crash` the end of the process.
- One Owner: no row of one Owner is read for another. The reads of a run's first
  session, which nothing but that Owner's own messages change, are one step. A
  `set_preference` that fails on an insert conflict has no effect and no action.

### How KhataAccounts reads the code

- As in `Billing`, an action is one statement; `lock_customer` is a `FOR UPDATE`
  that waits, an entry is inserted by the transaction's last step. A credit
  Bill is seen here as its customer lock and its charge, whatever it does to
  stock, which `Billing` has; `append_bill_charge` is modelled in both.
- `Score` stands for Postgres's trigram similarity, and the phone is part of a
  name. Which of several candidates answers does not change the state.

### How Reports and SalesFigures read the code

- Time is in slots of UTC; a business day begins `IstOffset` slots before the day of
  UTC. `RangeStart` and `RangeEnd` are `ist_range_bounds_utc`; the views date a row
  by itself (`BusinessDate`). That both say the same is proved (`DateIsRange`).
- Each SELECT of a report is one action and sees what is committed at that moment;
  `report.pc` names the next. `sales_trend` computes its window again
  (`StartTrend`). Ties of `ORDER BY ... LIMIT` are free choices, as in Postgres.
- `finalized_at` is `now()` of Postgres, fixed when the transaction begins
  (`till[t].begun`), while the row appears at commit.
- The slides are operators on the gathered figures; charts, colours and wording are
  left out. A failing report changes nothing and has no action.

### How Documents reads the code

- A call holds its connection from its first statement until it has sent the
  document; a `finalize_bill` holds one, too. `PoolTimeout` is SQLAlchemy's 30 s.
- `renderer` and `waiters` are `_DOC_GEN_LOCK` with asyncio's FIFO of waiters. `Fail`
  is an exception in a statement, the renderer or the request to Telegram; the
  `async with` blocks then leave the lock and close the session.
- `asked` and `known` are history: what was on record when the document was asked
  for, and when a Bill's transaction began.

### How ShopMemory and Catalogue read the code

- A text is its word and its digits, so that parsing, zero-padding, case and
  leading zeros are what they are in the code. `Parse` is validation and also what a
  reader makes of the stored text; `Canonical` is what is stored.
- Load and write of a row are two actions; an insert that meets a row fails on the
  primary key, an update sends only the columns that differ from the loaded ones.
- `Similarity` is pg_trgm's function (external). The ranking leaves the order of equal
  rows free. The standing memory reads the Preferences first, then the rest.

## Runs

| Run | Instance | Shows |
|---|---|---|
| `stock` | 2 sessions, 2 chats, 1 Product, a Batch expiring on day 0, one without expiry, one received; 2 days | quantity = sum of Batches, conservation, ledger, current locked reads, gap-free invoice numbers, FEFO |
| `bills` | 3 sessions, 2 chats adding the same 2 Products in opposite orders, a receipt; one Product below cost at 40 paise | each call alone on the rows it has read and will write, global lock order, no wait cycle, one open Draft Bill, Bills match Draft Bills, one charge per khata Bill |
| `live` | 2 sessions, 1 chat, 2 Products, every call and refusal, `FairSpec` | types (no negative stock); every call ends |
| `pricing` | Bills of up to 2 Lines, 6 MRPs, 5 quantities, 4 slabs, both unit types | totals add up, MRP tax-inclusive, tax halved |
| `updates` | 3 messages from a private chat (voice notes) and a group (photos), 1 fault | one turn and one answer per update at most; memory since the last `/new` |
| `answered` | 3 messages from two private chats, `FairSpec`, no faults | every message of a known Owner is answered |
| `scheduler` | 2 slots a day, 2 days a week, 5 slots, 3 schedules, 3 changes by 2 calls, a crash, an exception | one delivery per period; triggers follow the preferences |
| `accounts` | 2 sessions, 2 customers, 3 names, amounts 1 and 2, 3 entries | implements `KhataBook`; locks held exactly while deciding |
| `reports` | 2 tills, 3 Products, 2 slots a day, a window of 2 days, 2 Bills, 4 slots | a settled Daily Close never changes; slides agree; suggestions count every sale of their window and err on the early side |
| `documents` | 2 calls and 2 tills on a pool of 2, 2 chats, 1 failure, `FairSpec` | one render at a time, the latest invoice, every call ends |
| `records` | 3 calls of 31 requests, 2 Products to start with | stored texts mean what was typed; profile as asked; clear searches |
| `replay` | 2 sessions, one `finalize_bill` retried | violated: a retry that waited does not replay (ADR-0004) |

Bounds. Two sessions are enough for every race of two calls, and a third in
`bills` for circles and for a waiter behind a waiter. Two Draft Bills let a chat
finalize one and open the next, or two chats bill at once. Quantities up to 2
let a Line fall short by one, empty a Batch exactly, and span two Batches. Three
Batches let one be received while two are on sale. Two days let the day turn
between the oversell check, the invoice number and the commit. Three messages
let a turn meet a `/new` and a later turn; one fault is a crash with what
Telegram then delivers again, or an exception (the theorem about
`HandledAtMostOnce` has no bound). Five slots are two days and
the start of the second week, so that each job fires in two periods, and one
slot of grace is enough for a run to be late and to be given up. Three entries
are a charge, a payment and a charge between. Four slots with the half-day offset
are two midnights of IST and one of UTC, and two Bills are one on either side, or
one that began before a report and one after. A pool of two lets two renders starve
a `finalize_bill`, and two tills starve the documents. Three calls are a reader, a
writer and a writer that overlaps it. The guards that bound the model
stop new calls, messages and changes from starting and never disable a step of
what has started, but for `MaxCustomers` and `MaxEntries` in `KhataAccounts`,
where no liveness is stated. SYMMETRY is over sessions and tool calls only, and
not used where liveness is checked.

Deadlock is checked in every run of `Billing`: a session at rest can always
start some call, and a blocked set of sessions would be found. `BillPricing`
stops when its Bill is full, `Updates` when its messages are handled,
`Scheduler` at the end of its calendar, `Documents` and `ShopMemory` when their
calls have ended, and `KhataAccounts` is full at its bounds: their configurations say `CHECK_DEADLOCK FALSE`.

Fairness. In `Billing`, strong fairness of each session's statements: Postgres
wakes the waiters of a row in order, so a lock that is free again and again is
obtained; a statement that waits for nothing runs. Nothing is assumed of calls
starting, of midnights or of crashes. In `Updates`, weak fairness of polling and
of each task: `start_polling` loops, every await comes back (database, Telegram
and the agent SDK have time-outs or answer), and the event loop is fair.
Nothing is assumed of messages or faults. In `Documents`, weak fairness of each
call's next step: statements, renders and Telegram come back (the client and the
pool have time-outs), asyncio wakes the waiters of a lock in order. Nothing is
assumed of the tills: a call that finds no connection is ended by the pool's time-out.

## Findings

- **A waiting retry is not replayed.** `finalize_bill` reads the Draft Bill, then
  locks it; the locked SELECT does not refresh the instance, so its status check
  sees the state from before the wait. The retry of a `finalize_bill` still in
  flight is refused for oversell or confirmation, or fails on the
  unique `bills.draft_bill_id`. There is never a second Bill (`BillsMatchDrafts`).

Seen in the models, and not held against a statement of the documents by a run:

- The line calls do not lock the Draft Bill and may write after it was finalized:
  the Bill lacks what the call reported as done. Two `add_line` calls of one Product
  both write the sum they computed; one addition is lost (`billing.py:126`, `:136`).
- Packaged Lines round the tax of a unit and multiply (`pricing.py`), where ADR-0006
  rounds per Line. `MrpIsTaxInclusive` and `TaxIsHalved` say what holds.
- A reply that is prepared or streamed while `/new` clears the session stores its
  session id again, and the next message resumes the old conversation. An owner who
  waits for each answer is safe (`RemembersConversation`).
- A Bill that began before midnight and commits after the Daily Close is dated on
  the closed day: `analytics.md` says that asking again returns the same figures, which
  is so once no `finalize_bill` of the day is in flight (`DayCloseSettles`).
- Documents say stock "at or below" the Reorder Level; the code compares with `<`.
- Two confirmed creations of one customer both succeed, and so do two `add_product`
  calls of one Product; its searches are ambiguous from then on (`FindIsClear`).
- A confirmation of an overpayment is of any amount above whatever the balance is
  by then (`khata.py:220`); `KhataBook` therefore has `PayConfirmed` without a bound.
- Two overlapping `set_shop_profile` calls may leave one's name with the other's logo.
- Superscript digits pass `str.isdigit` and make `int()` raise; the model's digits
  are decimal.
- Two overlapping refreshes may leave the older schedule registered, and a refresh at
  the due slot itself drops that firing (`lifecycle.py:102`); the first two messages
  of a new Owner may collide and one of them is lost; a message whose record did not
  commit is sent again by a later run of its period.

## Proofs

Every safety property that a run checks is proved for every value of the constants:
any number of sessions, chats, Products, Batches, Lines, messages, calls and faults,
the refinement of `KhataBook` included. The proofs rest on the named assumptions of
the modules alone: bounds are naturals and instances well-formed. Two assumptions
say more: a till is not a tool call (`DocumentsAssumption`), and the world outside is
what the code relies on (`ShopMemoryAssumption`: `str.lower` applied twice is `str.lower`,
`products.barcode` is unique, a similarity is at most 1). TLC evaluates them in each run.

*Locks* (`BillingProofs`): `LocksTakenInOrder`, `NeverDeadlocks`. The inductive
invariant is `OrderInv`. It bounds the rows a transaction holds by the level of its
statement (`HeldLevel`) and, while it goes through Products or Batches, says that
all ids held are below all ids left to lock; that `lock_products_sorted` sorts is
used exactly there. The order of requests follows, and no circle can be closed: the
session that wants the last row of all would wait for one that wants a later row.

*Tables* (`BillingProofs`): the invariant is `TableInv`. Its parts, in the order
in which they lean on each other:

- a transaction holds what it is about to write, and what it has read under a lock
  is still what the table says (`LockedReadsStayCurrent`);
- no two calls work on one row (`EachComputesAlone`). That Postgres keeps conflicting
  locks apart is `LocksExclude`, by the guard of `Take`; the code's part, and the work
  of the proof, is that every row that is read to be written is locked `FOR UPDATE`
  first and kept to the end (`OwnsInv`; `PartiesInv` for the Draft Bill and the
  customer). Lines are not among these rows: the line calls lock none;
- so one Draft Bill per chat is open, a Draft Bill is finalized with exactly one Bill,
  numbers follow each other, each khata Bill is charged in full (`OneOpenDraftEver`,
  `OneBillPerDraft`, `InvoicesNeverSkip`, `ChargedExactlyOnce`);
- `QuantityIsBatchSum`: a sale lowers quantity and Batches by the same, because a Line
  that passed the oversell check is covered by the Batches chosen (`FefoTakesNeed`: the
  loop's `RuntimeError` is unreachable). Nothing is negative (`NothingNegative`, the
  full `TypeOK`), which is not inductive without it;
- `StockNeverVanishes`, `LedgerAlwaysExplains`: the ledger's rows are the Batches used,
  in FEFO order, and lead from one quantity to the next;
- `EarliestExpiryFirst`: the chosen Batches are complete when they are locked, since
  `receive_stock` needs the Product's lock to add one.

*Pricing* (`OperatorProofs`, `FiguresProofs`): `InvoiceAlwaysAddsUp`,
`MrpIsAlwaysInclusive`, `TaxIsAlwaysHalved`, `AmountsAlwaysTyped`, for all MRPs, quantities
and Lines. `BreakupAlwaysMatches`: the slabs partition the Lines, so the sums over the
slabs of the sums over their Lines are the totals.

*Khata* (`KhataProofs`): `AccountsKeepBook` is the refinement. Under `AccountsInv` a
session that is deciding or writing is alone on its Customer's row, so the balance it
compared the payment with is the balance its entry changes; `CreateCustomer` maps to
`Open`, `PostEntry` to `Charge`, `Pay` or `PayConfirmed`, all else to a stutter. That an
entry moves its own Customer's sum and no other is the lemma `Posted`. `AccountsTyped`
follows from the same invariant.

*Updates* (`UpdatesProofs`): `HandlingInv` says that a turn belongs to a claimed update,
an update past its claim is on record, and a count is 1 only where the task has
passed that step or is gone (`UpdatesHandledAtMostOnce`). `EdgeInv` adds that a
conversation is named after an update of its own chat and that a calm chat has one
message in hand at most (`AgentRemembers`, `EdgeTyped`).

*Scheduler* (`SchedulerProofs`): `DeliveryInv` accounts for every message: delivered =
lost + on record + about to be recorded (`ScheduledMessagesSentOnce`; one instance per
job at a time makes it inductive). `SchedulerInv` says that one refresh is on its way or
the triggers are the preferences' (`TriggersAlwaysFollow`, `SchedulerTyped`).

*Reports* (`FiguresProofs`): `DayCloseIsFinal`: a settled close is of a day with no
Bill in flight, later Bills begin on later days, and a range of UTC is a day of IST.
The others follow from `ReportInv`: Bills are numbered as they commit, stock is the
opening stock less what they sold, and whatever a report has read is a figure of
*the Bills up to some number* (`Known`), a number that no later statement undercuts.
So a later Bill never changes what has been read, and the sums of two slides compare
as their sets of Bills do (`DeckAlwaysAddsUp`, `ReportsTyped`). For
`SuggestionsAlwaysErrEarly` every Bill of the window's business days that was
committed when the stock was read is among those the velocity counts, since the
range of UTC is exactly those days.

*Documents* (`DocumentsProofs`): `LockInv` is `OneRenderAtATime` with the types of the queue:
a call enters it once, at its end, and leaves it from the front or when it fails.
`PoolInv` counts connections (`DocumentsTyped`). For `LatestInvoiceSent`, `TillsInv` says that
a transaction's timestamp is its own and that a Bill knows only Bills of earlier ones;
`CallsInv` that a call carries the right Bill from `resolve_bill` on, since Bills that
commit later were not on record when the invoice was asked for.

*Shop memory* (`MemoryProofs`): one inductive invariant, `MemoryInv`.

- A row of Preferences is a text that means what the Owner meant
  (`StoredAlwaysReadable`). Each canonical form is parsed back: two digits of an hour or
  a minute are the number again, leading zeros do not count, lower-case modes and
  weekdays stay (`StoredMeansTyped`).
- Without an overlap the Shop Profile is what was asked for and the one call that is
  writing has loaded it; so the columns it sends make the whole new row. With one,
  every column is still some call's (`ProfileAlwaysAsAsked`).
- A ranked search that is clear beats every other score by the delta
  (`RankingDecides`, with `Ranked` a sorting of the matches). Products are only added, without
  a barcode, so what was true of an answer stays true (`SearchesAlwaysClear`).

Sums are recursive functions (`Sums`): their equations, and with them all facts about
tables that grow or change a row, follow by least-element arguments, since the
library's induction theorems cannot be used with the installed provers.

Only model-checked: liveness (`EveryCallEnds`, `MessageAnswered`, `CallEnds`), since fairness
and ENABLED are out of the provers' reach.

## Not modelled

- Layout, charts, wording, logging, the text of answers; the decoders of voice and
  barcodes; the language model's choices, which are any call of the tools.
- Migrations but for the views of 005: scripts that run once, alone.
- `mcp_server.py`, `main.py` and configuration: wiring; a crash and a restart are in
  `Updates` and `Scheduler`.
- Loose stock inside `Billing`: quantities are whole units there, thousandths in
  `BillPricing`, so what `NUMERIC(12, 3)` does to a quantity below 0.0005 is not seen
  (`billing.py:649`).

## Plan

Done: every component above, and the proofs of all safety properties. What would come
next: an abstract `Shop` of atomic sales, receipts and charges with `Billing`
implementing it, and loose stock in thousandths.
