-------------------------- MODULE SchedulerProofs --------------------------
(* sent_jobs keeps the scheduled messages to one per period, and the        *)
(* triggers follow the preferences.                                         *)
EXTENDS Scheduler, TLAPS

Runs == [pc : {"idle", "check", "open", "send", "record"}, period : Periods]

RunsTyped   == now \in 0..MaxSlot /\ run \in [Jobs -> Runs]
CountsTyped == delivered \in [Jobs -> [Periods -> Nat]] /\ lost \in [Jobs -> [Periods -> Nat]]

Bit(b) == IF b THEN 1 ELSE 0

Unrecorded(job, p) == run[job].pc = "record" /\ run[job].period = p

\* Every message that went out was lost with its transaction, is on record, or
\* is about to be recorded by the run that sent it; and a run that is about to
\* send or to record has nothing on record for its period.
Accounted(job, p) ==
  delivered[job][p] = lost[job][p] + Bit(<<job, p>> \in sentJobs) + Bit(Unrecorded(job, p))

Unsent(job) == run[job].pc \in {"send", "record"} => <<job, run[job].period>> \notin sentJobs

DeliveryInv ==
  /\ RunsTyped /\ CountsTyped
  /\ \A job \in Jobs : Unsent(job) /\ \A p \in Periods : Accounted(job, p)

-----------------------------------------------------------------------------
\* The period of a slot of the calendar is a slot number as well.
LEMMA PeriodInRange ==
  ASSUME NEW job \in Jobs, NEW t \in 0..MaxSlot
  PROVE  Period(job, t) \in Periods
<1>1. SlotsPerDay \in Nat \ {0} /\ DaysPerWeek \in Nat \ {0} /\ MaxSlot \in Nat
  BY SchedulerAssumption
<1>2. ASSUME NEW a \in Nat \ {0}, NEW b \in Nat \ {0} PROVE a * b \in Nat \ {0}
  BY <1>2
<1>3. Cycle(job) \in Nat \ {0}
  BY <1>1, <1>2 DEF Cycle
<1>4. ASSUME NEW c \in Nat \ {0} PROVE t \div c \in 0..t
  BY <1>1, <1>4
<1> QED
  BY <1>1, <1>3, <1>4 DEF Period, Periods

\* What the deliveries of a job stand on.
SameJob(job) ==
  /\ run'[job] = run[job] /\ delivered'[job] = delivered[job] /\ lost'[job] = lost[job]
  /\ \A p \in Periods : <<job, p>> \in sentJobs' <=> <<job, p>> \in sentJobs

\* A job whose run and records stay as they are keeps its accounts.
LEMMA SameJobKeeps ==
  ASSUME DeliveryInv, NEW job \in Jobs, SameJob(job)
  PROVE  Unsent(job)' /\ \A p \in Periods : Accounted(job, p)'
<1>1. Unsent(job) /\ run[job].period \in Periods
  BY DEF DeliveryInv, RunsTyped, Runs
<1>2. Unsent(job)'
  BY <1>1 DEF Unsent, SameJob
<1>3. ASSUME NEW p \in Periods PROVE Accounted(job, p)'
  <2>1. Accounted(job, p)
    BY DEF DeliveryInv
  <2> QED
    BY <2>1 DEF Accounted, SameJob, Unrecorded, Bit
<1> QED
  BY <1>2, <1>3

\* A run that ends, starts or moves on where nothing has been sent yet.
LEMMA QuietStep ==
  ASSUME DeliveryInv, NEW job \in Jobs, run[job].pc # "record",
         run'[job].pc \in {"idle", "check", "open", "send"},
         run'[job].pc = "send" => <<job, run'[job].period>> \notin sentJobs,
         sentJobs' = sentJobs, delivered' = delivered, lost' = lost
  PROVE  Unsent(job)' /\ \A p \in Periods : Accounted(job, p)'
<1>1. Unsent(job)'
  BY DEF Unsent
<1>2. ASSUME NEW p \in Periods PROVE Accounted(job, p)'
  <2>1. Accounted(job, p)
    BY DEF DeliveryInv
  <2> QED
    BY <2>1 DEF Accounted, Unrecorded, Bit
<1> QED
  BY <1>1, <1>2

\* The shape of a step of one run.
LEMMA RunStepShape ==
  ASSUME RunsTyped, NEW job \in Jobs,
         NEW from, NEW to \in {"idle", "check", "open", "send", "record"},
         RunStep(job, from, to)
  PROVE  /\ run[job].pc = from
         /\ run' \in [Jobs -> Runs]
         /\ run'[job].pc = to
         /\ to # "idle" => run'[job].period = run[job].period
         /\ \A k \in Jobs \ {job} : run'[k] = run[k]
<1>1. MaxSlot \in Nat /\ 0 \in Periods
  BY SchedulerAssumption DEF Periods
<1>2. run[job] \in Runs /\ NoRun \in Runs
  BY <1>1 DEF RunsTyped, Runs, NoRun
<1>3. CASE to = "idle"
  BY <1>2, <1>3 DEF RunStep, RunsTyped, NoRun
<1>4. CASE to # "idle"
  <2>1. run' = [run EXCEPT ![job] = [run[job] EXCEPT !.pc = to]]
    BY <1>4 DEF RunStep
  <2>2. [run[job] EXCEPT !.pc = to] \in Runs
    BY <1>2 DEF Runs
  <2> QED
    BY <1>2, <2>1, <2>2 DEF RunStep, RunsTyped, Runs
<1> QED BY <1>3, <1>4

\* One more message of the run's period is counted.
LEMMA CountShape ==
  ASSUME RunsTyped, NEW job \in Jobs, NEW f \in [Jobs -> [Periods -> Nat]]
  PROVE  /\ Count(f, job) \in [Jobs -> [Periods -> Nat]]
         /\ \A k \in Jobs \ {job} : Count(f, job)[k] = f[k]
         /\ \A p \in Periods : Count(f, job)[job][p] =
                                   f[job][p] + Bit(p = run[job].period)
<1>1. run[job].period \in Periods /\ f[job] \in [Periods -> Nat]
  BY DEF RunsTyped, Runs
<1>2. f[job][run[job].period] + 1 \in Nat
  BY <1>1
<1>3. DEFINE g == [f[job] EXCEPT ![run[job].period] = @ + 1]
<1>4. g \in [Periods -> Nat] /\ \A p \in Periods : g[p] = f[job][p] + Bit(p = run[job].period)
  BY <1>1, <1>2 DEF Bit
<1>5. Count(f, job) = [f EXCEPT ![job] = g]
  BY DEF Count
<1> HIDE DEF g
<1> QED
  BY <1>4, <1>5

-----------------------------------------------------------------------------
\* Fire: a run starts, or the trigger moves on without one.
LEMMA FireKeeps ==
  ASSUME DeliveryInv, NEW job \in Jobs, Fire(job)
  PROVE  DeliveryInv'
<1>1. RunsTyped /\ run[job] \in Runs /\ run[job].period \in Periods
  BY DEF DeliveryInv, RunsTyped, Runs
<1>2. UNCHANGED <<now, sentJobs, delivered, lost>>
  BY DEF Fire, tables, reached
<1>3. PICK r \in {run[job], [pc |-> "check", period |-> Period(job, now)]} :
        run' = [run EXCEPT ![job] = r] /\ (r # run[job] => run[job].pc = "idle")
  BY DEF Fire
<1>4. r \in Runs
  BY <1>1, <1>3, PeriodInRange DEF RunsTyped, Runs
<1>5. RunsTyped' /\ run'[job] = r /\ \A k \in Jobs \ {job} : run'[k] = run[k]
  BY <1>1, <1>2, <1>3, <1>4 DEF RunsTyped
<1>6. ASSUME NEW k \in Jobs PROVE Unsent(k)' /\ \A p \in Periods : Accounted(k, p)'
  <2>1. CASE k # job \/ r = run[job]
    BY <1>2, <1>5, <2>1, SameJobKeeps DEF SameJob
  <2>2. CASE k = job /\ r # run[job]
    <3>1. run[k].pc = "idle" /\ run'[k].pc = "check"
      BY <1>3, <1>5, <2>2
    <3> QED
      BY <1>2, <3>1, QuietStep
  <2> QED BY <2>1, <2>2
<1>7. CountsTyped'
  BY <1>2 DEF DeliveryInv, CountsTyped
<1> QED
  BY <1>5, <1>6, <1>7 DEF DeliveryInv

\* Check and Open: nothing is sent yet.
LEMMA CheckKeeps ==
  ASSUME DeliveryInv, NEW job \in Jobs, Check(job) \/ Open(job)
  PROVE  DeliveryInv'
<1>1. RunsTyped
  BY DEF DeliveryInv
<1>2. UNCHANGED <<now, sentJobs, delivered, lost>>
  BY DEF Check, Open, RunStep, tables, reached
<1>3. PICK from \in {"check", "open"}, to \in {"idle", "open", "send"} :
        RunStep(job, from, to) /\ (to = "send" => ~AlreadySent(job))
  BY Zenon DEF Check, Open
<1>4. /\ run[job].pc = from /\ run' \in [Jobs -> Runs] /\ run'[job].pc = to
      /\ to # "idle" => run'[job].period = run[job].period
      /\ \A k \in Jobs \ {job} : run'[k] = run[k]
  BY <1>1, <1>3, RunStepShape
<1>5. ASSUME NEW k \in Jobs PROVE Unsent(k)' /\ \A p \in Periods : Accounted(k, p)'
  <2>1. CASE k # job
    BY <1>2, <1>4, <2>1, SameJobKeeps DEF SameJob
  <2>2. CASE k = job
    BY <1>2, <1>3, <1>4, <2>2, QuietStep DEF AlreadySent
  <2> QED BY <2>1, <2>2
<1> QED
  BY <1>2, <1>4, <1>5 DEF DeliveryInv, RunsTyped, CountsTyped

\* Deliver: one more message, which the run is about to record.
LEMMA DeliverKeeps ==
  ASSUME DeliveryInv, NEW job \in Jobs, Deliver(job)
  PROVE  DeliveryInv'
<1>1. RunsTyped /\ CountsTyped /\ Unsent(job)
  BY DEF DeliveryInv
<1>2. UNCHANGED <<now, sentJobs, lost>> /\ delivered' = Count(delivered, job)
  BY DEF Deliver, RunStep, tables
<1>3. /\ run[job].pc = "send" /\ run' \in [Jobs -> Runs] /\ run'[job].pc = "record"
      /\ run'[job].period = run[job].period
      /\ \A k \in Jobs \ {job} : run'[k] = run[k]
  BY <1>1, RunStepShape DEF Deliver
<1>4. /\ delivered' \in [Jobs -> [Periods -> Nat]]
      /\ \A k \in Jobs \ {job} : delivered'[k] = delivered[k]
      /\ \A p \in Periods : delivered'[job][p] = delivered[job][p] + Bit(p = run[job].period)
  BY <1>1, <1>2, CountShape DEF CountsTyped
<1>5. ASSUME NEW k \in Jobs PROVE Unsent(k)' /\ \A p \in Periods : Accounted(k, p)'
  <2>1. CASE k # job
    BY <1>2, <1>3, <1>4, <2>1, SameJobKeeps DEF SameJob
  <2>2. CASE k = job
    <3>1. Unsent(job)'
      BY <1>1, <1>2, <1>3 DEF Unsent
    <3>2. ASSUME NEW p \in Periods PROVE Accounted(job, p)'
      <4>1. Accounted(job, p) /\ delivered[job][p] \in Nat /\ lost[job][p] \in Nat
        BY <1>1 DEF DeliveryInv, CountsTyped
      <4>2. Bit(Unrecorded(job, p)) = 0 /\ Bit(Unrecorded(job, p)') = Bit(p = run[job].period)
        BY <1>3 DEF Unrecorded, Bit
      <4>3. Bit(<<job, p>> \in sentJobs) \in Nat /\ Bit(p = run[job].period) \in Nat
        BY DEF Bit
      <4>4. delivered'[job][p] = lost'[job][p] + Bit(<<job, p>> \in sentJobs)
                                  + Bit(Unrecorded(job, p)')
        BY <1>2, <1>4, <4>1, <4>2, <4>3 DEF Accounted
      <4> QED
        BY <1>2, <4>4 DEF Accounted, Bit
    <3> QED BY <2>2, <3>1, <3>2
  <2> QED BY <2>1, <2>2
<1> QED
  BY <1>1, <1>2, <1>3, <1>4, <1>5 DEF DeliveryInv, RunsTyped, CountsTyped

\* RecordSent: what was unrecorded is on record.
LEMMA RecordKeeps ==
  ASSUME DeliveryInv, NEW job \in Jobs, RecordSent(job)
  PROVE  DeliveryInv'
<1>1. RunsTyped /\ CountsTyped /\ Unsent(job)
  BY DEF DeliveryInv
<1>2. UNCHANGED <<now, delivered, lost>>
      /\ sentJobs' = sentJobs \cup {<<job, run[job].period>>}
  BY DEF RecordSent, RunStep, reached
<1>3. /\ run[job].pc = "record" /\ run' \in [Jobs -> Runs] /\ run'[job].pc = "idle"
      /\ \A k \in Jobs \ {job} : run'[k] = run[k]
  BY <1>1, RunStepShape DEF RecordSent
<1>4. <<job, run[job].period>> \notin sentJobs
  BY <1>1, <1>3 DEF Unsent
<1>5. ASSUME NEW k \in Jobs PROVE Unsent(k)' /\ \A p \in Periods : Accounted(k, p)'
  <2>1. CASE k # job
    BY <1>2, <1>3, <2>1, SameJobKeeps DEF SameJob
  <2>2. CASE k = job
    <3>1. Unsent(job)'
      BY <1>3 DEF Unsent
    <3>2. ASSUME NEW p \in Periods PROVE Accounted(job, p)'
      <4>1. Accounted(job, p) /\ delivered[job][p] \in Nat /\ lost[job][p] \in Nat
        BY <1>1 DEF DeliveryInv, CountsTyped
      <4>2. Bit(Unrecorded(job, p)) = Bit(p = run[job].period) /\ Bit(Unrecorded(job, p)') = 0
        BY <1>3 DEF Unrecorded, Bit
      <4>3. Bit(<<job, p>> \in sentJobs') =
              Bit(<<job, p>> \in sentJobs) + Bit(p = run[job].period)
        BY <1>2, <1>4 DEF Bit
      <4>4. Bit(<<job, p>> \in sentJobs) \in Nat /\ Bit(p = run[job].period) \in Nat
        BY DEF Bit
      <4>5. delivered[job][p] = lost[job][p] + Bit(<<job, p>> \in sentJobs')
                                  + Bit(Unrecorded(job, p)')
        BY <4>1, <4>2, <4>3, <4>4 DEF Accounted
      <4> QED
        BY <1>2, <4>5 DEF Accounted, Bit
    <3> QED BY <2>2, <3>1, <3>2
  <2> QED BY <2>1, <2>2
<1> QED
  BY <1>1, <1>2, <1>3, <1>5 DEF DeliveryInv, RunsTyped, CountsTyped

\* A job whose counts stay as they are, or take one more message of its run.
Grows(f, job, n) ==
  \A p \in Periods : f'[job][p] = f[job][p] + n * Bit(p = run[job].period)

\* A run that dies leaves what it sent without a record: it counts as lost.
LEMMA DiesAccounted ==
  ASSUME DeliveryInv, NEW job \in Jobs, sentJobs' = sentJobs, run'[job].pc = "idle",
         NEW d \in {0, 1}, NEW l \in {0, 1}, l = d + Bit(run[job].pc = "record"),
         Grows(delivered, job, d), Grows(lost, job, l)
  PROVE  Unsent(job)' /\ \A p \in Periods : Accounted(job, p)'
<1>1. Unsent(job)'
  BY DEF Unsent
<1>2. ASSUME NEW p \in Periods PROVE Accounted(job, p)'
  <2>1. Accounted(job, p) /\ delivered[job][p] \in Nat /\ lost[job][p] \in Nat
    BY DEF DeliveryInv, CountsTyped
  <2>2. DEFINE b == Bit(p = run[job].period)
  <2>3. b \in {0, 1} /\ Bit(<<job, p>> \in sentJobs) \in {0, 1}
    BY DEF Bit
  <2>4. Bit(Unrecorded(job, p)') = 0 /\ Bit(Unrecorded(job, p)) = Bit(run[job].pc = "record") * b
    BY DEF Unrecorded, Bit
  <2>5. delivered'[job][p] = delivered[job][p] + d * b /\ lost'[job][p] = lost[job][p] + l * b
    BY DEF Grows
  <2> HIDE DEF b
  <2>6. Bit(run[job].pc = "record") \in {0, 1}
    BY DEF Bit
  <2>7. delivered'[job][p] = lost'[job][p] + Bit(<<job, p>> \in sentJobs) + Bit(Unrecorded(job, p)')
    BY <2>1, <2>3, <2>4, <2>5, <2>6 DEF Accounted
  <2> QED
    BY <2>7 DEF Accounted, Bit
<1> QED BY <1>1, <1>2

\* RunFails: before the send, after it, or in it.
LEMMA RunFailsKeeps ==
  ASSUME DeliveryInv, NEW job \in Jobs, RunFails(job)
  PROVE  DeliveryInv'
<1>1. RunsTyped /\ CountsTyped /\ MaxSlot \in Nat
  BY SchedulerAssumption DEF DeliveryInv
<1>2. UNCHANGED <<now, sentJobs>> /\ run' = [run EXCEPT ![job] = NoRun]
  BY DEF RunFails, tables
<1>3. PICK d \in {0, 1}, l \in {0, 1} :
        /\ l = d + Bit(run[job].pc = "record")
        /\ delivered' = IF d = 1 THEN Count(delivered, job) ELSE delivered
        /\ lost' = IF l = 1 THEN Count(lost, job) ELSE lost
  <2>1. CASE run[job].pc # "record" /\ UNCHANGED reached
    BY <2>1 DEF Bit, reached
  <2>2. CASE run[job].pc = "record" /\ lost' = Count(lost, job) /\ UNCHANGED delivered
    BY <2>2 DEF Bit
  <2>3. CASE run[job].pc = "send" /\ lost' = Count(lost, job) /\ delivered' = Count(delivered, job)
    BY <2>3 DEF Bit
  <2> QED BY <2>1, <2>2, <2>3 DEF RunFails
<1>4. NoRun \in Runs
  BY <1>1 DEF Runs, NoRun, Periods
<1>5. run' \in [Jobs -> Runs] /\ run'[job].pc = "idle" /\ \A k \in Jobs \ {job} : run'[k] = run[k]
  BY <1>1, <1>2, <1>4 DEF RunsTyped, NoRun
<1>6. /\ delivered' \in [Jobs -> [Periods -> Nat]] /\ Grows(delivered, job, d)
      /\ \A k \in Jobs \ {job} : delivered'[k] = delivered[k]
  <2>1. CASE d = 1
    BY <1>1, <1>3, <2>1, CountShape DEF CountsTyped, Bit, Grows
  <2>2. CASE d = 0
    BY <1>1, <1>3, <2>2 DEF CountsTyped, Bit, Grows
  <2> QED BY <2>1, <2>2
<1>7. /\ lost' \in [Jobs -> [Periods -> Nat]] /\ Grows(lost, job, l)
      /\ \A k \in Jobs \ {job} : lost'[k] = lost[k]
  <2>1. CASE l = 1
    BY <1>1, <1>3, <2>1, CountShape DEF CountsTyped, Bit, Grows
  <2>2. CASE l = 0
    <3>1. lost' = lost
      BY <1>3, <2>2
    <3>2. ASSUME NEW p \in Periods PROVE lost[job][p] \in Nat /\ 0 * Bit(p = run[job].period) = 0
      BY <1>1 DEF CountsTyped, Bit
    <3> QED
      BY <1>1, <2>2, <3>1, <3>2 DEF CountsTyped, Grows
  <2> QED BY <2>1, <2>2
<1>8. ASSUME NEW k \in Jobs PROVE Unsent(k)' /\ \A p \in Periods : Accounted(k, p)'
  <2>1. CASE k # job
    BY <1>2, <1>5, <1>6, <1>7, <2>1, SameJobKeeps DEF SameJob
  <2>2. CASE k = job
    <3>1. run'[job].pc = "idle" /\ sentJobs' = sentJobs
      BY <1>2, <1>5
    <3>2. d \in {0, 1} /\ l \in {0, 1} /\ l = d + Bit(run[job].pc = "record")
      BY <1>3
    <3>3. Grows(delivered, job, d) /\ Grows(lost, job, l)
      BY <1>6, <1>7
    <3>4. Unsent(job)' /\ \A p \in Periods : Accounted(job, p)'
      BY <3>1, <3>2, <3>3, DiesAccounted
    <3> QED
      BY <2>2, <3>4
  <2> QED BY <2>1, <2>2
<1> QED
  BY <1>1, <1>2, <1>5, <1>6, <1>7, <1>8 DEF DeliveryInv, RunsTyped, CountsTyped

\* Crash: every run dies at once.
LEMMA CrashKeeps ==
  ASSUME DeliveryInv, Crash
  PROVE  DeliveryInv'
<1>1. RunsTyped /\ CountsTyped /\ MaxSlot \in Nat
  BY SchedulerAssumption DEF DeliveryInv
<1>2. /\ UNCHANGED <<now, sentJobs, delivered>> /\ run' = [job \in Jobs |-> NoRun]
      /\ lost' = [job \in Jobs |->
                   IF run[job].pc = "record" THEN Count(lost, job)[job] ELSE lost[job]]
  BY DEF Crash, tables
<1>3. run' \in [Jobs -> Runs]
  BY <1>1, <1>2 DEF Runs, NoRun, Periods
<1>4. ASSUME NEW job \in Jobs
      PROVE  lost'[job] \in [Periods -> Nat] /\ Grows(lost, job, Bit(run[job].pc = "record"))
  <2>1. CASE run[job].pc = "record"
    BY <1>1, <1>2, <2>1, CountShape DEF CountsTyped, Bit, Grows
  <2>2. CASE run[job].pc # "record"
    BY <1>1, <1>2, <2>2 DEF CountsTyped, Bit, Grows
  <2> QED BY <2>1, <2>2
<1>5. lost' \in [Jobs -> [Periods -> Nat]]
  BY <1>2, <1>4
<1>6. ASSUME NEW job \in Jobs PROVE Unsent(job)' /\ \A p \in Periods : Accounted(job, p)'
  <2>1. run'[job].pc = "idle" /\ Grows(lost, job, Bit(run[job].pc = "record"))
    BY <1>2, <1>4 DEF NoRun
  <2>2. Grows(delivered, job, 0)
    BY <1>1, <1>2 DEF Grows, Bit, CountsTyped
  <2>3. Bit(run[job].pc = "record") \in {0, 1}
    BY DEF Bit
  <2> QED
    BY <1>2, <2>1, <2>2, <2>3, DiesAccounted DEF Bit
<1> QED
  BY <1>1, <1>2, <1>3, <1>5, <1>6 DEF DeliveryInv, RunsTyped, CountsTyped

\* The other steps leave runs and records alone.
LEMMA OthersKeep ==
  ASSUME DeliveryInv, now' \in 0..MaxSlot, UNCHANGED <<run, sentJobs, reached>>
  PROVE  DeliveryInv'
<1>1. UNCHANGED <<run, sentJobs, delivered, lost>>
  BY DEF reached
<1>2. ASSUME NEW job \in Jobs PROVE Unsent(job)' /\ \A p \in Periods : Accounted(job, p)'
  BY <1>1, SameJobKeeps DEF SameJob
<1> QED
  BY <1>1, <1>2 DEF DeliveryInv, RunsTyped, CountsTyped

-----------------------------------------------------------------------------
\* Nothing has been sent and nothing runs.
LEMMA DeliveryInit == Init => DeliveryInv
<1> SUFFICES ASSUME Init PROVE DeliveryInv
  OBVIOUS
<1>1. MaxSlot \in Nat
  BY SchedulerAssumption
<1>2. RunsTyped
  BY <1>1 DEF Init, RunsTyped, Runs, NoRun, Periods
<1>3. CountsTyped
  BY DEF Init, CountsTyped
<1>4. ASSUME NEW job \in Jobs PROVE Unsent(job) /\ \A p \in Periods : Accounted(job, p)
  BY DEF Init, Unsent, Accounted, Unrecorded, Bit, NoRun
<1> QED BY <1>2, <1>3, <1>4 DEF DeliveryInv

\* Every step keeps the accounts.
LEMMA DeliveryStep == DeliveryInv /\ [Next]_vars => DeliveryInv'
<1> SUFFICES ASSUME DeliveryInv, [Next]_vars PROVE DeliveryInv'
  OBVIOUS
<1>0. now \in 0..MaxSlot /\ MaxSlot \in Nat
  BY SchedulerAssumption DEF DeliveryInv, RunsTyped
<1>1. CASE Tick
  <2>1. now' \in 0..MaxSlot /\ UNCHANGED <<run, sentJobs, reached>>
    BY <1>0, <1>1 DEF Tick, tables
  <2> QED BY <2>1, OthersKeep
<1>2. CASE Crash
  BY <1>2, CrashKeeps
<1>3. ASSUME NEW c \in Callers, ReadSchedules(c) \/ RebuildTriggers(c) \/ RefreshFails(c)
      PROVE  DeliveryInv'
  <2>1. UNCHANGED <<now, run, sentJobs, reached>>
    BY <1>3, Zenon DEF ReadSchedules, RebuildTriggers, RefreshFails, tables
  <2> QED BY <1>0, <2>1, OthersKeep
<1>4. ASSUME NEW c \in Tools, NEW s \in Schedules, SetSchedule(c, s)
      PROVE  DeliveryInv'
  <2>1. UNCHANGED <<now, run, sentJobs, reached>>
    BY <1>4, Zenon DEF SetSchedule
  <2> QED BY <1>0, <2>1, OthersKeep
<1>5. ASSUME NEW key \in {"threshold", "chat"}, SetOther(key)
      PROVE  DeliveryInv'
  <2>1. UNCHANGED <<now, run, sentJobs, reached>>
    BY <1>5, Zenon DEF SetOther
  <2> QED BY <1>0, <2>1, OthersKeep
<1>6. ASSUME NEW job \in Jobs,
             Fire(job) \/ Check(job) \/ Open(job) \/ Deliver(job) \/ RecordSent(job) \/ RunFails(job)
      PROVE  DeliveryInv'
  BY <1>6, FireKeeps, CheckKeeps, DeliverKeeps, RecordKeeps, RunFailsKeeps
<1>7. CASE UNCHANGED vars
  <2>1. UNCHANGED <<now, run, sentJobs, reached>>
    BY <1>7 DEF vars, tables
  <2> QED BY <1>0, <2>1, OthersKeep
<1> QED
  BY <1>1, <1>2, <1>3, <1>4, <1>5, <1>6, <1>7 DEF Next

\* The accounts give the property: what a period has on record is what reached
\* the chat and was not lost.
LEMMA DeliveryImplies == DeliveryInv => OneDeliveryPerPeriod
<1> SUFFICES ASSUME DeliveryInv, NEW job \in Jobs, NEW p \in Periods
             PROVE  /\ delivered[job][p] - lost[job][p] \in {0, 1}
                    /\ <<job, p>> \in sentJobs => delivered[job][p] > lost[job][p]
  BY DEF OneDeliveryPerPeriod
<1>1. Accounted(job, p) /\ Unsent(job) /\ delivered[job][p] \in Nat /\ lost[job][p] \in Nat
  BY DEF DeliveryInv, CountsTyped
<1>2. ~(<<job, p>> \in sentJobs /\ Unrecorded(job, p))
  BY <1>1 DEF Unsent, Unrecorded
<1> QED
  BY <1>1, <1>2 DEF Accounted, Bit

-----------------------------------------------------------------------------
(* The triggers follow the schedules *)

Slots       == {NoSlot} \cup Nat
TriggerType == [slot: Slots, next: Int]
RefreshType == [job: Jobs \cup {"none"}, read: BOOLEAN, row: Slots]

RefreshTyped ==
  /\ schedule \in [Jobs -> Slots]
  /\ trigger \in [Jobs -> TriggerType]
  /\ refresh \in [Callers -> RefreshType]
  /\ \A c \in Callers : refresh[c].job = "none" => refresh[c] = Resting

Follows(job) == trigger[job].slot = schedule[job]

\* While nothing overlaps or fails one refresh is on its way, or the triggers
\* are those of the preferences.
OneRefresh ==
  inOrder =>
    \/ (\A c \in Callers : refresh[c] = Resting) /\ \A job \in Jobs : Follows(job)
    \/ \E c \in Callers :
         /\ refresh[c] # Resting /\ \A d \in Callers \ {c} : refresh[d] = Resting
         /\ refresh[c].read => refresh[c].row = schedule[refresh[c].job]
         /\ refresh[c].job = "khata_reminders" => Follows("weekly_deck")

RefreshInv == RefreshTyped /\ OneRefresh

\* The records a refresh goes through.
LEMMA RefreshRecords ==
  /\ NoTrigger \in TriggerType /\ NoTrigger.slot = NoSlot
  /\ Resting \in RefreshType /\ Resting.job = "none" /\ ~Resting.read
  /\ \A job \in Jobs : /\ Reading(job) \in RefreshType /\ Reading(job).job = job
                        /\ ~Reading(job).read /\ Reading(job) # Resting
<1> USE DEF NoSlot, Jobs
<1>1. NoTrigger \in TriggerType /\ NoTrigger.slot = NoSlot
  BY DEF NoTrigger, TriggerType, Slots
<1>2. Resting \in RefreshType /\ Resting.job = "none" /\ ~Resting.read
  BY DEF Resting, RefreshType, Slots
<1>3. ASSUME NEW job \in Jobs
      PROVE  Reading(job) \in RefreshType /\ Reading(job).job = job /\ ~Reading(job).read
  BY <1>3 DEF Reading, Resting, RefreshType, Slots
<1>4. ASSUME NEW job \in Jobs PROVE Reading(job) # Resting
  BY <1>2, <1>3, <1>4
<1> QED
  BY <1>1, <1>2, <1>3, <1>4

\* At the start the refresh of run_bot is the only one.
LEMMA RefreshInit == Init => RefreshInv
<1> SUFFICES ASSUME Init PROVE RefreshInv
  OBVIOUS
<1>1. schedule \in [Jobs -> Slots]
  BY DEF Init, Slots
<1>2. trigger \in [Jobs -> TriggerType]
  BY RefreshRecords DEF Init
<1>3. /\ refresh = [c \in Callers |-> IF c = Boot THEN Reading("weekly_deck") ELSE Resting]
      /\ "weekly_deck" \in Jobs /\ Boot \in Callers
  BY DEF Init, Jobs, Callers
<1>4. refresh \in [Callers -> RefreshType]
  BY <1>3, RefreshRecords
<1>5. \A c \in Callers : refresh[c].job = "none" => refresh[c] = Resting
  BY <1>3, RefreshRecords DEF Jobs
<1>6. /\ refresh[Boot] = Reading("weekly_deck") /\ \A d \in Callers \ {Boot} : refresh[d] = Resting
  BY <1>3
<1>7. OneRefresh
  BY <1>3, <1>6, RefreshRecords DEF OneRefresh
<1> QED
  BY <1>1, <1>2, <1>4, <1>5, <1>7 DEF RefreshInv, RefreshTyped

\* A step that leaves the schedules, the slots and the refreshes as they are.
LEMMA RefreshStill ==
  ASSUME RefreshInv, UNCHANGED <<schedule, refresh, inOrder>>,
         trigger' \in [Jobs -> TriggerType],
         \A job \in Jobs : trigger'[job].slot = trigger[job].slot
  PROVE  RefreshInv'
<1>1. RefreshTyped'
  BY DEF RefreshInv, RefreshTyped
<1>2. \A job \in Jobs : Follows(job)' <=> Follows(job)
  BY DEF Follows
<1>3. OneRefresh'
  BY <1>2 DEF RefreshInv, OneRefresh, Jobs
<1> QED
  BY <1>1, <1>3 DEF RefreshInv

LEMMA CycleTyped == ASSUME NEW job \in Jobs PROVE Cycle(job) \in Nat \ {0}
<1>1. SlotsPerDay \in Nat \ {0} /\ DaysPerWeek \in Nat \ {0}
  BY SchedulerAssumption
<1>2. ASSUME NEW a \in Nat \ {0}, NEW b \in Nat \ {0} PROVE a * b \in Nat \ {0}
  BY <1>2
<1> QED
  BY <1>1, <1>2 DEF Cycle

\* a % c is the one remainder.
LEMMA Remainder ==
  ASSUME NEW c \in Nat \ {0}, NEW q \in Int, NEW r \in 0..(c - 1)
  PROVE  (c * q + r) % c = r
<1> DEFINE a == c * q + r
           p == a \div c
           e == a % c
<1>1. a \in Int
  OBVIOUS
<1>2. p \in Int /\ e \in 0..(c - 1) /\ a = c * p + e
  <2> HIDE DEF a
  <2> QED BY <1>1
<1>3. c * (q - p) = e - r
  <2>1. c * (q - p) = c * q - c * p
    BY <1>2
  <2>2. c * q \in Int /\ c * p \in Int
    BY <1>2
  <2>3. c * q + r = c * p + e
    BY <1>2
  <2> HIDE DEF a, p, e
  <2> QED BY <1>2, <2>1, <2>2, <2>3
<1> HIDE DEF a, p, e
<1>4. q - p = 0
  <2>1. q - p >= 1 => c * (q - p) >= c
    BY <1>2
  <2>2. q - p <= -1 => c * (q - p) <= -c
    BY <1>2
  <2>3. e - r < c /\ e - r > -c
    BY <1>2
  <2> QED BY <1>2, <1>3, <2>1, <2>2, <2>3
<1>5. e = r
  BY <1>2, <1>3, <1>4
<1> QED BY <1>5 DEF a, e

\* CronTrigger finds its next slot within a cycle.
LEMMA NextDueFound ==
  ASSUME NEW job \in Jobs, NEW slot \in 0..(Cycle(job) - 1), NEW t \in Nat
  PROVE  NextDue(job, slot, t) \in t + 1..t + Cycle(job) /\ NextDue(job, slot, t) % Cycle(job) = slot
<1> DEFINE c == Cycle(job)
           d == (slot - (t + 1)) % c
           q == (slot - (t + 1)) \div c
           n == t + 1 + d
<1>1. c \in Nat \ {0} /\ slot \in 0..(c - 1)
  BY CycleTyped
<1> HIDE DEF c
<1>2. slot - (t + 1) \in Int
  BY <1>1
<1>3. d \in 0..(c - 1) /\ q \in Int /\ slot - (t + 1) = c * q + d
  BY <1>1, <1>2
<1>4. n \in t + 1..t + c
  <2> HIDE DEF d, q
  <2> QED BY <1>1, <1>3
<1>5. n = c * (-q) + slot
  <2> HIDE DEF d, q
  <2>1. c * (-q) = -(c * q) /\ c * q \in Int
    BY <1>1, <1>3
  <2> QED BY <1>1, <1>3, <2>1
<1>6. n % c = slot
  <2>1. -q \in Int
    BY <1>3
  <2> HIDE DEF n, q
  <2> QED BY <1>1, <1>5, <2>1, Remainder
<1>7. \E m \in t + 1..t + c : m % c = slot
  <2> HIDE DEF n
  <2> QED BY <1>4, <1>6
<1> QED
  BY <1>7 DEF NextDue, c

\* Registered keeps the slot it is given.
LEMMA RegisteredSlot ==
  ASSUME NEW job \in Jobs, NEW slot \in Slots, NEW t
  PROVE  Registered(job, slot, t).slot = slot
BY RefreshRecords DEF Registered

\* What the preferences, the triggers and the refreshes name are slots of the
\* job's cycle, and a trigger is due at its slot.
SlotOf(job) == {NoSlot} \cup 0..(Cycle(job) - 1)

Due(job, trig) ==
  trig = NoTrigger \/ (trig.slot \in 0..(Cycle(job) - 1) /\ trig.next \in Nat /\ trig.next % Cycle(job) = trig.slot)

SlotsInv ==
  /\ prefs \subseteq {"threshold", "chat"} /\ sentJobs \subseteq Jobs \X Periods
  /\ \A job \in Jobs :
       /\ schedule[job] \in SlotOf(job) /\ Due(job, trigger[job])
       /\ run[job].period \in 0..Period(job, now)
  /\ \A c \in Callers : refresh[c].read => refresh[c].row \in SlotOf(refresh[c].job)

\* add_job with a slot of the cycle is due at it.
LEMMA RegisteredDue ==
  ASSUME NEW job \in Jobs, NEW slot \in SlotOf(job), NEW t \in Nat
  PROVE  /\ Registered(job, slot, t) \in TriggerType /\ Due(job, Registered(job, slot, t))
<1>1. CASE slot = NoSlot
  BY <1>1, RefreshRecords DEF Registered, Due
<1>2. CASE slot # NoSlot
  <2>1. Cycle(job) \in Nat \ {0} /\ slot \in 0..(Cycle(job) - 1) /\ slot \in Nat
    BY <1>2, CycleTyped DEF SlotOf
  <2>2. NextDue(job, slot, t) \in t + 1..t + Cycle(job) /\ NextDue(job, slot, t) % Cycle(job) = slot
    BY <2>1, NextDueFound
  <2>3. NextDue(job, slot, t) \in Nat
    BY <2>1, <2>2
  <2>4. Registered(job, slot, t) = [slot |-> slot, next |-> NextDue(job, slot, t)]
    BY <1>2 DEF Registered
  <2> QED
    BY <2>1, <2>2, <2>3, <2>4 DEF TriggerType, Slots, Due
<1> QED BY <1>1, <1>2

\* An old trigger is registered again by start_scheduler.
LEMMA DueSlot ==
  ASSUME NEW job \in Jobs, NEW trig, Due(job, trig) PROVE trig.slot \in SlotOf(job)
BY RefreshRecords DEF Due, SlotOf

SchedulerInv == DeliveryInv /\ RefreshInv /\ SlotsInv

\* A step that reads schedules.
LEMMA ReadKeeps ==
  ASSUME SchedulerInv, NEW c \in Callers, ReadSchedules(c)
  PROVE  RefreshInv' /\ SlotsInv'
<1> DEFINE old == refresh[c]
           new == refresh'[c]
<1>1. RefreshTyped /\ OneRefresh /\ SlotsInv
  BY DEF SchedulerInv, RefreshInv
<1>2. old \in RefreshType /\ old.job \in Jobs /\ ~old.read
  BY <1>1 DEF ReadSchedules, RefreshTyped
<1>3. refresh' = [refresh EXCEPT ![c] = [old EXCEPT !.read = TRUE, !.row = schedule[old.job]]]
  BY <1>1 DEF ReadSchedules, RefreshTyped
<1>4. [old EXCEPT !.read = TRUE, !.row = schedule[old.job]] \in RefreshType
  BY <1>1, <1>2 DEF RefreshTyped, RefreshType
<1>5. /\ new \in RefreshType /\ new.job = old.job /\ new.read /\ new.row = schedule[old.job]
      /\ \A d \in Callers \ {c} : refresh'[d] = refresh[d]
      /\ refresh' \in [Callers -> RefreshType]
  BY <1>1, <1>2, <1>3, <1>4 DEF RefreshTyped, RefreshType
<1>6. UNCHANGED <<now, schedule, prefs, sentJobs, trigger, run, inOrder>>
  BY DEF ReadSchedules, tables
<1> HIDE DEF old, new
<1>7. old # Resting /\ new # Resting /\ new.job # "none"
  BY <1>2, <1>5, RefreshRecords DEF Jobs
<1>8. RefreshTyped'
  BY <1>1, <1>5, <1>6, <1>7 DEF RefreshTyped, new
<1>9. OneRefresh'
  <2> SUFFICES ASSUME inOrder PROVE OneRefresh'
    BY <1>6 DEF OneRefresh
  <2>1. \A d \in Callers \ {c} : refresh[d] = Resting
    BY <1>1, <1>7 DEF OneRefresh, old
  <2>2. old.job = "khata_reminders" => Follows("weekly_deck")
    BY <1>1, <1>7, <2>1 DEF OneRefresh, old
  <2>3. \A d \in Callers \ {c} : refresh'[d] = Resting
    BY <1>5, <2>1
  <2>4. new.job = "khata_reminders" => Follows("weekly_deck")'
    BY <1>5, <1>6, <2>2 DEF Follows
  <2> QED
    BY <1>5, <1>6, <1>7, <2>3, <2>4 DEF OneRefresh, new
<1>10. SlotsInv'
  <2>1. schedule[old.job] \in SlotOf(old.job)
    BY <1>1, <1>2 DEF SlotsInv
  <2>2. \A d \in Callers : refresh'[d].read => refresh'[d].row \in SlotOf(refresh'[d].job)
    BY <1>1, <1>5, <2>1 DEF SlotsInv, new
  <2> QED
    BY <1>1, <1>6, <2>2 DEF SlotsInv
<1> QED BY <1>8, <1>9, <1>10 DEF RefreshInv

\* A step that rebuilds the triggers of a job.
LEMMA RebuildKeeps ==
  ASSUME SchedulerInv, NEW c \in Callers, RebuildTriggers(c)
  PROVE  RefreshInv' /\ SlotsInv'
<1> DEFINE job == refresh[c].job
           row == refresh[c].row
           new == AfterRebuild(c)
<1>1. RefreshTyped /\ OneRefresh /\ SlotsInv /\ now \in Nat
  BY SchedulerAssumption DEF SchedulerInv, RefreshInv, DeliveryInv, RunsTyped
<1>2. job \in Jobs /\ refresh[c].read /\ refresh[c] \in RefreshType
  BY <1>1 DEF RebuildTriggers, RefreshTyped
<1>3. /\ trigger' = [j \in Jobs |->
            IF j = job THEN Registered(j, row, now)
            ELSE IF c = Boot THEN Registered(j, trigger[j].slot, now)
            ELSE trigger[j]]
      /\ refresh' = [refresh EXCEPT ![c] = new]
      /\ UNCHANGED <<now, schedule, prefs, sentJobs, run, inOrder>>
  BY DEF RebuildTriggers, tables
<1>4. row \in SlotOf(job) /\ row \in Slots
  BY <1>1, <1>2 DEF SlotsInv, RefreshType
<1>5. new \in RefreshType /\ ~new.read /\ (new.job = "none" => new = Resting)
      /\ new \in {Resting, Reading("khata_reminders")}
      /\ (new = Resting <=> job = "khata_reminders")
  BY <1>2, RefreshRecords DEF AfterRebuild, Jobs
<1> HIDE DEF row, new
<1>6. \A j \in Jobs : trigger[j].slot \in SlotOf(j) /\ trigger[j].slot \in Slots /\ Due(j, trigger[j])
  BY <1>1, DueSlot DEF SlotsInv, RefreshTyped, TriggerType
<1>7. /\ trigger'[job].slot = row
      /\ \A j \in Jobs \ {job} : trigger'[j].slot = trigger[j].slot
  BY <1>2, <1>3, <1>4, <1>6, RegisteredSlot
<1>8. ASSUME NEW j \in Jobs PROVE trigger'[j] \in TriggerType /\ Due(j, trigger'[j])
  <2>1. trigger[j] \in TriggerType /\ Due(j, trigger[j])
    BY <1>1, <1>6 DEF RefreshTyped
  <2>2. trigger'[j] \in {Registered(job, row, now), Registered(j, trigger[j].slot, now), trigger[j]}
        /\ (trigger'[j] = Registered(job, row, now) \/ trigger'[j] = Registered(j, trigger[j].slot, now)
            \/ trigger'[j] = trigger[j])
        /\ (j = job => trigger'[j] = Registered(job, row, now))
        /\ (j # job => trigger'[j] \in {Registered(j, trigger[j].slot, now), trigger[j]})
    BY <1>3
  <2>3. CASE j = job
    <3>1. Registered(job, row, now) \in TriggerType /\ Due(job, Registered(job, row, now))
      BY <1>1, <1>2, <1>4, RegisteredDue
    <3> QED BY <2>2, <2>3, <3>1
  <2>4. CASE j # job
    <3>1. /\ Registered(j, trigger[j].slot, now) \in TriggerType
          /\ Due(j, Registered(j, trigger[j].slot, now))
      BY <1>1, <1>6, RegisteredDue
    <3> QED BY <2>1, <2>2, <2>4, <3>1
  <2> QED BY <2>3, <2>4
<1>9. /\ trigger' \in [Jobs -> TriggerType] /\ refresh' \in [Callers -> RefreshType]
      /\ refresh'[c] = new /\ \A d \in Callers \ {c} : refresh'[d] = refresh[d]
  <2>1. trigger' \in [Jobs -> TriggerType]
    BY <1>3, <1>8
  <2> QED
    BY <1>1, <1>3, <1>5, <2>1 DEF RefreshTyped
<1>10. RefreshTyped'
  BY <1>1, <1>3, <1>5, <1>9 DEF RefreshTyped
<1>11. refresh[c] # Resting
  BY <1>2, RefreshRecords DEF Jobs
<1>12. OneRefresh'
  <2> SUFFICES ASSUME inOrder PROVE OneRefresh'
    BY <1>3 DEF OneRefresh
  <2>1. \A d \in Callers \ {c} : refresh[d] = Resting
    BY <1>1, <1>11 DEF OneRefresh
  <2>2. row = schedule[job] /\ (job = "khata_reminders" => Follows("weekly_deck"))
    BY <1>1, <1>2, <1>11, <2>1 DEF OneRefresh, row
  <2>3. \A d \in Callers \ {c} : refresh'[d] = Resting
    BY <1>9, <2>1
  <2>4. trigger'[job].slot = schedule'[job]
    BY <1>3, <1>7, <2>2
  <2>5. CASE job = "khata_reminders"
    <3>1. trigger'["weekly_deck"].slot = schedule'["weekly_deck"]
      BY <1>3, <1>7, <2>2, <2>5 DEF Follows, Jobs
    <3>2. \A j \in Jobs : Follows(j)'
      BY <2>4, <2>5, <3>1 DEF Follows, Jobs
    <3>3. \A d \in Callers : refresh'[d] = Resting
      BY <1>5, <1>9, <2>3, <2>5
    <3> QED
      BY <3>2, <3>3 DEF OneRefresh
  <2>6. CASE job = "weekly_deck"
    <3>1. new # Resting /\ ~new.read /\ Follows("weekly_deck")'
      BY <1>5, <2>4, <2>6 DEF Follows
    <3> QED
      BY <1>9, <2>3, <3>1 DEF OneRefresh
  <2> QED
    BY <1>2, <2>5, <2>6 DEF Jobs
<1>13. SlotsInv'
  <2>1. \A d \in Callers : refresh'[d].read => refresh'[d].row \in SlotOf(refresh'[d].job)
    BY <1>1, <1>5, <1>9 DEF SlotsInv
  <2> QED
    BY <1>1, <1>3, <1>8, <2>1 DEF SlotsInv
<1> QED BY <1>10, <1>12, <1>13 DEF RefreshInv

\* A later slot is not in an earlier period.
LEMMA PeriodGrows ==
  ASSUME NEW job \in Jobs, NEW t \in Nat
  PROVE  Period(job, t) \in Nat /\ Period(job, t) <= Period(job, t + 1)
<1>1. ASSUME NEW c \in Nat \ {0} PROVE t \div c \in Nat /\ t \div c <= (t + 1) \div c
  <2> DEFINE p == t \div c
             q == (t + 1) \div c
             d == t % c
             e == (t + 1) % c
  <2>1. p \in Nat /\ q \in Nat /\ d \in 0..(c - 1) /\ e \in 0..(c - 1)
    BY <1>1
  <2>2. t = c * p + d /\ t + 1 = c * q + e
    BY <1>1
  <2> HIDE DEF p, q, d, e
  <2>3. ASSUME q <= p - 1 PROVE FALSE
    <3> DEFINE x == c * p
               y == c * q
    <3>1. x \in Int /\ y \in Int /\ t = x + d /\ t + 1 = y + e
      BY <1>1, <2>1, <2>2
    <3>2. y <= x - c
      <4>1. c * q <= c * (p - 1) /\ c * (p - 1) = c * p - c
        BY <1>1, <2>1, <2>3
      <4> QED BY <4>1
    <3> HIDE DEF x, y
    <3> QED BY <1>1, <2>1, <3>1, <3>2
  <2>4. p <= q
    BY <2>1, <2>3
  <2> QED BY <2>1, <2>4 DEF p, q
<1> QED
  BY <1>1, CycleTyped DEF Period

\* A step that leaves preferences and refreshes alone: time, and the runs.
LEMMA RunKeeps ==
  ASSUME SchedulerInv, UNCHANGED <<schedule, prefs, refresh, inOrder>>,
         trigger' \in [Jobs -> TriggerType],
         \A job \in Jobs : trigger'[job].slot = trigger[job].slot /\ Due(job, trigger'[job]),
         sentJobs' \subseteq Jobs \X Periods,
         \A job \in Jobs : run'[job].period \in 0..Period(job, now)'
  PROVE  RefreshInv' /\ SlotsInv'
<1>1. RefreshInv'
  BY RefreshStill DEF SchedulerInv
<1> QED
  BY <1>1 DEF SchedulerInv, SlotsInv

\* A run's period, whatever becomes of the run.
LEMMA RunPeriods ==
  ASSUME SchedulerInv, NEW job \in Jobs, NEW r, run' = [run EXCEPT ![job] = r],
         r.period = 0 \/ r.period = run[job].period \/ r.period = Period(job, now), now' = now
  PROVE  \A k \in Jobs : run'[k].period \in 0..Period(k, now)'
<1>1. now \in Nat /\ run \in [Jobs -> Runs] /\ \A k \in Jobs : run[k].period \in 0..Period(k, now)
  BY SchedulerAssumption DEF SchedulerInv, DeliveryInv, RunsTyped, SlotsInv
<1>2. \A k \in Jobs : Period(k, now) \in Nat /\ Period(k, now)' = Period(k, now)
  BY <1>1, PeriodGrows DEF Period
<1>3. \A k \in Jobs \ {job} : run'[k] = run[k]
  BY <1>1
<1>4. run'[job] = r /\ r.period \in 0..Period(job, now)
  BY <1>1, <1>2
<1> QED BY <1>1, <1>2, <1>3, <1>4

LEMMA SetKeeps ==
  ASSUME SchedulerInv, NEW c \in Tools, NEW s \in Schedules, SetSchedule(c, s)
  PROVE  RefreshInv' /\ SlotsInv'
<1>1. RefreshTyped /\ OneRefresh /\ SlotsInv /\ c \in Callers
  BY DEF SchedulerInv, RefreshInv, Callers
<1>2. s.job \in Jobs /\ s.slot \in 0..(Cycle(s.job) - 1)
  BY SchedulerAssumption
<1>3. s.slot \in Nat /\ s.slot \in Slots /\ s.slot \in SlotOf(s.job)
  <2>1. Cycle(s.job) \in Nat
    BY <1>2, CycleTyped
  <2> QED
    BY <1>2, <2>1 DEF Slots, SlotOf
<1>4. /\ UNCHANGED <<now, prefs, sentJobs, trigger, run>>
      /\ schedule' = [schedule EXCEPT ![s.job] = s.slot]
      /\ refresh' = [refresh EXCEPT ![c] = Reading("weekly_deck")]
      /\ inOrder' = \A d \in Callers : refresh[d] = Resting
  BY DEF SetSchedule
<1>5. Reading("weekly_deck") \in RefreshType /\ Reading("weekly_deck").job = "weekly_deck"
      /\ ~Reading("weekly_deck").read /\ Reading("weekly_deck") # Resting
  BY RefreshRecords DEF Jobs
<1>6. /\ schedule' \in [Jobs -> Slots] /\ schedule'[s.job] = s.slot
      /\ \A j \in Jobs \ {s.job} : schedule'[j] = schedule[j]
  BY <1>1, <1>2, <1>3, <1>4 DEF RefreshTyped
<1>7. /\ refresh' \in [Callers -> RefreshType] /\ refresh'[c] = Reading("weekly_deck")
      /\ \A d \in Callers \ {c} : refresh'[d] = refresh[d]
  BY <1>1, <1>4, <1>5 DEF RefreshTyped
<1>8. RefreshTyped'
  BY <1>1, <1>4, <1>5, <1>6, <1>7 DEF RefreshTyped
<1>9. OneRefresh'
  <2> SUFFICES ASSUME \A d \in Callers : refresh[d] = Resting
               PROVE  \E e \in Callers :
                        /\ refresh'[e] # Resting /\ \A d \in Callers \ {e} : refresh'[d] = Resting
                        /\ refresh'[e].read => refresh'[e].row = schedule'[refresh'[e].job]
                        /\ refresh'[e].job = "khata_reminders" => Follows("weekly_deck")'
    BY <1>4, Zenon DEF OneRefresh
  <2>1. refresh'[c] # Resting /\ ~refresh'[c].read /\ refresh'[c].job # "khata_reminders"
    BY <1>5, <1>7
  <2> QED
    BY <1>1, <1>7, <2>1
<1>10. SlotsInv'
  <2>1. \A d \in Callers : refresh'[d].read => refresh'[d].row \in SlotOf(refresh'[d].job)
    BY <1>1, <1>5, <1>7 DEF SlotsInv
  <2>2. \A j \in Jobs : schedule'[j] \in SlotOf(j)
    BY <1>1, <1>3, <1>6 DEF SlotsInv
  <2> QED
    BY <1>1, <1>4, <2>1, <2>2 DEF SlotsInv
<1> QED BY <1>8, <1>9, <1>10 DEF RefreshInv

\* A run that fires keeps its trigger's slot.
LEMMA FireDue ==
  ASSUME SchedulerInv, NEW job \in Jobs, Fire(job)
  PROVE  RefreshInv' /\ SlotsInv'
<1> DEFINE n == NextDue(job, trigger[job].slot, now)
           t == [trigger[job] EXCEPT !.next = n]
<1>1. RefreshTyped /\ SlotsInv /\ now \in Nat /\ trigger[job] \in TriggerType
  BY SchedulerAssumption DEF SchedulerInv, RefreshInv, RefreshTyped, DeliveryInv, RunsTyped
<1>2. /\ trigger[job] # NoTrigger /\ trigger' = [trigger EXCEPT ![job] = t]
      /\ UNCHANGED <<now, schedule, prefs, sentJobs, refresh, inOrder>>
  BY <1>1 DEF Fire, tables, RefreshTyped
<1>3. trigger[job].slot \in 0..(Cycle(job) - 1)
  BY <1>1, <1>2 DEF SlotsInv, Due
<1>4. n \in Nat /\ n % Cycle(job) = trigger[job].slot
  <2>1. n \in now + 1..now + Cycle(job) /\ n % Cycle(job) = trigger[job].slot
    BY <1>1, <1>3, NextDueFound
  <2>2. Cycle(job) \in Nat
    BY CycleTyped
  <2> HIDE DEF n
  <2> QED BY <1>1, <2>1, <2>2
<1> HIDE DEF n
<1>5. t \in TriggerType /\ t.slot = trigger[job].slot /\ t.next = n
  BY <1>1, <1>4 DEF TriggerType
<1> HIDE DEF t
<1>6. /\ trigger' \in [Jobs -> TriggerType] /\ trigger'[job] = t
      /\ \A k \in Jobs \ {job} : trigger'[k] = trigger[k]
  BY <1>1, <1>2, <1>5 DEF RefreshTyped
<1>7. \A k \in Jobs : trigger'[k].slot = trigger[k].slot /\ Due(k, trigger'[k])
  <2>1. Due(job, t)
    BY <1>3, <1>4, <1>5 DEF Due
  <2> QED
    BY <1>1, <1>5, <1>6, <2>1 DEF SlotsInv
<1>8. PICK r \in {run[job], [pc |-> "check", period |-> Period(job, now)]} : run' = [run EXCEPT ![job] = r]
  BY DEF Fire
<1>9. \A k \in Jobs : run'[k].period \in 0..Period(k, now)'
  <2>1. r.period = run[job].period \/ r.period = Period(job, now)
    BY <1>8
  <2> QED
    BY <1>2, <1>8, <2>1, RunPeriods
<1> QED
  BY <1>1, <1>2, <1>6, <1>7, <1>9, RunKeeps DEF SlotsInv

\* The other steps of a run.
LEMMA RunMoves ==
  ASSUME SchedulerInv, NEW job \in Jobs,
         Check(job) \/ Open(job) \/ Deliver(job) \/ RecordSent(job) \/ RunFails(job)
  PROVE  RefreshInv' /\ SlotsInv'
<1>1. RefreshTyped /\ SlotsInv /\ run \in [Jobs -> Runs] /\ run[job].period \in Periods
  BY DEF SchedulerInv, RefreshInv, DeliveryInv, RunsTyped, Runs
<1>2. UNCHANGED <<now, schedule, prefs, trigger, refresh, inOrder>>
      /\ sentJobs' \in {sentJobs, sentJobs \cup {<<job, run[job].period>>}}
  BY DEF Check, Open, Deliver, RecordSent, RunFails, RunStep, tables
<1>3. \E r : run' = [run EXCEPT ![job] = r] /\ (r.period = 0 \/ r.period = run[job].period)
  <2>1. ASSUME NEW from, NEW to, RunStep(job, from, to)
        PROVE  \E r : run' = [run EXCEPT ![job] = r] /\ (r.period = 0 \/ r.period = run[job].period)
    <3>1. CASE to = "idle"
      <4>1. run' = [run EXCEPT ![job] = NoRun] /\ NoRun.period = 0
        BY <2>1, <3>1 DEF RunStep, NoRun
      <4> QED BY <4>1
    <3>2. CASE to # "idle"
      <4>1. run' = [run EXCEPT ![job] = [run[job] EXCEPT !.pc = to]]
            /\ [run[job] EXCEPT !.pc = to].period = run[job].period
        BY <1>1, <2>1, <3>2 DEF RunStep, Runs
      <4> QED BY <4>1
    <3> QED BY <3>1, <3>2
  <2>2. CASE RunFails(job)
    <3>1. run' = [run EXCEPT ![job] = NoRun] /\ NoRun.period = 0
      BY <2>2 DEF RunFails, NoRun
    <3> QED BY <3>1
  <2>3. CASE ~RunFails(job)
    BY <2>1, <2>3, Zenon DEF Check, Open, Deliver, RecordSent
  <2> QED BY <2>2, <2>3
<1>4. \A k \in Jobs : run'[k].period \in 0..Period(k, now)'
  BY <1>2, <1>3, RunPeriods
<1>5. sentJobs' \subseteq Jobs \X Periods
  BY <1>1, <1>2 DEF SlotsInv
<1>6. trigger' \in [Jobs -> TriggerType]
      /\ \A k \in Jobs : trigger'[k].slot = trigger[k].slot /\ Due(k, trigger'[k])
  BY <1>1, <1>2 DEF RefreshTyped, SlotsInv
<1> QED
  BY <1>2, <1>4, <1>5, <1>6, RunKeeps

\* Steps that start, end or leave alone what the triggers follow.
LEMMA SchedulerOthers ==
  ASSUME SchedulerInv,
         \/ Tick \/ Crash \/ UNCHANGED vars
         \/ \E c \in Callers : RefreshFails(c)
         \/ \E key \in {"threshold", "chat"} : SetOther(key)
  PROVE  RefreshInv' /\ SlotsInv'
<1>1. /\ RefreshInv /\ RefreshTyped /\ SlotsInv /\ now \in Nat /\ run \in [Jobs -> Runs]
      /\ \A k \in Jobs : run[k].period \in 0..Period(k, now)
  BY SchedulerAssumption DEF SchedulerInv, RefreshInv, DeliveryInv, RunsTyped, SlotsInv
<1>2. CASE Tick
  <2>1. now' = now + 1 /\ UNCHANGED <<schedule, prefs, sentJobs, trigger, refresh, run, inOrder>>
    BY <1>2 DEF Tick, tables
  <2>2. \A k \in Jobs : run'[k].period \in 0..Period(k, now)'
    <3> SUFFICES ASSUME NEW k \in Jobs PROVE run'[k].period \in 0..Period(k, now)'
      OBVIOUS
    <3>1. Period(k, now)' = Period(k, now + 1)
      BY <2>1 DEF Period
    <3>2. Period(k, now) \in Nat /\ Period(k, now) <= Period(k, now + 1) /\ Period(k, now + 1) \in Nat
      BY <1>1, PeriodGrows
    <3> QED BY <1>1, <2>1, <3>1, <3>2
  <2> QED
    BY <1>1, <2>1, <2>2, RunKeeps DEF RefreshTyped, SlotsInv
<1>3. CASE UNCHANGED vars
  BY <1>1, <1>3, RunKeeps DEF vars, tables, RefreshTyped, SlotsInv, Period
<1>4. ASSUME NEW key \in {"threshold", "chat"}, SetOther(key) PROVE RefreshInv' /\ SlotsInv'
  <2>1. prefs' = prefs \cup {key} /\ UNCHANGED <<now, schedule, sentJobs, trigger, refresh, run, inOrder>>
    BY <1>4 DEF SetOther
  <2>2. RefreshInv'
    BY <1>1, <2>1, RefreshStill DEF RefreshTyped
  <2>3. SlotsInv'
    BY <1>1, <2>1 DEF SlotsInv, Period
  <2> QED BY <2>2, <2>3
<1>5. ASSUME NEW c \in Callers, RefreshFails(c) PROVE RefreshInv' /\ SlotsInv'
  <2>1. /\ refresh' = [refresh EXCEPT ![c] = Resting] /\ ~inOrder'
        /\ UNCHANGED <<now, schedule, prefs, sentJobs, trigger, run>>
    BY <1>5 DEF RefreshFails, tables
  <2>2. RefreshTyped'
    BY <1>1, <2>1, RefreshRecords DEF RefreshTyped
  <2>3. \A d \in Callers : refresh'[d].read => refresh'[d].row \in SlotOf(refresh'[d].job)
    BY <1>1, <2>1, RefreshRecords DEF SlotsInv, RefreshTyped
  <2>4. SlotsInv'
    BY <1>1, <2>1, <2>3 DEF SlotsInv, Period
  <2> QED
    BY <2>1, <2>2, <2>4 DEF RefreshInv, OneRefresh
<1>6. CASE Crash
  <2>1. /\ trigger' = [job \in Jobs |-> NoTrigger] /\ run' = [job \in Jobs |-> NoRun]
        /\ refresh' = [c \in Callers |-> IF c = Boot THEN Reading("weekly_deck") ELSE Resting]
        /\ UNCHANGED <<now, schedule, prefs, sentJobs>>
    BY <1>6 DEF Crash, tables
  <2>2. "weekly_deck" \in Jobs /\ Boot \in Callers
    BY DEF Jobs, Callers
  <2>3. trigger' \in [Jobs -> TriggerType] /\ \A k \in Jobs : Due(k, trigger'[k])
    BY <2>1, RefreshRecords DEF Due
  <2>4. refresh' \in [Callers -> RefreshType]
        /\ (\A d \in Callers : refresh'[d].job = "none" => refresh'[d] = Resting)
        /\ (\A d \in Callers : ~refresh'[d].read)
    BY <2>1, <2>2, RefreshRecords DEF Jobs
  <2>5. RefreshTyped'
    BY <1>1, <2>1, <2>3, <2>4 DEF RefreshTyped
  <2>6. OneRefresh'
    <3>1. /\ refresh'[Boot] = Reading("weekly_deck")
          /\ \A d \in Callers \ {Boot} : refresh'[d] = Resting
      BY <2>1, <2>2
    <3>2. refresh'[Boot] # Resting /\ ~refresh'[Boot].read /\ refresh'[Boot].job # "khata_reminders"
      BY <2>2, <3>1, RefreshRecords
    <3> QED
      BY <2>2, <3>1, <3>2 DEF OneRefresh
  <2>7. \A k \in Jobs : run'[k].period \in 0..Period(k, now)'
    <3>1. \A k \in Jobs : Period(k, now)' \in Nat
      BY <1>1, <2>1, PeriodGrows DEF Period
    <3> QED BY <2>1, <3>1 DEF NoRun
  <2>8. SlotsInv'
    BY <1>1, <2>1, <2>3, <2>4, <2>7 DEF SlotsInv
  <2> QED BY <2>5, <2>6, <2>8 DEF RefreshInv
<1> QED
  BY <1>2, <1>3, <1>4, <1>5, <1>6

\* The whole invariant of the scheduler.
LEMMA SchedulerInvHolds == Spec => []SchedulerInv
<1>1. Init => SchedulerInv
  <2> SUFFICES ASSUME Init PROVE SchedulerInv
    OBVIOUS
  <2>1. \A job \in Jobs : Period(job, now) \in Nat
    BY PeriodGrows DEF Init
  <2>2. \A c \in Callers : ~refresh[c].read
    BY RefreshRecords DEF Init, Jobs
  <2>3. SlotsInv
    BY <2>1, <2>2 DEF Init, SlotsInv, SlotOf, Due, NoRun
  <2> QED
    BY <2>3, DeliveryInit, RefreshInit DEF SchedulerInv
<1>2. SchedulerInv /\ [Next]_vars => SchedulerInv'
  <2> SUFFICES ASSUME SchedulerInv, [Next]_vars PROVE SchedulerInv'
    OBVIOUS
  <2>1. DeliveryInv'
    BY DeliveryStep DEF SchedulerInv
  <2>2. RefreshInv' /\ SlotsInv'
    BY ReadKeeps, RebuildKeeps, SetKeeps, FireDue, RunMoves, SchedulerOthers, Zenon DEF Next
  <2> QED BY <2>1, <2>2 DEF SchedulerInv
<1> QED
  BY <1>1, <1>2, PTL DEF Spec

-----------------------------------------------------------------------------
(* Theorems *)

\* A period is on record only if its message went out, and apart from messages
\* whose transaction was lost it has at most one: check, send and record are three
\* steps, and triggers and schedules change between them.
THEOREM ScheduledMessagesSentOnce == Spec => []OneDeliveryPerPeriod
<1>1. Init => DeliveryInv
  BY DeliveryInit
<1>2. DeliveryInv /\ [Next]_vars => DeliveryInv'
  BY DeliveryStep
<1>3. DeliveryInv => OneDeliveryPerPeriod
  BY DeliveryImplies
<1> QED
  BY <1>1, <1>2, <1>3, PTL DEF Spec

\* When schedules change one at a time the triggers follow the preferences, for
\* any number of schedules, callers of set_preference and restarts of run_bot.
THEOREM TriggersAlwaysFollow == Spec => []TriggersFollowPreferences
<1>1. SchedulerInv => TriggersFollowPreferences
  <2> SUFFICES ASSUME SchedulerInv, inOrder, \A c \in Callers : refresh[c] = Resting
               PROVE  \A job \in Jobs : trigger[job].slot = schedule[job]
    BY DEF TriggersFollowPreferences
  <2> QED
    BY DEF SchedulerInv, RefreshInv, OneRefresh, Follows
<1> QED
  BY <1>1, SchedulerInvHolds, PTL

\* Every variable has its type, and a registered job is due at a slot its
\* schedule names, however late it fires (NextDue).
THEOREM SchedulerTyped == Spec => []TypeOK
<1>1. SchedulerInv => TypeOK
  <2> SUFFICES ASSUME SchedulerInv PROVE TypeOK
    OBVIOUS
  <2>1. DeliveryInv /\ RunsTyped /\ RefreshTyped /\ SlotsInv
    BY DEF SchedulerInv, DeliveryInv, RefreshInv
  <2>2. ASSUME NEW job \in Jobs
        PROVE  /\ schedule[job] \in {NoSlot} \cup 0..Cycle(job) - 1
               /\ \/ trigger[job] = NoTrigger
                  \/ trigger[job].slot \in 0..Cycle(job) - 1
                     /\ trigger[job].next % Cycle(job) = trigger[job].slot
               /\ run[job].pc \in {"idle", "check", "open", "send", "record"}
               /\ run[job].period \in 0..Period(job, now)
    <3>1. Due(job, trigger[job]) /\ schedule[job] \in SlotOf(job) /\ run[job] \in Runs
          /\ run[job].period \in 0..Period(job, now)
      BY <2>1 DEF SlotsInv, RunsTyped
    <3> QED
      BY <3>1 DEF Due, SlotOf, Runs
  <2>3. \A c \in Callers : refresh[c] # Resting => refresh[c].job \in Jobs
    BY <2>1 DEF RefreshTyped, RefreshType
  <2> QED
    BY <2>1, <2>2, <2>3 DEF TypeOK, RunsTyped, SlotsInv
<1> QED
  BY <1>1, SchedulerInvHolds, PTL
=============================================================================
