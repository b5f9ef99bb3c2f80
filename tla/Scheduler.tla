----------------------------- MODULE Scheduler -----------------------------
(***************************************************************************)
(* The in-process scheduler and its two jobs, the daily khata reminders    *)
(* and the weekly analysis deck, for one Owner (no row of one Owner is     *)
(* read for another).  The schedule is a preference; set_preference        *)
(* commits it and then rebuilds the triggers from the table.  A job run    *)
(* reads, sends to Telegram and records the delivery in sent_jobs, with    *)
(* an await between any two of these.  Triggers and runs die with the      *)
(* process.  Time passes in slots, the grain schedules are given in.       *)
(***************************************************************************)
EXTENDS Integers, FiniteSets

CONSTANTS
  Tools,        \* set_preference calls that can run at the same time
  SlotsPerDay,  \* times of day a schedule can name
  DaysPerWeek,
  GraceSlots,   \* MISFIRE_GRACE_SECONDS
  MaxSlot,      \* bound: last slot of the calendar
  Schedules,    \* [job, slot] an Owner may ask for
  MaxSets,      \* bound: set_preference calls
  MaxCrashes,   \* bound: restarts of the process
  MaxErrors     \* bound: exceptions from the database or Telegram

Jobs == {"weekly_deck", "khata_reminders"}

\* The slots between two runs; a slot of the calendar falls into a period
\* (period_key), and a schedule names a slot within it.
Cycle(job)     == IF job = "khata_reminders" THEN SlotsPerDay ELSE SlotsPerDay * DaysPerWeek
Period(job, t) == t \div Cycle(job)

NoSlot  == -1          \* no preference row, or no trigger
Boot    == "boot"      \* run_bot, which refreshes before the scheduler starts
Callers == Tools \cup {Boot}
Periods == 0..MaxSlot

ASSUME SchedulerAssumption ==
  /\ SlotsPerDay \in Nat \ {0} /\ DaysPerWeek \in Nat \ {0} /\ GraceSlots \in Nat
  /\ MaxSlot \in Nat /\ MaxSets \in Nat /\ MaxCrashes \in Nat /\ MaxErrors \in Nat
  /\ Boot \notin Tools
  /\ \A s \in Schedules : s.job \in Jobs /\ s.slot \in 0..Cycle(s.job) - 1

VARIABLES
  now,        \* the current slot
  schedule,   \* weekly_analysis_deck_schedule and khata_reminder_schedule
  prefs,      \* which of "threshold" and "chat" are stored as preferences
  sentJobs,   \* sent_jobs: <<job, period>>
  trigger,    \* registered jobs: [slot, next], next being next_run_time
  refresh,    \* where each caller of refresh_scheduled_jobs stands
  run,        \* the running instance of each job
  sets, crashes, errors,
  delivered,  \* history: messages of a job and period that reached the chat
  lost,       \* history: those whose transaction did not commit
  inOrder     \* history: no refresh overlapped or failed since a quiet one began

tables  == <<schedule, prefs, sentJobs>>
faults  == <<crashes, errors>>
reached == <<delivered, lost>>
vars == <<now, tables, trigger, refresh, run, sets, faults, reached, inOrder>>

NoTrigger == [slot |-> NoSlot, next |-> NoSlot]
NoRun     == [pc |-> "idle", period |-> 0]
Resting   == [job |-> "none", read |-> FALSE, row |-> NoSlot]
Reading(job) == [Resting EXCEPT !.job = job]

\* The scheduler runs once the refresh of run_bot has ended.
Started == refresh[Boot] = Resting

-----------------------------------------------------------------------------
(* refresh_scheduled_jobs: the weekly deck's triggers, then the reminders'. *)

\* The preference rows of the job are read.
ReadSchedules(c) ==
  /\ refresh[c].job \in Jobs /\ ~refresh[c].read
  /\ refresh' = [refresh EXCEPT ![c].read = TRUE, ![c].row = schedule[refresh[c].job]]
  /\ UNCHANGED <<now, tables, trigger, run, sets, faults, reached, inOrder>>

\* (mutant) The next run is one cycle from now.
CycleFromNow(job, slot, t) == t + Cycle(job)

\* CronTrigger: the first slot after t that the schedule names.
NextDue(job, slot, t) ==
  CHOOSE n \in t + 1..t + Cycle(job) : n % Cycle(job) = slot

\* add_job for a row that was read.
Registered(job, slot, t) ==
  IF slot = NoSlot THEN NoTrigger ELSE [slot |-> slot, next |-> NextDue(job, slot, t)]

\* The refresh goes on with the other job, or has ended.
AfterRebuild(c) ==
  IF refresh[c].job = "weekly_deck" THEN Reading("khata_reminders") ELSE Resting

\* (mutant) A job that is already registered keeps its trigger.
RebuildMissing(c) ==
  LET job == refresh[c].job IN
  /\ job \in Jobs /\ refresh[c].read
  /\ trigger' = [trigger EXCEPT ![job] =
       IF @ # NoTrigger THEN @ ELSE Registered(job, refresh[c].row, now)]
  /\ refresh' = [refresh EXCEPT ![c] = AfterRebuild(c)]
  /\ UNCHANGED <<now, tables, run, sets, faults, reached, inOrder>>

\* Without an await: remove_job for what is registered, add_job for the row.  The
\* refresh of run_bot registers with a scheduler that is not running; when it
\* ends start_scheduler computes the first run of every job.
RebuildTriggers(c) ==
  LET job == refresh[c].job IN
  /\ job \in Jobs /\ refresh[c].read
  /\ trigger' = [j \in Jobs |->
       IF j = job THEN Registered(j, refresh[c].row, now)
       ELSE IF c = Boot THEN Registered(j, trigger[j].slot, now)
       ELSE trigger[j]]
  /\ refresh' = [refresh EXCEPT ![c] = AfterRebuild(c)]
  /\ UNCHANGED <<now, tables, run, sets, faults, reached, inOrder>>

-----------------------------------------------------------------------------
(* set_preference *)

\* A schedule is stored and committed, then on_schedule_changed refreshes.
SetSchedule(c, s) ==
  /\ Started /\ refresh[c] = Resting /\ sets < MaxSets
  /\ sets' = sets + 1
  /\ schedule' = [schedule EXCEPT ![s.job] = s.slot]
  /\ refresh'  = [refresh EXCEPT ![c] = Reading("weekly_deck")]
  /\ inOrder'  = \A d \in Callers : refresh[d] = Resting
  /\ UNCHANGED <<now, prefs, sentJobs, trigger, run, faults, reached>>

\* The threshold by set_preference, the chat by any message of the Owner.
SetOther(key) ==
  /\ Started /\ key \notin prefs
  /\ prefs' = prefs \cup {key}
  /\ UNCHANGED <<now, schedule, sentJobs, trigger, refresh, run, sets, faults, reached, inOrder>>

-----------------------------------------------------------------------------
(* Job runs *)

\* The latest time the schedule names, up to now.
LastDue(job) == NextDue(job, trigger[job].slot, now) - Cycle(job)

\* APScheduler comes to a trigger whose time has come.  The runs that are due
\* coalesce into the latest, which is given up if it is later than the grace
\* time or finds an instance still running.
Fire(job) ==
  /\ Started /\ trigger[job] # NoTrigger /\ trigger[job].next <= now
  /\ trigger' = [trigger EXCEPT ![job].next = NextDue(job, trigger[job].slot, now)]
  /\ run' = [run EXCEPT ![job] =
       IF now - LastDue(job) <= GraceSlots /\ @.pc = "idle"
         THEN [pc |-> "check", period |-> Period(job, now)] ELSE @]
  /\ UNCHANGED <<now, tables, refresh, sets, faults, reached, inOrder>>

Needed(job) == IF job = "khata_reminders" THEN {"threshold", "chat"} ELSE {"chat"}

AlreadySent(job) == <<job, run[job].period>> \in sentJobs

RunStep(job, from, to) ==
  /\ run[job].pc = from
  /\ run' = [run EXCEPT ![job] = IF to = "idle" THEN NoRun ELSE [@ EXCEPT !.pc = to]]
  /\ UNCHANGED <<now, trigger, refresh, sets, faults, inOrder>>

\* The first session: the preferences are there and nothing has been sent.
Check(job) ==
  /\ RunStep(job, "check",
       IF schedule[job] # NoSlot /\ Needed(job) \subseteq prefs /\ ~AlreadySent(job)
         THEN "open" ELSE "idle")
  /\ UNCHANGED <<tables, reached>>

\* The second transaction looks again.
Open(job) ==
  /\ RunStep(job, "open", IF AlreadySent(job) THEN "idle" ELSE "send")
  /\ UNCHANGED <<tables, reached>>

Count(f, job) == [f EXCEPT ![job][run[job].period] = @ + 1]

\* send_text, or send_document for the deck.
Deliver(job) ==
  /\ RunStep(job, "send", "record")
  /\ delivered' = Count(delivered, job)
  /\ UNCHANGED <<tables, lost>>

\* (mutant) The period is computed again when the delivery is recorded.
RecordNow(job) ==
  /\ RunStep(job, "record", "idle")
  /\ sentJobs' = sentJobs \cup {<<job, Period(job, now)>>}
  /\ UNCHANGED <<schedule, prefs, reached>>

\* record_sent, and the commit.
RecordSent(job) ==
  /\ RunStep(job, "record", "idle")
  /\ sentJobs' = sentJobs \cup {<<job, run[job].period>>}
  /\ UNCHANGED <<schedule, prefs, reached>>

-----------------------------------------------------------------------------
(* Time and failures *)

Tick ==
  /\ now < MaxSlot
  /\ now' = now + 1
  /\ UNCHANGED <<tables, trigger, refresh, run, sets, faults, reached, inOrder>>

\* An await of a run raises: its transaction rolls back, APScheduler logs it.
\* A send that raised may have been delivered.
RunFails(job) ==
  /\ errors < MaxErrors /\ run[job].pc # "idle"
  /\ errors' = errors + 1
  /\ run' = [run EXCEPT ![job] = NoRun]
  /\ \/ run[job].pc # "record" /\ UNCHANGED reached
     \/ run[job].pc = "record" /\ lost' = Count(lost, job) /\ UNCHANGED delivered
     \/ run[job].pc = "send"   /\ lost' = Count(lost, job) /\ delivered' = Count(delivered, job)
  /\ UNCHANGED <<now, tables, trigger, refresh, sets, crashes, inOrder>>

\* The tool call dies in its refresh, after the schedule was committed.
RefreshFails(c) ==
  /\ errors < MaxErrors /\ c # Boot /\ refresh[c] # Resting
  /\ errors'  = errors + 1
  /\ refresh' = [refresh EXCEPT ![c] = Resting]
  /\ inOrder' = FALSE
  /\ UNCHANGED <<now, tables, trigger, run, sets, crashes, reached>>

\* The process dies and run_bot starts over.
Crash ==
  /\ crashes < MaxCrashes
  /\ crashes' = crashes + 1
  /\ trigger' = [job \in Jobs |-> NoTrigger]
  /\ run'     = [job \in Jobs |-> NoRun]
  /\ refresh' = [c \in Callers |-> IF c = Boot THEN Reading("weekly_deck") ELSE Resting]
  /\ lost' = [job \in Jobs |-> IF run[job].pc = "record" THEN Count(lost, job)[job] ELSE lost[job]]
  /\ inOrder' = TRUE
  /\ UNCHANGED <<now, tables, sets, errors, delivered>>

-----------------------------------------------------------------------------
Init ==
  /\ now = 0
  /\ schedule = [job \in Jobs |-> NoSlot]
  /\ prefs = {} /\ sentJobs = {}
  /\ trigger = [job \in Jobs |-> NoTrigger]
  /\ refresh = [c \in Callers |-> IF c = Boot THEN Reading("weekly_deck") ELSE Resting]
  /\ run = [job \in Jobs |-> NoRun]
  /\ delivered = [job \in Jobs |-> [p \in Periods |-> 0]]
  /\ lost      = [job \in Jobs |-> [p \in Periods |-> 0]]
  /\ inOrder = TRUE
  /\ sets = 0 /\ crashes = 0 /\ errors = 0

Next ==
  \/ Tick \/ Crash
  \/ \E c \in Callers : ReadSchedules(c) \/ RebuildTriggers(c) \/ RefreshFails(c)
  \/ \E c \in Tools, s \in Schedules : SetSchedule(c, s)
  \/ \E key \in {"threshold", "chat"} : SetOther(key)
  \/ \E job \in Jobs : \/ Fire(job) \/ Check(job) \/ Open(job)
                       \/ Deliver(job) \/ RecordSent(job) \/ RunFails(job)

Spec == Init /\ [][Next]_vars

-----------------------------------------------------------------------------
(* Properties *)

\* Every variable has its type; a trigger runs at a slot its schedule names.
TypeOK ==
  /\ now \in 0..MaxSlot
  /\ prefs \subseteq {"threshold", "chat"}
  /\ sentJobs \subseteq Jobs \X Periods
  /\ \A job \in Jobs :
       /\ schedule[job] \in {NoSlot} \cup 0..Cycle(job) - 1
       /\ \/ trigger[job] = NoTrigger
          \/ trigger[job].slot \in 0..Cycle(job) - 1
             /\ trigger[job].next % Cycle(job) = trigger[job].slot
       /\ run[job].pc \in {"idle", "check", "open", "send", "record"}
       /\ run[job].period \in 0..Period(job, now)
  /\ \A c \in Callers : refresh[c] # Resting => refresh[c].job \in Jobs

\* sent_jobs: a period is on record only if its message went out, and apart from
\* messages whose transaction was lost, a period has at most one, whatever
\* misfires, schedule changes and refreshes do.
OneDeliveryPerPeriod ==
  \A job \in Jobs : \A p \in Periods :
    /\ delivered[job][p] - lost[job][p] \in {0, 1}
    /\ <<job, p>> \in sentJobs => delivered[job][p] > lost[job][p]

\* When schedules change one at a time, the triggers follow the preferences.
\* (Overlapping refreshes may leave the older schedule registered.)
TriggersFollowPreferences ==
  (inOrder /\ \A c \in Callers : refresh[c] = Resting)
    => \A job \in Jobs : trigger[job].slot = schedule[job]
=============================================================================
