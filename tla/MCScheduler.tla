---------------------------- MODULE MCScheduler ----------------------------
(* Instances of Scheduler for TLC.                                         *)
EXTENDS Scheduler, TLC

CONSTANTS t1, t2

ToolSymmetry == Permutations(Tools)

At(job, slot) == [job |-> job, slot |-> slot]

\* Days of two slots, weeks of two days: reminders move within the day, the
\* deck within the week.
ShopSchedules ==
  {At("khata_reminders", 0), At("khata_reminders", 1), At("weekly_deck", 3)}
=============================================================================
