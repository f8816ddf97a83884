---------------------------- MODULE MCScheduler -----------------------------
(* Days of two minutes, weeks of two days, two entries on two lines.        *)
EXTENDS Scheduler

MCEntry(line, minute, days) ==
    [line |-> line, enabled |-> TRUE, minute |-> minute, days |-> days,
     duration |-> 1]

\* Both lines at once, one after the other on another day, and one disabled.
MCPlans ==
    {<<MCEntry(0, 0, {0, 1}), MCEntry(1, 0, {0, 1})>>,
     <<MCEntry(0, 1, {0}), MCEntry(1, 0, {1})>>,
     <<[MCEntry(1, 0, {0, 1}) EXCEPT !.enabled = FALSE]>>}
=============================================================================
