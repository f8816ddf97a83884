---------------------------- MODULE MCController ----------------------------
(* Instances of the controller: two line slots, a short queue and clock.    *)
EXTENDS Controller

\* Both lines in use, with the interlock and without it, and a configuration
\* whose first line is disabled.
MCConfigs ==
    {[interlock |-> i, lineCount |-> 2, duration |-> [l \in Lines |-> 1],
      enabled |-> [l \in Lines |-> l = 1 \/ e]] :
        <<i, e>> \in {<<TRUE, TRUE>>, <<FALSE, TRUE>>, <<FALSE, FALSE>>}}

\* No entry on any line.
NoSchedules ==
    {[l \in Lines |-> [present |-> FALSE, enabled |-> FALSE, minute |-> 0,
                       days |-> {}, duration |-> 0]]}

\* One used line, for the instances that are about the settings.
MCOneLine ==
    {[interlock |-> FALSE, lineCount |-> 1, duration |-> [l \in Lines |-> 1],
      enabled |-> [l \in Lines |-> TRUE]]}

\* The same, and one used line.  With PresentSchedules SET_DURATION and
\* SET_SCHEDULE_START_MINUTE are refused or save what is saved already, which
\* keeps the instance about the valves small.
MCValveConfigs ==
    {[c EXCEPT !.duration = [l \in Lines |-> 2]] :
        c \in MCConfigs \cup MCOneLine}

PresentSchedules ==
    {[l \in Lines |-> [present |-> TRUE, enabled |-> FALSE, minute |-> 0,
                       days |-> Days, duration |-> 2]]}

\* The defaults, in force when the flash cannot be read.
MCDefaults ==
    [config |-> CHOOSE c \in Configs : \A d \in Configs :
                    c.lineCount >= d.lineCount /\ (d.interlock => c.interlock),
     schedule |-> CHOOSE s \in Schedules : TRUE]
=============================================================================
