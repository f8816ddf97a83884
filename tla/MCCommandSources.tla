-------------------------- MODULE MCCommandSources --------------------------
(* Two line slots, a byte of four values, an hour of two minutes.           *)
EXTENDS CommandSources

\* Both lines in use, and one of two.
MCConfigs ==
    {[interlock |-> FALSE, lineCount |-> n, duration |-> [l \in Lines |-> 1],
      enabled |-> [l \in Lines |-> TRUE]] : n \in {1, 2}}

\* No entry, and one that is enabled on line 0.
MCSchedules ==
    {[l \in Lines |-> [present |-> p, enabled |-> p /\ l = 0, minute |-> 0,
                       days |-> {}, duration |-> IF p THEN 1 ELSE 0]] :
        p \in BOOLEAN}

MCNumbers == -1 .. 5

MCOneLine == {c \in MCConfigs : c.lineCount = 1}
MCNoEntry == {s \in MCSchedules : ~s[0].present}

\* The defaults, in force when the flash cannot be read.
MCDefaults ==
    [config |-> CHOOSE c \in Configs : \A d \in Configs :
                    c.lineCount >= d.lineCount /\ (d.interlock => c.interlock),
     schedule |-> CHOOSE s \in Schedules : TRUE]
=============================================================================
