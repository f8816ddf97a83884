---------------------------- MODULE MCOtaUpdate -----------------------------
(* Two lines, a queue of two, and ON commands from the command sources.     *)
EXTENDS OtaUpdate

MCConfigs ==
    {[interlock |-> FALSE, lineCount |-> 2, duration |-> [l \in Lines |-> 1],
      enabled |-> [l \in Lines |-> TRUE]]}

NoSchedules ==
    {[l \in Lines |-> [present |-> FALSE, enabled |-> FALSE, minute |-> 0,
                       days |-> {}, duration |-> 0]]}

\* The defaults, in force when the flash cannot be read.
MCDefaults ==
    [config |-> CHOOSE c \in Configs : \A d \in Configs :
                    c.lineCount >= d.lineCount /\ (d.interlock => c.interlock),
     schedule |-> CHOOSE s \in Schedules : TRUE]
=============================================================================
