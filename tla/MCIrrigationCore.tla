-------------------------- MODULE MCIrrigationCore --------------------------
(* Four line slots; the relay of line 2 may fail, so lines 0 and 1 are      *)
(* healthy and a failure can cut short the shut-off of lines 2 and 3.       *)
EXTENDS IrrigationCore

MCDuration == [l \in Lines |-> 1 + (l % 2)]

\* All lines under the interlock, all lines without it, and a smaller
\* configuration whose second line is disabled; the last one is invalid.
MCConfigs ==
    {[interlock |-> TRUE,  lineCount |-> 4, duration |-> MCDuration,
      enabled |-> [l \in Lines |-> TRUE]],
     [interlock |-> FALSE, lineCount |-> 4, duration |-> MCDuration,
      enabled |-> [l \in Lines |-> TRUE]],
     [interlock |-> TRUE,  lineCount |-> 2, duration |-> MCDuration,
      enabled |-> [l \in Lines |-> l # 1]],
     [interlock |-> FALSE, lineCount |-> 4,
      duration |-> [l \in Lines |-> 0],
      enabled |-> [l \in Lines |-> TRUE]]}
=============================================================================
