---------------------------- MODULE TimedValves -----------------------------
(***************************************************************************)
(* What the firmware promises about its valves, whoever commands them and  *)
(* through whatever queue: a valve is opened alone and for a time, closes  *)
(* on its own, and nothing opens while the valves are locked.  There are   *)
(* no configurations, events or tasks here; Controller implements this.    *)
(*                                                                         *)
(* The promise is that of README.md, "Line timeout and interlock are local *)
(* and do not depend on Home Assistant, MQTT, Wi-Fi, Zigbee, or            *)
(* Zigbee2MQTT".                                                           *)
(***************************************************************************)
EXTENDS Naturals

CONSTANTS
    Valves,   \* the valves
    Prompt,   \* those that always follow their relay
    MaxClock  \* bound: the clock stops here

VARIABLES
    open,       \* whether each valve is open
    until,      \* when an open valve has to close; 0 when it is closed
    clock,
    locked,     \* nothing may be opened
    exclusive   \* a valve may be opened only if it is then the only one

valveVars == <<open, until, clock, locked, exclusive>>

ValvesInit ==
    /\ open = [v \in Valves |-> FALSE]
    /\ until = [v \in Valves |-> 0]
    /\ clock = 0
    /\ locked = FALSE
    /\ exclusive \in BOOLEAN

\* The valves of S close; the others keep their time.
CloseSet(S) ==
    /\ open' = [v \in Valves |-> open[v] /\ v \notin S]
    /\ until' = [v \in Valves |-> IF v \in S THEN 0 ELSE until[v]]
    /\ UNCHANGED <<clock, locked, exclusive>>

\* Valve v opens, or is given a new time; the valves of S close first.
OpenFirst(v, S) ==
    /\ ~locked
    /\ exclusive => \A w \in Valves \ {v} : w \in S \/ ~open[w]
    /\ open' = [w \in Valves |-> w = v \/ (open[w] /\ w \notin S)]
    /\ until' \in [Valves -> Nat]
    /\ until'[v] > clock
    /\ \A w \in Valves \ {v} : until'[w] = IF w \in S THEN 0 ELSE until[w]
    /\ UNCHANGED <<clock, locked, exclusive>>

OpenOne == \E v \in Valves, S \in SUBSET Valves : OpenFirst(v, S)

CloseSome == \E S \in SUBSET Valves : CloseSet(S)

\* Valve v, whose time is up, closes, alone or with others.
CloseOverdue(v) ==
    /\ open[v] /\ clock >= until[v]
    /\ \E S \in SUBSET Valves : v \in S /\ CloseSet(S)

Pass ==
    /\ clock < MaxClock
    /\ clock' = clock + 1
    /\ UNCHANGED <<open, until, locked, exclusive>>

LockOrUnlock ==
    /\ locked' = ~locked
    /\ UNCHANGED <<open, until, clock, exclusive>>

SetExclusive ==
    /\ exclusive' = ~exclusive
    /\ UNCHANGED <<open, until, clock, locked>>

\* Power comes back: everything is closed.
PowerCycle ==
    /\ open' = [v \in Valves |-> FALSE]
    /\ until' = [v \in Valves |-> 0]
    /\ clock' = 0
    /\ locked' = FALSE
    /\ exclusive' \in BOOLEAN

ValvesNext ==
    OpenOne \/ CloseSome \/ Pass \/ LockOrUnlock \/ SetExclusive \/ PowerCycle

ValvesSpec == ValvesInit /\ [][ValvesNext]_valveVars

\* A prompt valve does not stay overdue.
TimedSpec == ValvesSpec /\ \A v \in Prompt : WF_valveVars(CloseOverdue(v))
=============================================================================
