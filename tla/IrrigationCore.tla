--------------------------- MODULE IrrigationCore ---------------------------
(***************************************************************************)
(* The valve core (components/irrigation_core): which lines are on, when   *)
(* each of them has to be off again, and what the relay callback has been  *)
(* told.  Every function of the core that changes its state is an action.  *)
(*                                                                         *)
(* The relay callback may report a failure (set_line returns               *)
(* IRRIGATION_ERR_RELAY and leaves the line's state alone).  FaultyLines   *)
(* are the lines whose callback may do so, at any call.  The loops of      *)
(* irrigation_core_all_off and of the interlock drive the lines in         *)
(* ascending order and return at the first failure; irrigation_core_tick   *)
(* ignores failures and goes on.                                           *)
(*                                                                         *)
(* Left out: last_source and last_error, which no decision reads, names,   *)
(* and the schedules, which the core stores but never looks at.  One unit  *)
(* of the clock is one second.                                             *)
(***************************************************************************)
EXTENDS Integers

CONSTANTS
    MaxLines,     \* IRRIGATION_MAX_LINES
    Configs,      \* the configurations irrigation_core_apply_config is given
    Durations,    \* duration_s of an ON command; 0 asks for the line's default
    FaultyLines,  \* lines whose relay callback may fail
    MaxNow        \* bound: the clock stops here

\* The line slots of the core; a configuration uses the first lineCount.
Lines == 0 .. MaxLines - 1

\* The part of irrigation_config_t the core decides on.
Config == [interlock : BOOLEAN,
           lineCount : Nat,
           enabled   : [Lines -> BOOLEAN],
           duration  : [Lines -> Nat]]

ASSUME CoreAssumption ==
    /\ MaxLines \in Nat \ {0}
    /\ Configs \subseteq Config
    /\ Durations \subseteq Nat
    /\ FaultyLines \subseteq Lines
    /\ MaxNow \in Nat

VARIABLES
    config,    \* core->config
    on,        \* core->lines[l].on
    deadline,  \* core->lines[l].deadline_ms, 0 when the line is off
    relay,     \* the output the relay callback drives
    now        \* the monotonic clock the caller passes in

lineVars == <<on, deadline, relay>>
coreVars == <<config, on, deadline, relay, now>>

\* What irrigation_config_validate demands of the fields kept here.
ConfigValid(c) ==
    /\ c.lineCount \in 1 .. MaxLines
    /\ \A l \in 0 .. c.lineCount - 1 : c.duration[l] > 0

CoreInit ==
    /\ config \in {c \in Configs : ConfigValid(c)}
    /\ on = [l \in Lines |-> FALSE]
    /\ deadline = [l \in Lines |-> 0]
    /\ relay = [l \in Lines |-> FALSE]
    /\ now = 0

-----------------------------------------------------------------------------
\* The lines the configuration uses.
Active == {l \in Lines : l < config.lineCount}

\* A command is looked at only for a configured, enabled line.
Accepts(l) == l \in Active /\ config.enabled[l]

\* Mutant: set_line forgets to clear the deadline.
TurnOffKeepDeadline(S) ==
    /\ on' = [l \in Lines |-> on[l] /\ l \notin S]
    /\ deadline' = deadline
    /\ relay' = [l \in Lines |-> relay[l] /\ l \notin S]

\* set_line(core, l, false), with success, for the lines of S.
TurnOff(S) ==
    /\ on' = [l \in Lines |-> on[l] /\ l \notin S]
    /\ deadline' = [l \in Lines |-> IF l \in S THEN 0 ELSE deadline[l]]
    /\ relay' = [l \in Lines |-> relay[l] /\ l \notin S]

\* set_line(core, l, false) for S, then set_line(core, l, true) for l and its
\* deadline; l \notin S.
TurnOnAfter(S, l, until) ==
    /\ on' = [i \in Lines |-> i = l \/ (on[i] /\ i \notin S)]
    /\ deadline' = [i \in Lines |-> IF i = l THEN until
                                    ELSE IF i \in S THEN 0 ELSE deadline[i]]
    /\ relay' = [i \in Lines |-> i = l \/ (relay[i] /\ i \notin S)]

\* Where a loop that switches the lines of S off in ascending order may
\* return early: at any line of S whose relay may fail.
Stops(S) == S \cap FaultyLines

\* The lines of S such a loop has switched off when it returns at line k.
Before(S, k) == {l \in S : l < k}

\* irrigation_core_command_line(core, l, false, ...)
CommandOff(l) ==
    /\ Accepts(l)
    /\ \/ TurnOff({l})
       \/ l \in FaultyLines /\ UNCHANGED lineVars
    /\ UNCHANGED <<config, now>>

\* Mutant: the interlock's loop starts behind the commanded line.
OthersBehind(l) == {i \in Active : config.interlock /\ i > l /\ on[i]}

\* The lines the interlock has to switch off before line l goes on.
Others(l) == {i \in Active : config.interlock /\ i # l /\ on[i]}

\* How long a command for d seconds keeps line l on.
Effective(l, d) == IF d > 0 THEN d ELSE config.duration[l]

\* Mutant: the result of the interlock's shut-offs is ignored.
CommandOnAnyway(l, d) ==
    /\ Accepts(l)
    /\ \E failed \in SUBSET Stops(Others(l)) :
          TurnOnAfter(Others(l) \ failed, l, now + Effective(l, d))
    /\ UNCHANGED <<config, now>>

\* Mutant: an ON for a line that is on adds to its time.
CommandOnExtends(l, d) ==
    /\ Accepts(l)
    /\ \/ TurnOnAfter(Others(l), l,
                      (IF on[l] THEN deadline[l] ELSE now) + Effective(l, d))
       \/ l \in FaultyLines /\ TurnOff(Others(l))
       \/ \E k \in Stops(Others(l)) : TurnOff(Before(Others(l), k))
    /\ UNCHANGED <<config, now>>

\* irrigation_core_command_line(core, l, true, d, now, ...): the interlock
\* first; if it cannot switch a line off, or the relay of l fails, the
\* command ends there.
CommandOn(l, d) ==
    /\ Accepts(l)
    /\ \/ TurnOnAfter(Others(l), l, now + Effective(l, d))
       \/ l \in FaultyLines /\ TurnOff(Others(l))
       \/ \E k \in Stops(Others(l)) : TurnOff(Before(Others(l), k))
    /\ UNCHANGED <<config, now>>

\* What irrigation_core_all_off does to the lines: every slot, not only the
\* configured ones, up to the first relay that fails.
SwitchAllOff ==
    \/ TurnOff(Lines)
    \/ \E k \in Stops(Lines) : TurnOff(Before(Lines, k))

AllOff == SwitchAllOff /\ UNCHANGED <<config, now>>

\* Mutant: the configuration is copied before it is validated.
ApplyConfigUnchecked(c) ==
    /\ SwitchAllOff
    /\ config' = c
    /\ UNCHANGED now

\* Mutant: the lines are left alone.
ApplyConfigOnly(c) ==
    /\ ConfigValid(c)
    /\ config' = c
    /\ UNCHANGED <<on, deadline, relay, now>>

\* irrigation_core_apply_config(core, c): the result of all_off is ignored.
ApplyConfig(c) ==
    /\ ConfigValid(c)
    /\ SwitchAllOff
    /\ config' = c
    /\ UNCHANGED now

\* The lines irrigation_core_tick finds overdue.
Expired == {l \in Active : on[l] /\ deadline[l] > 0 /\ now >= deadline[l]}

\* irrigation_core_tick(core, now): a relay that fails is tried again at the
\* next tick.
Tick ==
    /\ \E failed \in SUBSET Stops(Expired) : TurnOff(Expired \ failed)
    /\ UNCHANGED <<config, now>>

\* The caller's clock (esp_timer_get_time / 1000) moves on.
Advance ==
    /\ now < MaxNow
    /\ now' = now + 1
    /\ UNCHANGED <<config, on, deadline, relay>>

CoreNext ==
    \/ \E l \in Lines, d \in Durations : CommandOn(l, d)
    \/ \E l \in Lines : CommandOff(l)
    \/ AllOff
    \/ \E c \in Configs : ApplyConfig(c)
    \/ Tick
    \/ Advance

CoreSpec == CoreInit /\ [][CoreNext]_coreVars

-----------------------------------------------------------------------------
\* Every variable of the core has its type.
CoreTypeOK ==
    /\ config \in Config /\ ConfigValid(config)
    /\ on \in [Lines -> BOOLEAN]
    /\ deadline \in [Lines -> Nat]
    /\ relay \in [Lines -> BOOLEAN]
    /\ now \in Nat

\* Lines whose shut-off no failing relay can cut short: those that come
\* before every faulty line in the loops of the core.  All lines when no
\* relay fails.
Healthy == {l \in Lines : \A k \in FaultyLines : l < k}

\* Each ON command gets a local timeout: a relay that is energised belongs to
\* a line the core believes on, and such a line has a deadline, which is never
\* the 0 that irrigation_core_tick skips; a line that is off has no deadline
\* left over from an earlier command.  This holds whatever relay call fails,
\* in whatever order.
EnergisedHasDeadline ==
    \A l \in Lines : /\ relay[l] => on[l]
                     /\ on[l] <=> deadline[l] > 0

\* No healthy line is on where no command and no tick could switch it off:
\* command_line refuses lines that are disabled or not configured even for
\* OFF, and tick stops at line_count.
HealthyStaysControllable == \A l \in Healthy : on[l] => Accepts(l)

\* Under the interlock at most one of the healthy lines is on, across
\* commands, partial failures and configurations that switch the interlock
\* on.
HealthyExclusive ==
    config.interlock => \A l, m \in Healthy : on[l] /\ on[m] => l = m

\* A step that gives line l time leaves the others off under the interlock.
InterlockedStep ==
    \A l \in Lines :
        deadline'[l] > deadline[l] /\ config.interlock
            => \A m \in Active \ {l} : ~relay'[m]

\* A line goes on, or has its deadline moved, only by a step that leaves
\* every other configured line off under the interlock, even when a relay
\* fails in the middle of that step.
InterlockedTurnOn == [][InterlockedStep]_coreVars

\* The lines taken one by one, whatever the interlock does.
LineInv ==
    /\ CoreTypeOK
    /\ EnergisedHasDeadline
    /\ HealthyStaysControllable

\* The invariants together: inductive as they stand.
CoreInv == LineInv /\ HealthyExclusive
=============================================================================
