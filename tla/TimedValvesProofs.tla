------------------------- MODULE TimedValvesProofs -------------------------
(***************************************************************************)
(* Controller implements the safety part of TimedValves: an initial state  *)
(* maps to an initial state, and every step, whatever event it handles and *)
(* whichever relay fails in it, maps to a step of the valves or to none.   *)
(* That a prompt valve closes in time rests on fairness and is checked;    *)
(* what a round of the controller does about it is proved.                 *)
(***************************************************************************)
EXTENDS ControllerProofs

\* The lines that are on are lines in use: the interlock, which looks at
\* those only, sees every valve that is open.
OnlyUsedOn == \A l \in Lines : on[l] => l \in Active

ValveInv == ControllerInv /\ OnlyUsedOn

\* A step after which only lines of S are on that were off keeps OnlyUsedOn.
LEMMA FewerOnKeepsUsed ==
    ASSUME OnlyUsedOn, NEW S, S \subseteq Active,
           \A l \in Lines : on'[l] => on[l] \/ l \in S,
           config'.lineCount = config.lineCount
    PROVE  OnlyUsedOn'
BY DEF OnlyUsedOn, Active

\* Every step keeps the invariant.
LEMMA StepKeepsUsed == ValveInv /\ [Next]_vars => ValveInv'
<1> SUFFICES ASSUME ValveInv, [Next]_vars PROVE OnlyUsedOn'
  BY StepKeepsController DEF ValveInv
<1>1. LineInv /\ CoreTypeOK /\ OnlyUsedOn
  BY DEF ValveInv, ControllerInv, LineInv
<1>2. ASSUME NEW S, TurnOff(S), UNCHANGED config PROVE OnlyUsedOn'
  <2>1. \A l \in Lines : on'[l] => on[l]
    BY <1>2 DEF TurnOff
  <2> QED
    BY <1>1, <1>2, <2>1 DEF OnlyUsedOn, Active
<1>3. ASSUME UNCHANGED on, config'.lineCount = config.lineCount PROVE OnlyUsedOn'
  BY <1>1, <1>3 DEF OnlyUsedOn, Active
<1>4. CASE HandleOn
  <2> DEFINE l == Head(queue).line
             d == Head(queue).duration
  <2>1. CommandOn(l, d) /\ l \in Active
    BY <1>4 DEF HandleOn, CommandOn, Accepts
  <2>2. CASE TurnOnAfter(Others(l), l, now + Effective(l, d))
    <3>1. \A i \in Lines : on'[i] => on[i] \/ i = l
      BY <2>2 DEF TurnOnAfter
    <3> QED
      BY <1>1, <2>1, <3>1 DEF CommandOn, OnlyUsedOn, Active
  <2> HIDE DEF l, d
  <2> QED
    BY <1>2, <2>1, <2>2 DEF CommandOn
<1>5. CASE HandleOff \/ HandleAllOff \/ RoundTick
  BY <1>2, <1>3, <1>5
  DEF HandleOff, CommandOff, lineVars, HandleAllOff, AllOff, SwitchAllOff, RoundTick, Tick
<1>6. CASE HandleSetDuration \/ HandleSetInterlock \/ HandleSetSchedule
  <2>1. PICK c, s : SetLive(c, s) /\ c.lineCount = config.lineCount
    BY <1>1, <1>6 DEF HandleSetDuration, HandleSetInterlock, HandleSetSchedule,
                      CoreTypeOK, Config
  <2> QED
    BY <1>3, <2>1 DEF SetLive, lineVars
<1>7. CASE Reboot
  BY <1>7 DEF Reboot, OnlyUsedOn
<1>8. CASE \/ Request \/ HandleRefused \/ HandleSetRefused \/ ReceiveTimeout
           \/ Publish \/ Clock \/ OtaFlag \/ UNCHANGED vars
  BY <1>3, <1>8
  DEF Request, Send, HandleRefused, HandleSetRefused, ReceiveTimeout, Publish,
      Clock, Advance, OtaFlag, vars, coreVars
<1> QED
  BY <1>4, <1>5, <1>6, <1>7, <1>8 DEF Next, ControllerStep

-----------------------------------------------------------------------------
\* Switching lines off closes these valves.
LEMMA TurnOffCloses ==
    ASSUME CoreTypeOK, NEW S, S \subseteq Lines, TurnOff(S),
           UNCHANGED <<config, now, ota>>
    PROVE  Valve!CloseSome
<1>1. \A l \in Lines : /\ relay'[l] <=> relay[l] /\ l \notin S
                       /\ l \notin S => deadline'[l] = deadline[l]
  BY DEF TurnOff
<1>2. Valve!CloseSet(S)
  BY <1>1 DEF Valve!CloseSet, TurnOff
<1> QED
  BY <1>2 DEF Valve!CloseSome

\* Switching a line on, after the interlock's shut-offs, opens one valve.
LEMMA TurnOnOpens ==
    ASSUME ValveInv, ~ota, NEW l \in Lines, Accepts(l), NEW d \in Nat,
           TurnOnAfter(Others(l), l, now + Effective(l, d)),
           UNCHANGED <<config, now, ota>>
    PROVE  Valve!OpenOne
<1>0. PICK S \in SUBSET Lines : S = Others(l)
  BY DEF Others, Active
<1> DEFINE t == now + Effective(l, d)
           until == [i \in Lines |-> IF relay[i] THEN deadline[i] ELSE 0]
<1>1. LineInv /\ CoreTypeOK
  BY DEF ValveInv, ControllerInv, LineInv
<1>2. t \in Nat /\ t > now
  <2>1. config.duration[l] \in Nat /\ config.duration[l] > 0
    BY <1>1, ActiveHasDuration DEF Accepts
  <2> QED
    BY <1>1, <2>1 DEF Effective, CoreTypeOK
<1>3. config.interlock => \A w \in Lines \ {l} : w \in S \/ ~relay[w]
  BY <1>0, <1>1 DEF ValveInv, OnlyUsedOn, LineInv, EnergisedHasDeadline, Others
<1>4. relay' = [w \in Lines |-> w = l \/ (relay[w] /\ w \notin S)]
  BY <1>0 DEF TurnOnAfter
<1>5. /\ deadline'[l] = t /\ relay'[l]
      /\ \A w \in Lines \ {l} :
            (IF relay'[w] THEN deadline'[w] ELSE 0) = IF w \in S THEN 0 ELSE until[w]
  BY <1>0, <1>1 DEF TurnOnAfter
<1>6. [w \in Lines |-> IF relay'[w] THEN deadline'[w] ELSE 0] \in [Lines -> Nat]
  <2>1. \A w \in Lines : until[w] \in Nat
    BY <1>1 DEF CoreTypeOK
  <2>2. \A w \in Lines : (IF relay'[w] THEN deadline'[w] ELSE 0) \in Nat
    BY <1>2, <1>5, <2>1
  <2> QED
    BY <2>2
<1>7. Valve!OpenFirst(l, S)
  BY <1>2, <1>3, <1>4, <1>5, <1>6 DEF Valve!OpenFirst
<1> QED
  BY <1>7 DEF Valve!OpenOne

\* A step that leaves relays, deadlines, clock and flag alone is no step of
\* the valves, but for the interlock.
LEMMA SettingIsNoStep ==
    ASSUME CoreTypeOK, UNCHANGED <<deadline, relay, now, ota>>, config' \in Config
    PROVE  Valve!SetExclusive \/ UNCHANGED Valve!valveVars
<1>1. config.interlock \in BOOLEAN /\ config'.interlock \in BOOLEAN
  BY DEF CoreTypeOK, Config
<1>2. CASE config'.interlock = config.interlock
  BY <1>2 DEF Valve!valveVars
<1>3. CASE config'.interlock # config.interlock
  BY <1>1, <1>3 DEF Valve!SetExclusive
<1> QED
  BY <1>2, <1>3

\* Every step is a step of the valves or none.
LEMMA StepIsValves ==
    ValveInv /\ [Next]_vars => [Valve!ValvesNext]_(Valve!valveVars)
<1> SUFFICES ASSUME ValveInv, [Next]_vars
             PROVE  Valve!ValvesNext \/ UNCHANGED Valve!valveVars
  OBVIOUS
<1>1. /\ LineInv /\ CoreTypeOK /\ TypeOK
      /\ config' \in Config
  BY StepKeepsController DEF ValveInv, ControllerInv, LineInv, CoreTypeOK
<1>2. ASSUME UNCHANGED <<deadline, relay, now, ota>>
      PROVE  Valve!ValvesNext \/ UNCHANGED Valve!valveVars
  BY <1>1, <1>2, SettingIsNoStep DEF Valve!ValvesNext
<1>3. ASSUME NEW S, S \subseteq Lines, TurnOff(S), UNCHANGED <<config, now, ota>>
      PROVE  Valve!ValvesNext
  BY <1>1, <1>3, TurnOffCloses DEF Valve!ValvesNext
<1>4. CASE HandleOn
  <2> DEFINE l == Head(queue).line
             d == Head(queue).duration
  <2>1. /\ l \in Lines /\ d \in Nat /\ Accepts(l) /\ CommandOn(l, d)
        /\ ~ota /\ UNCHANGED <<config, now, ota>>
    BY <1>1, <1>4, ReceiveEffect, EventFields, AcceptedIsLine
    DEF HandleOn, CommandOn, Receive
  <2> HIDE DEF l, d
  <2>2. CASE TurnOnAfter(Others(l), l, now + Effective(l, d))
    BY <2>1, <2>2, TurnOnOpens DEF Valve!ValvesNext
  <2>3. Others(l) \subseteq Lines /\ \A k : Before(Others(l), k) \subseteq Lines
    BY DEF Others, Active, Before
  <2> QED
    BY <1>3, <2>1, <2>2, <2>3 DEF CommandOn
<1>5. CASE HandleOff
  <2>1. Head(queue).line \in Lines
    BY <1>5, AcceptedIsLine DEF HandleOff, CommandOff
  <2> QED
    BY <1>2, <1>3, <1>5, <2>1 DEF HandleOff, CommandOff, Receive, lineVars
<1>6. CASE HandleAllOff
  BY <1>3, <1>6, AllOffCoversHealthy DEF HandleAllOff, AllOff, Receive
<1>7. CASE RoundTick
  <2>1. Expired \subseteq Lines
    BY DEF Expired, Active
  <2> QED
    BY <1>3, <1>7, <2>1 DEF RoundTick, Tick
<1>8. CASE HandleSetDuration \/ HandleSetInterlock \/ HandleSetSchedule
  BY <1>2, <1>8
  DEF HandleSetDuration, HandleSetInterlock, HandleSetSchedule, SetLive, lineVars, Receive
<1>9. CASE Clock
  <2>1. Valve!Pass
    BY <1>9 DEF Clock, Advance, Valve!Pass
  <2> QED
    BY <2>1 DEF Valve!ValvesNext
<1>10. CASE Reboot
  <2>1. config'.interlock \in BOOLEAN
    BY <1>1 DEF Config
  <2>2. Valve!PowerCycle
    BY <1>10, <2>1 DEF Reboot, Valve!PowerCycle
  <2> QED
    BY <2>2 DEF Valve!ValvesNext
<1>11. CASE OtaFlag
  <2>1. Valve!LockOrUnlock
    BY <1>11 DEF OtaFlag, coreVars, Valve!LockOrUnlock
  <2> QED
    BY <2>1 DEF Valve!ValvesNext
<1>12. CASE \/ Request \/ HandleRefused \/ HandleSetRefused \/ ReceiveTimeout
            \/ Publish \/ UNCHANGED vars
  BY <1>2, <1>12
  DEF Request, Send, HandleRefused, HandleSetRefused, ReceiveTimeout, Publish,
      Receive, vars, coreVars
<1> QED
  BY <1>4, <1>5, <1>6, <1>7, <1>8, <1>9, <1>10, <1>11, <1>12 DEF Next, ControllerStep

\* Boot leaves the valves closed.
LEMMA InitIsValves == Init => ValveInv /\ Valve!ValvesInit
<1> SUFFICES ASSUME Init PROVE ValveInv /\ Valve!ValvesInit
  OBVIOUS
<1>1. ControllerInv /\ config.interlock \in BOOLEAN
  BY InitEstablishesController DEF ControllerInv, LineInv, CoreTypeOK, Config
<1> QED
  BY <1>1 DEF Init, CoreInit, ValveInv, OnlyUsedOn, Valve!ValvesInit

-----------------------------------------------------------------------------
\* The tick that ends a round leaves no line overdue whose relay works.
TickEnds ==
    pc = "tick" /\ pc' # "tick"
        => \A l \in Lines \ FaultyLines : on'[l] => now' < deadline'[l]

\* A line that is on is one the tick looks at, and has a deadline for it to
\* compare.
LEMMA StepTickEnds == ValveInv /\ [Next]_vars => TickEnds
<1> SUFFICES ASSUME ValveInv, [Next]_vars, pc = "tick", pc' # "tick",
                    NEW l \in Lines \ FaultyLines, on'[l]
             PROVE  now' < deadline'[l]
  BY DEF TickEnds
<1>1. ~Reboot
  BY DEF Reboot
<1>2. RoundTick
  BY <1>1
  DEF Next, Request, Send, Clock, OtaFlag, vars, ControllerStep, HandleOn, HandleOff,
      HandleRefused, HandleAllOff, HandleSetDuration, HandleSetInterlock,
      HandleSetSchedule, HandleSetRefused, Receive, ReceiveTimeout, Publish
<1>3. PICK failed \in SUBSET Stops(Expired) : TurnOff(Expired \ failed)
  BY <1>2 DEF RoundTick, Tick
<1>4. on[l] /\ l \notin Expired /\ deadline'[l] = deadline[l] /\ now' = now
  BY <1>2, <1>3 DEF RoundTick, Tick, TurnOff, Stops
<1>5. l \in Active /\ deadline[l] > 0
  BY <1>4 DEF ValveInv, OnlyUsedOn, ControllerInv, LineInv, EnergisedHasDeadline
<1>6. deadline[l] \in Nat /\ now \in Nat
  BY DEF ValveInv, ControllerInv, LineInv, CoreTypeOK
<1> QED
  BY <1>4, <1>5, <1>6 DEF Expired

-----------------------------------------------------------------------------
\* Without the fairness of Spec, for the modules that implement its steps.
LEMMA StepsKeepUsed == Init /\ [][Next]_vars => []ValveInv
<1>1. Init => ValveInv
  BY InitIsValves
<1> QED
  BY <1>1, StepKeepsUsed, PTL

\* The initial states and steps of Controller are those of the valves.
LEMMA StepsAreValves == Init /\ [][Next]_vars => Valve!ValvesSpec
<1>1. Init => Valve!ValvesInit
  BY InitIsValves
<1> QED
  BY <1>1, StepsKeepUsed, StepIsValves, PTL DEF Valve!ValvesSpec

\* A line that is on is always one in use, through every SET_* event, update
\* and restart: no valve is open where the interlock does not look.
THEOREM ControllerOnlyUsedOn == Spec => []OnlyUsedOn
<1>1. ValveInv => OnlyUsedOn
  BY DEF ValveInv
<1> QED
  BY <1>1, StepsKeepUsed, PTL DEF Spec

\* The controller implements TimedValves: through the queue, the settings, a
\* failing relay and a restart at any point, a valve opens for a time, alone
\* under the interlock, and never during an update.
THEOREM ControllerImplementsValves == Spec => Valve!ValvesSpec
BY StepsAreValves, PTL DEF Spec

\* Each round of the controller ends with no line overdue whose relay works,
\* whatever it handled in the round and whichever other relays fail: with the
\* fairness of the controller, that is why OverdueIsEnded holds.
THEOREM ControllerTickEnds == Spec => [][TickEnds]_vars
BY StepsKeepUsed, StepTickEnds, PTL DEF Spec
=============================================================================
