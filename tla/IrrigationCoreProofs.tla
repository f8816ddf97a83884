------------------------ MODULE IrrigationCoreProofs ------------------------
(***************************************************************************)
(* CoreInv holds in every reachable state of IrrigationCore, for any       *)
(* number of lines, any configurations and durations, and any set of       *)
(* faulty relays.  The lemmas are stated for the building blocks of the    *)
(* core's actions, so that the modules that compose the core use them too. *)
(***************************************************************************)
EXTENDS IrrigationCore, TLAPS

\* A line slot is a natural number, and a configured line has a duration.
LEMMA DurationOfAccepted ==
    ASSUME CoreTypeOK, NEW l \in Lines, Accepts(l), NEW d \in Nat
    PROVE  now + Effective(l, d) \in Nat /\ now + Effective(l, d) > 0
<1>1. l \in 0 .. config.lineCount - 1
  BY DEF Accepts, Active, CoreTypeOK, Config, Lines
<1>2. config.duration[l] \in Nat /\ config.duration[l] > 0
  BY <1>1 DEF CoreTypeOK, ConfigValid, Config
<1> QED
  BY <1>2 DEF Effective, CoreTypeOK

\* What switching the lines of S off does to the line state.
LEMMA TurnOffEffect ==
    ASSUME LineInv, NEW S, S \subseteq Lines, TurnOff(S)
    PROVE  /\ on' \in [Lines -> BOOLEAN]
           /\ deadline' \in [Lines -> Nat]
           /\ relay' \in [Lines -> BOOLEAN]
           /\ EnergisedHasDeadline'
           /\ \A l \in Lines : on'[l] <=> on[l] /\ l \notin S
<1> USE DEF LineInv, TurnOff, CoreTypeOK
<1>1. /\ on' \in [Lines -> BOOLEAN]
      /\ deadline' \in [Lines -> Nat]
      /\ relay' \in [Lines -> BOOLEAN]
  OBVIOUS
<1>2. \A l \in Lines : on'[l] <=> on[l] /\ l \notin S
  OBVIOUS
<1>3. EnergisedHasDeadline'
  <2> SUFFICES ASSUME NEW l \in Lines
               PROVE  (relay'[l] => on'[l]) /\ (on'[l] <=> deadline'[l] > 0)
    BY DEF EnergisedHasDeadline
  <2>1. relay'[l] => on'[l]
    BY DEF EnergisedHasDeadline
  <2>2. CASE l \in S
    <3>1. ~on'[l]
      BY <2>2
    <3>2. deadline'[l] = 0
      BY <2>2
    <3> QED
      BY <2>1, <3>1, <3>2
  <2>3. CASE l \notin S
    <3>1. on'[l] <=> on[l]
      BY <2>3
    <3>2. deadline'[l] = deadline[l]
      BY <2>3
    <3> QED
      BY <2>1, <3>1, <3>2 DEF EnergisedHasDeadline
  <2> QED
    BY <2>2, <2>3
<1> QED
  BY <1>1, <1>2, <1>3

\* What switching l on until a time after switching S off does to it.
LEMMA TurnOnEffect ==
    ASSUME LineInv, NEW S, S \subseteq Lines, NEW l \in Lines,
           NEW until \in Nat, until > 0, TurnOnAfter(S, l, until)
    PROVE  /\ on' \in [Lines -> BOOLEAN]
           /\ deadline' \in [Lines -> Nat]
           /\ relay' \in [Lines -> BOOLEAN]
           /\ EnergisedHasDeadline'
           /\ \A i \in Lines : on'[i] <=> i = l \/ (on[i] /\ i \notin S)
<1> USE DEF LineInv, TurnOnAfter, CoreTypeOK
<1>1. /\ on' \in [Lines -> BOOLEAN]
      /\ deadline' \in [Lines -> Nat]
      /\ relay' \in [Lines -> BOOLEAN]
  OBVIOUS
<1>2. \A i \in Lines : on'[i] <=> i = l \/ (on[i] /\ i \notin S)
  OBVIOUS
<1>3. EnergisedHasDeadline'
  <2> SUFFICES ASSUME NEW i \in Lines
               PROVE  (relay'[i] => on'[i]) /\ (on'[i] <=> deadline'[i] > 0)
    BY DEF EnergisedHasDeadline
  <2>1. relay'[i] => on'[i]
    BY DEF EnergisedHasDeadline
  <2>2. CASE i = l
    <3>1. on'[i]
      BY <2>2
    <3>2. deadline'[i] = until
      BY <2>2
    <3> QED
      BY <2>1, <3>1, <3>2
  <2>3. CASE i # l /\ i \in S
    <3>1. ~on'[i]
      BY <2>3
    <3>2. deadline'[i] = 0
      BY <2>3
    <3> QED
      BY <2>1, <3>1, <3>2
  <2>4. CASE i # l /\ i \notin S
    <3>1. on'[i] <=> on[i]
      BY <2>4
    <3>2. deadline'[i] = deadline[i]
      BY <2>4
    <3> QED
      BY <2>1, <3>1, <3>2 DEF EnergisedHasDeadline
  <2> QED
    BY <2>2, <2>3, <2>4
<1> QED
  BY <1>1, <1>2, <1>3

\* irrigation_core_all_off switches off a set of lines that holds every
\* healthy one, whatever relay fails.
LEMMA AllOffCoversHealthy ==
    ASSUME SwitchAllOff
    PROVE  \E S \in SUBSET Lines : Healthy \subseteq S /\ TurnOff(S)
<1>1. CASE TurnOff(Lines)
  BY <1>1 DEF Healthy
<1>2. ASSUME NEW k \in Stops(Lines), TurnOff(Before(Lines, k))
      PROVE  Before(Lines, k) \subseteq Lines /\ Healthy \subseteq Before(Lines, k)
  BY DEF Healthy, Stops, Before
<1> QED
  BY <1>1, <1>2 DEF SwitchAllOff

-----------------------------------------------------------------------------
\* Switching lines off keeps LineInv.
LEMMA TurnOffKeepsLines ==
    ASSUME LineInv, NEW S, S \subseteq Lines, TurnOff(S), UNCHANGED <<config, now>>
    PROVE  LineInv'
BY TurnOffEffect
DEF LineInv, CoreTypeOK, HealthyStaysControllable, Accepts, Active, Healthy

\* An accepted command ON keeps LineInv, however it ends.
LEMMA CommandOnKeepsLines ==
    ASSUME LineInv, NEW l \in Lines, NEW d \in Nat, CommandOn(l, d)
    PROVE  LineInv'
<1>1. Others(l) \subseteq Lines
  BY DEF Others, Active
<1>2. CASE TurnOnAfter(Others(l), l, now + Effective(l, d))
  <2>1. now + Effective(l, d) \in Nat /\ now + Effective(l, d) > 0
    BY DurationOfAccepted DEF CommandOn, LineInv
  <2>2. CoreTypeOK' /\ EnergisedHasDeadline'
    BY <1>1, <1>2, <2>1, TurnOnEffect DEF CommandOn, LineInv, CoreTypeOK
  <2>3. HealthyStaysControllable'
    <3>1. \A i \in Lines : on'[i] => i = l \/ on[i]
      BY <1>1, <1>2, <2>1, TurnOnEffect
    <3>2. \A i \in Lines : Accepts(i) => Accepts(i)'
      BY DEF CommandOn, Accepts, Active
    <3> QED
      BY <3>1, <3>2 DEF CommandOn, LineInv, HealthyStaysControllable, Healthy
  <2> QED
    BY <2>2, <2>3 DEF LineInv
<1>3. CASE TurnOff(Others(l))
  BY <1>1, <1>3, TurnOffKeepsLines DEF CommandOn
<1>4. CASE \E k \in Stops(Others(l)) : TurnOff(Before(Others(l), k))
  BY <1>1, <1>4, TurnOffKeepsLines DEF CommandOn, Before
<1> QED
  BY <1>2, <1>3, <1>4 DEF CommandOn

\* A step that leaves the core's lines and configuration alone keeps LineInv.
LEMMA StutterKeepsLines ==
    ASSUME LineInv, UNCHANGED <<config, on, deadline, relay>>, now' \in Nat
    PROVE  LineInv'
BY DEF LineInv, CoreTypeOK, EnergisedHasDeadline, HealthyStaysControllable, Accepts, Active

\* The command OFF keeps LineInv.
LEMMA CommandOffKeepsLines ==
    ASSUME LineInv, NEW l \in Lines, CommandOff(l)
    PROVE  LineInv'
<1>1. CASE TurnOff({l})
  BY <1>1, TurnOffKeepsLines DEF CommandOff
<1>2. CASE UNCHANGED lineVars
  BY <1>2, StutterKeepsLines DEF CommandOff, lineVars, LineInv, CoreTypeOK
<1> QED
  BY <1>1, <1>2 DEF CommandOff

\* ALL OFF keeps LineInv.
LEMMA AllOffKeepsLines ==
    ASSUME LineInv, AllOff
    PROVE  LineInv'
BY AllOffCoversHealthy, TurnOffKeepsLines DEF AllOff

\* A tick keeps LineInv.
LEMMA TickKeepsLines ==
    ASSUME LineInv, Tick
    PROVE  LineInv'
BY TurnOffKeepsLines DEF Tick, Expired, Active

-----------------------------------------------------------------------------
\* A step after which no healthy line is on that was off keeps the interlock.
LEMMA FewerOnKeepsExclusive ==
    ASSUME HealthyExclusive, config' = config,
           \A l \in Healthy : on'[l] => on[l]
    PROVE  HealthyExclusive'
BY DEF HealthyExclusive, Healthy

\* Switching a line on, after the interlock's shut-offs, keeps the interlock:
\* every other healthy line that was on is one the interlock reaches.
LEMMA TurnOnKeepsExclusive ==
    ASSUME CoreInv, NEW l \in Lines, NEW until, TurnOnAfter(Others(l), l, until),
           config' = config
    PROVE  HealthyExclusive'
<1> SUFFICES ASSUME config.interlock, NEW i \in Healthy, on'[i]
             PROVE  i = l
  BY DEF HealthyExclusive, Healthy
<1>1. i \in Lines
  BY DEF Healthy
<1>2. i # l => on[i] /\ i \notin Others(l)
  BY <1>1 DEF TurnOnAfter
<1> QED
  BY <1>1, <1>2 DEF CoreInv, LineInv, HealthyStaysControllable, Accepts, Others

\* The initial states satisfy the invariant.
LEMMA InitEstablishesInv == CoreInit => CoreInv
BY CoreAssumption
DEF CoreInit, CoreInv, LineInv, CoreTypeOK, EnergisedHasDeadline,
    HealthyStaysControllable, HealthyExclusive, Healthy

\* Every step of the core keeps the invariant.
LEMMA StepKeepsInv == CoreInv /\ [CoreNext]_coreVars => CoreInv'
<1> SUFFICES ASSUME CoreInv, [CoreNext]_coreVars PROVE CoreInv'
  OBVIOUS
<1> USE DEF CoreInv
<1>0. ASSUME NEW S, S \subseteq Lines, TurnOff(S), UNCHANGED <<config, now>>
      PROVE  CoreInv'
  BY <1>0, TurnOffKeepsLines, TurnOffEffect, FewerOnKeepsExclusive DEF Healthy
<1>1. ASSUME NEW l \in Lines, NEW d \in Durations, CommandOn(l, d) PROVE CoreInv'
  <2>1. LineInv'
    BY <1>1, CommandOnKeepsLines, CoreAssumption
  <2>2. CASE TurnOnAfter(Others(l), l, now + Effective(l, d))
    BY <1>1, <2>1, <2>2, TurnOnKeepsExclusive DEF CommandOn
  <2>3. CASE TurnOff(Others(l))
    BY <1>0, <1>1, <2>3 DEF CommandOn, Others, Active
  <2>4. CASE \E k \in Stops(Others(l)) : TurnOff(Before(Others(l), k))
    BY <1>0, <1>1, <2>4 DEF CommandOn, Before, Others, Active
  <2> QED
    BY <1>1, <2>2, <2>3, <2>4 DEF CommandOn
<1>2. ASSUME NEW l \in Lines, CommandOff(l) PROVE CoreInv'
  <2>1. CASE TurnOff({l})
    BY <1>0, <1>2, <2>1 DEF CommandOff
  <2>2. CASE UNCHANGED lineVars
    BY <1>2, <2>2, CommandOffKeepsLines, FewerOnKeepsExclusive DEF CommandOff, lineVars
  <2> QED
    BY <1>2, <2>1, <2>2 DEF CommandOff
<1>3. CASE AllOff
  BY <1>0, <1>3, AllOffCoversHealthy DEF AllOff
<1>4. ASSUME NEW c \in Configs, ApplyConfig(c) PROVE CoreInv'
  <2>1. PICK S \in SUBSET Lines : Healthy \subseteq S /\ TurnOff(S)
    BY <1>4, AllOffCoversHealthy DEF ApplyConfig
  <2>2. \A l \in Healthy : ~on'[l]
    BY <2>1, TurnOffEffect DEF Healthy
  <2>3. CoreTypeOK' /\ EnergisedHasDeadline'
    BY <1>4, <2>1, TurnOffEffect, CoreAssumption DEF ApplyConfig, LineInv, CoreTypeOK
  <2> QED
    BY <2>2, <2>3 DEF LineInv, HealthyStaysControllable, HealthyExclusive, Healthy
<1>5. CASE Tick
  BY <1>0, <1>5 DEF Tick, Expired, Active
<1>6. CASE Advance
  BY <1>6, StutterKeepsLines, FewerOnKeepsExclusive DEF Advance, LineInv, CoreTypeOK
<1>7. CASE UNCHANGED coreVars
  BY <1>7, StutterKeepsLines, FewerOnKeepsExclusive DEF coreVars, LineInv, CoreTypeOK
<1> QED
  BY <1>1, <1>2, <1>3, <1>4, <1>5, <1>6, <1>7 DEF CoreNext

-----------------------------------------------------------------------------
\* Switching lines off gives no line more time.
LEMMA TurnOffGivesNoTime ==
    ASSUME CoreTypeOK, NEW S, TurnOff(S), NEW l \in Lines
    PROVE  deadline'[l] <= deadline[l]
<1>1. deadline'[l] = IF l \in S THEN 0 ELSE deadline[l]
  BY DEF TurnOff
<1>2. deadline[l] \in Nat
  BY DEF CoreTypeOK
<1> QED
  BY <1>1, <1>2

\* A step that gives no line more time has nothing to interlock.
LEMMA NoTimeNoInterlock ==
    ASSUME CoreTypeOK, CoreTypeOK', \A l \in Lines : deadline'[l] <= deadline[l]
    PROVE  InterlockedStep
<1> SUFFICES ASSUME NEW l \in Lines PROVE ~(deadline'[l] > deadline[l])
  BY DEF InterlockedStep
<1>1. deadline[l] \in Nat /\ deadline'[l] \in Nat
  BY DEF CoreTypeOK
<1> QED
  BY <1>1

\* A command ON interlocks, however it ends.
LEMMA CommandOnInterlocks ==
    ASSUME LineInv, NEW l \in Lines, NEW d \in Nat, CommandOn(l, d)
    PROVE  InterlockedStep
<1> USE DEF LineInv
<1>1. CoreTypeOK'
  BY CommandOnKeepsLines
<1>2. CASE TurnOnAfter(Others(l), l, now + Effective(l, d))
  <2> SUFFICES ASSUME NEW i \in Lines, deadline'[i] > deadline[i], config.interlock,
                      NEW m \in Active \ {i}
               PROVE  ~relay'[m]
    BY DEF InterlockedStep
  <2>1. i = l
    <3>1. SUFFICES ASSUME i # l PROVE FALSE
      OBVIOUS
    <3>2. deadline'[i] = IF i \in Others(l) THEN 0 ELSE deadline[i]
      BY <1>2, <3>1 DEF TurnOnAfter
    <3>3. deadline[i] \in Nat
      BY DEF CoreTypeOK
    <3> QED
      BY <3>2, <3>3
  <2>2. m \in Lines /\ m # l
    BY <2>1 DEF Active
  <2>3. relay'[m] => relay[m] /\ m \notin Others(l)
    BY <1>2, <2>2 DEF TurnOnAfter
  <2>4. relay[m] => on[m]
    BY <2>2 DEF EnergisedHasDeadline
  <2>5. on[m] => m \in Others(l)
    BY <2>2 DEF Others
  <2> QED
    BY <2>3, <2>4, <2>5
<1>3. ASSUME NEW S, TurnOff(S) PROVE InterlockedStep
  BY <1>1, <1>3, TurnOffGivesNoTime, NoTimeNoInterlock
<1> QED
  BY <1>2, <1>3 DEF CommandOn

\* Every step of the core interlocks.
LEMMA StepInterlocks == CoreInv /\ [CoreNext]_coreVars => [InterlockedStep]_coreVars
<1> SUFFICES ASSUME CoreInv, [CoreNext]_coreVars, ~UNCHANGED coreVars
             PROVE  InterlockedStep
  OBVIOUS
<1>1. LineInv /\ CoreTypeOK /\ CoreTypeOK'
  BY StepKeepsInv DEF CoreInv, LineInv
<1>2. ASSUME NEW S, TurnOff(S) PROVE InterlockedStep
  BY <1>1, <1>2, TurnOffGivesNoTime, NoTimeNoInterlock
<1>3. ASSUME UNCHANGED deadline PROVE InterlockedStep
  <2>1. \A l \in Lines : deadline'[l] <= deadline[l]
    BY <1>1, <1>3 DEF CoreTypeOK
  <2> QED
    BY <1>1, <2>1, NoTimeNoInterlock
<1>4. ASSUME NEW l \in Lines, NEW d \in Durations, CommandOn(l, d)
      PROVE  InterlockedStep
  BY <1>1, <1>4, CommandOnInterlocks, CoreAssumption
<1>5. ASSUME NEW l \in Lines, CommandOff(l) PROVE InterlockedStep
  BY <1>2, <1>3, <1>5 DEF CommandOff, lineVars
<1>6. ASSUME NEW c, AllOff \/ ApplyConfig(c) PROVE InterlockedStep
  BY <1>2, <1>6 DEF AllOff, ApplyConfig, SwitchAllOff
<1>7. CASE Tick
  BY <1>2, <1>7 DEF Tick
<1>8. CASE Advance
  BY <1>3, <1>8 DEF Advance
<1> QED
  BY <1>4, <1>5, <1>6, <1>7, <1>8 DEF CoreNext

-----------------------------------------------------------------------------
\* The state of the core has its type, every energised relay has a deadline,
\* and the healthy lines stay controllable and exclusive under the interlock.
THEOREM CoreSafety == CoreSpec => []CoreInv
BY InitEstablishesInv, StepKeepsInv, PTL DEF CoreSpec

\* Every variable of the core keeps its type.
THEOREM CoreTypes == CoreSpec => []CoreTypeOK
BY CoreSafety, PTL DEF CoreInv, LineInv

\* Every energised relay has a timeout the tick will act on.
THEOREM CoreTimeouts == CoreSpec => []EnergisedHasDeadline
BY CoreSafety, PTL DEF CoreInv, LineInv

\* Partial failures leave no healthy line where no OFF and no tick reaches it.
THEOREM CoreControllable == CoreSpec => []HealthyStaysControllable
BY CoreSafety, PTL DEF CoreInv, LineInv

\* The interlock holds among the healthy lines.
THEOREM CoreInterlock == CoreSpec => []HealthyExclusive
BY CoreSafety, PTL DEF CoreInv, LineInv

\* Under the interlock no line gets time while another one is energised,
\* whichever relay calls fail.
THEOREM CoreInterlockedTurnOn == CoreSpec => InterlockedTurnOn
BY CoreSafety, StepInterlocks, PTL DEF CoreSpec, InterlockedTurnOn
=============================================================================
