-------------------------- MODULE TradingGate_proof --------------------------
(***************************************************************************)
(* Proofs about TradingGate, for any number of processes, orders, calls    *)
(* and faults. The type invariant comes first; on it rest two arguments    *)
(* that share nothing else: that an order passes only while it may, which  *)
(* needs no assumption, and that a halt nobody reviewed stands, which      *)
(* needs the transition lock to exclude.                                   *)
(***************************************************************************)
EXTENDS TradingGate, TLAPS

USE ProcessAssumption, SwitchAssumption DEF ProcessAssumption, SwitchAssumption, Calls

\* Where an order can move to.
Places == Asking \cup Told \cup {"passed"}

-----------------------------------------------------------------------------
(* Type correctness                                                        *)

\* A fault counted keeps to its bound; so do the outcomes of a Redis call.
LEMMA FaultTypes ==
    ASSUME TypeOK, NEW p \in Processes, Answers(p) \/ Fails(p)
    PROVE  faults' \in 0..MaxFaults
BY DEF TypeOK, ProcessTypeOK, OrderTypeOK, OrderStates, Answers, Fails, Fault

\* What an order's move does to the table of orders.
LEMMA OrderTypes ==
    ASSUME OrderTypeOK, NEW o \in Orders, order[o].at # "idle",
           \/ Leaves(o)
           \/ \E place \in Places : Waits(o, place)
           \/ \E place \in Places, value \in BOOLEAN : IsTold(o, place, value)
    PROVE  OrderTypeOK'
<1>1. CASE Leaves(o)
  <2>1. Nowhere \in OrderStates BY DEF Nowhere, OrderStates
  <2>2. order' \in [Orders -> OrderStates] BY <1>1, <2>1 DEF Leaves, OrderTypeOK
  <2>3. \A x \in Orders : order'[x] = IF x = o THEN Nowhere ELSE order[x]
    BY <1>1 DEF Leaves, OrderTypeOK
  <2> QED BY <2>2, <2>3 DEF OrderTypeOK, Nowhere
<1>2. ASSUME NEW place \in Places, NEW value \in BOOLEAN,
             Waits(o, place) \/ IsTold(o, place, value)
      PROVE  OrderTypeOK'
  <2>1. order[o] \in OrderStates BY DEF OrderTypeOK
  <2>2. PICK v \in BOOLEAN : order' = [order EXCEPT ![o] = [order[o] EXCEPT !.at = place, !.saw = v]]
    <3>1. CASE Waits(o, place)
      <4>1. order' = [order EXCEPT ![o] = [order[o] EXCEPT !.at = place, !.saw = order[o].saw]]
        BY <3>1, <2>1 DEF Waits, OrderTypeOK, OrderStates
      <4> QED BY <4>1, <2>1 DEF OrderStates
    <3>2. CASE IsTold(o, place, value)
      <4>1. order' = [order EXCEPT ![o] = [order[o] EXCEPT !.at = place, !.saw = value]]
        BY <3>2, <2>1 DEF IsTold, OrderTypeOK, OrderStates
      <4> QED BY <4>1
    <3> QED BY <1>2, <3>1, <3>2
  <2>3. [order[o] EXCEPT !.at = place, !.saw = v] \in OrderStates
    BY <2>1 DEF OrderStates, Places
  <2>4. order' \in [Orders -> OrderStates] BY <2>2, <2>3 DEF OrderTypeOK
  <2>5. ASSUME NEW x \in Orders PROVE order'[x].at = "idle" <=> order'[x].proc = None
    <3>1. CASE x = o
      BY <3>1, <2>1, <2>2 DEF OrderTypeOK, OrderStates, Places, Asking, Told
    <3>2. CASE x # o BY <3>2, <2>2 DEF OrderTypeOK
    <3> QED BY <3>1, <3>2
  <2> QED BY <2>4, <2>5 DEF OrderTypeOK
<1> QED BY <1>1, <1>2

\* History leaves the table well-typed.
LEMMA HistoryTypes ==
    ASSUME OrderTypeOK, order' \in {order, SeesOff, SeesFree}
    PROVE  OrderTypeOK'
<1>1. \A o \in Orders : order[o] \in OrderStates BY DEF OrderTypeOK
<1>2. ASSUME NEW o \in Orders
      PROVE  /\ order'[o] \in OrderStates
             /\ order'[o].at = order[o].at /\ order'[o].proc = order[o].proc
  <2>1. CASE order' = order BY <1>1, <2>1
  <2>2. CASE order' = SeesOff BY <1>1, <2>2 DEF SeesOff, OrderStates
  <2>3. CASE order' = SeesFree BY <1>1, <2>3 DEF SeesFree, OrderStates
  <2> QED BY <2>1, <2>2, <2>3
<1>3. order' \in [Orders -> OrderStates] BY <1>2 DEF SeesOff, SeesFree, OrderTypeOK
<1> QED BY <1>2, <1>3 DEF OrderTypeOK

\* An order at the gate has a process.
LEMMA HereType ==
    ASSUME TypeOK, NEW o \in Orders, order[o].at # "idle"
    PROVE  Here(o) \in Processes
BY DEF TypeOK, ProcessTypeOK, OrderTypeOK, OrderStates, Here

\* The initial state is well-typed.
LEMMA TypeInit == Init => TypeOK
<1> SUFFICES ASSUME Init PROVE TypeOK OBVIOUS
<1>1. ProcessTypeOK
  BY DEF Init, ProcessInit, ProcessTypeOK, OrderTypeOK, OrderStates, Nowhere
<1>2. SwitchTypeOK
  <2>1. act \in [Activations -> ActStates] /\ \A a \in Activations : act[a].at = "idle"
    BY DEF Init, SwitchInit, NoActivation, ActStates, LockViews
  <2>2. reset \in [Resets -> ResetStates] /\ \A z \in Resets : reset[z].at = "idle"
    BY DEF Init, SwitchInit, NoReset, ResetStates, LockViews
  <2> QED BY <2>1, <2>2 DEF Init, SwitchInit, SwitchTypeOK
<1>3. HaltTypeOK BY DEF Init, HaltInit, HaltTypeOK, NoToggle
<1> QED BY <1>1, <1>2, <1>3 DEF TypeOK

\* Checks of orders and their arrival.
LEMMA TypeCheck ==
    ASSUME TypeOK, NEW o \in Orders, Check(o) \/ \E p \in Processes : Arrives(o, p)
    PROVE  TypeOK'
<1>1. CASE TakesProbeLock(o)
  <2>1. Here(o) \in Processes BY <1>1, HereType DEF TakesProbeLock
  <2>2. Leaves(o) \/ \E place \in Places : Waits(o, place)
    BY <1>1 DEF TakesProbeLock, IsActiveSaysNo, Asking, Places
  <2>3. order[o].at # "idle" BY <1>1 DEF TakesProbeLock
  <2> QED BY <1>1, <2>2, <2>3, OrderTypes
      DEF TypeOK, ProcessTypeOK, OrderTypeOK, OrderStates, SwitchTypeOK, HaltTypeOK, TakesProbeLock, switchVars, latchVars, haltVars
<1>2. CASE ReadsSwitch(o)
  <2>1. Here(o) \in Processes BY <1>2, HereType DEF ReadsSwitch
  <2>2. \E place \in Places, value \in BOOLEAN : IsTold(o, place, value)
    <3>1. switch \in BOOLEAN BY DEF TypeOK, SwitchTypeOK
    <3>2. CASE order[o].at = "reading" BY <1>2, <3>1, <3>2 DEF ReadsSwitch, Told, Places
    <3>3. CASE order[o].at # "reading" BY <1>2, <3>1, <3>3 DEF ReadsSwitch, Told, Places
    <3> QED BY <3>2, <3>3
  <2>3. order[o].at # "idle" BY <1>2 DEF ReadsSwitch
  <2> QED BY <1>2, <2>1, <2>2, <2>3, OrderTypes, FaultTypes
      DEF TypeOK, ProcessTypeOK, OrderTypeOK, OrderStates, SwitchTypeOK, HaltTypeOK, ReadsSwitch, switchVars, latchVars, haltVars
<1>3. CASE CannotReadSwitch(o)
  <2>1. Here(o) \in Processes BY <1>3, HereType DEF CannotReadSwitch
  <2>2. order[o].at # "idle" BY <1>3 DEF CannotReadSwitch
  <2> QED BY <1>3, <2>1, <2>2, OrderTypes, FaultTypes
      DEF TypeOK, ProcessTypeOK, OrderTypeOK, OrderStates, SwitchTypeOK, HaltTypeOK, CannotReadSwitch, haltVars
<1>4. CASE IsActiveDecides(o)
  <2>1. Here(o) \in Processes BY <1>4, HereType DEF IsActiveDecides
  <2>2. order[o].at # "idle" BY <1>4 DEF IsActiveDecides
  <2>3. Leaves(o) \/ \E place \in Places : Waits(o, place)
    BY <1>4 DEF IsActiveDecides, IsActiveSaysNo, Asking, Places
  <2>4. order[o].saw \in BOOLEAN BY DEF TypeOK, ProcessTypeOK, OrderTypeOK, OrderStates
  <2>5. OrderTypeOK' BY <2>2, <2>3, OrderTypes DEF TypeOK, ProcessTypeOK
  <2>6. SwitchTypeOK' BY <1>4, <2>1, <2>4 DEF TypeOK, SwitchTypeOK, IsActiveDecides
  <2> QED BY <1>4, <2>5, <2>6 DEF TypeOK, ProcessTypeOK, HaltTypeOK, IsActiveDecides, haltVars
<1>5. CASE ReadsHalt(o)
  <2>1. order[o].at # "idle" BY <1>5 DEF ReadsHalt
  <2>2. \/ \E place \in Places : Waits(o, place)
        \/ \E place \in Places, value \in BOOLEAN : IsTold(o, place, value)
    BY <1>5 DEF ReadsHalt, Told, Places, TypeOK, HaltTypeOK
  <2> QED BY <1>5, <2>1, <2>2, OrderTypes
      DEF TypeOK, ProcessTypeOK, OrderTypeOK, OrderStates, SwitchTypeOK, HaltTypeOK, ReadsHalt, switchVars, latchVars, haltVars
<1>6. CASE CannotReadHalt(o)
  <2>1. Here(o) \in Processes BY <1>6, HereType DEF CannotReadHalt
  <2>2. order[o].at # "idle" BY <1>6 DEF CannotReadHalt
  <2> QED BY <1>6, <2>1, <2>2, OrderTypes, FaultTypes
      DEF TypeOK, ProcessTypeOK, OrderTypeOK, OrderStates, SwitchTypeOK, HaltTypeOK, CannotReadHalt, Fails, switchVars, latchVars, haltVars
<1>7. CASE IsHaltedDecides(o)
  <2>1. Here(o) \in Processes BY <1>7, HereType DEF IsHaltedDecides
  <2>2. order[o].at # "idle" BY <1>7 DEF IsHaltedDecides
  <2>3. Leaves(o) \/ \E place \in Places : Waits(o, place)
    BY <1>7 DEF IsHaltedDecides, Places
  <2>4. order[o].saw \in BOOLEAN BY DEF TypeOK, ProcessTypeOK, OrderTypeOK, OrderStates
  <2> QED BY <1>7, <2>1, <2>2, <2>3, <2>4, OrderTypes
      DEF TypeOK, ProcessTypeOK, OrderTypeOK, OrderStates, SwitchTypeOK, HaltTypeOK, IsHaltedDecides, switchVars, latchVars
<1>8. CASE GoesOn(o)
  <2>1. order[o].at # "idle" BY <1>8 DEF GoesOn
  <2> QED BY <1>8, <2>1, OrderTypes
      DEF TypeOK, ProcessTypeOK, OrderTypeOK, OrderStates, SwitchTypeOK, HaltTypeOK, GoesOn, switchVars, latchVars, haltVars
<1>9. CASE \E p \in Processes : Arrives(o, p)
  <2> PICK p \in Processes : Arrives(o, p) BY <1>9
  <2> QED BY DEF TypeOK, ProcessTypeOK, OrderTypeOK, OrderStates, SwitchTypeOK, HaltTypeOK, Arrives, OffOnItsWay,
             switchVars, latchVars, haltVars, Asking, Told
<1> QED BY <1>1, <1>2, <1>3, <1>4, <1>5, <1>6, <1>7, <1>8, <1>9 DEF Check

\* A transition of the switch: the tables of calls, the sets, the latches.
LEMMA TypeTransition ==
    ASSUME TypeOK, Transition, UNCHANGED haltVars
    PROVE  TypeOK'
<1> USE DEF TypeOK, ProcessTypeOK, SwitchTypeOK
<1>0. UNCHANGED <<linked, haltVars>> /\ HaltTypeOK'
  BY DEF Transition, haltVars, HaltTypeOK, Activates, Engages, Registers, ActivateReturns,
         ResetBegins, Reviews, Clears, Releases, ResetReturns
<1>1. ASSUME NEW a \in Activations, NEW p \in Processes, NEW h \in Triggers, Activates(a, p, h)
      PROVE  TypeOK'
  <2>1. PICK got \in LockViews : /\ TryLock(a, p, got)
                                 /\ act' = [act EXCEPT ![a] = [at |-> "latched", proc |-> p,
                                                  hold |-> h, lock |-> got, ok |-> TRUE]]
    BY <1>1 DEF Activates
  <2>2. lock' \in Calls \cup {None} /\ faults' \in 0..MaxFaults
    BY <2>1, FaultTypes DEF TryLock, MaybeDone
  <2>3. /\ act' \in [Activations -> ActStates]
        /\ \A x \in Activations : act'[x].at # "idle" => act'[x].proc # None /\ act'[x].hold # None
    BY <2>1 DEF ActStates
  <2> QED BY <1>0, <1>1, <2>2, <2>3 DEF Activates, SetLatch, OrderTypeOK
<1>2. ASSUME NEW a \in Activations, Engages(a) \/ Registers(a) \/ ActivateReturns(a)
      PROVE  TypeOK'
  <2>1. act[a] \in ActStates /\ act[a].at # "idle" BY <1>2 DEF Engages, Registers, ActivateReturns
  <2>2. act[a].proc \in Processes /\ act[a].hold \in Triggers BY <2>1 DEF ActStates
  <2>3. CASE Engages(a)
    <3>1. switch' \in BOOLEAN /\ faults' \in 0..MaxFaults
      BY <2>2, <2>3, FaultTypes DEF Engages, MaybeDone
    <3>2. /\ act' \in [Activations -> ActStates]
          /\ \A x \in Activations : act'[x].at # "idle" => act'[x].proc # None /\ act'[x].hold # None
      <4>1. CASE act' = [act EXCEPT ![a].at = "engaged"] BY <2>1, <4>1 DEF ActStates
      <4>2. CASE act' = [act EXCEPT ![a].at = "engaged", ![a].ok = FALSE] BY <2>1, <4>2 DEF ActStates
      <4> QED BY <2>3, <4>1, <4>2 DEF Engages
    <3> QED BY <1>0, <2>3, <3>1, <3>2 DEF Engages, OrderTypeOK, latchVars
  <2>4. CASE Registers(a)
    <3>1. faults' \in 0..MaxFaults BY <2>2, <2>4, FaultTypes DEF Registers
    <3>2. holds' \subseteq Triggers /\ standing' \subseteq Triggers
      BY <2>2, <2>4 DEF Registers, MaybeDone
    <3>3. /\ act' \in [Activations -> ActStates]
          /\ \A x \in Activations : act'[x].at # "idle" => act'[x].proc # None /\ act'[x].hold # None
      BY <2>1, <2>4 DEF Registers, ActStates
    <3> QED BY <1>0, <2>4, <3>1, <3>2, <3>3 DEF Registers, OrderTypeOK, latchVars
  <2>5. CASE ActivateReturns(a)
    <3>1. lock' \in Calls \cup {None} /\ faults' \in 0..MaxFaults
      BY <2>2, <2>5, FaultTypes DEF ActivateReturns, DropLock, MaybeDone
    <3>2. NoActivation \in ActStates BY DEF NoActivation, ActStates, LockViews
    <3>3. /\ act' \in [Activations -> ActStates]
          /\ \A x \in Activations : act'[x].at # "idle" => act'[x].proc # None /\ act'[x].hold # None
      BY <2>5, <3>2 DEF ActivateReturns, NoActivation
    <3> QED BY <1>0, <2>2, <2>5, <3>1, <3>3 DEF ActivateReturns, OrderTypeOK, latchVars
  <2> QED BY <1>2, <2>3, <2>4, <2>5
<1>3. ASSUME NEW z \in Resets, NEW p \in Processes, NEW told \in SUBSET Triggers, ResetBegins(z, p, told)
      PROVE  TypeOK'
  <2>1. PICK got \in LockViews : /\ TryLock(z, p, got)
                                 /\ reset' = [reset EXCEPT ![z] = [at |-> "locked", proc |-> p,
                                                    told |-> told, read |-> {}, lock |-> got]]
    BY <1>3 DEF ResetBegins
  <2>2. lock' \in Calls \cup {None} /\ faults' \in 0..MaxFaults
    BY <2>1, FaultTypes DEF TryLock, MaybeDone
  <2>3. /\ reset' \in [Resets -> ResetStates]
        /\ \A x \in Resets : reset'[x].at # "idle" => reset'[x].proc # None
    BY <2>1 DEF ResetStates
  <2> QED BY <1>0, <1>3, <2>2, <2>3 DEF ResetBegins, OrderTypeOK, latchVars
<1>4. ASSUME NEW z \in Resets, Reviews(z) \/ Clears(z) \/ Releases(z) \/ ResetReturns(z)
      PROVE  TypeOK'
  <2>1. reset[z] \in ResetStates /\ reset[z].at # "idle" BY <1>4 DEF Reviews, Clears, Releases, ResetReturns
  <2>2. reset[z].proc \in Processes /\ reset[z].read \subseteq Triggers BY <2>1 DEF ResetStates
  <2>3. CASE Reviews(z)
    <3>1. faults' \in 0..MaxFaults BY <2>2, <2>3, FaultTypes DEF Reviews
    <3>2. /\ reset' \in [Resets -> ResetStates]
          /\ \A x \in Resets : reset'[x].at # "idle" => reset'[x].proc # None
      BY <2>1, <2>3 DEF Reviews, ResetStates
    <3> QED BY <1>0, <2>3, <3>1, <3>2 DEF Reviews, OrderTypeOK, latchVars
  <2>4. CASE Clears(z)
    <3>1. switch' \in BOOLEAN /\ faults' \in 0..MaxFaults
      BY <2>2, <2>4, FaultTypes DEF Clears, MaybeDone
    <3>2. OrderTypeOK' BY <2>4, HistoryTypes DEF Clears
    <3>3. /\ reset' \in [Resets -> ResetStates]
          /\ \A x \in Resets : reset'[x].at # "idle" => reset'[x].proc # None
      <4>1. PICK v \in {"cleared", "leaving"} : reset' = [reset EXCEPT ![z].at = v]
        BY <2>4 DEF Clears
      <4> QED BY <2>1, <4>1 DEF ResetStates
    <3> QED BY <1>0, <2>4, <3>1, <3>2, <3>3 DEF Clears, latchVars
  <2>5. CASE Releases(z)
    <3>1. faults' \in 0..MaxFaults BY <2>2, <2>5, FaultTypes DEF Releases
    <3>2. holds' \subseteq Triggers BY <2>5 DEF Releases, MaybeDone
    <3>3. /\ reset' \in [Resets -> ResetStates]
          /\ \A x \in Resets : reset'[x].at # "idle" => reset'[x].proc # None
      BY <2>1, <2>5 DEF Releases, ResetStates
    <3> QED BY <1>0, <2>5, <3>1, <3>2, <3>3 DEF Releases, SetLatch, OrderTypeOK
  <2>6. CASE ResetReturns(z)
    <3>1. lock' \in Calls \cup {None} /\ faults' \in 0..MaxFaults
      BY <2>2, <2>6, FaultTypes DEF ResetReturns, DropLock, MaybeDone
    <3>2. NoReset \in ResetStates BY DEF NoReset, ResetStates, LockViews
    <3>3. /\ reset' \in [Resets -> ResetStates]
          /\ \A x \in Resets : reset'[x].at # "idle" => reset'[x].proc # None
      BY <2>6, <3>2 DEF ResetReturns, NoReset
    <3> QED BY <1>0, <2>6, <3>1, <3>3 DEF ResetReturns, OrderTypeOK, latchVars
  <2> QED BY <1>4, <2>3, <2>4, <2>5, <2>6
<1> QED BY <1>1, <1>2, <1>3, <1>4 DEF Transition

\* The halt of the tenant.
LEMMA TypeToggled ==
    ASSUME TypeOK, Toggled, UNCHANGED switchVars
    PROVE  TypeOK'
<1> USE DEF TypeOK, ProcessTypeOK, HaltTypeOK
<1> DEFINE ToggleStates == [at : {"idle", "writing"}, proc : Processes \cup {None},
                            active : BOOLEAN, previous : BOOLEAN]
<1>0. SwitchTypeOK' BY DEF SwitchTypeOK, switchVars, latchVars
<1>1. ASSUME NEW u \in Toggles, NEW p \in Processes, NEW active \in BOOLEAN, SetHalt(u, p, active)
      PROVE  TypeOK'
  BY <1>0, <1>1 DEF SetHalt, OrderTypeOK, processVars
<1>2. ASSUME NEW u \in Toggles, HaltPersists(u) \/ HaltHasNoStore(u) \/ HaltFails(u)
      PROVE  TypeOK'
  <2>1. toggle[u] \in ToggleStates /\ toggle[u].at # "idle"
    BY <1>2 DEF HaltPersists, HaltHasNoStore, HaltFails
  <2>2. toggle[u].proc \in Processes /\ toggle[u].active \in BOOLEAN /\ toggle[u].previous \in BOOLEAN
    BY <2>1
  <2>3. NoToggle \in ToggleStates BY DEF NoToggle
  <2>4. toggle' = [toggle EXCEPT ![u] = NoToggle] BY <1>2 DEF HaltPersists, HaltHasNoStore, HaltFails
  <2>5. /\ toggle' \in [Toggles -> ToggleStates]
        /\ \A x \in Toggles : toggle'[x].at # "idle" => toggle'[x].proc # None
    BY <2>3, <2>4 DEF NoToggle
  <2>6. order' \in {order, SeesOff, SeesFree}
    BY <1>2 DEF HaltPersists, HaltHasNoStore, HaltFails, processVars
  <2>7. OrderTypeOK' BY <2>6, HistoryTypes
  <2>8. halt' \in BOOLEAN /\ mirror' \in [Processes -> BOOLEAN] /\ linked' = linked
    BY <1>2, <2>2 DEF HaltPersists, HaltHasNoStore, HaltFails, processVars
  <2>9. faults' \in 0..MaxFaults
    BY <1>2, <2>2, FaultTypes DEF HaltPersists, HaltHasNoStore, HaltFails, Fails, processVars
  <2> QED BY <1>0, <2>5, <2>7, <2>8, <2>9
<1> QED BY <1>1, <1>2 DEF Toggled

\* Every step keeps the state well-typed.
LEMMA TypeStep == TypeOK /\ [Next]_vars => TypeOK'
<1> SUFFICES ASSUME TypeOK, [Next]_vars PROVE TypeOK' OBVIOUS
<1> USE DEF TypeOK, ProcessTypeOK, SwitchTypeOK, HaltTypeOK
<1>1. CASE LockExpires /\ UNCHANGED haltVars
  BY <1>1 DEF LockExpires, OrderTypeOK, processVars, latchVars, haltVars
<1>2. ASSUME NEW p \in Processes, Connects(p) PROVE TypeOK'
  BY <1>2 DEF Connects, Link, OrderTypeOK, switchVars, latchVars, haltVars
<1>3. ASSUME NEW p \in Processes, ProbeIsDue(p), UNCHANGED haltVars PROVE TypeOK'
  BY <1>3 DEF ProbeIsDue, OrderTypeOK, processVars, haltVars
<1>4. ASSUME NEW p \in Processes, Restarts(p) PROVE TypeOK'
  <2>1. linked' \in [Processes -> BOOLEAN] /\ faults' \in 0..MaxFaults
    BY <1>4 DEF Restarts, Fault
  <2>2. OrderTypeOK'
    <3>1. Nowhere \in OrderStates BY DEF Nowhere, OrderStates
    <3>2. order' = [o \in Orders |-> IF order[o].proc = p THEN Nowhere ELSE order[o]]
      BY <1>4 DEF Restarts
    <3> QED BY <3>1, <3>2 DEF OrderTypeOK, Nowhere
  <2>3. /\ act' \in [Activations -> ActStates]
        /\ \A x \in Activations : act'[x].at # "idle" => act'[x].proc # None /\ act'[x].hold # None
    <3>1. NoActivation \in ActStates BY DEF NoActivation, ActStates, LockViews
    <3>2. act' = [a \in Activations |-> IF act[a].proc = p THEN NoActivation ELSE act[a]]
      BY <1>4 DEF Restarts, SwitchForgets
    <3> QED BY <3>1, <3>2 DEF NoActivation
  <2>4. /\ reset' \in [Resets -> ResetStates]
        /\ \A x \in Resets : reset'[x].at # "idle" => reset'[x].proc # None
    <3>1. NoReset \in ResetStates BY DEF NoReset, ResetStates, LockViews
    <3>2. reset' = [z \in Resets |-> IF reset[z].proc = p THEN NoReset ELSE reset[z]]
      BY <1>4 DEF Restarts, SwitchForgets
    <3> QED BY <3>1, <3>2 DEF NoReset
  <2>5. SwitchTypeOK' BY <1>4, <2>3, <2>4 DEF Restarts, SwitchForgets, SetLatch
  <2>6. HaltTypeOK' BY <1>4 DEF Restarts, HaltForgets, NoToggle
  <2> QED BY <2>1, <2>2, <2>5, <2>6
<1>5. CASE UNCHANGED vars
  BY <1>5 DEF vars, processVars, switchVars, latchVars, haltVars, OrderTypeOK
<1> QED BY <1>1, <1>2, <1>3, <1>4, <1>5, TypeCheck, TypeTransition, TypeToggled DEF Next

\* The gate, the switch and the halt are always well-typed: in particular an
\* order, a transition or a toggle that is under way has a process.
THEOREM TypeCorrect == Spec => []TypeOK
<1> QED BY TypeInit, TypeStep, PTL DEF Spec

-----------------------------------------------------------------------------
(* An order passes only while it may                                       *)

\* What an order at the gate is owed: whoever lives to see the switch off, or
\* a process that is about to learn of it, has seen it off; a latch lifted in
\* front of a waiting order was lifted by such a process; from is_halted on an
\* order has seen the switch off, and its process has a connection to ask over.
OrderInv(o) ==
    /\ ~switch \/ OffOnItsWay(order[o].proc) => order[o].off
    /\ order[o].at = "queued" /\ ~latch[order[o].proc] /\ ~last[order[o].proc] =>
         order[o].off /\ linked[order[o].proc]
    /\ order[o].at \in {"asking", "told", "passed"} => order[o].off
    /\ order[o].at = "asking" => linked[order[o].proc]
    /\ ~halt => order[o].free
    /\ order[o].at = "told" /\ ~order[o].saw => order[o].free
    /\ order[o].at = "passed" => order[o].free

GateInv ==
    /\ \A o \in Orders : order[o].at # "idle" => OrderInv(o)
    /\ \A p \in Processes : OffOnItsWay(p) => linked[p]

\* Nobody is at the gate at first.
LEMMA GateInit == Init => GateInv
BY DEF Init, ProcessInit, SwitchInit, HaltInit, GateInv, OffOnItsWay, Nowhere, NoReset

\* An order that is told no new off moves on to r: what r needs, and what the
\* orders that wait behind a latch need, is enough.
LEMMA GateMove ==
    ASSUME TypeOK, GateInv, NEW o \in Orders, order[o].at # "idle",
           NEW r \in OrderStates, order' = [order EXCEPT ![o] = r],
           UNCHANGED <<linked, switch, halt, reset>>,
           r.at \notin {"queued", "answered", "probed"},
           r.at # "idle" => /\ r.proc = order[o].proc /\ r.off = order[o].off /\ r.free = order[o].free
                            /\ r.at \in {"asking", "told", "passed"} => r.off
                            /\ r.at = "asking" => linked[r.proc]
                            /\ r.at = "passed" \/ (r.at = "told" /\ ~r.saw) => r.free,
           r.at = "idle" => r.proc = None,
           \A x \in Orders : order[x].at = "queued" /\ ~latch'[order[x].proc] /\ ~last'[order[x].proc]
                                => order[x].off /\ linked[order[x].proc]
    PROVE  GateInv'
<1> USE DEF TypeOK, ProcessTypeOK, OrderTypeOK
<1>1. \A x \in Orders : order'[x] = IF x = o THEN r ELSE order[x] OBVIOUS
<1>2. ASSUME NEW p \in Processes, OffOnItsWay(p)' PROVE OffOnItsWay(p)
  BY <1>1, <1>2 DEF OffOnItsWay
<1>3. \A p \in Processes : OffOnItsWay(p)' => linked'[p] BY <1>2 DEF GateInv
<1>4. ASSUME NEW x \in Orders, order'[x].at # "idle" PROVE OrderInv(x)'
  <2>1. order'[x].proc \in Processes /\ order'[x].proc = order[x].proc /\ order[x].at # "idle"
        /\ order'[x].off = order[x].off /\ order'[x].free = order[x].free
    BY <1>1, <1>4 DEF OrderStates
  <2>2. OrderInv(x) BY <2>1 DEF GateInv
  <2>3. CASE x = o BY <1>1, <1>2, <2>1, <2>2, <2>3 DEF OrderInv
  <2>4. CASE x # o BY <1>1, <1>2, <2>1, <2>2, <2>4 DEF OrderInv
  <2> QED BY <2>3, <2>4
<1> QED BY <1>3, <1>4 DEF GateInv

\* Checks and arrivals.
LEMMA GateCheck ==
    ASSUME TypeOK, GateInv, NEW o \in Orders, Check(o) \/ \E p \in Processes : Arrives(o, p)
    PROVE  GateInv'
<1> USE DEF Here
<1>0. /\ order[o] \in OrderStates /\ order[o].saw \in BOOLEAN
      /\ Nowhere \in OrderStates /\ Nowhere.at = "idle" /\ Nowhere.proc = None
      /\ order[o].at # "idle" => order[o].proc \in Processes /\ OrderInv(o)
  BY DEF TypeOK, ProcessTypeOK, OrderTypeOK, OrderStates, Nowhere, GateInv
<1>m. ASSUME NEW place \in {"asking", "passed", "told"}, NEW v \in BOOLEAN
      PROVE  [order[o] EXCEPT !.at = place, !.saw = v] \in OrderStates
  BY <1>0 DEF OrderStates, Asking, Told
<1>w. ASSUME NEW place \in {"asking", "passed"}, Waits(o, place)
      PROVE  order' = [order EXCEPT ![o] = [order[o] EXCEPT !.at = place, !.saw = order[o].saw]]
  <2>1. [order[o] EXCEPT !.at = place, !.saw = order[o].saw] = [order[o] EXCEPT !.at = place]
    BY <1>0 DEF OrderStates
  <2> QED BY <1>w, <2>1 DEF Waits, TypeOK, ProcessTypeOK, OrderTypeOK
<1>q. ASSUME NEW x \in Orders, order[x].at = "queued", ~latch[order[x].proc], ~last[order[x].proc]
      PROVE  order[x].off /\ linked[order[x].proc]
  BY <1>q DEF GateInv, OrderInv
<1>l. ASSUME Leaves(o), order[o].at # "idle", UNCHANGED <<linked, switch, halt, reset>>,
             \A x \in Orders : order[x].at = "queued" /\ ~latch'[order[x].proc] /\ ~last'[order[x].proc]
                                => order[x].off /\ linked[order[x].proc]
      PROVE  GateInv'
  BY <1>0, <1>l, GateMove DEF Leaves
<1>n. ASSUME IsActiveSaysNo(o), order[o].at # "idle", UNCHANGED <<linked, switch, halt, reset>>,
             order[o].off, linked[order[o].proc],
             \A x \in Orders : order[x].at = "queued" /\ ~latch'[order[x].proc] /\ ~last'[order[x].proc]
                                => order[x].off /\ linked[order[x].proc]
      PROVE  GateInv'
  <2>1. CASE Leaves(o) BY <1>l, <1>n, <2>1
  <2>2. CASE Waits(o, "asking")
    <3> DEFINE r == [order[o] EXCEPT !.at = "asking", !.saw = order[o].saw]
    <3>1. r \in OrderStates /\ order' = [order EXCEPT ![o] = r] BY <1>0, <1>m, <1>w, <2>2
    <3>2. r.at = "asking" /\ r.proc = order[o].proc /\ r.off = order[o].off /\ r.free = order[o].free
      BY <1>0 DEF OrderStates
    <3> HIDE DEF r
    <3> QED BY <1>n, <3>1, <3>2, GateMove
  <2> QED BY <1>n, <2>1, <2>2 DEF IsActiveSaysNo
<1>1. CASE TakesProbeLock(o)
  <2>1. order[o].at = "queued" /\ UNCHANGED <<linked, switch, halt, reset, latch, last>>
    BY <1>1 DEF TakesProbeLock, switchVars, latchVars, haltVars
  <2>2. CASE Waits(o, "probing")
    BY <1>0, <2>1, <2>2 DEF Waits, GateInv, OrderInv, OffOnItsWay, TypeOK, ProcessTypeOK, OrderTypeOK
  <2>3. CASE Leaves(o) BY <1>l, <1>q, <2>1, <2>3
  <2>4. CASE ~latch[order[o].proc] /\ ~last[order[o].proc] /\ IsActiveSaysNo(o)
    BY <1>n, <1>q, <2>1, <2>4
  <2> QED BY <1>1, <2>2, <2>3, <2>4 DEF TakesProbeLock
<1>2. CASE ReadsSwitch(o)
  BY <1>2 DEF ReadsSwitch, Answers, IsTold, OffOnItsWay, switchVars, latchVars, haltVars,
              TypeOK, ProcessTypeOK, OrderTypeOK, OrderStates, SwitchTypeOK, GateInv, OrderInv
<1>3. CASE CannotReadSwitch(o)
  <2>1. \A p \in Processes : latch'[p] = latch[p] \/ last'[p]
    BY <1>3 DEF CannotReadSwitch, TypeOK, SwitchTypeOK
  <2>2. order[o].at # "idle" /\ Leaves(o) /\ UNCHANGED <<linked, switch, halt, reset>>
        /\ \A p \in Processes : last'[p] = last[p] \/ last'[p]
    BY <1>3 DEF CannotReadSwitch, haltVars, TypeOK, SwitchTypeOK
  <2>3. \A x \in Orders : order[x].at = "queued" => order[x].proc \in Processes
    BY DEF TypeOK, ProcessTypeOK, OrderTypeOK, OrderStates
  <2> QED BY <1>l, <1>q, <2>1, <2>2, <2>3
<1>4. CASE IsActiveDecides(o)
  <2>1. order[o].at \in {"answered", "probed"} /\ UNCHANGED <<linked, switch, halt, reset>>
    BY <1>4 DEF IsActiveDecides, haltVars
  <2>2. \A p \in Processes : p # order[o].proc => latch'[p] = latch[p] /\ last'[p] = last[p]
    BY <1>4 DEF IsActiveDecides, TypeOK, SwitchTypeOK
  <2>3. \A x \in Orders : order[x].at = "queued" => order[x].proc \in Processes /\ OrderInv(x)
    BY DEF TypeOK, ProcessTypeOK, OrderTypeOK, OrderStates, GateInv
  <2>4. CASE order[o].saw
    <3>1. Leaves(o) /\ last'[order[o].proc]
      BY <1>0, <1>4, <2>1, <2>4 DEF IsActiveDecides, TypeOK, SwitchTypeOK
    <3> QED BY <1>l, <1>q, <2>1, <2>2, <2>3, <3>1
  <2>5. CASE ~order[o].saw
    <3>1. OffOnItsWay(order[o].proc) BY <2>1, <2>5 DEF OffOnItsWay
    <3>2. linked[order[o].proc] /\ order[o].off BY <1>0, <2>1, <3>1 DEF GateInv, OrderInv
    <3>3. \A x \in Orders : order[x].at = "queued" /\ order[x].proc = order[o].proc => order[x].off
      BY <2>3, <3>1 DEF OrderInv
    <3>4. IsActiveSaysNo(o) BY <1>4, <2>5 DEF IsActiveDecides
    <3> QED BY <1>n, <1>q, <2>1, <2>2, <2>3, <3>2, <3>3, <3>4
  <2> QED BY <2>4, <2>5
<1>5. CASE ReadsHalt(o)
  <2>1. order[o].at = "asking" /\ UNCHANGED <<linked, switch, halt, reset, latch, last>>
    BY <1>5 DEF ReadsHalt, switchVars, latchVars, haltVars
  <2>2. IsTold(o, "told", halt) /\ linked[order[o].proc] /\ order[o].off
    BY <1>0, <1>5, <2>1 DEF ReadsHalt, OrderInv
  <2> DEFINE r == [order[o] EXCEPT !.at = "told", !.saw = halt]
  <2>3. r \in OrderStates /\ order' = [order EXCEPT ![o] = r]
    BY <1>m, <2>2 DEF IsTold, TypeOK, HaltTypeOK, ProcessTypeOK, OrderTypeOK
  <2>4. r.at = "told" /\ r.saw = halt /\ r.proc = order[o].proc /\ r.off = order[o].off /\ r.free = order[o].free
    BY <1>0 DEF OrderStates
  <2>5. ~halt => order[o].free BY <1>0, <2>1 DEF OrderInv
  <2> HIDE DEF r
  <2> QED BY <1>q, <2>1, <2>2, <2>3, <2>4, <2>5, GateMove
<1>6. CASE CannotReadHalt(o)
  BY <1>6, <1>l, <1>q DEF CannotReadHalt, switchVars, latchVars, haltVars
<1>7. CASE IsHaltedDecides(o)
  <2>1. order[o].at = "told" /\ UNCHANGED <<linked, switch, halt, reset, latch, last>>
    BY <1>7 DEF IsHaltedDecides, switchVars, latchVars
  <2>2. CASE order[o].saw BY <1>7, <1>l, <1>q, <2>1, <2>2 DEF IsHaltedDecides
  <2>3. CASE ~order[o].saw
    <3> DEFINE r == [order[o] EXCEPT !.at = "passed", !.saw = order[o].saw]
    <3>1. r \in OrderStates /\ order' = [order EXCEPT ![o] = r]
      BY <1>0, <1>m, <1>w, <1>7, <2>3 DEF IsHaltedDecides
    <3>2. r.at = "passed" /\ r.proc = order[o].proc /\ r.off = order[o].off /\ r.free = order[o].free
      BY <1>0 DEF OrderStates
    <3>3. order[o].off /\ order[o].free BY <1>0, <2>1, <2>3 DEF OrderInv
    <3> HIDE DEF r
    <3> QED BY <1>q, <2>1, <3>1, <3>2, <3>3, GateMove
  <2> QED BY <2>2, <2>3
<1>8. CASE GoesOn(o)
  BY <1>8, <1>l, <1>q DEF GoesOn, switchVars, latchVars, haltVars
<1>9. CASE \E p \in Processes : Arrives(o, p)
  <2>1. PICK p \in Processes : Arrives(o, p) BY <1>9
  <2>2. /\ UNCHANGED <<linked, switch, halt, reset, latch, last>>
        /\ order[o].at = "idle"
        /\ \A x \in Orders \ {o} : order'[x] = order[x]
        /\ order'[o].proc = p /\ order'[o].at \in {"queued", "reading"}
        /\ order'[o].at = "queued" => latch[p]
        /\ ~switch \/ OffOnItsWay(p) => order'[o].off
        /\ ~halt => order'[o].free
    BY <2>1 DEF Arrives, switchVars, latchVars, haltVars, TypeOK, ProcessTypeOK, OrderTypeOK
  <2>3. \A q \in Processes : OffOnItsWay(q)' => OffOnItsWay(q)
    BY <2>2 DEF OffOnItsWay
  <2>4. OrderInv(o)' BY <2>2, <2>3 DEF OrderInv
  <2>5. ASSUME NEW x \in Orders \ {o}, order'[x].at # "idle" PROVE OrderInv(x)'
    <3>1. OrderInv(x) /\ order[x].proc \in Processes
      BY <2>2, <2>5 DEF GateInv, TypeOK, ProcessTypeOK, OrderTypeOK, OrderStates
    <3> QED BY <2>2, <2>3, <3>1 DEF OrderInv
  <2> QED BY <2>2, <2>3, <2>4, <2>5 DEF GateInv
<1> QED BY <1>1, <1>2, <1>3, <1>4, <1>5, <1>6, <1>7, <1>8, <1>9 DEF Check

\* A transition that neither turns the switch off nor lifts a latch, and gets
\* no reset past its SET, is none of the orders' business.
LEMMA GateSteady ==
    ASSUME TypeOK, GateInv, UNCHANGED <<linked, order>>,
           switch' \/ switch' = switch, halt' \/ halt' = halt,
           \A p \in Processes : latch'[p] \/ last'[p] \/ (latch'[p] = latch[p] /\ last'[p] = last[p]),
           \A z \in Resets : reset'[z].at = "cleared" => reset[z].at = "cleared" /\ reset'[z].proc = reset[z].proc
    PROVE  GateInv'
<1>1. \A p \in Processes : OffOnItsWay(p)' => OffOnItsWay(p) BY DEF OffOnItsWay
<1>2. ASSUME NEW x \in Orders, order'[x].at # "idle" PROVE OrderInv(x)'
  <2>1. OrderInv(x) /\ order[x].proc \in Processes
    BY <1>2 DEF GateInv, TypeOK, ProcessTypeOK, OrderTypeOK, OrderStates
  <2> QED BY <1>1, <2>1 DEF OrderInv
<1> QED BY <1>1, <1>2 DEF GateInv

\* Transitions of the switch: only a reset's SET and its clearing of the latch
\* matter.
LEMMA GateTransition ==
    ASSUME TypeOK, GateInv, Transition, UNCHANGED haltVars
    PROVE  GateInv'
<1> USE DEF haltVars
<1>t. /\ reset \in [Resets -> ResetStates] /\ latch \in [Processes -> BOOLEAN]
      /\ last \in [Processes -> BOOLEAN] /\ order \in [Orders -> OrderStates] /\ switch \in BOOLEAN
  BY DEF TypeOK, SwitchTypeOK, ProcessTypeOK, OrderTypeOK
<1>1. ASSUME NEW a \in Activations, NEW p \in Processes, NEW h \in Triggers, Activates(a, p, h)
      PROVE  GateInv'
  <2>1. UNCHANGED <<linked, order, switch, halt, reset>> /\ latch' = [latch EXCEPT ![p] = TRUE]
        /\ last' = [last EXCEPT ![p] = TRUE]
    BY <1>1 DEF Activates, SetLatch
  <2> QED BY <1>t, <2>1, GateSteady
<1>2. ASSUME NEW a \in Activations, Engages(a) \/ Registers(a) \/ ActivateReturns(a)
      PROVE  GateInv'
  <2>1. UNCHANGED <<linked, order, halt, reset, latch, last>> /\ (switch' \/ switch' = switch)
    BY <1>2 DEF Engages, Registers, ActivateReturns, MaybeDone, latchVars
  <2> QED BY <2>1, GateSteady
<1>3. ASSUME NEW z \in Resets, NEW p \in Processes, NEW told \in SUBSET Triggers, ResetBegins(z, p, told)
      PROVE  GateInv'
  <2>1. UNCHANGED <<linked, order, switch, halt, latch, last>> BY <1>3 DEF ResetBegins, latchVars
  <2>2. \A y \in Resets : reset'[y].at = "cleared" => reset'[y] = reset[y]
    BY <1>t, <1>3 DEF ResetBegins
  <2> QED BY <2>1, <2>2, GateSteady
<1>4. ASSUME NEW z \in Resets, Reviews(z) \/ ResetReturns(z) PROVE GateInv'
  <2>1. UNCHANGED <<linked, order, switch, halt, latch, last>> BY <1>4 DEF Reviews, ResetReturns, latchVars
  <2>2. \A y \in Resets : reset'[y].at = "cleared" => reset'[y] = reset[y]
    <3>1. NoReset.at = "idle" BY DEF NoReset
    <3>2. CASE Reviews(z)
      <4>1. reset'[z].at # "cleared" /\ \A y \in Resets \ {z} : reset'[y] = reset[y]
        BY <1>t, <3>2 DEF Reviews, ResetStates
      <4> QED BY <4>1
    <3>3. CASE ResetReturns(z) BY <1>t, <3>1, <3>3 DEF ResetReturns
    <3> QED BY <1>4, <3>2, <3>3
  <2> QED BY <2>1, <2>2, GateSteady
<1>5. ASSUME NEW z \in Resets, Clears(z) PROVE GateInv'
  <2>1. UNCHANGED <<linked, halt, latch, last>> BY <1>5 DEF Clears, latchVars
  <2>2. /\ \A y \in Resets : reset'[y].at = "cleared" => y = z \/ reset'[y] = reset[y]
        /\ reset'[z].proc = reset[z].proc /\ reset[z].proc \in Processes
        /\ reset'[z].at = "cleared" => linked[reset[z].proc] /\ ~switch'
    <3>1. PICK at \in {"cleared", "leaving"} :
            /\ reset' = [reset EXCEPT ![z].at = at]
            /\ at = "cleared" => linked[reset[z].proc] /\ ~switch'
      BY <1>5 DEF Clears, Answers
    <3>2. reset[z].at = "reviewed" /\ reset[z] \in ResetStates BY <1>t, <1>5 DEF Clears
    <3>3. reset[z].proc \in Processes BY <3>2 DEF TypeOK, SwitchTypeOK, ResetStates
    <3>4. reset'[z].at = at /\ reset'[z].proc = reset[z].proc BY <1>t, <3>1, <3>2 DEF ResetStates
    <3>5. \A y \in Resets \ {z} : reset'[y] = reset[y] BY <1>t, <3>1
    <3> QED BY <3>1, <3>3, <3>4, <3>5
  <2>3. CASE switch'
    <3>1. switch' = switch /\ order' = order /\ reset'[z].at # "cleared"
      BY <1>t, <1>5, <2>2, <2>3 DEF Clears, MaybeDone
    <3> QED BY <2>1, <2>2, <3>1, GateSteady
  <2>4. CASE ~switch'
    <3>1. order' = SeesOff BY <1>5, <2>4 DEF Clears
    <3>2. ASSUME NEW x \in Orders
          PROVE  /\ order'[x].at = order[x].at /\ order'[x].proc = order[x].proc
                 /\ order'[x].saw = order[x].saw /\ order'[x].free = order[x].free
                 /\ order[x].at # "idle" => order'[x].off
      BY <1>t, <3>1 DEF SeesOff, OrderStates
    <3>3. ASSUME NEW p \in Processes, OffOnItsWay(p)' PROVE linked[p]
      BY <2>2, <3>2, <3>3 DEF OffOnItsWay, GateInv
    <3>4. ASSUME NEW x \in Orders, order'[x].at # "idle" PROVE OrderInv(x)'
      <4>1. OrderInv(x) BY <3>2, <3>4 DEF GateInv
      <4> QED BY <2>1, <3>2, <3>4, <4>1 DEF OrderInv
    <3> QED BY <2>1, <3>3, <3>4 DEF GateInv
  <2> QED BY <2>3, <2>4
<1>6. ASSUME NEW z \in Resets, Releases(z) PROVE GateInv'
  <2> DEFINE p == reset[z].proc
  <2>1. /\ UNCHANGED <<linked, order, switch, halt>> /\ p \in Processes /\ OffOnItsWay(p)
        /\ \A q \in Processes \ {p} : latch'[q] = latch[q] /\ last'[q] = last[q]
    BY <1>t, <1>6 DEF Releases, SetLatch, OffOnItsWay, ResetStates, TypeOK, SwitchTypeOK
  <2>2. \A y \in Resets : reset'[y].at = "cleared" => reset'[y] = reset[y]
    BY <1>t, <1>6 DEF Releases
  <2>3. \A q \in Processes : OffOnItsWay(q)' => OffOnItsWay(q) BY <2>1, <2>2 DEF OffOnItsWay
  <2>4. ASSUME NEW x \in Orders, order'[x].at # "idle" PROVE OrderInv(x)'
    <3>1. OrderInv(x) /\ order[x].proc \in Processes
      BY <1>t, <2>1, <2>4 DEF GateInv, TypeOK, ProcessTypeOK, OrderTypeOK, OrderStates
    <3>2. linked[p] BY <2>1 DEF GateInv
    <3> QED BY <2>1, <2>3, <3>1, <3>2 DEF OrderInv
  <2> QED BY <2>1, <2>3, <2>4 DEF GateInv
<1> QED BY <1>1, <1>2, <1>3, <1>4, <1>5, <1>6 DEF Transition

\* Every step keeps it.
LEMMA GateStep == TypeOK /\ GateInv /\ [Next]_vars => GateInv'
<1> SUFFICES ASSUME TypeOK, GateInv, [Next]_vars PROVE GateInv' OBVIOUS
<1>1. CASE LockExpires /\ UNCHANGED haltVars
  BY <1>1, GateSteady DEF LockExpires, processVars, latchVars, haltVars
<1>2. ASSUME NEW p \in Processes, ProbeIsDue(p), UNCHANGED haltVars PROVE GateInv'
  BY <1>2, GateSteady DEF ProbeIsDue, processVars, haltVars
<1>3. CASE UNCHANGED vars
  BY <1>3, GateSteady DEF vars, processVars, switchVars, latchVars, haltVars
<1>4. ASSUME Toggled, UNCHANGED switchVars PROVE GateInv'
  <2>1. UNCHANGED <<linked, switch, latch, last, reset>> /\ halt' \in BOOLEAN
        /\ \/ order' = order /\ (halt' \/ halt' = halt)
           \/ order' = SeesFree
    BY <1>4 DEF Toggled, SetHalt, HaltPersists, HaltHasNoStore, HaltFails, switchVars, latchVars,
                processVars, TypeOK, HaltTypeOK
  <2>2. CASE order' = order /\ (halt' \/ halt' = halt) BY <2>1, <2>2, GateSteady
  <2>3. CASE order' = SeesFree
    <3>1. ASSUME NEW x \in Orders
          PROVE  /\ order'[x].at = order[x].at /\ order'[x].proc = order[x].proc
                 /\ order'[x].saw = order[x].saw /\ order'[x].off = order[x].off
                 /\ order[x].at # "idle" => order'[x].free
      BY <2>3 DEF SeesFree, TypeOK, ProcessTypeOK, OrderTypeOK, OrderStates
    <3>2. \A p \in Processes : OffOnItsWay(p)' => OffOnItsWay(p) BY <2>1, <3>1 DEF OffOnItsWay
    <3>3. ASSUME NEW x \in Orders, order'[x].at # "idle" PROVE OrderInv(x)'
      <4>1. OrderInv(x) /\ order[x].proc \in Processes
        BY <3>1, <3>3 DEF GateInv, TypeOK, ProcessTypeOK, OrderTypeOK, OrderStates
      <4> QED BY <2>1, <3>1, <3>2, <3>3, <4>1 DEF OrderInv
    <3> QED BY <2>1, <3>2, <3>3 DEF GateInv
  <2> QED BY <2>1, <2>2, <2>3
<1>5. ASSUME NEW p \in Processes, Connects(p) PROVE GateInv'
  <2>1. /\ UNCHANGED <<order, switch, halt, latch, last, reset>>
        /\ \A q \in Processes : linked[q] => linked'[q]
    BY <1>5 DEF Connects, Link, switchVars, latchVars, haltVars, TypeOK, ProcessTypeOK
  <2>2. \A q \in Processes : OffOnItsWay(q)' => OffOnItsWay(q) BY <2>1 DEF OffOnItsWay
  <2>3. ASSUME NEW x \in Orders, order'[x].at # "idle" PROVE OrderInv(x)'
    <3>1. OrderInv(x) /\ order[x].proc \in Processes
      BY <2>1, <2>3 DEF GateInv, TypeOK, ProcessTypeOK, OrderTypeOK, OrderStates
    <3> QED BY <2>1, <2>2, <3>1 DEF OrderInv
  <2> QED BY <2>1, <2>2, <2>3 DEF GateInv
<1>6. ASSUME NEW p \in Processes, Restarts(p) PROVE GateInv'
  <2>1. /\ UNCHANGED <<switch, halt>>
        /\ \A q \in Processes \ {p} : linked'[q] = linked[q] /\ latch'[q] = latch[q] /\ last'[q] = last[q]
        /\ \A x \in Orders : order'[x] = IF order[x].proc = p THEN Nowhere ELSE order[x]
        /\ \A y \in Resets : reset'[y] = IF reset[y].proc = p THEN NoReset ELSE reset[y]
    BY <1>6 DEF Restarts, SwitchForgets, HaltForgets, SetLatch, TypeOK, SwitchTypeOK, ProcessTypeOK
  <2>2. ASSUME NEW q \in Processes, OffOnItsWay(q)' PROVE q # p /\ OffOnItsWay(q)
    <3>1. Nowhere.at = "idle" /\ NoReset.at = "idle" BY DEF Nowhere, NoReset
    <3> QED BY <2>1, <2>2, <3>1 DEF OffOnItsWay
  <2>3. ASSUME NEW x \in Orders, order'[x].at # "idle" PROVE OrderInv(x)'
    <3>1. order'[x] = order[x] /\ order[x].proc # p BY <2>1, <2>3 DEF Nowhere
    <3>2. OrderInv(x) /\ order[x].proc \in Processes
      BY <2>3, <3>1 DEF GateInv, TypeOK, ProcessTypeOK, OrderTypeOK, OrderStates
    <3> QED BY <2>1, <2>2, <3>1, <3>2 DEF OrderInv
  <2> QED BY <2>1, <2>2, <2>3 DEF GateInv
<1> QED BY <1>1, <1>2, <1>3, <1>4, <1>5, <1>6, GateCheck, GateTransition DEF Next

\* An order passes only if the switch was off and its tenant free while it was
\* at the gate: whatever fails, restarts or overlaps, and whoever holds the
\* transition lock.
THEOREM OrdersPassAllowed == Spec => []PassedWhileAllowed
<1>1. GateInv => PassedWhileAllowed BY DEF GateInv, OrderInv, PassedWhileAllowed
<1> QED BY <1>1, GateInit, GateStep, TypeCorrect, PTL DEF Spec

-----------------------------------------------------------------------------
(* A halt nobody reviewed stands                                           *)

(* The lock excludes: what believes it has the lock has it, and a reset    *)
(* under way always believes so. Then nothing clears the switch between an *)
(* activation's SET and its SADD, a reset that has read the holds has read *)
(* the standing ones, and one that has cleared the switch left none.       *)
LockInv ==
    /\ \A c \in Calls : LockView(c) \in {"none", "taken"} /\ (LockView(c) = "taken" => lock = c)
    /\ \A z \in Resets : reset[z].at # "idle" => reset[z].lock = "taken"

HoldInv ==
    /\ standing # {} => switch
    /\ standing \subseteq holds
    /\ \A a \in Activations : act[a].at = "engaged" /\ act[a].ok /\ act[a].lock = "taken" => switch
    /\ \A z \in Resets :
         /\ reset[z].at = "reviewed" => standing \subseteq reset[z].read
         /\ reset[z].at = "cleared" => standing \cap reset[z].read = {}

\* The lock is passed on only by the call that has it.
LEMMA LockStep ==
    ASSUME Punctual, LockAnswers, TypeOK, LockInv, [Next]_vars
    PROVE  LockInv'
<1>t. act \in [Activations -> ActStates] /\ reset \in [Resets -> ResetStates]
  BY DEF TypeOK, SwitchTypeOK
<1>s. ASSUME UNCHANGED <<lock, act, reset>> PROVE LockInv'
  BY <1>s DEF LockInv, LockView
<1>1. ASSUME NEW a \in Activations, NEW p \in Processes, NEW h \in Triggers, Activates(a, p, h)
      PROVE  LockInv'
  BY <1>t, <1>1 DEF Activates, TryLock, LockInv, LockView, ActStates
<1>2. ASSUME NEW a \in Activations, Engages(a) \/ Registers(a) PROVE LockInv'
  <2>1. UNCHANGED <<lock, reset>> /\ \A b \in Activations : act'[b].lock = act[b].lock
    <3>1. act[a] \in ActStates /\ UNCHANGED <<lock, reset>> BY <1>t, <1>2 DEF Engages, Registers
    <3>2. CASE act' = [act EXCEPT ![a].at = "engaged"] \/ act' = [act EXCEPT ![a].at = "held"]
      BY <1>t, <3>1, <3>2 DEF ActStates
    <3>3. CASE act' = [act EXCEPT ![a].at = "engaged", ![a].ok = FALSE] BY <1>t, <3>1, <3>3 DEF ActStates
    <3> QED BY <1>2, <3>1, <3>2, <3>3 DEF Engages, Registers
  <2> QED BY <2>1 DEF LockInv, LockView
<1>3. ASSUME NEW a \in Activations, ActivateReturns(a) PROVE LockInv'
  <2>1. act'[a].lock = "none" /\ UNCHANGED reset /\ \A b \in Activations \ {a} : act'[b] = act[b]
    BY <1>t, <1>3 DEF ActivateReturns, NoActivation
  <2>2. CASE act[a].lock = "none" BY <1>3, <2>1, <2>2 DEF ActivateReturns, LockInv, LockView
  <2>3. CASE act[a].lock # "none"
    <3>1. act[a].lock = "taken" /\ lock = a BY <2>3 DEF LockInv, LockView
    <3>2. \A c \in Calls \ {a} : LockView(c) = "none" BY <3>1 DEF LockInv
    <3> QED BY <2>1, <3>1, <3>2 DEF LockInv, LockView
  <2> QED BY <2>2, <2>3
<1>4. ASSUME NEW z \in Resets, NEW p \in Processes, NEW told \in SUBSET Triggers, ResetBegins(z, p, told)
      PROVE  LockInv'
  BY <1>t, <1>4 DEF ResetBegins, TryLock, LockInv, LockView, ResetStates, LockViews
<1>5. ASSUME NEW z \in Resets, Reviews(z) \/ Clears(z) \/ Releases(z) PROVE LockInv'
  <2>1. UNCHANGED <<lock, act>> /\ reset[z].at # "idle" /\ reset'[z].lock = reset[z].lock
        /\ \A y \in Resets \ {z} : reset'[y] = reset[y]
    <3>1. reset[z] \in ResetStates /\ UNCHANGED <<lock, act>> /\ reset[z].at # "idle"
      BY <1>t, <1>5 DEF Reviews, Clears, Releases
    <3>2. ASSUME NEW v \in {"leaving", "cleared"}, reset' = [reset EXCEPT ![z].at = v]
          PROVE  reset'[z].lock = reset[z].lock /\ \A y \in Resets \ {z} : reset'[y] = reset[y]
      BY <1>t, <3>1, <3>2 DEF ResetStates
    <3>3. CASE reset' = [reset EXCEPT ![z].at = "reviewed", ![z].read = holds]
      BY <1>t, <3>1, <3>3 DEF ResetStates
    <3> QED BY <1>5, <3>1, <3>2, <3>3 DEF Reviews, Clears, Releases
  <2> QED BY <2>1 DEF LockInv, LockView
<1>6. ASSUME NEW z \in Resets, ResetReturns(z) PROVE LockInv'
  <2>1. reset'[z].lock = "none" /\ reset'[z].at = "idle" /\ UNCHANGED act
        /\ \A y \in Resets \ {z} : reset'[y] = reset[y]
    BY <1>t, <1>6 DEF ResetReturns, NoReset
  <2>2. reset[z].lock = "taken" /\ lock = z BY <1>6 DEF ResetReturns, LockInv, LockView
  <2>3. \A c \in Calls \ {z} : LockView(c) = "none" BY <2>2 DEF LockInv
  <2> QED BY <2>1, <2>3 DEF LockInv, LockView
<1>7. CASE LockExpires
  <2>1. LockView(lock) # "taken" /\ lock \in Calls /\ UNCHANGED <<act, reset>>
    BY <1>7 DEF LockExpires, TypeOK, SwitchTypeOK
  <2>2. \A c \in Calls : LockView(c) = "none" BY <2>1 DEF LockInv
  <2> QED BY <2>1, <2>2 DEF LockInv, LockView
<1>8. ASSUME NEW p \in Processes, Restarts(p) PROVE LockInv'
  <2>1. /\ lock' = lock
        /\ act' = [a \in Activations |-> IF act[a].proc = p THEN NoActivation ELSE act[a]]
        /\ reset' = [z \in Resets |-> IF reset[z].proc = p THEN NoReset ELSE reset[z]]
    BY <1>8 DEF Restarts, SwitchForgets
  <2>2. NoActivation.lock = "none" /\ NoReset.lock = "none" /\ NoReset.at = "idle"
    BY DEF NoActivation, NoReset
  <2>3. ASSUME NEW c \in Calls
        PROVE  LockView(c)' = "none" \/ LockView(c)' = LockView(c)
    <3>1. CASE c \in Activations
      <4>1. act'[c] = NoActivation \/ act'[c] = act[c] BY <2>1, <3>1
      <4> QED BY <2>2, <3>1, <4>1 DEF LockView
    <3>2. CASE c \in Resets
      <4>1. reset'[c] = NoReset \/ reset'[c] = reset[c] BY <2>1, <3>2
      <4> QED BY <2>2, <3>2, <4>1 DEF LockView
    <3> QED BY <3>1, <3>2
  <2>4. ASSUME NEW z \in Resets, reset'[z].at # "idle" PROVE reset'[z].lock = "taken"
    <3>1. reset'[z] = NoReset \/ reset'[z] = reset[z] BY <2>1
    <3> QED BY <2>2, <2>4, <3>1 DEF LockInv
  <2> QED BY <2>1, <2>3, <2>4 DEF LockInv
<1>9. CASE UNCHANGED <<lock, act, reset>> BY <1>9, <1>s
<1> QED BY <1>1, <1>2, <1>3, <1>4, <1>5, <1>6, <1>7, <1>8, <1>9
    DEF Next, Transition, Check, TakesProbeLock, ReadsSwitch, CannotReadSwitch, IsActiveDecides, ReadsHalt,
        CannotReadHalt, IsHaltedDecides, GoesOn, Arrives, Connects, ProbeIsDue, vars, switchVars

\* Holding the lock, an activation and a reset, or two resets, are never under
\* way together.
LEMMA LockExcludes ==
    ASSUME LockInv, NEW z \in Resets, reset[z].at # "idle"
    PROVE  /\ \A a \in Activations : act[a].lock # "taken"
           /\ \A y \in Resets : reset[y].at # "idle" => y = z
BY DEF LockInv, LockView

\* What was written under the lock is undone only by a reset that read it.
LEMMA HoldStep ==
    ASSUME TypeOK, LockInv, HoldInv, [Next]_vars
    PROVE  HoldInv'
<1>t. act \in [Activations -> ActStates] /\ reset \in [Resets -> ResetStates] /\ switch \in BOOLEAN
  BY DEF TypeOK, SwitchTypeOK
<1>s. ASSUME UNCHANGED <<switch, holds, act, reset, standing>> PROVE HoldInv'
  BY <1>s DEF HoldInv
<1>1. ASSUME NEW a \in Activations, NEW p \in Processes, NEW h \in Triggers, Activates(a, p, h)
      PROVE  HoldInv'
  <2>1. /\ UNCHANGED <<switch, holds, reset, standing>>
        /\ act'[a].at = "latched" /\ \A b \in Activations \ {a} : act'[b] = act[b]
    BY <1>t, <1>1 DEF Activates
  <2> QED BY <2>1 DEF HoldInv
<1>2. ASSUME NEW a \in Activations, Engages(a) PROVE HoldInv'
  <2>1. UNCHANGED <<holds, reset, standing>> /\ (switch => switch')
        /\ \A b \in Activations \ {a} : act'[b] = act[b]
    BY <1>t, <1>2 DEF Engages, MaybeDone
  <2>2. act'[a].ok => switch'
    <3>1. act[a] \in ActStates BY <1>t
    <3>2. CASE act' = [act EXCEPT ![a].at = "engaged", ![a].ok = FALSE]
      BY <1>t, <3>1, <3>2 DEF ActStates
    <3> QED BY <1>2, <3>2 DEF Engages
  <2> QED BY <2>1, <2>2 DEF HoldInv
<1>3. ASSUME NEW a \in Activations, Registers(a) PROVE HoldInv'
  <2>1. /\ UNCHANGED <<switch, reset>> /\ act[a].at = "engaged"
        /\ act'[a].at = "held" /\ \A b \in Activations \ {a} : act'[b] = act[b]
    BY <1>t, <1>3 DEF Registers, ActStates
  <2>2. holds \subseteq holds' BY <1>3 DEF Registers, MaybeDone
  <2>3. CASE standing' = standing BY <2>1, <2>2, <2>3 DEF HoldInv
  <2>4. CASE standing' # standing
    <3>1. /\ act[a].ok /\ act[a].lock = "taken" /\ act[a].hold \in holds'
          /\ standing' = standing \cup {act[a].hold}
      BY <1>3, <2>4 DEF Registers
    <3>2. \A z \in Resets : reset[z].at = "idle" BY <3>1, LockExcludes
    <3> QED BY <2>1, <2>2, <3>1, <3>2 DEF HoldInv
  <2> QED BY <2>3, <2>4
<1>4. ASSUME NEW a \in Activations, ActivateReturns(a) PROVE HoldInv'
  <2>1. /\ UNCHANGED <<switch, holds, reset, standing>>
        /\ act'[a].at = "idle" /\ \A b \in Activations \ {a} : act'[b] = act[b]
    BY <1>t, <1>4 DEF ActivateReturns, NoActivation
  <2> QED BY <2>1 DEF HoldInv
<1>5. ASSUME NEW z \in Resets, NEW p \in Processes, NEW told \in SUBSET Triggers, ResetBegins(z, p, told)
      PROVE  HoldInv'
  <2>1. /\ UNCHANGED <<switch, holds, act, standing>>
        /\ reset'[z].at = "locked" /\ \A y \in Resets \ {z} : reset'[y] = reset[y]
    BY <1>t, <1>5 DEF ResetBegins
  <2> QED BY <2>1 DEF HoldInv
<1>6. ASSUME NEW z \in Resets, Reviews(z) PROVE HoldInv'
  <2>1. /\ UNCHANGED <<switch, holds, act, standing>> /\ \A y \in Resets \ {z} : reset'[y] = reset[y]
        /\ reset'[z].at = "leaving" \/ (reset'[z].at = "reviewed" /\ reset'[z].read = holds)
    <3>1. reset[z] \in ResetStates BY <1>t
    <3>2. CASE reset' = [reset EXCEPT ![z].at = "leaving"] BY <1>t, <1>6, <3>1, <3>2 DEF Reviews, ResetStates
    <3>3. CASE reset' = [reset EXCEPT ![z].at = "reviewed", ![z].read = holds]
      BY <1>t, <1>6, <3>1, <3>3 DEF Reviews, ResetStates
    <3> QED BY <1>6, <3>2, <3>3 DEF Reviews
  <2> QED BY <2>1 DEF HoldInv
<1>7. ASSUME NEW z \in Resets, Clears(z) PROVE HoldInv'
  <2>1. /\ UNCHANGED <<holds, act>> /\ reset[z].at = "reviewed" /\ standing' = standing \ reset[z].read
        /\ reset'[z].at # "reviewed" /\ \A y \in Resets \ {z} : reset'[y] = reset[y]
    <3>1. reset[z] \in ResetStates BY <1>t
    <3>2. PICK at \in {"cleared", "leaving"} : reset' = [reset EXCEPT ![z].at = at] BY <1>7 DEF Clears
    <3>3. reset'[z].at = at /\ \A y \in Resets \ {z} : reset'[y] = reset[y]
      BY <1>t, <3>1, <3>2 DEF ResetStates
    <3> QED BY <1>7, <3>3 DEF Clears
  <2>2. standing' = {} BY <2>1 DEF HoldInv
  <2>3. \A a \in Activations : act[a].lock # "taken" BY <2>1, LockExcludes
  <2> QED BY <2>1, <2>2, <2>3 DEF HoldInv
<1>8. ASSUME NEW z \in Resets, Releases(z) PROVE HoldInv'
  <2>1. /\ UNCHANGED <<switch, act, standing>> /\ reset[z].at = "cleared" /\ holds \ reset[z].read \subseteq holds'
        /\ reset'[z].at = "leaving" /\ \A y \in Resets \ {z} : reset'[y] = reset[y]
    BY <1>t, <1>8 DEF Releases, MaybeDone, ResetStates
  <2> QED BY <2>1 DEF HoldInv
<1>9. ASSUME NEW z \in Resets, ResetReturns(z) PROVE HoldInv'
  <2>1. /\ UNCHANGED <<switch, holds, act, standing>>
        /\ reset'[z].at = "idle" /\ \A y \in Resets \ {z} : reset'[y] = reset[y]
    BY <1>t, <1>9 DEF ResetReturns, NoReset
  <2> QED BY <2>1 DEF HoldInv
<1>10. ASSUME NEW p \in Processes, Restarts(p) PROVE HoldInv'
  <2>1. UNCHANGED <<switch, holds, standing>>
    BY <1>10 DEF Restarts, SwitchForgets
  <2>2. /\ act' = [a \in Activations |-> IF act[a].proc = p THEN NoActivation ELSE act[a]]
        /\ reset' = [z \in Resets |-> IF reset[z].proc = p THEN NoReset ELSE reset[z]]
    BY <1>10 DEF Restarts, SwitchForgets
  <2>3. NoActivation.at = "idle" /\ NoReset.at = "idle" BY DEF NoActivation, NoReset
  <2>4. \A a \in Activations : act'[a].at # "idle" => act'[a] = act[a] BY <2>2, <2>3
  <2>5. \A z \in Resets : reset'[z].at # "idle" => reset'[z] = reset[z] BY <2>2, <2>3
  <2> QED BY <2>1, <2>4, <2>5 DEF HoldInv
<1>11. CASE UNCHANGED <<switch, holds, act, reset, standing>> BY <1>11, <1>s
<1> QED BY <1>1, <1>2, <1>3, <1>4, <1>5, <1>6, <1>7, <1>8, <1>9, <1>10, <1>11
    DEF Next, Transition, Check, TakesProbeLock, ReadsSwitch, CannotReadSwitch, IsActiveDecides, ReadsHalt,
        CannotReadHalt, IsHaltedDecides, GoesOn, Arrives, Connects, ProbeIsDue, LockExpires, vars, switchVars

\* As long as transitions end within the TTL of their lock and the lock's own
\* call is answered, a halt written under the lock stands until a reset was
\* shown it, for any number of triggers, activations and resets.
THEOREM HaltsStandUnreviewed ==
    ASSUME Punctual, LockAnswers
    PROVE  Spec => []UnreviewedHaltStands
<1>1. Init => LockInv /\ HoldInv
  <2>1. NoActivation.lock = "none" /\ NoActivation.at = "idle" /\ NoReset.lock = "none" /\ NoReset.at = "idle"
    BY DEF NoActivation, NoReset
  <2> QED BY <2>1 DEF Init, SwitchInit, LockInv, LockView, HoldInv
<1>2. TypeOK /\ LockInv /\ [Next]_vars => LockInv' BY LockStep
<1>3. TypeOK /\ LockInv /\ HoldInv /\ [Next]_vars => HoldInv' BY HoldStep
<1>4. HoldInv => UnreviewedHaltStands BY DEF HoldInv, UnreviewedHaltStands
<1> QED BY <1>1, <1>2, <1>3, <1>4, TypeCorrect, PTL DEF Spec

=============================================================================
