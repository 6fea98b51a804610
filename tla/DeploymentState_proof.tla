------------------------- MODULE DeploymentState_proof -------------------------
(***************************************************************************)
(* Single ownership of a bot, for any number of processes, incarnations,   *)
(* deployments and stop requests, any threshold and any number of faults.  *)
(*                                                                         *)
(* Only the actions of FleetManager touch the claim, the registries and    *)
(* the bots; FleetStep is their disjunction, and every step of the rows of *)
(* DeploymentState is one of them or leaves the fleet alone.               *)
(***************************************************************************)
EXTENDS DeploymentState, TLAPS

RunnerType == [phase : Phases, at : Processes \cup {None},
               hb : Beats, cut : Nat, since : 0..Stale, popped : Runners \cup {None}]

CallType == [at : {"idle", "asked", "waiting", "stopped", "missed", "done"},
             proc : Processes \cup {None}, victim : Runners \cup {None}]

Beating(r) ==
    \/ \E seen \in BOOLEAN :
         (BeatRefreshes(r, seen) \/ BeatAnswered(r, seen)) /\ (NoFault \/ Fault)
    \/ BeatLost(r)
    \/ BeatUnreachable(r)
    \/ BeatHangs(r)

BotStep(r) ==
    \/ Boots(r) \/ BootFails(r) \/ BootGivesUp(r) \/ TradingEnds(r) \/ Closes(r)
    \/ CleanUp(r)
    \/ Reports(r) /\ (NoFault \/ Fault)

CallStep(s) ==
    \/ StopBegins(s) \/ StopMisses(s) \/ StopEnds(s)
    \/ Returned(s) /\ call[s].at \in {"stopped", "missed"} /\ UNCHANGED <<claim, fleet, runner, faults>>

CallBegins(s, p) ==
    /\ call[s].at = "idle"
    /\ call' = [call EXCEPT ![s] = [@ EXCEPT !.at = "asked", !.proc = p]]
    /\ UNCHANGED <<claim, fleet, runner, faults>>

ProcessStep(p) ==
    \/ \E r \in Runners : StartBot(p, r)
    \/ StartFails(p)
    \/ ProcessDies(p)

FleetStep ==
    \/ \E r \in Runners : BotStep(r) \/ Beating(r)
    \/ \E s \in Stoppers : CallStep(s)
    \/ \E q \in Requests, p \in Processes : CallBegins(q, p)
    \/ \E p \in Processes : ProcessStep(p)
    \/ TimePasses

-----------------------------------------------------------------------------
(* The inductive invariant                                                 *)

\* A bot that was never started has nothing; every other one has a process.
Fresh == \A r \in Runners :
    IF runner[r].phase = "fresh"
    THEN runner[r].at = None /\ runner[r].hb = "off" /\ runner[r].cut = 0 /\ claim.by # r
    ELSE runner[r].at \in Processes

\* The registry of a process holds a bot of this process whose callback has
\* not run.
Held == \A p \in Processes : fleet[p] # None =>
    /\ runner[fleet[p]].at = p
    /\ runner[fleet[p]].phase \in Active \cup {"closing", "returned", "cancelled"}

\* One bot at a time is run or taken down in a process.
Alone == \A r, s \in Runners :
    /\ runner[r].phase \in Active \cup Ending
    /\ runner[s].phase \in Active \cup Ending
    /\ runner[r].at = runner[s].at
    => r = s

\* The record a failed boot popped is its own.
Popped == \A r \in Runners :
    runner[r].phase \in {"failing", "reported"} => runner[r].popped = r

\* What stop_bot waits for is a bot that was told to end; what it was asked for
\* names a process, which is the bot's own if its heartbeat asked.
Calls ==
    /\ \A s \in Stoppers : call[s].at = "asked" => call[s].proc \in Processes
    /\ \A s \in Stoppers : call[s].at = "waiting" =>
         /\ call[s].victim \in Runners
         /\ runner[call[s].victim].phase \notin Active \cup {"fresh"}
    /\ \A r \in Runners : call[r].at = "asked" =>
         /\ runner[r].phase # "fresh"
         /\ runner[r].phase \in Active => call[r].proc = runner[r].at

\* The claim of a running bot is as old as its lost heartbeats make it, and one
\* interval older when the next one is due; the interval in which an executed
\* UPDATE is not answered is counted before it is over.
Ages == \A r \in Runners :
    runner[r].phase \in Active /\ claim.by = r =>
        /\ claim.age <= runner[r].cut + 1
        /\ runner[r].hb # "due" => claim.age <= runner[r].cut
        /\ runner[r].hb = "late" => claim.age + 1 <= runner[r].cut

IInv ==
    /\ FleetTypeOK
    /\ Fresh /\ Held /\ Alone /\ Popped /\ Calls /\ Ages
    /\ RecordedBots /\ WatchedBots /\ OwnerUnlessCutOff

-----------------------------------------------------------------------------
(* What a cancellation and the end of a heartbeat do to the bots           *)

LEMMA Constants ==
    /\ None \notin Runners /\ None \notin Requests /\ None \notin Processes
    /\ Runners \cap Requests = {}
    /\ Stale \in Nat /\ Stale >= 1
    /\ MaxFaults \in Nat
  BY FleetAssumption

LEMMA Typed ==
    ASSUME FleetTypeOK
    PROVE  /\ runner \in [Runners -> RunnerType]
           /\ call \in [Stoppers -> CallType]
           /\ \A r \in Runners : /\ runner[r].phase \in Phases
                                 /\ runner[r].at \in Processes \cup {None}
                                 /\ runner[r].hb \in Beats
                                 /\ runner[r].cut \in Nat
                                 /\ runner[r].since \in 0..Stale
                                 /\ runner[r].popped \in Runners \cup {None}
  BY DEF FleetTypeOK, RunnerType, CallType

LEMMA TypeUnfolds ==
    ASSUME FleetTypeOK
    PROVE  /\ claim.by \in Runners \cup {None} /\ claim.age \in 0..Stale
           /\ claim = [by |-> claim.by, age |-> claim.age]
           /\ fleet \in [Processes -> Runners \cup {None}]
           /\ faults \in 0..MaxFaults
           /\ Free \in [by : Runners \cup {None}, age : 0..Stale]
  BY Constants DEF FleetTypeOK, Free

LEMMA Cancelling ==
    ASSUME NEW run \in [Runners -> RunnerType], NEW v \in Runners \cup {None},
           NEW new, new \in CancelTask(run, v)
    PROVE  /\ new \in [Runners -> RunnerType]
           /\ \A r \in Runners : /\ r # v => new[r] = run[r]
                                 /\ new[r].at = run[r].at /\ new[r].hb = run[r].hb
                                 /\ new[r].cut = run[r].cut /\ new[r].popped = run[r].popped
           /\ v # None => IF run[v].phase \in Active \cup {"closing"}
                          THEN new[v].phase \in {"closing", "cancelled"}
                          ELSE new[v].phase = run[v].phase
<1>1. CASE v = None
  BY <1>1, Constants DEF CancelTask
<1>2. CASE v # None
  <2>1. PICK ph \in Cancelled(run[v].phase) : new = [run EXCEPT ![v].phase = ph]
    BY <1>2 DEF CancelTask
  <2>2. run[v].phase \in Phases
    BY <1>2 DEF RunnerType
  <2>3. IF run[v].phase \in Active \cup {"closing"}
        THEN ph \in {"closing", "cancelled"} ELSE ph = run[v].phase
    BY <2>2 DEF Cancelled, Active
  <2>4. ph \in Phases
    BY <2>2, <2>3 DEF Phases, Active, Ending
  <2> QED
    BY <1>2, <2>1, <2>3, <2>4 DEF RunnerType
<1> QED
  BY <1>1, <1>2

LEMMA Silencing ==
    ASSUME NEW run \in [Runners -> RunnerType], NEW v \in Runners \cup {None}
    PROVE  /\ StopHeartbeat(run, v) \in [Runners -> RunnerType]
           /\ \A r \in Runners :
                /\ r # v => StopHeartbeat(run, v)[r] = run[r]
                /\ StopHeartbeat(run, v)[r].phase = run[r].phase
                /\ StopHeartbeat(run, v)[r].at = run[r].at
                /\ StopHeartbeat(run, v)[r].popped = run[r].popped
           /\ v # None => /\ StopHeartbeat(run, v)[v].hb = "off"
                          /\ StopHeartbeat(run, v)[v].cut = 0
<1>1. CASE v = None
  BY <1>1, Constants DEF StopHeartbeat
<1>2. CASE v # None
  <2> DEFINE off == [run[v] EXCEPT !.hb = "off", !.cut = 0, !.since = 0]
  <2>1. StopHeartbeat(run, v) = [run EXCEPT ![v] = off]
    BY <1>2 DEF StopHeartbeat
  <2>2. run[v] \in RunnerType /\ 0 \in 0..Stale /\ 0 \in Nat /\ "off" \in Beats
    BY <1>2, Constants DEF Beats
  <2>3. /\ off \in RunnerType
        /\ off.hb = "off" /\ off.cut = 0
        /\ off.phase = run[v].phase /\ off.at = run[v].at /\ off.popped = run[v].popped
    BY <2>2, Zenon DEF RunnerType
  <2> HIDE DEF off
  <2> QED
    BY <1>2, <2>1, <2>3
<1> QED
  BY <1>1, <1>2

-----------------------------------------------------------------------------
(* Steps that take bots down: no bot begins to run, none is moved, and     *)
(* those that go on running keep heartbeat, record and claim.              *)

\* What such a step does to the bots and to the claim.
TakesDown ==
    /\ runner' \in [Runners -> RunnerType]
    /\ \A r \in Runners :
         /\ runner'[r].at = runner[r].at
         /\ runner[r].phase = "fresh" => runner'[r] = runner[r]
         /\ runner[r].phase # "fresh" => runner'[r].phase # "fresh"
         /\ runner'[r].phase \in Active \cup Ending => runner[r].phase \in Active \cup Ending
         /\ runner'[r].phase \in Active =>
              /\ runner[r].phase \in Active
              /\ runner'[r].hb = runner[r].hb /\ runner'[r].cut = runner[r].cut
         /\ runner'[r].phase \in {"failing", "reported"} =>
              runner'[r].popped = r
    /\ \/ claim' = claim \/ claim' = [by |-> claim.by, age |-> 0]
       \/ claim' = Free /\ \A r \in Runners :
              runner'[r].phase \in Active => claim.by # r

LEMMA TakingDown ==
    ASSUME IInv, TakesDown, FleetTypeOK', Held', RecordedBots', Calls', WatchedBots'
    PROVE  IInv'
<1> USE Constants DEF IInv, TakesDown
<1>1. Fresh'
  BY Typed DEF Fresh, Free, FleetTypeOK
<1>2. Alone'
  BY DEF Alone
<1>3. Popped'
  BY DEF Popped
<1>4. Ages'
  <2>1. claim'.by = None \/ (claim'.by = claim.by /\ claim'.age <= claim.age)
    BY TypeUnfolds DEF Free
  <2>2. \A r \in Runners : runner[r].cut \in Nat
    BY Typed
  <2> QED
    BY <2>1, <2>2, TypeUnfolds DEF Ages
<1>5. OwnerUnlessCutOff'
  BY DEF OwnerUnlessCutOff, Free
<1> QED
  BY <1>1, <1>2, <1>3, <1>4, <1>5

LEMMA Faulting ==
    ASSUME faults \in 0..MaxFaults, NoFault \/ Fault
    PROVE  faults' \in 0..MaxFaults
<1>1. CASE NoFault
  BY <1>1 DEF NoFault
<1>2. CASE Fault
  BY <1>2, Constants DEF Fault
<1> QED
  BY <1>1, <1>2

LEMMA Releasing ==
    ASSUME FleetTypeOK, NEW v \in Runners \cup {None}, Release(v)
    PROVE  /\ claim' \in [by : Runners \cup {None}, age : 0..Stale]
           /\ faults' \in 0..MaxFaults
           /\ claim' = claim \/ (claim' = Free /\ claim.by = v /\ v # None)
<1>1. claim' = claim \/ (claim' = Free /\ claim.by = v /\ v # None)
  BY DEF Release
<1>2. NoFault \/ Fault
  BY DEF Release
<1>3. claim' \in [by : Runners \cup {None}, age : 0..Stale]
  BY <1>1, TypeUnfolds DEF FleetTypeOK
<1>4. faults' \in 0..MaxFaults
  BY <1>2, TypeUnfolds, Faulting
<1> QED
  BY <1>1, <1>3, <1>4

-----------------------------------------------------------------------------
(* The steps of a bot                                                      *)

LEMMA Changing ==
    ASSUME FleetTypeOK, NEW r \in Runners, NEW ph \in Phases,
           runner' = [runner EXCEPT ![r].phase = ph]
    PROVE  /\ runner' \in [Runners -> RunnerType]
           /\ \A s \in Runners : s # r => runner'[s] = runner[s]
           /\ runner'[r].phase = ph /\ runner'[r].at = runner[r].at
           /\ runner'[r].hb = runner[r].hb /\ runner'[r].cut = runner[r].cut
           /\ runner'[r].popped = runner[r].popped
  BY Typed DEF RunnerType

\* runner after r went to ph and its callback noted the record v
Pop(r, ph, v) == [runner EXCEPT ![r].phase = ph, ![r].popped = v]

LEMMA Popping ==
    ASSUME FleetTypeOK, NEW r \in Runners, NEW ph \in Phases, NEW v \in Runners \cup {None}
    PROVE  /\ Pop(r, ph, v) \in [Runners -> RunnerType]
           /\ \A s \in Runners : s # r => Pop(r, ph, v)[s] = runner[s]
           /\ Pop(r, ph, v)[r].phase = ph /\ Pop(r, ph, v)[r].at = runner[r].at
           /\ Pop(r, ph, v)[r].popped = v /\ Pop(r, ph, v)[r].cut = runner[r].cut
<1>1. [runner[r] EXCEPT !.phase = ph, !.popped = v] \in RunnerType
  BY Typed DEF RunnerType
<1>2. Pop(r, ph, v) = [runner EXCEPT ![r] = [runner[r] EXCEPT !.phase = ph, !.popped = v]]
  BY Typed DEF Pop
<1>3. runner \in [Runners -> RunnerType] /\ runner[r] \in RunnerType
  BY Typed
<1>4. /\ [runner[r] EXCEPT !.phase = ph, !.popped = v].phase = ph
      /\ [runner[r] EXCEPT !.phase = ph, !.popped = v].at = runner[r].at
      /\ [runner[r] EXCEPT !.phase = ph, !.popped = v].popped = v
      /\ [runner[r] EXCEPT !.phase = ph, !.popped = v].cut = runner[r].cut
  BY <1>3 DEF RunnerType
<1> QED
  BY <1>1, <1>2, <1>3, <1>4

\* FleetTypeOK, part by part
LEMMA Retyping ==
    ASSUME claim' \in [by : Runners \cup {None}, age : 0..Stale],
           fleet' \in [Processes -> Runners \cup {None}],
           runner' \in [Runners -> RunnerType],
           call' \in [Stoppers -> CallType],
           faults' \in 0..MaxFaults
    PROVE  FleetTypeOK'
  BY DEF FleetTypeOK, RunnerType, CallType

LEMMA BootsKeeps ==
    ASSUME IInv, NEW r \in Runners, Boots(r)
    PROVE  IInv'
<1>1. runner[r].phase = "booting" /\ "trading" \in Phases /\ FleetTypeOK
  BY DEF Boots, Phases, Active, IInv
<1>2. /\ runner' = [runner EXCEPT ![r].phase = "trading"]
      /\ UNCHANGED <<claim, fleet, call, faults>>
  BY DEF Boots
<1>3. /\ runner' \in [Runners -> RunnerType]
      /\ \A s \in Runners : s # r => runner'[s] = runner[s]
      /\ runner'[r].phase = "trading" /\ runner'[r].at = runner[r].at
      /\ runner'[r].hb = runner[r].hb /\ runner'[r].cut = runner[r].cut
  BY <1>1, <1>2, Changing
<1>4. TakesDown
  BY <1>1, <1>2, <1>3 DEF TakesDown, IInv, Active, Ending, Popped
<1>5. FleetTypeOK'
  BY <1>1, <1>2, <1>3, Typed, Retyping DEF FleetTypeOK
<1>6. Held' /\ RecordedBots'
  BY <1>1, <1>2, <1>3 DEF IInv, FleetTypeOK, Held, RecordedBots, Active
<1>7. Calls' /\ WatchedBots'
  BY <1>1, <1>2, <1>3 DEF IInv, Calls, WatchedBots, Active
<1> QED
  BY <1>4, <1>5, <1>6, <1>7, TakingDown

LEMMA BootFailsKeeps ==
    ASSUME IInv, NEW r \in Runners, BootFails(r)
    PROVE  IInv'
<1> DEFINE p == runner[r].at
<1>1. runner[r].phase = "booting" /\ "failing" \in Phases /\ FleetTypeOK
  BY DEF BootFails, Phases, Ending, IInv
<1>2. p \in Processes /\ fleet[p] = r
  BY <1>1 DEF IInv, Fresh, RecordedBots, Active
<1>3. /\ runner' = [runner EXCEPT ![r].phase = "failing", ![r].popped = r]
      /\ fleet' = [fleet EXCEPT ![p] = None]
      /\ UNCHANGED <<claim, call, faults>>
  BY <1>2 DEF BootFails
<1>4. /\ runner' \in [Runners -> RunnerType]
      /\ \A s \in Runners : s # r => runner'[s] = runner[s]
      /\ runner'[r].phase = "failing" /\ runner'[r].at = p /\ runner'[r].popped = r
  BY <1>1, <1>3, Typed DEF RunnerType
<1>5. TakesDown
  BY <1>1, <1>3, <1>4 DEF TakesDown, IInv, Active, Ending, Popped
<1>6. FleetTypeOK'
  BY <1>1, <1>2, <1>3, <1>4, Typed, Retyping DEF FleetTypeOK
<1>7. Held'
  BY <1>1, <1>2, <1>3, <1>4, TypeUnfolds, Constants DEF IInv, Held
<1>8. RecordedBots'
  BY <1>1, <1>2, <1>3, <1>4, TypeUnfolds DEF IInv, Alone, RecordedBots, Active, Ending
<1>9. Calls' /\ WatchedBots'
  BY <1>1, <1>3, <1>4 DEF IInv, Calls, WatchedBots, Active
<1> QED
  BY <1>5, <1>6, <1>7, <1>8, <1>9, TakingDown

LEMMA EndingKeeps ==
    ASSUME IInv, NEW r \in Runners, TradingEnds(r) \/ Closes(r)
    PROVE  IInv'
<1>1. PICK ph \in {"closing", "returned"} :
        /\ runner' = [runner EXCEPT ![r].phase = ph]
        /\ runner[r].phase \in {"trading", "closing"}
        /\ UNCHANGED <<claim, fleet, call, faults>>
  BY DEF TradingEnds, Closes
<1>2. ph \in Phases /\ FleetTypeOK
  BY DEF Phases, Ending, IInv
<1>3. /\ runner' \in [Runners -> RunnerType]
      /\ \A s \in Runners : s # r => runner'[s] = runner[s]
      /\ runner'[r].phase = ph /\ runner'[r].at = runner[r].at
  BY <1>1, <1>2, Changing
<1>4. TakesDown
  BY <1>1, <1>3 DEF TakesDown, IInv, Active, Ending, Popped
<1>5. FleetTypeOK'
  BY <1>1, <1>2, <1>3, Typed, Retyping DEF FleetTypeOK
<1>6. Held' /\ RecordedBots'
  BY <1>1, <1>2, <1>3, TypeUnfolds DEF IInv, Held, RecordedBots, Active
<1>7. Calls' /\ WatchedBots'
  BY <1>1, <1>3 DEF IInv, Calls, WatchedBots, Active
<1> QED
  BY <1>4, <1>5, <1>6, <1>7, TakingDown

LEMMA BootGivesUpKeeps ==
    ASSUME IInv, NEW r \in Runners, BootGivesUp(r)
    PROVE  IInv'
<1> DEFINE run == Pop(r, "returned", None)
<1>1. /\ runner[r].phase = "reported" /\ runner[r].popped = r
      /\ "returned" \in Phases /\ FleetTypeOK
  BY DEF BootGivesUp, Phases, Ending, IInv, Popped
<1>2. /\ runner' = StopHeartbeat(run, r) /\ Release(r)
      /\ UNCHANGED <<fleet, call>>
  BY <1>1 DEF BootGivesUp, Pop
<1>3. /\ run \in [Runners -> RunnerType]
      /\ \A s \in Runners : s # r => run[s] = runner[s]
      /\ run[r].phase = "returned" /\ run[r].at = runner[r].at
  BY <1>1, Popping
<1> HIDE DEF run
<1>4. /\ runner' \in [Runners -> RunnerType]
      /\ \A s \in Runners : s # r => runner'[s] = runner[s]
      /\ runner'[r].phase = "returned" /\ runner'[r].at = runner[r].at
  BY <1>2, <1>3, Silencing
<1>5. /\ claim' \in [by : Runners \cup {None}, age : 0..Stale] /\ faults' \in 0..MaxFaults
      /\ claim' = claim \/ (claim' = Free /\ claim.by = r)
  BY <1>1, <1>2, Releasing
<1>6. TakesDown
  BY <1>1, <1>4, <1>5 DEF TakesDown, IInv, Active, Ending, Popped
<1>7. FleetTypeOK'
  BY <1>1, <1>2, <1>4, <1>5, Typed, Retyping DEF FleetTypeOK
<1>8. Held'
  BY <1>1, <1>2, <1>4, TypeUnfolds DEF IInv, Held, Active
<1>9. RecordedBots'
  BY <1>1, <1>2, <1>4, TypeUnfolds DEF IInv, RecordedBots, Active
<1>10. Calls' /\ WatchedBots'
  BY <1>1, <1>2, <1>4 DEF IInv, Calls, WatchedBots, Active
<1> QED
  BY <1>6, <1>7, <1>8, <1>9, <1>10, TakingDown

LEMMA CleanUpKeeps ==
    ASSUME IInv, NEW r \in Runners, CleanUp(r)
    PROVE  IInv'
<1> DEFINE p == runner[r].at
           v == fleet[p]
           ph == IF runner[r].phase = "returned" /\ v # None THEN "reporting" ELSE "gone"
           pop == IF runner[r].phase = "returned" /\ v # None THEN v ELSE None
           run == Pop(r, ph, pop)
<1>1. /\ runner[r].phase \in {"returned", "cancelled"} /\ FleetTypeOK
      /\ p \in Processes /\ v \in Runners \cup {None} /\ pop \in Runners \cup {None}
      /\ ph \in Phases /\ ph \in {"reporting", "gone"}
  BY TypeUnfolds DEF CleanUp, IInv, Fresh, Phases
<1>2. v = None \/ v = r
  BY <1>1 DEF IInv, Held, Alone, Active, Ending
<1>3. /\ fleet' = [fleet EXCEPT ![p] = None]
      /\ runner' = StopHeartbeat(run, v) /\ Release(v)
      /\ UNCHANGED call
  BY DEF CleanUp, Pop
<1>4. /\ run \in [Runners -> RunnerType]
      /\ \A s \in Runners : s # r => run[s] = runner[s]
      /\ run[r].phase = ph /\ run[r].at = p
  <2> HIDE DEF ph, pop
  <2> QED
    BY <1>1, Popping
<1> HIDE DEF run, ph, pop
<1>5. /\ runner' \in [Runners -> RunnerType]
      /\ \A s \in Runners : s # r => runner'[s] = runner[s]
      /\ runner'[r].phase \in {"reporting", "gone"} /\ runner'[r].at = p
  <2>1. CASE v = None
    BY <2>1, <1>1, <1>3, <1>4 DEF StopHeartbeat
  <2>2. CASE v = r
    <3>1. runner' = StopHeartbeat(run, r)
      BY <2>2, <1>3
    <3> QED
      BY <3>1, <1>1, <1>4, Silencing
  <2> QED
    BY <1>2, <2>1, <2>2
<1>6. /\ claim' \in [by : Runners \cup {None}, age : 0..Stale] /\ faults' \in 0..MaxFaults
      /\ claim' = claim \/ (claim' = Free /\ claim.by = r)
  BY <1>1, <1>2, <1>3, Releasing
<1> HIDE DEF v
<1>7. TakesDown
  BY <1>1, <1>5, <1>6 DEF TakesDown, IInv, Active, Ending, Popped
<1>8. FleetTypeOK'
  BY <1>1, <1>3, <1>5, <1>6, Typed, Retyping DEF FleetTypeOK
<1>9. Held'
  BY <1>1, <1>2, <1>3, <1>5, TypeUnfolds, Constants DEF IInv, Held, v
<1>10. RecordedBots'
  BY <1>1, <1>3, <1>5, TypeUnfolds DEF IInv, Alone, RecordedBots, Active, Ending
<1>11. Calls' /\ WatchedBots'
  BY <1>1, <1>3, <1>5 DEF IInv, Calls, WatchedBots, Active
<1> QED
  BY <1>7, <1>8, <1>9, <1>10, <1>11, TakingDown

LEMMA ReportsKeeps ==
    ASSUME IInv, NEW r \in Runners, Reports(r), NoFault \/ Fault
    PROVE  IInv'
<1>1. /\ runner[r].phase \in {"failing", "reporting"} /\ FleetTypeOK
      /\ runner[r].phase = "failing" => runner[r].popped = r
      /\ UNCHANGED <<claim, fleet, call>> /\ faults' \in 0..MaxFaults
  BY Faulting, TypeUnfolds DEF Reports, IInv, Popped
<1>2. /\ runner' \in [Runners -> RunnerType]
      /\ \A s \in Runners : s # r => runner'[s] = runner[s]
      /\ runner'[r].phase = (IF runner[r].phase = "failing" THEN "reported" ELSE "gone")
      /\ runner[r].phase = "failing" => runner'[r].popped = r
      /\ runner'[r].at = runner[r].at
  <2>1. CASE runner[r].phase = "failing"
    <3>1. runner' = [runner EXCEPT ![r] = [runner[r] EXCEPT !.phase = "reported"]]
      BY <2>1 DEF Reports
    <3>2. runner[r] \in RunnerType /\ "reported" \in Phases
      BY <1>1, Typed DEF Phases, Ending
    <3> QED
      BY <1>1, <2>1, <3>1, <3>2, Typed DEF RunnerType
  <2>2. CASE runner[r].phase # "failing"
    <3>1. runner' = [runner EXCEPT ![r] = [runner[r] EXCEPT !.phase = "gone", !.popped = None]]
      BY <2>2 DEF Reports
    <3>2. runner[r] \in RunnerType /\ "gone" \in Phases
      BY <1>1, Typed DEF Phases
    <3> QED
      BY <1>1, <2>2, <3>1, <3>2, Typed DEF RunnerType
  <2> QED
    BY <2>1, <2>2
<1>3. TakesDown
  BY <1>1, <1>2 DEF TakesDown, IInv, Active, Ending, Popped
<1>4. FleetTypeOK'
  BY <1>1, <1>2, Typed, Retyping DEF FleetTypeOK
<1>5. Held' /\ RecordedBots'
  BY <1>1, <1>2, TypeUnfolds DEF IInv, Held, RecordedBots, Active
<1>6. Calls' /\ WatchedBots'
  BY <1>1, <1>2 DEF IInv, Calls, WatchedBots, Active
<1> QED
  BY <1>3, <1>4, <1>5, <1>6, TakingDown

-----------------------------------------------------------------------------
(* The heartbeat                                                           *)

\* A bot whose heartbeat comes round was started; if it runs it is the one
\* that is registered in its process.
LEMMA Due ==
    ASSUME IInv, NEW r \in Runners, runner[r].hb # "off"
    PROVE  /\ FleetTypeOK /\ runner[r].phase # "fresh" /\ runner[r].at \in Processes
           /\ fleet[runner[r].at] \in Runners \cup {None}
           /\ runner[r].phase \in Active => fleet[runner[r].at] = r
  BY TypeUnfolds DEF IInv, Fresh, RecordedBots

LEMMA Rounding ==
    ASSUME FleetTypeOK, NEW r \in Runners, NEW h \in Beats, NEW c \in Nat, NEW n \in 0..Stale
    PROVE  /\ Round(r, h, c, n) \in [Runners -> RunnerType]
           /\ \A s \in Runners : s # r => Round(r, h, c, n)[s] = runner[s]
           /\ Round(r, h, c, n)[r].phase = runner[r].phase
           /\ Round(r, h, c, n)[r].at = runner[r].at
           /\ Round(r, h, c, n)[r].popped = runner[r].popped
           /\ Round(r, h, c, n)[r].hb = h /\ Round(r, h, c, n)[r].cut = c
<1> DEFINE new == [runner[r] EXCEPT !.hb = h, !.cut = c, !.since = n]
<1>1. runner \in [Runners -> RunnerType] /\ runner[r] \in RunnerType
  BY Typed
<1>2. Round(r, h, c, n) = [runner EXCEPT ![r] = new]
  BY DEF Round
<1>3. /\ new \in RunnerType
      /\ new.phase = runner[r].phase /\ new.at = runner[r].at /\ new.popped = runner[r].popped
      /\ new.hb = h /\ new.cut = c
  BY <1>1, Zenon DEF RunnerType
<1> HIDE DEF new
<1> QED
  BY <1>1, <1>2, <1>3

LEMMA AffirmedKeeps ==
    ASSUME IInv, NEW r \in Runners, NEW seen \in BOOLEAN, NEW c \in Nat, runner[r].hb # "off",
           Affirmed(r, c, seen), NoFault \/ Fault,
           claim' = claim \/ (claim.by = r /\ claim' = [by |-> r, age |-> 0]),
           claim.by = r \/ c >= runner[r].cut,
           runner[r].phase \in Active /\ claim.by = r => claim'.age <= c
    PROVE  IInv'
<1> DEFINE h == IF seen THEN "off" ELSE "wait"
<1>1. /\ FleetTypeOK /\ runner[r].phase # "fresh" /\ runner[r].at \in Processes
  BY Due
<1>2. /\ claim'.by = claim.by /\ claim' \in [by : Runners \cup {None}, age : 0..Stale]
      /\ claim'.age <= claim.age
      /\ fleet' = fleet /\ faults' \in 0..MaxFaults
  BY <1>1, TypeUnfolds, Faulting, Constants DEF Affirmed
<1>3. /\ runner' \in [Runners -> RunnerType]
      /\ \A s \in Runners : s # r => runner'[s] = runner[s]
      /\ runner'[r].phase = runner[r].phase /\ runner'[r].at = runner[r].at
      /\ runner'[r].popped = runner[r].popped
      /\ runner'[r].hb = h /\ runner'[r].cut = c
  <2>1. runner' = Round(r, h, c, 0)
    BY DEF Affirmed
  <2>2. h \in Beats /\ 0 \in 0..Stale
    BY Constants DEF Beats
  <2> HIDE DEF h
  <2>3. /\ Round(r, h, c, 0) \in [Runners -> RunnerType]
        /\ \A s \in Runners : s # r => Round(r, h, c, 0)[s] = runner[s]
        /\ Round(r, h, c, 0)[r].phase = runner[r].phase
        /\ Round(r, h, c, 0)[r].at = runner[r].at
        /\ Round(r, h, c, 0)[r].popped = runner[r].popped
        /\ Round(r, h, c, 0)[r].hb = h /\ Round(r, h, c, 0)[r].cut = c
    BY <1>1, <2>2, Rounding
  <2> QED
    BY <2>1, <2>3
<1>4. /\ call' \in [Stoppers -> CallType]
      /\ \A s \in Stoppers : s # r \/ ~seen => call'[s] = call[s]
      /\ seen => call'[r].at = "asked" /\ call'[r].proc = runner[r].at
  <2>1. CASE ~seen
    BY <1>1, <2>1, Typed DEF Affirmed
  <2>2. CASE seen
    <3>1. call' = [call EXCEPT ![r] = [call[r] EXCEPT !.at = "asked", !.proc = runner[r].at]]
      BY <2>2 DEF Affirmed
    <3>2. r \in Stoppers /\ call[r] \in CallType
      BY <1>1, Typed DEF Stoppers
    <3> QED
      BY <1>1, <2>2, <3>1, <3>2, Typed DEF CallType
  <2> QED
    BY <2>1, <2>2
<1>5. FleetTypeOK'
  BY <1>1, <1>2, <1>3, <1>4, Retyping, TypeUnfolds
<1>6. Fresh' /\ Popped'
  BY <1>1, <1>2, <1>3 DEF IInv, Fresh, Popped
<1>7. Held' /\ RecordedBots'
  BY <1>1, <1>2, <1>3, TypeUnfolds DEF IInv, Held, RecordedBots
<1>8. Alone'
  BY <1>1, <1>3 DEF IInv, Alone
<1>9. WatchedBots'
  BY <1>1, <1>3, <1>4 DEF IInv, WatchedBots, Stoppers
<1>10. Ages' /\ OwnerUnlessCutOff'
  BY <1>1, <1>2, <1>3, Typed, TypeUnfolds, Constants DEF IInv, Ages, OwnerUnlessCutOff
<1>11. Calls'
  <2>1. \A s \in Stoppers : call'[s].at = "asked" => call'[s].proc \in Processes
    BY <1>1, <1>4 DEF IInv, Calls
  <2>2. \A s \in Stoppers : call'[s].at = "waiting" =>
           /\ call'[s].victim \in Runners
           /\ runner'[call'[s].victim].phase \notin Active \cup {"fresh"}
    BY <1>1, <1>3, <1>4 DEF IInv, Calls
  <2>3. \A s \in Runners : call'[s].at = "asked" =>
           /\ runner'[s].phase # "fresh"
           /\ runner'[s].phase \in Active => call'[s].proc = runner'[s].at
    BY <1>1, <1>3, <1>4 DEF IInv, Calls, Stoppers
  <2> QED
    BY <2>1, <2>2, <2>3 DEF Calls
<1> QED
  BY <1>5, <1>6, <1>7, <1>8, <1>9, <1>10, <1>11 DEF IInv

\* A surrender cancels the bot of the heartbeat, if it still runs.
LEMMA SurrenderKeeps ==
    ASSUME IInv, NEW r \in Runners, runner[r].hb # "off", Surrender(r),
           claim' = claim \/ claim' = [by |-> claim.by, age |-> 0],
           UNCHANGED <<fleet, call>>, faults' \in 0..MaxFaults
    PROVE  IInv'
<1> DEFINE v == fleet[runner[r].at]
           run == StopHeartbeat(runner, r)
<1>1. /\ FleetTypeOK /\ runner[r].phase # "fresh" /\ runner[r].at \in Processes
      /\ v \in Runners \cup {None} /\ (runner[r].phase \in Active => v = r)
  BY Due
<1>2. /\ run \in [Runners -> RunnerType]
      /\ \A s \in Runners : /\ s # r => run[s] = runner[s]
                            /\ run[s].phase = runner[s].phase /\ run[s].at = runner[s].at
                            /\ run[s].popped = runner[s].popped
  BY <1>1, Typed, Silencing
<1>3. runner' \in CancelTask(run, v)
  BY DEF Surrender
<1>4. v # None => runner[v].at = runner[r].at /\ runner[v].phase # "fresh"
  BY <1>1 DEF IInv, Held, Active
<1> HIDE DEF run, v
<1>5. /\ runner' \in [Runners -> RunnerType]
      /\ \A s \in Runners : /\ s # v => runner'[s] = run[s]
                            /\ runner'[s].at = run[s].at /\ runner'[s].hb = run[s].hb
                            /\ runner'[s].cut = run[s].cut /\ runner'[s].popped = run[s].popped
      /\ v # None => IF run[v].phase \in Active \cup {"closing"}
                     THEN runner'[v].phase \in {"closing", "cancelled"}
                     ELSE runner'[v].phase = run[v].phase
  BY <1>1, <1>2, <1>3, Cancelling
<1>6. \A s \in Runners :
        /\ runner'[s].at = runner[s].at /\ runner'[s].popped = runner[s].popped
        /\ runner'[s].phase \in Active => /\ s # v /\ s # r
                                          /\ runner'[s] = runner[s]
        /\ s # r /\ s # v => runner'[s] = runner[s]
        /\ runner'[s].phase = runner[s].phase
           \/ (runner'[s].phase \in {"closing", "cancelled"} /\ runner[s].phase \in Active \cup {"closing"})
  <2> SUFFICES ASSUME NEW s \in Runners
               PROVE  /\ runner'[s].at = runner[s].at /\ runner'[s].popped = runner[s].popped
                      /\ runner'[s].phase \in Active => /\ s # v /\ s # r
                                                        /\ runner'[s] = runner[s]
                      /\ s # r /\ s # v => runner'[s] = runner[s]
                      /\ runner'[s].phase = runner[s].phase
                         \/ (runner'[s].phase \in {"closing", "cancelled"} /\ runner[s].phase \in Active \cup {"closing"})
    OBVIOUS
  <2>1. CASE s = v
    BY <2>1, <1>2, <1>5, Constants DEF Active
  <2>2. CASE s # v
    BY <2>2, <1>1, <1>2, <1>5
  <2> QED
    BY <2>1, <2>2
<1>7. TakesDown
  <2>1. \A s \in Runners : /\ runner[s].phase = "fresh" => runner'[s] = runner[s]
                           /\ runner[s].phase # "fresh" => runner'[s].phase # "fresh"
    BY <1>1, <1>4, <1>6, Constants DEF Active
  <2>2. \A s \in Runners : runner'[s].phase \in {"failing", "reported"} => runner'[s].popped = s
    BY <1>6 DEF IInv, Popped
  <2>3. \A s \in Runners : runner'[s].phase \in Active \cup Ending => runner[s].phase \in Active \cup Ending
    BY <1>6 DEF Active, Ending
  <2>4. \A s \in Runners : runner'[s].phase \in Active =>
              /\ runner[s].phase \in Active
              /\ runner'[s].hb = runner[s].hb /\ runner'[s].cut = runner[s].cut
    BY <1>6
  <2> QED
    BY <1>5, <1>6, <2>1, <2>2, <2>3, <2>4 DEF TakesDown
<1>8. FleetTypeOK'
  <2>1. claim' \in [by : Runners \cup {None}, age : 0..Stale]
    BY <1>1, TypeUnfolds, Constants DEF FleetTypeOK
  <2> QED
    BY <1>1, <1>5, <2>1, Typed, TypeUnfolds, Retyping
<1>9. Held'
  BY <1>1, <1>5, <1>6, TypeUnfolds DEF IInv, Held, Active
<1>10. RecordedBots' /\ WatchedBots'
  BY <1>1, <1>6 DEF IInv, RecordedBots, WatchedBots
<1>11. Calls'
  BY <1>1, <1>6 DEF IInv, Calls, Active
<1> QED
  BY <1>7, <1>8, <1>9, <1>10, <1>11, TakingDown

\* A round that is lost: to a failure, or to a call that hangs.
LEMMA LostRoundKeeps ==
    ASSUME IInv, NEW r \in Runners, NEW h \in {"wait", "hung", "late"}, NEW c \in Nat,
           NEW n \in 0..Stale, runner[r].hb # "off",
           runner' = Round(r, h, c, n), UNCHANGED <<fleet, call>>, Fault,
           claim' = claim \/ (claim.by = r /\ claim' = [claim EXCEPT !.age = 0]),
           claim.by = r \/ c >= runner[r].cut,
           runner[r].phase \in Active /\ claim.by = r =>
               claim'.age <= c /\ (h = "late" => claim'.age + 1 <= c)
    PROVE  IInv'
<1>1. /\ FleetTypeOK /\ runner[r].phase # "fresh" /\ faults' \in 0..MaxFaults
      /\ claim' \in [by : Runners \cup {None}, age : 0..Stale] /\ claim'.by = claim.by
  BY Due, TypeUnfolds, Faulting, Constants
<1>2. /\ runner' \in [Runners -> RunnerType]
      /\ \A s \in Runners : s # r => runner'[s] = runner[s]
      /\ runner'[r].phase = runner[r].phase /\ runner'[r].at = runner[r].at
      /\ runner'[r].popped = runner[r].popped
      /\ runner'[r].hb = h /\ runner'[r].cut = c
  BY <1>1, Rounding DEF Beats
<1>3. FleetTypeOK'
  BY <1>1, <1>2, Typed, TypeUnfolds, Retyping
<1>4. Fresh' /\ Popped' /\ Alone'
  BY <1>1, <1>2 DEF IInv, Fresh, Popped, Alone
<1>5. Held' /\ RecordedBots' /\ WatchedBots'
  BY <1>1, <1>2, TypeUnfolds DEF IInv, Held, RecordedBots, WatchedBots
<1>6. Calls'
  BY <1>1, <1>2 DEF IInv, Calls
<1>7. Ages'
  <2> SUFFICES ASSUME NEW s \in Runners, runner'[s].phase \in Active, claim'.by = s
               PROVE  /\ claim'.age <= runner'[s].cut + 1
                      /\ runner'[s].hb # "due" => claim'.age <= runner'[s].cut
                      /\ runner'[s].hb = "late" => claim'.age + 1 <= runner'[s].cut
    BY DEF Ages
  <2>1. CASE s = r
    <3>1. /\ runner[r].phase \in Active /\ claim.by = r
          /\ runner'[s].cut = c /\ runner'[s].hb = h /\ h # "due"
          /\ claim'.age \in Nat
      <4>1. runner[r].phase \in Active /\ claim.by = r /\ runner'[s].cut = c /\ runner'[s].hb = h
        BY <1>1, <1>2, <2>1
      <4>2. h # "due"
        OBVIOUS
      <4>3. claim'.age \in Nat
        BY <1>1, Constants
      <4> QED
        BY <4>1, <4>2, <4>3
    <3>2. claim'.age <= c /\ (h = "late" => claim'.age + 1 <= c)
      BY <3>1
    <3> QED
      BY <3>1, <3>2
  <2>2. CASE s # r
    <3>1. claim.by = s /\ claim' = claim /\ runner'[s] = runner[s]
      BY <1>1, <1>2, <2>2
    <3> QED
      BY <2>2, <3>1 DEF IInv, Ages
  <2> QED
    BY <2>1, <2>2
<1>8. OwnerUnlessCutOff'
  BY <1>1, <1>2, Typed, Constants DEF IInv, OwnerUnlessCutOff
<1> QED
  BY <1>3, <1>4, <1>5, <1>6, <1>7, <1>8 DEF IInv

LEMMA UnreachableKeeps ==
    ASSUME IInv, NEW r \in Runners, BeatUnreachable(r)
    PROVE  IInv'
<1>1. /\ runner[r].hb # "off" /\ FleetTypeOK /\ runner[r].phase # "fresh"
      /\ faults' \in 0..MaxFaults /\ UNCHANGED <<fleet, call>> /\ Fault
      /\ claim' = claim \/ claim' = [by |-> claim.by, age |-> 0]
      /\ claim' = claim \/ (claim.by = r /\ claim' = [claim EXCEPT !.age = 0])
      /\ claim'.age <= claim.age /\ claim.age \in Nat /\ claim'.age \in Nat
  BY Due, TypeUnfolds, Faulting, Constants DEF BeatUnreachable, Awake
<1>2. CASE runner[r].since = Stale
  BY <1>1, <1>2, SurrenderKeeps DEF BeatUnreachable
<1>3. CASE runner[r].since # Stale
  <2>1. runner' = Round(r, "wait", runner[r].cut + 1, runner[r].since + 1)
    BY <1>3 DEF BeatUnreachable
  <2>2. /\ runner[r].cut \in Nat /\ runner[r].cut + 1 \in Nat
        /\ runner[r].since + 1 \in 0..Stale /\ runner[r].cut + 1 >= runner[r].cut
    BY <1>1, <1>3, Typed, Constants
  <2>3. runner[r].phase \in Active /\ claim.by = r => claim'.age <= runner[r].cut + 1
    BY <1>1, <2>2 DEF IInv, Ages
  <2> QED
    BY <1>1, <2>1, <2>2, <2>3, LostRoundKeeps
<1> QED
  BY <1>2, <1>3

LEMMA HangsIsARound ==
    ASSUME FleetTypeOK, NEW r \in Runners, NEW h, NEW c, Hangs(r, h, c)
    PROVE  \E n \in 0..Stale : runner' = Round(r, h, c, n)
<1> DEFINE n == IF runner[r].since \in {0, Stale} THEN runner[r].since ELSE runner[r].since + 1
<1>1. n \in 0..Stale
  BY Typed, Constants
<1>2. runner' = Round(r, h, c, n)
  BY DEF Hangs
<1> HIDE DEF n
<1> QED
  BY <1>1, <1>2

LEMMA HangsKeeps ==
    ASSUME IInv, NEW r \in Runners, BeatHangs(r)
    PROVE  IInv'
<1>1. /\ runner[r].hb # "off" /\ FleetTypeOK /\ Fault /\ UNCHANGED <<fleet, call>>
      /\ runner[r].cut \in Nat /\ runner[r].cut + 1 \in Nat
      /\ claim = [by |-> claim.by, age |-> claim.age] /\ claim.age \in Nat
  BY Typed, TypeUnfolds DEF BeatHangs, IInv
<1>2. CASE runner[r].hb = "due" /\ Hangs(r, "hung", runner[r].cut + 1) /\ UNCHANGED claim
  <2>1. PICK n \in 0..Stale : runner' = Round(r, "hung", runner[r].cut + 1, n)
    BY <1>1, <1>2, HangsIsARound
  <2>2. runner[r].phase \in Active /\ claim.by = r => claim'.age <= runner[r].cut + 1
    BY <1>2 DEF IInv, Ages
  <2> QED
    BY <1>1, <1>2, <2>1, <2>2, LostRoundKeeps
<1>3. CASE runner[r].hb = "answer" /\ Hangs(r, "late", runner[r].cut + 1) /\ UNCHANGED claim
  <2>1. PICK n \in 0..Stale : runner' = Round(r, "late", runner[r].cut + 1, n)
    BY <1>1, <1>3, HangsIsARound
  <2>2. runner[r].phase \in Active /\ claim.by = r =>
            claim'.age <= runner[r].cut + 1 /\ claim'.age + 1 <= runner[r].cut + 1
    BY <1>1, <1>3 DEF IInv, Ages
  <2> QED
    BY <1>1, <1>3, <2>1, <2>2, LostRoundKeeps
<1>4. CASE /\ runner[r].hb = "due" /\ claim.by = r
           /\ claim' = [claim EXCEPT !.age = 0] /\ Hangs(r, "late", 1)
  <2>1. PICK n \in 0..Stale : runner' = Round(r, "late", 1, n)
    BY <1>1, <1>4, HangsIsARound
  <2>2. claim'.age = 0
    BY <1>1, <1>4
  <2> QED
    BY <1>1, <1>4, <2>1, <2>2, LostRoundKeeps
<1> QED
  BY <1>2, <1>3, <1>4 DEF BeatHangs

LEMMA BeatingKeeps ==
    ASSUME IInv, NEW r \in Runners, Beating(r)
    PROVE  IInv'
<1>0. FleetTypeOK /\ runner[r].cut \in Nat /\ claim = [by |-> claim.by, age |-> claim.age]
      /\ claim.age \in Nat
  BY Typed, TypeUnfolds DEF IInv
<1>1. CASE BeatLost(r)
  <2>1. faults' \in 0..MaxFaults
    BY <1>1, TypeUnfolds DEF BeatLost, IInv
  <2> QED
    BY <1>1, <2>1, SurrenderKeeps DEF BeatLost
<1>2. ASSUME NEW seen \in BOOLEAN, BeatRefreshes(r, seen), NoFault \/ Fault
      PROVE  IInv'
  <2>1. claim.by = r /\ claim' = [by |-> r, age |-> 0] /\ 0 \in Nat
    BY <1>0, <1>2 DEF BeatRefreshes
  <2>2. Affirmed(r, 0, seen) /\ runner[r].hb # "off"
    BY <1>2 DEF BeatRefreshes
  <2> QED
    BY <1>2, <2>1, <2>2, AffirmedKeeps
<1>3. ASSUME NEW seen \in BOOLEAN, BeatAnswered(r, seen), NoFault \/ Fault
      PROVE  IInv'
  <2>1. /\ runner[r].hb = "answer" /\ Affirmed(r, runner[r].cut, seen) /\ claim' = claim
        /\ runner[r].cut >= runner[r].cut
    BY <1>0, <1>3 DEF BeatAnswered
  <2>2. runner[r].phase \in Active /\ claim.by = r => claim'.age <= runner[r].cut
    BY <2>1 DEF IInv, Ages
  <2> QED
    BY <1>0, <1>3, <2>1, <2>2, AffirmedKeeps
<1> QED
  BY <1>1, <1>2, <1>3, UnreachableKeeps, HangsKeeps DEF Beating

LEMMA TimePassesKeeps ==
    ASSUME IInv, TimePasses
    PROVE  IInv'
<1>1. /\ FleetTypeOK /\ UNCHANGED <<fleet, call, faults>>
      /\ \A r \in Runners : runner[r].hb \notin {"due", "answer"} /\ call[r].at # "asked"
  BY DEF TimePasses, IInv, Awake
<1>2. /\ claim'.by = claim.by /\ claim' \in [by : Runners \cup {None}, age : 0..Stale]
      /\ claim'.age <= claim.age + 1
  BY <1>1, TypeUnfolds, Constants DEF TimePasses
<1>3. /\ runner' \in [Runners -> RunnerType]
      /\ \A r \in Runners :
           /\ runner'[r].phase = runner[r].phase /\ runner'[r].at = runner[r].at
           /\ runner'[r].popped = runner[r].popped /\ runner'[r].cut = runner[r].cut
           /\ runner'[r].hb = (CASE runner[r].hb \in {"wait", "hung"} -> "due"
                                 [] runner[r].hb = "late" -> "answer"
                                 [] OTHER -> runner[r].hb)
  BY <1>1, Typed DEF TimePasses, RunnerType, Beats
<1>4. FleetTypeOK'
  BY <1>1, <1>2, <1>3, Typed, Retyping DEF FleetTypeOK
<1>5. Fresh' /\ Popped' /\ Alone'
  BY <1>1, <1>2, <1>3 DEF IInv, Fresh, Popped, Alone
<1>6. Held' /\ RecordedBots' /\ WatchedBots'
  BY <1>1, <1>3, TypeUnfolds DEF IInv, Held, RecordedBots, WatchedBots
<1>7. Calls'
  BY <1>1, <1>3 DEF IInv, Calls
<1>8. Ages'
  <2>1. claim.age \in Nat /\ claim'.age \in Nat /\ \A r \in Runners : runner[r].cut \in Nat
    BY <1>1, <1>2, Typed, TypeUnfolds, Constants
  <2>2. \A r \in Runners : runner[r].phase \in Active =>
            runner[r].hb \in {"wait", "hung", "late"}
    BY <1>1, Typed DEF IInv, WatchedBots, Beats
  <2> QED
    BY <1>2, <1>3, <2>1, <2>2 DEF IInv, Ages
<1>9. OwnerUnlessCutOff'
  BY <1>2, <1>3 DEF IInv, OwnerUnlessCutOff
<1> QED
  BY <1>4, <1>5, <1>6, <1>7, <1>8, <1>9 DEF IInv

-----------------------------------------------------------------------------
(* stop_bot                                                                *)

LEMMA StopBeginsKeeps ==
    ASSUME IInv, NEW c \in Stoppers, StopBegins(c)
    PROVE  IInv'
<1> DEFINE p == call[c].proc
           v == fleet[p]
<1>1. /\ FleetTypeOK /\ call[c].at = "asked" /\ p \in Processes /\ v # None /\ v \in Runners
  BY TypeUnfolds DEF StopBegins, IInv, Calls
<1>2. /\ runner[v].at = p /\ runner[v].phase \in Active \cup {"closing", "returned", "cancelled"}
  BY <1>1 DEF IInv, Held
<1>3. /\ fleet' = [fleet EXCEPT ![p] = None]
      /\ runner' \in CancelTask(runner, v)
      /\ call' = [call EXCEPT ![c] = [call[c] EXCEPT !.at = "waiting", !.victim = v]]
      /\ UNCHANGED <<claim, faults>>
  BY DEF StopBegins
<1>4. /\ call' \in [Stoppers -> CallType]
      /\ \A s \in Stoppers : s # c => call'[s] = call[s]
      /\ call'[c].at = "waiting" /\ call'[c].victim = v
  <2>1. call[c] \in CallType
    BY <1>1, Typed
  <2> HIDE DEF v
  <2> QED
    BY <1>1, <1>3, <2>1, Typed DEF CallType
<1> HIDE DEF v
<1>5. /\ runner' \in [Runners -> RunnerType]
      /\ \A s \in Runners : /\ s # v => runner'[s] = runner[s]
                            /\ runner'[s].at = runner[s].at /\ runner'[s].popped = runner[s].popped
      /\ runner'[v].phase \in {"closing", "returned", "cancelled"}
  BY <1>1, <1>2, <1>3, Typed, Cancelling
<1>6. TakesDown
  <2>1. \A s \in Runners : runner'[s].phase \in {"failing", "reported"} => runner'[s].popped = s
    BY <1>5 DEF IInv, Popped
  <2> QED
    BY <1>2, <1>3, <1>5, <2>1 DEF TakesDown, Active, Ending
<1>7. FleetTypeOK'
  BY <1>1, <1>3, <1>4, <1>5, TypeUnfolds, Retyping DEF FleetTypeOK
<1>8. Held'
  BY <1>1, <1>3, <1>5, TypeUnfolds, Constants DEF IInv, Held, v
<1>9. RecordedBots'
  BY <1>1, <1>2, <1>3, <1>5, TypeUnfolds DEF IInv, Alone, RecordedBots, Active, Ending
<1>10. WatchedBots'
  <2> SUFFICES ASSUME NEW s \in Runners, runner'[s].phase \in Active
               PROVE  runner'[s].hb # "off" \/ call'[s].at = "asked"
    BY DEF WatchedBots
  <2>1. s # v /\ runner'[s] = runner[s]
    BY <1>5 DEF Active
  <2>2. CASE s = c
    BY <1>1, <2>1, <2>2 DEF IInv, Calls, RecordedBots, v
  <2>3. CASE s # c
    BY <1>4, <2>1, <2>3 DEF IInv, WatchedBots, Stoppers
  <2> QED
    BY <2>2, <2>3
<1>11. Calls'
  <2>1. \A s \in Stoppers : call'[s].at = "asked" => call'[s].proc \in Processes
    BY <1>4 DEF IInv, Calls
  <2>2. \A s \in Stoppers : call'[s].at = "waiting" =>
           /\ call'[s].victim \in Runners
           /\ runner'[call'[s].victim].phase \notin Active \cup {"fresh"}
    BY <1>1, <1>4, <1>5 DEF IInv, Calls, Active
  <2>3. \A s \in Runners : call'[s].at = "asked" =>
           /\ runner'[s].phase # "fresh"
           /\ runner'[s].phase \in Active => call'[s].proc = runner'[s].at
    BY <1>4, <1>5 DEF IInv, Calls, Stoppers, Active
  <2> QED
    BY <2>1, <2>2, <2>3 DEF Calls
<1> QED
  BY <1>6, <1>7, <1>8, <1>9, <1>10, <1>11, TakingDown

LEMMA StopEndsKeeps ==
    ASSUME IInv, NEW c \in Stoppers, StopEnds(c)
    PROVE  IInv'
<1> DEFINE v == call[c].victim
<1>1. /\ FleetTypeOK /\ v \in Runners /\ runner[v].phase \notin Active \cup {"fresh"}
      /\ runner' = StopHeartbeat(runner, v) /\ Release(v) /\ UNCHANGED fleet
      /\ call' = [call EXCEPT ![c].at = "stopped"]
  BY DEF StopEnds, IInv, Calls
<1>2. /\ runner' \in [Runners -> RunnerType]
      /\ \A s \in Runners : /\ s # v => runner'[s] = runner[s]
                            /\ runner'[s].phase = runner[s].phase /\ runner'[s].at = runner[s].at
                            /\ runner'[s].popped = runner[s].popped
  BY <1>1, Typed, Silencing
<1>3. /\ claim' \in [by : Runners \cup {None}, age : 0..Stale] /\ faults' \in 0..MaxFaults
      /\ claim' = claim \/ (claim' = Free /\ claim.by = v)
  BY <1>1, Releasing
<1>4. /\ call' \in [Stoppers -> CallType]
      /\ \A s \in Stoppers : s # c => call'[s] = call[s]
      /\ call'[c].at = "stopped" /\ call[c].at = "waiting"
  BY <1>1, Typed DEF CallType, StopEnds
<1> HIDE DEF v
<1>5. TakesDown
  BY <1>1, <1>2, <1>3 DEF TakesDown, IInv, Popped
<1>6. FleetTypeOK'
  BY <1>1, <1>2, <1>3, <1>4, TypeUnfolds, Retyping
<1>7. Held' /\ RecordedBots'
  BY <1>1, <1>2, TypeUnfolds DEF IInv, Held, RecordedBots
<1>8. WatchedBots'
  BY <1>1, <1>2, <1>4 DEF IInv, WatchedBots, Stoppers
<1>9. Calls'
  BY <1>1, <1>2, <1>4 DEF IInv, Calls, Stoppers
<1> QED
  BY <1>5, <1>6, <1>7, <1>8, <1>9, TakingDown

LEMMA CallStepKeeps ==
    ASSUME IInv, NEW c \in Stoppers, CallStep(c)
    PROVE  IInv'
<1>1. CASE StopMisses(c) \/ (Returned(c) /\ call[c].at \in {"stopped", "missed"}
                             /\ UNCHANGED <<claim, fleet, runner, faults>>)
  <2>1. /\ FleetTypeOK /\ UNCHANGED <<claim, fleet, runner, faults>>
        /\ call' \in [Stoppers -> CallType]
        /\ \A s \in Stoppers : s # c => call'[s] = call[s]
        /\ call'[c].at \in {"missed", "done"}
        /\ call[c].at = "asked" => fleet[call[c].proc] = None
    BY <1>1, Typed, Constants DEF StopMisses, Returned, Done, CallType, IInv
  <2>2. FleetTypeOK'
    BY <2>1, TypeUnfolds, Typed, Retyping DEF FleetTypeOK
  <2>3. Fresh' /\ Held' /\ Alone' /\ Popped' /\ Ages' /\ RecordedBots' /\ OwnerUnlessCutOff'
    BY <2>1 DEF IInv, Fresh, Held, Alone, Popped, Ages, RecordedBots, OwnerUnlessCutOff
  <2>4. WatchedBots'
    BY <2>1, Constants DEF IInv, WatchedBots, Calls, RecordedBots, Stoppers
  <2>5. Calls'
    BY <2>1 DEF IInv, Calls, Stoppers
  <2> QED
    BY <2>2, <2>3, <2>4, <2>5 DEF IInv
<1> QED
  BY <1>1, StopBeginsKeeps, StopEndsKeeps DEF CallStep

LEMMA CallBeginsKeeps ==
    ASSUME IInv, NEW q \in Requests, NEW p \in Processes, CallBegins(q, p)
    PROVE  IInv'
<1>1. /\ FleetTypeOK /\ UNCHANGED <<claim, fleet, runner, faults>>
      /\ call' = [call EXCEPT ![q] = [call[q] EXCEPT !.at = "asked", !.proc = p]]
      /\ q \in Stoppers /\ q \notin Runners
  BY Constants DEF CallBegins, IInv, Stoppers
<1>2. /\ call' \in [Stoppers -> CallType]
      /\ \A s \in Stoppers : s # q => call'[s] = call[s]
      /\ call'[q].at = "asked" /\ call'[q].proc = p
  <2>1. call[q] \in CallType
    BY <1>1, Typed
  <2> QED
    BY <1>1, <2>1, Typed DEF CallType
<1>3. FleetTypeOK'
  BY <1>1, <1>2, TypeUnfolds, Typed, Retyping DEF FleetTypeOK
<1>4. Fresh' /\ Held' /\ Alone' /\ Popped' /\ Ages' /\ RecordedBots' /\ OwnerUnlessCutOff'
  BY <1>1 DEF IInv, Fresh, Held, Alone, Popped, Ages, RecordedBots, OwnerUnlessCutOff
<1>5. WatchedBots' /\ Calls'
  BY <1>1, <1>2 DEF IInv, WatchedBots, Calls, Stoppers
<1> QED
  BY <1>3, <1>4, <1>5 DEF IInv

-----------------------------------------------------------------------------
(* start_bot, and the death of a process                                   *)

LEMMA StartBotKeeps ==
    ASSUME IInv, Prompt, NEW p \in Processes, NEW r \in Runners, StartBot(p, r)
    PROVE  IInv'
<1>1. /\ FleetTypeOK /\ runner[r].phase = "fresh" /\ fleet[p] = None /\ Takeable /\ Quiet(p)
      /\ runner[r].at = None /\ runner[r].cut = 0 /\ runner[r].hb = "off"
      /\ fleet' = [fleet EXCEPT ![p] = r] /\ claim' = [by |-> r, age |-> 0]
      /\ UNCHANGED <<call, faults>>
  BY DEF StartBot, NoFault, IInv, Fresh
<1>2. /\ runner' \in [Runners -> RunnerType]
      /\ \A s \in Runners : s # r => runner'[s] = runner[s]
      /\ runner'[r].phase = "booting" /\ runner'[r].at = p /\ runner'[r].hb = "wait"
      /\ runner'[r].cut = 0
  <2> DEFINE new == [runner[r] EXCEPT !.phase = "booting", !.at = p, !.hb = "wait"]
  <2>1. runner' = [runner EXCEPT ![r] = new]
    BY DEF StartBot
  <2>2. runner[r] \in RunnerType /\ "booting" \in Phases /\ "wait" \in Beats
    BY <1>1, Typed DEF Phases, Active, Beats
  <2>3. /\ new \in RunnerType
        /\ new.phase = "booting" /\ new.at = p /\ new.hb = "wait" /\ new.cut = runner[r].cut
    BY <2>2, Zenon DEF RunnerType
  <2> HIDE DEF new
  <2> QED
    BY <1>1, <2>1, <2>3, Typed
<1>3. \A s \in Runners : s # r /\ runner'[s].phase \in Active \cup Ending => runner'[s].at # p
  BY <1>1, <1>2, Constants DEF IInv, RecordedBots, Quiet
<1>4. FleetTypeOK'
  BY <1>1, <1>2, TypeUnfolds, Typed, Retyping, Constants
<1>5. Fresh' /\ Popped'
  BY <1>1, <1>2 DEF IInv, Fresh, Popped
<1>6. Held'
  BY <1>1, <1>2, TypeUnfolds, Constants DEF IInv, Held, Active
<1>7. Alone'
  BY <1>1, <1>2, <1>3 DEF IInv, Alone
<1>8. RecordedBots'
  BY <1>1, <1>2, <1>3, TypeUnfolds DEF IInv, RecordedBots
<1>9. WatchedBots'
  BY <1>1, <1>2 DEF IInv, WatchedBots
<1>10. Calls'
  <2>1. call[r].at # "asked"
    BY <1>1 DEF IInv, Calls
  <2>2. \A s \in Stoppers : call'[s].at = "asked" => call'[s].proc \in Processes
    BY <1>1 DEF IInv, Calls
  <2>3. \A s \in Stoppers : call'[s].at = "waiting" =>
           /\ call'[s].victim \in Runners
           /\ runner'[call'[s].victim].phase \notin Active \cup {"fresh"}
    BY <1>1, <1>2 DEF IInv, Calls
  <2>4. \A s \in Runners : call'[s].at = "asked" =>
           /\ runner'[s].phase # "fresh"
           /\ runner'[s].phase \in Active => call'[s].proc = runner'[s].at
    BY <1>1, <1>2, <2>1 DEF IInv, Calls
  <2> QED
    BY <2>2, <2>3, <2>4 DEF Calls
<1>11. Ages'
  BY <1>1, <1>2, Constants DEF IInv, Ages
<1>12. OwnerUnlessCutOff'
  BY <1>1, <1>2, Typed, TypeUnfolds, Constants DEF IInv, OwnerUnlessCutOff, Ages, Takeable
<1> QED
  BY <1>4, <1>5, <1>6, <1>7, <1>8, <1>9, <1>10, <1>11, <1>12 DEF IInv

LEMMA StartUnansweredKeeps ==
    ASSUME IInv, NEW p \in Processes, NEW r \in Runners, StartUnanswered(p, r)
    PROVE  IInv'
<1>1. /\ FleetTypeOK /\ runner[r].phase = "fresh" /\ Takeable
      /\ runner[r].at = None /\ runner[r].cut = 0 /\ runner[r].hb = "off"
      /\ claim' = [by |-> r, age |-> 0]
      /\ UNCHANGED <<fleet, call>> /\ faults' \in 0..MaxFaults
  BY TypeUnfolds, Faulting DEF StartUnanswered, IInv, Fresh
<1>2. /\ runner' \in [Runners -> RunnerType]
      /\ \A s \in Runners : s # r => runner'[s] = runner[s]
      /\ runner'[r].phase = "gone" /\ runner'[r].at = p /\ runner'[r].hb = "off"
  <2>1. runner' = [runner EXCEPT ![r] = [runner[r] EXCEPT !.phase = "gone", !.at = p]]
    BY DEF StartUnanswered
  <2>2. runner[r] \in RunnerType /\ "gone" \in Phases
    BY <1>1, Typed DEF Phases
  <2> QED
    BY <1>1, <2>1, <2>2, Typed DEF RunnerType
<1>3. FleetTypeOK'
  BY <1>1, <1>2, TypeUnfolds, Typed, Retyping, Constants
<1>4. Fresh' /\ Popped' /\ Alone'
  BY <1>1, <1>2 DEF IInv, Fresh, Popped, Alone, Active, Ending
<1>5. Held' /\ RecordedBots' /\ WatchedBots'
  BY <1>1, <1>2, TypeUnfolds DEF IInv, Held, RecordedBots, WatchedBots, Active
<1>6. Calls'
  BY <1>1, <1>2 DEF IInv, Calls, Active
<1>7. Ages'
  BY <1>1, <1>2, Constants DEF IInv, Ages, Active
<1>8. OwnerUnlessCutOff'
  BY <1>1, <1>2, Typed, TypeUnfolds, Constants DEF IInv, OwnerUnlessCutOff, Ages, Takeable, Active
<1> QED
  BY <1>3, <1>4, <1>5, <1>6, <1>7, <1>8 DEF IInv

LEMMA ConstructionFailsKeeps ==
    ASSUME IInv, NEW p \in Processes, ConstructionFails(p)
    PROVE  IInv'
<1>1. /\ FleetTypeOK /\ Takeable /\ claim' = Free /\ UNCHANGED <<fleet, runner, call, faults>>
  BY DEF ConstructionFails, NoFault, IInv
<1>2. FleetTypeOK'
  BY <1>1, TypeUnfolds, Typed, Retyping DEF FleetTypeOK
<1>3. Fresh' /\ Held' /\ Alone' /\ Popped' /\ Calls' /\ RecordedBots' /\ WatchedBots'
  BY <1>1, Constants DEF IInv, Fresh, Held, Alone, Popped, Calls, RecordedBots, WatchedBots, Free
<1>4. Ages'
  BY <1>1, Constants DEF Ages, Free
<1>5. OwnerUnlessCutOff'
  BY <1>1, Typed, TypeUnfolds, Constants DEF IInv, OwnerUnlessCutOff, Ages, Takeable
<1> QED
  BY <1>2, <1>3, <1>4, <1>5 DEF IInv

LEMMA ProcessDiesKeeps ==
    ASSUME IInv, NEW p \in Processes, ProcessDies(p)
    PROVE  IInv'
<1>1. /\ FleetTypeOK /\ fleet' = [fleet EXCEPT ![p] = None] /\ claim' = claim
      /\ faults' \in 0..MaxFaults
  BY TypeUnfolds, Faulting DEF ProcessDies, IInv
<1>2. \A r \in Runners : Gone(runner[r]) \in RunnerType
  <2> SUFFICES ASSUME NEW r \in Runners PROVE Gone(runner[r]) \in RunnerType
    OBVIOUS
  <2>1. /\ runner[r] \in RunnerType /\ "gone" \in Phases /\ 0 \in 0..Stale /\ 0 \in Nat
        /\ "off" \in Beats /\ None \in Runners \cup {None}
    BY <1>1, Typed, Constants DEF Phases, Beats
  <2> QED
    BY <2>1, Zenon DEF Gone, RunnerType
<1>3. /\ runner' \in [Runners -> RunnerType]
      /\ \A r \in Runners : /\ runner[r].at # p => runner'[r] = runner[r]
                            /\ runner[r].at = p => runner'[r] = Gone(runner[r])
  BY <1>1, <1>2, Typed DEF ProcessDies
<1>4. \A r \in Runners : runner[r].at = p =>
        runner'[r].phase = "gone" /\ runner'[r].at = p
  <2> SUFFICES ASSUME NEW r \in Runners, runner[r].at = p
               PROVE  runner'[r].phase = "gone" /\ runner'[r].at = p
    OBVIOUS
  <2>1. runner[r] \in RunnerType /\ runner'[r] = Gone(runner[r])
    BY <1>1, <1>3, Typed
  <2>2. Gone(runner[r]).phase = "gone" /\ Gone(runner[r]).at = runner[r].at
    BY <2>1, Zenon DEF Gone, RunnerType
  <2> QED
    BY <2>1, <2>2
<1>5. /\ call' \in [Stoppers -> CallType]
      /\ \A s \in Stoppers : /\ call[s].proc # p => call'[s] = call[s]
                             /\ call[s].proc = p => call'[s].at = "done"
  <2>1. Done \in CallType /\ Done.at = "done"
    BY DEF Done, CallType
  <2> QED
    BY <1>1, <2>1, Typed DEF ProcessDies
<1>6. TakesDown
  <2>1. \A r \in Runners : runner[r].phase = "fresh" => runner[r].at # p
    BY Constants DEF IInv, Fresh
  <2> QED
    BY <1>1, <1>3, <1>4, <2>1 DEF TakesDown, IInv, Active, Ending, Popped
<1>7. FleetTypeOK'
  BY <1>1, <1>3, <1>5, TypeUnfolds, Constants, Retyping DEF FleetTypeOK
<1>8. Held'
  BY <1>1, <1>3, <1>4, TypeUnfolds, Constants DEF IInv, Held
<1>9. RecordedBots'
  BY <1>1, <1>3, <1>4, TypeUnfolds DEF IInv, RecordedBots, Active
<1>10. WatchedBots'
  BY <1>3, <1>4, <1>5 DEF IInv, WatchedBots, Calls, Active, Stoppers
<1>11. Calls'
  BY <1>3, <1>4, <1>5 DEF IInv, Calls, Active, Stoppers
<1> QED
  BY <1>6, <1>7, <1>8, <1>9, <1>10, <1>11, TakingDown

-----------------------------------------------------------------------------
(* The fleet, and the rows over it                                         *)

LEMMA FleetInitially == FleetInit => IInv
<1> SUFFICES ASSUME FleetInit PROVE IInv
  OBVIOUS
<1>1. /\ claim.by = None /\ claim.age = 0 /\ fleet = [p \in Processes |-> None]
      /\ \A r \in Runners : /\ runner[r].phase = "fresh" /\ runner[r].at = None
                            /\ runner[r].hb = "off" /\ runner[r].cut = 0
      /\ \A s \in Stoppers : call[s].at = "idle"
  BY DEF FleetInit
<1>2. FleetTypeOK
  BY Constants DEF FleetInit, FleetTypeOK, Phases, Beats
<1>3. Fresh /\ Held /\ Alone /\ Popped
  BY <1>1, Constants DEF Fresh, Held, Alone, Popped, Active, Ending
<1>4. Calls /\ Ages
  BY <1>1 DEF Calls, Ages, Active, Stoppers
<1>5. RecordedBots /\ WatchedBots /\ OwnerUnlessCutOff
  BY <1>1 DEF RecordedBots, WatchedBots, OwnerUnlessCutOff, Active
<1> QED
  BY <1>2, <1>3, <1>4, <1>5 DEF IInv

LEMMA FleetKeeps ==
    ASSUME IInv, Prompt, [FleetStep]_fleetVars
    PROVE  IInv'
<1>1. CASE UNCHANGED fleetVars
  BY <1>1 DEF fleetVars, IInv, FleetTypeOK, Fresh, Held, Alone, Popped, Calls, Ages,
       RecordedBots, WatchedBots, OwnerUnlessCutOff
<1>2. ASSUME NEW r \in Runners, BotStep(r) PROVE IInv'
  BY <1>2, BootsKeeps, BootFailsKeeps, BootGivesUpKeeps, EndingKeeps, CleanUpKeeps, ReportsKeeps
     DEF BotStep
<1>3. ASSUME NEW p \in Processes, ProcessStep(p) PROVE IInv'
  <2>1. CASE StartRefused(p)
    <3>1. UNCHANGED <<claim, fleet, runner, call>> /\ faults' \in 0..MaxFaults
      BY <2>1, TypeUnfolds, Faulting DEF StartRefused, IInv
    <3> QED
      BY <3>1 DEF IInv, FleetTypeOK, Fresh, Held, Alone, Popped, Calls, Ages,
           RecordedBots, WatchedBots, OwnerUnlessCutOff
  <2> QED
    BY <1>3, <2>1, StartBotKeeps, StartUnansweredKeeps, ConstructionFailsKeeps, ProcessDiesKeeps
       DEF ProcessStep, StartFails
<1> QED
  BY <1>1, <1>2, <1>3, BeatingKeeps, CallStepKeeps, CallBeginsKeeps, TimePassesKeeps DEF FleetStep

\* What the rows add to the fleet is typed too.
RowTypeOK ==
    /\ row \in [Deployments -> Statuses]
    /\ runs \in [Runners -> Deployments \cup {None}]
    /\ deploy \in [Deployments -> [at : {"none", "inserted", "started", "refused", "done"},
                                   proc : Processes \cup {None}]]
    /\ wants \in [Requests -> [dep : Deployments \cup {None}, live : BOOLEAN]]
    /\ up \subseteq Processes
    /\ resume \in [Processes -> SUBSET Deployments]

\* A start refused on behalf of a row happens in some process.
Deploying == \A d \in Deployments :
    deploy[d].at = "inserted" => deploy[d].proc \in Processes

\* Every step of the rows is a step of the fleet or leaves the fleet alone.
LEMMA RowsStepTheFleet ==
    ASSUME FleetTypeOK, Deploying, [Next]_vars
    PROVE  [FleetStep]_fleetVars
<1>1. CASE UNCHANGED vars
  BY <1>1 DEF vars, fleetVars
<1>2. ASSUME NEW r \in Runners,
             Task(r) \/ BotFails(r)
      PROVE  FleetStep
  <2>1. DeathReported(r) => BotStep(r)
    BY DEF DeathReported, ReportFailure, BotStep
  <2>2. BotStep(r)
    BY <1>2, <2>1 DEF Task, BotFails, BotStep
  <2> QED
    BY <2>2 DEF FleetStep
<1>3. ASSUME NEW r \in Runners, Beat(r) \/ BeatFails(r)
      PROVE  FleetStep
  <2>1. StopRequested(runner[r].at) \in BOOLEAN /\ FALSE \in BOOLEAN
    BY DEF StopRequested
  <2>2. Beat(r) => Beating(r)
    BY <2>1 DEF Beat, Beating
  <2>3. BeatFails(r) => Beating(r)
    BY <2>1 DEF BeatFails, Beating
  <2> QED
    BY <1>3, <2>2, <2>3 DEF FleetStep
<1>4. ASSUME NEW r \in Runners, StopConfirmed(r)
      PROVE  FleetStep
  BY <1>4 DEF StopConfirmed, CallStep, FleetStep, Stoppers
<1>5. ASSUME NEW s \in Stoppers, StopBot(s)
      PROVE  FleetStep
  BY <1>5 DEF StopBot, CallStep, FleetStep
<1>6. ASSUME NEW q \in Requests, StopRecorded(q)
      PROVE  FleetStep
  BY <1>6 DEF StopRecorded, CallStep, FleetStep, Stoppers
<1>7. ASSUME NEW q \in Requests, NEW d \in Deployments, NEW p \in Processes, StopCalled(q, d, p)
      PROVE  FleetStep
  BY <1>7 DEF StopCalled, CallBegins, FleetStep
<1>8. ASSUME NEW d \in Deployments, DeployStarts(d) \/ DeployRefused(d) \/ DeployRecorded(d)
      PROVE  [FleetStep]_fleetVars
  <2>1. CASE DeployRecorded(d)
    BY <2>1 DEF DeployRecorded, fleetVars
  <2>2. CASE DeployStarts(d) \/ DeployRefused(d)
    BY <2>2 DEF DeployStarts, DeployRefused, Deploying, ProcessStep, FleetStep
  <2> QED
    BY <1>8, <2>1, <2>2
<1>9. ASSUME NEW d \in Deployments, NEW p \in Processes,
             Insert(d, p) \/ ResumeStarts(p, d) \/ ResumeRefused(p, d) \/ ResumeFails(p, d)
      PROVE  [FleetStep]_fleetVars
  <2>1. CASE Insert(d, p) \/ ResumeFails(p, d)
    BY <2>1 DEF Insert, ResumeFails, fleetVars
  <2>2. CASE ResumeStarts(p, d) \/ ResumeRefused(p, d)
    BY <2>2 DEF ResumeStarts, ResumeRefused, ProcessStep, FleetStep
  <2> QED
    BY <1>9, <2>1, <2>2
<1>10. ASSUME NEW p \in Processes, Crash(p) \/ Boot(p)
       PROVE  [FleetStep]_fleetVars
  BY <1>10 DEF Crash, Boot, ProcessStep, FleetStep, fleetVars
<1>11. CASE TimePasses /\ UNCHANGED rowVars
  BY <1>11 DEF FleetStep
<1> QED
  BY <1>1, <1>2, <1>3, <1>4, <1>5, <1>6, <1>7, <1>8, <1>9, <1>10, <1>11 DEF Next

LEMMA Marking ==
    ASSUME row \in [Deployments -> Statuses], NEW d,
           MarkFailed(d) \/ MarkStopped(d) \/ UNCHANGED row
    PROVE  row' \in [Deployments -> Statuses]
<1>1. "failed" \in Statuses /\ "stopped" \in Statuses
  BY DEF Statuses, StopStates
<1> QED
  BY <1>1 DEF MarkFailed, MarkStopped

LEMMA RowsKeepTheirType ==
    ASSUME RowTypeOK, Deploying, [Next]_vars
    PROVE  RowTypeOK' /\ Deploying'
<1> USE DEF RowTypeOK, Deploying
<1>1. CASE UNCHANGED rowVars
  BY <1>1 DEF rowVars
<1>2. ASSUME NEW r \in Runners, DeathReported(r) \/ StopConfirmed(r)
      PROVE  RowTypeOK' /\ Deploying'
  <2>1. PICK d : MarkFailed(d) \/ MarkStopped(d) \/ UNCHANGED row
    BY <1>2 DEF DeathReported, ReportFailure, StopConfirmed
  <2>2. row' \in [Deployments -> Statuses]
    BY <2>1, Marking
  <2> QED
    BY <1>2, <2>2 DEF DeathReported, StopConfirmed
<1>3. ASSUME NEW q \in Requests, StopRecorded(q)
      PROVE  RowTypeOK' /\ Deploying'
  <2>1. {"stopping", "stopped"} \subseteq Statuses
    BY DEF Statuses, StopStates
  <2>2. row' \in [Deployments -> Statuses]
    BY <1>3, <2>1 DEF StopRecorded
  <2>3. wants' \in [Requests -> [dep : Deployments \cup {None}, live : BOOLEAN]]
    BY <1>3 DEF StopRecorded
  <2> QED
    BY <1>3, <2>2, <2>3 DEF StopRecorded
<1>4. ASSUME NEW q \in Requests, NEW d \in Deployments, NEW p \in Processes, StopCalled(q, d, p)
      PROVE  RowTypeOK' /\ Deploying'
  <2>1. wants' \in [Requests -> [dep : Deployments \cup {None}, live : BOOLEAN]]
    BY <1>4 DEF StopCalled
  <2> QED
    BY <1>4, <2>1 DEF StopCalled
<1>5. ASSUME NEW d \in Deployments, DeployStarts(d) \/ DeployRefused(d) \/ DeployRecorded(d)
      PROVE  RowTypeOK' /\ Deploying'
  <2>1. CASE DeployStarts(d)
    BY <2>1 DEF DeployStarts
  <2>2. CASE DeployRefused(d)
    BY <2>2 DEF DeployRefused
  <2>3. CASE DeployRecorded(d)
    <3>1. {"running", "failed"} \subseteq Statuses
      BY DEF Statuses, Live
    <3>2. row' \in [Deployments -> Statuses]
      BY <2>3, <3>1 DEF DeployRecorded
    <3> QED
      BY <2>3, <3>2 DEF DeployRecorded, Deployed
  <2> QED
    BY <1>5, <2>1, <2>2, <2>3
<1>6. ASSUME NEW d \in Deployments, NEW p \in Processes,
             Insert(d, p) \/ ResumeStarts(p, d) \/ ResumeRefused(p, d) \/ ResumeFails(p, d)
      PROVE  RowTypeOK' /\ Deploying'
  <2>1. CASE Insert(d, p)
    <3>1. "deploying" \in Statuses
      BY DEF Statuses, Live
    <3> QED
      BY <2>1, <3>1 DEF Insert
  <2>2. CASE ResumeStarts(p, d)
    BY <2>2 DEF ResumeStarts
  <2>3. CASE ResumeRefused(p, d)
    BY <2>3 DEF ResumeRefused
  <2>4. CASE ResumeFails(p, d)
    <3>1. row' \in [Deployments -> Statuses]
      BY <2>4, Marking DEF ResumeFails
    <3> QED
      BY <2>4, <3>1 DEF ResumeFails
  <2> QED
    BY <1>6, <2>1, <2>2, <2>3, <2>4
<1>7. ASSUME NEW p \in Processes, Crash(p)
      PROVE  RowTypeOK' /\ Deploying'
  <2>1. /\ UNCHANGED <<row, runs>> /\ up' \subseteq Processes
        /\ resume' \in [Processes -> SUBSET Deployments]
    BY <1>7 DEF Crash
  <2>2. /\ Deployed \in [at : {"none", "inserted", "started", "refused", "done"},
                          proc : Processes \cup {None}]
        /\ Deployed.at = "done"
    BY DEF Deployed
  <2>3. /\ deploy' \in [Deployments -> [at : {"none", "inserted", "started", "refused", "done"},
                                         proc : Processes \cup {None}]]
        /\ Deploying'
    BY <1>7, <2>2 DEF Crash
  <2>4. wants' \in [Requests -> [dep : Deployments \cup {None}, live : BOOLEAN]]
    BY <1>7 DEF Crash
  <2> QED
    BY <2>1, <2>3, <2>4
<1>8. ASSUME NEW p \in Processes, Boot(p)
      PROVE  RowTypeOK' /\ Deploying'
  <2>1. "stopped" \in Statuses
    BY DEF Statuses, StopStates
  <2>2. row' \in [Deployments -> Statuses]
    BY <1>8, <2>1 DEF Boot
  <2> QED
    BY <1>8, <2>2 DEF Boot
<1>9. CASE UNCHANGED vars
  BY <1>9 DEF vars
<1>10. \/ UNCHANGED vars \/ UNCHANGED rowVars
       \/ \E r \in Runners : DeathReported(r) \/ StopConfirmed(r)
       \/ \E q \in Requests : StopRecorded(q) \/ \E d \in Deployments, p \in Processes : StopCalled(q, d, p)
       \/ \E d \in Deployments :
            \/ DeployStarts(d) \/ DeployRefused(d) \/ DeployRecorded(d)
            \/ \E p \in Processes :
                 Insert(d, p) \/ ResumeStarts(p, d) \/ ResumeRefused(p, d) \/ ResumeFails(p, d)
       \/ \E p \in Processes : Crash(p) \/ Boot(p)
  BY Zenon DEF Next, Task, BotFails, Beat, BeatFails, StopBot
<1> QED
  BY <1>1, <1>2, <1>3, <1>4, <1>5, <1>6, <1>7, <1>8, <1>9, <1>10

-----------------------------------------------------------------------------
(* The theorems                                                            *)

Inv == IInv /\ RowTypeOK /\ Deploying

\* With tasks that are over, their callbacks included, when stop_bot's wait is
\* and before the next start, the invariant holds in every state: any number
\* of pods, bots, deployments, stops and faults.
THEOREM Invariance == Prompt => (Spec => []Inv)
<1> SUFFICES ASSUME Prompt PROVE Spec => []Inv
  OBVIOUS
<1>1. Init => Inv
  <2>1. Init => IInv
    BY FleetInitially DEF Init
  <2> QED
    BY <2>1 DEF Init, Inv, RowTypeOK, Deploying, Statuses
<1>2. Inv /\ [Next]_vars => Inv'
  <2>1. Inv /\ [Next]_vars => [FleetStep]_fleetVars
    BY RowsStepTheFleet DEF Inv, IInv
  <2>2. Inv /\ [Next]_vars => IInv'
    BY <2>1, FleetKeeps DEF Inv
  <2>3. Inv /\ [Next]_vars => RowTypeOK' /\ Deploying'
    BY RowsKeepTheirType DEF Inv
  <2> QED
    BY <2>2, <2>3 DEF Inv
<1> QED
  BY <1>1, <1>2, PTL DEF Spec

\* Every variable of the fleet and of its rows keeps to its type: the age of a
\* claim and the rounds that unreachable_since goes back stay within the
\* threshold, registries hold bots.
THEOREM TypeCorrectness == Prompt => (Spec => []TypeOK)
<1> SUFFICES ASSUME Prompt PROVE Spec => []TypeOK
  OBVIOUS
<1>1. Inv => TypeOK
  BY DEF Inv, IInv, RowTypeOK, TypeOK
<1> QED
  BY <1>1, Invariance, PTL

\* A bot that boots or trades holds the one claim of its key, or its process
\* has lost all but one round of the threshold to calls of the claim store that
\* failed or hung: takeover, release, surrender and cleanup never take the claim
\* from under a bot whose heartbeat still reaches the store.
THEOREM SingleOwnership == Prompt => (Spec => []OwnerUnlessCutOff)
<1> SUFFICES ASSUME Prompt PROVE Spec => []OwnerUnlessCutOff
  OBVIOUS
<1>1. Inv => OwnerUnlessCutOff
  BY DEF Inv, IInv
<1> QED
  BY <1>1, Invariance, PTL

\* A bot that boots or trades is the one registered under its key in its
\* process: stop_bot and its heartbeat can always reach it.
THEOREM Registered == Prompt => (Spec => []RecordedBots)
<1> SUFFICES ASSUME Prompt PROVE Spec => []RecordedBots
  OBVIOUS
<1>1. Inv => RecordedBots
  BY DEF Inv, IInv
<1> QED
  BY <1>1, Invariance, PTL

\* A bot that boots or trades has a heartbeat, or the stop its heartbeat asked
\* for is about to run: no path ends the heartbeat and leaves the bot.
THEOREM Watched == Prompt => (Spec => []WatchedBots)
<1> SUFFICES ASSUME Prompt PROVE Spec => []WatchedBots
  OBVIOUS
<1>1. Inv => WatchedBots
  BY DEF Inv, IInv
<1> QED
  BY <1>1, Invariance, PTL

-----------------------------------------------------------------------------
(* What it takes for a bot to have two owners                              *)

\* Every round a process is cut off for is a failed call, or an interval that a
\* call hangs for.
CutsAreFaults == \A r \in Runners : runner[r].cut <= faults

\* A step leaves the cut off of every bot alone or ends it.
CutsStand == \A r \in Runners : runner'[r].cut \in {0, runner[r].cut}

\* Or it is a fault, which cuts each of them off for one round more at most.
CutsCost ==
    \/ faults' = faults /\ \A r \in Runners : runner'[r].cut <= runner[r].cut
    \/ faults' = faults + 1 /\ \A r \in Runners : runner'[r].cut <= runner[r].cut + 1

LEMMA StandingCuts ==
    ASSUME FleetTypeOK, NoFault \/ Fault, CutsStand
    PROVE  CutsCost
<1>1. \A r \in Runners : /\ runner'[r].cut <= runner[r].cut
                         /\ runner'[r].cut <= runner[r].cut + 1
  BY Typed, Constants DEF CutsStand
<1>2. faults' = faults \/ faults' = faults + 1
  BY DEF NoFault, Fault
<1> QED
  BY <1>1, <1>2 DEF CutsCost

LEMMA SilencedCuts ==
    ASSUME NEW run \in [Runners -> RunnerType], NEW v \in Runners \cup {None}
    PROVE  \A r \in Runners : StopHeartbeat(run, v)[r].cut \in {0, run[r].cut}
<1> SUFFICES ASSUME NEW r \in Runners
             PROVE  StopHeartbeat(run, v)[r].cut \in {0, run[r].cut}
  OBVIOUS
<1>1. CASE r = v
  <2>1. v # None
    BY <1>1, Constants
  <2> QED
    BY <1>1, <2>1, Silencing
<1>2. CASE r # v
  BY <1>2, Silencing
<1> QED
  BY <1>1, <1>2

LEMMA PoppedCuts ==
    ASSUME FleetTypeOK, NEW r \in Runners, NEW ph \in Phases, NEW pop \in Runners \cup {None},
           NEW v \in Runners \cup {None}, runner' = StopHeartbeat(Pop(r, ph, pop), v),
           NoFault \/ Fault
    PROVE  CutsCost
<1> DEFINE run == Pop(r, ph, pop)
<1>1. run \in [Runners -> RunnerType] /\ \A s \in Runners : run[s].cut = runner[s].cut
  <2>1. /\ run \in [Runners -> RunnerType] /\ run[r].cut = runner[r].cut
        /\ \A s \in Runners : s # r => run[s] = runner[s]
    BY Popping
  <2> HIDE DEF run
  <2> QED
    BY <2>1
<1>2. runner' = StopHeartbeat(run, v)
  OBVIOUS
<1> HIDE DEF run
<1>3. \A s \in Runners : runner'[s].cut \in {0, run[s].cut}
  BY <1>1, <1>2, SilencedCuts
<1>4. CutsStand
  BY <1>1, <1>3 DEF CutsStand
<1> QED
  BY <1>4, StandingCuts

LEMMA BotStepCuts ==
    ASSUME IInv, NEW r \in Runners, BotStep(r)
    PROVE  CutsCost
<1>0. FleetTypeOK
  BY DEF IInv
<1>1. ASSUME NEW ph \in Phases, runner' = [runner EXCEPT ![r].phase = ph], UNCHANGED faults
      PROVE  CutsCost
  BY <1>0, <1>1, Changing, StandingCuts DEF CutsStand, NoFault
<1>2. {"trading", "failing", "closing", "returned", "reporting", "gone"} \subseteq Phases
  BY DEF Phases, Active, Ending
<1>3. CASE Boots(r) \/ TradingEnds(r) \/ Closes(r)
  BY <1>1, <1>2, <1>3 DEF Boots, TradingEnds, Closes
<1>4. CASE BootFails(r)
  <2>1. \A s \in Runners : runner'[s].cut = runner[s].cut
    BY <1>0, <1>4, Typed DEF BootFails, RunnerType
  <2> QED
    BY <1>0, <1>4, <2>1, StandingCuts DEF BootFails, CutsStand, NoFault
<1>5. CASE BootGivesUp(r)
  <2>1. /\ runner' = StopHeartbeat(Pop(r, "returned", None), runner[r].popped)
        /\ runner[r].popped \in Runners \cup {None} /\ (NoFault \/ Fault)
    BY <1>0, <1>5, Typed DEF BootGivesUp, Release, Pop
  <2> QED
    BY <1>0, <1>2, <2>1, PoppedCuts
<1>6. CASE CleanUp(r)
  <2> DEFINE v == fleet[runner[r].at]
             report == runner[r].phase = "returned" /\ v # None
             ph == IF report THEN "reporting" ELSE "gone"
             pop == IF report THEN v ELSE None
  <2>1. runner' = StopHeartbeat(Pop(r, ph, pop), v) /\ (NoFault \/ Fault)
    BY <1>6 DEF CleanUp, Release, Pop
  <2>2. v \in Runners \cup {None}
    BY <1>0, <1>6, TypeUnfolds DEF CleanUp, IInv, Fresh
  <2>3. ph \in Phases /\ pop \in Runners \cup {None}
    BY <1>2, <2>2
  <2> HIDE DEF ph, pop, v
  <2> QED
    BY <1>0, <2>1, <2>2, <2>3, PoppedCuts
<1>7. CASE Reports(r) /\ (NoFault \/ Fault)
  <2>1. \A s \in Runners : runner'[s].cut = runner[s].cut
    BY <1>0, <1>7, Typed DEF Reports, RunnerType
  <2> QED
    BY <1>0, <1>7, <2>1, StandingCuts DEF CutsStand
<1> QED
  BY <1>3, <1>4, <1>5, <1>6, <1>7 DEF BotStep

LEMMA SurrenderCuts ==
    ASSUME IInv, NEW r \in Runners, runner[r].hb # "off", Surrender(r)
    PROVE  CutsStand
<1> DEFINE v == fleet[runner[r].at]
           run == StopHeartbeat(runner, r)
<1>1. /\ FleetTypeOK /\ v \in Runners \cup {None}
  BY Due
<1>2. /\ run \in [Runners -> RunnerType]
      /\ \A s \in Runners : run[s].cut \in {0, runner[s].cut}
  BY <1>1, Typed, Silencing, SilencedCuts
<1>3. runner' \in CancelTask(run, v)
  BY DEF Surrender
<1> HIDE DEF run, v
<1>4. \A s \in Runners : runner'[s].cut = run[s].cut
  BY <1>1, <1>2, <1>3, Cancelling
<1> QED
  BY <1>2, <1>4 DEF CutsStand

\* One round: the bot of the heartbeat goes on and only its cut off changes.
Rounded(r, c) ==
    /\ runner'[r].phase = runner[r].phase /\ runner'[r].cut = c
    /\ \A s \in Runners : s # r => runner'[s] = runner[s]

LEMMA RoundIsRounded ==
    ASSUME FleetTypeOK, NEW r \in Runners, NEW h \in Beats, NEW c \in Nat, NEW n \in 0..Stale,
           runner' = Round(r, h, c, n)
    PROVE  Rounded(r, c)
<1>1. /\ \A s \in Runners : s # r => Round(r, h, c, n)[s] = runner[s]
      /\ Round(r, h, c, n)[r].phase = runner[r].phase /\ Round(r, h, c, n)[r].cut = c
  BY Rounding
<1> QED
  BY <1>1 DEF Rounded

LEMMA AffirmedIsRounded ==
    ASSUME FleetTypeOK, NEW r \in Runners, NEW seen \in BOOLEAN, NEW c \in Nat,
           Affirmed(r, c, seen)
    PROVE  Rounded(r, c)
<1> DEFINE h == IF seen THEN "off" ELSE "wait"
<1>1. runner' = Round(r, h, c, 0)
  BY DEF Affirmed
<1>2. h \in Beats /\ 0 \in 0..Stale
  BY Constants DEF Beats
<1> HIDE DEF h
<1> QED
  BY <1>1, <1>2, RoundIsRounded

\* What a round does to the cut off, and what it says of the claim.
LEMMA Rounds ==
    ASSUME IInv, NEW r \in Runners, Beating(r)
    PROVE  \/ Surrender(r) /\ runner[r].hb # "off" /\ (NoFault \/ Fault)
           \/ Rounded(r, runner[r].cut) /\ (NoFault \/ Fault)
           \/ Rounded(r, runner[r].cut + 1) /\ Fault
           \/ Rounded(r, 0) /\ claim.by = r /\ (NoFault \/ Fault)
           \/ Rounded(r, 1) /\ claim.by = r /\ Fault
<1>0. /\ FleetTypeOK /\ runner[r].cut \in Nat /\ runner[r].cut + 1 \in Nat
      /\ 0 \in Nat /\ 1 \in Nat
  BY Typed DEF IInv
<1>1. ASSUME NEW seen \in BOOLEAN, BeatRefreshes(r, seen) PROVE Rounded(r, 0) /\ claim.by = r
  BY <1>0, <1>1, AffirmedIsRounded DEF BeatRefreshes
<1>2. ASSUME NEW seen \in BOOLEAN, BeatAnswered(r, seen) PROVE Rounded(r, runner[r].cut)
  BY <1>0, <1>2, AffirmedIsRounded DEF BeatAnswered
<1>3. CASE BeatLost(r) \/ (BeatUnreachable(r) /\ runner[r].since = Stale)
  BY <1>3 DEF BeatLost, BeatUnreachable, Awake, NoFault
<1>4. CASE BeatUnreachable(r) /\ runner[r].since # Stale
  <2>1. /\ runner' = Round(r, "wait", runner[r].cut + 1, runner[r].since + 1)
        /\ runner[r].since + 1 \in 0..Stale /\ "wait" \in Beats /\ Fault
    BY <1>0, <1>4, Typed, Constants DEF BeatUnreachable, Beats
  <2>2. Rounded(r, runner[r].cut + 1)
    BY <1>0, <2>1, RoundIsRounded
  <2> QED
    BY <2>1, <2>2
<1>5. CASE BeatHangs(r)
  <2>1. \/ Hangs(r, "hung", runner[r].cut + 1) \/ Hangs(r, "late", runner[r].cut + 1)
        \/ Hangs(r, "late", 1) /\ claim.by = r
    BY <1>5 DEF BeatHangs
  <2>2. Fault /\ "hung" \in Beats /\ "late" \in Beats
    BY <1>5 DEF BeatHangs, Beats
  <2>3. ASSUME NEW h \in Beats, NEW c \in Nat, Hangs(r, h, c) PROVE Rounded(r, c)
    <3>1. PICK n \in 0..Stale : runner' = Round(r, h, c, n)
      BY <1>0, <2>3, HangsIsARound
    <3> QED
      BY <1>0, <3>1, RoundIsRounded
  <2> QED
    BY <1>0, <2>1, <2>2, <2>3
<1> QED
  BY <1>1, <1>2, <1>3, <1>4, <1>5 DEF Beating

LEMMA BeatingCuts ==
    ASSUME IInv, NEW r \in Runners, Beating(r)
    PROVE  CutsCost
<1>0. FleetTypeOK /\ \A s \in Runners : runner[s].cut \in Nat
  BY Typed DEF IInv
<1>1. CASE Surrender(r) /\ runner[r].hb # "off" /\ (NoFault \/ Fault)
  BY <1>0, <1>1, SurrenderCuts, StandingCuts
<1>2. ASSUME NEW c \in {0, runner[r].cut}, Rounded(r, c), NoFault \/ Fault
      PROVE  CutsCost
  BY <1>0, <1>2, StandingCuts DEF CutsStand, Rounded
<1>3. ASSUME NEW c \in {1, runner[r].cut + 1}, Rounded(r, c), Fault
      PROVE  CutsCost
  <2>1. c <= runner[r].cut + 1
    BY <1>0
  <2>2. \A s \in Runners : runner'[s].cut <= runner[s].cut + 1
    BY <1>0, <1>3, <2>1 DEF Rounded
  <2> QED
    BY <1>3, <2>2 DEF CutsCost, Fault
<1> QED
  BY <1>1, <1>2, <1>3, Rounds

LEMMA ProcessStepCuts ==
    ASSUME IInv, NEW p \in Processes, ProcessStep(p)
    PROVE  CutsCost
<1>0. FleetTypeOK
  BY DEF IInv
<1>1. ASSUME NEW r \in Runners, StartBot(p, r) PROVE CutsCost
  <2>1. \A s \in Runners : runner'[s].cut = runner[s].cut
    BY <1>0, <1>1, Typed DEF StartBot, RunnerType
  <2> QED
    BY <1>0, <1>1, <2>1, StandingCuts DEF CutsStand, StartBot
<1>2. ASSUME NEW r \in Runners, StartUnanswered(p, r) PROVE CutsCost
  <2>1. \A s \in Runners : runner'[s].cut = runner[s].cut
    BY <1>0, <1>2, Typed DEF StartUnanswered, RunnerType
  <2> QED
    BY <1>0, <1>2, <2>1, StandingCuts DEF CutsStand, StartUnanswered
<1>3. CASE StartRefused(p) \/ ConstructionFails(p)
  BY <1>0, <1>3, StandingCuts DEF CutsStand, StartRefused, ConstructionFails
<1>4. CASE ProcessDies(p)
  <2>1. \A s \in Runners : runner'[s].cut = IF runner[s].at = p THEN 0 ELSE runner[s].cut
    BY <1>0, <1>4, Typed DEF ProcessDies, Gone, RunnerType
  <2> QED
    BY <1>0, <1>4, <2>1, StandingCuts DEF CutsStand, ProcessDies
<1> QED
  BY <1>1, <1>2, <1>3, <1>4 DEF ProcessStep, StartFails

LEMMA CallStepCuts ==
    ASSUME IInv, NEW c \in Stoppers, CallStep(c)
    PROVE  CutsCost
<1>0. FleetTypeOK
  BY DEF IInv
<1>1. CASE StopBegins(c)
  <2> DEFINE v == fleet[call[c].proc]
  <2>1. v \in Runners \cup {None}
    BY <1>1, <1>0, TypeUnfolds DEF IInv, Calls, StopBegins
  <2>2. runner' \in CancelTask(runner, v) /\ NoFault
    BY <1>1 DEF StopBegins, NoFault
  <2> HIDE DEF v
  <2>3. \A s \in Runners : runner'[s].cut = runner[s].cut
    BY <1>0, <2>1, <2>2, Typed, Cancelling
  <2> QED
    BY <1>0, <2>2, <2>3, StandingCuts DEF CutsStand
<1>2. CASE StopEnds(c)
  <2>1. /\ runner' = StopHeartbeat(runner, call[c].victim) /\ (NoFault \/ Fault)
        /\ call[c].victim \in Runners
    BY <1>2 DEF StopEnds, Release, IInv, Calls
  <2>2. CutsStand
    BY <1>0, <2>1, Typed, SilencedCuts DEF CutsStand
  <2> QED
    BY <1>0, <2>1, <2>2, StandingCuts
<1>3. CASE StopMisses(c) \/ UNCHANGED <<claim, fleet, runner, faults>>
  BY <1>0, <1>3, StandingCuts DEF CutsStand, StopMisses, NoFault
<1> QED
  BY <1>1, <1>2, <1>3 DEF CallStep

LEMMA FleetCuts ==
    ASSUME IInv, [FleetStep]_fleetVars
    PROVE  CutsCost
<1>0. FleetTypeOK
  BY DEF IInv
<1>1. CASE UNCHANGED fleetVars
  BY <1>0, <1>1, StandingCuts DEF CutsStand, fleetVars, NoFault
<1>2. CASE TimePasses
  <2>1. \A s \in Runners : runner'[s].cut = runner[s].cut
    BY <1>0, <1>2, Typed DEF TimePasses, RunnerType
  <2> QED
    BY <1>0, <1>2, <2>1, StandingCuts DEF CutsStand, TimePasses, NoFault
<1>3. ASSUME NEW q \in Requests, NEW p \in Processes, CallBegins(q, p) PROVE CutsCost
  BY <1>0, <1>3, StandingCuts DEF CutsStand, CallBegins, NoFault
<1> QED
  BY <1>1, <1>2, <1>3, BotStepCuts, BeatingCuts, CallStepCuts, ProcessStepCuts DEF FleetStep

LEMMA CutsAreFaultsStep ==
    ASSUME IInv, CutsAreFaults, CutsCost, FleetTypeOK'
    PROVE  CutsAreFaults'
<1>1. faults \in Nat /\ \A r \in Runners : runner[r].cut \in Nat
  BY Typed, TypeUnfolds, Constants DEF IInv
<1>2. \A r \in Runners : runner'[r].cut \in Nat
  BY Constants DEF FleetTypeOK
<1> QED
  BY <1>1, <1>2 DEF CutsAreFaults, CutsCost

\* A heartbeat cut off for n rounds has seen calls fail or hang for n of them,
\* whatever started, stopped or took over the bot meanwhile.
THEOREM CutOffsAreFaults == Prompt => (Spec => [](Inv /\ CutsAreFaults))
<1> SUFFICES ASSUME Prompt PROVE Spec => [](Inv /\ CutsAreFaults)
  OBVIOUS
<1>1. Init => CutsAreFaults
  BY DEF Init, FleetInit, CutsAreFaults
<1>2. Inv /\ Inv' /\ CutsAreFaults /\ [Next]_vars => CutsAreFaults'
  <2> SUFFICES ASSUME Inv, Inv', CutsAreFaults, [Next]_vars PROVE CutsAreFaults'
    OBVIOUS
  <2>1. IInv /\ FleetTypeOK /\ Deploying
    BY DEF Inv, IInv
  <2>2. FleetTypeOK'
    BY DEF Inv, IInv
  <2> QED
    BY <2>1, <2>2, RowsStepTheFleet, FleetCuts, CutsAreFaultsStep
<1> QED
  BY <1>1, <1>2, Invariance, PTL DEF Spec

\* "At most one active execution owner exists at any instant" fails, when
\* tasks end promptly, only after calls of the claim store failed or hung for all
\* but one round of the threshold, one heartbeat that hangs so long being enough:
\* no crash, lost release, stop or redeploy brings a second owner about by itself.
THEOREM TwoOwnersCost == Prompt => (Spec => []SecondOwnerCosts)
<1> SUFFICES ASSUME Prompt PROVE Spec => []SecondOwnerCosts
  OBVIOUS
<1>1. Inv /\ CutsAreFaults => SecondOwnerCosts
  <2> SUFFICES ASSUME Inv, CutsAreFaults, ~AtMostOneOwner PROVE faults >= Stale - 1
    BY DEF SecondOwnerCosts
  <2>1. PICK r, s \in Runners :
          r # s /\ runner[r].phase = "trading" /\ runner[s].phase = "trading"
    BY DEF AtMostOneOwner
  <2>2. \E x \in Runners : runner[x].cut >= Stale - 1
    BY <2>1 DEF Inv, IInv, OwnerUnlessCutOff, Active
  <2>3. faults \in Nat /\ \A x \in Runners : runner[x].cut \in Nat
    BY Typed, TypeUnfolds, Constants DEF Inv, IInv
  <2> QED
    BY <2>2, <2>3, Constants DEF CutsAreFaults
<1> QED
  BY <1>1, CutOffsAreFaults, PTL

\* At most one bot of the key boots or trades that has not lost all but one round
\* of the threshold since its last refresh: of two that trade, one has a heartbeat
\* whose calls have failed or hung for so long, whatever the others did.
OneInTouch == \A r, s \in Runners :
    /\ runner[r].phase \in Active /\ runner[r].cut < Stale - 1
    /\ runner[s].phase \in Active /\ runner[s].cut < Stale - 1
    => r = s

THEOREM OneOwner == Prompt => (Spec => []OneInTouch)
<1> SUFFICES ASSUME Prompt PROVE Spec => []OneInTouch
  OBVIOUS
<1>1. Inv => OneInTouch
  <2> SUFFICES ASSUME Inv, NEW r \in Runners, NEW s \in Runners,
                      runner[r].phase \in Active, runner[r].cut < Stale - 1,
                      runner[s].phase \in Active, runner[s].cut < Stale - 1
               PROVE  r = s
    BY DEF OneInTouch
  <2>1. runner[r].cut \in Nat /\ runner[s].cut \in Nat
    BY Typed DEF Inv, IInv
  <2>2. claim.by = r /\ claim.by = s
    BY <2>1, Constants DEF Inv, IInv, OwnerUnlessCutOff
  <2> QED
    BY <2>2
<1> QED
  BY <1>1, Invariance, PTL

-----------------------------------------------------------------------------
(* The claims implement BotLease                                           *)

Begun == {r \in Runners : runner[r].phase # "fresh"}
Running == {r \in Runners : runner[r].phase \in Active}
Missed == [r \in Runners |-> IF runner[r].phase \in Active THEN runner[r].cut ELSE 0]

LeaseStep == [Owners!Next]_(Owners!vars)

\* The bot that runs unlike before, if it does not run any more, has ended.
LEMMA Unmoved ==
    ASSUME Begun' = Begun, Running' = Running, Missed' = Missed
    PROVE  LeaseStep
  BY DEF LeaseStep, Owners!vars, Begun, Running, Missed

LEMMA EndsOne ==
    ASSUME NEW v \in Runners,
           \A r \in Runners : runner'[r].phase = "fresh" <=> runner[r].phase = "fresh",
           \A r \in Runners : r # v =>
               (runner'[r].phase \in Active <=> runner[r].phase \in Active),
           runner'[v].phase \in Active => runner[v].phase \in Active,
           \A r \in Runners : runner'[r].phase \in Active => runner'[r].cut = runner[r].cut
    PROVE  LeaseStep
<1>1. Begun' = Begun
  BY DEF Begun
<1>2. CASE runner'[v].phase \in Active <=> runner[v].phase \in Active
  <2>1. \A r \in Runners : runner'[r].phase \in Active <=> runner[r].phase \in Active
    BY <1>2
  <2>2. Running' = Running /\ Missed' = Missed
    BY <2>1 DEF Running, Missed
  <2> QED
    BY <1>1, <2>2, Unmoved
<1>3. CASE runner'[v].phase \notin Active /\ runner[v].phase \in Active
  <2>1. v \in Running /\ Running' = Running \ {v}
    BY <1>3 DEF Running
  <2>2. Missed' = [Missed EXCEPT ![v] = 0]
    BY <1>3 DEF Missed
  <2>3. Owners!End(v)
    BY <1>1, <2>1, <2>2 DEF Owners!End, Begun, Running, Missed
  <2> QED
    BY <2>3 DEF LeaseStep, Owners!Next
<1> QED
  BY <1>2, <1>3

\* One that was no owner, or was told to end, stays out of it.
LEMMA SilentlyEnds ==
    ASSUME NEW run \in [Runners -> RunnerType], NEW v \in Runners,
           runner' = StopHeartbeat(run, v) \/ runner' = run,
           \A s \in Runners : s # v => run[s] = runner[s],
           run[v].phase \notin Active \cup {"fresh"},
           runner[v].phase # "fresh"
    PROVE  LeaseStep
<1>1. \A s \in Runners : s # v => runner'[s] = runner[s]
  BY Silencing
<1>2. runner'[v].phase = run[v].phase
  BY Silencing
<1> QED
  BY <1>1, <1>2, EndsOne

LEMMA BotStepLease ==
    ASSUME IInv, NEW r \in Runners, BotStep(r)
    PROVE  LeaseStep
<1>0. /\ FleetTypeOK /\ runner \in [Runners -> RunnerType]
      /\ {"trading", "failing", "closing", "reported", "returned", "reporting", "gone"} \subseteq Phases
  BY Typed DEF IInv, Phases, Active, Ending
<1>1. ASSUME NEW ph \in Phases \ {"fresh"}, runner' = [runner EXCEPT ![r].phase = ph],
             runner[r].phase # "fresh", ph \in Active => runner[r].phase \in Active
      PROVE  LeaseStep
  <2>1. /\ \A s \in Runners : s # r => runner'[s] = runner[s]
        /\ runner'[r].phase = ph /\ runner'[r].cut = runner[r].cut
    BY <1>0, <1>1, Changing
  <2> QED
    BY <1>1, <2>1, EndsOne
<1>2. CASE Boots(r) \/ TradingEnds(r) \/ Closes(r)
  BY <1>0, <1>1, <1>2 DEF Boots, TradingEnds, Closes, Active
<1>3. CASE BootFails(r)
  <2>1. /\ \A s \in Runners : s # r => runner'[s] = runner[s]
        /\ runner'[r].phase = "failing" /\ runner[r].phase = "booting"
    BY <1>0, <1>3 DEF BootFails, RunnerType
  <2> QED
    BY <2>1, EndsOne DEF Active
<1>4. CASE BootGivesUp(r)
  <2> DEFINE run == Pop(r, "returned", None)
  <2>1. runner' = StopHeartbeat(run, r) /\ runner[r].phase = "reported"
    BY <1>4 DEF BootGivesUp, Pop, IInv, Popped
  <2>2. /\ run \in [Runners -> RunnerType] /\ run[r].phase = "returned"
        /\ \A s \in Runners : s # r => run[s] = runner[s]
    BY <1>0, Popping
  <2> HIDE DEF run
  <2> QED
    BY <2>1, <2>2, SilentlyEnds DEF Active
<1>5. CASE CleanUp(r)
  <2> DEFINE p == runner[r].at
             v == fleet[p]
             report == runner[r].phase = "returned" /\ v # None
             ph == IF report THEN "reporting" ELSE "gone"
             pop == IF report THEN v ELSE None
             run == Pop(r, ph, pop)
  <2>1. /\ runner[r].phase \in {"returned", "cancelled"} /\ p \in Processes
        /\ v \in Runners \cup {None} /\ pop \in Runners \cup {None}
        /\ ph \in Phases /\ ph \in {"reporting", "gone"}
    BY <1>0, <1>5, TypeUnfolds DEF CleanUp, IInv, Fresh
  <2>2. v = None \/ v = r
    BY <2>1 DEF IInv, Held, Alone, Active, Ending
  <2>3. runner' = StopHeartbeat(run, v)
    BY <1>5 DEF CleanUp, Pop
  <2>4. /\ run \in [Runners -> RunnerType] /\ run[r].phase \in {"reporting", "gone"}
        /\ \A s \in Runners : s # r => run[s] = runner[s]
    <3> HIDE DEF ph, pop
    <3> QED
      BY <1>0, <2>1, Popping
  <2> HIDE DEF run, v
  <2>5. runner' = StopHeartbeat(run, r) \/ runner' = run
    BY <2>2, <2>3 DEF StopHeartbeat
  <2> QED
    BY <2>1, <2>4, <2>5, SilentlyEnds DEF Active
<1>6. CASE Reports(r)
  <2>1. /\ \A s \in Runners : s # r => runner'[s] = runner[s]
        /\ runner'[r].phase \in {"reported", "gone"} /\ runner[r].phase # "fresh"
    BY <1>0, <1>6 DEF Reports, RunnerType
  <2> QED
    BY <2>1, EndsOne DEF Active
<1> QED
  BY <1>2, <1>3, <1>4, <1>5, <1>6 DEF BotStep

LEMMA SurrenderLease ==
    ASSUME IInv, NEW r \in Runners, runner[r].hb # "off", Surrender(r)
    PROVE  LeaseStep
<1> DEFINE v == fleet[runner[r].at]
           run == StopHeartbeat(runner, r)
<1>1. /\ FleetTypeOK /\ runner[r].phase # "fresh" /\ runner[r].at \in Processes
      /\ v \in Runners \cup {None} /\ (runner[r].phase \in Active => v = r)
  BY Due
<1>2. /\ run \in [Runners -> RunnerType]
      /\ \A s \in Runners : (s # r => run[s] = runner[s]) /\ run[s].phase = runner[s].phase
  BY <1>1, Typed, Silencing
<1>3. runner' \in CancelTask(run, v)
  BY DEF Surrender
<1>4. v # None => runner[v].phase \in Active \cup {"closing", "returned", "cancelled"}
  BY <1>1 DEF IInv, Held
<1> HIDE DEF run, v
<1>5. /\ \A s \in Runners : (s # v => runner'[s] = run[s]) /\ runner'[s].cut = run[s].cut
      /\ v # None => runner'[v].phase \in {"closing", "returned", "cancelled"}
  BY <1>1, <1>2, <1>3, <1>4, Cancelling DEF Active
<1>6. CASE v = None
  <2>1. \A s \in Runners : /\ runner'[s].phase = runner[s].phase
                           /\ s # r => runner'[s] = runner[s]
    BY <1>2, <1>5, <1>6, Constants
  <2>2. runner[r].phase \notin Active
    BY <1>1, <1>6, Constants
  <2> QED
    BY <2>1, <2>2, EndsOne
<1>7. CASE v # None
  <2>1. v \in Runners
    BY <1>1, <1>7
  <2>2. /\ runner'[v].phase \notin Active \cup {"fresh"}
        /\ runner[v].phase # "fresh"
    BY <1>4, <1>5, <1>7 DEF Active
  <2>3. \A s \in Runners : s # v => runner'[s].phase = runner[s].phase
    BY <1>2, <1>5
  <2>4. \A s \in Runners : runner'[s].phase \in Active => runner'[s].cut = runner[s].cut
    BY <1>1, <1>2, <1>5, <2>2, <2>3
  <2> QED
    BY <2>1, <2>2, <2>3, <2>4, EndsOne
<1> QED
  BY <1>6, <1>7

\* Whoever runs beside the holder of the claim has been cut off.
LEMMA HolderUnrivalled ==
    ASSUME IInv, NEW r \in Runners, claim.by = r
    PROVE  Owners!Unrivalled(r)
<1>1. \A c \in Running \ {r} : c \in Runners /\ runner[c].cut >= Stale - 1
  BY DEF Running, IInv, OwnerUnlessCutOff
<1>2. \A c \in Running \ {r} : Missed[c] >= Stale - 1
  BY <1>1 DEF Missed, Running
<1> QED
  BY <1>2 DEF Owners!Unrivalled, Owners!OutOfTouch, Running, Missed

\* A claim can be taken only from a bot that has been cut off.
LEMMA TakerUnrivalled ==
    ASSUME IInv, Takeable, NEW r \in Runners
    PROVE  Owners!Unrivalled(r)
<1>1. FleetTypeOK /\ \A c \in Runners : runner[c].cut \in Nat
  BY Typed DEF IInv
<1>2. \A c \in Running : c \in Runners /\ runner[c].phase \in Active
  BY DEF Running
<1>3. \A c \in Running : runner[c].cut >= Stale - 1
  BY <1>1, <1>2, TypeUnfolds, Constants DEF IInv, OwnerUnlessCutOff, Ages, Takeable
<1>4. \A c \in Running \ {r} : Missed[c] >= Stale - 1
  BY <1>2, <1>3 DEF Missed
<1> QED
  BY <1>4 DEF Owners!Unrivalled, Owners!OutOfTouch, Running, Missed

LEMMA BeatingLease ==
    ASSUME IInv, NEW r \in Runners, Beating(r)
    PROVE  LeaseStep
<1>1. ASSUME NEW c, Rounded(r, c), runner[r].phase \in Active
      PROVE  /\ Begun' = Begun /\ Running' = Running /\ r \in Running
             /\ Missed' = [Missed EXCEPT ![r] = c] /\ Missed[r] = runner[r].cut
  BY <1>1 DEF Rounded, Begun, Running, Missed
<1>2. CASE Surrender(r) /\ runner[r].hb # "off"
  BY <1>2, SurrenderLease
<1>3. ASSUME NEW c, Rounded(r, c), runner[r].phase \notin Active \/ c = runner[r].cut
      PROVE  LeaseStep
  BY <1>3, EndsOne DEF Rounded
<1>4. ASSUME NEW n \in {0, 1}, Rounded(r, n), claim.by = r, runner[r].phase \in Active
      PROVE  LeaseStep
  <2>1. Owners!Unrivalled(r)
    BY <1>4, HolderUnrivalled
  <2>2. Owners!Reach(r)
    BY <1>1, <1>4, <2>1 DEF Owners!Reach, Begun, Running, Missed
  <2> QED
    BY <2>2 DEF LeaseStep, Owners!Next
<1>5. CASE Rounded(r, runner[r].cut + 1) /\ runner[r].phase \in Active
  <2>1. Missed' = [Missed EXCEPT ![r] = @ + 1]
    BY <1>1, <1>5
  <2>2. Owners!Miss(r)
    BY <1>1, <1>5, <2>1 DEF Owners!Miss, Begun, Running, Missed
  <2> QED
    BY <2>2 DEF LeaseStep, Owners!Next
<1> QED
  BY <1>2, <1>3, <1>4, <1>5, Rounds

LEMMA CallStepLease ==
    ASSUME IInv, NEW c \in Stoppers, CallStep(c)
    PROVE  LeaseStep
<1>0. FleetTypeOK /\ runner \in [Runners -> RunnerType]
  BY Typed DEF IInv
<1>1. CASE StopBegins(c)
  <2> DEFINE v == fleet[call[c].proc]
  <2>1. v \in Runners
    BY <1>0, <1>1, TypeUnfolds DEF IInv, Calls, StopBegins
  <2>2. runner[v].phase \in Active \cup {"closing", "returned", "cancelled"}
    BY <1>1 DEF IInv, Calls, Held, StopBegins
  <2>3. runner' \in CancelTask(runner, v)
    BY <1>1 DEF StopBegins
  <2> HIDE DEF v
  <2>4. /\ \A s \in Runners : s # v => runner'[s] = runner[s]
        /\ runner'[v].phase \in {"closing", "returned", "cancelled"}
    BY <1>0, <2>1, <2>2, <2>3, Cancelling, Constants DEF Active
  <2> QED
    BY <2>1, <2>2, <2>4, EndsOne DEF Active
<1>2. CASE StopEnds(c)
  <2>1. /\ call[c].victim \in Runners /\ runner' = StopHeartbeat(runner, call[c].victim)
        /\ runner[call[c].victim].phase \notin Active \cup {"fresh"}
    BY <1>2 DEF StopEnds, IInv, Calls
  <2> QED
    BY <1>0, <2>1, SilentlyEnds
<1>3. CASE UNCHANGED runner
  BY <1>3, Unmoved DEF Begun, Running, Missed
<1> QED
  BY <1>1, <1>2, <1>3 DEF CallStep, StopMisses

LEMMA ProcessStepLease ==
    ASSUME IInv, NEW p \in Processes, ProcessStep(p)
    PROVE  LeaseStep
<1>0. FleetTypeOK /\ runner \in [Runners -> RunnerType]
  BY Typed DEF IInv
<1>1. ASSUME NEW r \in Runners, StartBot(p, r)
      PROVE  LeaseStep
  <2>1. /\ runner[r].phase = "fresh" /\ runner[r].cut = 0 /\ Takeable
        /\ \A s \in Runners : s # r => runner'[s] = runner[s]
        /\ runner'[r].phase = "booting" /\ runner'[r].cut = 0
    BY <1>0, <1>1 DEF StartBot, IInv, Fresh, RunnerType
  <2>2. r \notin Begun /\ Begun' = Begun \cup {r} /\ Running' = Running \cup {r}
    BY <2>1 DEF Begun, Running, Active
  <2>3. Missed' = Missed
    <3>1. \A s \in Runners : (IF runner'[s].phase \in Active THEN runner'[s].cut ELSE 0)
                           = (IF runner[s].phase \in Active THEN runner[s].cut ELSE 0)
      BY <2>1
    <3> QED
      BY <3>1 DEF Missed
  <2>4. Owners!Unrivalled(r)
    BY <2>1, TakerUnrivalled
  <2>5. Owners!Begin(r)
    BY <2>2, <2>3, <2>4 DEF Owners!Begin, Begun, Running, Missed
  <2> QED
    BY <2>5 DEF LeaseStep, Owners!Next
<1>2. ASSUME NEW r \in Runners, StartUnanswered(p, r)
      PROVE  LeaseStep
  <2>1. /\ runner[r].phase = "fresh"
        /\ \A s \in Runners : s # r => runner'[s] = runner[s]
        /\ runner'[r].phase = "gone"
    BY <1>0, <1>2 DEF StartUnanswered, RunnerType
  <2>2. r \notin Begun /\ Begun' = Begun \cup {r}
    BY <2>1 DEF Begun
  <2>3. Running' = Running
    BY <2>1 DEF Running, Active
  <2>4. Missed' = Missed
    <3>1. \A s \in Runners : (IF runner'[s].phase \in Active THEN runner'[s].cut ELSE 0)
                           = (IF runner[s].phase \in Active THEN runner[s].cut ELSE 0)
      BY <2>1 DEF Active
    <3> QED
      BY <3>1 DEF Missed
  <2>5. Owners!Waste(r)
    BY <2>2, <2>3, <2>4 DEF Owners!Waste, Begun, Running, Missed
  <2> QED
    BY <2>5 DEF LeaseStep, Owners!Next
<1>3. CASE StartRefused(p) \/ ConstructionFails(p)
  BY <1>3, Unmoved DEF StartRefused, ConstructionFails, Begun, Running, Missed
<1>4. CASE ProcessDies(p)
  <2>1. \A r \in Runners : IF runner[r].at = p THEN runner'[r].phase = "gone"
                                               ELSE runner'[r] = runner[r]
    BY <1>0, <1>4 DEF ProcessDies, Gone, RunnerType
  <2>2. \A r \in Runners : runner[r].at = p =>
          runner[r].phase # "fresh" /\ (runner[r].phase \in Active => r = fleet[p])
    BY Constants DEF IInv, Fresh, RecordedBots
  <2>3. \A r \in Runners : runner'[r].phase = "fresh" <=> runner[r].phase = "fresh"
    BY <2>1, <2>2
  <2>4. \A r \in Runners : r # fleet[p] => (runner'[r].phase \in Active <=> runner[r].phase \in Active)
    BY <2>1, <2>2 DEF Active
  <2>5. \A r \in Runners : runner'[r].phase \in Active => runner'[r] = runner[r]
    BY <2>1 DEF Active
  <2>6. CASE fleet[p] \in Runners
    BY <2>3, <2>4, <2>5, <2>6, EndsOne
  <2>7. CASE fleet[p] = None
    <3>1. \A r \in Runners : runner'[r].phase \in Active <=> runner[r].phase \in Active
      BY <2>4, <2>7, Constants
    <3>2. Begun' = Begun /\ Running' = Running /\ Missed' = Missed
      BY <2>3, <2>5, <3>1 DEF Begun, Running, Missed
    <3> QED
      BY <3>2, Unmoved
  <2> QED
    BY <1>0, <2>6, <2>7, TypeUnfolds
<1> QED
  BY <1>1, <1>2, <1>3, <1>4 DEF ProcessStep, StartFails

LEMMA FleetLease ==
    ASSUME IInv, [FleetStep]_fleetVars
    PROVE  LeaseStep
<1>1. CASE UNCHANGED runner
  BY <1>1, Unmoved DEF Begun, Running, Missed
<1>2. CASE TimePasses
  <2>1. FleetTypeOK /\ runner \in [Runners -> RunnerType]
    BY Typed DEF IInv
  <2>2. \A s \in Runners : runner'[s].cut = runner[s].cut /\ runner'[s].phase = runner[s].phase
    BY <1>2, <2>1 DEF TimePasses, RunnerType
  <2>3. Begun' = Begun /\ Running' = Running /\ Missed' = Missed
    BY <2>2 DEF Begun, Running, Missed
  <2> QED
    BY <2>3, Unmoved
<1> QED
  BY <1>1, <1>2, BotStepLease, BeatingLease, CallStepLease, ProcessStepLease
     DEF FleetStep, CallBegins, fleetVars

LEMMA LeaseInitially == FleetInit => Owners!Init
<1> SUFFICES ASSUME FleetInit PROVE Owners!Init
  OBVIOUS
<1>1. \A r \in Runners : runner[r].phase = "fresh"
  BY DEF FleetInit
<1>2. Begun = {} /\ Running = {} /\ Missed = [r \in Runners |-> 0]
  BY <1>1 DEF Begun, Running, Missed, Active
<1> QED
  BY <1>2 DEF Owners!Init, Begun, Running, Missed

\* With prompt tasks the claim rows, heartbeats, surrenders, stops, crashes and
\* redeploys of a bot implement one lease: an incarnation starts, or learns
\* that its claim is still its own, only when every other that runs has lost
\* all but the last round to calls that failed or hung, and it starts once.
THEOREM Refinement == Prompt => (Spec => ImplementsBotLease)
<1> SUFFICES ASSUME Prompt PROVE Spec => ImplementsBotLease
  OBVIOUS
<1>1. Init => Owners!Init
  BY LeaseInitially DEF Init
<1>2. Inv /\ [Next]_vars => [Owners!Next]_(Owners!vars)
  BY RowsStepTheFleet, FleetLease DEF Inv, IInv, LeaseStep
<1> QED
  BY <1>1, <1>2, Invariance, PTL DEF Spec, ImplementsBotLease, Owners!Spec

=============================================================================
