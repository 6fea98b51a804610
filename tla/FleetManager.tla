---------------------------- MODULE FleetManager ----------------------------
(***************************************************************************)
(* backend/fleet_manager.py over core/bot_ownership.py, for ONE logical    *)
(* bot (user_id, symbol): each process keeps a registry of the bots it     *)
(* runs, PostgreSQL keeps the one claim, a heartbeat task per bot keeps    *)
(* the claim fresh, and cancellation, death and stop_bot take a bot down.  *)
(*                                                                         *)
(* A bot incarnation (a BotRunner, its task, its heartbeat and the owner   *)
(* token of its claim) is a member of Runners and is used once. The unit   *)
(* of time is the heartbeat interval.                                      *)
(***************************************************************************)
EXTENDS Naturals, FiniteSets

CONSTANTS
    Processes,  \* the pods
    Runners,    \* bot incarnations: bounds the number of starts
    Requests,   \* calls of stop_deployment: bounds the user's stops
    None,
    Stale,      \* effective_stale_seconds in heartbeat intervals (90 s / 15 s)
    Prompt,     \* a task is over, its callback included, within stop_bot's
                \* five seconds and before the process starts the next bot
    MaxFaults   \* bounds failed calls, crashes, and the intervals a call hangs for

ASSUME FleetAssumption ==
    /\ None \notin Runners \cup Requests \cup Processes
    /\ Runners \cap Requests = {}
    /\ Stale \in Nat \ {0}
    /\ Prompt \in BOOLEAN
    /\ MaxFaults \in Nat

VARIABLES
    claim,   \* the row of bot_ownership_claims: its token and the age of heartbeat_at
    fleet,   \* _active_fleet[bot_key] of each process
    runner,  \* each incarnation: its task and process, its heartbeat, since, the
             \* rounds its unreachable_since goes back, and popped, the record its
             \* callback removed from the registry; history: cut, the rounds lost
             \* to failed or hung calls since one refreshed the claim
    call,    \* stop_bot under way, for a request or for a heartbeat's stop task
    faults

fleetVars == <<claim, fleet, runner, call, faults>>

Active == {"booting", "trading"}
Ending == {"closing", "failing", "reported", "returned", "cancelled"}
Phases == {"fresh", "reporting", "gone"} \cup Active \cup Ending
Stoppers == Requests \cup Runners

\* A heartbeat is off, asleep, at its UPDATE, hung in that for the interval, or
\* the UPDATE is done and its answer is hung for the interval, or about to come.
Beats == {"off", "wait", "due", "hung", "late", "answer"}
Awake == {"due", "answer"}

FleetTypeOK ==
    /\ claim \in [by : Runners \cup {None}, age : 0..Stale]
    /\ fleet \in [Processes -> Runners \cup {None}]
    /\ runner \in [Runners -> [phase : Phases, at : Processes \cup {None},
                               hb : Beats, cut : Nat, since : 0..Stale,
                               popped : Runners \cup {None}]]
    /\ call \in [Stoppers -> [at : {"idle", "asked", "waiting", "stopped", "missed", "done"},
                              proc : Processes \cup {None}, victim : Runners \cup {None}]]
    /\ faults \in 0..MaxFaults

FleetInit ==
    /\ claim = [by |-> None, age |-> 0]
    /\ fleet = [p \in Processes |-> None]
    /\ runner = [r \in Runners |-> [phase |-> "fresh", at |-> None, hb |-> "off",
                                    cut |-> 0, since |-> 0, popped |-> None]]
    /\ call = [s \in Stoppers |-> [at |-> "idle", proc |-> None, victim |-> None]]
    /\ faults = 0

Fault == faults < MaxFaults /\ faults' = faults + 1
NoFault == UNCHANGED faults

-----------------------------------------------------------------------------
(* core/bot_ownership.py: the claim                                        *)

Free == [by |-> None, age |-> 0]

\* The conflict clause of the upsert: no row, or no heartbeat for longer than
\* the threshold.
Takeable == claim.by = None \/ claim.age >= Stale

\* Mutant: the DELETE names the bot and not the token.
ReleaseUnscoped(r) ==
    \/ claim' = (IF r # None THEN Free ELSE claim) /\ NoFault
    \/ r # None /\ Fault /\ UNCHANGED claim

\* DELETE scoped to the token of r; a call that fails changes nothing.
Release(r) ==
    \/ claim' = (IF claim.by = r /\ r # None THEN Free ELSE claim) /\ NoFault
    \/ r # None /\ Fault /\ UNCHANGED claim

-----------------------------------------------------------------------------
(* What happens to a task                                                  *)

\* Task.cancel: _run_trading_loop swallows it and closes the connections,
\* except in its back-off; booting and closing do not swallow it.
Cancelled(ph) ==
    CASE ph = "trading" -> {"closing", "cancelled"}
      [] ph \in {"booting", "closing"} -> {"cancelled"}
      [] OTHER -> {ph}

\* runner after the task of v, if there is one, was cancelled
CancelTask(run, v) ==
    IF v = None THEN {run}
    ELSE {[run EXCEPT ![v].phase = ph] : ph \in Cancelled(run[v].phase)}

\* _cancel_claim_heartbeat; its unreachable_since dies with it
StopHeartbeat(run, v) ==
    IF v = None THEN run
    ELSE [run EXCEPT ![v] = [@ EXCEPT !.hb = "off", !.cut = 0, !.since = 0]]

Gone(rec) ==
    [rec EXCEPT !.phase = "gone", !.popped = None, !.hb = "off", !.cut = 0, !.since = 0]

Quiet(p) == \A r \in Runners : runner[r].at = p => runner[r].phase \notin Ending

-----------------------------------------------------------------------------
(* start_bot: one step, there is no await between the lock and the record  *)

StartBot(p, r) ==
    /\ runner[r].phase = "fresh" /\ fleet[p] = None /\ Takeable
    /\ Prompt => Quiet(p)
    /\ claim' = [by |-> r, age |-> 0]
    /\ fleet' = [fleet EXCEPT ![p] = r]
    /\ runner' = [runner EXCEPT ![r] = [@ EXCEPT !.phase = "booting", !.at = p, !.hb = "wait"]]
    /\ UNCHANGED call /\ NoFault

\* Already registered here, owned elsewhere, or the claim store is unreachable.
StartRefused(p) ==
    /\ \/ (fleet[p] # None \/ ~Takeable) /\ NoFault
       \/ Fault
    /\ UNCHANGED <<claim, fleet, runner, call>>

\* The upsert was executed and its answer lost: refused, and the row is left
\* with a token nobody holds.
StartUnanswered(p, r) ==
    /\ runner[r].phase = "fresh" /\ fleet[p] = None /\ Takeable /\ Fault
    /\ claim' = [by |-> r, age |-> 0]
    /\ runner' = [runner EXCEPT ![r] = [@ EXCEPT !.phase = "gone", !.at = p]]
    /\ UNCHANGED <<fleet, call>>

\* BotRunner(...) raises: the claim just taken is given back.
ConstructionFails(p) ==
    /\ fleet[p] = None /\ Takeable
    /\ claim' = Free
    /\ UNCHANGED <<fleet, runner, call>> /\ NoFault

StartFails(p) ==
    StartRefused(p) \/ ConstructionFails(p) \/ \E r \in Runners : StartUnanswered(p, r)

-----------------------------------------------------------------------------
(* _boot_and_run and BotRunner                                             *)

Boots(r) ==
    /\ runner[r].phase = "booting"
    /\ runner' = [runner EXCEPT ![r].phase = "trading"]
    /\ UNCHANGED <<claim, fleet, call, faults>>

\* _recover_live_state raises: the record under the key is popped at once ...
BootFails(r) ==
    /\ runner[r].phase = "booting"
    /\ runner' = [runner EXCEPT ![r].phase = "failing", ![r].popped = fleet[runner[r].at]]
    /\ fleet' = [fleet EXCEPT ![runner[r].at] = None]
    /\ UNCHANGED <<claim, call, faults>>

\* Mutant: the heartbeat of the failed boot is left running.
BootGivesUpLoosely(r) ==
    /\ runner[r].phase = "reported"
    /\ runner' = [runner EXCEPT ![r].phase = "returned"]
    /\ UNCHANGED <<claim, fleet, call, faults>>

\* ... its death reported, and only then the claim given up.
BootGivesUp(r) ==
    /\ runner[r].phase = "reported"
    /\ runner' = StopHeartbeat([runner EXCEPT ![r].phase = "returned", ![r].popped = None],
                             runner[r].popped)
    /\ Release(runner[r].popped)
    /\ UNCHANGED <<fleet, call>>

\* The reconnect attempts are used up.
TradingEnds(r) ==
    /\ runner[r].phase = "trading"
    /\ runner' = [runner EXCEPT ![r].phase = "closing"]
    /\ UNCHANGED <<claim, fleet, call, faults>>

Closes(r) ==
    /\ runner[r].phase = "closing"
    /\ runner' = [runner EXCEPT ![r].phase = "returned"]
    /\ UNCHANGED <<claim, fleet, call, faults>>

\* _cleanup_dead_bot, the callback of the task of r: it takes whatever record
\* is registered under the key, and reports a death nobody asked for.
CleanUp(r) ==
    LET p == runner[r].at
        v == fleet[p]
        report == runner[r].phase = "returned" /\ v # None
    IN
    /\ runner[r].phase \in {"returned", "cancelled"}
    /\ fleet' = [fleet EXCEPT ![p] = None]
    /\ runner' = StopHeartbeat([runner EXCEPT
            ![r].phase = IF report THEN "reporting" ELSE "gone",
            ![r].popped = IF report THEN v ELSE None], v)
    /\ Release(v)
    /\ UNCHANGED call

\* The report of a failed boot, or of a death.
Reports(r) ==
    /\ runner[r].phase \in {"failing", "reporting"}
    /\ runner' = [runner EXCEPT ![r] = IF @.phase = "failing"
            THEN [@ EXCEPT !.phase = "reported"]
            ELSE [@ EXCEPT !.phase = "gone", !.popped = None]]
    /\ UNCHANGED <<claim, fleet, call>>

-----------------------------------------------------------------------------
(* _heartbeat_claim: one round of the heartbeat of r                       *)

\* runner after a round of r that leaves its heartbeat so
Round(r, hb, cut, since) ==
    [runner EXCEPT ![r] = [@ EXCEPT !.hb = hb, !.cut = cut, !.since = since]]

\* The store has answered that the claim is ours; the row says stop or not.
Affirmed(r, cut, stopSeen) ==
    /\ runner' = Round(r, IF stopSeen THEN "off" ELSE "wait", cut, 0)
    /\ call' = IF stopSeen
               THEN [call EXCEPT ![r] = [@ EXCEPT !.at = "asked", !.proc = runner[r].at]]
               ELSE call
    /\ UNCHANGED fleet

\* Mutant: the UPDATE names the bot and not the token.
BeatRefreshesUnscoped(r, stopSeen) ==
    /\ runner[r].hb = "due" /\ claim.by # None
    /\ claim' = [claim EXCEPT !.age = 0]
    /\ Affirmed(r, 0, stopSeen)

\* The UPDATE is executed and answered within the round.
BeatRefreshes(r, stopSeen) ==
    /\ runner[r].hb = "due" /\ claim.by = r
    /\ claim' = [claim EXCEPT !.age = 0]
    /\ Affirmed(r, 0, stopSeen)

\* It was executed in an earlier interval: whose the claim is by now, the answer
\* does not say.
BeatAnswered(r, stopSeen) ==
    /\ runner[r].hb = "answer"
    /\ Affirmed(r, runner[r].cut, stopSeen)
    /\ UNCHANGED claim

\* _surrender_bot: the heartbeat returns, the task registered under its key is
\* cancelled, the claim is not released.
Surrender(r) == runner' \in CancelTask(StopHeartbeat(runner, r), fleet[runner[r].at])

\* The scoped UPDATE matched no row.
BeatLost(r) ==
    /\ runner[r].hb = "due" /\ claim.by # r
    /\ Surrender(r)
    /\ UNCHANGED <<claim, fleet, call, faults>>

\* Mutant: the heartbeat gives up and leaves the bot running.
BeatUnreachableQuits(r) ==
    /\ runner[r].hb \in Awake /\ Fault
    /\ runner' = IF runner[r].since = Stale THEN StopHeartbeat(runner, r)
                 ELSE Round(r, "wait", runner[r].cut + 1, runner[r].since + 1)
    /\ UNCHANGED <<claim, fleet, call>>

\* ClaimStoreUnavailable: the heartbeat goes on until it has not reached the
\* store for longer than the threshold, counted from the first failure. The
\* UPDATE may have been executed all the same.
BeatUnreachable(r) ==
    /\ runner[r].hb \in Awake /\ Fault
    /\ IF runner[r].since = Stale
       THEN Surrender(r)
       ELSE runner' = Round(r, "wait", runner[r].cut + 1, runner[r].since + 1)
    /\ claim' = claim \/ (claim.by = r /\ claim' = [claim EXCEPT !.age = 0])
    /\ UNCHANGED <<fleet, call>>

\* The heartbeat hangs for the interval, and its clock, if set, goes on.
Hangs(r, hb, cut) ==
    LET s == runner[r].since
    IN  runner' = Round(r, hb, cut, IF s \in {0, Stale} THEN s ELSE s + 1)

\* psycopg2.connect has no connect_timeout, and the statement none either: the call
\* hangs for an interval, before or after its UPDATE is executed, and for as many
\* more as it likes. The loop looks at its clock only when the call has failed, so
\* it hangs as well. Each interval is a fault of its own.
BeatHangs(r) ==
    /\ Fault
    /\ \/ runner[r].hb = "due" /\ Hangs(r, "hung", runner[r].cut + 1) /\ UNCHANGED claim
       \/ runner[r].hb = "answer" /\ Hangs(r, "late", runner[r].cut + 1) /\ UNCHANGED claim
       \/ /\ runner[r].hb = "due" /\ claim.by = r
          /\ claim' = [claim EXCEPT !.age = 0]
          /\ Hangs(r, "late", 1)
    /\ UNCHANGED <<fleet, call>>

\* One interval: every heartbeat came round or hung, and a stop task it created
\* runs.
TimePasses ==
    /\ \A r \in Runners : runner[r].hb \notin Awake /\ call[r].at # "asked"
    /\ claim' = IF claim.by = None \/ claim.age = Stale THEN claim
                ELSE [claim EXCEPT !.age = @ + 1]
    /\ runner' = [r \in Runners |->
            CASE runner[r].hb \in {"wait", "hung"} -> [runner[r] EXCEPT !.hb = "due"]
              [] runner[r].hb = "late" -> [runner[r] EXCEPT !.hb = "answer"]
              [] OTHER -> runner[r]]
    /\ claim' # claim \/ runner' # runner
    /\ UNCHANGED <<fleet, call, faults>>

-----------------------------------------------------------------------------
(* stop_bot: the record is popped before its task is cancelled             *)

\* Mutant: the record is popped and the task goes on.
StopBeginsGently(s) ==
    /\ call[s].at = "asked" /\ fleet[call[s].proc] # None
    /\ fleet' = [fleet EXCEPT ![call[s].proc] = None]
    /\ call' = [call EXCEPT ![s] = [@ EXCEPT !.at = "waiting", !.victim = fleet[call[s].proc]]]
    /\ UNCHANGED <<claim, runner, faults>>

StopBegins(s) ==
    LET p == call[s].proc
        v == fleet[p]
    IN
    /\ call[s].at = "asked" /\ v # None
    /\ fleet' = [fleet EXCEPT ![p] = None]
    /\ runner' \in CancelTask(runner, v)
    /\ call' = [call EXCEPT ![s] = [@ EXCEPT !.at = "waiting", !.victim = v]]
    /\ UNCHANGED <<claim, faults>>

StopMisses(s) ==
    /\ call[s].at = "asked" /\ fleet[call[s].proc] = None
    /\ call' = [call EXCEPT ![s].at = "missed"]
    /\ UNCHANGED <<claim, fleet, runner, faults>>

\* The task ended, or five seconds are over.
StopEnds(s) ==
    /\ call[s].at = "waiting"
    /\ Prompt => runner[call[s].victim].phase \notin Ending
    /\ runner' = StopHeartbeat(runner, call[s].victim)
    /\ Release(call[s].victim)
    /\ call' = [call EXCEPT ![s].at = "stopped"]
    /\ UNCHANGED fleet

Done == [at |-> "done", proc |-> None, victim |-> None]

Returned(s) == call' = [call EXCEPT ![s] = Done]

-----------------------------------------------------------------------------
(* A process and everything it runs is gone; its claim stays.              *)

ProcessDies(p) ==
    /\ Fault
    /\ fleet' = [fleet EXCEPT ![p] = None]
    /\ runner' = [r \in Runners |-> IF runner[r].at = p
            THEN Gone(runner[r]) ELSE runner[r]]
    /\ call' = [s \in Stoppers |-> IF call[s].proc = p
            THEN Done ELSE call[s]]
    /\ UNCHANGED claim

-----------------------------------------------------------------------------
(* Properties of the fleet                                                 *)

\* A bot that boots or trades holds the claim, or its process has lost all but
\* the last heartbeat round of the threshold to calls that failed or hung: what
\* bot_ownership.acquire, release and heartbeat, and every path of FleetManager
\* that gives a claim up, leave of "at most one active execution owner".
OwnerUnlessCutOff == \A r \in Runners :
    runner[r].phase \in Active => claim.by = r \/ runner[r].cut >= Stale - 1

\* A bot that boots or trades is registered in its process, so stop_bot and
\* its own heartbeat can still find it.
RecordedBots == \A r \in Runners :
    runner[r].phase \in Active => fleet[runner[r].at] = r

\* A bot that boots or trades has a heartbeat, or the stop task its heartbeat
\* created has yet to run: it cannot outlive its claim unwatched.
WatchedBots == \A r \in Runners :
    runner[r].phase \in Active => runner[r].hb # "off" \/ call[r].at = "asked"

\* bot_ownership.py: at most one active execution owner exists at any instant.
AtMostOneOwner == \A r, s \in Runners :
    runner[r].phase = "trading" /\ runner[s].phase = "trading" => r = s

\* What the claim protocol leaves of it: no stop, redeploy, takeover, crash or
\* lost release gives a bot a second owner before failed and hanging calls have
\* cost a process all but the last round of the threshold, be it one single call
\* that hangs for so long.
SecondOwnerCosts == AtMostOneOwner \/ faults >= Stale - 1

\* The bots as the incarnations of BotLease: what a bot that does not run has
\* missed does not count.
Owners == INSTANCE BotLease WITH
    Bots      <- Runners,
    Threshold <- Stale,
    begun     <- {r \in Runners : runner[r].phase # "fresh"},
    running   <- {r \in Runners : runner[r].phase \in Active},
    missed    <- [r \in Runners |-> IF runner[r].phase \in Active THEN runner[r].cut ELSE 0]

\* acquire, heartbeat and release, with every path of FleetManager that starts
\* a bot or takes one down, give one logical bot at a time to one incarnation
\* that reaches the claim store: a start or a successful refresh happens only
\* when all others that run have been cut off, and each incarnation runs once.
ImplementsBotLease == Owners!Spec

\* A claim whose bot is no longer run is given up or becomes takeable, whatever
\* step a boot failure, a death, a stop or a crash was interrupted at: no dead
\* process strands the bot forever.
NoStrandedClaim == []<>(Takeable \/ \E r \in Runners : claim.by = r /\ runner[r].phase \in Active)

=============================================================================
