--------------------------- MODULE DeploymentState ---------------------------
(***************************************************************************)
(* The rows of strategy_deployments over FleetManager: deploy_version and  *)
(* stop_deployment of backend/strategy_service.py, the conditional writes  *)
(* of backend/deployment_state.py, and the resume of a restarted process.  *)
(* All Deployments are of the one bot key of FleetManager.                 *)
(***************************************************************************)
EXTENDS FleetManager

CONSTANTS
    Deployments,
    Deployers  \* the pods that the users' calls of deploy_version reach

ASSUME DeploymentAssumption == None \notin Deployments /\ Deployers \subseteq Processes

VARIABLES
    row,     \* strategy_deployments.status
    runs,    \* the deployment_id of a bot's blueprint
    deploy,  \* deploy_version of each deployment
    wants,   \* what a stop_deployment call read: the deployment, and was it live
    up,      \* processes that run
    resume   \* rows the boot of a process has yet to go through

vars == <<claim, fleet, runner, call, faults, row, runs, deploy, wants, up, resume>>
rowVars == <<row, runs, deploy, wants, up, resume>>

Live == {"deploying", "running"}
StopStates == {"stopping", "stopped"}
Statuses == {"none", "failed"} \cup Live \cup StopStates

TypeOK ==
    /\ FleetTypeOK
    /\ row \in [Deployments -> Statuses]
    /\ runs \in [Runners -> Deployments \cup {None}]
    /\ deploy \in [Deployments -> [at : {"none", "inserted", "started", "refused", "done"},
                                   proc : Processes \cup {None}]]
    /\ wants \in [Requests -> [dep : Deployments \cup {None}, live : BOOLEAN]]
    /\ up \subseteq Processes
    /\ resume \in [Processes -> SUBSET Deployments]

Init ==
    /\ FleetInit
    /\ row = [d \in Deployments |-> "none"]
    /\ runs = [r \in Runners |-> None]
    /\ deploy = [d \in Deployments |-> [at |-> "none", proc |-> None]]
    /\ wants = [q \in Requests |-> [dep |-> None, live |-> FALSE]]
    /\ up = Processes
    /\ resume = [p \in Processes |-> {}]

-----------------------------------------------------------------------------
(* deployment_state.py: conditional writes                                 *)

MarkFailed(d) ==
    row' = IF row[d] \in Live THEN [row EXCEPT ![d] = "failed"] ELSE row

MarkStopped(d) ==
    row' = IF row[d] \in Live \cup {"stopping"} THEN [row EXCEPT ![d] = "stopped"] ELSE row

\* _report_failure: the write may fail, and is not repeated.
ReportFailure(d) ==
    \/ MarkFailed(d) /\ NoFault
    \/ Fault /\ UNCHANGED row

-----------------------------------------------------------------------------
(* strategy_service.deploy_version                                         *)

Deployed == [at |-> "done", proc |-> None]

Insert(d, p) ==
    /\ row[d] = "none" /\ p \in up \cap Deployers
    /\ row' = [row EXCEPT ![d] = "deploying"]
    /\ deploy' = [deploy EXCEPT ![d] = [at |-> "inserted", proc |-> p]]
    /\ UNCHANGED <<claim, fleet, runner, call, faults, runs, wants, up, resume>>

DeployStarts(d) == \E r \in Runners :
    /\ deploy[d].at = "inserted"
    /\ StartBot(deploy[d].proc, r)
    /\ runs' = [runs EXCEPT ![r] = d]
    /\ deploy' = [deploy EXCEPT ![d].at = "started"]
    /\ UNCHANGED <<row, wants, up, resume>>

DeployRefused(d) ==
    /\ deploy[d].at = "inserted"
    /\ StartFails(deploy[d].proc)
    /\ deploy' = [deploy EXCEPT ![d].at = "refused"]
    /\ UNCHANGED <<row, runs, wants, up, resume>>

\* Both writes name the row and not the status they expect.
DeployRecorded(d) ==
    /\ deploy[d].at \in {"started", "refused"}
    /\ row' = [row EXCEPT ![d] = IF deploy[d].at = "started" THEN "running" ELSE "failed"]
    /\ deploy' = [deploy EXCEPT ![d] = Deployed]
    /\ UNCHANGED <<claim, fleet, runner, call, faults, runs, wants, up, resume>>

-----------------------------------------------------------------------------
(* strategy_service.stop_deployment: read, stop_bot, write                 *)

StopCalled(q, d, p) ==
    /\ call[q].at = "idle" /\ row[d] # "none" /\ p \in up
    /\ call' = [call EXCEPT ![q] = [@ EXCEPT !.at = "asked", !.proc = p]]
    /\ wants' = [wants EXCEPT ![q] = [dep |-> d, live |-> row[d] \in Live]]
    /\ UNCHANGED <<claim, fleet, runner, faults, row, runs, deploy, up, resume>>

StopRecorded(q) ==
    /\ call[q].at \in {"stopped", "missed"}
    /\ row' = [row EXCEPT ![wants[q].dep] =
            IF call[q].at = "missed" /\ wants[q].live THEN "stopping" ELSE "stopped"]
    /\ wants' = [wants EXCEPT ![q] = [dep |-> None, live |-> FALSE]]
    /\ Returned(q)
    /\ UNCHANGED <<claim, fleet, runner, faults, runs, deploy, up, resume>>

\* _honour_stop_request, after its stop_bot
StopConfirmed(r) ==
    /\ call[r].at \in {"stopped", "missed"}
    /\ IF call[r].at = "stopped" THEN MarkStopped(runs[call[r].victim]) ELSE UNCHANGED row
    /\ Returned(r)
    /\ UNCHANGED <<claim, fleet, runner, faults, runs, deploy, wants, up, resume>>

-----------------------------------------------------------------------------
(* The heartbeat reads the row of whatever bot is registered under its key *)

\* Mutant: only a stop that is already confirmed is seen.
StopConfirmedOn(p) == fleet[p] # None /\ row[runs[fleet[p]]] = "stopped"

StopRequested(p) == fleet[p] # None /\ row[runs[fleet[p]]] \in StopStates

Beat(r) ==
    /\ \/ /\ \/ BeatRefreshes(r, StopRequested(runner[r].at))
             \/ BeatAnswered(r, StopRequested(runner[r].at))
          /\ NoFault
       \/ BeatLost(r)
    /\ UNCHANGED rowVars

\* The claim store, or only the row, cannot be read, or does not answer.
BeatFails(r) ==
    /\ \/ BeatUnreachable(r) \/ BeatHangs(r)
       \/ (BeatRefreshes(r, FALSE) \/ BeatAnswered(r, FALSE)) /\ Fault
    /\ UNCHANGED rowVars

DeathReported(r) ==
    /\ Reports(r)
    /\ ReportFailure(runs[IF runner[r].phase = "failing" THEN r ELSE runner[r].popped])
    /\ UNCHANGED <<runs, deploy, wants, up, resume>>

-----------------------------------------------------------------------------
(* A process dies and boots: resume_deployments                            *)

Crash(p) ==
    /\ p \in up /\ ProcessDies(p)
    /\ up' = up \ {p}
    /\ resume' = [resume EXCEPT ![p] = {}]
    /\ deploy' = [d \in Deployments |-> IF deploy[d].proc = p
            THEN Deployed ELSE deploy[d]]
    /\ wants' = [q \in Requests |-> IF call[q].proc = p
            THEN [dep |-> None, live |-> FALSE] ELSE wants[q]]
    /\ UNCHANGED <<row, runs>>

\* Stop requests are finalised, the live rows read.
Boot(p) ==
    /\ p \notin up
    /\ up' = up \cup {p}
    /\ row' = [d \in Deployments |-> IF row[d] = "stopping" THEN "stopped" ELSE row[d]]
    /\ resume' = [resume EXCEPT ![p] = {d \in Deployments : row[d] \in Live}]
    /\ UNCHANGED <<claim, fleet, runner, call, faults, runs, deploy, wants>>

ResumeStarts(p, d) == \E r \in Runners :
    /\ d \in resume[p]
    /\ StartBot(p, r)
    /\ runs' = [runs EXCEPT ![r] = d]
    /\ resume' = [resume EXCEPT ![p] = @ \ {d}]
    /\ UNCHANGED <<row, deploy, wants, up>>

ResumeRefused(p, d) ==
    /\ d \in resume[p]
    /\ StartFails(p)
    /\ resume' = [resume EXCEPT ![p] = @ \ {d}]
    /\ UNCHANGED <<row, runs, deploy, wants, up>>

\* The row cannot be rebuilt: its version is gone, or it is a live deployment
\* and the operator did not opt in.
ResumeFails(p, d) ==
    /\ d \in resume[p]
    /\ MarkFailed(d)
    /\ resume' = [resume EXCEPT ![p] = @ \ {d}]
    /\ UNCHANGED <<claim, fleet, runner, call, faults, runs, deploy, wants, up>>

-----------------------------------------------------------------------------

Task(r) ==
    \/ (Boots(r) \/ Closes(r) \/ BootGivesUp(r) \/ CleanUp(r)) /\ UNCHANGED rowVars
    \/ DeathReported(r)

BotFails(r) == (BootFails(r) \/ TradingEnds(r)) /\ UNCHANGED rowVars

StopBot(s) == (StopBegins(s) \/ StopMisses(s) \/ StopEnds(s)) /\ UNCHANGED rowVars

Next ==
    \/ \E r \in Runners : Task(r) \/ BotFails(r) \/ Beat(r) \/ BeatFails(r) \/ StopConfirmed(r)
    \/ \E s \in Stoppers : StopBot(s)
    \/ \E q \in Requests : StopRecorded(q) \/ \E d \in Deployments, p \in Processes : StopCalled(q, d, p)
    \/ \E d \in Deployments :
         \/ DeployStarts(d) \/ DeployRefused(d) \/ DeployRecorded(d)
         \/ \E p \in Processes :
              Insert(d, p) \/ ResumeStarts(p, d) \/ ResumeRefused(p, d) \/ ResumeFails(p, d)
    \/ \E p \in Processes : Crash(p) \/ Boot(p)
    \/ TimePasses /\ UNCHANGED rowVars

Spec == Init /\ [][Next]_vars

\* Tasks, heartbeats, calls of stop_bot and their writes, and time go on.
FairSpec ==
    /\ Spec
    /\ \A r \in Runners : WF_vars(Task(r)) /\ WF_vars(Beat(r)) /\ WF_vars(StopConfirmed(r))
    /\ \A s \in Stoppers : WF_vars(StopBot(s))
    /\ WF_vars(TimePasses /\ UNCHANGED rowVars)

-----------------------------------------------------------------------------
(* Properties of the rows                                                  *)

BotsOf(d) == {r \in Runners : runs[r] = d /\ runner[r].phase \in Active}

\* A stop, recorded on the row by any process, reaches the bot wherever it
\* runs, unless the row is written over meanwhile: the durable stop request of
\* stop_deployment and the heartbeat's _stop_requested.
StopIsHonoured == \A d \in Deployments :
    []<>(row[d] \in StopStates => BotsOf(d) = {})
=============================================================================
