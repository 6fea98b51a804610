------------------------------ MODULE TenantHalt ------------------------------
(***************************************************************************)
(* core/tenant_halt.py: the emergency stop of one tenant (routers/risk.py  *)
(* sets and clears it). Redis keeps the halt, every process a mirror.      *)
(***************************************************************************)
EXTENDS TradingProcesses

CONSTANT Toggles \* calls of set_halt_outcome; a member is used again when it is over

VARIABLES
    halt,   \* the key tenant_halt:{id}
    mirror, \* _mirror of each process
    toggle  \* calls of set_halt_outcome

haltVars == <<halt, mirror, toggle>>

NoToggle == [at |-> "idle", proc |-> None, active |-> FALSE, previous |-> FALSE]

HaltTypeOK ==
    /\ halt \in BOOLEAN
    /\ mirror \in [Processes -> BOOLEAN]
    /\ toggle \in [Toggles -> [at : {"idle", "writing"}, proc : Processes \cup {None},
                               active : BOOLEAN, previous : BOOLEAN]]
    /\ \A u \in Toggles : toggle[u].at # "idle" => toggle[u].proc # None

HaltInit ==
    /\ halt = FALSE
    /\ mirror = [p \in Processes |-> FALSE]
    /\ toggle = [u \in Toggles |-> NoToggle]

\* The mirror is written before the shared copy.
SetHalt(u, p, active) ==
    /\ toggle[u].at = "idle"
    /\ toggle' = [toggle EXCEPT ![u] =
            [at |-> "writing", proc |-> p, active |-> active, previous |-> mirror[p]]]
    /\ mirror' = [mirror EXCEPT ![p] = active]
    /\ UNCHANGED <<processVars, halt>>

\* PERSISTED: SET or DELETE.
HaltPersists(u) ==
    /\ toggle[u].at = "writing" /\ Answers(toggle[u].proc)
    /\ halt' = toggle[u].active
    /\ order' = IF halt' THEN order ELSE SeesFree
    /\ toggle' = [toggle EXCEPT ![u] = NoToggle]
    /\ UNCHANGED <<linked, mirror>>

\* NO_SHARED_STORE, which is also what a manager that never connected is.
HaltHasNoStore(u) ==
    /\ toggle[u].at = "writing" /\ ~linked[toggle[u].proc]
    /\ toggle' = [toggle EXCEPT ![u] = NoToggle]
    /\ UNCHANGED <<processVars, halt, mirror>>

\* WRITE_FAILED: a clear that failed restores the mirror, an engage keeps it.
HaltFails(u) ==
    LET t == toggle[u] IN
    /\ t.at = "writing" /\ linked[t.proc] /\ Fault
    /\ halt' \in {halt, t.active}
    /\ order' = IF halt' THEN order ELSE SeesFree
    /\ mirror' = IF t.active THEN mirror ELSE [mirror EXCEPT ![t.proc] = t.previous]
    /\ toggle' = [toggle EXCEPT ![u] = NoToggle]
    /\ UNCHANGED linked

HaltForgets(p) ==
    /\ mirror' = [mirror EXCEPT ![p] = FALSE]
    /\ toggle' = [u \in Toggles |-> IF toggle[u].proc = p THEN NoToggle ELSE toggle[u]]
    /\ UNCHANGED halt

Toggled ==
    \E u \in Toggles :
        \/ \E p \in Processes, active \in BOOLEAN : SetHalt(u, p, active)
        \/ HaltPersists(u) \/ HaltHasNoStore(u) \/ HaltFails(u)

=============================================================================
