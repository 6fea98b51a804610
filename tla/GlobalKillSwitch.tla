--------------------------- MODULE GlobalKillSwitch ---------------------------
(***************************************************************************)
(* core/global_safety.py: the platform's kill switch. Redis keeps the key, *)
(* the set of holds and a transition lock; every process keeps a latch.    *)
(* activate engages, whatever fails; deactivate clears only what it could  *)
(* read and was told of. Each Redis call is a step of its own, with the    *)
(* code up to the next await. Audit rows, history and metadata are left    *)
(* out: nothing reads them to decide.                                      *)
(***************************************************************************)
EXTENDS TradingProcesses

CONSTANTS
    Activations, \* calls of activate; a member is used again when it is over
    Resets,      \* calls of deactivate, likewise
    Triggers,    \* who activates: the operator and the automatic triggers
    Punctual,    \* TRUE: no transition outlives TRANSITION_LOCK_TTL_SECONDS
    LockAnswers  \* TRUE: the SET NX of the transition lock is answered

Calls == Activations \cup Resets

ASSUME SwitchAssumption ==
    /\ Activations \cap Resets = {}
    /\ None \notin Calls \cup Triggers
    /\ {Punctual, LockAnswers} \subseteq BOOLEAN

VARIABLES
    switch,   \* KEY is "1"; "0" and no key are the same to every reader
    holds,    \* HOLDS_KEY
    lock,     \* TRANSITION_LOCK_KEY: the call that has set it. No code asks whose it is
    latch,    \* _local_fallback_active
    waits,    \* _redis_failure_at is set, and less than the probe interval ago
    last,     \* _last_state
    act,      \* calls of activate
    reset,    \* calls of deactivate
    standing  \* history: holds registered under the lock by an activation that
              \* wrote everything, and not reviewed by a reset since

switchVars == <<switch, holds, lock, latch, waits, last, act, reset, standing>>
latchVars == <<latch, waits, last>>

(* have_lock: "assumed" is what a call makes of an exception.              *)
LockViews == {"none", "taken", "assumed"}
NoActivation == [at |-> "idle", proc |-> None, hold |-> None, lock |-> "none", ok |-> FALSE]
NoReset == [at |-> "idle", proc |-> None, told |-> {}, read |-> {}, lock |-> "none"]

ActStates == [at : {"idle", "latched", "engaged", "held"}, proc : Processes \cup {None},
              hold : Triggers \cup {None}, lock : LockViews, ok : BOOLEAN]
ResetStates == [at : {"idle", "locked", "reviewed", "cleared", "leaving"},
                proc : Processes \cup {None}, told : SUBSET Triggers,
                read : SUBSET Triggers, lock : LockViews]

SwitchTypeOK ==
    /\ switch \in BOOLEAN
    /\ holds \subseteq Triggers
    /\ lock \in Calls \cup {None}
    /\ latch \in [Processes -> BOOLEAN]
    /\ waits \in [Processes -> BOOLEAN]
    /\ last \in [Processes -> BOOLEAN]
    /\ act \in [Activations -> ActStates]
    /\ reset \in [Resets -> ResetStates]
    /\ \A a \in Activations : act[a].at # "idle" => act[a].proc # None /\ act[a].hold # None
    /\ \A z \in Resets : reset[z].at # "idle" => reset[z].proc # None
    /\ standing \subseteq Triggers

SwitchInit ==
    /\ switch = FALSE
    /\ holds = {}
    /\ lock = None
    /\ latch = [p \in Processes |-> FALSE]
    /\ waits = [p \in Processes |-> FALSE]
    /\ last = [p \in Processes |-> FALSE]
    /\ act = [a \in Activations |-> NoActivation]
    /\ reset = [z \in Resets |-> NoReset]
    /\ standing = {}

SetLatch(p, on) ==
    /\ latch' = [latch EXCEPT ![p] = on]
    /\ waits' = [waits EXCEPT ![p] = FALSE]
    /\ last' = [last EXCEPT ![p] = on]

-----------------------------------------------------------------------------
(* The transition lock                                                     *)

\* _acquire_transition_lock: SET NX EX. An exception counts as success.
TryLock(c, p, got) ==
    \/ /\ got = "taken" /\ Answers(p)
       /\ lock = None /\ lock' = c
    \/ /\ got = "none" /\ Answers(p)
       /\ lock # None /\ UNCHANGED lock
    \/ /\ got = "assumed" /\ ~LockAnswers /\ Fails(p)
       /\ lock' \in (IF lock = None THEN MaybeDone(p, lock, c) ELSE {lock})

\* _release_transition_lock: DEL, whoever holds it; a failure is swallowed.
DropLock(p) ==
    \/ Answers(p) /\ lock' = None
    \/ Fails(p) /\ lock' \in MaybeDone(p, lock, None)

LockView(c) == IF c \in Activations THEN act[c].lock ELSE reset[c].lock

\* TRANSITION_LOCK_TTL_SECONDS are over.
LockExpires ==
    /\ lock # None
    /\ Punctual => LockView(lock) # "taken"
    /\ lock' = None
    /\ UNCHANGED <<processVars, switch, holds, latchVars, act, reset, standing>>

-----------------------------------------------------------------------------
(* activate                                                                *)

\* The lock, or without it; the latch at once.
Activates(a, p, h) == \E got \in LockViews :
    /\ act[a].at = "idle"
    /\ TryLock(a, p, got)
    /\ act' = [act EXCEPT ![a] =
            [at |-> "latched", proc |-> p, hold |-> h, lock |-> got, ok |-> TRUE]]
    /\ SetLatch(p, TRUE)
    /\ UNCHANGED <<linked, order, switch, holds, reset, standing>>

\* SET KEY "1"; a failure is logged.
Engages(a) ==
    LET p == act[a].proc IN
    /\ act[a].at = "latched"
    /\ \/ /\ Answers(p)
          /\ switch' = TRUE
          /\ act' = [act EXCEPT ![a].at = "engaged"]
       \/ /\ Fails(p)
          /\ switch' \in MaybeDone(p, switch, TRUE)
          /\ act' = [act EXCEPT ![a].at = "engaged", ![a].ok = FALSE]
    /\ UNCHANGED <<linked, order, holds, lock, latchVars, reset, standing>>

\* SADD of the hold; a failure is logged.
Registers(a) ==
    LET p == act[a].proc  hold == {act[a].hold} IN
    /\ act[a].at = "engaged"
    /\ \/ /\ Answers(p)
          /\ holds' = holds \cup hold
          /\ standing' = IF act[a].ok /\ act[a].lock = "taken"
                         THEN standing \cup hold ELSE standing
       \/ /\ Fails(p)
          /\ holds' \in MaybeDone(p, holds, holds \cup hold)
          /\ UNCHANGED standing
    /\ act' = [act EXCEPT ![a].at = "held"]
    /\ UNCHANGED <<linked, order, switch, lock, latchVars, reset>>

\* The lock is released if the call believes it has it; activate returns.
ActivateReturns(a) ==
    LET p == act[a].proc IN
    /\ act[a].at = "held"
    /\ IF act[a].lock = "none" THEN UNCHANGED <<lock, faults>> ELSE DropLock(p)
    /\ act' = [act EXCEPT ![a] = NoActivation]
    /\ UNCHANGED <<linked, order, switch, holds, latchVars, reset, standing>>

-----------------------------------------------------------------------------
(* deactivate. Reason, operator and authority are checked before the first *)
(* step; a reset refused for them, or for the lock, changes nothing.       *)

\* Mutant: the reset does not wait for the lock either.
ResetBeginsAnyway(z, p, told) == \E got \in LockViews :
    /\ reset[z].at = "idle"
    /\ TryLock(z, p, got)
    /\ reset' = [reset EXCEPT ![z] =
            [at |-> "locked", proc |-> p, told |-> told, read |-> {}, lock |-> got]]
    /\ UNCHANGED <<linked, order, switch, holds, latchVars, act, standing>>

ResetBegins(z, p, told) == \E got \in LockViews \ {"none"} :
    /\ reset[z].at = "idle"
    /\ TryLock(z, p, got)
    /\ reset' = [reset EXCEPT ![z] =
            [at |-> "locked", proc |-> p, told |-> told, read |-> {}, lock |-> got]]
    /\ UNCHANGED <<linked, order, switch, holds, latchVars, act, standing>>

\* SMEMBERS. Holds that cannot be read, or that the operator did not
\* acknowledge, refuse the reset.
Reviews(z) ==
    LET p == reset[z].proc IN
    /\ reset[z].at = "locked"
    /\ \/ /\ Answers(p) /\ holds \subseteq reset[z].told
          /\ reset' = [reset EXCEPT ![z].at = "reviewed", ![z].read = holds]
       \/ /\ (Answers(p) /\ ~(holds \subseteq reset[z].told)) \/ Fails(p)
          /\ reset' = [reset EXCEPT ![z].at = "leaving"]
    /\ UNCHANGED <<linked, order, switch, holds, lock, latchVars, act, standing>>

\* SET KEY "0"; a failure is a RuntimeError.
Clears(z) ==
    LET p == reset[z].proc IN
    /\ reset[z].at = "reviewed"
    /\ \/ /\ Answers(p)
          /\ switch' = FALSE
          /\ reset' = [reset EXCEPT ![z].at = "cleared"]
       \/ /\ Fails(p)
          /\ switch' \in MaybeDone(p, switch, FALSE)
          /\ reset' = [reset EXCEPT ![z].at = "leaving"]
    /\ order' = IF switch' THEN order ELSE SeesOff
    /\ standing' = standing \ reset[z].read
    /\ UNCHANGED <<linked, holds, lock, latchVars, act>>

\* SREM of the holds that were read; the latch last.
Releases(z) ==
    LET p == reset[z].proc  left == holds \ reset[z].read IN
    /\ reset[z].at = "cleared"
    /\ \/ Answers(p) /\ holds' = left
       \/ Fails(p) /\ holds' \in MaybeDone(p, holds, left)
    /\ SetLatch(p, FALSE)
    /\ reset' = [reset EXCEPT ![z].at = "leaving"]
    /\ UNCHANGED <<linked, order, switch, lock, act, standing>>

ResetReturns(z) ==
    /\ reset[z].at = "leaving"
    /\ IF reset[z].lock = "none" THEN UNCHANGED <<lock, faults>> ELSE DropLock(reset[z].proc)
    /\ reset' = [reset EXCEPT ![z] = NoReset]
    /\ UNCHANGED <<linked, order, switch, holds, latchVars, act, standing>>

-----------------------------------------------------------------------------

\* _REDIS_PROBE_INTERVAL_SECONDS are over.
ProbeIsDue(p) ==
    /\ waits[p]
    /\ waits' = [waits EXCEPT ![p] = FALSE]
    /\ UNCHANGED <<processVars, switch, holds, lock, latch, last, act, reset, standing>>

\* A restarted process knows of nothing; Redis keeps what was written.
SwitchForgets(p) ==
    /\ SetLatch(p, FALSE)
    /\ act' = [a \in Activations |-> IF act[a].proc = p THEN NoActivation ELSE act[a]]
    /\ reset' = [z \in Resets |-> IF reset[z].proc = p THEN NoReset ELSE reset[z]]
    /\ UNCHANGED <<switch, holds, lock, standing>>

Transition ==
    \/ \E a \in Activations :
         \/ \E p \in Processes, h \in Triggers : Activates(a, p, h)
         \/ Engages(a) \/ Registers(a) \/ ActivateReturns(a)
    \/ \E z \in Resets :
         \/ \E p \in Processes, told \in SUBSET Triggers : ResetBegins(z, p, told)
         \/ Reviews(z) \/ Clears(z) \/ Releases(z) \/ ResetReturns(z)

=============================================================================
