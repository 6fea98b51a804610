------------------------------ MODULE UsageMeter ------------------------------
(***************************************************************************)
(* core/usage_ledger.py, reserve: the monthly allowance of one account for *)
(* one metered resource, reserved by concurrent requests, one unit each.   *)
(* Redis keeps the meter and may lose it; plan_usage_ledger keeps a row    *)
(* per reservation, from which a lost meter is rebuilt. The cache proxies  *)
(* swallow their errors: GET answers None, SET nothing, INCRBY 0.          *)
(***************************************************************************)
EXTENDS Integers, FiniteSets

CONSTANTS
    Calls,     \* requests inside reserve; a member is used again when it is over
    Limit,     \* of a plan that has one. Unlimited plans do not reserve, and
               \* where nothing is allowed nothing is incremented
    MaxRows,   \* bounds the ledger
    MaxFaults  \* bounds the failed statements and dead requests

ASSUME MeterAssumption ==
    /\ IsFiniteSet(Calls)
    /\ Limit \in Nat \ {0}
    /\ MaxRows \in Nat
    /\ MaxFaults \in Nat

VARIABLES
    present, \* the key quota:{user}:{resource}:{period} exists
    meter,   \* its value, 0 without a key
    ledger,  \* rows of plan_usage_ledger for the period
    at,      \* what each call does next
    total,   \* the sum of the ledger each call has read
    faults,
    clean    \* history: no reservation was lost to the ledger, every rebuild
             \* was executed, and the key was never missing for two calls at once

vars == <<present, meter, ledger, at, total, faults, clean>>

Steps == {"idle", "sum", "seed", "increment", "append", "revert"}

TypeOK ==
    /\ present \in BOOLEAN
    /\ meter \in Int
    /\ ledger \in Nat
    /\ at \in [Calls -> Steps]
    /\ total \in [Calls -> Nat]
    /\ faults \in 0..MaxFaults
    /\ clean \in BOOLEAN

Init ==
    /\ present = FALSE
    /\ meter = 0
    /\ ledger = 0
    /\ at = [c \in Calls |-> "idle"]
    /\ total = [c \in Calls |-> 0]
    /\ faults = 0
    /\ clean = TRUE

At(step) == {c \in Calls : at[c] = step}
Goto(c, step) == at' = [at EXCEPT ![c] = step]
Alone(c) == \A d \in Calls \ {c} : at[d] = "idle"

Succeeds == UNCHANGED faults
Fails == faults < MaxFaults /\ faults' = faults + 1

-----------------------------------------------------------------------------
(* _reconcile_meter                                                        *)

\* Mutant: the meter is trusted as it is found.
ReadsMeterOnly(c) ==
    /\ c \in At("idle") /\ ledger < MaxRows
    /\ Goto(c, "increment") /\ Succeeds
    /\ UNCHANGED <<present, meter, ledger, total, clean>>

\* GET. A failure reads as a missing key.
ReadsMeter(c) ==
    /\ c \in At("idle") /\ ledger < MaxRows
    /\ \/ /\ Succeeds
          /\ Goto(c, IF present THEN "increment" ELSE "sum")
          /\ clean' = (clean /\ (present \/ Alone(c)))
       \/ present /\ Fails /\ Goto(c, "sum") /\ clean' = FALSE
    /\ UNCHANGED <<present, meter, ledger, total>>

\* _ledger_total: a failure, like an empty ledger, rebuilds nothing.
SumsLedger(c) ==
    /\ c \in At("sum")
    /\ \/ /\ Succeeds
          /\ Goto(c, IF ledger > 0 THEN "seed" ELSE "increment")
          /\ total' = [total EXCEPT ![c] = ledger]
          /\ UNCHANGED clean
       \/ Fails /\ Goto(c, "increment") /\ clean' = FALSE /\ UNCHANGED total
    /\ UNCHANGED <<present, meter, ledger>>

\* Mutant: the reservation under way is counted in, and incremented as well.
SeedsWithItself(c) ==
    /\ c \in At("seed") /\ Goto(c, "increment") /\ Succeeds
    /\ present' = TRUE /\ meter' = total[c] + 1
    /\ UNCHANGED <<ledger, total, clean>>

\* SET, over whatever is there by now.
SeedsMeter(c) ==
    /\ c \in At("seed") /\ Goto(c, "increment")
    /\ \/ Succeeds /\ present' = TRUE /\ meter' = total[c] /\ UNCHANGED clean
       \/ Fails /\ clean' = FALSE /\ UNCHANGED <<present, meter>>
    /\ UNCHANGED <<ledger, total>>

-----------------------------------------------------------------------------
(* reserve_quota                                                           *)

\* INCRBY. No answer, and any answer below the amount, refuse. A call that gets
\* no answer may have incremented.
Increments(c) ==
    /\ c \in At("increment")
    /\ \/ /\ Succeeds
          /\ Goto(c, CASE meter + 1 > Limit -> "revert"
                       [] meter + 1 < 1 -> "idle"
                       [] OTHER -> "append")
          /\ present' = TRUE /\ meter' = meter + 1
       \/ /\ Fails /\ Goto(c, "idle")
          /\ \/ present' = TRUE /\ meter' = meter + 1
             \/ UNCHANGED <<present, meter>>
    /\ UNCHANGED <<ledger, total, clean>>

\* DECRBY of a refused increment.
Reverts(c) ==
    /\ c \in At("revert") /\ Goto(c, "idle")
    /\ \/ Succeeds /\ present' = TRUE /\ meter' = meter - 1
       \/ Fails /\ UNCHANGED <<present, meter>>
    /\ UNCHANGED <<ledger, total, clean>>

\* _append_ledger. The call is admitted all the same if it fails.
AppendsLedger(c) ==
    /\ c \in At("append") /\ Goto(c, "idle")
    /\ \/ Succeeds /\ ledger' = ledger + 1 /\ UNCHANGED clean
       \/ Fails /\ clean' = FALSE /\ UNCHANGED ledger
    /\ UNCHANGED <<present, meter, total>>

-----------------------------------------------------------------------------
\* The request, or its worker, is over before the call is.
Dies(c) ==
    /\ c \notin At("idle") /\ Fails /\ Goto(c, "idle")
    /\ UNCHANGED <<present, meter, ledger, total, clean>>

\* The cache is flushed or replaced, the key evicted.
LosesMeter ==
    /\ present
    /\ present' = FALSE /\ meter' = 0
    /\ clean' = (clean /\ At("idle") = Calls)
    /\ UNCHANGED <<ledger, at, total, faults>>

Reserve(c) ==
    \/ ReadsMeter(c) \/ SumsLedger(c) \/ SeedsMeter(c)
    \/ Increments(c) \/ Reverts(c) \/ AppendsLedger(c)

Next == LosesMeter \/ \E c \in Calls : Reserve(c) \/ Dies(c)

Spec == Init /\ [][Next]_vars

-----------------------------------------------------------------------------
(* Properties                                                              *)

\* reserve: a cache that was flushed hands nobody a fresh month, and requests
\* that increment together do not share the last unit. As long as the ledger
\* could be read and written, and no second call met a missing key, what was
\* admitted is within the limit.
AdmittedWithinLimit ==
    clean => ledger + Cardinality(At("append")) <= Limit

\* reserve_quota: nobody is told that the month is used up before it is. Behind
\* every refusal on the limit stand that many reservations, but for one per
\* failed statement or dead request: no flush, rebuild or concurrent revert
\* costs the account a run.
RefusedWhenFull ==
    At("revert") # {} => Limit <= ledger + Cardinality(At("append")) + faults
=============================================================================
