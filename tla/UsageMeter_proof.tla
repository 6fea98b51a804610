--------------------------- MODULE UsageMeter_proof ---------------------------
(***************************************************************************)
(* Proofs about UsageMeter, for any number of requests, any limit and any  *)
(* number of failures and flushes. The meter is bounded from both sides by *)
(* what is recorded and under way: from above whatever happens, which      *)
(* gives RefusedWhenFull; from below as long as the history is clean,      *)
(* which gives AdmittedWithinLimit.                                        *)
(***************************************************************************)
EXTENDS UsageMeter, FiniteSetTheorems, TLAPS

Admitted == Cardinality(At("append"))
Refused  == Cardinality(At("revert"))

\* The flags; apart from the rest because they are truth values.
Flags == present \in BOOLEAN /\ clean \in BOOLEAN
Figures ==
    /\ meter \in Int
    /\ ledger \in Nat
    /\ at \in [Calls -> Steps]
    /\ total \in [Calls -> Nat]
    /\ faults \in 0..MaxFaults

LEMMA TypeParts == TypeOK <=> Flags /\ Figures
  BY Zenon DEF TypeOK, Flags, Figures

\* Every step leaves the flags truth values.
LEMMA FlagStep == Flags /\ [Next]_vars => Flags'
<1> SUFFICES ASSUME Flags, [Next]_vars PROVE Flags'
  OBVIOUS
<1> USE DEF Flags
<1>1. ASSUME LosesMeter PROVE Flags'
  BY <1>1, Zenon DEF LosesMeter
<1>2. ASSUME NEW c \in Calls, Reserve(c) PROVE Flags'
  <2>1. CASE ReadsMeter(c)
    BY <2>1, Zenon DEF ReadsMeter
  <2>2. CASE SumsLedger(c)
    BY <2>2, Zenon DEF SumsLedger
  <2>3. CASE SeedsMeter(c)
    BY <2>3, Zenon DEF SeedsMeter
  <2>4. CASE Increments(c)
    BY <2>4, Zenon DEF Increments
  <2>5. CASE Reverts(c)
    BY <2>5, Zenon DEF Reverts
  <2>6. CASE AppendsLedger(c)
    BY <2>6, Zenon DEF AppendsLedger
  <2> QED
    BY <1>2, <2>1, <2>2, <2>3, <2>4, <2>5, <2>6 DEF Reserve
<1>3. ASSUME NEW c \in Calls, Dies(c) PROVE Flags'
  BY <1>3, Zenon DEF Dies
<1>4. CASE UNCHANGED vars
  BY <1>4, Zenon DEF vars
<1> QED
  BY <1>1, <1>2, <1>3, <1>4, Zenon DEF Next

\* The steps a call can take next are steps.
LEMMA StepNames ==
    /\ "idle" \in Steps /\ "sum" \in Steps /\ "seed" \in Steps
    /\ "increment" \in Steps /\ "append" \in Steps /\ "revert" \in Steps
  BY DEF Steps

\* Every step keeps the figures and the calls well-typed.
LEMMA FigureStep == Figures /\ [Next]_vars => Figures'
<1> SUFFICES ASSUME Figures, [Next]_vars PROVE Figures'
  OBVIOUS
<1> USE MeterAssumption, StepNames DEF Figures, Goto, Succeeds, Fails
<1>1. ASSUME LosesMeter PROVE Figures'
  BY <1>1 DEF LosesMeter
<1>2. ASSUME NEW c \in Calls, Reserve(c) PROVE Figures'
  <2>1. CASE ReadsMeter(c)
    BY <2>1 DEF ReadsMeter
  <2>2. CASE SumsLedger(c)
    BY <2>2 DEF SumsLedger
  <2>3. CASE SeedsMeter(c)
    BY <2>3 DEF SeedsMeter
  <2>4. CASE Increments(c)
    BY <2>4 DEF Increments
  <2>5. CASE Reverts(c)
    BY <2>5 DEF Reverts
  <2>6. CASE AppendsLedger(c)
    BY <2>6 DEF AppendsLedger
  <2> QED
    BY <1>2, <2>1, <2>2, <2>3, <2>4, <2>5, <2>6 DEF Reserve
<1>3. ASSUME NEW c \in Calls, Dies(c) PROVE Figures'
  BY <1>3 DEF Dies
<1>4. CASE UNCHANGED vars
  BY <1>4 DEF vars
<1> QED
  BY <1>1, <1>2, <1>3, <1>4 DEF Next

\* The initial state is well-typed.
LEMMA TypeInit == Init => TypeOK
<1>1. Init => Flags
  BY Zenon DEF Init, Flags
<1>2. Init => Figures
  BY MeterAssumption, StepNames DEF Init, Figures
<1> QED
  BY <1>1, <1>2, TypeParts

\* Every step keeps the state well-typed.
LEMMA TypeStep == TypeOK /\ [Next]_vars => TypeOK'
<1>1. TypeOK' <=> Flags' /\ Figures'
  BY Zenon DEF TypeOK, Flags, Figures
<1> QED
  BY <1>1, TypeParts, FlagStep, FigureStep

\* The meter, the ledger and the calls keep their types.
THEOREM TypeCorrect == Spec => []TypeOK
  BY TypeInit, TypeStep, PTL DEF Spec

-----------------------------------------------------------------------------
(* The calls at a step, counted.                                           *)

\* The calls at a step are finitely many.
LEMMA AtFinite ==
  ASSUME NEW step
  PROVE  /\ IsFiniteSet(At(step))
         /\ Cardinality(At(step)) \in Nat
<1>1. At(step) \subseteq Calls
  BY DEF At
<1> QED
  BY <1>1, MeterAssumption, FS_Subset, FS_CardinalityType

\* One call arrives at a step, or leaves it.
LEMMA AtCounts ==
  ASSUME NEW S, NEW T, IsFiniteSet(S), NEW c
  PROVE  /\ c \notin S /\ T = S \cup {c} => Cardinality(T) = Cardinality(S) + 1
         /\ c \in S /\ T = S \ {c} => Cardinality(T) = Cardinality(S) - 1
<1>1. ASSUME c \notin S, T = S \cup {c} PROVE Cardinality(T) = Cardinality(S) + 1
  BY <1>1, FS_AddElement
<1>2. ASSUME c \in S, T = S \ {c} PROVE Cardinality(T) = Cardinality(S) - 1
  BY <1>2, FS_RemoveElement
<1> QED
  BY <1>1, <1>2

\* What a call's move from its step to another does to the numbers of calls
\* admitted and refused.
LEMMA GotoCounts ==
  ASSUME Figures, NEW c \in Calls, NEW to \in Steps, at[c] # to, Goto(c, to)
  PROVE  /\ Admitted \in Nat /\ Refused \in Nat
         /\ Admitted' = Admitted + (IF to = "append" THEN 1 ELSE 0)
                                 - (IF at[c] = "append" THEN 1 ELSE 0)
         /\ Refused' = Refused + (IF to = "revert" THEN 1 ELSE 0)
                               - (IF at[c] = "revert" THEN 1 ELSE 0)
<1> DEFINE Count(step) == Cardinality(At(step))
<1>1. at'[c] = to /\ \A d \in Calls \ {c} : at'[d] = at[d]
  BY DEF Figures, Goto
<1>2. ASSUME NEW step
      PROVE  /\ Count(step) \in Nat
             /\ Count(step)' = Count(step) + (IF to = step THEN 1 ELSE 0)
                                           - (IF at[c] = step THEN 1 ELSE 0)
  <2>1. IsFiniteSet(At(step)) /\ Count(step) \in Nat
    BY AtFinite
  <2>2. CASE to = step
    <3>1. c \notin At(step) /\ At(step)' = At(step) \cup {c}
      BY <1>1, <2>2 DEF At
    <3> QED
      BY <2>1, <2>2, <3>1, AtCounts
  <2>3. CASE at[c] = step
    <3>1. c \in At(step) /\ At(step)' = At(step) \ {c}
      BY <1>1, <2>3 DEF At
    <3> QED
      BY <2>1, <2>3, <3>1, AtCounts
  <2>4. CASE to # step /\ at[c] # step
    <3>1. At(step)' = At(step)
      BY <1>1, <2>4 DEF At
    <3> QED
      BY <2>1, <2>4, <3>1
  <2> QED
    BY <2>2, <2>3, <2>4
<1> QED
  BY <1>2 DEF Admitted, Refused

\* The numbers are numbers; without a refused call, the second is 0.
LEMMA Counts ==
    /\ Admitted \in Nat /\ Refused \in Nat
    /\ At("revert") = {} <=> Refused = 0
    /\ At("append") = {} <=> Admitted = 0
  BY AtFinite, FS_EmptySet DEF Admitted, Refused

-----------------------------------------------------------------------------
(* The month is not used up early                                          *)

\* The meter shows at most what is recorded and under way, and what failures
\* have cost; nothing that loses, rebuilds or repeats takes it beyond that. So
\* a call that found it full stands before that many reservations.
UpperInv ==
    /\ meter <= ledger + Admitted + Refused + faults
    /\ \A c \in Calls : at[c] = "seed" => total[c] <= ledger
    /\ Refused # 0 => Limit <= ledger + Admitted + faults

\* Nothing is metered at first.
LEMMA UpperInit == Init => UpperInv
<1>1. Init => At("revert") = {} /\ At("append") = {}
  BY DEF Init, At
<1> QED
  BY <1>1, Counts, MeterAssumption DEF Init, UpperInv

\* Every step keeps the bound.
LEMMA UpperStep == Figures /\ UpperInv /\ [Next]_vars => UpperInv'
<1> SUFFICES ASSUME Figures, UpperInv, [Next]_vars PROVE UpperInv'
  OBVIOUS
<1>0. /\ Admitted \in Nat /\ Refused \in Nat
      /\ meter \in Int /\ ledger \in Nat /\ faults \in Nat
      /\ Limit \in Nat \ {0}
  BY Counts, MeterAssumption DEF Figures
<1>1. ASSUME NEW c \in Calls, Reserve(c) PROVE UpperInv'
  <2> USE StepNames DEF Succeeds, Fails, At
  <2>1. CASE ReadsMeter(c)
    <3>1. /\ at[c] = "idle" /\ UNCHANGED <<meter, ledger, total>>
          /\ (faults' = faults \/ faults' = faults + 1)
          /\ Goto(c, "increment") \/ Goto(c, "sum")
      BY <2>1 DEF ReadsMeter
    <3>2. Admitted' = Admitted /\ Refused' = Refused
      BY <3>1, <1>0, GotoCounts
    <3>3. \A d \in Calls : at'[d] = "seed" => total'[d] <= ledger'
      BY <3>1, <1>0 DEF UpperInv, Goto, Figures
    <3> HIDE DEF At
    <3> QED
      BY <1>0, <3>1, <3>2, <3>3 DEF UpperInv
  <2>2. CASE SumsLedger(c)
    <3>1. /\ at[c] = "sum" /\ UNCHANGED <<meter, ledger>>
          /\ (faults' = faults \/ faults' = faults + 1)
          /\ \/ Goto(c, "seed") /\ total' = [total EXCEPT ![c] = ledger]
             \/ Goto(c, "increment") /\ total' = [total EXCEPT ![c] = ledger]
             \/ Goto(c, "increment") /\ total' = total
      BY <2>2 DEF SumsLedger
    <3>2. Admitted' = Admitted /\ Refused' = Refused
      BY <3>1, <1>0, GotoCounts
    <3>3. \A d \in Calls : at'[d] = "seed" => total'[d] <= ledger'
      BY <3>1, <1>0 DEF UpperInv, Goto, Figures
    <3> HIDE DEF At
    <3> QED
      BY <1>0, <3>1, <3>2, <3>3 DEF UpperInv
  <2>3. CASE SeedsMeter(c)
    <3>1. /\ at[c] = "seed" /\ Goto(c, "increment") /\ UNCHANGED <<ledger, total>>
          /\ (meter' = meter \/ meter' = total[c]) /\ (faults' = faults \/ faults' = faults + 1)
      BY <2>3 DEF SeedsMeter
    <3>2. Admitted' = Admitted /\ Refused' = Refused
      BY <3>1, <1>0, GotoCounts
    <3>3. total[c] \in Nat /\ total[c] <= ledger
      BY <3>1 DEF UpperInv, Figures
    <3>4. \A d \in Calls : at'[d] = "seed" => total'[d] <= ledger'
      BY <3>1, <1>0 DEF UpperInv, Goto, Figures
    <3> HIDE DEF At
    <3> QED
      BY <1>0, <3>1, <3>2, <3>3, <3>4 DEF UpperInv
  <2>4. CASE Increments(c)
    <3>0. at[c] = "increment" /\ UNCHANGED <<ledger, total>>
      BY <2>4 DEF Increments
    <3>1. CASE /\ meter + 1 > Limit /\ Goto(c, "revert")
               /\ meter' = meter + 1 /\ faults' = faults
      <4>1. Admitted' = Admitted /\ Refused' = Refused + 1
        BY <3>0, <3>1, <1>0, GotoCounts
      <4> QED
        BY <1>0, <3>0, <3>1, <4>1 DEF UpperInv, Goto, Figures
    <3>2. CASE Goto(c, "append") /\ meter' = meter + 1 /\ faults' = faults
      <4>1. Admitted' = Admitted + 1 /\ Refused' = Refused
        BY <3>0, <3>2, <1>0, GotoCounts
      <4> QED
        BY <1>0, <3>0, <3>2, <4>1 DEF UpperInv, Goto, Figures
    <3>3. CASE /\ Goto(c, "idle")
               /\ \/ meter' = meter + 1 /\ meter + 1 < 1 /\ faults' = faults
                  \/ meter' \in {meter, meter + 1} /\ faults' = faults + 1
      <4>1. Admitted' = Admitted /\ Refused' = Refused
        BY <3>0, <3>3, <1>0, GotoCounts
      <4> QED
        BY <1>0, <3>0, <3>3, <4>1 DEF UpperInv, Goto, Figures
    <3> QED
      BY <2>4, <3>1, <3>2, <3>3 DEF Increments
  <2>5. CASE Reverts(c)
    <3>1. /\ at[c] = "revert" /\ Goto(c, "idle") /\ UNCHANGED <<ledger, total>>
          /\ \/ meter' = meter - 1 /\ faults' = faults
             \/ meter' = meter /\ faults' = faults + 1
      BY <2>5 DEF Reverts
    <3>2. Admitted' = Admitted /\ Refused' = Refused - 1
      BY <3>1, <1>0, GotoCounts
    <3>3. Refused # 0
      BY <3>1, Counts
    <3> QED
      BY <1>0, <3>1, <3>2, <3>3 DEF UpperInv, Goto, Figures
  <2>6. CASE AppendsLedger(c)
    <3>1. /\ at[c] = "append" /\ Goto(c, "idle") /\ UNCHANGED <<meter, total>>
          /\ \/ ledger' = ledger + 1 /\ faults' = faults
             \/ ledger' = ledger /\ faults' = faults + 1
      BY <2>6 DEF AppendsLedger
    <3>2. Admitted' = Admitted - 1 /\ Refused' = Refused
      BY <3>1, <1>0, GotoCounts
    <3> QED
      BY <1>0, <3>1, <3>2 DEF UpperInv, Goto, Figures
  <2> QED
    BY <1>1, <2>1, <2>2, <2>3, <2>4, <2>5, <2>6 DEF Reserve
<1>2. ASSUME NEW c \in Calls, Dies(c) PROVE UpperInv'
  <2>1. /\ at[c] # "idle" /\ Goto(c, "idle") /\ faults' = faults + 1
        /\ UNCHANGED <<meter, ledger, total>>
    BY <1>2 DEF Dies, Fails, At
  <2>2. /\ Admitted' = Admitted - (IF at[c] = "append" THEN 1 ELSE 0)
        /\ Refused' = Refused - (IF at[c] = "revert" THEN 1 ELSE 0)
    BY <1>0, <2>1, GotoCounts, StepNames
  <2>3. at[c] = "revert" => Refused # 0
    BY Counts DEF At
  <2> QED
    BY <1>0, <2>1, <2>2, <2>3 DEF UpperInv, Goto, Figures
<1>3. CASE LosesMeter
  <2>1. Admitted' = Admitted /\ Refused' = Refused
    BY <1>3 DEF LosesMeter, Admitted, Refused, At
  <2> QED
    BY <1>0, <1>3, <2>1 DEF LosesMeter, UpperInv
<1>4. CASE UNCHANGED vars
  <2>1. Admitted' = Admitted /\ Refused' = Refused
    BY <1>4 DEF vars, Admitted, Refused, At
  <2> QED
    BY <1>4, <2>1 DEF vars, UpperInv
<1> QED
  BY <1>1, <1>2, <1>3, <1>4 DEF Next

\* A refusal on the limit stands before as many reservations, but for one per
\* failure, whatever is flushed, rebuilt or reverted meanwhile.
THEOREM RefusesWhenFull == Spec => []RefusedWhenFull
<1>1. Init => Figures /\ UpperInv
  BY TypeInit, TypeParts, UpperInit
<1>2. Figures /\ UpperInv /\ [Next]_vars => (Figures /\ UpperInv)'
  BY FigureStep, UpperStep
<1>3. UpperInv => RefusedWhenFull
  BY Counts DEF UpperInv, RefusedWhenFull, Admitted
<1> QED
  BY <1>1, <1>2, <1>3, PTL DEF Spec

-----------------------------------------------------------------------------
(* The limit holds                                                         *)

\* Without a key the meter shows nothing; with one, at least what is recorded
\* and under way.
MeterCovers ==
    /\ ~present => meter = 0
    /\ present => ledger + Admitted + Refused <= meter
    /\ ledger + Admitted <= Limit

\* A call that found the key missing rebuilds it undisturbed, from a ledger that
\* nobody adds to.
RebuildsAlone ==
    /\ \A c \in Calls : at[c] \in {"sum", "seed"} => ~present
    /\ \A c \in Calls : at[c] = "seed" => total[c] = ledger
    /\ ~present => \A c \in Calls :
         /\ at[c] # "idle" => Alone(c)
         /\ at[c] \notin {"append", "revert"}
         /\ at[c] = "increment" => ledger = 0

CleanInv == MeterCovers /\ RebuildsAlone

\* Nothing cleans a history.
LEMMA CleanStep == [Next]_vars /\ clean' => clean
  BY Zenon DEF Next, Reserve, ReadsMeter, SumsLedger, SeedsMeter, Increments, Reverts,
               AppendsLedger, Dies, LosesMeter, vars

\* A fresh month is covered.
LEMMA CleanInit == Init => CleanInv
<1>1. Init => At("revert") = {} /\ At("append") = {}
  BY DEF Init, At
<1>2. Init => MeterCovers
  BY <1>1, Counts, MeterAssumption DEF Init, MeterCovers
<1>3. Init => RebuildsAlone
  BY DEF Init, RebuildsAlone
<1> QED
  BY <1>2, <1>3 DEF CleanInv

\* Every step of a clean history keeps it covered.
LEMMA CoverStep == Figures /\ CleanInv /\ [Next]_vars /\ clean' => CleanInv'
<1> SUFFICES ASSUME Figures, CleanInv, [Next]_vars, clean' PROVE CleanInv'
  OBVIOUS
<1>0. /\ Admitted \in Nat /\ Refused \in Nat
      /\ meter \in Int /\ ledger \in Nat
      /\ Limit \in Nat \ {0}
      /\ ~present => Admitted = 0 /\ Refused = 0
  BY Counts, MeterAssumption DEF Figures, At, CleanInv, RebuildsAlone
<1>1. ASSUME NEW c \in Calls, Reserve(c) PROVE CleanInv'
  <2> USE StepNames DEF Succeeds, Fails
  <2>1. CASE ReadsMeter(c)
    <3>1. /\ at[c] = "idle" /\ UNCHANGED <<present, meter, ledger, total>>
          /\ present => Goto(c, "increment")
          /\ ~present => Goto(c, "sum") /\ Alone(c)
      BY <2>1 DEF ReadsMeter, At
    <3>2. Admitted' = Admitted /\ Refused' = Refused
      BY <3>1, <1>0, GotoCounts
    <3>3. MeterCovers'
      BY <1>0, <3>1, <3>2 DEF CleanInv, MeterCovers
    <3>4. RebuildsAlone'
      BY <3>1 DEF CleanInv, RebuildsAlone, Goto, Alone, Figures
    <3> QED
      BY <3>3, <3>4 DEF CleanInv
  <2>2. CASE SumsLedger(c)
    <3>1. /\ at[c] = "sum" /\ UNCHANGED <<present, meter, ledger>>
          /\ ledger > 0 => Goto(c, "seed")
          /\ ~(ledger > 0) => Goto(c, "increment")
          /\ total' = [total EXCEPT ![c] = ledger]
      BY <2>2 DEF SumsLedger, At
    <3>2. Admitted' = Admitted /\ Refused' = Refused
      BY <3>1, <1>0, GotoCounts
    <3>3. MeterCovers'
      BY <1>0, <3>1, <3>2 DEF CleanInv, MeterCovers
    <3>4. RebuildsAlone'
      BY <1>0, <3>1 DEF CleanInv, RebuildsAlone, Goto, Alone, Figures
    <3> QED
      BY <3>3, <3>4 DEF CleanInv
  <2>3. CASE SeedsMeter(c)
    <3>1. /\ at[c] = "seed" /\ Goto(c, "increment") /\ UNCHANGED <<ledger, total>>
          /\ present' /\ meter' = total[c]
      BY <2>3 DEF SeedsMeter, At
    <3>2. Admitted' = Admitted /\ Refused' = Refused
      BY <3>1, <1>0, GotoCounts
    <3>3. ~present /\ total[c] = ledger /\ Alone(c)
      BY <3>1 DEF CleanInv, RebuildsAlone
    <3>4. MeterCovers'
      BY <1>0, <3>1, <3>2, <3>3 DEF CleanInv, MeterCovers
    <3>5. RebuildsAlone'
      BY <3>1, <3>3 DEF CleanInv, RebuildsAlone, Goto, Alone, Figures
    <3> QED
      BY <3>4, <3>5 DEF CleanInv
  <2>4. CASE Increments(c)
    <3>0. at[c] = "increment" /\ UNCHANGED <<ledger, total>>
      BY <2>4 DEF Increments, At
    <3>1. ~present => ledger = 0 /\ Alone(c)
      BY <3>0 DEF CleanInv, RebuildsAlone
    <3>2. ASSUME NEW to \in {"revert", "idle", "append"}, Goto(c, to),
                 present' /\ meter' = meter + 1,
                 to = "append" => meter + 1 <= Limit
          PROVE CleanInv'
      <4>1. /\ Admitted' = Admitted + (IF to = "append" THEN 1 ELSE 0)
            /\ Refused' = Refused + (IF to = "revert" THEN 1 ELSE 0)
        BY <1>0, <3>0, <3>2, GotoCounts
      <4>2. MeterCovers'
        BY <1>0, <3>0, <3>1, <3>2, <4>1 DEF CleanInv, MeterCovers
      <4>3. RebuildsAlone'
        BY <3>0, <3>1, <3>2 DEF CleanInv, RebuildsAlone, Goto, Alone, Figures
      <4> QED
        BY <4>2, <4>3 DEF CleanInv
    <3>3. CASE Goto(c, "idle") /\ UNCHANGED <<present, meter>>
      <4>1. Admitted' = Admitted /\ Refused' = Refused
        BY <1>0, <3>0, <3>3, GotoCounts
      <4>2. MeterCovers'
        BY <1>0, <3>0, <3>3, <4>1 DEF CleanInv, MeterCovers
      <4>3. RebuildsAlone'
        BY <3>0, <3>3 DEF CleanInv, RebuildsAlone, Goto, Alone, Figures
      <4> QED
        BY <4>2, <4>3 DEF CleanInv
    <3>4. \/ Goto(c, "idle") /\ UNCHANGED <<present, meter>>
          \/ \E to \in {"revert", "idle", "append"} :
               /\ Goto(c, to) /\ present' /\ meter' = meter + 1
               /\ to = "append" => meter + 1 <= Limit
      BY <1>0, <2>4 DEF Increments
    <3> QED
      BY <3>2, <3>3, <3>4
  <2>5. CASE Reverts(c)
    <3>1. at[c] = "revert" /\ Goto(c, "idle") /\ UNCHANGED <<ledger, total>>
      BY <2>5 DEF Reverts, At
    <3>2. Admitted' = Admitted /\ Refused' = Refused - 1
      BY <3>1, <1>0, GotoCounts
    <3>3. present
      BY <3>1 DEF CleanInv, RebuildsAlone
    <3>4. present' /\ (meter' = meter - 1 \/ meter' = meter)
      BY <2>5, <3>3 DEF Reverts
    <3>5. MeterCovers'
      BY <1>0, <3>1, <3>2, <3>3, <3>4 DEF CleanInv, MeterCovers
    <3>6. RebuildsAlone'
      BY <3>1, <3>3, <3>4 DEF CleanInv, RebuildsAlone, Goto, Alone, Figures
    <3> QED
      BY <3>5, <3>6 DEF CleanInv
  <2>6. CASE AppendsLedger(c)
    <3>1. /\ at[c] = "append" /\ Goto(c, "idle") /\ UNCHANGED <<present, meter, total>>
          /\ ledger' = ledger + 1
      BY <2>6 DEF AppendsLedger, At
    <3>2. Admitted' = Admitted - 1 /\ Refused' = Refused
      BY <3>1, <1>0, GotoCounts
    <3>3. present
      BY <3>1 DEF CleanInv, RebuildsAlone
    <3>4. MeterCovers'
      BY <1>0, <3>1, <3>2, <3>3 DEF CleanInv, MeterCovers
    <3>5. RebuildsAlone'
      BY <3>1, <3>3 DEF CleanInv, RebuildsAlone, Goto, Alone, Figures
    <3> QED
      BY <3>4, <3>5 DEF CleanInv
  <2> QED
    BY <1>1, <2>1, <2>2, <2>3, <2>4, <2>5, <2>6 DEF Reserve
<1>2. ASSUME NEW c \in Calls, Dies(c) PROVE CleanInv'
  <2>1. at[c] # "idle" /\ Goto(c, "idle") /\ UNCHANGED <<present, meter, ledger, total>>
    BY <1>2 DEF Dies, At
  <2>2. /\ Admitted' = Admitted - (IF at[c] = "append" THEN 1 ELSE 0)
        /\ Refused' = Refused - (IF at[c] = "revert" THEN 1 ELSE 0)
    BY <1>0, <2>1, GotoCounts, StepNames
  <2>3. MeterCovers'
    BY <1>0, <2>1, <2>2 DEF CleanInv, MeterCovers
  <2>4. RebuildsAlone'
    BY <2>1 DEF CleanInv, RebuildsAlone, Goto, Alone, Figures
  <2> QED
    BY <2>3, <2>4 DEF CleanInv
<1>3. CASE LosesMeter
  <2>1. /\ ~present' /\ meter' = 0 /\ UNCHANGED <<ledger, at, total>>
        /\ \A c \in Calls : at[c] = "idle"
    BY <1>3 DEF LosesMeter, At
  <2>2. Admitted' = Admitted /\ Refused' = Refused
    BY <2>1 DEF Admitted, Refused, At
  <2>3. MeterCovers'
    BY <1>0, <2>1, <2>2 DEF CleanInv, MeterCovers
  <2>4. RebuildsAlone'
    BY <2>1 DEF RebuildsAlone
  <2> QED
    BY <2>3, <2>4 DEF CleanInv
<1>4. CASE UNCHANGED vars
  <2>1. Admitted' = Admitted /\ Refused' = Refused
    BY <1>4 DEF vars, Admitted, Refused, At
  <2> QED
    BY <1>4, <2>1 DEF vars, CleanInv, MeterCovers, RebuildsAlone, Alone
<1> QED
  BY <1>1, <1>2, <1>3, <1>4 DEF Next

\* As long as rebuilds are executed and undisturbed and the ledger is written, no
\* number of concurrent requests, failures and flushes of the cache admits more
\* than the limit.
THEOREM AdmitsWithinLimit == Spec => []AdmittedWithinLimit
<1>1. Init => Figures /\ (clean => CleanInv)
  BY TypeInit, TypeParts, CleanInit
<1>2. Figures /\ (clean => CleanInv) /\ [Next]_vars
      => (Figures /\ (clean => CleanInv))'
  BY FigureStep, CleanStep, CoverStep
<1>3. (clean => CleanInv) => AdmittedWithinLimit
  BY DEF CleanInv, MeterCovers, AdmittedWithinLimit, Admitted
<1> QED
  BY <1>1, <1>2, <1>3, PTL DEF Spec
=============================================================================
