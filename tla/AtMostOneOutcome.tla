--------------------------- MODULE AtMostOneOutcome ---------------------------
(***************************************************************************)
(* What the idempotency layer promises of one order, with no lock, no      *)
(* cache and no error path: the operation may run for several calls, but   *)
(* only while the order has no outcome on record; it has at most one       *)
(* outcome at a time, until that is forgotten; and while there is one, it  *)
(* is all that any caller is told.                                         *)
(***************************************************************************)
CONSTANTS Requests, NoRequest

VARIABLES
    outcome,  \* the call whose result is on record, if there is one
    ran,      \* the calls whose operation took effect
    told      \* what each caller was told

vars == <<outcome, ran, told>>

Init ==
    /\ outcome = {}
    /\ ran = {}
    /\ told = [r \in Requests |-> NoRequest]

\* The operation takes effect.
Run(r) ==
    /\ outcome = {}
    /\ ran' = ran \cup {r}
    /\ UNCHANGED <<outcome, told>>

\* A result becomes the outcome, and its caller hears of it.
Decide(r) ==
    /\ outcome = {}
    /\ r \in ran
    /\ outcome' = {r}
    /\ told' = [told EXCEPT ![r] = r]
    /\ UNCHANGED ran

\* A result is handed out and never becomes the outcome.
HandOut(r) ==
    /\ outcome = {}
    /\ r \in ran
    /\ told' = [told EXCEPT ![r] = r]
    /\ UNCHANGED <<outcome, ran>>

\* A later caller is told the outcome.
Tell(r) ==
    /\ outcome # {}
    /\ \E s \in outcome : told' = [told EXCEPT ![r] = s]
    /\ UNCHANGED <<outcome, ran>>

\* The outcome is forgotten.
Forget ==
    /\ outcome # {}
    /\ outcome' = {}
    /\ UNCHANGED <<ran, told>>

Next ==
    \/ \E r \in Requests : Run(r) \/ Decide(r) \/ HandOut(r) \/ Tell(r)
    \/ Forget

Spec == Init /\ [][Next]_vars
=============================================================================
