------------------------------- MODULE BotLease -------------------------------
(***************************************************************************)
(* What the claims of core/bot_ownership.py promise one logical bot, with  *)
(* no rows, registries, tasks or calls: an incarnation begins once, and    *)
(* only when every other that still runs has been out of touch with the    *)
(* store for all but the last round of the threshold; one that gets in     *)
(* touch with the store, be it that the answer takes a round, does so when *)
(* nobody else is in the same position. Nothing bounds for how long one    *)
(* that is out of touch runs on.                                           *)
(***************************************************************************)
EXTENDS Naturals

CONSTANTS
    Bots,      \* the incarnations
    Threshold  \* rounds without a heartbeat until a claim is stale

VARIABLES
    begun,   \* the incarnations whose one start is used
    running, \* those that boot or trade
    missed   \* for how many rounds each of them has been out of touch

vars == <<begun, running, missed>>

OutOfTouch(b) == missed[b] >= Threshold - 1

\* b runs, or would run, beside nobody who could still refresh the claim.
Unrivalled(b) == \A c \in running \ {b} : OutOfTouch(c)

Init ==
    /\ begun = {}
    /\ running = {}
    /\ missed = [b \in Bots |-> 0]

Begin(b) ==
    /\ b \notin begun /\ Unrivalled(b)
    /\ begun' = begun \cup {b}
    /\ running' = running \cup {b}
    /\ UNCHANGED missed

\* The claim was taken and its answer lost: the start is used up.
Waste(b) ==
    /\ b \notin begun
    /\ begun' = begun \cup {b}
    /\ UNCHANGED <<running, missed>>

Reach(b) ==
    /\ b \in running /\ Unrivalled(b)
    /\ \E n \in {0, 1} : missed' = [missed EXCEPT ![b] = n]
    /\ UNCHANGED <<begun, running>>

Miss(b) ==
    /\ b \in running
    /\ missed' = [missed EXCEPT ![b] = @ + 1]
    /\ UNCHANGED <<begun, running>>

End(b) ==
    /\ b \in running
    /\ running' = running \ {b}
    /\ missed' = [missed EXCEPT ![b] = 0]
    /\ UNCHANGED begun

Next == \E b \in Bots : Begin(b) \/ Waste(b) \/ Reach(b) \/ Miss(b) \/ End(b)

Spec == Init /\ [][Next]_vars
=============================================================================
