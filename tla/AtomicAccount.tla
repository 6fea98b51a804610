---------------------------- MODULE AtomicAccount ----------------------------
(***************************************************************************)
(* What a paper account promises the orders placed on it, with no calls,   *)
(* no versions, no retries and no ledger: every movement of money is one   *)
(* step on the balances as they are, which pays for itself, and money      *)
(* moves for an order only as far as the order has come.                   *)
(***************************************************************************)
EXTENDS Integers

CONSTANTS
    Orders,  \* intents to buy
    Limit,   \* the limit orders among them
    Reserve, \* the funds an order locks while it rests
    Capital  \* what an account starts with, and again after a reset

VARIABLES
    available,
    locked,
    reserved, \* the orders that have locked funds
    paid,     \* the orders that have been paid for
    state     \* how far an order has come

vars == <<available, locked, reserved, paid, state>>

Init ==
    /\ available = Capital
    /\ locked = 0
    /\ reserved = {}
    /\ paid = {}
    /\ state = [o \in Orders |-> "none"]

\* What an order gets back: its reservation, of what is locked at all.
Freed(o) == IF Reserve[o] <= locked THEN Reserve[o] ELSE locked

Backed(o) == Reserve[o] > 0 => o \in reserved

Standing(o) == state[o] \notin {"none", "CREATED"}

-----------------------------------------------------------------------------
\* Funds are locked once for an order, before it is on the book.
Lock(o) ==
    /\ state[o] = "CREATED"
    /\ o \in Limit \ reserved
    /\ Reserve[o] <= available
    /\ available' = available - Reserve[o]
    /\ locked' = locked + Reserve[o]
    /\ reserved' = reserved \cup {o}
    /\ UNCHANGED <<paid, state>>

\* At any cost the account can bear; a market order is paid once.
Pay(o) ==
    /\ Standing(o)
    /\ Backed(o)
    /\ o \in Limit \/ o \notin paid
    /\ available' \in 0..(available + Freed(o))
    /\ locked' = locked - Freed(o)
    /\ paid' = paid \cup {o}
    /\ UNCHANGED <<reserved, state>>

\* The orders with nothing to give back do not move the account.
Unlock(o) ==
    /\ Standing(o)
    /\ o \in reserved
    /\ available' = available + Freed(o)
    /\ locked' = locked - Freed(o)
    /\ UNCHANGED <<reserved, paid, state>>

Reset ==
    /\ available' = Capital
    /\ locked' = 0
    /\ UNCHANGED <<reserved, paid, state>>

Becomes(o, from, to) ==
    /\ state[o] = from
    /\ state' = [state EXCEPT ![o] = to]
    /\ UNCHANGED <<available, locked, reserved, paid>>

Enter(o)  == Becomes(o, "none", "CREATED")
Accept(o) == Becomes(o, "CREATED", "ACCEPTED") /\ Backed(o)
Fill(o)   == Becomes(o, "ACCEPTED", "FILLED") /\ o \in paid
Cancel(o) == Becomes(o, "ACCEPTED", "CANCELLED")

\* Only an order that locks nothing is refused.
Reject(o) ==
    /\ Becomes(o, "CREATED", "REJECTED") \/ Becomes(o, "ACCEPTED", "REJECTED")
    /\ o \notin Limit

Next ==
    \/ \E o \in Orders :
        \/ Lock(o) \/ Pay(o) \/ Unlock(o)
        \/ Enter(o) \/ Accept(o) \/ Fill(o) \/ Cancel(o) \/ Reject(o)
    \/ Reset

Spec == Init /\ [][Next]_vars
=============================================================================
