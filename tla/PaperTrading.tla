---------------------------- MODULE PaperTrading ----------------------------
(***************************************************************************)
(* PaperTradingService on the default account: place_order, cancel_order,  *)
(* check_limit_orders and reset_account, called in several processes, one  *)
(* step per statement. Orders buy one symbol. Amounts stand for cost,      *)
(* funds and reservation; a fill's cost need not be what was reserved.     *)
(***************************************************************************)
EXTENDS PaperRepository

CONSTANTS
    Processes,
    Costs,    \* what the fill of an order may cost
    Attempts, \* FILL_ATTEMPTS
    MaxCalls  \* bounds the calls

ASSUME CallAssumption ==
    /\ Costs \subseteq Nat
    /\ Attempts \in Nat \ {0}
    /\ MaxCalls \in Nat

VARIABLES
    request, \* the call each process is executing
    calls,
    lost     \* history: versions whose ledger row was never written

vars == <<tables, request, calls, lost>>

Placing    == {"insert", "fund", "reserve", "lock", "lockRow", "accept"}
Filling    == {"price", "check", "look", "fill", "pay", "payRow",
               "select", "hold", "settle", "reject"}
Cancelling == {"release", "unlock", "unlockRow", "cancel"}
Resetting  == {"clear", "zero", "reset", "resetRow"}

(* The account has been moved and the ledger row is still to be written.    *)
Owing == {"lockRow", "payRow", "unlockRow", "resetRow"}

(* seen is the version of the account row the call computes from, wrote the *)
(* version it has made of it; place the position row it read, todo the open *)
(* orders a reset has still to cancel.                                      *)
Steps == Placing \cup Filling \cup Cancelling \cup Resetting \cup {"idle"}
Requests == [at : Steps, order : Orders \cup {NoOrder}, cost : Nat, attempt : 0..Attempts,
             seen : Nat, wrote : Nat, place : Positions, todo : SUBSET Orders]

NoPlace == [open |-> FALSE, stamp |-> 0]

Idle == [at |-> "idle", order |-> NoOrder, cost |-> 0, attempt |-> 0,
         seen |-> 0, wrote |-> 0, place |-> NoPlace, todo |-> {}]

Init ==
    /\ TablesInit
    /\ request = [p \in Processes |-> Idle]
    /\ calls = 0
    /\ lost = {}

At(p, step) == request[p].at = step
Order(p) == request[p].order
Goto(p, step) == request' = [request EXCEPT ![p].at = step]
Ends(p) == request' = [request EXCEPT ![p] = Idle]

Begins(p, q) ==
    /\ At(p, "idle")
    /\ calls < MaxCalls
    /\ calls' = calls + 1
    /\ request' = [request EXCEPT ![p] = q]

-----------------------------------------------------------------------------
(* paper_accounting: the balances after a movement, from the row b.         *)

Locked(b, o) ==
    [available |-> b.available - Reserve[o], locked |-> b.locked + Reserve[o]]

\* Never more than is locked at all.
Release(b, o) == IF Reserve[o] <= b.locked THEN Reserve[o] ELSE b.locked

\* Mutant: the reservation is credited in full, the locked balance stops at zero.
UnlockedInFull(b, o) ==
    [available |-> b.available + Reserve[o], locked |-> b.locked - Release(b, o)]

Unlocked(b, o) ==
    [available |-> b.available + Release(b, o), locked |-> b.locked - Release(b, o)]

Filled(b, o, cost) ==
    [available |-> b.available + Release(b, o) - cost,
     locked |-> b.locked - Release(b, o)]

Cleared == [available |-> Capital, locked |-> 0]

\* lock_account_for_update, which holds no lock.
ReadsAccount(p, step) ==
    request' = [request EXCEPT ![p].at = step, ![p].seen = Version]

Moves(p, after, cause, step) ==
    /\ BumpVersion(request[p].seen,
                   [available |-> after.available, locked |-> after.locked,
                    cause |-> cause, order |-> Order(p)])
    /\ request' = [request EXCEPT ![p].at = step, ![p].wrote = Version + 1]
    /\ UNCHANGED <<ledger, state, fills, position, calls, lost>>

\* Another call has moved the account since this one has read it.
AccountMoved(p) == request[p].seen # Version

Records(p, fill) ==
    /\ InsertBalanceEvent(request[p].seen, request[p].wrote, fill)
    /\ UNCHANGED <<book, state, fills, position, calls, lost>>

-----------------------------------------------------------------------------
(* place_order.                                                             *)

\* The account is read and the key probed: a recorded order is answered as it
\* is, a limit order beyond the available funds is refused.
Places(p, o, cost) ==
    /\ state[o] = "none"
    /\ o \in Limit => Reserve[o] <= Account.available
    /\ Begins(p, [Idle EXCEPT !.at = "insert", !.order = o, !.seen = Version,
                              !.cost = IF o \in Limit THEN 0 ELSE cost])
    /\ UNCHANGED <<tables, lost>>

InsertsOrder(p) ==
    /\ At(p, "insert")
    /\ InsertOrder(Order(p))
    /\ Goto(p, IF Order(p) \notin Limit THEN "fund"
               ELSE IF Reserve[Order(p)] > 0 THEN "reserve" ELSE "accept")
    /\ UNCHANGED <<book, ledger, fills, position, calls, lost>>

\* Mutant: the loser goes on as if the order were its own.
FindsOrderAndGoesOn(p) ==
    /\ At(p, "insert")
    /\ state[Order(p)] # "none"
    /\ Goto(p, IF Order(p) \in Limit THEN "reserve" ELSE "fund")
    /\ UNCHANGED <<tables, calls, lost>>

\* The loser of the index answers with the winner's order.
FindsOrder(p) ==
    /\ At(p, "insert")
    /\ state[Order(p)] # "none"
    /\ Ends(p)
    /\ UNCHANGED <<tables, calls, lost>>

\* The gate of a market order, on the balance read before the insert.
Funds(p) ==
    /\ At(p, "fund")
    /\ IF request[p].cost > book[request[p].seen].available
       THEN /\ UpdateOrder(Order(p), "CREATED", "REJECTED")
            /\ Ends(p)
       ELSE /\ UpdateOrder(Order(p), "CREATED", "ACCEPTED")
            /\ request' = [request EXCEPT ![p].at = "price", ![p].attempt = 1]
    /\ UNCHANGED <<book, ledger, fills, position, calls, lost>>

\* Mutant: a lock that is not refused.
ReservesUnchecked(p) ==
    /\ At(p, "reserve")
    /\ ReadsAccount(p, "lock")
    /\ UNCHANGED <<tables, calls, lost>>

\* A refused lock leaves the order at CREATED.
Reserves(p) ==
    /\ At(p, "reserve")
    /\ IF Reserve[Order(p)] <= Account.available
       THEN ReadsAccount(p, "lock")
       ELSE Ends(p)
    /\ UNCHANGED <<tables, calls, lost>>

Locks(p) ==
    /\ At(p, "lock")
    /\ Moves(p, Locked(book[request[p].seen], Order(p)), "lock", "lockRow")

RecordsLock(p) == At(p, "lockRow") /\ Records(p, NoOrder) /\ Goto(p, "accept")

Accepts(p) ==
    /\ At(p, "accept")
    /\ UpdateOrder(Order(p), "CREATED", "ACCEPTED")
    /\ Ends(p)
    /\ UNCHANGED <<book, ledger, fills, position, calls, lost>>

-----------------------------------------------------------------------------
(* check_limit_orders, for one order its price triggers, and _execute_fill. *)

Matches(p, o, cost) ==
    /\ o \in Limit
    /\ state[o] = "ACCEPTED"
    /\ Begins(p, [Idle EXCEPT !.at = "price", !.order = o, !.cost = cost,
                              !.attempt = 1])
    /\ UNCHANGED <<tables, lost>>

\* A conflict is retried from the start of _attempt_fill, Attempts in all.
Retries(p) ==
    IF request[p].attempt < Attempts
    THEN request' = [request EXCEPT
                       ![p] = [Idle EXCEPT !.at = "price", !.order = Order(p),
                                           !.cost = request[p].cost,
                                           !.attempt = request[p].attempt + 1]]
    ELSE Ends(p)

\* apply_fill refuses a fill beyond the funds before anything is written; the
\* refusal of a market order is recorded, that of a resting one only raised.
Prices(p) ==
    /\ At(p, "price")
    /\ IF Filled(Account, Order(p), request[p].cost).available >= 0
       THEN ReadsAccount(p, "check")
       ELSE IF Order(p) \in Limit THEN Ends(p) ELSE Goto(p, "reject")
    /\ UNCHANGED <<tables, calls, lost>>

Rejects(p) ==
    /\ At(p, "reject")
    /\ \/ UpdateOrder(Order(p), "ACCEPTED", "REJECTED")
       \/ state[Order(p)] # "ACCEPTED" /\ UNCHANGED state
    /\ Ends(p)
    /\ UNCHANGED <<book, ledger, fills, position, calls, lost>>

Checks(p) ==
    /\ At(p, "check")
    /\ IF AccountMoved(p) THEN Retries(p)
       ELSE Goto(p, IF request[p].attempt = 1 THEN "fill" ELSE "look")
    /\ UNCHANGED <<tables, calls, lost>>

\* Mutant: a fill row is adopted without asking the ledger.
LooksAtFillsOnly(p) ==
    /\ At(p, "look")
    /\ Goto(p, IF Order(p) \in fills THEN "pay" ELSE "fill")
    /\ UNCHANGED <<tables, calls, lost>>

\* From the second attempt on a fill row is adopted, unless the ledger has it.
Looks(p) ==
    /\ At(p, "look")
    /\ IF Order(p) \notin fills THEN Goto(p, "fill")
       ELSE IF IsSettled(Order(p)) THEN Ends(p) ELSE Goto(p, "pay")
    /\ UNCHANGED <<tables, calls, lost>>

InsertsFill(p) ==
    /\ At(p, "fill")
    /\ InsertFill(Order(p))
    /\ Goto(p, "pay")
    /\ UNCHANGED <<book, ledger, state, position, calls, lost>>

\* PaperDuplicateFill is not retried.
FindsFill(p) ==
    /\ At(p, "fill")
    /\ Order(p) \in fills
    /\ Ends(p)
    /\ UNCHANGED <<tables, calls, lost>>

\* Mutant: the order is settled and the ledger row forgotten.
PaysOffTheLedger(p) ==
    /\ At(p, "pay")
    /\ Moves(p, Filled(book[request[p].seen], Order(p), request[p].cost), "fill", "select")

Pays(p) ==
    /\ At(p, "pay")
    /\ Moves(p, Filled(book[request[p].seen], Order(p), request[p].cost), "fill", "payRow")

RecordsFill(p) == At(p, "payRow") /\ Records(p, Order(p)) /\ Goto(p, "select")

SelectsPosition(p) ==
    /\ At(p, "select")
    /\ request' = [request EXCEPT ![p].at = "hold", ![p].place = position]
    /\ UNCHANGED <<tables, calls, lost>>

Holds(p) ==
    /\ At(p, "hold")
    /\ UpsertPosition(request[p].place)
    /\ Goto(p, "settle")
    /\ UNCHANGED <<book, ledger, state, fills, calls, lost>>

Settles(p) ==
    /\ At(p, "settle")
    /\ UpdateOrder(Order(p), "ACCEPTED", "FILLED")
    /\ Ends(p)
    /\ UNCHANGED <<book, ledger, fills, position, calls, lost>>

\* The account, the position or the order was moved by another call.
LosesRace(p) ==
    /\ \/ At(p, "pay") /\ AccountMoved(p)
       \/ At(p, "hold") /\ ~PositionStands(request[p].place)
       \/ At(p, "settle") /\ state[Order(p)] # "ACCEPTED"
    /\ Retries(p)
    /\ UNCHANGED <<tables, calls, lost>>

-----------------------------------------------------------------------------
(* cancel_order: the funds are released, then the order is cancelled.       *)

\* Mutant: an order that is still being placed may be cancelled.
CancelsUnaccepted(p, o) ==
    /\ state[o] \in {"CREATED", "ACCEPTED"}
    /\ Begins(p, [Idle EXCEPT !.at = IF Reserve[o] > 0 THEN "release" ELSE "cancel",
                              !.order = o])
    /\ UNCHANGED <<tables, lost>>

Cancels(p, o) ==
    /\ state[o] = "ACCEPTED"
    /\ Begins(p, [Idle EXCEPT !.at = IF Reserve[o] > 0 THEN "release" ELSE "cancel",
                              !.order = o])
    /\ UNCHANGED <<tables, lost>>

Releases(p) ==
    /\ At(p, "release")
    /\ ReadsAccount(p, "unlock")
    /\ UNCHANGED <<tables, calls, lost>>

Unlocks(p) ==
    /\ At(p, "unlock")
    /\ Moves(p, Unlocked(book[request[p].seen], Order(p)), "unlock", "unlockRow")

RecordsUnlock(p) == At(p, "unlockRow") /\ Records(p, NoOrder) /\ Goto(p, "cancel")

CancelsOrder(p) ==
    /\ At(p, "cancel")
    /\ UpdateOrder(Order(p), "ACCEPTED", "CANCELLED")
    /\ Ends(p)
    /\ UNCHANGED <<book, ledger, fills, position, calls, lost>>

-----------------------------------------------------------------------------
(* reset_account.                                                           *)

Resets(p) ==
    /\ Begins(p, [Idle EXCEPT !.at = "clear",
                              !.todo = {o \in Orders : state[o] = "ACCEPTED"}])
    /\ UNCHANGED <<tables, lost>>

Clears(p, o) ==
    /\ At(p, "clear")
    /\ o \in request[p].todo
    /\ UpdateOrder(o, "ACCEPTED", "CANCELLED")
    /\ request' = [request EXCEPT ![p].todo = @ \ {o}]
    /\ UNCHANGED <<book, ledger, fills, position, calls, lost>>

Closes(p) ==
    /\ At(p, "clear")
    /\ request[p].todo = {}
    /\ ClosePosition
    /\ Goto(p, "zero")
    /\ UNCHANGED <<book, ledger, state, fills, calls, lost>>

Zeroes(p) ==
    /\ At(p, "zero")
    /\ ReadsAccount(p, "reset")
    /\ UNCHANGED <<tables, calls, lost>>

ResetsAccount(p) ==
    At(p, "reset") /\ Moves(p, Cleared, "reset", "resetRow")

RecordsReset(p) == At(p, "resetRow") /\ Records(p, NoOrder) /\ Ends(p)

-----------------------------------------------------------------------------
\* Any call ends between two statements: one of them fails, outside of a fill
\* matches no row, or the process dies. Nothing takes up what it leaves.
Aborts(p) ==
    /\ ~At(p, "idle")
    /\ Ends(p)
    /\ lost' = IF request[p].at \in Owing THEN lost \cup {request[p].wrote} ELSE lost
    /\ UNCHANGED <<tables, calls>>

PlaceOrder(p) ==
    \/ \E o \in Orders, cost \in Costs : Places(p, o, cost)
    \/ InsertsOrder(p) \/ FindsOrder(p) \/ Funds(p)
    \/ Reserves(p) \/ Locks(p) \/ RecordsLock(p) \/ Accepts(p)

ExecuteFill(p) ==
    \/ \E o \in Orders, cost \in Costs : Matches(p, o, cost)
    \/ Prices(p) \/ Rejects(p) \/ Checks(p) \/ Looks(p)
    \/ InsertsFill(p) \/ FindsFill(p) \/ Pays(p) \/ RecordsFill(p)
    \/ SelectsPosition(p) \/ Holds(p) \/ Settles(p) \/ LosesRace(p)

CancelOrder(p) ==
    \/ \E o \in Orders : Cancels(p, o)
    \/ Releases(p) \/ Unlocks(p) \/ RecordsUnlock(p) \/ CancelsOrder(p)

ResetAccount(p) ==
    \/ Resets(p)
    \/ \E o \in Orders : Clears(p, o)
    \/ Closes(p) \/ Zeroes(p) \/ ResetsAccount(p) \/ RecordsReset(p)

Next ==
    \E p \in Processes :
        PlaceOrder(p) \/ ExecuteFill(p) \/ CancelOrder(p) \/ ResetAccount(p) \/ Aborts(p)

Spec == Init /\ [][Next]_vars

-----------------------------------------------------------------------------
(* Properties.                                                              *)

\* Types, with no balance below zero in any version of the account.
TypeOK ==
    /\ TablesTypeOK
    /\ request \in [Processes -> Requests]
    /\ calls \in 0..MaxCalls
    /\ lost \subseteq Nat

\* The versions of the account that moved money for an order.
Movements(cause, o) ==
    {v \in DOMAIN book : book[v].cause = cause /\ book[v].order = o}

\* "A balance can be reconstructed from the events" (paper_repository.py:2474):
\* a ledger row holds the difference between two consecutive versions of the
\* account, and a version has its row unless the call that made it is about to
\* write it, or ended before it could. An update that is lost breaks it.
LedgerExplainsAccount ==
    /\ \A row \in ledger :
        /\ row.at \in 2..Version
        /\ row.available = book[row.at].available - book[row.at - 1].available
        /\ row.locked = book[row.at].locked - book[row.at - 1].locked
    /\ \A v \in 2..Version :
        \/ \E row \in ledger : row.at = v
        \/ \E p \in Processes : request[p].at \in Owing /\ request[p].wrote = v
        \/ v \in lost

\* Calls make no money: a release, made twice or after a reset, never "could
\* return more cash than was ever reserved" (paper_trading_service.py:3130).
WithinCapital == Account.available + Account.locked <= Capital

\* A market order is paid for at most once, whatever its retries meet: the fill
\* row is the anchor, its ledger row the mark that the money has moved.
MarketPaidOnce ==
    \A o \in Orders \ Limit :
        \A v, w \in Movements("fill", o) : v = w

\* A retried or concurrent intent locks funds at most once (the order is
\* inserted before the money moves).
ReservedOnce ==
    \A o \in Orders : \A v, w \in Movements("lock", o) : v = w

\* An order is on the book with its reservation behind it, or not at all, also
\* when a step fails in between.
AcceptedIsReserved ==
    \A o \in Orders :
        Reserve[o] > 0 /\ state[o] \in {"ACCEPTED", "FILLED", "CANCELLED"}
            => Movements("lock", o) # {}

\* A filled order has its fill, and the ledger row that settles it.
FilledIsSettled ==
    \A o \in Orders : state[o] = "FILLED" => o \in fills /\ IsSettled(o)

(* The account as if every call were over at once: what it holds, and what  *)
(* has been moved for an order at all.                                      *)
Atomic == INSTANCE AtomicAccount WITH
    available <- Account.available,
    locked    <- Account.locked,
    reserved  <- {o \in Orders : Movements("lock", o) # {}},
    paid      <- {o \in Orders : Movements("fill", o) # {}}

\* Calls of many statements, computed from rows read long before, move the
\* account as atomic operations on the row as it stands would: no movement is
\* lost, none takes what is not there, and none runs ahead of its order.
ImplementsAtomicAccount == Atomic!Spec

\* No order leaves a terminal state (Requirement 16.3), though cancel, reset and
\* fill decide from a state read many statements earlier.
TerminalIsFinal ==
    [][\A o \in Orders : state[o] \in Terminal => state'[o] = state[o]]_state
=============================================================================
