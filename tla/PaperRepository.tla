--------------------------- MODULE PaperRepository ---------------------------
(***************************************************************************)
(* The tables behind one user's default paper account and the statements   *)
(* of backend/paper/paper_repository.py on them. PostgREST runs each       *)
(* statement by itself: no transaction spans two of them, and the only     *)
(* guards are the version of the account row, the state of an order, the   *)
(* version of a position and the unique indexes.                           *)
(***************************************************************************)
EXTENDS Integers, Sequences

CONSTANTS
    Orders,  \* intents to buy: the order recorded under one idempotency key
    Limit,   \* the limit orders; the others are market orders
    Reserve, \* the funds a limit order locks while it rests
    Capital, \* what an account starts with, and again after a reset
    NoOrder

ASSUME OrderAssumption ==
    /\ Limit \subseteq Orders
    /\ Reserve \in [Orders -> Nat]
    /\ \A o \in Orders \ Limit : Reserve[o] = 0
    /\ Capital \in Nat
    /\ NoOrder \notin Orders

VARIABLES
    book,    \* paper_accounts: the row in each version it has had
    ledger,  \* paper_balance_events
    state,   \* paper_orders.order_state, "none" before the insert
    fills,   \* the orders with a row in paper_fills; its fill_event_id is fixed
    position \* paper_positions: the row of the symbol, by its stamp

tables == <<book, ledger, state, fills, position>>

(* The current account row is the last of book, its version the length.    *)
(* cause and order are history: what moved the money, and for which order. *)
Causes == {"opened", "lock", "unlock", "fill", "reset"}
Images == [available : Nat, locked : Nat,
           cause : Causes, order : Orders \cup {NoOrder}]

Version == Len(book)
Account == book[Version]

(* at is the version the row was written for; fill is the fill it settles. *)
LedgerRows == [at : Nat, available : Int, locked : Int,
               fill : Orders \cup {NoOrder}]

OrderStates == {"none", "CREATED", "ACCEPTED", "FILLED", "CANCELLED", "REJECTED"}
Terminal == {"FILLED", "CANCELLED", "REJECTED"}

Positions == [open : BOOLEAN, stamp : Nat]

TablesTypeOK ==
    /\ book \in Seq(Images)
    /\ book # <<>>
    /\ ledger \subseteq LedgerRows
    /\ state \in [Orders -> OrderStates]
    /\ fills \subseteq Orders
    /\ position \in Positions

TablesInit ==
    /\ book = <<[available |-> Capital, locked |-> 0,
                 cause |-> "opened", order |-> NoOrder]>>
    /\ ledger = {}
    /\ state = [o \in Orders |-> "none"]
    /\ fills = {}
    /\ position = [open |-> FALSE, stamp |-> 0]

-----------------------------------------------------------------------------
(* Statements. One that matches no row raises PaperConcurrencyConflict.     *)

\* Mutant: the statement without its version predicate.
BumpVersionUnguarded(seen, image) == book' = Append(book, image)

\* UPDATE paper_accounts ... WHERE version = seen.
BumpVersion(seen, image) ==
    /\ seen = Version
    /\ book' = Append(book, image)

\* UPDATE paper_orders ... WHERE order_state = from.
UpdateOrder(o, from, to) ==
    /\ state[o] = from
    /\ state' = [state EXCEPT ![o] = to]

\* Mutant: the order is on the book before its funds are locked.
InsertOrderLive(o) == UpdateOrder(o, "none", "ACCEPTED")

\* INSERT into paper_orders, under uq_paper_order_idem_default.
InsertOrder(o) == UpdateOrder(o, "none", "CREATED")

\* INSERT into paper_fills, under uq_paper_fill_event.
InsertFill(o) ==
    /\ o \notin fills
    /\ fills' = fills \cup {o}

\* A movement that was computed from version seen and became version wrote.
InsertBalanceEvent(seen, wrote, fill) ==
    ledger' = ledger \cup
        {[at |-> wrote,
          available |-> book[wrote].available - book[seen].available,
          locked |-> book[wrote].locked - book[seen].locked,
          fill |-> fill]}

IsSettled(o) == \E row \in ledger : row.fill = o

\* The open row is updated if it is still the one that was read; without one,
\* a row is inserted, under uq_paper_position_open.
PositionStands(read) == IF read.open THEN position = read ELSE ~position.open

UpsertPosition(read) ==
    /\ PositionStands(read)
    /\ position' = [open |-> TRUE, stamp |-> position.stamp + 1]

ClosePosition ==
    position' = IF position.open
                THEN [open |-> FALSE, stamp |-> position.stamp + 1]
                ELSE position
=============================================================================
