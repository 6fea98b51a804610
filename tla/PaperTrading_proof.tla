-------------------------- MODULE PaperTrading_proof --------------------------
(***************************************************************************)
(* Proofs about PaperTrading, for any number of processes, orders, calls   *)
(* and attempts. The invariant has a part that is local to each call       *)
(* (Ready) and survives every step of the other calls because the tables   *)
(* only grow (Grows), and parts that relate the calls on one order.        *)
(***************************************************************************)
EXTENDS PaperTrading, TLAPS

USE OrderAssumption, CallAssumption

-----------------------------------------------------------------------------
(* What a step of one call leaves to the others.                            *)

Others(p) == \A q \in Processes \ {p} : request'[q] = request[q]

Grows ==
    /\ Version <= Version'
    /\ \A v \in 1..Version : book'[v] = book[v]
    /\ ledger \subseteq ledger'
    /\ fills \subseteq fills'
    /\ \A o \in Orders : state[o] # "none" => state'[o] # "none"

(* What a call may rely on between two of its statements.                   *)
Computing == {"insert", "fund", "lock", "check", "look", "fill", "pay", "unlock", "reset"}
Priced == {"check", "look", "fill", "pay"}

Ready(p) ==
    LET q == request[p] IN
    /\ q.at \in Placing \cup Filling \cup Cancelling => q.order \in Orders
    /\ q.at \in Computing \cup Owing => q.seen \in 1..Version
    /\ q.at = "lock" => Reserve[q.order] <= book[q.seen].available
    /\ q.at \in Priced => Filled(book[q.seen], q.order, q.cost).available >= 0
    /\ q.at \in Owing => q.wrote = q.seen + 1 /\ q.wrote \in 1..Version

TypeInv == TypeOK /\ \A p \in Processes : Ready(p)

Requested == request \in [Processes -> Requests]

-----------------------------------------------------------------------------
(* What the helpers do to the calls.                                        *)

LEMMA GotoEffect ==
    ASSUME Requested, NEW p \in Processes, NEW step \in Steps, Goto(p, step)
    PROVE  /\ Requested'
           /\ request'[p] = [request[p] EXCEPT !.at = step]
           /\ Others(p)
  BY DEF Requested, Requests, Goto, Others

LEMMA IdleType == Idle \in Requests
  BY DEF Idle, Requests, NoPlace, Positions, Steps

LEMMA EndsEffect ==
    ASSUME Requested, NEW p \in Processes, Ends(p)
    PROVE  Requested' /\ request'[p] = Idle /\ Others(p)
  BY IdleType DEF Requested, Ends, Others

LEMMA ReadsEffect ==
    ASSUME Requested, NEW p \in Processes, NEW step \in Steps, Version \in Nat,
           ReadsAccount(p, step)
    PROVE  /\ Requested'
           /\ request'[p] = [request[p] EXCEPT !.at = step, !.seen = Version]
           /\ Others(p)
  <1>. DEFINE q == [request[p] EXCEPT !.at = step, !.seen = Version]
  <1>1. request[p] \in Requests
    BY DEF Requested
  <1>2. q \in Requests
    BY <1>1 DEF Requests
  <1>3. request' = [request EXCEPT ![p] = q]
    BY DEF ReadsAccount, Requested
  <1>4. QED
    BY <1>2, <1>3 DEF Requested, Others

LEMMA RetriesEffect ==
    ASSUME Requested, NEW p \in Processes, Retries(p)
    PROVE  /\ Requested'
           /\ \/ request'[p] = Idle
              \/ /\ request'[p].at = "price"
                 /\ request'[p].order = request[p].order
                 /\ request'[p].cost = request[p].cost
           /\ Others(p)
  <1>1. CASE request[p].attempt < Attempts
    <2>. DEFINE q == [Idle EXCEPT !.at = "price", !.order = Order(p),
                                  !.cost = request[p].cost,
                                  !.attempt = request[p].attempt + 1]
    <2>0. request[p] \in Requests
      BY DEF Requested
    <2>4. request[p].attempt + 1 \in 0..Attempts
      BY <1>1, <2>0 DEF Requests
    <2>5. request[p].order \in Orders \cup {NoOrder} /\ request[p].cost \in Nat
      BY <2>0 DEF Requests
    <2>6. "price" \in Steps
      BY DEF Steps, Filling
    <2>1. q \in Requests
      BY <2>4, <2>5, <2>6, IdleType DEF Requests, Idle, Order
    <2>2. request' = [request EXCEPT ![p] = q]
      BY <1>1 DEF Retries
    <2>3. QED
      BY <2>1, <2>2 DEF Requested, Others, Order, Idle
  <1>2. CASE ~(request[p].attempt < Attempts)
    BY <1>2, EndsEffect DEF Retries
  <1>3. QED
    BY <1>1, <1>2

LEMMA BeginsEffect ==
    ASSUME Requested, calls \in 0..MaxCalls,
           NEW p \in Processes, NEW q \in Requests, Begins(p, q)
    PROVE  Requested' /\ request'[p] = q /\ Others(p) /\ calls' \in 0..MaxCalls
  BY DEF Requested, Begins, Others

LEMMA MovesEffect ==
    ASSUME TypeOK, NEW p \in Processes, request[p].seen \in 1..Version,
           NEW available \in Nat, NEW locked \in Nat,
           NEW cause \in Causes, NEW step \in Steps,
           Moves(p, [available |-> available, locked |-> locked], cause, step)
    PROVE  /\ Requested'
           /\ request'[p] = [request[p] EXCEPT !.at = step, !.wrote = Version + 1]
           /\ Others(p)
           /\ request[p].seen = Version
           /\ Version' = Version + 1
           /\ \A v \in 1..Version : book'[v] = book[v]
           /\ book'[Version + 1] = [available |-> available, locked |-> locked,
                                    cause |-> cause, order |-> Order(p)]
           /\ book' \in Seq(Images)
           /\ UNCHANGED <<ledger, state, fills, position, calls, lost>>
  <1>. DEFINE image == [available |-> available, locked |-> locked,
                        cause |-> cause, order |-> Order(p)]
  <1>1. book \in Seq(Images) /\ Version \in Nat
    BY DEF TypeOK, TablesTypeOK, Version
  <1>2. request[p] \in Requests
    BY DEF TypeOK
  <1>3. image \in Images
    BY <1>2 DEF Images, Requests, Order
  <1>4. book' = Append(book, image) /\ request[p].seen = Version
    BY DEF Moves, BumpVersion
  <1>5. Version' = Version + 1 /\ book' \in Seq(Images)
    BY <1>1, <1>3, <1>4 DEF Version
  <1>6. book'[Version + 1] = image /\ \A v \in 1..Version : book'[v] = book[v]
    BY <1>1, <1>3, <1>4 DEF Version
  <1>7. request' = [request EXCEPT ![p].at = step, ![p].wrote = Version + 1]
    BY DEF Moves
  <1>. DEFINE q == [request[p] EXCEPT !.at = step, !.wrote = Version + 1]
  <1>12. Version + 1 \in Nat
    BY <1>1
  <1>8. q \in Requests
    BY <1>2, <1>12 DEF Requests
  <1>11. request' = [request EXCEPT ![p] = q]
    BY <1>7 DEF TypeOK
  <1>10. Requested' /\ Others(p) /\ request'[p] = q
    BY <1>8, <1>11 DEF TypeOK, Requested, Others
  <1>9. QED
    BY <1>4, <1>5, <1>6, <1>10 DEF Moves

LEMMA BookFacts ==
    ASSUME TypeOK
    PROVE  /\ Version \in Nat \ {0}
           /\ \A v \in 1..Version :
                /\ book[v].available \in Nat
                /\ book[v].locked \in Nat
           /\ Account = book[Version]
  <1>1. book \in Seq(Images) /\ book # <<>>
    BY DEF TypeOK, TablesTypeOK
  <1>2. Len(book) \in Nat \ {0} /\ \A v \in 1..Len(book) : book[v] \in Images
    BY <1>1
  <1>3. QED
    BY <1>2 DEF Version, Account, Images

LEMMA RecordsEffect ==
    ASSUME TypeOK, NEW p \in Processes, Ready(p), request[p].at \in Owing,
           NEW fill \in Orders \cup {NoOrder}, Records(p, fill)
    PROVE  /\ \E row \in LedgerRows :
                /\ ledger' = ledger \cup {row}
                /\ row.at = request[p].wrote
                /\ row.at \in 2..Version
                /\ row.available = book[row.at].available - book[row.at - 1].available
                /\ row.locked = book[row.at].locked - book[row.at - 1].locked
                /\ row.fill = fill
           /\ TablesTypeOK'
           /\ Grows
           /\ UNCHANGED <<book, state, fills, position, calls, lost>>
  <1>. DEFINE q == request[p]
              row == [at |-> q.wrote,
                      available |-> book[q.wrote].available - book[q.seen].available,
                      locked |-> book[q.wrote].locked - book[q.seen].locked,
                      fill |-> fill]
  <1>1. /\ q.seen \in 1..Version
        /\ q.wrote = q.seen + 1
        /\ q.wrote \in 1..Version
    BY DEF Ready
  <1>2. /\ book[q.seen].available \in Nat /\ book[q.seen].locked \in Nat
        /\ book[q.wrote].available \in Nat /\ book[q.wrote].locked \in Nat
        /\ Version \in Nat
    BY <1>1, BookFacts
  <1>3. row \in LedgerRows
    <2>1. /\ q.wrote \in Nat
          /\ book[q.wrote].available - book[q.seen].available \in Int
          /\ book[q.wrote].locked - book[q.seen].locked \in Int
      BY <1>1, <1>2
    <2>2. QED
      BY <2>1 DEF LedgerRows
  <1>4. ledger' = ledger \cup {row} /\ UNCHANGED <<book, state, fills, position, calls, lost>>
    BY DEF Records, InsertBalanceEvent
  <1>5. row.at \in 2..Version /\ row.at - 1 = q.seen
    BY <1>1, <1>2
  <1>6. TablesTypeOK' /\ Grows
    BY <1>2, <1>3, <1>4 DEF TypeOK, TablesTypeOK, Grows, Version
  <1>7. QED
    BY <1>3, <1>4, <1>5, <1>6

-----------------------------------------------------------------------------
(* What the statements do to the tables.                                    *)

LEMMA TablesStand ==
    ASSUME TypeOK, UNCHANGED tables
    PROVE  TablesTypeOK' /\ Grows
  <1>1. Version \in Nat
    BY BookFacts
  <1>2. QED
    BY <1>1 DEF TypeOK, TablesTypeOK, tables, Grows, Version

LEMMA UpdateOrderEffect ==
    ASSUME TypeOK, NEW o \in Orders, NEW from \in OrderStates,
           NEW to \in OrderStates \ {"none"},
           UpdateOrder(o, from, to), UNCHANGED <<book, ledger, fills, position>>
    PROVE  /\ TablesTypeOK' /\ Grows
           /\ state[o] = from /\ state'[o] = to
           /\ \A other \in Orders \ {o} : state'[other] = state[other]
  <1>1. Version \in Nat
    BY BookFacts
  <1>2. state \in [Orders -> OrderStates] /\ state' = [state EXCEPT ![o] = to] /\ state[o] = from
    BY DEF TypeOK, TablesTypeOK, UpdateOrder
  <1>3. state' \in [Orders -> OrderStates]
        /\ state'[o] = to /\ \A other \in Orders \ {o} : state'[other] = state[other]
    BY <1>2
  <1>4. TablesTypeOK'
    BY <1>3 DEF TypeOK, TablesTypeOK
  <1>5. Grows
    BY <1>1, <1>3 DEF Grows, Version
  <1>6. QED
    BY <1>2, <1>3, <1>4, <1>5

-----------------------------------------------------------------------------
(* The local part of the invariant.                                         *)

LEMMA ReadyKept ==
    ASSUME TypeOK, NEW q \in Processes, Ready(q), request'[q] = request[q], Grows,
           Version' \in Nat
    PROVE  Ready(q)'
  <1>1. Version \in Nat /\ Version <= Version'
        /\ \A v \in 1..Version : book'[v] = book[v] /\ v \in 1..Version'
    BY BookFacts DEF Grows
  <1>2. request[q].at \in Computing \cup Owing =>
          /\ request[q].seen \in 1..Version'
          /\ book'[request[q].seen] = book[request[q].seen]
    BY <1>1 DEF Ready
  <1>3. request[q].at \in Owing => request[q].wrote \in 1..Version'
    BY <1>1 DEF Ready
  <1>4. QED
    BY <1>2, <1>3 DEF Ready, Filled, Release, Priced, Computing

LEMMA Unhurried ==
    ASSUME NEW p \in Processes, request[p].at \in {"idle", "clear", "zero"}
    PROVE  Ready(p)
  BY DEF Ready, Placing, Filling, Cancelling, Computing, Owing, Priced
-----------------------------------------------------------------------------
(* Every step of a call keeps the types and the local part of the           *)
(* invariant, and what the others rely on.                                  *)

Advance(p) == TypeOK' /\ Ready(p)' /\ Others(p) /\ Grows

LEMMA Typed ==
    ASSUME TablesTypeOK', Requested', calls' \in 0..MaxCalls, lost' \subseteq Nat
    PROVE  TypeOK'
  BY DEF TypeOK, Requested

LEMMA EndsAdvances ==
    ASSUME TypeOK, NEW p \in Processes, Ends(p), TablesTypeOK', Grows,
           calls' = calls, lost' \subseteq Nat
    PROVE  Advance(p)
  <1>1. Requested' /\ request'[p] = Idle /\ Others(p)
    BY EndsEffect DEF TypeOK, Requested
  <1>2. Ready(p)'
    BY <1>1 DEF Idle, Ready, Placing, Filling, Cancelling, Computing, Owing, Priced
  <1>3. QED
    BY <1>1, <1>2, Typed DEF Advance, TypeOK

LEMMA RetriesAdvances ==
    ASSUME TypeOK, NEW p \in Processes, Ready(p), request[p].at \in Filling,
           Retries(p), UNCHANGED <<tables, calls, lost>>
    PROVE  Advance(p)
  <1>1. /\ Requested' /\ Others(p)
        /\ \/ request'[p] = Idle
           \/ request'[p].at = "price" /\ request'[p].order = request[p].order
    BY RetriesEffect DEF TypeOK, Requested
  <1>2. TypeOK' /\ Grows
    BY <1>1, TablesStand, Typed DEF TypeOK
  <1>3. request[p].order \in Orders
    BY DEF Ready
  <1>4. Ready(p)'
    BY <1>1, <1>3 DEF Idle, Ready, Placing, Filling, Cancelling, Computing, Owing, Priced
  <1>5. QED
    BY <1>1, <1>2, <1>4 DEF Advance

\* A step that goes on to a statement which relies on nothing but the order.
LEMMA GotoAdvances ==
    ASSUME TypeOK, NEW p \in Processes, Ready(p), NEW step \in Steps \ (Computing \cup Owing),
           Goto(p, step), TablesTypeOK', Grows, calls' = calls, lost' = lost,
           step \in Placing \cup Filling \cup Cancelling =>
               request[p].at \in Placing \cup Filling \cup Cancelling
    PROVE  Advance(p)
  <1>1. /\ Requested' /\ Others(p)
        /\ request'[p] = [request[p] EXCEPT !.at = step]
    BY GotoEffect DEF TypeOK, Requested
  <1>2. request'[p].at = step /\ request'[p].order = request[p].order
    BY <1>1 DEF TypeOK, Requests
  <1>3. Ready(p)'
    BY <1>2 DEF Ready, Computing, Owing, Priced
  <1>4. QED
    BY <1>1, <1>3, Typed DEF Advance, TypeOK

LEMMA RecordsAdvances ==
    ASSUME TypeOK, NEW p \in Processes, Ready(p), request[p].at \in Owing,
           NEW fill \in Orders \cup {NoOrder}, Records(p, fill),
           NEW step \in {"accept", "select", "cancel", "zero"}, Goto(p, step),
           step # "zero" => request[p].at \in Placing \cup Filling \cup Cancelling
    PROVE  Advance(p)
  <1>1. /\ TablesTypeOK' /\ Grows
        /\ UNCHANGED <<book, state, fills, position, calls, lost>>
    BY RecordsEffect
  <1>2. step \in Steps \ (Computing \cup Owing)
    BY DEF Steps, Placing, Filling, Cancelling, Resetting, Computing, Owing
  <1>3. step \in Placing \cup Filling \cup Cancelling =>
            request[p].at \in Placing \cup Filling \cup Cancelling
    BY DEF Placing, Filling, Cancelling
  <1>4. QED
    BY <1>1, <1>2, <1>3, GotoAdvances

LEMMA MovesAdvances ==
    ASSUME TypeOK, NEW p \in Processes, Ready(p), request[p].at \in Computing,
           NEW available \in Nat, NEW locked \in Nat,
           NEW cause \in Causes, NEW step \in Owing,
           Moves(p, [available |-> available, locked |-> locked], cause, step),
           step # "resetRow" => request[p].at \in Placing \cup Filling \cup Cancelling
    PROVE  /\ Advance(p)
           /\ request'[p] = [request[p] EXCEPT !.at = step, !.wrote = Version + 1]
           /\ Version' = Version + 1
           /\ book'[Version + 1] = [available |-> available, locked |-> locked,
                                    cause |-> cause, order |-> Order(p)]
           /\ UNCHANGED <<ledger, state, fills, position, calls, lost>>
  <1>0. step \in Steps /\ request[p].seen \in 1..Version
    BY DEF Ready, Steps, Owing, Placing, Filling, Cancelling, Resetting
  <1>1. /\ Requested'
        /\ request'[p] = [request[p] EXCEPT !.at = step, !.wrote = Version + 1]
        /\ Others(p)
        /\ request[p].seen = Version
        /\ Version' = Version + 1
        /\ \A v \in 1..Version : book'[v] = book[v]
        /\ book'[Version + 1] = [available |-> available, locked |-> locked,
                                 cause |-> cause, order |-> Order(p)]
        /\ book' \in Seq(Images)
        /\ UNCHANGED <<ledger, state, fills, position, calls, lost>>
    BY <1>0, MovesEffect
  <1>2. Version \in Nat \ {0}
    BY BookFacts
  <1>3. TablesTypeOK' /\ Grows
    <2>1. book' # <<>>
      BY <1>1, <1>2 DEF Version
    <2>2. QED
      BY <1>1, <1>2, <2>1 DEF TypeOK, TablesTypeOK, Grows
  <1>4. /\ request'[p].at = step /\ request'[p].order = request[p].order
        /\ request'[p].seen = Version /\ request'[p].wrote = Version + 1
    BY <1>1 DEF TypeOK, Requests
  <1>5. Ready(p)'
    <2>1. request[p].at \in Placing \cup Filling \cup Cancelling => request[p].order \in Orders
      BY DEF Ready
    <2>2. step = "resetRow" => step \notin Placing \cup Filling \cup Cancelling
      BY DEF Placing, Filling, Cancelling
    <2>3. step # "lock" /\ step \notin Priced
      BY DEF Owing, Priced
    <2>4. QED
      BY <1>1, <1>2, <1>4, <2>1, <2>2, <2>3 DEF Ready
  <1>6. QED
    BY <1>1, <1>3, <1>5, Typed DEF Advance, TypeOK

LEMMA BeginsAdvances ==
    ASSUME TypeOK, NEW p \in Processes, NEW q \in Requests, Begins(p, q),
           UNCHANGED <<tables, lost>>,
           q.at \in {"insert", "price", "release", "cancel", "clear"},
           q.at # "clear" => q.order \in Orders,
           q.at = "insert" => q.seen = Version
    PROVE  Advance(p) /\ request'[p] = q
  <1>1. Requested' /\ request'[p] = q /\ Others(p) /\ calls' \in 0..MaxCalls
    BY BeginsEffect DEF TypeOK, Requested
  <1>2. TypeOK' /\ Grows
    BY <1>1, TablesStand, Typed DEF TypeOK
  <1>3. Version' = Version /\ Version \in 1..Version
    BY BookFacts DEF tables, Version
  <1>4. Ready(p)'
    BY <1>1, <1>3 DEF Ready, Placing, Filling, Cancelling, Computing, Owing, Priced
  <1>5. QED
    BY <1>1, <1>2, <1>4 DEF Advance

LEMMA ReadsAdvances ==
    ASSUME TypeOK, NEW p \in Processes, Ready(p),
           NEW step \in {"lock", "check", "unlock", "reset"}, ReadsAccount(p, step),
           UNCHANGED <<tables, calls, lost>>,
           step # "reset" => request[p].at \in Placing \cup Filling \cup Cancelling,
           step = "lock" => Reserve[Order(p)] <= Account.available,
           step = "check" =>
               Filled(Account, Order(p), request[p].cost).available >= 0
    PROVE  Advance(p) /\ request'[p] = [request[p] EXCEPT !.at = step, !.seen = Version]
  <1>1. Version \in Nat \ {0} /\ Version' = Version /\ book' = book
        /\ Account = book[Version]
    BY BookFacts DEF tables, Version
  <1>2. step \in Steps
    BY DEF Steps, Placing, Filling, Cancelling, Resetting
  <1>3. /\ Requested' /\ Others(p)
        /\ request'[p] = [request[p] EXCEPT !.at = step, !.seen = Version]
    BY <1>1, <1>2, ReadsEffect DEF TypeOK, Requested
  <1>4. request'[p].at = step /\ request'[p].seen = Version
        /\ request'[p].order = request[p].order /\ request'[p].cost = request[p].cost
    BY <1>3 DEF TypeOK, Requests
  <1>5. TypeOK' /\ Grows
    BY <1>3, TablesStand, Typed DEF TypeOK
  <1>6. Ready(p)'
    <2>1. step \in Placing \cup Filling \cup Cancelling => request[p].order \in Orders
      BY DEF Ready, Placing, Filling, Cancelling
    <2>2. step \notin Owing
      BY DEF Owing
    <2>3. step \in Priced => step = "check"
      BY DEF Priced
    <2>4. QED
      BY <1>1, <1>4, <2>1, <2>2, <2>3 DEF Ready, Order, Filled, Release
  <1>7. QED
    BY <1>3, <1>5, <1>6 DEF Advance

\* A step of a fill that keeps what it has computed.
LEMMA PricedAdvances ==
    ASSUME TypeOK, NEW p \in Processes, Ready(p), request[p].at \in Priced,
           NEW step \in Priced, Goto(p, step),
           TablesTypeOK', Grows, UNCHANGED <<book, calls, lost>>
    PROVE  Advance(p)
  <1>1. step \in Steps
    BY DEF Steps, Filling, Priced
  <1>2. /\ Requested' /\ Others(p)
        /\ request'[p] = [request[p] EXCEPT !.at = step]
    BY <1>1, GotoEffect DEF TypeOK, Requested
  <1>3. /\ request'[p].at = step /\ request'[p].order = request[p].order
        /\ request'[p].seen = request[p].seen /\ request'[p].cost = request[p].cost
    BY <1>2 DEF TypeOK, Requests
  <1>4. /\ request[p].order \in Orders /\ request[p].seen \in 1..Version
        /\ Filled(book[request[p].seen], request[p].order, request[p].cost).available >= 0
    BY DEF Ready, Filling, Computing, Priced
  <1>5. step # "lock" /\ step \notin Owing
    BY DEF Priced, Owing
  <1>6. Ready(p)'
    BY <1>3, <1>4, <1>5 DEF Ready, Version, Filled, Release
  <1>7. QED
    BY <1>2, <1>6, Typed DEF Advance, TypeOK

-----------------------------------------------------------------------------
LEMMA PlaceOrderAdvances ==
    ASSUME TypeOK, NEW p \in Processes, Ready(p), PlaceOrder(p)
    PROVE  Advance(p)
  <1>0. /\ Version \in Nat \ {0}
        /\ \A v \in 1..Version : book[v].available \in Nat /\ book[v].locked \in Nat
    BY BookFacts
  <1>1. CASE \E o \in Orders, cost \in Costs : Places(p, o, cost)
    <2>1. PICK o \in Orders, cost \in Costs : Places(p, o, cost)
      BY <1>1
    <2>. DEFINE paid == IF o \in Limit THEN 0 ELSE cost
                q == [Idle EXCEPT !.at = "insert", !.order = o, !.seen = Version,
                                  !.cost = paid]
    <2>2. paid \in Nat
      OBVIOUS
    <2>3. "insert" \in Steps
      BY DEF Steps, Placing
    <2>4. q \in Requests /\ q.at = "insert" /\ q.order = o /\ q.seen = Version
      BY <1>0, <2>2, <2>3, IdleType DEF Idle, Requests
    <2>5. Begins(p, q) /\ UNCHANGED <<tables, lost>>
      BY <2>1 DEF Places
    <2>6. QED
      BY <2>4, <2>5, BeginsAdvances
  <1>2. CASE InsertsOrder(p)
    <2>. DEFINE step == IF Order(p) \notin Limit THEN "fund"
                        ELSE IF Reserve[Order(p)] > 0 THEN "reserve" ELSE "accept"
    <2>1. request[p].at = "insert" /\ Order(p) \in Orders
      BY <1>2 DEF InsertsOrder, At, Ready, Order, Placing
    <2>2. TablesTypeOK' /\ Grows
      BY <1>2, <2>1, UpdateOrderEffect DEF InsertsOrder, InsertOrder, OrderStates
    <2>3. /\ Requested' /\ Others(p)
          /\ request'[p] = [request[p] EXCEPT !.at = step]
      BY <1>2, GotoEffect DEF InsertsOrder, TypeOK, Requested, Steps, Placing
    <2>4. /\ request'[p].at = step /\ request'[p].order = request[p].order
          /\ request'[p].seen = request[p].seen
      BY <2>3 DEF TypeOK, Requests
    <2>5. book' = book /\ Version' = Version /\ calls' = calls /\ lost' = lost
      BY <1>2 DEF InsertsOrder, Version
    <2>6. Ready(p)'
      <3>1. request[p].seen \in 1..Version
        BY <2>1 DEF Ready, Computing
      <3>2. step \in {"fund", "reserve", "accept"}
        OBVIOUS
      <3>. HIDE DEF step
      <3>3. QED
        BY <2>1, <2>4, <2>5, <3>1, <3>2 DEF Ready, Order, Owing, Priced
    <2>7. QED
      BY <2>2, <2>3, <2>5, <2>6, Typed DEF Advance, TypeOK
  <1>3. CASE FindsOrder(p)
    BY <1>3, TablesStand, EndsAdvances DEF FindsOrder, TypeOK
  <1>4. CASE Funds(p)
    <2>1. request[p].at = "fund" /\ Order(p) \in Orders /\ Order(p) = request[p].order
      BY <1>4 DEF Funds, At, Ready, Order, Placing
    <2>2. UNCHANGED <<book, ledger, fills, position, calls, lost>>
      BY <1>4 DEF Funds
    <2>3. CASE UpdateOrder(Order(p), "CREATED", "REJECTED") /\ Ends(p)
      <3>1. TablesTypeOK' /\ Grows
        BY <2>1, <2>2, <2>3, UpdateOrderEffect DEF OrderStates
      <3>2. QED
        BY <2>2, <2>3, <3>1, EndsAdvances DEF TypeOK
    <2>4. CASE /\ UpdateOrder(Order(p), "CREATED", "ACCEPTED")
               /\ request' = [request EXCEPT ![p].at = "price", ![p].attempt = 1]
      <3>1. TablesTypeOK' /\ Grows
        BY <2>1, <2>2, <2>4, UpdateOrderEffect DEF OrderStates
      <3>. DEFINE q == [request[p] EXCEPT !.at = "price", !.attempt = 1]
      <3>2. request[p] \in Requests
        BY DEF TypeOK
      <3>3. 1 \in 0..Attempts /\ "price" \in Steps
        BY DEF Steps, Filling
      <3>4. q \in Requests /\ q.at = "price" /\ q.order = request[p].order
        BY <3>2, <3>3 DEF Requests
      <3>5. request' = [request EXCEPT ![p] = q]
        BY <2>4 DEF TypeOK
      <3>6. Requested' /\ Others(p) /\ request'[p] = q
        BY <3>4, <3>5 DEF TypeOK, Requested, Others
      <3>7. Ready(p)'
        <4>1. request'[p].at = "price" /\ request'[p].order \in Orders
          BY <2>1, <3>4, <3>6
        <4>2. QED
          BY <4>1 DEF Ready, Computing, Owing, Priced
      <3>8. QED
        BY <2>2, <3>1, <3>6, <3>7, Typed DEF Advance, TypeOK
    <2>5. QED
      BY <1>4, <2>3, <2>4 DEF Funds
  <1>5. CASE Reserves(p)
    <2>1. request[p].at = "reserve" /\ UNCHANGED <<tables, calls, lost>>
      BY <1>5 DEF Reserves, At
    <2>2. CASE Reserve[Order(p)] <= Account.available
      <3>1. ReadsAccount(p, "lock")
        BY <1>5, <2>2 DEF Reserves
      <3>2. request[p].at \in Placing \cup Filling \cup Cancelling
        BY <2>1 DEF Placing
      <3>3. QED
        BY <2>1, <2>2, <3>1, <3>2, ReadsAdvances
    <2>3. CASE ~(Reserve[Order(p)] <= Account.available)
      BY <1>5, <2>1, <2>3, TablesStand, EndsAdvances DEF Reserves, TypeOK
    <2>4. QED
      BY <2>2, <2>3
  <1>6. CASE Locks(p)
    <2>. DEFINE b == book[request[p].seen]
    <2>1. /\ request[p].at = "lock"
          /\ Moves(p, Locked(b, Order(p)), "lock", "lockRow")
      BY <1>6 DEF Locks, At
    <2>2. /\ Order(p) \in Orders /\ Order(p) = request[p].order
          /\ request[p].seen \in 1..Version
          /\ Reserve[Order(p)] <= b.available
      BY <2>1 DEF Ready, Order, Placing, Computing
    <2>3. b.available - Reserve[Order(p)] \in Nat /\ b.locked + Reserve[Order(p)] \in Nat
      <3>1. b.available \in Nat /\ b.locked \in Nat /\ Reserve[Order(p)] \in Nat
        BY <1>0, <2>2
      <3>. HIDE DEF b
      <3>2. QED
        BY <2>2, <3>1
    <2>4. /\ request[p].at \in Computing
          /\ request[p].at \in Placing \cup Filling \cup Cancelling
          /\ "lock" \in Causes /\ "lockRow" \in Owing
      BY <2>1 DEF Computing, Placing, Causes, Owing
    <2>5. QED
      BY <2>1, <2>3, <2>4, MovesAdvances DEF Locked
  <1>7. CASE RecordsLock(p)
    <2>1. request[p].at \in Owing /\ request[p].at \in Placing
      BY <1>7 DEF RecordsLock, At, Owing, Placing
    <2>2. QED
      BY <1>7, <2>1, RecordsAdvances DEF RecordsLock
  <1>8. CASE Accepts(p)
    <2>1. Order(p) \in Orders
      BY <1>8 DEF Accepts, At, Ready, Order, Placing
    <2>2. TablesTypeOK' /\ Grows
      BY <1>8, <2>1, UpdateOrderEffect DEF Accepts, OrderStates
    <2>3. QED
      BY <1>8, <2>2, EndsAdvances DEF Accepts, TypeOK
  <1>9. QED
    BY <1>1, <1>2, <1>3, <1>4, <1>5, <1>6, <1>7, <1>8 DEF PlaceOrder

LEMMA ExecuteFillAdvances ==
    ASSUME TypeOK, NEW p \in Processes, Ready(p), ExecuteFill(p)
    PROVE  Advance(p)
  <1>0. /\ Version \in Nat \ {0}
        /\ \A v \in 1..Version : book[v].available \in Nat /\ book[v].locked \in Nat
    BY BookFacts
  <1>. DEFINE b == book[request[p].seen]
  <1>ord. request[p].at \in Filling => Order(p) \in Orders /\ request[p].at \in Filling
    BY DEF Ready, Order
  <1>1. CASE \E o \in Orders, cost \in Costs : Matches(p, o, cost)
    <2>1. PICK o \in Orders, cost \in Costs : Matches(p, o, cost)
      BY <1>1
    <2>. DEFINE q == [Idle EXCEPT !.at = "price", !.order = o, !.cost = cost, !.attempt = 1]
    <2>2. "price" \in Steps /\ cost \in Nat /\ 1 \in 0..Attempts
      BY DEF Steps, Filling
    <2>3. q \in Requests /\ q.at = "price" /\ q.order = o
      BY <2>2, IdleType DEF Idle, Requests
    <2>4. Begins(p, q) /\ UNCHANGED <<tables, lost>>
      BY <2>1 DEF Matches
    <2>5. QED
      BY <2>3, <2>4, BeginsAdvances
  <1>2. CASE Prices(p)
    <2>1. request[p].at \in Filling /\ UNCHANGED <<tables, calls, lost>>
      BY <1>2 DEF Prices, At, Filling
    <2>2. CASE Filled(Account, Order(p), request[p].cost).available >= 0
               /\ ReadsAccount(p, "check")
      BY <2>1, <2>2, ReadsAdvances
    <2>3. CASE Ends(p)
      BY <2>1, <2>3, TablesStand, EndsAdvances DEF TypeOK
    <2>4. CASE Goto(p, "reject")
      <3>1. "reject" \in Steps \ (Computing \cup Owing)
        BY DEF Steps, Filling, Computing, Owing
      <3>2. QED
        BY <2>1, <2>4, <3>1, TablesStand, GotoAdvances
    <2>5. QED
      BY <1>2, <2>2, <2>3, <2>4 DEF Prices
  <1>3. CASE Rejects(p)
    <2>1. Order(p) \in Orders /\ UNCHANGED <<book, ledger, fills, position, calls, lost>>
          /\ Ends(p)
      BY <1>3, <1>ord DEF Rejects, At, Filling
    <2>2. CASE UpdateOrder(Order(p), "ACCEPTED", "REJECTED")
      <3>1. TablesTypeOK' /\ Grows
        BY <2>1, <2>2, UpdateOrderEffect DEF OrderStates
      <3>2. QED
        BY <2>1, <3>1, EndsAdvances DEF TypeOK
    <2>3. CASE UNCHANGED state
      <3>1. TablesTypeOK' /\ Grows
        BY <2>1, <2>3, TablesStand DEF tables
      <3>2. QED
        BY <2>1, <3>1, EndsAdvances DEF TypeOK
    <2>4. QED
      BY <1>3, <2>2, <2>3 DEF Rejects
  <1>4. CASE Checks(p)
    <2>1. request[p].at = "check" /\ request[p].at \in Filling
          /\ UNCHANGED <<tables, calls, lost>>
      BY <1>4 DEF Checks, At, Filling
    <2>2. CASE Retries(p)
      BY <2>1, <2>2, RetriesAdvances
    <2>3. CASE Goto(p, "fill") \/ Goto(p, "look")
      <3>1. PICK step \in {"fill", "look"} : Goto(p, step)
        BY <2>3
      <3>2. QED
        BY <2>1, <3>1, PricedAdvances, TablesStand DEF Priced, tables
    <2>4. QED
      BY <1>4, <2>2, <2>3 DEF Checks
  <1>5. CASE Looks(p)
    <2>1. request[p].at = "look" /\ UNCHANGED <<tables, calls, lost>>
      BY <1>5 DEF Looks, At
    <2>2. CASE Ends(p)
      BY <2>1, <2>2, TablesStand, EndsAdvances DEF TypeOK
    <2>3. CASE Goto(p, "fill") \/ Goto(p, "pay")
      <3>1. PICK step \in {"fill", "pay"} : Goto(p, step)
        BY <2>3
      <3>2. QED
        BY <2>1, <3>1, PricedAdvances, TablesStand DEF Priced, tables
    <2>4. QED
      BY <1>5, <2>2, <2>3 DEF Looks
  <1>6. CASE InsertsFill(p)
    <2>1. request[p].at = "fill" /\ Order(p) \in Orders
          /\ UNCHANGED <<book, ledger, state, position, calls, lost>>
          /\ fills' = fills \cup {Order(p)}
      BY <1>6, <1>ord DEF InsertsFill, InsertFill, At, Filling
    <2>2. TablesTypeOK' /\ Grows
      BY <1>0, <2>1 DEF TypeOK, TablesTypeOK, Grows, Version
    <2>3. QED
      BY <1>6, <2>1, <2>2, PricedAdvances DEF InsertsFill, Priced
  <1>7. CASE FindsFill(p)
    BY <1>7, TablesStand, EndsAdvances DEF FindsFill, TypeOK
  <1>8. CASE Pays(p)
    <2>1. /\ request[p].at = "pay"
          /\ Moves(p, Filled(b, Order(p), request[p].cost), "fill", "payRow")
      BY <1>8 DEF Pays, At
    <2>2. /\ Order(p) \in Orders /\ Order(p) = request[p].order
          /\ request[p].seen \in 1..Version
          /\ Filled(b, Order(p), request[p].cost).available >= 0
      BY <2>1, <1>ord DEF Ready, Order, Computing, Priced, Filling
    <2>3. request[p].cost \in Nat /\ b.available \in Nat /\ b.locked \in Nat
          /\ Reserve[Order(p)] \in Nat
      BY <1>0, <2>2 DEF TypeOK, Requests
    <2>. HIDE DEF b
    <2>4. /\ b.available + Release(b, Order(p)) - request[p].cost \in Nat
          /\ b.locked - Release(b, Order(p)) \in Nat
      BY <2>2, <2>3 DEF Filled, Release
    <2>5. /\ request[p].at \in Computing
          /\ request[p].at \in Placing \cup Filling \cup Cancelling
          /\ "fill" \in Causes /\ "payRow" \in Owing
      BY <2>1 DEF Computing, Filling, Causes, Owing
    <2>6. QED
      BY <2>1, <2>4, <2>5, MovesAdvances DEF Filled
  <1>9. CASE RecordsFill(p)
    <2>1. request[p].at \in Owing /\ request[p].at \in Filling
      BY <1>9 DEF RecordsFill, At, Owing, Filling
    <2>2. QED
      BY <1>9, <2>1, <1>ord, RecordsAdvances DEF RecordsFill
  <1>10. CASE SelectsPosition(p)
    <2>1. request[p].at = "select" /\ Order(p) \in Orders /\ Order(p) = request[p].order
          /\ UNCHANGED <<tables, calls, lost>>
      BY <1>10, <1>ord DEF SelectsPosition, At, Filling, Order
    <2>. DEFINE q == [request[p] EXCEPT !.at = "hold", !.place = position]
    <2>2. request[p] \in Requests /\ position \in Positions /\ "hold" \in Steps
      BY DEF TypeOK, TablesTypeOK, Steps, Filling
    <2>3. q \in Requests /\ q.at = "hold" /\ q.order = request[p].order
      BY <2>2 DEF Requests
    <2>4. request' = [request EXCEPT ![p] = q]
      BY <1>10 DEF SelectsPosition, TypeOK
    <2>5. Requested' /\ Others(p) /\ request'[p] = q
      BY <2>3, <2>4 DEF TypeOK, Requested, Others
    <2>6. Ready(p)'
      <3>1. request'[p].at = "hold" /\ request'[p].order \in Orders
        BY <2>1, <2>3, <2>5
      <3>2. QED
        BY <3>1 DEF Ready, Computing, Owing, Priced
    <2>7. QED
      BY <2>1, <2>5, <2>6, TablesStand, Typed DEF Advance, TypeOK
  <1>11. CASE Holds(p)
    <2>1. request[p].at \in Filling /\ UNCHANGED <<book, ledger, state, fills, calls, lost>>
          /\ position' = [open |-> TRUE, stamp |-> position.stamp + 1]
      BY <1>11 DEF Holds, UpsertPosition, At, Filling
    <2>2. position' \in Positions
      BY <2>1 DEF TypeOK, TablesTypeOK, Positions
    <2>3. TablesTypeOK' /\ Grows
      BY <1>0, <2>1, <2>2 DEF TypeOK, TablesTypeOK, Grows, Version
    <2>4. "settle" \in Steps \ (Computing \cup Owing)
      BY DEF Steps, Filling, Computing, Owing
    <2>5. QED
      BY <1>11, <2>1, <2>3, <2>4, GotoAdvances DEF Holds
  <1>12. CASE Settles(p)
    <2>1. Order(p) \in Orders
      BY <1>12, <1>ord DEF Settles, At, Filling
    <2>2. TablesTypeOK' /\ Grows
      BY <1>12, <2>1, UpdateOrderEffect DEF Settles, OrderStates
    <2>3. QED
      BY <1>12, <2>2, EndsAdvances DEF Settles, TypeOK
  <1>13. CASE LosesRace(p)
    BY <1>13, RetriesAdvances DEF LosesRace, At, Filling
  <1>14. QED
    BY <1>1, <1>2, <1>3, <1>4, <1>5, <1>6, <1>7, <1>8, <1>9, <1>10, <1>11, <1>12, <1>13
       DEF ExecuteFill

LEMMA CancelOrderAdvances ==
    ASSUME TypeOK, NEW p \in Processes, Ready(p), CancelOrder(p)
    PROVE  Advance(p)
  <1>. DEFINE b == book[request[p].seen]
  <1>ord. request[p].at \in Cancelling => Order(p) \in Orders
    BY DEF Ready, Order
  <1>1. CASE \E o \in Orders : Cancels(p, o)
    <2>1. PICK o \in Orders : Cancels(p, o)
      BY <1>1
    <2>. DEFINE step == IF Reserve[o] > 0 THEN "release" ELSE "cancel"
                q == [Idle EXCEPT !.at = step, !.order = o]
    <2>2. step \in Steps /\ step \in {"release", "cancel"}
      BY DEF Steps, Cancelling
    <2>. HIDE DEF step
    <2>3. q \in Requests /\ q.at = step /\ q.order = o
      BY <2>2, IdleType DEF Idle, Requests
    <2>4. Begins(p, q) /\ UNCHANGED <<tables, lost>>
      BY <2>1 DEF Cancels, step
    <2>5. QED
      BY <2>2, <2>3, <2>4, BeginsAdvances
  <1>2. CASE Releases(p)
    BY <1>2, ReadsAdvances DEF Releases, At, Cancelling
  <1>3. CASE Unlocks(p)
    <2>1. /\ request[p].at = "unlock"
          /\ Moves(p, Unlocked(b, Order(p)), "unlock", "unlockRow")
      BY <1>3 DEF Unlocks, At
    <2>2. Order(p) \in Orders /\ request[p].seen \in 1..Version
      BY <2>1, <1>ord DEF Ready, Computing, Cancelling
    <2>3. b.available \in Nat /\ b.locked \in Nat /\ Reserve[Order(p)] \in Nat
      BY <2>2, BookFacts
    <2>. HIDE DEF b
    <2>4. /\ b.available + Release(b, Order(p)) \in Nat
          /\ b.locked - Release(b, Order(p)) \in Nat
      BY <2>3 DEF Release
    <2>5. /\ request[p].at \in Computing
          /\ request[p].at \in Placing \cup Filling \cup Cancelling
          /\ "unlock" \in Causes /\ "unlockRow" \in Owing
      BY <2>1 DEF Computing, Cancelling, Causes, Owing
    <2>6. QED
      BY <2>1, <2>4, <2>5, MovesAdvances DEF Unlocked
  <1>4. CASE RecordsUnlock(p)
    <2>1. request[p].at \in Owing /\ request[p].at \in Cancelling
      BY <1>4 DEF RecordsUnlock, At, Owing, Cancelling
    <2>2. QED
      BY <1>4, <2>1, RecordsAdvances DEF RecordsUnlock
  <1>5. CASE CancelsOrder(p)
    <2>1. Order(p) \in Orders
      BY <1>5, <1>ord DEF CancelsOrder, At, Cancelling
    <2>2. TablesTypeOK' /\ Grows
      BY <1>5, <2>1, UpdateOrderEffect DEF CancelsOrder, OrderStates
    <2>3. QED
      BY <1>5, <2>2, EndsAdvances DEF CancelsOrder, TypeOK
  <1>6. QED
    BY <1>1, <1>2, <1>3, <1>4, <1>5 DEF CancelOrder

LEMMA ResetAccountAdvances ==
    ASSUME TypeOK, NEW p \in Processes, Ready(p), ResetAccount(p)
    PROVE  Advance(p)
  <1>0. Version \in Nat \ {0}
    BY BookFacts
  <1>1. CASE Resets(p)
    <2>. DEFINE q == [Idle EXCEPT !.at = "clear",
                                  !.todo = {o \in Orders : state[o] = "ACCEPTED"}]
    <2>1. q \in Requests /\ q.at = "clear"
      BY IdleType DEF Idle, Requests, Steps, Resetting
    <2>2. QED
      BY <1>1, <2>1, BeginsAdvances DEF Resets
  <1>2. CASE \E o \in Orders : Clears(p, o)
    <2>1. PICK o \in Orders : Clears(p, o)
      BY <1>2
    <2>2. TablesTypeOK' /\ Grows
      BY <2>1, UpdateOrderEffect DEF Clears, OrderStates
    <2>. DEFINE q == [request[p] EXCEPT !.todo = request[p].todo \ {o}]
    <2>3. request[p] \in Requests
      BY DEF TypeOK
    <2>4. q \in Requests /\ q.at = request[p].at
      BY <2>3 DEF Requests
    <2>5. request' = [request EXCEPT ![p] = q]
      BY <2>1 DEF Clears, TypeOK
    <2>6. Requested' /\ Others(p) /\ request'[p] = q
      BY <2>4, <2>5 DEF TypeOK, Requested, Others
    <2>7. request'[p].at = "clear"
      BY <2>1, <2>4, <2>6 DEF Clears, At
    <2>8. Ready(p)'
      BY <2>7 DEF Ready, Placing, Filling, Cancelling, Computing, Owing, Priced
    <2>9. QED
      BY <2>1, <2>2, <2>6, <2>8, Typed DEF Advance, TypeOK, Clears
  <1>3. CASE Closes(p)
    <2>1. UNCHANGED <<book, ledger, state, fills, calls, lost>> /\ position' \in Positions
      BY <1>3 DEF Closes, ClosePosition, TypeOK, TablesTypeOK, Positions
    <2>2. TablesTypeOK' /\ Grows
      BY <1>0, <2>1 DEF TypeOK, TablesTypeOK, Grows, Version
    <2>3. /\ "zero" \in Steps \ (Computing \cup Owing)
          /\ "zero" \notin Placing \cup Filling \cup Cancelling
      BY DEF Steps, Resetting, Placing, Filling, Cancelling, Computing, Owing
    <2>4. QED
      BY <1>3, <2>1, <2>2, <2>3, GotoAdvances DEF Closes
  <1>4. CASE Zeroes(p)
    BY <1>4, ReadsAdvances DEF Zeroes, At
  <1>5. CASE ResetsAccount(p)
    <2>1. /\ request[p].at \in Computing
          /\ "reset" \in Causes /\ "resetRow" \in Owing /\ Capital \in Nat /\ 0 \in Nat
      BY <1>5 DEF ResetsAccount, At, Computing, Causes, Owing
    <2>2. Moves(p, [available |-> Capital, locked |-> 0], "reset", "resetRow")
      BY <1>5 DEF ResetsAccount, Cleared
    <2>3. QED
      BY <2>1, <2>2, MovesAdvances
  <1>6. CASE RecordsReset(p)
    <2>1. request[p].at \in Owing
      BY <1>6 DEF RecordsReset, At, Owing
    <2>2. TablesTypeOK' /\ Grows /\ UNCHANGED <<calls, lost>>
      BY <1>6, <2>1, RecordsEffect DEF RecordsReset
    <2>3. QED
      BY <1>6, <2>2, EndsAdvances DEF RecordsReset, TypeOK
  <1>7. QED
    BY <1>1, <1>2, <1>3, <1>4, <1>5, <1>6 DEF ResetAccount

LEMMA AbortsAdvances ==
    ASSUME TypeOK, NEW p \in Processes, Ready(p), Aborts(p)
    PROVE  Advance(p)
  <1>1. Ends(p) /\ UNCHANGED <<tables, calls>>
        /\ lost' = IF request[p].at \in Owing THEN lost \cup {request[p].wrote} ELSE lost
    BY DEF Aborts
  <1>2. request[p].wrote \in Nat
    BY DEF TypeOK, Requests
  <1>3. lost' \subseteq Nat
    BY <1>1, <1>2 DEF TypeOK
  <1>4. QED
    BY <1>1, <1>3, TablesStand, EndsAdvances

Step(p) ==
    PlaceOrder(p) \/ ExecuteFill(p) \/ CancelOrder(p) \/ ResetAccount(p) \/ Aborts(p)

LEMMA StepAdvances ==
    ASSUME TypeOK, NEW p \in Processes, Ready(p), Step(p)
    PROVE  Advance(p)
  BY PlaceOrderAdvances, ExecuteFillAdvances, CancelOrderAdvances, ResetAccountAdvances,
     AbortsAdvances DEF Step

LEMMA TypeInvStep ==
    ASSUME TypeInv, NEW p \in Processes, Step(p)
    PROVE  TypeInv' /\ Advance(p)
  <1>1. Advance(p)
    BY StepAdvances DEF TypeInv
  <1>2. ASSUME NEW q \in Processes PROVE Ready(q)'
    <2>1. CASE q = p
      BY <1>1, <2>1 DEF Advance
    <2>2. CASE q # p
      <3>1. Version' \in Nat
        BY <1>1 DEF Advance, TypeOK, TablesTypeOK, Version
      <3>2. request'[q] = request[q]
        BY <1>1, <2>2 DEF Advance, Others
      <3>3. QED
        BY <1>1, <3>1, <3>2, ReadyKept DEF Advance, TypeInv
    <2>3. QED
      BY <2>1, <2>2
  <1>3. QED
    BY <1>1, <1>2 DEF TypeInv, Advance

LEMMA TypeInvInit == Init => TypeInv
  <1>. SUFFICES ASSUME Init PROVE TypeInv
    OBVIOUS
  <1>. DEFINE image == [available |-> Capital, locked |-> 0,
                        cause |-> "opened", order |-> NoOrder]
  <1>1. image \in Images
    BY DEF Images, Causes
  <1>2. book \in Seq(Images) /\ book # <<>>
    BY <1>1 DEF Init, TablesInit
  <1>3. TablesTypeOK
    BY <1>2 DEF Init, TablesInit, TablesTypeOK, OrderStates, Positions
  <1>4. request \in [Processes -> Requests] /\ calls \in 0..MaxCalls /\ lost \subseteq Nat
    BY IdleType DEF Init
  <1>5. \A p \in Processes : Ready(p)
    BY Unhurried DEF Init, Idle
  <1>6. QED
    BY <1>3, <1>4, <1>5 DEF TypeInv, TypeOK

LEMMA NextStep == Next <=> \E p \in Processes : Step(p)
  BY DEF Next, Step

LEMMA TypeInvStutter ==
    ASSUME TypeInv, UNCHANGED vars
    PROVE  TypeInv'
  BY DEF TypeInv, TypeOK, TablesTypeOK, vars, tables, Ready, Version, Filled, Release

LEMMA TypeInvInvariant == Spec => []TypeInv
  <1>1. TypeInv /\ [Next]_vars => TypeInv'
    BY TypeInvStep, TypeInvStutter, NextStep
  <1>2. QED
    BY <1>1, TypeInvInit, PTL DEF Spec

-----------------------------------------------------------------------------
\* No history of calls, retries, resets and processes that die takes a balance
\* below zero: every movement is applied to the row it was computed from.
THEOREM TypeCorrect == Spec => []TypeOK
  <1>1. TypeInv => TypeOK
    BY DEF TypeInv
  <1>2. QED
    BY <1>1, TypeInvInvariant, PTL

-----------------------------------------------------------------------------
(* The account and its ledger.                                              *)

\* What a step does to them: nothing, or a call that owes no row moves the
\* account and owes one, or a call writes the row it owes, or ends owing it.
Quiet(p) == request[p].at \notin Owing /\ UNCHANGED <<book, ledger, lost>>

Charges(p) ==
    /\ request[p].at \notin Owing
    /\ Version' = Version + 1
    /\ request'[p].at \in Owing
    /\ request'[p].wrote = Version'
    /\ UNCHANGED <<ledger, lost>>

Explains(p) ==
    /\ \E row \in LedgerRows :
          /\ ledger' = ledger \cup {row}
          /\ row.at = request[p].wrote
          /\ row.at \in 2..Version
          /\ row.available = book[row.at].available - book[row.at - 1].available
          /\ row.locked = book[row.at].locked - book[row.at - 1].locked
    /\ UNCHANGED <<book, lost>>

Drops(p) ==
    /\ UNCHANGED <<book, ledger>>
    /\ lost \subseteq lost'
    /\ request[p].at \in Owing => request[p].wrote \in lost'

LEMMA MovesCharges ==
    ASSUME TypeOK, NEW p \in Processes, Ready(p), request[p].at \in Computing,
           NEW after, NEW cause, NEW step \in Owing, Moves(p, after, cause, step)
    PROVE  Charges(p)
  <1>1. request[p].at \notin Owing
    BY DEF Computing, Owing
  <1>2. Version' = Version + 1 /\ UNCHANGED <<ledger, lost>>
    BY DEF Moves, BumpVersion, Version, TypeOK, TablesTypeOK
  <1>3. request' = [request EXCEPT ![p] = [request[p] EXCEPT !.at = step, !.wrote = Version + 1]]
    BY DEF Moves, TypeOK
  <1>4. request'[p].at = step /\ request'[p].wrote = Version + 1
    BY <1>3 DEF TypeOK, Requests
  <1>5. QED
    BY <1>1, <1>2, <1>4 DEF Charges

LEMMA PlaceOrderLedger ==
    ASSUME TypeOK, NEW p \in Processes, Ready(p), PlaceOrder(p)
    PROVE  Quiet(p) \/ Charges(p) \/ Explains(p)
  <1>1. CASE Locks(p)
    BY <1>1, MovesCharges DEF Locks, At, Computing, Owing
  <1>2. CASE RecordsLock(p)
    <2>1. request[p].at \in Owing /\ Records(p, NoOrder)
      BY <1>2 DEF RecordsLock, At, Owing
    <2>2. QED
      BY <2>1, RecordsEffect DEF Explains
  <1>3. CASE ~Locks(p) /\ ~RecordsLock(p)
    <2>1. CASE \E o \in Orders, cost \in Costs : Places(p, o, cost)
      BY <2>1 DEF Places, Begins, At, Quiet, Owing, tables
    <2>2. CASE InsertsOrder(p) \/ FindsOrder(p) \/ Funds(p)
      BY <2>2 DEF InsertsOrder, FindsOrder, Funds, At, Quiet, Owing, tables
    <2>3. CASE Reserves(p) \/ Accepts(p)
      BY <2>3 DEF Reserves, Accepts, At, Quiet, Owing, tables
    <2>4. QED
      BY <1>3, <2>1, <2>2, <2>3 DEF PlaceOrder
  <1>4. QED
    BY <1>1, <1>2, <1>3

LEMMA ExecuteFillLedger ==
    ASSUME TypeOK, NEW p \in Processes, Ready(p), ExecuteFill(p)
    PROVE  Quiet(p) \/ Charges(p) \/ Explains(p)
  <1>1. CASE Pays(p)
    BY <1>1, MovesCharges DEF Pays, At, Computing, Owing
  <1>2. CASE RecordsFill(p)
    <2>1. request[p].at \in Owing /\ Records(p, Order(p)) /\ Order(p) \in Orders
      BY <1>2 DEF RecordsFill, At, Owing, Ready, Order, Filling
    <2>2. QED
      BY <2>1, RecordsEffect DEF Explains
  <1>3. CASE ~Pays(p) /\ ~RecordsFill(p)
    <2>1. CASE \E o \in Orders, cost \in Costs : Matches(p, o, cost)
      BY <2>1 DEF Matches, Begins, At, Quiet, Owing, tables
    <2>2. CASE Prices(p) \/ Rejects(p) \/ Checks(p) \/ Looks(p)
      BY <2>2 DEF Prices, Rejects, Checks, Looks, At, Quiet, Owing, tables
    <2>3. CASE InsertsFill(p) \/ FindsFill(p) \/ SelectsPosition(p) \/ Holds(p)
      BY <2>3 DEF InsertsFill, FindsFill, SelectsPosition, Holds, At, Quiet, Owing, tables
    <2>4. CASE Settles(p) \/ LosesRace(p)
      BY <2>4 DEF Settles, LosesRace, At, Quiet, Owing, tables
    <2>5. QED
      BY <1>3, <2>1, <2>2, <2>3, <2>4 DEF ExecuteFill
  <1>4. QED
    BY <1>1, <1>2, <1>3

LEMMA CancelOrderLedger ==
    ASSUME TypeOK, NEW p \in Processes, Ready(p), CancelOrder(p)
    PROVE  Quiet(p) \/ Charges(p) \/ Explains(p)
  <1>1. CASE Unlocks(p)
    BY <1>1, MovesCharges DEF Unlocks, At, Computing, Owing
  <1>2. CASE RecordsUnlock(p)
    <2>1. request[p].at \in Owing /\ Records(p, NoOrder)
      BY <1>2 DEF RecordsUnlock, At, Owing
    <2>2. QED
      BY <2>1, RecordsEffect DEF Explains
  <1>3. CASE (\E o \in Orders : Cancels(p, o)) \/ Releases(p) \/ CancelsOrder(p)
    BY <1>3 DEF Cancels, Begins, Releases, CancelsOrder, At, Quiet, Owing, tables
  <1>4. QED
    BY <1>1, <1>2, <1>3 DEF CancelOrder

LEMMA ResetAccountLedger ==
    ASSUME TypeOK, NEW p \in Processes, Ready(p), ResetAccount(p)
    PROVE  Quiet(p) \/ Charges(p) \/ Explains(p)
  <1>1. CASE ResetsAccount(p)
    BY <1>1, MovesCharges DEF ResetsAccount, At, Computing, Owing
  <1>2. CASE RecordsReset(p)
    <2>1. request[p].at \in Owing /\ Records(p, NoOrder)
      BY <1>2 DEF RecordsReset, At, Owing
    <2>2. QED
      BY <2>1, RecordsEffect DEF Explains
  <1>3. CASE Resets(p) \/ (\E o \in Orders : Clears(p, o))
    BY <1>3 DEF Resets, Begins, Clears, At, Quiet, Owing, tables
  <1>4. CASE Closes(p) \/ Zeroes(p)
    BY <1>4 DEF Closes, Zeroes, At, Quiet, Owing, tables
  <1>5. QED
    BY <1>1, <1>2, <1>3, <1>4 DEF ResetAccount

LEMMA StepLedger ==
    ASSUME TypeOK, NEW p \in Processes, Ready(p), Step(p)
    PROVE  Quiet(p) \/ Charges(p) \/ Explains(p) \/ Drops(p)
  <1>1. CASE Aborts(p)
    BY <1>1 DEF Aborts, Drops, tables
  <1>2. QED
    BY <1>1, PlaceOrderLedger, ExecuteFillLedger, CancelOrderLedger, ResetAccountLedger
       DEF Step

Owed(v) ==
    \/ \E row \in ledger : row.at = v
    \/ \E p \in Processes : request[p].at \in Owing /\ request[p].wrote = v
    \/ v \in lost

LEMMA LedgerStep ==
    ASSUME TypeInv, LedgerExplainsAccount, NEW p \in Processes, Step(p)
    PROVE  LedgerExplainsAccount'
  <1>1. Advance(p) /\ TypeOK /\ Ready(p)
    BY TypeInvStep DEF TypeInv
  <1>2. Quiet(p) \/ Charges(p) \/ Explains(p) \/ Drops(p)
    BY <1>1, StepLedger
  <1>3. /\ Version \in Nat \ {0} /\ Version' \in Nat /\ Version <= Version'
        /\ \A v \in 1..Version : book'[v] = book[v]
        /\ ledger \subseteq ledger'
        /\ Others(p)
    BY <1>1, BookFacts DEF Advance, Grows, TypeOK, TablesTypeOK, Version
  <1>4. ASSUME NEW row \in ledger'
        PROVE  /\ row.at \in 2..Version'
               /\ row.available = book'[row.at].available - book'[row.at - 1].available
               /\ row.locked = book'[row.at].locked - book'[row.at - 1].locked
    <2>1. /\ row.at \in 2..Version
          /\ row.available = book[row.at].available - book[row.at - 1].available
          /\ row.locked = book[row.at].locked - book[row.at - 1].locked
      <3>1. CASE row \in ledger
        BY <3>1 DEF LedgerExplainsAccount
      <3>2. CASE row \notin ledger
        BY <1>2, <3>2 DEF Quiet, Charges, Explains, Drops
      <3>3. QED
        BY <3>1, <3>2
    <2>2. row.at \in 1..Version /\ row.at - 1 \in 1..Version /\ row.at \in 2..Version'
      BY <1>3, <2>1
    <2>3. QED
      BY <1>3, <2>1, <2>2
  <1>5. ASSUME NEW v \in 2..Version' PROVE Owed(v)'
    <2>1. CASE v \notin 2..Version
      <3>1. Charges(p)
        BY <1>2, <1>3, <2>1 DEF Quiet, Explains, Drops, Version
      <3>2. v = Version'
        BY <1>3, <2>1, <3>1 DEF Charges
      <3>3. QED
        BY <3>1, <3>2 DEF Charges, Owed
    <2>2. CASE v \in 2..Version
      <3>1. Owed(v)
        BY <2>2 DEF LedgerExplainsAccount, Owed
      <3>2. lost \subseteq lost'
        BY <1>2 DEF Quiet, Charges, Explains, Drops
      <3>3. CASE (\E row \in ledger : row.at = v) \/ v \in lost
        BY <1>3, <3>2, <3>3 DEF Owed
      <3>4. CASE \E q \in Processes \ {p} : request[q].at \in Owing /\ request[q].wrote = v
        BY <1>3, <3>4 DEF Owed, Others
      <3>5. CASE request[p].at \in Owing /\ request[p].wrote = v
        BY <1>2, <3>5 DEF Quiet, Charges, Explains, Drops, Owed
      <3>6. QED
        BY <3>1, <3>3, <3>4, <3>5 DEF Owed
    <2>3. QED
      BY <2>1, <2>2
  <1>6. QED
    BY <1>4, <1>5 DEF LedgerExplainsAccount, Owed

\* Every version of the account is explained by exactly the ledger row of the
\* call that made it, or that call still owes it, or has ended owing it.
THEOREM LedgerIsTheAccount == Spec => []LedgerExplainsAccount
  <1>1. Init => LedgerExplainsAccount
    BY DEF Init, TablesInit, LedgerExplainsAccount, Version
  <1>2. TypeInv /\ LedgerExplainsAccount /\ UNCHANGED vars => LedgerExplainsAccount'
    BY DEF LedgerExplainsAccount, vars, tables, Version
  <1>3. TypeInv /\ LedgerExplainsAccount /\ [Next]_vars => LedgerExplainsAccount'
    BY <1>2, LedgerStep, NextStep
  <1>4. QED
    BY <1>1, <1>3, TypeInvInvariant, PTL DEF Spec

-----------------------------------------------------------------------------
(* Who may move money for an order: the call whose insert the index let     *)
(* through, and for a market order that call until its fill has ended.      *)

Placed == {"fund", "reserve", "lock", "lockRow", "accept"}

Owns(p, o) ==
    /\ Order(p) = o
    /\ request[p].at \in Placed \/ (o \notin Limit /\ request[p].at \in Filling)

OwnInv ==
    \A p \in Processes, o \in Orders :
        Owns(p, o) => /\ state[o] # "none"
                      /\ \A q \in Processes : Owns(q, o) => q = p

LEMMA GotoField ==
    ASSUME Requested, NEW p \in Processes, NEW step, Goto(p, step)
    PROVE  request'[p].at = step /\ Order(p)' = Order(p)
  BY DEF Requested, Requests, Goto, Order

LEMMA ReadsField ==
    ASSUME Requested, NEW p \in Processes, NEW step, ReadsAccount(p, step)
    PROVE  request'[p].at = step /\ Order(p)' = Order(p)
  <1>1. request' = [request EXCEPT ![p] = [request[p] EXCEPT !.at = step, !.seen = Version]]
    BY DEF ReadsAccount, Requested
  <1>2. QED
    BY <1>1 DEF Requested, Requests, Order

LEMMA MovesField ==
    ASSUME Requested, NEW p \in Processes, NEW after, NEW cause, NEW step,
           Moves(p, after, cause, step)
    PROVE  request'[p].at = step /\ Order(p)' = Order(p)
  <1>1. request' = [request EXCEPT ![p] = [request[p] EXCEPT !.at = step, !.wrote = Version + 1]]
    BY DEF Moves, Requested
  <1>2. QED
    BY <1>1 DEF Requested, Requests, Order

LEMMA EndsField ==
    ASSUME Requested, NEW p \in Processes, Ends(p)
    PROVE  request'[p].at = "idle"
  BY DEF Requested, Ends, Idle

\* A call comes to own an order only by inserting it, or had it already.
Inherits(p) ==
    \A o \in Orders :
        Owns(p, o)' => Owns(p, o) \/ (state[o] = "none" /\ state'[o] # "none")

LEMMA InheritsNothing ==
    ASSUME NEW p \in Processes, request'[p].at \notin Placed \cup Filling
    PROVE  Inherits(p)
  BY DEF Inherits, Owns

LEMMA InheritsKept ==
    ASSUME NEW p \in Processes, Order(p)' = Order(p),
           request'[p].at \in Placed => request[p].at \in Placed,
           request'[p].at \in Filling => request[p].at \in Placed \cup Filling
    PROVE  Inherits(p)
  BY DEF Inherits, Owns, Placed, Filling

LEMMA PlaceOrderInherits ==
    ASSUME TypeOK, NEW p \in Processes, Ready(p), PlaceOrder(p)
    PROVE  Inherits(p)
  <1>0. Requested
    BY DEF TypeOK, Requested
  <1>1. CASE \E o \in Orders, cost \in Costs : Places(p, o, cost)
    <2>1. request'[p].at = "insert"
      BY <1>0, <1>1 DEF Places, Begins, Requested, Idle
    <2>2. QED
      BY <2>1, InheritsNothing DEF Placed, Filling
  <1>2. CASE InsertsOrder(p)
    <2>1. Order(p) \in Orders /\ Order(p)' = Order(p)
      BY <1>0, <1>2, GotoField DEF InsertsOrder, At, Ready, Order, Placing
    <2>2. state[Order(p)] = "none" /\ state'[Order(p)] # "none"
      BY <1>2, <2>1 DEF InsertsOrder, InsertOrder, UpdateOrder, TypeOK, TablesTypeOK
    <2>3. QED
      BY <2>1, <2>2 DEF Inherits, Owns
  <1>3. CASE FindsOrder(p) \/ Accepts(p)
    BY <1>0, <1>3, EndsField, InheritsNothing DEF FindsOrder, Accepts, Placed, Filling
  <1>4. CASE Funds(p)
    <2>1. CASE Ends(p)
      BY <1>0, <2>1, EndsField, InheritsNothing DEF Placed, Filling
    <2>2. CASE request' = [request EXCEPT ![p].at = "price", ![p].attempt = 1]
      <3>1. request' = [request EXCEPT ![p] = [request[p] EXCEPT !.at = "price", !.attempt = 1]]
        BY <2>2 DEF TypeOK
      <3>2. request'[p].at = "price" /\ Order(p)' = Order(p)
        BY <3>1 DEF TypeOK, Requests, Order
      <3>3. QED
        BY <1>4, <3>2, InheritsKept DEF Funds, At, Placed, Filling
    <2>3. QED
      BY <1>4, <2>1, <2>2 DEF Funds
  <1>5. CASE Reserves(p)
    <2>1. CASE Ends(p)
      BY <1>0, <2>1, EndsField, InheritsNothing DEF Placed, Filling
    <2>2. CASE ReadsAccount(p, "lock")
      BY <1>0, <1>5, <2>2, ReadsField, InheritsKept DEF Reserves, At, Placed, Filling
    <2>3. QED
      BY <1>5, <2>1, <2>2 DEF Reserves
  <1>6. CASE Locks(p)
    BY <1>0, <1>6, MovesField, InheritsKept DEF Locks, At, Placed, Filling
  <1>7. CASE RecordsLock(p)
    BY <1>0, <1>7, GotoField, InheritsKept DEF RecordsLock, At, Placed, Filling
  <1>8. QED
    BY <1>1, <1>2, <1>3, <1>4, <1>5, <1>6, <1>7 DEF PlaceOrder

\* A fill goes on with its order, ends, or begins for a limit order.
FillGoesOn(p) ==
    \/ request'[p].at = "idle"
    \/ /\ request[p].at \in Filling /\ request'[p].at \in Filling
       /\ Order(p)' = Order(p)
    \/ request[p].at = "idle" /\ request'[p].at = "price" /\ Order(p)' \in Limit

LEMMA ExecuteFillGoesOn ==
    ASSUME TypeOK, NEW p \in Processes, ExecuteFill(p)
    PROVE  FillGoesOn(p)
  <1>0. Requested
    BY DEF TypeOK, Requested
  <1>ends. CASE Ends(p)
    BY <1>0, <1>ends, EndsField DEF FillGoesOn
  <1>goto. ASSUME NEW step \in Filling, Goto(p, step), request[p].at \in Filling
           PROVE  FillGoesOn(p)
    BY <1>0, <1>goto, GotoField DEF FillGoesOn
  <1>retries. ASSUME Retries(p), request[p].at \in Filling
              PROVE  FillGoesOn(p)
    BY <1>0, <1>retries, RetriesEffect DEF FillGoesOn, Idle, Order, Filling
  <1>1. CASE \E o \in Orders, cost \in Costs : Matches(p, o, cost)
    BY <1>0, <1>1 DEF Matches, Begins, At, Requested, Idle, Order, FillGoesOn
  <1>2. CASE Prices(p)
    <2>1. CASE ReadsAccount(p, "check")
      BY <1>0, <1>2, <2>1, ReadsField DEF Prices, At, Filling, FillGoesOn
    <2>2. QED
      BY <1>2, <1>ends, <1>goto, <2>1 DEF Prices, At, Filling
  <1>3. CASE Rejects(p) \/ FindsFill(p) \/ Settles(p)
    BY <1>3, <1>ends DEF Rejects, FindsFill, Settles
  <1>4. CASE Checks(p)
    BY <1>4, <1>goto, <1>retries DEF Checks, At, Filling
  <1>5. CASE Looks(p)
    BY <1>5, <1>goto, <1>ends DEF Looks, At, Filling
  <1>6. CASE InsertsFill(p) \/ Holds(p)
    BY <1>6, <1>goto DEF InsertsFill, Holds, At, Filling
  <1>7. CASE RecordsFill(p)
    BY <1>7, <1>goto DEF RecordsFill, At, Filling
  <1>8. CASE Pays(p)
    BY <1>0, <1>8, MovesField DEF Pays, At, Filling, FillGoesOn
  <1>9. CASE SelectsPosition(p)
    <2>1. request' = [request EXCEPT ![p] = [request[p] EXCEPT !.at = "hold", !.place = position]]
      BY <1>9 DEF SelectsPosition, TypeOK
    <2>2. request'[p].at = "hold" /\ Order(p)' = Order(p)
      BY <2>1 DEF TypeOK, Requests, Order
    <2>3. QED
      BY <1>9, <2>2 DEF SelectsPosition, At, Filling, FillGoesOn
  <1>10. CASE LosesRace(p)
    BY <1>10, <1>retries DEF LosesRace, At, Filling
  <1>11. QED
    BY <1>1, <1>2, <1>3, <1>4, <1>5, <1>6, <1>7, <1>8, <1>9, <1>10 DEF ExecuteFill

LEMMA ExecuteFillInherits ==
    ASSUME TypeOK, NEW p \in Processes, ExecuteFill(p)
    PROVE  Inherits(p)
  BY ExecuteFillGoesOn DEF FillGoesOn, Inherits, Owns, Placed, Filling

\* Cancels, resets and aborted calls come to own nothing.
Elsewhere == {"idle"} \cup Cancelling \cup Resetting

LEMMA CancelOrderElsewhere ==
    ASSUME TypeOK, NEW p \in Processes, CancelOrder(p)
    PROVE  request'[p].at \in Elsewhere
  <1>0. Requested
    BY DEF TypeOK, Requested
  <1>1. CASE \E o \in Orders : Cancels(p, o)
    BY <1>0, <1>1 DEF Cancels, Begins, Requested, Idle, Elsewhere, Cancelling
  <1>2. CASE Releases(p)
    BY <1>0, <1>2, ReadsField DEF Releases, Elsewhere, Cancelling
  <1>3. CASE Unlocks(p)
    BY <1>0, <1>3, MovesField DEF Unlocks, Elsewhere, Cancelling
  <1>4. CASE RecordsUnlock(p) \/ CancelsOrder(p)
    BY <1>0, <1>4, GotoField, EndsField DEF RecordsUnlock, CancelsOrder, Elsewhere, Cancelling
  <1>5. QED
    BY <1>1, <1>2, <1>3, <1>4 DEF CancelOrder

LEMMA ResetAccountElsewhere ==
    ASSUME TypeOK, NEW p \in Processes, ResetAccount(p)
    PROVE  request'[p].at \in Elsewhere
  <1>0. Requested
    BY DEF TypeOK, Requested
  <1>1. CASE Resets(p)
    BY <1>0, <1>1 DEF Resets, Begins, Requested, Idle, Elsewhere, Resetting
  <1>2. CASE \E o \in Orders : Clears(p, o)
    <2>1. request' = [request EXCEPT ![p] = [request[p] EXCEPT !.todo = request'[p].todo]]
          /\ request[p].at = "clear"
      BY <1>2 DEF Clears, At, TypeOK, Requests
    <2>2. QED
      BY <2>1 DEF TypeOK, Requests, Elsewhere, Resetting
  <1>3. CASE Closes(p) \/ RecordsReset(p)
    BY <1>0, <1>3, GotoField, EndsField DEF Closes, RecordsReset, Elsewhere, Resetting
  <1>4. CASE Zeroes(p)
    BY <1>0, <1>4, ReadsField DEF Zeroes, Elsewhere, Resetting
  <1>5. CASE ResetsAccount(p)
    BY <1>0, <1>5, MovesField DEF ResetsAccount, Elsewhere, Resetting
  <1>6. QED
    BY <1>1, <1>2, <1>3, <1>4, <1>5 DEF ResetAccount

LEMMA StepInherits ==
    ASSUME TypeOK, NEW p \in Processes, Ready(p), Step(p)
    PROVE  Inherits(p)
  <1>1. CASE PlaceOrder(p) \/ ExecuteFill(p)
    BY <1>1, PlaceOrderInherits, ExecuteFillInherits
  <1>2. CASE CancelOrder(p) \/ ResetAccount(p) \/ Aborts(p)
    <2>1. request'[p].at \in Elsewhere
      BY <1>2, CancelOrderElsewhere, ResetAccountElsewhere, EndsField
         DEF Aborts, TypeOK, Requested, Elsewhere
    <2>2. QED
      BY <2>1, InheritsNothing DEF Elsewhere, Cancelling, Resetting, Placed, Filling
  <1>3. QED
    BY <1>1, <1>2 DEF Step

LEMMA OwnStep ==
    ASSUME TypeInv, OwnInv, NEW p \in Processes, Step(p)
    PROVE  OwnInv'
  <1>1. Inherits(p) /\ Others(p) /\ Grows
    BY TypeInvStep, StepInherits DEF TypeInv, Advance
  <1>2. ASSUME NEW q \in Processes, NEW o \in Orders, Owns(q, o)'
        PROVE  \/ Owns(q, o)
               \/ q = p /\ state[o] = "none" /\ state'[o] # "none"
    BY <1>1, <1>2 DEF Inherits, Others, Owns, Order
  <1>3. QED
    BY <1>1, <1>2 DEF OwnInv, Grows

LEMMA OwnInvInvariant == Spec => [](TypeInv /\ OwnInv)
  <1>1. Init => OwnInv
    BY DEF Init, OwnInv, Owns, Idle, Placed, Filling
  <1>2. TypeInv /\ OwnInv /\ UNCHANGED vars => OwnInv'
    BY DEF OwnInv, Owns, Order, vars, tables
  <1>3. TypeInv /\ OwnInv /\ [Next]_vars => OwnInv'
    BY <1>2, OwnStep, NextStep
  <1>4. QED
    BY <1>1, <1>3, TypeInvInvariant, PTL DEF Spec

-----------------------------------------------------------------------------
(* What a step does to the state of an order.                               *)

Transition(p, o) ==
    \/ state'[o] = state[o]
    \/ state[o] = "none" /\ state'[o] = "CREATED"
    \/ state[o] = "ACCEPTED" /\ state'[o] = "CANCELLED"
    \/ /\ state[o] = "CREATED" /\ state'[o] = "REJECTED"
       /\ o = Order(p) /\ request[p].at = "fund"
    \/ /\ state[o] = "ACCEPTED" /\ state'[o] = "REJECTED"
       /\ o = Order(p) /\ request[p].at = "reject"
    \/ /\ state[o] = "CREATED" /\ state'[o] = "ACCEPTED"
       /\ o = Order(p) /\ request[p].at \in {"fund", "accept"}
    \/ /\ state[o] = "ACCEPTED" /\ state'[o] = "FILLED"
       /\ o = Order(p) /\ request[p].at = "settle"

LEMMA UpdateOrderTransition ==
    ASSUME TypeOK, NEW o \in Orders, NEW from, NEW to, UpdateOrder(o, from, to),
           NEW other \in Orders
    PROVE  IF other = o THEN state[o] = from /\ state'[o] = to
                        ELSE state'[other] = state[other]
  BY DEF UpdateOrder, TypeOK, TablesTypeOK

\* At most one order changes, by one guarded statement of the step's own.
Updates(p, o) ==
    \/ UpdateOrder(o, "none", "CREATED")
    \/ UpdateOrder(o, "ACCEPTED", "CANCELLED")
    \/ /\ UpdateOrder(o, "CREATED", "REJECTED")
       /\ o = Order(p) /\ request[p].at = "fund"
    \/ /\ UpdateOrder(o, "ACCEPTED", "REJECTED")
       /\ o = Order(p) /\ request[p].at = "reject"
    \/ /\ UpdateOrder(o, "CREATED", "ACCEPTED")
       /\ o = Order(p) /\ request[p].at \in {"fund", "accept"}
    \/ /\ UpdateOrder(o, "ACCEPTED", "FILLED")
       /\ o = Order(p) /\ request[p].at = "settle"

StepUpdates(p) == UNCHANGED state \/ (UNCHANGED book /\ \E o \in Orders : Updates(p, o))

LEMMA StepUpdatesOrder ==
    ASSUME TypeOK, NEW p \in Processes, Ready(p), Step(p)
    PROVE  StepUpdates(p)
  <1>ord. request[p].at \in Placing \cup Filling \cup Cancelling => Order(p) \in Orders
    BY DEF Ready, Order
  <1>same. CASE UNCHANGED state
    BY <1>same DEF StepUpdates
  <1>1. CASE PlaceOrder(p)
    <2>1. CASE InsertsOrder(p) \/ Funds(p) \/ Accepts(p)
      <3>1. request[p].at \in {"insert", "fund", "accept"} /\ Order(p) \in Orders
        BY <2>1, <1>ord DEF InsertsOrder, Funds, Accepts, At, Placing
      <3>2. QED
        BY <2>1, <3>1
           DEF InsertsOrder, InsertOrder, Funds, Accepts, At, StepUpdates, Updates
    <2>2. CASE ~(InsertsOrder(p) \/ Funds(p) \/ Accepts(p))
      BY <1>1, <1>same, <2>2
         DEF PlaceOrder, Places, FindsOrder, Reserves, Locks, Moves, RecordsLock, Records, tables
    <2>3. QED
      BY <2>1, <2>2
  <1>2. CASE ExecuteFill(p)
    <2>1. CASE Rejects(p) \/ Settles(p)
      <3>1. request[p].at \in {"reject", "settle"} /\ Order(p) \in Orders
        BY <2>1, <1>ord DEF Rejects, Settles, At, Filling
      <3>2. QED
        BY <2>1, <3>1 DEF Rejects, Settles, At, StepUpdates, Updates
    <2>2. CASE ~(Rejects(p) \/ Settles(p))
      BY <1>2, <1>same, <2>2
         DEF ExecuteFill, Matches, Prices, Checks, Looks, InsertsFill, FindsFill, Pays, Moves,
             RecordsFill, Records, SelectsPosition, Holds, LosesRace, tables
    <2>3. QED
      BY <2>1, <2>2
  <1>3. CASE CancelOrder(p)
    <2>1. CASE CancelsOrder(p)
      <3>1. Order(p) \in Orders
        BY <2>1, <1>ord DEF CancelsOrder, At, Cancelling
      <3>2. QED
        BY <2>1, <3>1 DEF CancelsOrder, StepUpdates, Updates
    <2>2. CASE ~CancelsOrder(p)
      BY <1>3, <1>same, <2>2
         DEF CancelOrder, Cancels, Releases, Unlocks, Moves, RecordsUnlock, Records, tables
    <2>3. QED
      BY <2>1, <2>2
  <1>4. CASE ResetAccount(p)
    <2>1. CASE \E c \in Orders : Clears(p, c)
      BY <2>1 DEF Clears, StepUpdates, Updates
    <2>2. CASE ~(\E c \in Orders : Clears(p, c))
      BY <1>4, <1>same, <2>2
         DEF ResetAccount, Resets, Closes, Zeroes, ResetsAccount, Moves, RecordsReset, Records,
             tables
    <2>3. QED
      BY <2>1, <2>2
  <1>5. CASE Aborts(p)
    BY <1>5, <1>same DEF Aborts, tables
  <1>6. QED
    BY <1>1, <1>2, <1>3, <1>4, <1>5 DEF Step

LEMMA StepTransitions ==
    ASSUME TypeOK, NEW p \in Processes, Ready(p), Step(p), NEW o \in Orders
    PROVE  Transition(p, o)
  <1>1. CASE UNCHANGED state
    BY <1>1 DEF Transition
  <1>2. CASE \E c \in Orders : Updates(p, c)
    <2>1. PICK c \in Orders : Updates(p, c)
      BY <1>2
    <2>2. QED
      BY <2>1, UpdateOrderTransition DEF Updates, Transition
  <1>3. QED
    BY <1>1, <1>2, StepUpdatesOrder DEF StepUpdates

\* However stale the state a call has decided from, the state an order ends in
\* is never left.
THEOREM TerminalStays == Spec => TerminalIsFinal
  <1>1. TypeInv /\ [Next]_vars
            => [\A o \in Orders : state[o] \in Terminal => state'[o] = state[o]]_state
    <2>1. CASE UNCHANGED vars
      BY <2>1 DEF vars, tables
    <2>2. ASSUME TypeInv, NEW p \in Processes, Step(p), NEW o \in Orders, state[o] \in Terminal
          PROVE  state'[o] = state[o]
      <3>1. Transition(p, o)
        BY <2>2, StepTransitions DEF TypeInv
      <3>2. QED
        BY <2>2, <3>1 DEF Transition, Terminal
    <2>3. QED
      BY <2>1, <2>2, NextStep
  <1>2. QED
    BY <1>1, TypeInvInvariant, PTL DEF Spec, TerminalIsFinal

-----------------------------------------------------------------------------
(* What a step does to the movements of the account.                        *)

Stands == \A cause \in Causes, o \in Orders : Movements(cause, o)' = Movements(cause, o)

Adds(p, from, cause, to) ==
    /\ request[p].at = from
    /\ request'[p].at = to
    /\ Order(p)' = Order(p)
    /\ \A c \in Causes, o \in Orders :
          Movements(c, o)' = IF c = cause /\ o = Order(p)
                             THEN Movements(c, o) \cup {Version + 1}
                             ELSE Movements(c, o)

LEMMA BookStands == ASSUME book' = book PROVE Stands
  BY DEF Stands, Movements

LEMMA MovesAdds ==
    ASSUME TypeOK, NEW p \in Processes, NEW after, NEW cause \in Causes, NEW step,
           Moves(p, after, cause, step)
    PROVE  Adds(p, request[p].at, cause, step)
  <1>. DEFINE image == [available |-> after.available, locked |-> after.locked,
                        cause |-> cause, order |-> Order(p)]
  <1>1. request'[p].at = step /\ Order(p)' = Order(p)
    BY MovesField DEF TypeOK, Requested
  <1>2. book' = Append(book, image) /\ book \in Seq(Images) /\ Version \in Nat
    BY BookFacts DEF Moves, BumpVersion, TypeOK, TablesTypeOK
  <1>3. /\ DOMAIN book = 1..Version
        /\ DOMAIN book' = 1..Version + 1
        /\ \A v \in 1..Version : book'[v] = book[v]
        /\ book'[Version + 1] = image
    BY <1>2 DEF Version
  <1>4. image.cause = cause /\ image.order = Order(p)
    OBVIOUS
  <1>. HIDE DEF image
  <1>5. ASSUME NEW c \in Causes, NEW o \in Orders
        PROVE  Movements(c, o)' = IF c = cause /\ o = Order(p)
                                  THEN Movements(c, o) \cup {Version + 1}
                                  ELSE Movements(c, o)
    BY <1>2, <1>3, <1>4 DEF Movements
  <1>6. QED
    BY <1>1, <1>5 DEF Adds

\* The account moves by four statements only.
LEMMA BookStep ==
    ASSUME NEW p \in Processes, Step(p)
    PROVE  Locks(p) \/ Pays(p) \/ Unlocks(p) \/ ResetsAccount(p) \/ UNCHANGED book
  <1>1. CASE PlaceOrder(p)
    BY <1>1
       DEF PlaceOrder, Places, InsertsOrder, FindsOrder, Funds, Reserves, RecordsLock, Records,
           Accepts, tables
  <1>2. CASE ExecuteFill(p)
    BY <1>2
       DEF ExecuteFill, Matches, Prices, Rejects, Checks, Looks, InsertsFill, FindsFill,
           RecordsFill, Records, SelectsPosition, Holds, Settles, LosesRace, tables
  <1>3. CASE CancelOrder(p)
    BY <1>3 DEF CancelOrder, Cancels, Releases, RecordsUnlock, Records, CancelsOrder, tables
  <1>4. CASE ResetAccount(p)
    BY <1>4 DEF ResetAccount, Resets, Clears, Closes, Zeroes, RecordsReset, Records, tables
  <1>5. CASE Aborts(p)
    BY <1>5 DEF Aborts, tables
  <1>6. QED
    BY <1>1, <1>2, <1>3, <1>4, <1>5 DEF Step

LEMMA StepMoney ==
    ASSUME TypeOK, NEW p \in Processes, Step(p)
    PROVE  \/ Stands
           \/ Adds(p, "lock", "lock", "lockRow")
           \/ Adds(p, "pay", "fill", "payRow")
           \/ Adds(p, "unlock", "unlock", "unlockRow")
           \/ Adds(p, "reset", "reset", "resetRow")
  <1>0. {"lock", "fill", "unlock", "reset"} \subseteq Causes
    BY DEF Causes
  <1>1. CASE Locks(p)
    BY <1>0, <1>1, MovesAdds DEF Locks, At
  <1>2. CASE Pays(p)
    BY <1>0, <1>2, MovesAdds DEF Pays, At
  <1>3. CASE Unlocks(p)
    BY <1>0, <1>3, MovesAdds DEF Unlocks, At
  <1>4. CASE ResetsAccount(p)
    BY <1>0, <1>4, MovesAdds DEF ResetsAccount, At
  <1>5. QED
    BY <1>1, <1>2, <1>3, <1>4, BookStep, BookStands

\* Only the call that is about to lock, or to pay, moves money for its order.
LEMMA MovementOf ==
    ASSUME TypeOK, NEW p \in Processes, Step(p), NEW o \in Orders
    PROVE  /\ \/ Movements("lock", o)' = Movements("lock", o)
              \/ /\ request[p].at = "lock" /\ Order(p) = o /\ Order(p)' = o
                 /\ request'[p].at = "lockRow"
                 /\ Movements("lock", o)' = Movements("lock", o) \cup {Version + 1}
           /\ \/ Movements("fill", o)' = Movements("fill", o)
              \/ /\ request[p].at = "pay" /\ Order(p) = o /\ Order(p)' = o
                 /\ request'[p].at = "payRow"
                 /\ Movements("fill", o)' = Movements("fill", o) \cup {Version + 1}
  <1>0. "lock" \in Causes /\ "fill" \in Causes
    BY DEF Causes
  <1>1. CASE Stands
    BY <1>0, <1>1 DEF Stands
  <1>2. CASE Adds(p, "lock", "lock", "lockRow")
    BY <1>0, <1>2 DEF Adds
  <1>3. CASE Adds(p, "pay", "fill", "payRow")
    BY <1>0, <1>3 DEF Adds
  <1>4. CASE Adds(p, "unlock", "unlock", "unlockRow") \/ Adds(p, "reset", "reset", "resetRow")
    BY <1>0, <1>4 DEF Adds
  <1>5. QED
    BY <1>1, <1>2, <1>3, <1>4, StepMoney

\* Movements are never taken back.
LEMMA MovementsGrow ==
    ASSUME TypeOK, NEW p \in Processes, Step(p), NEW cause \in Causes, NEW o \in Orders
    PROVE  Movements(cause, o) \subseteq Movements(cause, o)'
  BY StepMoney DEF Stands, Adds

-----------------------------------------------------------------------------
(* The reservation of an order.                                             *)

Reserving(p) ==
    LET o == Order(p) IN
    /\ request[p].at = "fund" => o \notin Limit
    /\ request[p].at \in {"reserve", "lock"} => Movements("lock", o) = {}
    /\ request[p].at \in {"lockRow", "accept"} /\ Reserve[o] > 0
         => Movements("lock", o) # {}

ReserveInv ==
    /\ \A p \in Processes : Reserving(p)
    /\ \A o \in Orders : Movements("lock", o) # {} => state[o] # "none"
    /\ ReservedOnce
    /\ AcceptedIsReserved

LEMMA PlaceOrderReserving ==
    ASSUME TypeInv, ReserveInv, NEW p \in Processes, PlaceOrder(p)
    PROVE  Reserving(p)'
  <1>0. TypeOK /\ Requested /\ Ready(p) /\ Step(p) /\ Reserving(p) /\ "lock" \in Causes
    BY DEF TypeInv, TypeOK, Requested, ReserveInv, Step, Causes
  <1>ord. request[p].at \in Placing => Order(p) \in Orders
    BY <1>0 DEF Ready, Order
  <1>ends. CASE Ends(p)
    BY <1>0, <1>ends, EndsField DEF Reserving
  <1>1. CASE \E o \in Orders, cost \in Costs : Places(p, o, cost)
    BY <1>0, <1>1 DEF Places, Begins, Requested, Idle, Reserving
  <1>2. CASE InsertsOrder(p)
    <2>. DEFINE step == IF Order(p) \notin Limit THEN "fund"
                        ELSE IF Reserve[Order(p)] > 0 THEN "reserve" ELSE "accept"
    <2>1. Order(p) \in Orders /\ state[Order(p)] = "none"
      BY <1>2, <1>ord DEF InsertsOrder, InsertOrder, UpdateOrder, At, Placing
    <2>2. \A o \in Orders : o = Order(p) => Movements("lock", o)' = {}
      BY <1>0, <1>2, <2>1, BookStands DEF InsertsOrder, Stands, ReserveInv
    <2>3. request'[p].at = step /\ Order(p)' = Order(p)
      BY <1>0, <1>2, GotoField DEF InsertsOrder
    <2>4. QED
      BY <2>1, <2>2, <2>3 DEF Reserving
  <1>3. CASE FindsOrder(p) \/ Accepts(p)
    BY <1>3, <1>ends DEF FindsOrder, Accepts
  <1>4. CASE Funds(p)
    <2>1. CASE request' = [request EXCEPT ![p].at = "price", ![p].attempt = 1]
      <3>1. request' = [request EXCEPT ![p] = [request[p] EXCEPT !.at = "price", !.attempt = 1]]
        BY <2>1 DEF TypeInv, TypeOK
      <3>2. request'[p].at = "price"
        BY <1>0, <3>1 DEF Requested, Requests
      <3>3. QED
        BY <3>2 DEF Reserving
    <2>2. QED
      BY <1>4, <1>ends, <2>1 DEF Funds
  <1>5. CASE Reserves(p)
    <2>1. CASE ReadsAccount(p, "lock")
      <3>1. request[p].at = "reserve" /\ Order(p) \in Orders /\ book' = book
        BY <1>5, <1>ord DEF Reserves, At, Placing, tables
      <3>2. request'[p].at = "lock" /\ Order(p)' = Order(p)
        BY <1>0, <2>1, ReadsField
      <3>3. \A o \in Orders : o = Order(p) => Movements("lock", o)' = {}
        BY <1>0, <3>1, BookStands DEF Stands, Reserving
      <3>4. QED
        BY <3>1, <3>2, <3>3 DEF Reserving
    <2>2. QED
      BY <1>5, <1>ends, <2>1 DEF Reserves
  <1>6. CASE Locks(p)
    <2>1. Adds(p, "lock", "lock", "lockRow") /\ Order(p) \in Orders
      BY <1>0, <1>6, <1>ord, MovesAdds DEF Locks, At, Placing
    <2>2. \A o \in Orders : o = Order(p) => Movements("lock", o)' # {}
      BY <1>0, <2>1 DEF Adds
    <2>3. QED
      BY <2>1, <2>2 DEF Adds, Reserving
  <1>7. CASE RecordsLock(p)
    <2>1. request[p].at = "lockRow" /\ Order(p) \in Orders
          /\ request'[p].at = "accept" /\ Order(p)' = Order(p)
      BY <1>0, <1>7, <1>ord, GotoField DEF RecordsLock, At, Placing
    <2>2. \A o \in Orders : Movements("lock", o) \subseteq Movements("lock", o)'
      BY <1>0, MovementsGrow
    <2>3. QED
      BY <1>0, <2>1, <2>2 DEF Reserving
  <1>8. QED
    BY <1>1, <1>2, <1>3, <1>4, <1>5, <1>6, <1>7 DEF PlaceOrder

LEMMA StepReserving ==
    ASSUME TypeInv, OwnInv, ReserveInv, NEW p \in Processes, Step(p), NEW q \in Processes
    PROVE  Reserving(q)'
  <1>0. TypeOK /\ Requested /\ "lock" \in Causes /\ Ready(q) /\ Reserving(q)
    BY DEF TypeInv, TypeOK, Requested, Causes, ReserveInv
  <1>1. CASE q = p /\ PlaceOrder(p)
    BY <1>1, PlaceOrderReserving
  <1>2. CASE q = p /\ ~PlaceOrder(p)
    <2>1. CASE ExecuteFill(p)
      BY <1>0, <1>2, <2>1, ExecuteFillGoesOn DEF FillGoesOn, Filling, Reserving
    <2>2. CASE CancelOrder(p) \/ ResetAccount(p) \/ Aborts(p)
      <3>1. request'[p].at \in Elsewhere
        BY <1>0, <2>2, CancelOrderElsewhere, ResetAccountElsewhere, EndsField
           DEF Aborts, Elsewhere
      <3>2. QED
        BY <1>2, <3>1 DEF Elsewhere, Cancelling, Resetting, Reserving
    <2>3. QED
      BY <1>2, <2>1, <2>2 DEF Step
  <1>3. CASE q # p
    <2>1. request'[q] = request[q] /\ Order(q)' = Order(q)
      BY <1>3, TypeInvStep DEF Advance, Others, Order
    <2>2. CASE request[q].at \in {"reserve", "lock"}
      <3>1. Order(q) \in Orders /\ Owns(q, Order(q))
        BY <1>0, <2>2 DEF Ready, Order, Placing, Owns, Placed
      <3>2. ~Owns(p, Order(q))
        BY <1>3, <3>1 DEF OwnInv
      <3>3. \A o \in Orders : o = Order(q) => Movements("lock", o)' = Movements("lock", o)
        BY <1>0, <3>1, <3>2, MovementOf DEF Owns, Placed
      <3>4. QED
        BY <1>0, <2>1, <2>2, <3>1, <3>3 DEF Reserving
    <2>3. CASE request[q].at \in {"lockRow", "accept"}
      <3>1. Order(q) \in Orders
        BY <1>0, <2>3 DEF Ready, Order, Placing
      <3>2. \A o \in Orders : Movements("lock", o) \subseteq Movements("lock", o)'
        BY <1>0, MovementsGrow
      <3>3. QED
        BY <1>0, <2>1, <2>3, <3>1, <3>2 DEF Reserving
    <2>4. CASE request[q].at \notin {"reserve", "lock", "lockRow", "accept"}
      BY <1>0, <2>1, <2>4 DEF Reserving
    <2>5. QED
      BY <2>2, <2>3, <2>4
  <1>4. QED
    BY <1>1, <1>2, <1>3

LEMMA ReserveStep ==
    ASSUME TypeInv, OwnInv, ReserveInv, NEW p \in Processes, Step(p)
    PROVE  ReserveInv'
  <1>0. TypeOK /\ Ready(p) /\ Reserving(p) /\ "lock" \in Causes
    BY DEF TypeInv, Causes, ReserveInv
  <1>ord. request[p].at \in Placing => Order(p) \in Orders
    BY <1>0 DEF Ready, Order
  <1>1. \A q \in Processes : Reserving(q)'
    BY StepReserving
  <1>2. ASSUME NEW o \in Orders
        PROVE  \/ Movements("lock", o)' = Movements("lock", o)
               \/ /\ Owns(p, o) /\ Movements("lock", o) = {}
                  /\ Movements("lock", o)' = {Version + 1}
    <2>1. CASE request[p].at = "lock" /\ Order(p) = o
      <3>1. Owns(p, o) /\ Movements("lock", o) = {}
        BY <1>0, <2>1 DEF Owns, Placed, Reserving
      <3>2. QED
        BY <1>0, <3>1, MovementOf
    <2>2. CASE ~(request[p].at = "lock" /\ Order(p) = o)
      BY <1>0, <2>2, MovementOf
    <2>3. QED
      BY <2>1, <2>2
  <1>3. ASSUME NEW o \in Orders PROVE Movements("lock", o)' # {} => state'[o] # "none"
    <2>1. Movements("lock", o)' # {} => state[o] # "none"
      BY <1>2 DEF ReserveInv, OwnInv
    <2>2. QED
      BY <2>1, TypeInvStep DEF Advance, Grows
  <1>4. ReservedOnce'
    <2>1. ASSUME NEW o \in Orders, NEW v \in Movements("lock", o)', NEW w \in Movements("lock", o)'
          PROVE  v = w
      BY <1>2, <2>1 DEF ReserveInv, ReservedOnce
    <2>2. QED
      BY <2>1 DEF ReservedOnce
  <1>5. AcceptedIsReserved'
    <2>1. ASSUME NEW o \in Orders, Reserve[o] > 0,
                 state'[o] \in {"ACCEPTED", "FILLED", "CANCELLED"}
          PROVE  Movements("lock", o) # {}
      <3>1. Transition(p, o)
        BY <1>0, StepTransitions
      <3>2. CASE state[o] \in {"ACCEPTED", "FILLED", "CANCELLED"}
        BY <2>1, <3>2 DEF ReserveInv, AcceptedIsReserved
      <3>3. CASE state[o] \notin {"ACCEPTED", "FILLED", "CANCELLED"}
        <4>1. o = Order(p) /\ request[p].at \in {"fund", "accept"}
          BY <2>1, <3>1, <3>3 DEF Transition
        <4>2. o \in Limit
          BY <2>1
        <4>3. QED
          BY <1>0, <2>1, <4>1, <4>2 DEF Reserving
      <3>4. QED
        BY <3>2, <3>3
    <2>2. \A o \in Orders : Movements("lock", o) \subseteq Movements("lock", o)'
      BY <1>0, MovementsGrow
    <2>3. QED
      BY <2>1, <2>2 DEF AcceptedIsReserved
  <1>6. QED
    BY <1>1, <1>3, <1>4, <1>5 DEF ReserveInv

LEMMA ReserveInvInvariant == Spec => []ReserveInv
  <1>1. Init => ReserveInv
    BY DEF Init, TablesInit, ReserveInv, Reserving, Idle, Movements, ReservedOnce,
           AcceptedIsReserved
  <1>2. TypeInv /\ OwnInv /\ ReserveInv /\ UNCHANGED vars => ReserveInv'
    BY DEF ReserveInv, Reserving, Order, Movements, ReservedOnce, AcceptedIsReserved,
           vars, tables
  <1>3. TypeInv /\ OwnInv /\ ReserveInv /\ [Next]_vars => ReserveInv'
    BY <1>2, ReserveStep, NextStep
  <1>4. QED
    BY <1>1, <1>3, OwnInvInvariant, PTL DEF Spec

\* One intent locks funds at most once: the unique index lets one call insert
\* the order, and only that call comes to lock for it.
THEOREM ReservesOnce == Spec => []ReservedOnce
  <1>1. ReserveInv => ReservedOnce
    BY DEF ReserveInv
  <1>2. QED
    BY <1>1, ReserveInvInvariant, PTL

\* No crash, lost race or retry leaves an order on the book, filled or
\* cancelled that has not had its funds locked.
THEOREM AcceptsReserved == Spec => []AcceptedIsReserved
  <1>1. ReserveInv => AcceptedIsReserved
    BY DEF ReserveInv
  <1>2. QED
    BY <1>1, ReserveInvInvariant, PTL

-----------------------------------------------------------------------------
(* The payment of an order.                                                 *)

Recorded == {"pay", "payRow", "select", "hold", "settle"}
Explained == {"select", "hold", "settle"}

Paying(p) ==
    LET o == Order(p) IN
    /\ request[p].at \in Filling => state[o] # "none"
    /\ request[p].at \in Recorded => o \in fills
    /\ request[p].at \in Explained => IsSettled(o)
    /\ o \notin Limit =>
         /\ request[p].at = "pay" => Movements("fill", o) = {}
         /\ /\ request[p].at \in Placed \cup Filling
            /\ request[p].at # "payRow"
            /\ Movements("fill", o) # {}
            => IsSettled(o)

PayInv ==
    /\ \A p \in Processes : Paying(p)
    /\ \A o \in Orders : Movements("fill", o) # {} => o \in fills
    /\ \A o \in Orders : o \in fills => state[o] # "none"
    /\ MarketPaidOnce
    /\ FilledIsSettled

LEMMA SettledStays ==
    ASSUME Grows, NEW o \in Orders, IsSettled(o)
    PROVE  IsSettled(o)'
  BY DEF Grows, IsSettled

\* A step on the same order that neither adds a fill nor comes to one of the
\* statements with a claim of its own.
LEMMA PayingKept ==
    ASSUME Grows, NEW p \in Processes, Order(p) \in Orders, Paying(p),
           \A o \in Orders : Movements("fill", o)' = Movements("fill", o),
           Order(p)' = Order(p), state[Order(p)] # "none",
           request[p].at \in Placed \cup Filling,
           request[p].at # "payRow",
           request'[p].at \in Recorded => request[p].at \in Recorded,
           request'[p].at \in Explained => request[p].at \in Explained,
           request'[p].at = "pay" => request[p].at = "pay"
    PROVE  Paying(p)'
  <1>. DEFINE o == Order(p)
  <1>1. /\ state'[o] # "none"
        /\ o \in fills => o \in fills'
        /\ \A other \in Orders : IsSettled(other) => IsSettled(other)'
    BY SettledStays DEF Grows
  <1>2. QED
    BY <1>1 DEF Paying

LEMMA PlaceOrderPaying ==
    ASSUME TypeInv, OwnInv, PayInv, NEW p \in Processes, PlaceOrder(p)
    PROVE  Paying(p)'
  <1>0. TypeOK /\ Requested /\ Ready(p) /\ Step(p) /\ Paying(p) /\ Grows
    BY TypeInvStep DEF TypeInv, TypeOK, Requested, PayInv, Step, Advance
  <1>ord. request[p].at \in Placing => Order(p) \in Orders
    BY <1>0 DEF Ready, Order
  <1>none. ASSUME request'[p].at \notin Placed \cup Filling PROVE Paying(p)'
    BY <1>none DEF Paying, Placed, Filling, Recorded, Explained
  <1>ends. CASE Ends(p)
    BY <1>0, <1>ends, <1>none, EndsField DEF Placed, Filling
  <1>goes. ASSUME request[p].at \in Placed, request[p].at # "insert",
                  request'[p].at \in Placed \cup {"price"}, Order(p)' = Order(p)
           PROVE  Paying(p)'
    <2>1. Order(p) \in Orders /\ Owns(p, Order(p))
      BY <1>goes, <1>ord DEF Placed, Placing, Owns
    <2>2. state[Order(p)] # "none"
      BY <2>1 DEF OwnInv
    <2>3. \A o \in Orders : Movements("fill", o)' = Movements("fill", o)
      BY <1>0, <1>goes, MovementOf DEF Placed
    <2>4. QED
      BY <1>0, <1>goes, <2>1, <2>2, <2>3, PayingKept DEF Placed, Filling, Recorded, Explained
  <1>1. CASE \E o \in Orders, cost \in Costs : Places(p, o, cost)
    <2>1. request'[p].at = "insert"
      BY <1>0, <1>1 DEF Places, Begins, Requested, Idle
    <2>2. QED
      BY <1>none, <2>1 DEF Placed, Filling
  <1>2. CASE InsertsOrder(p)
    <2>. DEFINE step == IF Order(p) \notin Limit THEN "fund"
                        ELSE IF Reserve[Order(p)] > 0 THEN "reserve" ELSE "accept"
    <2>1. request[p].at = "insert" /\ Order(p) \in Orders /\ state[Order(p)] = "none"
      BY <1>2, <1>ord DEF InsertsOrder, InsertOrder, UpdateOrder, At, Placing
    <2>2. \A o \in Orders : o = Order(p) => Movements("fill", o)' = {}
      <3>1. \A o \in Orders : o = Order(p) => Movements("fill", o) = {}
        BY <2>1 DEF PayInv
      <3>2. QED
        BY <1>0, <2>1, <3>1, MovementOf
    <2>3. request'[p].at = step /\ Order(p)' = Order(p)
      BY <1>0, <1>2, GotoField DEF InsertsOrder
    <2>4. request'[p].at \in {"fund", "reserve", "accept"}
      BY <2>3
    <2>5. QED
      BY <2>1, <2>2, <2>3, <2>4 DEF Paying, Filling, Recorded, Explained
  <1>3. CASE FindsOrder(p) \/ Accepts(p)
    BY <1>3, <1>ends DEF FindsOrder, Accepts
  <1>4. CASE Funds(p)
    <2>1. CASE request' = [request EXCEPT ![p].at = "price", ![p].attempt = 1]
      <3>1. request' = [request EXCEPT ![p] = [request[p] EXCEPT !.at = "price", !.attempt = 1]]
        BY <2>1 DEF TypeInv, TypeOK
      <3>2. request'[p].at = "price" /\ Order(p)' = Order(p)
        BY <1>0, <3>1 DEF Requested, Requests, Order
      <3>3. QED
        BY <1>4, <1>goes, <3>2 DEF Funds, At, Placed
    <2>2. QED
      BY <1>4, <1>ends, <2>1 DEF Funds
  <1>5. CASE Reserves(p)
    <2>1. CASE ReadsAccount(p, "lock")
      BY <1>0, <1>5, <1>goes, <2>1, ReadsField DEF Reserves, At, Placed
    <2>2. QED
      BY <1>5, <1>ends, <2>1 DEF Reserves
  <1>6. CASE Locks(p)
    BY <1>0, <1>6, <1>goes, MovesField DEF Locks, At, Placed
  <1>7. CASE RecordsLock(p)
    BY <1>0, <1>7, <1>goes, GotoField DEF RecordsLock, At, Placed
  <1>8. QED
    BY <1>1, <1>2, <1>3, <1>4, <1>5, <1>6, <1>7 DEF PlaceOrder

LEMMA ExecuteFillPaying ==
    ASSUME TypeInv, OwnInv, PayInv, NEW p \in Processes, ExecuteFill(p)
    PROVE  Paying(p)'
  <1>0. TypeOK /\ Requested /\ Ready(p) /\ Step(p) /\ Paying(p) /\ Grows
    BY TypeInvStep DEF TypeInv, TypeOK, Requested, PayInv, Step, Advance
  <1>ord. request[p].at \in Filling => Order(p) \in Orders /\ state[Order(p)] # "none"
    BY <1>0 DEF Ready, Order, Paying
  <1>none. ASSUME request'[p].at \notin Placed \cup Filling PROVE Paying(p)'
    BY <1>none DEF Paying, Placed, Filling, Recorded, Explained
  <1>ends. CASE Ends(p)
    BY <1>0, <1>ends, <1>none, EndsField DEF Placed, Filling
  <1>goes. ASSUME request[p].at \in Filling, request[p].at \notin {"pay", "payRow"},
                  request'[p].at \in Filling, Order(p)' = Order(p),
                  request'[p].at \in Recorded => request[p].at \in Recorded,
                  request'[p].at \in Explained => request[p].at \in Explained,
                  request'[p].at # "pay"
           PROVE  Paying(p)'
    <2>1. \A o \in Orders : Movements("fill", o)' = Movements("fill", o)
      BY <1>0, <1>goes, MovementOf
    <2>2. QED
      BY <1>0, <1>ord, <1>goes, <2>1, PayingKept
  <1>retries. ASSUME Retries(p), request[p].at \in {"check", "pay", "hold", "settle"},
                     UNCHANGED book
              PROVE  Paying(p)'
    <2>1. CASE request'[p] = Idle
      BY <1>none, <2>1 DEF Idle, Placed, Filling
    <2>2. CASE request'[p].at = "price" /\ Order(p)' = Order(p)
      <3>1. \A o \in Orders : Movements("fill", o)' = Movements("fill", o)
        BY <1>retries, BookStands DEF Stands, Causes
      <3>2. request[p].at \in Filling
        BY <1>retries DEF Filling
      <3>3. QED
        BY <1>0, <1>ord, <1>retries, <2>2, <3>1, <3>2, PayingKept
           DEF Placed, Filling, Recorded, Explained
    <2>3. QED
      BY <1>0, <1>retries, <2>1, <2>2, RetriesEffect DEF Order
  <1>1. CASE \E o \in Orders, cost \in Costs : Matches(p, o, cost)
    <2>1. PICK o \in Limit : state[o] = "ACCEPTED" /\ state' = state
                             /\ request'[p].at = "price" /\ Order(p)' = o
      BY <1>0, <1>1 DEF Matches, Begins, Requested, Idle, Order, tables
    <2>2. QED
      BY <2>1 DEF Paying, Recorded, Explained
  <1>2. CASE Prices(p)
    <2>1. CASE ReadsAccount(p, "check")
      BY <1>0, <1>2, <1>goes, <2>1, ReadsField DEF Prices, At, Filling, Recorded, Explained
    <2>2. CASE Goto(p, "reject")
      BY <1>0, <1>2, <1>goes, <2>2, GotoField DEF Prices, At, Filling, Recorded, Explained
    <2>3. QED
      BY <1>2, <1>ends, <2>1, <2>2 DEF Prices
  <1>3. CASE Rejects(p) \/ FindsFill(p) \/ Settles(p)
    BY <1>3, <1>ends DEF Rejects, FindsFill, Settles
  <1>4. CASE Checks(p)
    <2>1. CASE Retries(p)
      BY <1>4, <1>retries, <2>1 DEF Checks, At, tables
    <2>2. CASE Goto(p, "fill") \/ Goto(p, "look")
      BY <1>0, <1>4, <1>goes, <2>2, GotoField DEF Checks, At, Filling, Recorded, Explained
    <2>3. QED
      BY <1>4, <2>1, <2>2 DEF Checks
  <1>5. CASE Looks(p)
    <2>1. CASE Goto(p, "fill")
      BY <1>0, <1>5, <1>goes, <2>1, GotoField DEF Looks, At, Filling, Recorded, Explained
    <2>2. CASE Order(p) \in fills /\ ~IsSettled(Order(p)) /\ Goto(p, "pay")
      <3>1. /\ request[p].at = "look" /\ UNCHANGED <<state, fills>>
            /\ request'[p].at = "pay" /\ Order(p)' = Order(p)
            /\ Order(p) \in Orders /\ state[Order(p)] # "none"
        BY <1>0, <1>5, <1>ord, <2>2, GotoField DEF Looks, At, Filling, tables
      <3>2. \A o \in Orders : Movements("fill", o)' = Movements("fill", o)
        BY <1>0, <3>1, MovementOf
      <3>3. Order(p) \notin Limit => Movements("fill", Order(p)) = {}
        BY <1>0, <2>2, <3>1 DEF Paying, Filling
      <3>4. QED
        BY <2>2, <3>1, <3>2, <3>3 DEF Paying, Explained
    <2>3. QED
      BY <1>5, <1>ends, <2>1, <2>2 DEF Looks
  <1>6. CASE InsertsFill(p)
    <2>1. /\ request[p].at = "fill" /\ state' = state /\ fills' = fills \cup {Order(p)}
          /\ Order(p) \notin fills
          /\ request'[p].at = "pay" /\ Order(p)' = Order(p)
          /\ Order(p) \in Orders /\ state[Order(p)] # "none"
      BY <1>0, <1>6, <1>ord, GotoField DEF InsertsFill, InsertFill, At, Filling
    <2>2. \A o \in Orders : Movements("fill", o)' = Movements("fill", o)
      BY <1>0, <2>1, MovementOf
    <2>3. Movements("fill", Order(p)) = {}
      BY <2>1 DEF PayInv
    <2>4. QED
      BY <2>1, <2>2, <2>3 DEF Paying, Explained
  <1>7. CASE Pays(p)
    <2>1. /\ request[p].at = "pay" /\ UNCHANGED <<state, fills>>
          /\ request'[p].at = "payRow" /\ Order(p)' = Order(p)
          /\ Order(p) \in Orders /\ state[Order(p)] # "none"
      BY <1>0, <1>7, <1>ord, MovesField DEF Pays, Moves, At, Filling
    <2>2. QED
      BY <1>0, <2>1 DEF Paying, Explained, Recorded
  <1>8. CASE RecordsFill(p)
    <2>1. /\ request[p].at = "payRow" /\ UNCHANGED <<state, fills>>
          /\ request'[p].at = "select" /\ Order(p)' = Order(p)
          /\ Order(p) \in Orders /\ state[Order(p)] # "none"
          /\ Records(p, Order(p))
      BY <1>0, <1>8, <1>ord, GotoField DEF RecordsFill, Records, At, Filling
    <2>2. \A o \in Orders : o = Order(p) => IsSettled(o)'
      <3>. DEFINE q == request[p]
                  row == [at |-> q.wrote,
                          available |-> book[q.wrote].available - book[q.seen].available,
                          locked |-> book[q.wrote].locked - book[q.seen].locked,
                          fill |-> Order(p)]
      <3>1. row \in ledger' /\ row.fill = Order(p)
        BY <2>1 DEF Records, InsertBalanceEvent
      <3>2. QED
        BY <3>1 DEF IsSettled
    <2>3. QED
      BY <1>0, <2>1, <2>2 DEF Paying, Recorded
  <1>9. CASE SelectsPosition(p)
    <2>1. request' = [request EXCEPT ![p] = [request[p] EXCEPT !.at = "hold", !.place = position]]
      BY <1>9 DEF SelectsPosition, TypeInv, TypeOK
    <2>2. request'[p].at = "hold" /\ Order(p)' = Order(p)
      BY <1>0, <2>1 DEF Requested, Requests, Order
    <2>3. QED
      BY <1>9, <1>goes, <2>2 DEF SelectsPosition, At, Filling, Recorded, Explained
  <1>10. CASE Holds(p)
    BY <1>0, <1>10, <1>goes, GotoField DEF Holds, At, Filling, Recorded, Explained
  <1>11. CASE LosesRace(p)
    BY <1>11, <1>retries DEF LosesRace, At, tables
  <1>12. QED
    BY <1>1, <1>2, <1>3, <1>4, <1>5, <1>6, <1>7, <1>8, <1>9, <1>10, <1>11 DEF ExecuteFill

LEMMA StepPaying ==
    ASSUME TypeInv, OwnInv, PayInv, NEW p \in Processes, Step(p), NEW q \in Processes
    PROVE  Paying(q)'
  <1>0. TypeOK /\ Requested /\ Ready(q) /\ Paying(q) /\ Grows
    BY TypeInvStep DEF TypeInv, TypeOK, Requested, PayInv, Advance
  <1>1. CASE q = p /\ (PlaceOrder(p) \/ ExecuteFill(p))
    BY <1>1, PlaceOrderPaying, ExecuteFillPaying
  <1>2. CASE q = p /\ (CancelOrder(p) \/ ResetAccount(p) \/ Aborts(p))
    <2>1. request'[p].at \in Elsewhere
      BY <1>0, <1>2, CancelOrderElsewhere, ResetAccountElsewhere, EndsField
         DEF Aborts, Elsewhere
    <2>2. QED
      BY <1>2, <2>1 DEF Elsewhere, Cancelling, Resetting, Paying, Placed, Filling, Recorded,
                        Explained
  <1>3. CASE q # p
    <2>1. request'[q] = request[q] /\ Order(q)' = Order(q)
      BY <1>3, TypeInvStep DEF Advance, Others, Order
    <2>2. CASE request[q].at \in Placed \cup Filling
      <3>1. Order(q) \in Orders
        BY <1>0, <2>2 DEF Ready, Order, Placing, Placed
      <3>2. \A o \in Orders : o = Order(q) /\ o \notin Limit =>
                Movements("fill", o)' = Movements("fill", o)
        <4>1. SUFFICES ASSUME NEW o \in Orders, o = Order(q), o \notin Limit
                       PROVE  Movements("fill", o)' = Movements("fill", o)
          OBVIOUS
        <4>2. Owns(q, o)
          BY <2>2, <4>1 DEF Owns
        <4>3. ~Owns(p, o)
          BY <1>3, <4>2 DEF OwnInv
        <4>4. ~(request[p].at = "pay" /\ Order(p) = o)
          BY <4>1, <4>3 DEF Owns, Filling
        <4>5. QED
          BY <1>0, <4>4, MovementOf
      <3>3. /\ \A o \in Orders : state[o] # "none" => state'[o] # "none"
            /\ \A o \in Orders : IsSettled(o) => IsSettled(o)'
            /\ fills \subseteq fills'
        BY <1>0, SettledStays DEF Grows
      <3>4. QED
        BY <1>0, <2>1, <3>1, <3>2, <3>3 DEF Paying
    <2>3. CASE request[q].at \notin Placed \cup Filling
      BY <2>1, <2>3 DEF Paying, Placed, Filling, Recorded, Explained
    <2>4. QED
      BY <2>2, <2>3
  <1>4. QED
    BY <1>1, <1>2, <1>3 DEF Step

LEMMA FillsStep ==
    ASSUME TypeOK, NEW p \in Processes, Ready(p), Step(p)
    PROVE  \/ fills' = fills
           \/ /\ request[p].at = "fill" /\ Order(p) \in Orders
              /\ fills' = fills \cup {Order(p)}
  <1>1. CASE InsertsFill(p)
    BY <1>1 DEF InsertsFill, InsertFill, At, Ready, Order, Filling
  <1>2. CASE ~InsertsFill(p)
    <2>1. CASE PlaceOrder(p)
      BY <2>1
         DEF PlaceOrder, Places, InsertsOrder, FindsOrder, Funds, Reserves, Locks, Moves,
             RecordsLock, Records, Accepts, tables
    <2>2. CASE ExecuteFill(p)
      BY <1>2, <2>2
         DEF ExecuteFill, Matches, Prices, Rejects, Checks, Looks, FindsFill, Pays, Moves,
             RecordsFill, Records, SelectsPosition, Holds, Settles, LosesRace, tables
    <2>3. CASE CancelOrder(p)
      BY <2>3
         DEF CancelOrder, Cancels, Releases, Unlocks, Moves, RecordsUnlock, Records,
             CancelsOrder, tables
    <2>4. CASE ResetAccount(p)
      BY <2>4
         DEF ResetAccount, Resets, Clears, Closes, Zeroes, ResetsAccount, Moves, RecordsReset,
             Records, tables
    <2>5. CASE Aborts(p)
      BY <2>5 DEF Aborts, tables
    <2>6. QED
      BY <2>1, <2>2, <2>3, <2>4, <2>5 DEF Step
  <1>3. QED
    BY <1>1, <1>2

LEMMA PayStep ==
    ASSUME TypeInv, OwnInv, PayInv, NEW p \in Processes, Step(p)
    PROVE  PayInv'
  <1>0. TypeOK /\ Ready(p) /\ Paying(p) /\ Grows
    BY TypeInvStep DEF TypeInv, PayInv, Advance
  <1>ord. request[p].at \in Filling => Order(p) \in Orders
    BY <1>0 DEF Ready, Order
  <1>1. \A q \in Processes : Paying(q)'
    BY StepPaying
  <1>2. ASSUME NEW o \in Orders, Movements("fill", o)' # {} PROVE o \in fills'
    <2>1. o \in fills
      BY <1>0, <1>2, MovementOf DEF PayInv, Paying, Recorded
    <2>2. QED
      BY <1>0, <2>1 DEF Grows
  <1>3. ASSUME NEW o \in Orders, o \in fills' PROVE state'[o] # "none"
    <2>1. state[o] # "none"
      BY <1>0, <1>3, FillsStep DEF PayInv, Paying, Filling
    <2>2. QED
      BY <1>0, <2>1 DEF Grows
  <1>4. MarketPaidOnce'
    <2>1. ASSUME NEW o \in Orders \ Limit,
                 NEW v \in Movements("fill", o)', NEW w \in Movements("fill", o)'
          PROVE  v = w
      <3>1. CASE request[p].at = "pay" /\ Order(p) = o
        <4>1. Movements("fill", o) = {}
          BY <1>0, <3>1 DEF Paying
        <4>2. QED
          BY <1>0, <2>1, <4>1, MovementOf
      <3>2. CASE ~(request[p].at = "pay" /\ Order(p) = o)
        BY <1>0, <2>1, <3>2, MovementOf DEF PayInv, MarketPaidOnce
      <3>3. QED
        BY <3>1, <3>2
    <2>2. QED
      BY <2>1 DEF MarketPaidOnce
  <1>5. FilledIsSettled'
    <2>1. ASSUME NEW o \in Orders, state'[o] = "FILLED"
          PROVE  o \in fills /\ IsSettled(o)
      <3>1. Transition(p, o)
        BY <1>0, StepTransitions
      <3>2. CASE state[o] = "FILLED"
        BY <3>2 DEF PayInv, FilledIsSettled
      <3>3. CASE o = Order(p) /\ request[p].at = "settle"
        BY <1>0, <3>3 DEF Paying, Recorded, Explained
      <3>4. QED
        BY <2>1, <3>1, <3>2, <3>3 DEF Transition
    <2>2. QED
      BY <1>0, <2>1, SettledStays DEF FilledIsSettled, Grows
  <1>6. QED
    BY <1>1, <1>2, <1>3, <1>4, <1>5 DEF PayInv

LEMMA PayInvInvariant == Spec => []PayInv
  <1>1. Init => PayInv
    BY DEF Init, TablesInit, PayInv, Paying, Idle, Movements, MarketPaidOnce, FilledIsSettled,
           Placed, Filling, Recorded, Explained
  <1>2. TypeInv /\ OwnInv /\ PayInv /\ UNCHANGED vars => PayInv'
    BY DEF PayInv, Paying, Order, Movements, IsSettled, MarketPaidOnce, FilledIsSettled,
           vars, tables
  <1>3. TypeInv /\ OwnInv /\ PayInv /\ [Next]_vars => PayInv'
    BY <1>2, PayStep, NextStep
  <1>4. QED
    BY <1>1, <1>3, OwnInvInvariant, PTL DEF Spec

\* Whatever a market order's attempts meet - a conflict before or after the
\* money moved, an adopted fill row, another call with the same intent - it is
\* paid for at most once.
THEOREM MarketPaysOnce == Spec => []MarketPaidOnce
  <1>1. PayInv => MarketPaidOnce
    BY DEF PayInv
  <1>2. QED
    BY <1>1, PayInvInvariant, PTL

\* An order is FILLED only with its fill row and the ledger row that settles it.
THEOREM FillsSettle == Spec => []FilledIsSettled
  <1>1. PayInv => FilledIsSettled
    BY DEF PayInv
  <1>2. QED
    BY <1>1, PayInvInvariant, PTL

-----------------------------------------------------------------------------
(* The account as atomic operations: what a call may do to the money of its *)
(* order follows from how it came to the statement it is at.                *)

Beyond == {"FILLED", "CANCELLED", "REJECTED", "ACCEPTED"}

Backing(p) ==
    LET o == Order(p) IN
    /\ request[p].at \in Placed => state[o] = "CREATED"
    /\ request[p].at \in {"reserve", "lock"} => o \in Limit
    /\ request[p].at \in Filling \cup Cancelling =>
         /\ state[o] \in Beyond
         /\ Reserve[o] > 0 => Movements("lock", o) # {}
    /\ request[p].at = "reject" => o \notin Limit
    /\ request[p].at \in {"release", "unlock"} => Reserve[o] > 0
    /\ request[p].at = "payRow" => Movements("fill", o) # {}

AccountInv ==
    /\ \A p \in Processes : Backing(p)
    /\ \A o \in Orders : IsSettled(o) => Movements("fill", o) # {}

\* How a call comes to its next statement.
Stays(p) == Order(p)' = Order(p)

Enters(p) ==
    /\ Stays(p)
    /\ request[p].at = "insert"
    /\ state'[Order(p)] = "CREATED"
    /\ \/ request'[p].at \in {"fund", "accept"}
       \/ request'[p].at = "reserve" /\ Order(p) \in Limit

Proceeds(p) ==
    /\ Stays(p)
    /\ state' = state
    /\ request[p].at \in Placed
    /\ request'[p].at \in {"lock", "lockRow", "accept"}
    /\ request'[p].at = "lock" => request[p].at = "reserve"

Executes(p) ==
    /\ Stays(p)
    /\ \/ request[p].at \in Filling
       \/ request[p].at = "fund" /\ state'[Order(p)] = "ACCEPTED"
    /\ request'[p].at \in Filling
    /\ request'[p].at = "reject" => Order(p) \notin Limit
    /\ request'[p].at = "payRow" => request[p].at = "pay"

Undoes(p) ==
    /\ Stays(p)
    /\ request[p].at \in Cancelling
    /\ request'[p].at \in Cancelling
    /\ request'[p].at \in {"release", "unlock"} => request[p].at \in {"release", "unlock"}

TakesUp(p) ==
    /\ UNCHANGED <<state, book>>
    /\ Order(p)' \in Orders
    /\ state[Order(p)'] = "ACCEPTED"
    /\ request'[p].at \in {"price", "release", "cancel"}
    /\ request'[p].at = "release" => Reserve[Order(p)'] > 0

Leaves(p) == request'[p].at \in {"idle", "insert"} \cup Resetting

Route(p) == Enters(p) \/ Proceeds(p) \/ Executes(p) \/ Undoes(p) \/ TakesUp(p) \/ Leaves(p)

LEMMA EndsRoute == ASSUME TypeOK, NEW p \in Processes, Ends(p) PROVE Route(p)
  BY EndsField DEF TypeOK, Requested, Route, Leaves

LEMMA PlaceOrderRoute ==
    ASSUME TypeOK, NEW p \in Processes, Ready(p), Reserving(p), PlaceOrder(p)
    PROVE  Route(p)
  <1>0. Requested
    BY DEF TypeOK, Requested
  <1>ord. request[p].at \in Placing => Order(p) \in Orders
    BY DEF Ready, Order
  <1>1. CASE \E o \in Orders, cost \in Costs : Places(p, o, cost)
    BY <1>0, <1>1 DEF Places, Begins, Requested, Idle, Route, Leaves
  <1>2. CASE InsertsOrder(p)
    <2>. DEFINE step == IF Order(p) \notin Limit THEN "fund"
                        ELSE IF Reserve[Order(p)] > 0 THEN "reserve" ELSE "accept"
    <2>1. request[p].at = "insert" /\ Order(p) \in Orders
      BY <1>2, <1>ord DEF InsertsOrder, At, Placing
    <2>2. state'[Order(p)] = "CREATED"
      BY <1>2, <2>1 DEF InsertsOrder, InsertOrder, UpdateOrder, TypeOK, TablesTypeOK
    <2>3. request'[p].at = step /\ Order(p)' = Order(p)
      BY <1>0, <1>2, GotoField DEF InsertsOrder
    <2>4. QED
      BY <2>1, <2>2, <2>3 DEF Route, Enters, Stays
  <1>3. CASE FindsOrder(p) \/ Accepts(p)
    BY <1>3, EndsRoute DEF FindsOrder, Accepts
  <1>4. CASE Funds(p)
    <2>1. CASE Ends(p)
      BY <2>1, EndsRoute
    <2>2. CASE /\ UpdateOrder(Order(p), "CREATED", "ACCEPTED")
               /\ request' = [request EXCEPT ![p].at = "price", ![p].attempt = 1]
      <3>1. request' = [request EXCEPT ![p] = [request[p] EXCEPT !.at = "price", !.attempt = 1]]
        BY <2>2 DEF TypeOK
      <3>2. request'[p].at = "price" /\ Order(p)' = Order(p)
        BY <3>1 DEF TypeOK, Requests, Order
      <3>3. request[p].at = "fund" /\ Order(p) \in Orders
        BY <1>4, <1>ord DEF Funds, At, Placing
      <3>4. state'[Order(p)] = "ACCEPTED"
        BY <2>2, <3>3 DEF UpdateOrder, TypeOK, TablesTypeOK
      <3>5. QED
        BY <3>2, <3>3, <3>4 DEF Route, Executes, Stays, Filling
    <2>3. QED
      BY <1>4, <2>1, <2>2 DEF Funds
  <1>5. CASE Reserves(p)
    <2>1. CASE Ends(p)
      BY <2>1, EndsRoute
    <2>2. CASE ReadsAccount(p, "lock")
      BY <1>0, <1>5, <2>2, ReadsField DEF Reserves, At, Placed, Route, Proceeds, Stays, tables
    <2>3. QED
      BY <1>5, <2>1, <2>2 DEF Reserves
  <1>6. CASE Locks(p)
    <2>1. request[p].at = "lock" /\ state' = state
      BY <1>6 DEF Locks, Moves, At
    <2>2. request'[p].at = "lockRow" /\ Order(p)' = Order(p)
      BY <1>0, <1>6, MovesField DEF Locks
    <2>3. QED
      BY <2>1, <2>2 DEF Placed, Route, Proceeds, Stays
  <1>7. CASE RecordsLock(p)
    BY <1>0, <1>7, GotoField DEF RecordsLock, Records, At, Placed, Route, Proceeds, Stays
  <1>8. QED
    BY <1>1, <1>2, <1>3, <1>4, <1>5, <1>6, <1>7 DEF PlaceOrder

LEMMA ExecuteFillRoute ==
    ASSUME TypeOK, NEW p \in Processes, ExecuteFill(p)
    PROVE  Route(p)
  <1>0. Requested
    BY DEF TypeOK, Requested
  <1>goto. ASSUME NEW step \in Filling \ {"reject", "payRow"}, Goto(p, step),
                  request[p].at \in Filling
           PROVE  Route(p)
    BY <1>0, <1>goto, GotoField DEF Route, Executes, Stays
  <1>retries. ASSUME Retries(p), request[p].at \in Filling
              PROVE  Route(p)
    <2>1. CASE request'[p] = Idle
      BY <2>1 DEF Idle, Route, Leaves
    <2>2. CASE request'[p].at = "price" /\ request'[p].order = request[p].order
      BY <1>retries, <2>2 DEF Filling, Route, Executes, Stays, Order
    <2>3. QED
      BY <1>0, <1>retries, <2>1, <2>2, RetriesEffect
  <1>1. CASE \E o \in Orders, cost \in Costs : Matches(p, o, cost)
    <2>1. PICK o \in Limit : state[o] = "ACCEPTED" /\ UNCHANGED <<state, book>>
                             /\ request'[p].at = "price" /\ Order(p)' = o
      BY <1>0, <1>1 DEF Matches, Begins, Requested, Idle, Order, tables
    <2>2. QED
      BY <2>1 DEF Route, TakesUp
  <1>2. CASE Prices(p)
    <2>1. CASE ReadsAccount(p, "check")
      BY <1>0, <1>2, <2>1, ReadsField DEF Prices, At, Filling, Route, Executes, Stays
    <2>2. CASE Goto(p, "reject") /\ Order(p) \notin Limit
      BY <1>0, <1>2, <2>2, GotoField DEF Prices, At, Filling, Route, Executes, Stays
    <2>3. CASE Ends(p)
      BY <2>3, EndsRoute
    <2>4. QED
      BY <1>2, <2>1, <2>2, <2>3 DEF Prices
  <1>3. CASE Rejects(p) \/ FindsFill(p) \/ Settles(p)
    BY <1>3, EndsRoute DEF Rejects, FindsFill, Settles
  <1>4. CASE Checks(p)
    BY <1>4, <1>goto, <1>retries DEF Checks, At, Filling
  <1>5. CASE Looks(p)
    BY <1>5, <1>goto, EndsRoute DEF Looks, At, Filling
  <1>6. CASE InsertsFill(p) \/ Holds(p)
    BY <1>6, <1>goto DEF InsertsFill, Holds, At, Filling
  <1>7. CASE RecordsFill(p)
    BY <1>7, <1>goto DEF RecordsFill, At, Filling
  <1>8. CASE Pays(p)
    BY <1>0, <1>8, MovesField DEF Pays, At, Filling, Route, Executes, Stays
  <1>9. CASE SelectsPosition(p)
    <2>1. request' = [request EXCEPT ![p] = [request[p] EXCEPT !.at = "hold", !.place = position]]
      BY <1>9 DEF SelectsPosition, TypeOK
    <2>2. request'[p].at = "hold" /\ Order(p)' = Order(p)
      BY <2>1 DEF TypeOK, Requests, Order
    <2>3. QED
      BY <1>9, <2>2 DEF SelectsPosition, At, Filling, Route, Executes, Stays
  <1>10. CASE LosesRace(p)
    BY <1>10, <1>retries DEF LosesRace, At, Filling
  <1>11. QED
    BY <1>1, <1>2, <1>3, <1>4, <1>5, <1>6, <1>7, <1>8, <1>9, <1>10 DEF ExecuteFill

LEMMA CancelOrderRoute ==
    ASSUME TypeOK, NEW p \in Processes, CancelOrder(p)
    PROVE  Route(p)
  <1>0. Requested
    BY DEF TypeOK, Requested
  <1>1. CASE \E o \in Orders : Cancels(p, o)
    <2>1. PICK o \in Orders : Cancels(p, o)
      BY <1>1
    <2>. DEFINE step == IF Reserve[o] > 0 THEN "release" ELSE "cancel"
    <2>2. /\ state[o] = "ACCEPTED" /\ UNCHANGED <<state, book>>
          /\ request'[p].at = step /\ Order(p)' = o
      BY <1>0, <2>1 DEF Cancels, Begins, Requested, Idle, Order, tables
    <2>3. QED
      BY <2>2 DEF Route, TakesUp
  <1>2. CASE Releases(p)
    BY <1>0, <1>2, ReadsField DEF Releases, At, Cancelling, Route, Undoes, Stays
  <1>3. CASE Unlocks(p)
    BY <1>0, <1>3, MovesField DEF Unlocks, At, Cancelling, Route, Undoes, Stays
  <1>4. CASE RecordsUnlock(p)
    BY <1>0, <1>4, GotoField DEF RecordsUnlock, At, Cancelling, Route, Undoes, Stays
  <1>5. CASE CancelsOrder(p)
    BY <1>5, EndsRoute DEF CancelsOrder
  <1>6. QED
    BY <1>1, <1>2, <1>3, <1>4, <1>5 DEF CancelOrder

LEMMA ResetAccountLeaves ==
    ASSUME TypeOK, NEW p \in Processes, ResetAccount(p)
    PROVE  Route(p)
  <1>0. Requested
    BY DEF TypeOK, Requested
  <1>1. CASE Resets(p)
    BY <1>0, <1>1 DEF Resets, Begins, Requested, Idle, Resetting, Route, Leaves
  <1>2. CASE \E o \in Orders : Clears(p, o)
    <2>1. request' = [request EXCEPT ![p] = [request[p] EXCEPT !.todo = request'[p].todo]]
          /\ request[p].at = "clear"
      BY <1>2 DEF Clears, At, TypeOK, Requests
    <2>2. QED
      BY <2>1 DEF TypeOK, Requests, Resetting, Route, Leaves
  <1>3. CASE Closes(p) \/ RecordsReset(p)
    BY <1>0, <1>3, GotoField, EndsField DEF Closes, RecordsReset, Resetting, Route, Leaves
  <1>4. CASE Zeroes(p)
    BY <1>0, <1>4, ReadsField DEF Zeroes, Resetting, Route, Leaves
  <1>5. CASE ResetsAccount(p)
    BY <1>0, <1>5, MovesField DEF ResetsAccount, Resetting, Route, Leaves
  <1>6. QED
    BY <1>1, <1>2, <1>3, <1>4, <1>5 DEF ResetAccount

LEMMA StepRoute ==
    ASSUME TypeOK, NEW p \in Processes, Ready(p), Reserving(p), Step(p)
    PROVE  Route(p)
  BY PlaceOrderRoute, ExecuteFillRoute, CancelOrderRoute, ResetAccountLeaves, EndsRoute
     DEF Step, Aborts

\* Nobody but the call that places an order takes it on from CREATED, and an
\* order that is on the book, or was, stays so.
LEMMA StateStays ==
    ASSUME TypeOK, NEW p \in Processes, Ready(p), Step(p), NEW o \in Orders
    PROVE  /\ state[o] \in Beyond => state'[o] \in Beyond
           /\ state[o] = "CREATED" /\ ~Owns(p, o) => state'[o] = "CREATED"
  <1>1. Transition(p, o)
    BY StepTransitions
  <1>2. o = Order(p) /\ request[p].at \in {"fund", "accept"} => Owns(p, o)
    BY DEF Owns, Placed
  <1>3. QED
    BY <1>1, <1>2 DEF Transition, Beyond

\* From "pay" a call comes to "payRow" only by moving the money.
LEMMA PayOnlyPays ==
    ASSUME TypeOK, NEW p \in Processes, Step(p), request[p].at = "pay",
           request'[p].at = "payRow"
    PROVE  Pays(p)
  <1>0. Requested
    BY DEF TypeOK, Requested
  <1>1. ~Ends(p)
    BY <1>0, EndsField
  <1>2. ~PlaceOrder(p) /\ ~CancelOrder(p) /\ ~ResetAccount(p) /\ ~Aborts(p)
    BY <1>1
       DEF PlaceOrder, Places, Begins, InsertsOrder, FindsOrder, Funds, Reserves, Locks,
           RecordsLock, Accepts, CancelOrder, Cancels, Releases, Unlocks, RecordsUnlock,
           CancelsOrder, ResetAccount, Resets, Clears, Closes, Zeroes, ResetsAccount,
           RecordsReset, Aborts, At
  <1>3. ~LosesRace(p)
    BY <1>0, RetriesEffect DEF LosesRace, Idle
  <1>4. QED
    BY <1>1, <1>2, <1>3
       DEF Step, ExecuteFill, Matches, Begins, Prices, Rejects, Checks, Looks, InsertsFill,
           FindsFill, RecordsFill, SelectsPosition, Holds, Settles, At

LEMMA StepBacking ==
    ASSUME TypeInv, OwnInv, ReserveInv, PayInv, AccountInv,
           NEW p \in Processes, Step(p), NEW q \in Processes
    PROVE  Backing(q)'
  <1>0. TypeOK /\ Ready(p) /\ Ready(q) /\ Reserving(p) /\ Backing(p) /\ Backing(q)
    BY DEF TypeInv, ReserveInv, AccountInv
  <1>ord. \A r \in {p, q} :
            request[r].at \in Placed \cup Filling \cup Cancelling \cup {"insert"}
                => Order(r) \in Orders
    BY <1>0 DEF Ready, Order, Placing, Placed
  <1>grow. \A o \in Orders : /\ Movements("lock", o) \subseteq Movements("lock", o)'
                             /\ Movements("fill", o) \subseteq Movements("fill", o)'
    BY <1>0, MovementsGrow DEF Causes
  <1>names. /\ Placed \cap (Filling \cup Cancelling) = {}
            /\ Filling \cap Cancelling = {}
            /\ {"idle", "insert"} \cup Resetting \subseteq
                   Steps \ (Placed \cup Filling \cup Cancelling)
            /\ {"fund", "accept", "reserve", "lock", "lockRow"} \subseteq Placed
            /\ {"price", "reject", "pay", "payRow"} \subseteq Filling
            /\ {"release", "unlock", "cancel"} \subseteq Cancelling
    BY DEF Steps, Placed, Placing, Filling, Cancelling, Resetting
  <1>1. CASE q = p
    <2>0. Route(p)
      BY <1>0, StepRoute
    <2>1. CASE Enters(p)
      <3>1. Order(p) \in Orders
        BY <1>ord, <2>1 DEF Enters
      <3>2. request'[p].at \in Placed /\ request'[p].at \notin Filling \cup Cancelling
        BY <1>names, <2>1 DEF Enters
      <3>3. QED
        BY <1>1, <1>names, <2>1, <3>2 DEF Enters, Stays, Backing
    <2>2. CASE Proceeds(p)
      <3>1. request'[p].at \in Placed /\ request'[p].at \notin Filling \cup Cancelling
        BY <1>names, <2>2 DEF Proceeds
      <3>2. state[Order(p)] = "CREATED" /\ (request[p].at = "reserve" => Order(p) \in Limit)
        BY <1>0, <2>2 DEF Proceeds, Backing
      <3>3. QED
        BY <1>1, <1>names, <2>2, <3>1, <3>2 DEF Proceeds, Stays, Backing
    <2>3. CASE Executes(p)
      <3>. DEFINE o == Order(p)
      <3>1. o \in Orders /\ request'[p].at \notin Placed \cup Cancelling
        BY <1>ord, <1>names, <2>3 DEF Executes
      <3>2. state'[o] \in Beyond
        BY <1>0, <2>3, <3>1, StateStays DEF Executes, Backing, Beyond
      <3>3. Reserve[o] > 0 => Movements("lock", o) # {}
        BY <1>0, <2>3, <3>1 DEF Executes, Backing, Reserving
      <3>4. request'[p].at = "payRow" => Movements("fill", o)' # {}
        <4>1. CASE Pays(p)
          <5>1. Adds(p, request[p].at, "fill", "payRow")
            BY <1>0, <4>1, MovesAdds DEF Pays, Causes
          <5>2. QED
            BY <3>1, <5>1 DEF Adds, Causes
        <4>2. CASE ~Pays(p)
          <5>1. request[p].at = "pay" => request'[p].at # "payRow"
            BY <1>0, <4>2, PayOnlyPays
          <5>2. QED
            BY <2>3, <5>1 DEF Executes
        <4>3. QED
          BY <4>1, <4>2
      <3>5. QED
        BY <1>1, <1>names, <1>grow, <2>3, <3>1, <3>2, <3>3, <3>4 DEF Executes, Stays, Backing
    <2>4. CASE Undoes(p)
      <3>. DEFINE o == Order(p)
      <3>1. o \in Orders /\ request'[p].at \notin Placed \cup Filling
        BY <1>ord, <1>names, <2>4 DEF Undoes
      <3>2. /\ state[o] \in Beyond
            /\ Reserve[o] > 0 => Movements("lock", o) # {}
            /\ request[p].at \in {"release", "unlock"} => Reserve[o] > 0
        BY <1>0, <2>4 DEF Undoes, Backing
      <3>3. state'[o] \in Beyond
        BY <1>0, <3>1, <3>2, StateStays
      <3>4. QED
        BY <1>1, <1>names, <1>grow, <2>4, <3>1, <3>2, <3>3 DEF Undoes, Stays, Backing
    <2>5. CASE TakesUp(p)
      <3>1. request'[p].at \notin Placed
        BY <1>names, <2>5 DEF TakesUp
      <3>2. \A o \in Orders : o = Order(p)' => state[o] = "ACCEPTED" /\ state'[o] \in Beyond
        BY <2>5 DEF TakesUp, Beyond
      <3>3. \A o \in Orders : o = Order(p)' /\ Reserve[o] > 0 => Movements("lock", o)' # {}
        BY <1>grow, <3>2 DEF ReserveInv, AcceptedIsReserved
      <3>4. QED
        BY <1>1, <1>names, <2>5, <3>1, <3>2, <3>3 DEF TakesUp, Backing
    <2>6. CASE Leaves(p)
      BY <1>1, <1>names, <2>6 DEF Leaves, Backing
    <2>7. QED
      BY <2>0, <2>1, <2>2, <2>3, <2>4, <2>5, <2>6 DEF Route
  <1>2. CASE q # p
    <2>1. request'[q] = request[q] /\ Order(q)' = Order(q)
      BY <1>2, TypeInvStep DEF Advance, Others, Order
    <2>. DEFINE o == Order(q)
    <2>2. CASE request[q].at \in Placed
      <3>1. o \in Orders /\ Owns(q, o)
        BY <1>ord, <2>2 DEF Owns
      <3>2. ~Owns(p, o)
        BY <1>2, <3>1 DEF OwnInv
      <3>3. state'[o] = "CREATED"
        BY <1>0, <2>2, <3>1, <3>2, StateStays DEF Backing
      <3>4. request[q].at \notin Filling \cup Cancelling
        BY <1>names, <2>2
      <3>5. QED
        BY <1>0, <1>names, <2>1, <3>3, <3>4 DEF Backing
    <2>3. CASE request[q].at \in Filling \cup Cancelling
      <3>1. o \in Orders /\ request[q].at \notin Placed
        BY <1>ord, <1>names, <2>3
      <3>2. state'[o] \in Beyond
        BY <1>0, <2>3, <3>1, StateStays DEF Backing
      <3>3. QED
        BY <1>0, <1>names, <1>grow, <2>1, <2>3, <3>1, <3>2 DEF Backing
    <2>4. CASE request[q].at \notin Placed \cup Filling \cup Cancelling
      BY <1>names, <2>1, <2>4 DEF Backing
    <2>5. QED
      BY <2>2, <2>3, <2>4
  <1>3. QED
    BY <1>1, <1>2

LEMMA StepSettled ==
    ASSUME TypeOK, NEW p \in Processes, Step(p), NEW o \in Orders, IsSettled(o)'
    PROVE  IsSettled(o) \/ (request[p].at = "payRow" /\ o = Order(p))
  <1>1. CASE ledger' = ledger
    BY <1>1 DEF IsSettled
  <1>records. ASSUME NEW fill, Records(p, fill)
              PROVE  IsSettled(o) \/ o = fill
    BY <1>records DEF Records, InsertBalanceEvent, IsSettled
  <1>2. CASE RecordsFill(p)
    BY <1>2, <1>records DEF RecordsFill, At
  <1>3. CASE RecordsLock(p) \/ RecordsUnlock(p) \/ RecordsReset(p)
    BY <1>3, <1>records DEF RecordsLock, RecordsUnlock, RecordsReset
  <1>4. CASE ~(RecordsFill(p) \/ RecordsLock(p) \/ RecordsUnlock(p) \/ RecordsReset(p))
    <2>1. CASE PlaceOrder(p)
      BY <1>1, <1>4, <2>1
         DEF PlaceOrder, Places, InsertsOrder, FindsOrder, Funds, Reserves, Locks, Moves,
             Accepts, tables
    <2>2. CASE ExecuteFill(p)
      BY <1>1, <1>4, <2>2
         DEF ExecuteFill, Matches, Prices, Rejects, Checks, Looks, InsertsFill, FindsFill,
             Pays, Moves, SelectsPosition, Holds, Settles, LosesRace, tables
    <2>3. CASE CancelOrder(p)
      BY <1>1, <1>4, <2>3 DEF CancelOrder, Cancels, Releases, Unlocks, Moves, CancelsOrder, tables
    <2>4. CASE ResetAccount(p)
      BY <1>1, <1>4, <2>4
         DEF ResetAccount, Resets, Clears, Closes, Zeroes, ResetsAccount, Moves, tables
    <2>5. CASE Aborts(p)
      BY <1>1, <2>5 DEF Aborts, tables
    <2>6. QED
      BY <2>1, <2>2, <2>3, <2>4, <2>5 DEF Step
  <1>5. QED
    BY <1>2, <1>3, <1>4

LEMMA AccountStep ==
    ASSUME TypeInv, OwnInv, ReserveInv, PayInv, AccountInv, NEW p \in Processes, Step(p)
    PROVE  AccountInv'
  <1>1. \A q \in Processes : Backing(q)'
    BY StepBacking
  <1>2. ASSUME NEW o \in Orders, IsSettled(o)' PROVE Movements("fill", o)' # {}
    <2>1. Movements("fill", o) \subseteq Movements("fill", o)'
      BY MovementsGrow DEF Causes, TypeInv
    <2>2. Movements("fill", o) # {}
      BY <1>2, StepSettled DEF AccountInv, Backing, TypeInv
    <2>3. QED
      BY <2>1, <2>2
  <1>3. QED
    BY <1>1, <1>2 DEF AccountInv

AtomicInv == TypeInv /\ OwnInv /\ ReserveInv /\ PayInv /\ AccountInv

LEMMA AtomicInvInvariant == Spec => []AtomicInv
  <1>1. Init => AccountInv
    <2>1. SUFFICES ASSUME Init PROVE AccountInv
      OBVIOUS
    <2>2. \A p \in Processes : request[p].at = "idle"
      BY <2>1 DEF Init, Idle
    <2>3. \A o \in Orders : ~IsSettled(o)
      BY <2>1 DEF Init, TablesInit, IsSettled
    <2>4. QED
      BY <2>2, <2>3 DEF AccountInv, Backing, Placed, Filling, Cancelling
  <1>2. AccountInv /\ UNCHANGED vars => AccountInv'
    BY DEF AccountInv, Backing, Order, Movements, IsSettled, vars, tables
  <1>3. TypeInv /\ OwnInv /\ ReserveInv /\ PayInv /\ AccountInv /\ [Next]_vars => AccountInv'
    BY <1>2, AccountStep, NextStep
  <1>4. QED
    BY <1>1, <1>3, OwnInvInvariant, ReserveInvInvariant, PayInvInvariant, PTL
       DEF Spec, AtomicInv

-----------------------------------------------------------------------------
(* The refinement, one lemma for each statement that moves the account.     *)

Locking == {o \in Orders : Movements("lock", o) # {}}
Paid == {o \in Orders : Movements("fill", o) # {}}

\* The row a movement was computed from is the row it replaces.
LEMMA MovesAccount ==
    ASSUME TypeOK, NEW p \in Processes, NEW after, NEW cause, NEW step,
           Moves(p, after, cause, step)
    PROVE  /\ book[request[p].seen] = Account
           /\ Account'.available = after.available
           /\ Account'.locked = after.locked
           /\ state' = state
  <1>. DEFINE image == [available |-> after.available, locked |-> after.locked,
                        cause |-> cause, order |-> Order(p)]
  <1>1. book' = Append(book, image) /\ request[p].seen = Version /\ state' = state
    BY DEF Moves, BumpVersion
  <1>2. book \in Seq(Images) /\ Version \in Nat
    BY BookFacts DEF TypeOK, TablesTypeOK
  <1>3. Account' = image
    BY <1>1, <1>2 DEF Account, Version
  <1>4. book[request[p].seen] = Account
    BY <1>1 DEF Account
  <1>5. Account'.available = after.available /\ Account'.locked = after.locked
    BY <1>3
  <1>6. QED
    BY <1>1, <1>4, <1>5

LEMMA AddsSets ==
    ASSUME NEW p \in Processes, NEW from, NEW cause \in Causes, NEW to,
           Adds(p, from, cause, to), Order(p) \in Orders
    PROVE  /\ Locking' = IF cause = "lock" THEN Locking \cup {Order(p)} ELSE Locking
           /\ Paid' = IF cause = "fill" THEN Paid \cup {Order(p)} ELSE Paid
  <1>1. \A o \in Orders :
          /\ Movements("lock", o)' = IF cause = "lock" /\ o = Order(p)
                                     THEN Movements("lock", o) \cup {Version + 1}
                                     ELSE Movements("lock", o)
          /\ Movements("fill", o)' = IF cause = "fill" /\ o = Order(p)
                                     THEN Movements("fill", o) \cup {Version + 1}
                                     ELSE Movements("fill", o)
    BY DEF Adds, Causes
  <1>2. QED
    BY <1>1 DEF Locking, Paid

LEMMA BookStandsSets ==
    ASSUME UNCHANGED book
    PROVE  UNCHANGED <<Account, Locking, Paid>>
  BY DEF Account, Version, Locking, Paid, Movements

LEMMA LocksAtomically ==
    ASSUME AtomicInv, NEW p \in Processes, Locks(p)
    PROVE  Atomic!Lock(Order(p)) /\ Order(p) \in Orders
  <1>. DEFINE o == Order(p)
  <1>0. TypeOK /\ Ready(p) /\ Backing(p) /\ Reserving(p)
    BY DEF AtomicInv, TypeInv, AccountInv, ReserveInv
  <1>1. request[p].at = "lock" /\ o \in Orders
    BY <1>0 DEF Locks, At, Ready, Order, Placing
  <1>2. /\ state[o] = "CREATED" /\ o \in Limit /\ o \notin Locking
        /\ Reserve[o] <= book[request[p].seen].available
    BY <1>0, <1>1 DEF Backing, Reserving, Ready, Placed, Locking, Order
  <1>3. /\ book[request[p].seen] = Account /\ state' = state
        /\ Account'.available = Account.available - Reserve[o]
        /\ Account'.locked = Account.locked + Reserve[o]
    BY <1>0, MovesAccount DEF Locks, Locked
  <1>4. Adds(p, "lock", "lock", "lockRow")
    BY <1>0, <1>1, MovesAdds DEF Locks, Causes
  <1>5. Locking' = Locking \cup {o} /\ Paid' = Paid
    BY <1>1, <1>4, AddsSets DEF Causes
  <1>6. QED
    BY <1>1, <1>2, <1>3, <1>5 DEF Atomic!Lock, Locking, Paid

LEMMA PaysAtomically ==
    ASSUME AtomicInv, NEW p \in Processes, Pays(p)
    PROVE  Atomic!Pay(Order(p)) /\ Order(p) \in Orders
  <1>. DEFINE o == Order(p)
  <1>0. TypeOK /\ Ready(p) /\ Backing(p) /\ Paying(p)
    BY DEF AtomicInv, TypeInv, AccountInv, PayInv
  <1>1. request[p].at = "pay" /\ o \in Orders
    BY <1>0 DEF Pays, At, Ready, Order, Filling
  <1>2. /\ state[o] \in Beyond /\ (Reserve[o] > 0 => o \in Locking)
        /\ o \in Limit \/ o \notin Paid
        /\ Filled(book[request[p].seen], o, request[p].cost).available >= 0
    BY <1>0, <1>1 DEF Backing, Paying, Ready, Filling, Locking, Paid, Order, Priced
  <1>3. /\ book[request[p].seen] = Account /\ state' = state
        /\ Account'.available = Account.available + Release(Account, o) - request[p].cost
        /\ Account'.locked = Account.locked - Release(Account, o)
    BY <1>0, MovesAccount DEF Pays, Filled
  <1>4. /\ request[p].cost \in Nat /\ Account.available \in Nat /\ Account.locked \in Nat
        /\ Reserve[o] \in Nat
    BY <1>0, <1>1, BookFacts DEF TypeOK, Requests
  <1>5. Account'.available \in 0..(Account.available + Release(Account, o))
    BY <1>2, <1>3, <1>4 DEF Filled, Release
  <1>6. Adds(p, "pay", "fill", "payRow")
    BY <1>0, <1>1, MovesAdds DEF Pays, Causes
  <1>7. Locking' = Locking /\ Paid' = Paid \cup {o}
    BY <1>1, <1>6, AddsSets DEF Causes
  <1>8. Release(Account, o) = Atomic!Freed(o)
    BY DEF Release, Atomic!Freed
  <1>9. Atomic!Standing(o) /\ Atomic!Backed(o)
    BY <1>2 DEF Atomic!Standing, Atomic!Backed, Beyond, Locking
  <1>10. QED
    BY <1>1, <1>2, <1>3, <1>5, <1>7, <1>8, <1>9 DEF Atomic!Pay, Locking, Paid

LEMMA UnlocksAtomically ==
    ASSUME AtomicInv, NEW p \in Processes, Unlocks(p)
    PROVE  Atomic!Unlock(Order(p)) /\ Order(p) \in Orders
  <1>. DEFINE o == Order(p)
  <1>0. TypeOK /\ Ready(p) /\ Backing(p)
    BY DEF AtomicInv, TypeInv, AccountInv
  <1>1. request[p].at = "unlock" /\ o \in Orders
    BY <1>0 DEF Unlocks, At, Ready, Order, Cancelling
  <1>2. state[o] \in Beyond /\ o \in Locking
    BY <1>0, <1>1 DEF Backing, Cancelling, Locking
  <1>3. /\ book[request[p].seen] = Account /\ state' = state
        /\ Account'.available = Account.available + Release(Account, o)
        /\ Account'.locked = Account.locked - Release(Account, o)
    BY <1>0, MovesAccount DEF Unlocks, Unlocked
  <1>4. Adds(p, "unlock", "unlock", "unlockRow")
    BY <1>0, <1>1, MovesAdds DEF Unlocks, Causes
  <1>5. Locking' = Locking /\ Paid' = Paid
    BY <1>1, <1>4, AddsSets DEF Causes
  <1>6. Release(Account, o) = Atomic!Freed(o)
    BY DEF Release, Atomic!Freed
  <1>7. Atomic!Standing(o)
    BY <1>2 DEF Atomic!Standing, Beyond
  <1>8. QED
    BY <1>1, <1>2, <1>3, <1>5, <1>6, <1>7 DEF Atomic!Unlock, Locking, Paid

LEMMA ResetsAtomically ==
    ASSUME AtomicInv, NEW p \in Processes, ResetsAccount(p)
    PROVE  Atomic!Reset
  <1>0. TypeOK
    BY DEF AtomicInv, TypeInv
  <1>1. state' = state /\ Account'.available = Capital /\ Account'.locked = 0
    BY <1>0, MovesAccount DEF ResetsAccount, Cleared
  <1>2. Adds(p, request[p].at, "reset", "resetRow")
    BY <1>0, MovesAdds DEF ResetsAccount, Causes
  <1>3. UNCHANGED <<Locking, Paid>>
    BY <1>2 DEF Adds, Causes, Locking, Paid
  <1>4. QED
    BY <1>1, <1>3 DEF Atomic!Reset, Locking, Paid

LEMMA UpdatesAtomically ==
    ASSUME AtomicInv, NEW p \in Processes, Step(p), UNCHANGED book,
           NEW o \in Orders, Updates(p, o)
    PROVE  \/ Atomic!Enter(o) \/ Atomic!Accept(o) \/ Atomic!Fill(o)
           \/ Atomic!Cancel(o) \/ Atomic!Reject(o)
  <1>0. TypeOK /\ Ready(p) /\ Backing(p) /\ Reserving(p) /\ Paying(p) /\ ReserveInv'
    BY ReserveStep DEF AtomicInv, TypeInv, AccountInv, ReserveInv, PayInv
  <1>1. UNCHANGED <<Account, Locking, Paid>>
    BY BookStandsSets
  <1>2. ASSUME NEW from, NEW to, UpdateOrder(o, from, to)
        PROVE  Atomic!Becomes(o, from, to)
    BY <1>1, <1>2 DEF UpdateOrder, Atomic!Becomes, Locking, Paid
  <1>3. CASE UpdateOrder(o, "CREATED", "ACCEPTED")
    <2>1. state'[o] = "ACCEPTED"
      BY <1>0, <1>3, UpdateOrderTransition
    <2>2. Reserve[o] > 0 => o \in Locking
      BY <1>0, <1>1, <2>1 DEF ReserveInv, AcceptedIsReserved, Locking
    <2>3. QED
      BY <1>2, <1>3, <2>2 DEF Atomic!Accept, Atomic!Backed, Locking
  <1>4. CASE UpdateOrder(o, "ACCEPTED", "FILLED") /\ o = Order(p) /\ request[p].at = "settle"
    <2>1. IsSettled(o)
      BY <1>0, <1>4 DEF Paying, Explained
    <2>2. o \in Paid
      BY <2>1 DEF AtomicInv, AccountInv, Paid
    <2>3. QED
      BY <1>2, <1>4, <2>2 DEF Atomic!Fill, Paid
  <1>5. CASE /\ UpdateOrder(o, "CREATED", "REJECTED") \/ UpdateOrder(o, "ACCEPTED", "REJECTED")
             /\ o = Order(p) /\ request[p].at \in {"fund", "reject"}
    <2>1. o \notin Limit
      BY <1>0, <1>5 DEF Reserving, Backing
    <2>2. QED
      BY <1>2, <1>5, <2>1 DEF Atomic!Reject
  <1>6. CASE UpdateOrder(o, "none", "CREATED") \/ UpdateOrder(o, "ACCEPTED", "CANCELLED")
    BY <1>2, <1>6 DEF Atomic!Enter, Atomic!Cancel
  <1>7. QED
    BY <1>3, <1>4, <1>5, <1>6 DEF Updates

LEMMA StepAtomically ==
    ASSUME AtomicInv, NEW p \in Processes, Step(p)
    PROVE  [Atomic!Next]_(Atomic!vars)
  <1>1. CASE Locks(p)
    BY <1>1, LocksAtomically DEF Atomic!Next
  <1>2. CASE Pays(p)
    BY <1>2, PaysAtomically DEF Atomic!Next
  <1>3. CASE Unlocks(p)
    BY <1>3, UnlocksAtomically DEF Atomic!Next
  <1>4. CASE ResetsAccount(p)
    BY <1>4, ResetsAtomically DEF Atomic!Next
  <1>5. CASE UNCHANGED book
    <2>1. CASE UNCHANGED state
      BY <1>5, <2>1, BookStandsSets DEF Atomic!vars, Locking, Paid
    <2>2. CASE \E o \in Orders : Updates(p, o)
      BY <1>5, <2>2, UpdatesAtomically DEF Atomic!Next
    <2>3. QED
      BY <2>1, <2>2, StepUpdatesOrder DEF StepUpdates, AtomicInv, TypeInv
  <1>6. QED
    BY <1>1, <1>2, <1>3, <1>4, <1>5, BookStep

LEMMA AtomicInit == Init => Atomic!Init
  <1>. SUFFICES ASSUME Init PROVE Atomic!Init
    OBVIOUS
  <1>1. book = <<[available |-> Capital, locked |-> 0,
                  cause |-> "opened", order |-> NoOrder]>>
        /\ state = [o \in Orders |-> "none"]
    BY DEF Init, TablesInit
  <1>2. Account.available = Capital /\ Account.locked = 0
    BY <1>1 DEF Account, Version
  <1>3. Locking = {} /\ Paid = {}
    BY <1>1 DEF Locking, Paid, Movements
  <1>4. QED
    BY <1>1, <1>2, <1>3 DEF Atomic!Init, Locking, Paid

LEMMA StepRefines ==
    ASSUME AtomicInv, [Next]_vars
    PROVE  [Atomic!Next]_(Atomic!vars)
  <1>1. UNCHANGED vars => UNCHANGED Atomic!vars
    BY BookStandsSets DEF vars, tables, Atomic!vars, Locking, Paid
  <1>2. QED
    BY <1>1, StepAtomically, NextStep

\* The paper account implements the atomic one: whatever calls overlap, lose
\* races, retry and die, every movement is one atomic operation on the balances
\* of that moment, made for an order that has come far enough for it.
THEOREM Refinement == Spec => ImplementsAtomicAccount
  BY StepRefines, AtomicInit, AtomicInvInvariant, PTL DEF Spec, Atomic!Spec, ImplementsAtomicAccount

-----------------------------------------------------------------------------
(* What the atomic account keeps, the paper account keeps.                  *)

LEMMA AtomicKeepsCapital ==
    ASSUME TypeOK, WithinCapital, [Atomic!Next]_(Atomic!vars)
    PROVE  WithinCapital'
  <1>0. /\ Account.available \in Nat /\ Account.locked \in Nat /\ Capital \in Nat
        /\ \A o \in Orders : Reserve[o] \in Nat
    BY BookFacts, OrderAssumption DEF TypeOK
  <1>1. \A o \in Orders : Atomic!Freed(o) \in 0..Account.locked
    BY <1>0 DEF Atomic!Freed
  <1>2. ASSUME NEW o \in Orders, Atomic!Lock(o) PROVE WithinCapital'
    BY <1>0, <1>2 DEF Atomic!Lock, WithinCapital
  <1>3. ASSUME NEW o \in Orders, Atomic!Pay(o) PROVE WithinCapital'
    BY <1>0, <1>1, <1>3 DEF Atomic!Pay, WithinCapital
  <1>4. ASSUME NEW o \in Orders, Atomic!Unlock(o) PROVE WithinCapital'
    BY <1>0, <1>1, <1>4 DEF Atomic!Unlock, WithinCapital
  <1>5. CASE Atomic!Reset
    BY <1>0, <1>5 DEF Atomic!Reset, WithinCapital
  <1>6. CASE UNCHANGED <<Account.available, Account.locked>>
    BY <1>6 DEF WithinCapital
  <1>7. ASSUME NEW o \in Orders,
               Atomic!Enter(o) \/ Atomic!Accept(o) \/ Atomic!Fill(o)
               \/ Atomic!Cancel(o) \/ Atomic!Reject(o)
        PROVE  WithinCapital'
    BY <1>6, <1>7 DEF Atomic!Enter, Atomic!Accept, Atomic!Fill, Atomic!Cancel,
                      Atomic!Reject, Atomic!Becomes
  <1>8. CASE UNCHANGED Atomic!vars
    BY <1>6, <1>8 DEF Atomic!vars
  <1>9. QED
    BY <1>2, <1>3, <1>4, <1>5, <1>7, <1>8 DEF Atomic!Next

\* No call makes money: a release that is made twice, or after a reset, returns
\* no more than is locked.
THEOREM NoMoneyIsMade == Spec => []WithinCapital
  <1>1. Init => WithinCapital
    BY AtomicInit, OrderAssumption DEF Atomic!Init, WithinCapital
  <1>2. AtomicInv /\ [Next]_vars => [Atomic!Next]_(Atomic!vars)
    BY StepRefines
  <1>3. AtomicInv /\ WithinCapital /\ [Next]_vars => WithinCapital'
    BY <1>2, AtomicKeepsCapital DEF AtomicInv, TypeInv
  <1>4. QED
    BY <1>1, <1>3, AtomicInvInvariant, PTL DEF Spec

=============================================================================
