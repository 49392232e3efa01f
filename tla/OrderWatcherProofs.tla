------------------------- MODULE OrderWatcherProofs -------------------------
(***************************************************************************)
(* The orders collection and the expiration watcher, for any number of     *)
(* orders, blocks and concurrent calls: making room never takes a pinned   *)
(* order, the collection stays bounded, and what is stored and not removed *)
(* is watched for its expiration.                                          *)
(***************************************************************************)
EXTENDS OrderWatcher, FiniteSetTheorems, TLAPS

Collection == [Order -> Record \cup {NoOrder}]

\* At a block with timestamp ts
NotExpired(o, ts) == ts < Exp[o]

\* A live order has something left to fill.
Fillable(ords) == \A o \in Order : ords[o] # NoOrder /\ ~ords[o].removed => ords[o].amount # 0

OrdersInv == orders \in Collection /\ Fillable(orders)

\* What a call of ValidateAndStoreValidOrders knows at each of its steps.
Accepts(acc) ==
    /\ DOMAIN acc \subseteq Order /\ Cardinality(DOMAIN acc) <= MaxOffer
    /\ \A o \in DOMAIN acc : acc[o] \in 1..MaxAmount

IsCall(r) ==
    /\ r.pc \in {"idle", "checked", "locked", "trimmed", "ready", "inserted", "sending", "late"}
    /\ r.pc = "checked" =>
          r.batch \subseteq Order /\ Cardinality(r.batch) <= MaxOffer /\ r.pinned \in BOOLEAN
    /\ r.pc \in {"locked", "trimmed", "ready", "inserted"} => Accepts(r.acc) /\ r.pinned \in BOOLEAN

CallsInv == DOMAIN adder = Adder /\ \A a \in Adder : IsCall(adder[a])

\* handleBlockEventsMu: block events are handled alone.
LocksInv == main.pc \in {"begun", "committed"} => NoReader

\* What handleOrderExpirations has done to the orders and the tree.
BatchInv ==
    main.pc = "begun" =>
        /\ main.reval \subseteq Stored
        /\ main.expired \subseteq Stored \ main.reval
        /\ main.unexpired \subseteq (Stored \cap tree) \ main.reval
        /\ \A o \in main.unexpired : orders[o].amount # 0
        /\ main.lost \subseteq main.reval
        /\ \A o \in main.lost : ~NotExpired(o, main.ts)

\* The orders of an open Cleanup transaction are not deleted under it.
CleanupInv == cleanup.pc = "begun" => cleanup.found \subseteq Stored

WatchInv == OrdersInv /\ CallsInv /\ LocksInv /\ BatchInv /\ CleanupInv

-----------------------------------------------------------------------------
\* A call moves on: the others stay where they are.
LEMMA CallMoves ==
    ASSUME CallsInv, NEW a \in Adder, NEW state, IsCall(state), Become(a, state)
    PROVE  CallsInv' /\ adder'[a] = state /\ \A b \in Adder \ {a} : adder'[b] = adder[b]
BY DEF CallsInv, Become

\* The updates of a stored order.
LEMMA RecordUpdates ==
    ASSUME NEW r \in Record
    PROVE  /\ r.removed \in BOOLEAN /\ r.amount \in 0..MaxAmount
           /\ \A m \in 0..MaxAmount :
                 Rewatched(r, m) \in Record /\ ~Rewatched(r, m).removed /\ Rewatched(r, m).amount = m
           /\ \A m \in 0..MaxAmount : Unwatched(r, m) \in Record /\ Unwatched(r, m).removed
           /\ \A m \in 0..MaxAmount : LET q == [r EXCEPT !.amount = m, !.age = 0]
                                      IN  q \in Record /\ q.removed = r.removed /\ q.amount = m
<1>1. 0 \in 0..2
  OBVIOUS
<1>2. r.removed \in BOOLEAN /\ r.amount \in 0..MaxAmount
  BY DEF Record
<1>3. ASSUME NEW m \in 0..MaxAmount
      PROVE  Rewatched(r, m) \in Record /\ ~Rewatched(r, m).removed /\ Rewatched(r, m).amount = m
  BY <1>1, Zenon DEF Record, Rewatched
<1>4. ASSUME NEW m \in 0..MaxAmount PROVE Unwatched(r, m) \in Record /\ Unwatched(r, m).removed
  BY <1>1, Zenon DEF Record, Unwatched
<1>5. ASSUME NEW m \in 0..MaxAmount
      PROVE  LET q == [r EXCEPT !.amount = m, !.age = 0]
             IN  q \in Record /\ q.removed = r.removed /\ q.amount = m
  BY <1>1, Zenon DEF Record
<1> QED BY <1>2, <1>3, <1>4, <1>5, Zenon

\* What a revalidation makes of one order.
LEMMA ChangedRecord ==
    ASSUME NEW o \in Order, NEW r \in Record, NEW ts, NEW x \in Result(o, ts), NEW c, c = Change(o, r, x, ts)
    PROVE  /\ c.record \in Record
           /\ (~r.removed /\ r.amount = 0) \/ c.record.removed \/ c.record.amount # 0
           /\ \/ c.record.removed
              \/ o \in c.watch
              \/ /\ ~r.removed /\ o \notin c.unwatch
                 /\ x = ERROR \/ NotExpired(o, ts) \/ r.amount = 0
           /\ \A q \in c.unwatch : q = o
<1>0. MaxAmount \in Nat \ {0}
  BY SizeAssumption
<1>1. x \in {0, -3, -4} \/ (x \in 1..MaxAmount /\ NotExpired(o, ts)) \/ x = -1
  BY <1>0 DEF Result, CLOSED, INVALID, ERROR, EXPIRED, NotExpired
<1>2. /\ r.removed \in BOOLEAN /\ r.amount \in 0..MaxAmount
      /\ \A m \in 0..MaxAmount : Rewatched(r, m) \in Record /\ ~Rewatched(r, m).removed /\ Rewatched(r, m).amount = m
      /\ \A m \in 0..MaxAmount : Unwatched(r, m) \in Record /\ Unwatched(r, m).removed
      /\ \A m \in 0..MaxAmount : LET q == [r EXCEPT !.amount = m, !.age = 0]
                                 IN  q \in Record /\ q.removed = r.removed /\ q.amount = m
  BY RecordUpdates, Zenon
<1>3. CASE Accepted(x)
  <2>1. x \in 1..MaxAmount /\ x \in 0..MaxAmount /\ NotExpired(o, ts) /\ x # 0
    BY <1>0, <1>1, <1>3 DEF Accepted
  <2>2. CASE r.amount = 0 \/ (r.removed /\ NotExpired(o, ts))
    <3>1. c.record = Rewatched(r, x) /\ c.watch = {o} /\ c.unwatch = {}
      BY <1>3, <2>2 DEF Change, NotExpired
    <3>2. c.record \in Record /\ ~c.record.removed /\ c.record.amount = x
      BY <1>2, <2>1, <3>1, Zenon
    <3> QED BY <2>1, <3>1, <3>2, Zenon
  <2>3. CASE ~(r.amount = 0 \/ (r.removed /\ NotExpired(o, ts)))
    <3>1. ~r.removed /\ r.amount # 0
      BY <1>2, <2>1, <2>3, Zenon
    <3>2. CASE x = r.amount
      <4>1. c = [record |-> r, event |-> NoEvent, watch |-> {}, unwatch |-> {}]
        BY <1>3, <2>3, <3>2 DEF Change, NotExpired
      <4> QED BY <2>1, <3>1, <4>1
    <3>3. CASE x # r.amount
      <4>1. c.record = [r EXCEPT !.amount = x, !.age = 0] /\ c.watch = {} /\ c.unwatch = {}
        BY <1>3, <2>3, <3>3 DEF Change, NotExpired
      <4> QED BY <1>2, <2>1, <3>1, <4>1, Zenon
    <3> QED BY <3>2, <3>3
  <2> QED BY <2>2, <2>3
<1>4. CASE ~Accepted(x)
  <2>1. CASE Ignored(r, x)
    <3>1. c.record = r /\ c.watch = {} /\ c.unwatch = {}
      BY <1>4, <2>1 DEF Change
    <3>2. x = ERROR \/ r.amount = 0
      BY <2>1 DEF Ignored
    <3> QED BY <1>2, <3>1, <3>2, Zenon
  <2>2. CASE ~Ignored(r, x)
    <3>1. c.record = Unwatched(r, 0) /\ c.watch = {} /\ c.unwatch = {o}
      BY <1>4, <2>2 DEF Change
    <3>2. 0 \in 0..MaxAmount
      BY <1>0
    <3>3. c.record \in Record /\ c.record.removed
      BY <1>2, <3>1, <3>2, Zenon
    <3> QED BY <3>1, <3>3, Zenon
  <2> QED BY <2>1, <2>2
<1> QED BY <1>3, <1>4

\* generateOrderEventsIfChanged, for an order that is not revalidated.
LEMMA NotRevalidated ==
    ASSUME NEW ords, NEW S, NEW T, NEW ts, NEW res \in Results(T, ts),
           NEW new, new = Revalidated(ords, S, res, ts), NEW o \in Order, o \notin T
    PROVE  new[o] = IF o \in S THEN NoOrder ELSE ords[o]
BY DEF Results, Revalidated

\* Of ords, new keeps everything but the orders of S that are not in T, and has nothing else.
Keeps(new, ords, S, T) ==
    /\ \A o \in Order : new[o] # NoOrder => ords[o] # NoOrder
    /\ \A o \in Order : (o \in T \/ o \notin S) /\ ords[o] # NoOrder => new[o] # NoOrder

\* It keeps the collection well formed, and deletes only what it was given.
LEMMA RevalidatedCollection ==
    ASSUME NEW ords \in Collection, Fillable(ords), NEW S \in SUBSET Order, NEW T \in SUBSET S, NEW ts,
           NEW res \in Results(T, ts), \A o \in T : ords[o] # NoOrder,
           NEW new, new = Revalidated(ords, S, res, ts)
    PROVE  new \in Collection /\ Fillable(new) /\ Keeps(new, ords, S, T)
<1>1. ASSUME NEW o \in Order, o \notin T PROVE new[o] = IF o \in S THEN NoOrder ELSE ords[o]
  BY <1>1, NotRevalidated
<1>2. ASSUME NEW o \in T
      PROVE  /\ new[o] \in Record
             /\ (~ords[o].removed /\ ords[o].amount = 0) \/ new[o].removed \/ new[o].amount # 0
  <2>1. PICK c : c = Change(o, ords[o], res[o], ts)
    OBVIOUS
  <2>2. o \in Order /\ ords[o] \in Record /\ res[o] \in Result(o, ts) /\ DOMAIN res = T
    BY DEF Collection, Results
  <2>3. new[o] = c.record
    BY <2>1, <2>2 DEF Revalidated
  <2>4. /\ c.record \in Record
        /\ (~ords[o].removed /\ ords[o].amount = 0) \/ c.record.removed \/ c.record.amount # 0
    BY <2>1, <2>2, ChangedRecord
  <2> QED BY <2>3, <2>4
<1>3. new \in Collection
  <2>1. \A o \in Order : new[o] \in Record \cup {NoOrder}
    BY <1>1, <1>2 DEF Collection
  <2>2. new = [o \in Order |-> new[o]]
    BY DEF Revalidated
  <2> QED BY <2>1, <2>2 DEF Collection
<1>4. Fillable(new)
  <2> SUFFICES ASSUME NEW o \in Order, new[o] # NoOrder, ~new[o].removed PROVE new[o].amount # 0
    BY DEF Fillable
  <2>1. CASE o \in T
    BY <1>2, <2>1, Zenon DEF Fillable
  <2>2. CASE o \notin T
    BY <1>1, <2>2 DEF Fillable
  <2> QED BY <2>1, <2>2
<1>5. ASSUME NEW o \in Order, new[o] # NoOrder PROVE ords[o] # NoOrder
  BY <1>1, <1>5
<1>6. ASSUME NEW o \in Order, o \in T \/ o \notin S, ords[o] # NoOrder PROVE new[o] # NoOrder
  <2>1. CASE o \in T
    BY <1>2, <2>1, NoOrderAssumption, Zenon
  <2>2. CASE o \notin T
    BY <1>1, <1>6, <2>2
  <2> QED BY <2>1, <2>2
<1> QED BY <1>3, <1>4, <1>5, <1>6 DEF Keeps

\* Order o was live and not watched, and revalidation has failed for it, or finds it
\* not expired, or has nothing to do with it.
LeftAlone(o, ords, S, T, res, ts, t) ==
    /\ ords[o] # NoOrder /\ ~ords[o].removed /\ o \notin t
    /\ o \in T => res[o] = ERROR \/ NotExpired(o, ts)
    /\ o \notin T => o \notin S

\* An order that is live after a revalidation is watched, unless it is left alone.
LEMMA RevalidatedTree ==
    ASSUME NEW ords \in Collection, Fillable(ords), NEW S \in SUBSET Order, NEW T \in SUBSET S, NEW ts,
           NEW res \in Results(T, ts), \A o \in T : ords[o] # NoOrder,
           NEW new, new = Revalidated(ords, S, res, ts), NEW t, NEW o \in Order,
           new[o] # NoOrder, ~new[o].removed, o \notin Watched(t, ords, res, ts)
    PROVE  LeftAlone(o, ords, S, T, res, ts, t)
<1> DEFINE c(p) == Change(p, ords[p], res[p], ts)
<1>1. ASSUME NEW p \in T
      PROVE  /\ \/ new[p].removed
                \/ p \in c(p).watch
                \/ /\ ~ords[p].removed /\ p \notin c(p).unwatch
                   /\ res[p] = ERROR \/ NotExpired(p, ts) \/ ords[p].amount = 0
             /\ \A q \in c(p).unwatch : q = p
  <2>1. PICK d : d = c(p)
    OBVIOUS
  <2>2. d = Change(p, ords[p], res[p], ts)
    BY <2>1
  <2>3. p \in Order /\ ords[p] \in Record /\ res[p] \in Result(p, ts) /\ DOMAIN res = T
    BY DEF Collection, Results
  <2>4. new[p] = d.record
    BY <2>2, <2>3 DEF Revalidated
  <2> HIDE DEF c
  <2>5. /\ \/ d.record.removed
           \/ p \in d.watch
           \/ /\ ~ords[p].removed /\ p \notin d.unwatch
              /\ res[p] = ERROR \/ NotExpired(p, ts) \/ ords[p].amount = 0
        /\ \A q \in d.unwatch : q = p
    BY <2>2, <2>3, ChangedRecord
  <2> QED BY <2>1, <2>4, <2>5, Zenon
<1>2. o \notin T => new[o] = IF o \in S THEN NoOrder ELSE ords[o]
  BY NotRevalidated
<1>3. DOMAIN res = T
  BY DEF Results
<1>4. Watched(t, ords, res, ts) = (t \ UNION {c(p).unwatch : p \in T}) \cup UNION {c(p).watch : p \in T}
  BY <1>3, Zenon DEF Watched
<1> HIDE DEF c
<1>5. (\A p \in T : o \notin c(p).unwatch) => o \notin t
  BY <1>4
<1>6. CASE o \in T
  <2>1. o \notin c(o).watch
    BY <1>4, <1>6
  <2>2. ~ords[o].removed /\ o \notin c(o).unwatch /\ (res[o] = ERROR \/ NotExpired(o, ts) \/ ords[o].amount = 0)
    BY <1>1, <1>6, <2>1, Zenon
  <2>3. ords[o].amount # 0
    BY <1>6, <2>2 DEF Fillable
  <2>4. \A p \in T : o \notin c(p).unwatch
    BY <1>1, <2>2, Zenon
  <2> QED BY <1>5, <1>6, <2>2, <2>3, <2>4, Zenon DEF LeftAlone
<1>7. CASE o \notin T
  <2>1. o \notin S /\ new[o] = ords[o]
    BY <1>2, <1>7
  <2>2. \A p \in T : o \notin c(p).unwatch
    BY <1>1, <1>7, Zenon
  <2> QED BY <1>5, <1>7, <2>1, <2>2 DEF LeftAlone
<1> QED BY <1>6, <1>7

-----------------------------------------------------------------------------
\* Deleting orders, and letting them age.
LEMMA ShrunkCollection ==
    ASSUME OrdersInv, NEW R
    PROVE  Without(R) \in Collection /\ Fillable(Without(R))
BY DEF OrdersInv, Collection, Fillable, Without

\* Time passes: the orders only grow older.
LEMMA AgedCollection ==
    ASSUME OrdersInv, Tick
    PROVE  /\ orders' \in Collection /\ Stored' = Stored
           /\ \A o \in Stored : /\ orders'[o].removed = orders[o].removed /\ orders'[o].amount = orders[o].amount
                                /\ orders'[o].pinned = orders[o].pinned
<1>1. orders' = [o \in Order |-> IF o \in Stored /\ orders[o].age < 2
                                 THEN [orders[o] EXCEPT !.age = @ + 1] ELSE orders[o]]
  BY DEF Tick
<1>2. ASSUME NEW o \in Stored
      PROVE  /\ o \in Order /\ orders'[o] \in Record
             /\ orders'[o].removed = orders[o].removed /\ orders'[o].amount = orders[o].amount
             /\ orders'[o].pinned = orders[o].pinned
  <2>1. o \in Order /\ orders[o] \in Record
    BY DEF Stored, OrdersInv, Collection
  <2>2. CASE orders[o].age < 2
    <3>1. orders'[o] = [orders[o] EXCEPT !.age = orders[o].age + 1]
      BY <1>1, <2>1, <2>2
    <3>2. orders[o].age + 1 \in 0..2
      BY <2>1, <2>2 DEF Record
    <3> QED BY <2>1, <3>1, <3>2 DEF Record
  <2>3. CASE ~(orders[o].age < 2)
    <3>1. orders'[o] = orders[o]
      BY <1>1, <2>1, <2>3
    <3> QED BY <2>1, <3>1
  <2> QED BY <2>2, <2>3
<1>3. ASSUME NEW o \in Order, o \notin Stored PROVE orders'[o] = NoOrder
  BY <1>1, <1>3 DEF Stored
<1>4. Stored' = Stored
  BY <1>2, <1>3, NoOrderAssumption DEF Stored
<1>5. orders' \in Collection
  <2>1. \A o \in Order : orders'[o] \in Record \cup {NoOrder}
    BY <1>2, <1>3
  <2> QED BY <1>1, <2>1 DEF Collection
<1> QED BY <1>2, <1>4, <1>5

\* What handleOrderExpirations leaves in its transaction is a collection of the
\* same orders.
LEMMA TransactionCollection ==
    ASSUME OrdersInv, BatchInv, main.pc = "begun", NEW txn, txn = [o \in Order |-> InTransaction(o)]
    PROVE  /\ txn \in Collection /\ Fillable(txn)
           /\ \A o \in Order : txn[o] # NoOrder <=> orders[o] # NoOrder
           /\ \A o \in Order : txn[o] # NoOrder /\ ~txn[o].removed =>
                 o \in main.unexpired \/ (~orders[o].removed /\ o \notin main.expired)
           /\ \A o \in main.reval : txn[o] = orders[o]
<1>1. \A o \in Order : orders[o] \in Record \cup {NoOrder}
  BY DEF OrdersInv, Collection
<1>2. ASSUME NEW o \in main.expired
      PROVE  txn[o] \in Record /\ txn[o].removed /\ o \in Stored
  <2>1. o \in Order /\ orders[o] \in Record /\ o \in Stored
    BY <1>1 DEF BatchInv, Stored
  <2>2. txn[o] = Unwatched(orders[o], orders[o].amount)
    BY <2>1 DEF InTransaction
  <2>3. orders[o].amount \in 0..MaxAmount
    BY <2>1, RecordUpdates, Zenon
  <2>4. Unwatched(orders[o], orders[o].amount) \in Record /\ Unwatched(orders[o], orders[o].amount).removed
    BY <2>1, <2>3, RecordUpdates, Zenon
  <2> QED BY <2>1, <2>2, <2>4
<1>3. ASSUME NEW o \in main.unexpired, o \notin main.expired
      PROVE  txn[o] \in Record /\ txn[o].amount # 0 /\ o \in Stored
  <2>1. o \in Order /\ orders[o] \in Record /\ orders[o].amount # 0 /\ o \in Stored
    BY <1>1, <1>3 DEF BatchInv, Stored
  <2>2. txn[o] = Rewatched(orders[o], orders[o].amount)
    BY <1>3, <2>1 DEF InTransaction
  <2>3. PICK m \in 0..MaxAmount : m = orders[o].amount
    BY <2>1, RecordUpdates, Zenon
  <2>4. PICK r \in Record : r = orders[o]
    BY <2>1
  <2>5. Rewatched(r, m) \in Record /\ Rewatched(r, m).amount = m
    BY RecordUpdates, Zenon
  <2>6. txn[o] = Rewatched(r, m) /\ m # 0
    BY <2>1, <2>2, <2>3, <2>4
  <2> QED BY <2>1, <2>5, <2>6
<1>4. ASSUME NEW o \in Order, o \notin main.expired, o \notin main.unexpired PROVE txn[o] = orders[o]
  BY <1>4 DEF InTransaction
<1>5. txn \in Collection
  <2>1. \A o \in Order : txn[o] \in Record \cup {NoOrder}
    BY <1>1, <1>2, <1>3, <1>4, Zenon
  <2> QED BY <2>1 DEF Collection
<1>6. Fillable(txn)
  <2> SUFFICES ASSUME NEW o \in Order, txn[o] # NoOrder, ~txn[o].removed PROVE txn[o].amount # 0
    BY DEF Fillable
  <2>1. CASE o \in main.expired
    BY <1>2, <2>1
  <2>2. CASE o \in main.unexpired /\ o \notin main.expired
    BY <1>3, <2>2
  <2>3. CASE o \notin main.expired /\ o \notin main.unexpired
    BY <1>4, <2>3 DEF OrdersInv, Fillable
  <2> QED BY <2>1, <2>2, <2>3
<1>7. ASSUME NEW o \in Order PROVE txn[o] # NoOrder <=> orders[o] # NoOrder
  <2>1. CASE o \in main.expired
    BY <1>2, <2>1, NoOrderAssumption DEF Stored
  <2>2. CASE o \in main.unexpired /\ o \notin main.expired
    BY <1>3, <2>2, NoOrderAssumption DEF Stored
  <2>3. CASE o \notin main.expired /\ o \notin main.unexpired
    BY <1>4, <2>3
  <2> QED BY <2>1, <2>2, <2>3
<1>8. ASSUME NEW o \in Order, ~txn[o].removed
      PROVE  o \in main.unexpired \/ (~orders[o].removed /\ o \notin main.expired)
  BY <1>2, <1>4, <1>8
<1>9. ASSUME NEW o \in main.reval PROVE txn[o] = orders[o]
  <2>1. o \in Order /\ o \notin main.expired /\ o \notin main.unexpired
    BY DEF BatchInv, Stored
  <2> QED BY <1>4, <2>1
<1> QED BY <1>5, <1>6, <1>7, <1>8, <1>9

\* The conditions under which a revalidation is well formed.
LEMMA CommitFacts ==
    ASSUME OrdersInv, BatchInv, main.pc = "begun", NEW S, S = {o \in main.reval : ~IsDead(orders[o])},
           NEW txn, txn = [o \in Order |-> InTransaction(o)]
    PROVE  main.reval \in SUBSET Order /\ S \in SUBSET main.reval /\ \A o \in S : txn[o] # NoOrder
<1>1. main.reval \subseteq Stored /\ Stored \subseteq Order /\ \A o \in Stored : orders[o] # NoOrder
  BY DEF BatchInv, Stored
<1>2. \A o \in main.reval : txn[o] = orders[o]
  BY TransactionCollection
<1> QED BY <1>1, <1>2

-----------------------------------------------------------------------------
\* The collection stays well formed: every step deletes orders, revalidates them,
\* inserts accepted ones or lets them age.
LEMMA StepOrders == WatchInv /\ [Next]_vars => OrdersInv'
<1> SUFFICES ASSUME WatchInv, [Next]_vars PROVE OrdersInv'
  OBVIOUS
<1>0. OrdersInv /\ CallsInv /\ BatchInv /\ CleanupInv
  BY DEF WatchInv
<1>1. CASE orders' = orders
  BY <1>0, <1>1 DEF OrdersInv, Fillable
<1>2. CASE CommitOrders
  <2>1. PICK txn, S, res :
          /\ main.pc = "begun" /\ txn = [o \in Order |-> InTransaction(o)]
          /\ S = {o \in main.reval : ~IsDead(orders[o])} /\ res \in Results(S, main.ts)
          /\ orders' = orders \/ orders' = Revalidated(txn, main.reval, res, main.ts)
    BY <1>2, Zenon DEF CommitOrders
  <2>2. CASE orders' = Revalidated(txn, main.reval, res, main.ts)
    <3>1. txn \in Collection /\ Fillable(txn)
      BY <1>0, <2>1, TransactionCollection
    <3>2. main.reval \in SUBSET Order /\ S \in SUBSET main.reval /\ \A o \in S : txn[o] # NoOrder
      BY <1>0, <2>1, CommitFacts
    <3>3. res \in Results(S, main.ts)
      BY <2>1
    <3>4. orders' \in Collection /\ Fillable(orders')
      BY <2>2, <3>1, <3>2, <3>3, RevalidatedCollection, Zenon
    <3> QED BY <3>4 DEF OrdersInv, Fillable
  <2> QED BY <1>1, <2>1, <2>2
<1>3. CASE FinishCleanup
  <2>1. PICK ts, S, res :
          /\ cleanup.pc = "begun"
          /\ S = {o \in cleanup.found : ~IsDead(orders[o])} /\ res \in Results(S, ts)
          /\ orders' = orders \/ orders' = Revalidated(orders, cleanup.found, res, ts)
    BY <1>3, Zenon DEF FinishCleanup
  <2>2. CASE orders' = Revalidated(orders, cleanup.found, res, ts)
    <3>1. orders \in Collection /\ Fillable(orders)
      BY <1>0 DEF OrdersInv
    <3>2. cleanup.found \in SUBSET Order /\ S \in SUBSET cleanup.found /\ \A o \in S : orders[o] # NoOrder
      BY <1>0, <2>1 DEF CleanupInv, Stored
    <3>3. res \in Results(S, ts)
      BY <2>1
    <3>4. orders' \in Collection /\ Fillable(orders')
      BY <2>2, <3>1, <3>2, <3>3, RevalidatedCollection, Zenon
    <3> QED BY <3>4 DEF OrdersInv, Fillable
  <2> QED BY <1>1, <2>1, <2>2
<1>4. ASSUME NEW R, orders' = Without(R) PROVE OrdersInv'
  <2>1. orders' \in Collection /\ Fillable(orders')
    BY <1>0, <1>4, ShrunkCollection
  <2> QED BY <2>1 DEF OrdersInv, Fillable
<1>5. ASSUME NEW o \in Order, DeleteStaleRemoved(o) PROVE OrdersInv'
  <2>1. orders' = Without({o})
    BY <1>0, <1>5, Zenon DEF DeleteStaleRemoved, Without, OrdersInv, Collection
  <2> QED BY <1>4, <2>1
<1>6. ASSUME NEW a \in Adder, Trim(a) PROVE OrdersInv'
  BY <1>1, <1>4, <1>6 DEF Trim
<1>7. CASE Restart
  BY <1>4, <1>7, Zenon DEF Restart
<1>8. ASSUME NEW a \in Adder, Insert(a) PROVE OrdersInv'
  <2>1. PICK new \in SUBSET DOMAIN adder[a].acc :
          \/ orders' = orders
          \/ orders' = [o \in Order |-> IF o \in new THEN Fresh(adder[a].acc[o], adder[a].pinned) ELSE orders[o]]
    BY <1>8, Zenon DEF Insert
  <2>2. CASE orders' = [o \in Order |-> IF o \in new THEN Fresh(adder[a].acc[o], adder[a].pinned) ELSE orders[o]]
    <3>1. adder[a].pc = "ready"
      BY <1>8 DEF Insert
    <3>2. adder[a].pinned \in BOOLEAN /\ \A o \in DOMAIN adder[a].acc : adder[a].acc[o] \in 1..MaxAmount
      BY <1>0, <3>1 DEF CallsInv, IsCall, Accepts
    <3>3. ASSUME NEW o \in Order
          PROVE  /\ orders'[o] \in Record \cup {NoOrder}
                 /\ orders'[o] # NoOrder /\ ~orders'[o].removed => orders'[o].amount # 0
      <4>1. CASE o \in new
        <5>1. orders'[o] = Fresh(adder[a].acc[o], adder[a].pinned) /\ adder[a].acc[o] \in 1..MaxAmount
          BY <2>2, <3>2, <4>1
        <5> QED BY <3>2, <5>1, SizeAssumption DEF Fresh, Record
      <4>2. CASE o \notin new
        BY <1>0, <2>2, <4>2 DEF OrdersInv, Collection, Fillable
      <4> QED BY <4>1, <4>2
    <3>4. orders' \in Collection
      BY <2>2, <3>3 DEF Collection
    <3> QED BY <3>3, <3>4 DEF OrdersInv, Fillable
  <2> QED BY <1>1, <2>1, <2>2
<1>9. CASE Tick
  <2>1. /\ orders' \in Collection /\ Stored' = Stored
        /\ \A o \in Stored : orders'[o].removed = orders[o].removed /\ orders'[o].amount = orders[o].amount
    BY <1>0, <1>9, AgedCollection
  <2> QED BY <1>0, <2>1 DEF OrdersInv, Fillable, Stored
<1>10. CASE TakeBatch \/ CommitHeaders \/ StartCleanup \/ SendCleanup \/ FindStaleRemoved \/ IncreaseMaxExp
  BY <1>1, <1>10, Zenon DEF TakeBatch, CommitHeaders, StartCleanup, SendCleanup, FindStaleRemoved, IncreaseMaxExp, stored
<1>11. CASE CompleteStart \/ Stopped \/ UNCHANGED vars
  BY <1>1, <1>11, Zenon DEF CompleteStart, Stopped, vars, stored
<1>12. ASSUME NEW a \in Adder, Check(a) \/ Validate(a) \/ TrimMemory(a) \/ SetupMemory(a) \/ Send(a) \/ Cancel(a)
       PROVE  OrdersInv'
  BY <1>1, <1>12, Zenon DEF Check, Validate, TrimMemory, SetupMemory, Send, Cancel, adderOnly, stored
<1> QED
  BY <1>2, <1>3, <1>5, <1>6, <1>7, <1>8, <1>9, <1>10, <1>11, <1>12, Zenon DEF Next

\* A call that moves on keeps what it has accepted; restarted, there are none.
LEMMA StepCalls == WatchInv /\ [Next]_vars => CallsInv'
<1> SUFFICES ASSUME WatchInv, [Next]_vars PROVE CallsInv'
  OBVIOUS
<1>0. CallsInv
  BY DEF WatchInv
<1>1. CASE adder' = adder
  BY <1>0, <1>1 DEF CallsInv
<1>2. ASSUME NEW a \in Adder, NEW state, IsCall(state), Become(a, state) PROVE CallsInv'
  BY <1>0, <1>2, CallMoves
<1>3. IsCall(Idle)
  BY DEF IsCall, Idle
<1>4. ASSUME NEW a \in Adder, Check(a) PROVE CallsInv'
  <2>1. PICK S \in SUBSET Order, pinned \in Pins :
          /\ Cardinality(S) <= MaxOffer
          /\ Become(a, [pc |-> "checked", batch |-> S, pinned |-> pinned])
    BY <1>4 DEF Check
  <2>2. pinned \in BOOLEAN
    BY SizeAssumption
  <2>3. IsCall([pc |-> "checked", batch |-> S, pinned |-> pinned])
    BY <2>1, <2>2 DEF IsCall
  <2> QED BY <1>2, <2>1, <2>3
<1>5. ASSUME NEW a \in Adder, Validate(a) PROVE CallsInv'
  <2>1. CASE Become(a, Idle)
    BY <1>2, <1>3, <2>1
  <2>2. CASE \E S \in SUBSET adder[a].batch : \E acc \in [S -> 1..MaxAmount] :
                Become(a, [pc |-> "locked", acc |-> acc, pinned |-> adder[a].pinned])
    <3>1. PICK S \in SUBSET adder[a].batch : \E acc \in [S -> 1..MaxAmount] :
                Become(a, [pc |-> "locked", acc |-> acc, pinned |-> adder[a].pinned])
      BY <2>2, Zenon
    <3>2. PICK acc \in [S -> 1..MaxAmount] :
                Become(a, [pc |-> "locked", acc |-> acc, pinned |-> adder[a].pinned])
      BY <3>1, Zenon
    <3>3. /\ adder[a].batch \subseteq Order /\ Cardinality(adder[a].batch) <= MaxOffer
          /\ adder[a].pinned \in BOOLEAN
      BY <1>0, <1>5 DEF Validate, CallsInv, IsCall
    <3>4. Cardinality(S) <= MaxOffer
      <4>1. IsFiniteSet(adder[a].batch)
        BY <3>3, OrderAssumption, FS_Subset
      <4>2. Cardinality(S) <= Cardinality(adder[a].batch) /\ Cardinality(S) \in Nat /\ Cardinality(adder[a].batch) \in Nat
        BY <4>1, FS_Subset, FS_CardinalityType
      <4> QED BY <3>3, <4>2, SizeAssumption
    <3>5. Accepts(acc)
      <4>1. DOMAIN acc = S /\ S \subseteq Order /\ \A o \in S : acc[o] \in 1..MaxAmount
        BY <3>3
      <4> QED BY <3>4, <4>1 DEF Accepts
    <3>6. IsCall([pc |-> "locked", acc |-> acc, pinned |-> adder[a].pinned])
      BY <3>3, <3>5 DEF IsCall
    <3> QED BY <1>2, <3>2, <3>6
  <2> QED BY <1>5, <2>1, <2>2, Zenon DEF Validate
<1>6. ASSUME NEW a \in Adder, adder[a].pc \in {"locked", "trimmed", "ready", "inserted"}, NEW pc \in {"trimmed", "ready", "inserted"},
             NEW state, state.pc = pc, state.acc = adder[a].acc, state.pinned = adder[a].pinned, Become(a, state)
      PROVE  CallsInv'
  <2>1. Accepts(adder[a].acc) /\ adder[a].pinned \in BOOLEAN
    BY <1>0, <1>6 DEF CallsInv, IsCall
  <2>2. IsCall(state)
    BY <1>6, <2>1 DEF IsCall
  <2> QED BY <1>2, <1>6, <2>2
<1>7. ASSUME NEW a \in Adder, Trim(a) PROVE CallsInv'
  <2>1. /\ adder[a].pc = "locked"
        /\ \/ Become(a, Idle)
           \/ Become(a, [pc |-> "ready", acc |-> adder[a].acc, out |-> Nothing, pinned |-> adder[a].pinned])
           \/ \E R, last : Become(a, [pc |-> "trimmed", acc |-> adder[a].acc, pinned |-> adder[a].pinned,
                                      gone |-> R, last |-> last])
    BY <1>7, Zenon DEF Trim
  <2>2. CASE Become(a, Idle)
    BY <1>2, <1>3, <2>2
  <2>3. CASE Become(a, [pc |-> "ready", acc |-> adder[a].acc, out |-> Nothing, pinned |-> adder[a].pinned])
    BY <1>6, <2>1, <2>3
  <2>4. CASE \E R, last : Become(a, [pc |-> "trimmed", acc |-> adder[a].acc, pinned |-> adder[a].pinned,
                                      gone |-> R, last |-> last])
    BY <1>6, <2>1, <2>4
  <2> QED BY <2>1, <2>2, <2>3, <2>4, Zenon
<1>8. ASSUME NEW a \in Adder, TrimMemory(a) PROVE CallsInv'
  BY <1>6, <1>8 DEF TrimMemory
<1>9. ASSUME NEW a \in Adder, NEW out, Become(a, [pc |-> "sending", out |-> out]) PROVE CallsInv'
  BY <1>2, <1>9 DEF IsCall
<1>10. ASSUME NEW a \in Adder, Insert(a) PROVE CallsInv'
  <2>1. /\ adder[a].pc = "ready"
        /\ \/ \E out : Become(a, [pc |-> "sending", out |-> out])
           \/ Become(a, [pc |-> "inserted", acc |-> adder[a].acc, pinned |-> adder[a].pinned, out |-> adder[a].out])
    BY <1>10, Zenon DEF Insert
  <2>2. CASE Become(a, [pc |-> "inserted", acc |-> adder[a].acc, pinned |-> adder[a].pinned, out |-> adder[a].out])
    <3>1. Accepts(adder[a].acc) /\ adder[a].pinned \in BOOLEAN
      BY <1>0, <2>1 DEF CallsInv, IsCall
    <3>2. IsCall([pc |-> "inserted", acc |-> adder[a].acc, pinned |-> adder[a].pinned, out |-> adder[a].out])
      BY <3>1 DEF IsCall
    <3> QED BY <1>2, <2>2, <3>2
  <2> QED BY <1>9, <2>1, <2>2, Zenon
<1>11. ASSUME NEW a \in Adder, SetupMemory(a) PROVE CallsInv'
  <2>1. Become(a, Idle) \/ \E out : Become(a, [pc |-> "sending", out |-> out])
    BY <1>11, Zenon DEF SetupMemory
  <2> QED BY <1>2, <1>3, <1>9, <2>1, Zenon
<1>12. ASSUME NEW a \in Adder, Send(a) PROVE CallsInv'
  BY <1>2, <1>3, <1>12 DEF Send
<1>13. ASSUME NEW a \in Adder, Cancel(a) PROVE CallsInv'
  <2>1. IsCall([pc |-> "late", out |-> adder[a].out])
    BY <1>0, <1>13 DEF Cancel, CallsInv, IsCall
  <2> QED BY <1>2, <1>13, <2>1 DEF Cancel
<1>14. CASE Restart
  BY <1>3, <1>14 DEF Restart, CallsInv
<1>15. CASE TakeBatch \/ CommitOrders \/ CommitHeaders \/ StartCleanup \/ FinishCleanup \/ SendCleanup
  BY <1>1, <1>15, Zenon DEF TakeBatch, CommitOrders, CommitHeaders, StartCleanup, FinishCleanup, SendCleanup
<1>16. CASE FindStaleRemoved \/ (\E o \in Order : DeleteStaleRemoved(o)) \/ IncreaseMaxExp \/ CompleteStart \/ Tick
  BY <1>1, <1>16, Zenon DEF FindStaleRemoved, DeleteStaleRemoved, IncreaseMaxExp, CompleteStart, Tick
<1>17. CASE Stopped \/ UNCHANGED vars
  BY <1>1, <1>17, Zenon DEF Stopped, vars
<1> QED
  BY <1>4, <1>5, <1>7, <1>8, <1>10, <1>11, <1>12, <1>13, <1>14, <1>15, <1>16, <1>17, Zenon DEF Next

\* The steps of the calls that hold the lock.
HolderStep(a) == Trim(a) \/ TrimMemory(a) \/ Insert(a) \/ SetupMemory(a) \/ Cancel(a)

\* They leave the other goroutines alone, and keep block events from being handled.
LEMMA HolderFacts ==
    ASSUME NEW a \in Adder, HolderStep(a)
    PROVE  adder[a].pc \in Holding /\ main' = main /\ cleanup' = cleanup /\ ~NoReader
<1>1. adder[a].pc \in {"locked", "trimmed", "ready", "inserted", "sending"}
  BY Zenon DEF HolderStep, Trim, TrimMemory, Insert, SetupMemory, Cancel
<1>2. main' = main /\ cleanup' = cleanup
  BY Zenon DEF HolderStep, Trim, TrimMemory, Insert, SetupMemory, Cancel, adderOnly
<1> QED BY <1>1, <1>2 DEF Holding, NoReader

\* The lock excludes the handling of block events and everything else.
LEMMA StepLocks == WatchInv /\ [Next]_vars => LocksInv'
<1> SUFFICES ASSUME WatchInv, [Next]_vars PROVE LocksInv'
  OBVIOUS
<1>0. LocksInv /\ CallsInv
  BY DEF WatchInv
<1>1. CASE main'.pc \notin {"begun", "committed"}
  BY <1>1 DEF LocksInv
<1>2. CASE adder' = adder /\ (cleanup' = cleanup \/ cleanup'.pc \in {"idle", "waiting"}) /\ (main' = main \/ NoReader)
  BY <1>0, <1>2 DEF LocksInv, NoReader
<1>3. ASSUME NEW a \in Adder, HolderStep(a) PROVE LocksInv'
  BY <1>0, <1>1, <1>3, HolderFacts DEF LocksInv
<1>4. ASSUME NEW a \in Adder, Validate(a) PROVE LocksInv'
  BY <1>1, <1>4 DEF Validate, NoWriter, adderOnly
<1>5. ASSUME NEW a \in Adder, NEW state, state.pc \notin Holding, Become(a, state), main' = main, cleanup' = cleanup
      PROVE  LocksInv'
  <2>1. \A b \in Adder : adder'[b].pc \in Holding => adder[b].pc \in Holding
    BY <1>0, <1>5 DEF Become, CallsInv
  <2> QED BY <1>0, <1>5, <2>1 DEF LocksInv, NoReader
<1>6. ASSUME NEW a \in Adder, Check(a) PROVE LocksInv'
  BY <1>5, <1>6 DEF Check, adderOnly, Holding
<1>7. ASSUME NEW a \in Adder, Send(a) PROVE LocksInv'
  BY <1>5, <1>7 DEF Send, Idle, Holding
<1>8. CASE TakeBatch
  BY <1>2, <1>8, Zenon DEF TakeBatch
<1>9. CASE CommitOrders
  <2>1. main.pc = "begun" /\ adder' = adder /\ cleanup' = cleanup
    BY <1>9, Zenon DEF CommitOrders
  <2> QED BY <1>0, <1>2, <2>1 DEF LocksInv
<1>10. CASE CommitHeaders
  BY <1>1, <1>10 DEF CommitHeaders, Idle
<1>11. CASE StartCleanup
  <2>1. main.pc \notin {"begun", "committed"} /\ (main' = main \/ main' = [pc |-> "stopped"])
    BY <1>11 DEF StartCleanup, NoWriter
  <2> QED BY <1>1, <2>1
<1>12. CASE FinishCleanup
  <2>1. cleanup.pc = "begun" /\ (main' = main \/ main' = [pc |-> "stopped"])
    BY <1>12, Zenon DEF FinishCleanup
  <2>2. ~NoReader
    BY <2>1 DEF NoReader
  <2> QED BY <1>0, <1>1, <2>1, <2>2 DEF LocksInv
<1>13. CASE SendCleanup \/ Tick
  BY <1>2, <1>13 DEF SendCleanup, Tick, Waiting, Idle
<1>14. CASE FindStaleRemoved \/ (\E o \in Order : DeleteStaleRemoved(o)) \/ IncreaseMaxExp \/ CompleteStart
  BY <1>2, <1>14, Zenon DEF FindStaleRemoved, DeleteStaleRemoved, IncreaseMaxExp, CompleteStart
<1>15. CASE Stopped \/ UNCHANGED vars
  BY <1>2, <1>15, Zenon DEF Stopped, vars
<1>16. CASE Restart
  <2>1. main' = Idle \/ main' = [pc |-> "failed"]
    BY <1>16, Zenon DEF Restart
  <2> QED BY <1>1, <2>1 DEF Idle
<1> QED
  BY <1>3, <1>4, <1>6, <1>7, <1>8, <1>9, <1>10, <1>11, <1>12, <1>13, <1>14, <1>15, <1>16, Zenon DEF Next, HolderStep

\* While block events are handled, the orders at most grow older and the tree is
\* left alone.
LEMMA Frozen ==
    ASSUME WatchInv, Next, main.pc = "begun", main'.pc = "begun"
    PROVE  /\ main' = main /\ tree' = tree /\ Stored' = Stored
           /\ \A o \in Stored : orders'[o].amount = orders[o].amount
<1>0. OrdersInv /\ NoReader /\ ~NoTransaction /\ ~NoWriter
  BY DEF WatchInv, LocksInv, NoTransaction, NoWriter
<1>1. CASE main' = main /\ tree' = tree /\ orders' = orders
  BY <1>1 DEF Stored
<1>2. CASE Tick
  <2>1. main' = main /\ tree' = tree
    BY <1>2 DEF Tick
  <2>2. Stored' = Stored /\ \A o \in Stored : orders'[o].amount = orders[o].amount
    BY <1>0, <1>2, AgedCollection
  <2> QED BY <2>1, <2>2
<1>3. ASSUME NEW a \in Adder PROVE ~HolderStep(a)
  BY <1>0, HolderFacts
<1>4. ASSUME NEW a \in Adder PROVE ~Validate(a)
  BY <1>0 DEF Validate
<1>5. ASSUME NEW a \in Adder, Check(a) \/ Send(a) PROVE main' = main /\ tree' = tree /\ orders' = orders
  BY <1>5, Zenon DEF Check, Send, adderOnly, stored
<1>6. ~TakeBatch /\ ~CommitHeaders
  BY Zenon DEF TakeBatch, CommitHeaders
<1>7. ~CommitOrders
  <2>1. CommitOrders => \/ main' = [pc |-> "stopped"]
                        \/ \E h, out : main' = [pc |-> "committed", headers |-> h, out |-> out]
    BY Zenon DEF CommitOrders
  <2> QED BY <2>1
<1>8. ~StartCleanup /\ ~FinishCleanup /\ ~SendCleanup
  <2>1. cleanup.pc \in {"idle", "waiting"}
    BY <1>0 DEF NoReader
  <2>2. ~StartCleanup
    BY <1>0, Zenon DEF StartCleanup
  <2>3. ~FinishCleanup
    BY <2>1, Zenon DEF FinishCleanup
  <2>4. ~SendCleanup
    BY <2>1 DEF SendCleanup
  <2> QED BY <2>2, <2>3, <2>4
<1>9. \A o \in Order : ~DeleteStaleRemoved(o)
  BY <1>0, Zenon DEF DeleteStaleRemoved
<1>10. CASE FindStaleRemoved \/ IncreaseMaxExp \/ CompleteStart \/ Stopped
  BY <1>1, <1>10, Zenon DEF FindStaleRemoved, IncreaseMaxExp, CompleteStart, Stopped, vars, stored
<1>11. ~Restart
  <2>1. Restart => main' = Idle \/ main' = [pc |-> "failed"]
    BY Zenon DEF Restart
  <2> QED BY <2>1 DEF Idle
<1> QED
  BY <1>1, <1>2, <1>3, <1>4, <1>5, <1>6, <1>7, <1>8, <1>9, <1>10, <1>11, Zenon DEF Next, HolderStep

\* What handleOrderExpirations has prepared stays true until it is committed.
LEMMA StepBatch == WatchInv /\ [Next]_vars => BatchInv'
<1> SUFFICES ASSUME WatchInv, [Next]_vars, main'.pc = "begun" PROVE BatchInv'
  BY DEF BatchInv
<1>0. BatchInv
  BY DEF WatchInv
<1>1. CASE UNCHANGED vars
  <2>1. main' = main /\ tree' = tree /\ orders' = orders
    BY <1>1 DEF vars, stored
  <2> QED BY <1>0, <2>1 DEF BatchInv, Stored
<1>2. CASE main.pc = "begun" /\ Next
  <2>1. /\ main' = main /\ tree' = tree /\ Stored' = Stored
        /\ \A o \in Stored : orders'[o].amount = orders[o].amount
    BY <1>2, Frozen
  <2> QED BY <1>0, <1>2, <2>1 DEF BatchInv
<1>3. CASE main.pc # "begun" /\ Next
  <2>1. main' # main
    BY <1>3
  <2>2. TakeBatch
    <3>1. main' # Idle /\ main' # [pc |-> "stopped"] /\ main' # [pc |-> "failed"]
      BY DEF Idle
    <3>2. ~CommitOrders /\ ~CommitHeaders
      BY <1>3, <3>1, Zenon DEF CommitOrders, CommitHeaders
    <3>3. ~StartCleanup /\ ~FinishCleanup /\ ~SendCleanup
      BY <2>1, <3>1, Zenon DEF StartCleanup, FinishCleanup, SendCleanup
    <3>4. ~FindStaleRemoved /\ ~(\E o \in Order : DeleteStaleRemoved(o)) /\ ~IncreaseMaxExp /\ ~CompleteStart /\ ~Tick
      BY <2>1, Zenon DEF FindStaleRemoved, DeleteStaleRemoved, IncreaseMaxExp, CompleteStart, Tick
    <3>5. ~Restart /\ ~Stopped
      BY <2>1, <3>1, Zenon DEF Restart, Stopped, vars
    <3>6. \A a \in Adder : ~HolderStep(a)
      BY <2>1, HolderFacts, Zenon
    <3>7. \A a \in Adder : ~Check(a) /\ ~Validate(a) /\ ~Send(a)
      BY <2>1, Zenon DEF Check, Validate, Send, adderOnly
    <3> QED BY <1>3, <3>2, <3>3, <3>4, <3>5, <3>6, <3>7, Zenon DEF Next, HolderStep
  <2>3. PICK walk \in Batches[stack], S \in SUBSET Stored :
          LET e == walk.events
              prev == Latest(headers)
              ts == LatestTimestamp(e)
              pruned == IF prev = NoBlock \/ (prev # NoBlock /\ Time[prev] < ts)
                        THEN Prune(ts) ELSE {}
              unexpired == IF prev # NoBlock /\ Time[prev] > ts
                           THEN Unexpired(ts) \ S ELSE {}
          IN  /\ main' = [pc |-> "begun", ts |-> ts, reval |-> S,
                          expired |-> (pruned \cap Stored) \ S,
                          unexpired |-> unexpired,
                          lost |-> pruned \cap S,
                          headers |-> UpdateHeaders(headers, e)]
              /\ tree' = (tree \ pruned) \cup unexpired
    BY <2>2, Zenon DEF TakeBatch
  <2> DEFINE ts == LatestTimestamp(walk.events)
             prev == Latest(headers)
             pruned == IF prev = NoBlock \/ (prev # NoBlock /\ Time[prev] < ts) THEN Prune(ts) ELSE {}
             unexpired == IF prev # NoBlock /\ Time[prev] > ts THEN Unexpired(ts) \ S ELSE {}
  <2>4. orders' = orders /\ Stored' = Stored
    BY <2>2, Zenon DEF TakeBatch, stored, Stored
  <2>5. \A o \in pruned : ~NotExpired(o, ts)
    BY DEF Prune, NotExpired
  <2>6. \A o \in unexpired : o \in Stored \ S /\ orders[o].amount # 0
    BY DEF Unexpired
  <2>7. /\ main' = [pc |-> "begun", ts |-> ts, reval |-> S, expired |-> (pruned \cap Stored) \ S,
                    unexpired |-> unexpired, lost |-> pruned \cap S,
                    headers |-> UpdateHeaders(headers, walk.events)]
        /\ tree' = (tree \ pruned) \cup unexpired
    BY <2>3, Zenon
  <2> HIDE DEF pruned, unexpired, ts, prev
  <2>8. /\ main'.reval = S /\ main'.expired = (pruned \cap Stored) \ S /\ main'.unexpired = unexpired
        /\ main'.lost = pruned \cap S /\ main'.ts = ts /\ unexpired \subseteq tree'
    BY <2>7
  <2> QED BY <2>4, <2>5, <2>6, <2>8 DEF BatchInv
<1> QED BY <1>1, <1>2, <1>3

\* The orders that Cleanup has found stay stored until it is done with them.
LEMMA StepCleanup == WatchInv /\ [Next]_vars => CleanupInv'
<1> SUFFICES ASSUME WatchInv, [Next]_vars, cleanup'.pc = "begun" PROVE CleanupInv'
  BY DEF CleanupInv
<1>0. OrdersInv /\ LocksInv /\ CleanupInv
  BY DEF WatchInv
<1>1. CASE StartCleanup
  <2>1. orders' = orders /\ (cleanup' = cleanup \/ \E cutoff : cleanup' = [pc |-> "begun", found |-> {o \in Stored : orders[o].age >= cutoff}])
    BY <1>1, Zenon DEF StartCleanup, stored
  <2>2. CASE cleanup' = cleanup
    BY <1>0, <2>1, <2>2 DEF CleanupInv, Stored
  <2>3. CASE \E cutoff : cleanup' = [pc |-> "begun", found |-> {o \in Stored : orders[o].age >= cutoff}]
    <3>1. cleanup'.found \subseteq Stored /\ Stored' = Stored
      BY <2>1, <2>3 DEF Stored
    <3> QED BY <3>1 DEF CleanupInv
  <2> QED BY <2>1, <2>2, <2>3
<1>2. CASE ~StartCleanup
  <2>1. cleanup' # Waiting /\ cleanup' # Idle
    BY DEF Waiting, Idle
  <2>2. ~SendCleanup /\ ~Restart
    BY <2>1, Zenon DEF SendCleanup, Restart
  <2>3. ~FinishCleanup
    <3>1. FinishCleanup => cleanup' = Waiting \/ \E out : cleanup' = [pc |-> "sending", out |-> out]
      BY Zenon DEF FinishCleanup
    <3> QED BY <2>1, <3>1
  <2>4. CASE Tick
    <3>1. cleanup' = cleanup /\ Stored' = Stored
      BY <1>0, <2>1, <2>4, AgedCollection DEF Tick
    <3> QED BY <1>0, <3>1 DEF CleanupInv
  <2>5. ASSUME cleanup' = cleanup PROVE cleanup.pc = "begun" /\ ~NoTransaction /\ ~NoReader /\ main.pc # "begun"
    BY <1>0, <2>5 DEF NoTransaction, NoReader, LocksInv
  <2>6. CASE cleanup' = cleanup /\ orders' = orders
    BY <1>0, <2>6 DEF CleanupInv, Stored
  <2>7. CASE TakeBatch \/ CommitHeaders \/ FindStaleRemoved \/ IncreaseMaxExp \/ CompleteStart \/ Stopped \/ UNCHANGED vars
    BY <2>6, <2>7, Zenon DEF TakeBatch, CommitHeaders, FindStaleRemoved, IncreaseMaxExp, CompleteStart, Stopped, vars, stored
  <2>8. ~CommitOrders
    BY <2>5, Zenon DEF CommitOrders
  <2>9. ~\E o \in Order : DeleteStaleRemoved(o)
    BY <2>5, Zenon DEF DeleteStaleRemoved
  <2>10. ASSUME NEW a \in Adder, Check(a) \/ Validate(a) \/ TrimMemory(a) \/ SetupMemory(a) \/ Send(a) \/ Cancel(a)
         PROVE  CleanupInv'
    BY <2>6, <2>10, Zenon DEF Check, Validate, TrimMemory, SetupMemory, Send, Cancel, adderOnly, stored
  <2>11. ASSUME NEW a \in Adder, Trim(a) PROVE CleanupInv'
    <3>1. cleanup' = cleanup /\ (orders' = orders \/ NoTransaction)
      BY <2>11, Zenon DEF Trim
    <3> QED BY <2>5, <2>6, <3>1
  <2>12. \A a \in Adder : ~Insert(a)
    BY <2>5, Zenon DEF Insert
  <2> QED
    BY <1>2, <2>2, <2>3, <2>4, <2>7, <2>8, <2>9, <2>10, <2>11, <2>12, Zenon DEF Next
<1> QED BY <1>1, <1>2

\* Nothing is stored, watched or under way in the beginning.
LEMMA InitWatchInv == Init => WatchInv
<1> SUFFICES ASSUME Init PROVE WatchInv
  OBVIOUS
<1>1. OrdersInv
  BY DEF Init, OrdersInv, Collection, Fillable
<1>2. CallsInv
  BY DEF Init, CallsInv, IsCall, Idle
<1>3. main.pc = "idle" /\ cleanup.pc = "waiting"
  BY DEF Init, Idle, Waiting
<1> QED BY <1>1, <1>2, <1>3 DEF WatchInv, LocksInv, BatchInv, CleanupInv

\* The inductive invariant, all parts of which need one another.
LEMMA StepWatchInv == WatchInv /\ [Next]_vars => WatchInv'
BY StepOrders, StepCalls, StepLocks, StepBatch, StepCleanup DEF WatchInv

-----------------------------------------------------------------------------
(***************************************************************************)
(* Room.  A call that has found room, or has made it, may still insert     *)
(* MaxOffer orders; nobody else makes the collection grow.                 *)
(***************************************************************************)
Armed == {a \in Adder : adder[a].pc \in {"trimmed", "ready"}}

RoomInv ==
    Cardinality(Stored) + MaxOffer * Cardinality(Armed) < MaxOrders + MaxOffer * Cardinality(Adder)

\* The sizes are numbers.
LEMMA Sizes ==
    /\ IsFiniteSet(Stored) /\ Cardinality(Stored) \in Nat
    /\ IsFiniteSet(Armed) /\ Cardinality(Armed) \in Nat /\ Cardinality(Armed) <= Cardinality(Adder)
    /\ IsFiniteSet(Adder) /\ Cardinality(Adder) \in Nat
    /\ MaxOffer \in Nat \ {0} /\ MaxOrders \in Nat \ {0} /\ Target \in 0..(MaxOrders - 1)
<1>1. MaxOffer \in Nat \ {0} /\ MaxOrders \in Nat \ {0} /\ Target \in 0..(MaxOrders - 1) /\ IsFiniteSet(Adder)
  BY SizeAssumption
<1>2. Stored \subseteq Order /\ Armed \subseteq Adder
  BY DEF Stored, Armed
<1>3. IsFiniteSet(Stored) /\ IsFiniteSet(Armed) /\ Cardinality(Armed) <= Cardinality(Adder)
  BY <1>1, <1>2, OrderAssumption, FS_Subset
<1>4. Cardinality(Stored) \in Nat /\ Cardinality(Armed) \in Nat /\ Cardinality(Adder) \in Nat
  BY <1>1, <1>3, FS_CardinalityType
<1> QED BY <1>1, <1>3, <1>4

\* Multiples grow with their factor.
LEMMA Multiples ==
    ASSUME NEW m \in Nat, NEW x \in Nat, NEW y \in Nat, x <= y
    PROVE  m * x \in Nat /\ m * y \in Nat /\ m * x <= m * y
<1>1. PICK d \in Nat : y = x + d
  BY y - x \in Nat
<1>2. m * (x + d) = m * x + m * d /\ m * d \in Nat /\ m * x \in Nat
  OBVIOUS
<1> QED BY <1>1, <1>2

\* A revalidation stores nothing new and deletes no order that was not removed.
LEMMA RevalidationStores ==
    ASSUME WatchInv, CommitOrders \/ FinishCleanup
    PROVE  Stored' \subseteq Stored /\ Live \subseteq Stored'
<1>0. OrdersInv /\ BatchInv /\ CleanupInv
  BY DEF WatchInv
<1>1. CASE orders' = orders
  BY <1>1 DEF Stored, Live
<1>2. CASE CommitOrders
  <2>1. PICK txn, S, res :
          /\ main.pc = "begun" /\ txn = [o \in Order |-> InTransaction(o)]
          /\ S = {o \in main.reval : ~IsDead(orders[o])} /\ res \in Results(S, main.ts)
          /\ orders' = orders \/ orders' = Revalidated(txn, main.reval, res, main.ts)
    BY <1>2, Zenon DEF CommitOrders
  <2>2. CASE orders' = Revalidated(txn, main.reval, res, main.ts)
    <3>1. txn \in Collection /\ Fillable(txn) /\ \A o \in Order : txn[o] # NoOrder <=> orders[o] # NoOrder
      BY <1>0, <2>1, TransactionCollection
    <3>2. main.reval \in SUBSET Order /\ S \in SUBSET main.reval /\ \A o \in S : txn[o] # NoOrder
      BY <1>0, <2>1, CommitFacts
    <3>3. res \in Results(S, main.ts)
      BY <2>1
    <3>4. Keeps(orders', txn, main.reval, S)
      BY <2>2, <3>1, <3>2, <3>3, RevalidatedCollection
    <3> QED BY <2>1, <3>1, <3>4 DEF Keeps, Stored, Live, IsDead
  <2> QED BY <1>1, <2>1, <2>2
<1>3. CASE FinishCleanup
  <2>1. PICK ts, S, res :
          /\ cleanup.pc = "begun"
          /\ S = {o \in cleanup.found : ~IsDead(orders[o])} /\ res \in Results(S, ts)
          /\ orders' = orders \/ orders' = Revalidated(orders, cleanup.found, res, ts)
    BY <1>3, Zenon DEF FinishCleanup
  <2>2. CASE orders' = Revalidated(orders, cleanup.found, res, ts)
    <3>1. orders \in Collection /\ Fillable(orders)
      BY <1>0 DEF OrdersInv
    <3>2. cleanup.found \in SUBSET Order /\ S \in SUBSET cleanup.found /\ \A o \in S : orders[o] # NoOrder
      BY <1>0, <2>1 DEF CleanupInv, Stored
    <3>3. res \in Results(S, ts)
      BY <2>1
    <3>4. Keeps(orders', orders, cleanup.found, S)
      BY <2>2, <3>1, <3>2, <3>3, RevalidatedCollection
    <3> QED BY <2>1, <3>4 DEF Keeps, Stored, Live, IsDead
  <2> QED BY <1>1, <2>1, <2>2
<1> QED BY <1>2, <1>3

\* Only insertions make the collection grow, and only making room arms a call.
LEMMA RoomSteps ==
    ASSUME WatchInv, [Next]_vars
    PROVE  \/ Stored' \subseteq Stored /\ Armed' \subseteq Armed
           \/ \E a \in Adder : Trim(a) \/ Insert(a)
<1>0. OrdersInv /\ CallsInv
  BY DEF WatchInv
<1>1. ASSUME adder' = adder, orders' = orders PROVE Stored' \subseteq Stored /\ Armed' \subseteq Armed
  BY <1>1 DEF Stored, Armed
<1>2. ASSUME adder' = adder PROVE Armed' \subseteq Armed
  BY <1>2 DEF Armed
<1>3. ASSUME NEW a \in Adder, NEW state, Become(a, state), orders' = orders,
             state.pc \notin {"trimmed", "ready"} \/ a \in Armed
      PROVE  Stored' \subseteq Stored /\ Armed' \subseteq Armed
  BY <1>0, <1>3 DEF Stored, Armed, Become, CallsInv
<1>4. CASE CommitOrders \/ FinishCleanup
  <2>1. adder' = adder
    BY <1>4, Zenon DEF CommitOrders, FinishCleanup
  <2> QED BY <1>2, <1>4, <2>1, RevalidationStores
<1>5. ASSUME NEW o \in Order, DeleteStaleRemoved(o) PROVE Stored' \subseteq Stored /\ Armed' \subseteq Armed
  <2>1. orders' = [orders EXCEPT ![o] = NoOrder] /\ adder' = adder
    BY <1>5 DEF DeleteStaleRemoved
  <2> QED BY <1>0, <1>2, <2>1 DEF Stored, OrdersInv, Collection
<1>6. CASE Tick
  <2>1. adder' = adder
    BY <1>6 DEF Tick
  <2> QED BY <1>0, <1>2, <1>6, <2>1, AgedCollection
<1>7. CASE Restart
  <2>1. adder' = [a \in Adder |-> Idle] /\ \E R : orders' = Without(R)
    BY <1>7, Zenon DEF Restart
  <2>2. Stored' \subseteq Stored
    BY <2>1 DEF Stored, Without
  <2> QED BY <2>1, <2>2 DEF Armed, Idle
<1>8. CASE TakeBatch \/ CommitHeaders \/ StartCleanup \/ SendCleanup \/ FindStaleRemoved \/ IncreaseMaxExp
  BY <1>1, <1>8, Zenon DEF TakeBatch, CommitHeaders, StartCleanup, SendCleanup, FindStaleRemoved, IncreaseMaxExp, stored
<1>9. CASE CompleteStart \/ Stopped \/ UNCHANGED vars
  BY <1>1, <1>9, Zenon DEF CompleteStart, Stopped, vars, stored
<1>10. ASSUME NEW a \in Adder, Check(a) \/ Validate(a) \/ SetupMemory(a) \/ Send(a) \/ Cancel(a)
       PROVE  Stored' \subseteq Stored /\ Armed' \subseteq Armed
  <2>1. /\ orders' = orders
        /\ \/ \E b, p : Become(a, [pc |-> "checked", batch |-> b, pinned |-> p])
           \/ \E c, p : Become(a, [pc |-> "locked", acc |-> c, pinned |-> p])
           \/ Become(a, Idle)
           \/ \E out : Become(a, [pc |-> "sending", out |-> out])
           \/ Become(a, [pc |-> "late", out |-> adder[a].out]) /\ adder[a].pc = "sending"
    BY <1>10, Zenon DEF Check, Validate, SetupMemory, Send, Cancel, adderOnly, stored
  <2>2. CASE Become(a, [pc |-> "late", out |-> adder[a].out]) /\ adder[a].pc = "sending"
    <3>1. \A b \in Adder : adder'[b].pc \in {"trimmed", "ready"} => adder[b].pc \in {"trimmed", "ready"}
      <4>1. DOMAIN adder = Adder /\ IsCall(adder[a])
        BY <1>0 DEF CallsInv
      <4>2. adder'[a].pc # "trimmed" /\ adder'[a].pc # "ready"
        BY <2>2, <4>1 DEF Become
      <4>3. \A b \in Adder \ {a} : adder'[b] = adder[b]
        BY <2>2, <4>1 DEF Become
      <4> QED BY <4>2, <4>3
    <3> QED BY <2>1, <3>1, Zenon DEF Stored, Armed
  <2> QED BY <1>3, <2>1, <2>2, Zenon DEF Idle
<1>11. ASSUME NEW a \in Adder, TrimMemory(a) PROVE Stored' \subseteq Stored /\ Armed' \subseteq Armed
  <2>1. /\ orders' = orders /\ adder[a].pc = "trimmed"
        /\ \E state : Become(a, state)
    BY <1>11, Zenon DEF TrimMemory
  <2> QED BY <1>3, <2>1 DEF Armed
<1> QED
  BY <1>4, <1>5, <1>6, <1>7, <1>8, <1>9, <1>10, <1>11, Zenon DEF Next

\* Making room leaves fewer than MaxOrders orders.
LEMMA TrimRoom ==
    ASSUME WatchInv, RoomInv, NEW a \in Adder, Trim(a)
    PROVE  (Stored' \subseteq Stored /\ Armed' \subseteq Armed) \/ Cardinality(Stored') < MaxOrders
<1>0. OrdersInv /\ CallsInv
  BY DEF WatchInv
<1>1. CASE ~Full /\ orders' = orders
  BY <1>1, Sizes DEF Full, Stored
<1>2. CASE \E R \in TrimSets : /\ orders' = Without(R)
                               /\ (Cardinality(R) < Excess /\ Become(a, Idle)) \/ ~(Cardinality(R) < Excess)
  <2>1. PICK R \in TrimSets : /\ orders' = Without(R)
                              /\ (Cardinality(R) < Excess /\ Become(a, Idle)) \/ ~(Cardinality(R) < Excess)
    BY <1>2
  <2>2. R \subseteq Stored /\ Stored' = Stored \ R
    BY <2>1, Zenon DEF TrimSets, Removable, Stored, Without
  <2>3. CASE Become(a, Idle)
    <3>1. Armed' \subseteq Armed
      BY <1>0, <2>3 DEF Armed, Become, CallsInv, Idle
    <3> QED BY <2>2, <3>1
  <2>4. CASE ~(Cardinality(R) < Excess)
    <3>1. IsFiniteSet(R) /\ Cardinality(R) \in Nat
      BY <2>2, Sizes, FS_Subset, FS_CardinalityType
    <3>2. Cardinality(R) <= Excess
      BY DEF TrimSets
    <3>3. Cardinality(R) = Cardinality(Stored) - Target
      BY <2>4, <3>1, <3>2, Sizes DEF Excess
    <3>4. Cardinality(Stored \ R) = Cardinality(Stored) - Cardinality(R)
      <4>1. Stored \cap R = R
        BY <2>2
      <4> QED BY <4>1, Sizes, FS_Difference, Zenon
    <3> QED BY <2>2, <3>1, <3>3, <3>4, Sizes
  <2> QED BY <2>1, <2>3, <2>4
<1> QED BY <1>1, <1>2, Zenon DEF Trim

\* An insertion uses up the allowance of its call.
LEMMA InsertRoom ==
    ASSUME WatchInv, RoomInv, NEW a \in Adder, Insert(a)
    PROVE  RoomInv'
<1>0. CallsInv
  BY DEF WatchInv
<1>1. PICK new \in SUBSET DOMAIN adder[a].acc :
          orders' = orders \/ orders' = [o \in Order |-> IF o \in new THEN Fresh(adder[a].acc[o], adder[a].pinned) ELSE orders[o]]
  BY Zenon DEF Insert
<1>2. adder[a].pc = "ready" /\ a \in Armed /\ Accepts(adder[a].acc)
  BY <1>0, Zenon DEF Insert, Armed, CallsInv, IsCall
<1>3. Armed' \subseteq Armed \ {a}
  <2>1. \/ Become(a, [pc |-> "inserted", acc |-> adder[a].acc, pinned |-> adder[a].pinned, out |-> adder[a].out])
        \/ \E out : Become(a, [pc |-> "sending", out |-> out])
    BY Zenon DEF Insert
  <2>2. DOMAIN adder = Adder /\ IsCall(adder[a])
    BY <1>0 DEF CallsInv
  <2>3. \A b \in Adder \ {a} : adder'[b] = adder[b]
    BY <2>1, <2>2 DEF Become
  <2>4. CASE Become(a, [pc |-> "inserted", acc |-> adder[a].acc, pinned |-> adder[a].pinned, out |-> adder[a].out])
    <3>1. adder'[a].pc # "trimmed" /\ adder'[a].pc # "ready"
      BY <2>2, <2>4 DEF Become
    <3> QED BY <2>3, <3>1 DEF Armed
  <2>5. CASE \E out : Become(a, [pc |-> "sending", out |-> out])
    <3>1. adder'[a].pc # "trimmed" /\ adder'[a].pc # "ready"
      BY <2>2, <2>5 DEF Become
    <3> QED BY <2>3, <3>1 DEF Armed
  <2> QED BY <2>1, <2>4, <2>5, Zenon
<1>4. Stored' \subseteq Stored \cup new
  BY <1>1 DEF Stored
<1>5. IsFiniteSet(new) /\ Cardinality(new) \in Nat /\ Cardinality(new) <= MaxOffer
  <2>1. new \subseteq DOMAIN adder[a].acc /\ DOMAIN adder[a].acc \subseteq Order /\ Cardinality(DOMAIN adder[a].acc) <= MaxOffer
    BY <1>1, <1>2 DEF Accepts
  <2>2. IsFiniteSet(DOMAIN adder[a].acc)
    BY <2>1, OrderAssumption, FS_Subset
  <2>3. Cardinality(new) <= Cardinality(DOMAIN adder[a].acc) /\ IsFiniteSet(new)
    BY <2>1, <2>2, FS_Subset
  <2>4. Cardinality(new) \in Nat /\ Cardinality(DOMAIN adder[a].acc) \in Nat
    BY <2>2, <2>3, FS_CardinalityType
  <2> QED BY <2>1, <2>3, <2>4, Sizes
<1>6. Cardinality(Stored') <= Cardinality(Stored) + Cardinality(new) /\ Cardinality(Stored') \in Nat
  <2>1. IsFiniteSet(Stored \cup new) /\ Cardinality(Stored \cup new) = Cardinality(Stored) + Cardinality(new) - Cardinality(Stored \cap new)
    BY <1>5, Sizes, FS_Union, Zenon
  <2>2. IsFiniteSet(Stored \cap new) /\ Cardinality(Stored \cap new) \in Nat
    <3>1. (Stored \cap new) \in SUBSET new
      OBVIOUS
    <3>2. IsFiniteSet(Stored \cap new)
      BY <1>5, <3>1, FS_Subset
    <3> QED BY <3>2, FS_CardinalityType
  <2>3. Cardinality(Stored') <= Cardinality(Stored \cup new) /\ IsFiniteSet(Stored')
    BY <1>4, <2>1, FS_Subset
  <2>4. Cardinality(Stored') \in Nat /\ Cardinality(Stored \cup new) \in Nat
    BY <2>1, <2>3, FS_CardinalityType
  <2>5. Cardinality(Stored) \in Nat
    BY Sizes
  <2> HIDE DEF Stored
  <2> QED BY <1>5, <2>1, <2>2, <2>3, <2>4, <2>5
<1>7. Cardinality(Armed') <= Cardinality(Armed) - 1 /\ Cardinality(Armed') \in Nat
  <2>1. IsFiniteSet(Armed \ {a}) /\ Cardinality(Armed \ {a}) = Cardinality(Armed) - 1
    BY <1>2, Sizes, FS_RemoveElement, Zenon
  <2>2. IsFiniteSet(Armed') /\ Cardinality(Armed') <= Cardinality(Armed \ {a})
    BY <1>3, <2>1, FS_Subset
  <2> QED BY <2>1, <2>2, FS_CardinalityType
<1>8. MaxOffer * Cardinality(Armed') + MaxOffer <= MaxOffer * Cardinality(Armed)
  <2>1. MaxOffer * (Cardinality(Armed') + 1) <= MaxOffer * Cardinality(Armed)
    BY <1>7, Sizes, Multiples
  <2>2. MaxOffer * (Cardinality(Armed') + 1) = MaxOffer * Cardinality(Armed') + MaxOffer
    BY <1>7, Sizes
  <2> QED BY <2>1, <2>2
<1>9. /\ MaxOffer * Cardinality(Armed') \in Nat /\ MaxOffer * Cardinality(Armed) \in Nat
      /\ MaxOffer * Cardinality(Adder) \in Nat
  BY <1>7, Sizes, Multiples
<1> QED BY <1>5, <1>6, <1>8, <1>9, Sizes DEF RoomInv

\* No step leaves less room than the calls need.
LEMMA StepRoom == WatchInv /\ RoomInv /\ [Next]_vars => RoomInv'
<1> SUFFICES ASSUME WatchInv, RoomInv, [Next]_vars PROVE RoomInv'
  OBVIOUS
<1>0. Armed' \subseteq Adder
  BY DEF Armed
<1>1. ASSUME Stored' \subseteq Stored, Armed' \subseteq Armed PROVE RoomInv'
  <2>1. /\ Cardinality(Stored') <= Cardinality(Stored) /\ Cardinality(Stored') \in Nat
        /\ Cardinality(Armed') <= Cardinality(Armed) /\ Cardinality(Armed') \in Nat
    BY <1>1, Sizes, FS_Subset, FS_CardinalityType
  <2>2. /\ MaxOffer * Cardinality(Armed') \in Nat /\ MaxOffer * Cardinality(Armed) \in Nat
        /\ MaxOffer * Cardinality(Armed') <= MaxOffer * Cardinality(Armed)
    BY <2>1, Sizes, Multiples
  <2>3. MaxOffer * Cardinality(Adder) \in Nat
    BY Sizes, Multiples
  <2> QED BY <2>1, <2>2, <2>3, Sizes DEF RoomInv
<1>2. ASSUME Cardinality(Stored') < MaxOrders, IsFiniteSet(Stored') PROVE RoomInv'
  <2>1. Cardinality(Armed') <= Cardinality(Adder) /\ Cardinality(Armed') \in Nat /\ Cardinality(Stored') \in Nat
    BY <1>0, <1>2, Sizes, FS_Subset, FS_CardinalityType
  <2>2. /\ MaxOffer * Cardinality(Armed') \in Nat /\ MaxOffer * Cardinality(Adder) \in Nat
        /\ MaxOffer * Cardinality(Armed') <= MaxOffer * Cardinality(Adder)
    BY <2>1, Sizes, Multiples
  <2> QED BY <1>2, <2>1, <2>2, Sizes DEF RoomInv
<1>3. IsFiniteSet(Stored')
  <2>1. Stored' \subseteq Order
    BY DEF Stored
  <2> QED BY <2>1, OrderAssumption, FS_Subset
<1>4. ASSUME NEW a \in Adder, Trim(a) PROVE RoomInv'
  BY <1>1, <1>2, <1>3, <1>4, TrimRoom
<1> QED BY <1>1, <1>4, RoomSteps, InsertRoom

\* However trims, insertions and deletions of any number of calls interleave, the
\* collection exceeds MaxOrders by less than what the calls in progress may insert
\* (add, trimOrdersAndGenerateEvents, decreaseMaxExpirationTimeIfNeeded).
THEOREM StorageCorrect == Spec => []StorageIsBounded
<1>1. Init => RoomInv
  <2> SUFFICES ASSUME Init PROVE RoomInv
    OBVIOUS
  <2>1. Stored = {} /\ Armed = {}
    BY DEF Init, Stored, Armed, Idle
  <2>2. Cardinality(Stored) = 0 /\ Cardinality(Armed) = 0
    BY <2>1, FS_EmptySet
  <2>3. MaxOffer * Cardinality(Adder) \in Nat /\ MaxOffer * Cardinality(Armed) = 0
    BY <2>2, Sizes, Multiples
  <2> QED BY <2>2, <2>3, Sizes DEF RoomInv
<1>2. RoomInv => StorageIsBounded
  <2>1. MaxOffer * Cardinality(Armed) \in Nat /\ MaxOffer * Cardinality(Adder) \in Nat
    BY Sizes, Multiples
  <2> QED BY <2>1, Sizes DEF RoomInv, StorageIsBounded
<1> QED BY <1>1, <1>2, InitWatchInv, StepWatchInv, StepRoom, PTL DEF Spec

-----------------------------------------------------------------------------
\* No step but the removed-order checker deletes a pinned order that is not removed:
\* not making room (add, New), not revalidation (generateOrderEventsIfChanged).
THEOREM PinnedCorrect == Spec => PinnedStays
<1> DEFINE Stays == \A o \in Live \ doomed : orders[o].pinned => o \in Stored'
<1>1. WatchInv /\ [Next]_vars => [Stays]_vars
  <2> SUFFICES ASSUME WatchInv, Next, NEW o \in Live \ doomed, orders[o].pinned PROVE o \in Stored'
    OBVIOUS
  <2>0. OrdersInv /\ o \in Order /\ o \in Stored /\ orders[o] # NoOrder
    BY DEF WatchInv, Live, Stored
  <2>1. CASE orders' = orders
    BY <2>0, <2>1 DEF Stored
  <2>2. ASSUME NEW R, R \in TrimSets \cup {{}}, orders' = Without(R) PROVE o \in Stored'
    <3>1. o \notin R
      BY <2>2 DEF TrimSets, Removable
    <3> QED BY <2>0, <2>2, <3>1 DEF Stored, Without
  <2>3. CASE CommitOrders \/ FinishCleanup
    BY <2>3, RevalidationStores
  <2>4. ASSUME NEW p \in Order, DeleteStaleRemoved(p) PROVE o \in Stored'
    <3>1. p # o /\ orders' = [orders EXCEPT ![p] = NoOrder]
      BY <2>4 DEF DeleteStaleRemoved
    <3> QED BY <2>0, <3>1 DEF Stored, OrdersInv, Collection
  <2>5. ASSUME NEW a \in Adder, Trim(a) PROVE o \in Stored'
    <3>1. orders' = orders \/ \E R \in TrimSets : orders' = Without(R)
      BY <2>5, Zenon DEF Trim
    <3> QED BY <2>1, <2>2, <3>1
  <2>6. CASE Restart
    <3>1. PICK R : R \in (IF Full THEN TrimSets ELSE {{}}) /\ orders' = Without(R)
      BY <2>6, Zenon DEF Restart
    <3> QED BY <2>2, <3>1
  <2>7. ASSUME NEW a \in Adder, Insert(a) PROVE o \in Stored'
    <3>1. PICK new :
            \/ orders' = orders
            \/ /\ new \cap Stored = {}
               /\ orders' = [p \in Order |-> IF p \in new THEN Fresh(adder[a].acc[p], adder[a].pinned) ELSE orders[p]]
      BY <2>7, Zenon DEF Insert
    <3> QED BY <2>0, <2>1, <3>1 DEF Stored
  <2>8. CASE Tick
    BY <2>0, <2>8, AgedCollection
  <2>9. CASE TakeBatch \/ CommitHeaders \/ StartCleanup \/ SendCleanup \/ FindStaleRemoved \/ IncreaseMaxExp
    BY <2>1, <2>9, Zenon DEF TakeBatch, CommitHeaders, StartCleanup, SendCleanup, FindStaleRemoved, IncreaseMaxExp, stored
  <2>10. CASE CompleteStart \/ Stopped
    BY <2>1, <2>10, Zenon DEF CompleteStart, Stopped, vars, stored
  <2>11. ASSUME NEW a \in Adder, Check(a) \/ Validate(a) \/ TrimMemory(a) \/ SetupMemory(a) \/ Send(a) \/ Cancel(a)
         PROVE  o \in Stored'
    BY <2>1, <2>11, Zenon DEF Check, Validate, TrimMemory, SetupMemory, Send, Cancel, adderOnly, stored
  <2> QED
    BY <2>3, <2>4, <2>5, <2>6, <2>7, <2>8, <2>9, <2>10, <2>11, Zenon DEF Next
<1> QED BY <1>1, InitWatchInv, StepWatchInv, PTL DEF Spec, PinnedStays

-----------------------------------------------------------------------------
(***************************************************************************)
(* The expiration watcher.  A live order is in it, or block events are     *)
(* being handled that have just pruned it, or the call that has stored it  *)
(* is about to add it.                                                     *)
(***************************************************************************)
InsertedBy(a, o) == adder[a].pc = "inserted" /\ o \in DOMAIN adder[a].acc

Covered(o) ==
    \/ o \in tree \cup missed
    \/ ~Running
    \/ main.pc = "begun" /\ o \in main.expired \cup main.lost
    \/ \E a \in Adder : InsertedBy(a, o)

TrackInv == \A o \in Live : Covered(o)

\* The orders a call has trimmed have not been stored again when it takes them out of
\* the expiration watcher.  (Two concurrent calls can break this: one stores an order
\* between the other's TrimOrdersByExpirationTime and its expirationWatcher.Remove.)
TrimmedStayOut == \A a \in Adder : adder[a].pc = "trimmed" => adder[a].gone \cap Stored = {}

\* A call that does not finish SetupMemory goes on vouching for what it has inserted.
LEMMA StillInserted ==
    ASSUME CallsInv, NEW a \in Adder, NEW state, Become(a, state), adder[a].pc # "inserted",
           NEW b \in Adder, NEW o, InsertedBy(b, o)
    PROVE  InsertedBy(b, o)'
<1>1. a # b /\ DOMAIN adder = Adder
  BY DEF InsertedBy, CallsInv
<1>2. adder'[b] = adder[b]
  BY <1>1 DEF Become
<1> QED BY <1>2 DEF InsertedBy

\* And it starts to when it inserts them.
LEMMA NowInserted ==
    ASSUME CallsInv, NEW a \in Adder, NEW c, NEW p, NEW out,
           Become(a, [pc |-> "inserted", acc |-> c, pinned |-> p, out |-> out]), NEW o \in DOMAIN c
    PROVE  InsertedBy(a, o)'
<1>1. adder'[a] = [pc |-> "inserted", acc |-> c, pinned |-> p, out |-> out]
  BY DEF Become, CallsInv
<1>2. adder'[a].pc = "inserted" /\ adder'[a].acc = c
  BY <1>1
<1> QED BY <1>2, Zenon DEF InsertedBy

\* A live order is covered after the handling of block events if it was before.
LEMMA CommitTracks ==
    ASSUME WatchInv, TrackInv, CommitOrders, NEW o \in Live'
    PROVE  Covered(o)'
<1>0. OrdersInv /\ BatchInv
  BY DEF WatchInv
<1>1. main.pc = "begun" /\ adder' = adder
  BY Zenon DEF CommitOrders
<1>2. CASE main' = [pc |-> "stopped"]
  BY <1>2 DEF Covered, Running
<1>3. CASE main' # [pc |-> "stopped"]
  <2>1. PICK txn, S, res :
          /\ txn = [p \in Order |-> InTransaction(p)]
          /\ S = {p \in main.reval : ~IsDead(orders[p])} /\ res \in Results(S, main.ts)
          /\ orders' = Revalidated(txn, main.reval, res, main.ts)
          /\ tree' = Watched(tree, txn, res, main.ts)
          /\ missed' = Missed(main.lost, res)
    BY <1>3, Zenon DEF CommitOrders
  <2>2. o \in Order /\ orders'[o] # NoOrder /\ ~orders'[o].removed
    BY DEF Live, Stored
  <2>3. CASE o \in tree'
    BY <2>3 DEF Covered
  <2>4. CASE o \notin tree'
    <3>1. /\ txn \in Collection /\ Fillable(txn)
          /\ txn[o] # NoOrder <=> orders[o] # NoOrder
          /\ txn[o] # NoOrder /\ ~txn[o].removed => o \in main.unexpired \/ (~orders[o].removed /\ o \notin main.expired)
      BY <1>0, <1>1, <2>1, <2>2, TransactionCollection, Zenon
    <3>2. main.reval \in SUBSET Order /\ S \in SUBSET main.reval /\ \A p \in S : txn[p] # NoOrder
      <4>1. txn = [p \in Order |-> InTransaction(p)] /\ S = {p \in main.reval : ~IsDead(orders[p])}
        BY <2>1, Zenon
      <4> QED BY <1>0, <1>1, <4>1, CommitFacts
    <3>3. res \in Results(S, main.ts) /\ DOMAIN res = S
      BY <2>1 DEF Results
    <3>4. o \notin Watched(tree, txn, res, main.ts)
      BY <2>1, <2>4, Zenon
    <3>5. PICK new : new = Revalidated(txn, main.reval, res, main.ts)
      OBVIOUS
    <3>6. new[o] # NoOrder /\ ~new[o].removed
      BY <2>1, <2>2, <3>5, Zenon
    <3>7. /\ txn[o] # NoOrder /\ ~txn[o].removed /\ o \notin tree
          /\ o \in S => res[o] = ERROR \/ NotExpired(o, main.ts)
          /\ o \notin S => o \notin main.reval
      <4>1. LeftAlone(o, txn, main.reval, S, res, main.ts, tree)
        BY <2>2, <3>1, <3>2, <3>3, <3>4, <3>5, <3>6, RevalidatedTree, Zenon
      <4> QED BY <4>1, Zenon DEF LeftAlone
    <3>8. o \notin main.unexpired
      BY <1>0, <1>1, <3>7 DEF BatchInv
    <3>9. o \in Live /\ o \notin main.expired
      BY <2>2, <3>1, <3>7, <3>8 DEF Live, Stored
    <3>10. Covered(o)
      BY <3>9 DEF TrackInv
    <3>11. missed' = {p \in missed \cup {q \in main.lost \cap DOMAIN res : res[q] = ERROR} :
                         orders'[p] # NoOrder /\ ~orders'[p].removed /\ p \notin tree'}
      BY <2>1, Zenon DEF Missed
    <3>12. CASE o \in missed
      BY <2>2, <2>4, <3>11, <3>12, Zenon DEF Covered
    <3>13. CASE o \in main.lost
      <4>1. o \in main.reval /\ ~NotExpired(o, main.ts)
        BY <1>0, <1>1, <3>13, Zenon DEF BatchInv
      <4>2. o \in S /\ res[o] = ERROR
        BY <3>7, <4>1
      <4>3. o \in missed'
        BY <2>2, <2>4, <3>3, <3>11, <3>13, <4>2
      <4> QED BY <4>3 DEF Covered
    <3>14. CASE \E a \in Adder : InsertedBy(a, o)
      BY <1>1, <3>14 DEF Covered, InsertedBy
    <3>15. Running
      BY <1>1 DEF Running
    <3> QED BY <3>7, <3>9, <3>10, <3>12, <3>13, <3>14, <3>15, Zenon DEF Covered
  <2> QED BY <2>3, <2>4
<1> QED BY <1>2, <1>3

\* And after a Cleanup.
LEMMA CleanupTracks ==
    ASSUME WatchInv, TrackInv, FinishCleanup, NEW o \in Live'
    PROVE  Covered(o)'
<1>0. OrdersInv /\ CleanupInv
  BY DEF WatchInv
<1>1. cleanup.pc = "begun" /\ adder' = adder
  BY Zenon DEF FinishCleanup
<1>2. CASE main' = [pc |-> "stopped"]
  BY <1>2 DEF Covered, Running
<1>3. CASE main' # [pc |-> "stopped"]
  <2>1. PICK ts, S, res :
          /\ S = {p \in cleanup.found : ~IsDead(orders[p])} /\ res \in Results(S, ts)
          /\ orders' = Revalidated(orders, cleanup.found, res, ts)
          /\ tree' = Watched(tree, orders, res, ts)
          /\ missed' = Missed({}, res) /\ main' = main
    BY <1>3, Zenon DEF FinishCleanup
  <2>2. o \in Order /\ orders'[o] # NoOrder /\ ~orders'[o].removed
    BY DEF Live, Stored
  <2>3. CASE o \in tree'
    BY <2>3 DEF Covered
  <2>4. CASE o \notin tree'
    <3>1. orders \in Collection /\ Fillable(orders)
      BY <1>0 DEF OrdersInv
    <3>2. cleanup.found \in SUBSET Order /\ S \in SUBSET cleanup.found /\ \A p \in S : orders[p] # NoOrder
      BY <1>0, <1>1, <2>1, Zenon DEF CleanupInv, Stored
    <3>3. res \in Results(S, ts)
      BY <2>1, Zenon
    <3>4. o \notin Watched(tree, orders, res, ts)
      BY <2>1, <2>4, Zenon
    <3>5. PICK new : new = Revalidated(orders, cleanup.found, res, ts)
      OBVIOUS
    <3>6. new[o] # NoOrder /\ ~new[o].removed
      BY <2>1, <2>2, <3>5, Zenon
    <3>7. orders[o] # NoOrder /\ ~orders[o].removed /\ o \notin tree
      <4>1. LeftAlone(o, orders, cleanup.found, S, res, ts, tree)
        BY <2>2, <3>1, <3>2, <3>3, <3>4, <3>5, <3>6, RevalidatedTree, Zenon
      <4> QED BY <4>1 DEF LeftAlone
    <3>8. Covered(o)
      BY <2>2, <3>7 DEF TrackInv, Live, Stored
    <3>9. o \in missed => o \in missed'
      BY <2>1, <2>2, <2>4, Zenon DEF Missed
    <3> QED BY <1>1, <2>1, <3>7, <3>8, <3>9, Zenon DEF Covered, InsertedBy, Running
  <2> QED BY <2>3, <2>4
<1> QED BY <1>2, <1>3

\* Block events that prune a live order remember it.
LEMMA BatchTracks ==
    ASSUME TrackInv, TakeBatch, NEW o \in Live'
    PROVE  Covered(o)'
<1>1. PICK pruned, S, unexpired, exp, lost :
        /\ exp = (pruned \cap Stored) \ S /\ lost = pruned \cap S
        /\ main'.pc = "begun" /\ main'.expired = exp /\ main'.lost = lost
        /\ tree' = (tree \ pruned) \cup unexpired
  <2>1. PICK walk \in Batches[stack], S \in SUBSET Stored :
          LET e == walk.events
              prev == Latest(headers)
              ts == LatestTimestamp(e)
              pruned == IF prev = NoBlock \/ (prev # NoBlock /\ Time[prev] < ts) THEN Prune(ts) ELSE {}
              unexpired == IF prev # NoBlock /\ Time[prev] > ts THEN Unexpired(ts) \ S ELSE {}
          IN  /\ main' = [pc |-> "begun", ts |-> ts, reval |-> S, expired |-> (pruned \cap Stored) \ S,
                          unexpired |-> unexpired, lost |-> pruned \cap S, headers |-> UpdateHeaders(headers, e)]
              /\ tree' = (tree \ pruned) \cup unexpired
              /\ stack' = walk.end
    BY Zenon DEF TakeBatch
  <2> DEFINE ts == LatestTimestamp(walk.events)
             prev == Latest(headers)
             pruned == IF prev = NoBlock \/ (prev # NoBlock /\ Time[prev] < ts) THEN Prune(ts) ELSE {}
             unexpired == IF prev # NoBlock /\ Time[prev] > ts THEN Unexpired(ts) \ S ELSE {}
  <2>2. /\ main' = [pc |-> "begun", ts |-> ts, reval |-> S, expired |-> (pruned \cap Stored) \ S,
                    unexpired |-> unexpired, lost |-> pruned \cap S, headers |-> UpdateHeaders(headers, walk.events)]
        /\ tree' = (tree \ pruned) \cup unexpired
    BY <2>1, Zenon
  <2> HIDE DEF ts, prev, pruned, unexpired
  <2>3. /\ main'.pc = "begun" /\ main'.expired = (pruned \cap Stored) \ S /\ main'.lost = pruned \cap S
    BY <2>2, Zenon
  <2> QED BY <2>2, <2>3, Zenon
<1>2. main.pc = "idle" /\ orders' = orders /\ adder' = adder /\ missed' = missed
  BY Zenon DEF TakeBatch, stored
<1>3. Covered(o) /\ o \in Stored
  BY <1>2 DEF TrackInv, Live, Stored
<1>4. CASE o \in tree
  BY <1>1, <1>3, <1>4, Zenon DEF Covered
<1>5. CASE o \in missed
  BY <1>2, <1>5 DEF Covered
<1>6. CASE \E a \in Adder : InsertedBy(a, o)
  BY <1>2, <1>6 DEF Covered, InsertedBy
<1> QED BY <1>2, <1>3, <1>4, <1>5, <1>6, Zenon DEF Covered, Running

\* So does every step of a call, as long as trimmed orders stay out.
LEMMA CallTracks ==
    ASSUME WatchInv, TrackInv, TrimmedStayOut, Unrecognised = {}, NEW a \in Adder,
           Check(a) \/ Validate(a) \/ Trim(a) \/ TrimMemory(a) \/ Insert(a) \/ SetupMemory(a) \/ Send(a) \/ Cancel(a),
           NEW o \in Live'
    PROVE  Covered(o)'
<1>0. CallsInv /\ DOMAIN adder = Adder
  BY DEF WatchInv, CallsInv
<1>1. main' = main
  BY Zenon DEF Check, Validate, Trim, TrimMemory, Insert, SetupMemory, Send, Cancel, adderOnly
<1>2. ASSUME NEW state, Become(a, state), adder[a].pc # "inserted", o \in Live, missed' = missed,
             o \in tree => o \in tree'
      PROVE  Covered(o)'
  <2>1. Covered(o)
    BY <1>2, Zenon DEF TrackInv
  <2>2. \A b \in Adder : InsertedBy(b, o) => InsertedBy(b, o)'
    BY <1>0, <1>2, StillInserted, Zenon
  <2> QED BY <1>1, <1>2, <2>1, <2>2, Zenon DEF Covered, Running
<1>3. CASE Check(a) \/ Validate(a) \/ Send(a) \/ Cancel(a)
  <2>1. /\ adder[a].pc \in {"idle", "checked", "sending", "late"}
        /\ orders' = orders /\ missed' = missed /\ tree' = tree
        /\ \E state : Become(a, state)
    BY <1>3, Zenon DEF Check, Validate, Send, Cancel, adderOnly, stored
  <2>2. o \in Live
    BY <2>1, Zenon DEF Live, Stored
  <2> QED BY <1>2, <2>1, <2>2
<1>4. CASE Trim(a)
  <2>1. /\ adder[a].pc = "locked" /\ missed' = missed /\ tree' = tree
        /\ orders' = orders \/ \E R : orders' = Without(R)
        /\ \E state : Become(a, state)
    BY <1>4, Zenon DEF Trim
  <2>2. o \in Live
    BY <2>1 DEF Live, Stored, Without
  <2> QED BY <1>2, <2>1, <2>2, Zenon
<1>5. CASE TrimMemory(a)
  <2>1. /\ adder[a].pc = "trimmed" /\ missed' = missed /\ orders' = orders
        /\ tree' = tree \ (adder[a].gone \ {adder[a].last})
        /\ \E state : Become(a, state)
    BY <1>5, Zenon DEF TrimMemory
  <2>2. o \in Live /\ o \notin adder[a].gone
    BY <2>1, Zenon DEF Live, Stored, TrimmedStayOut
  <2> QED BY <1>2, <2>1, <2>2, Zenon
<1>6. CASE Insert(a)
  <2>1. PICK new \in SUBSET DOMAIN adder[a].acc :
          \/ orders' = orders
          \/ /\ orders' = [p \in Order |-> IF p \in new THEN Fresh(adder[a].acc[p], adder[a].pinned) ELSE orders[p]]
             /\ Become(a, [pc |-> "inserted", acc |-> adder[a].acc, pinned |-> adder[a].pinned, out |-> adder[a].out])
    BY <1>6, Zenon DEF Insert
  <2>2. /\ adder[a].pc = "ready" /\ missed' = missed /\ tree' = tree
        /\ \E state : Become(a, state)
    BY <1>6, Zenon DEF Insert
  <2>3. CASE o \in Live
    BY <1>2, <2>2, <2>3
  <2>4. CASE o \notin Live
    <3>1. o \in new /\ Become(a, [pc |-> "inserted", acc |-> adder[a].acc, pinned |-> adder[a].pinned, out |-> adder[a].out])
      BY <2>1, <2>4 DEF Live, Stored
    <3>2. o \in DOMAIN adder[a].acc
      BY <2>1, <3>1
    <3>3. PICK c, p, out : c = adder[a].acc /\ Become(a, [pc |-> "inserted", acc |-> c, pinned |-> p, out |-> out])
      BY <3>1, Zenon
    <3>4. InsertedBy(a, o)'
      BY <1>0, <3>2, <3>3, NowInserted
    <3> QED BY <3>4 DEF Covered
  <2> QED BY <2>3, <2>4
<1>7. CASE SetupMemory(a)
  <2>1. /\ adder[a].pc = "inserted" /\ orders' = orders /\ missed' = missed \ tree'
        /\ \/ DOMAIN adder[a].acc \cap Unrecognised # {}
           \/ tree' = Setup(DOMAIN adder[a].acc)
        /\ \E state : Become(a, state)
    BY <1>7, Zenon DEF SetupMemory, stored
  <2>2. tree' = tree \cup DOMAIN adder[a].acc
    BY <2>1 DEF Setup
  <2>3. o \in Live
    BY <2>1 DEF Live, Stored
  <2>4. Covered(o)
    BY <2>3 DEF TrackInv
  <2>5. CASE o \in tree'
    BY <2>5, Zenon DEF Covered
  <2>6. CASE o \notin tree'
    <3>1. \A b \in Adder : InsertedBy(b, o) => b # a
      BY <2>2, <2>6, Zenon DEF InsertedBy
    <3>2. \A b \in Adder : b # a => adder'[b] = adder[b]
      BY <1>0, <2>1 DEF Become
    <3>3. \A b \in Adder : InsertedBy(b, o) => InsertedBy(b, o)'
      BY <3>1, <3>2, Zenon DEF InsertedBy
    <3> QED BY <1>1, <2>1, <2>2, <2>4, <2>6, <3>3, Zenon DEF Covered, Running
  <2> QED BY <2>5, <2>6
<1> QED BY <1>3, <1>4, <1>5, <1>6, <1>7

\* No step uncovers a live order.
LEMMA StepTrack ==
    ASSUME WatchInv, TrackInv, TrimmedStayOut, Unrecognised = {}, [Next]_vars
    PROVE  TrackInv'
<1> SUFFICES ASSUME NEW o \in Live' PROVE Covered(o)'
  BY DEF TrackInv
<1>0. OrdersInv
  BY DEF WatchInv
<1>1. ASSUME o \in Live, tree' = tree, missed' = missed, adder' = adder,
             main' = main \/ ~Running' \/ main.pc \in {"idle", "committed"}
      PROVE  Covered(o)'
  <2>1. Covered(o)
    BY <1>1 DEF TrackInv
  <2> QED BY <1>1, <2>1 DEF Covered, InsertedBy, Running
<1>2. ASSUME orders' = orders PROVE o \in Live
  BY <1>2 DEF Live, Stored
<1>3. CASE CommitHeaders \/ StartCleanup
  <2>1. /\ orders' = orders /\ tree' = tree /\ missed' = missed /\ adder' = adder
        /\ main' = main \/ main' = [pc |-> "stopped"] \/ main.pc = "committed"
    BY <1>3, Zenon DEF CommitHeaders, StartCleanup, stored
  <2> QED BY <1>1, <1>2, <2>1 DEF Running
<1>4. CASE SendCleanup \/ FindStaleRemoved \/ IncreaseMaxExp \/ CompleteStart \/ Stopped \/ UNCHANGED vars
  <2>1. orders' = orders /\ tree' = tree /\ missed' = missed /\ adder' = adder /\ main' = main
    BY <1>4, Zenon DEF SendCleanup, FindStaleRemoved, IncreaseMaxExp, CompleteStart, Stopped, vars, stored
  <2> QED BY <1>1, <1>2, <2>1
<1>5. ASSUME NEW p \in Order, DeleteStaleRemoved(p) PROVE Covered(o)'
  <2>1. /\ orders' = [orders EXCEPT ![p] = NoOrder]
        /\ tree' = tree /\ missed' = missed /\ adder' = adder /\ main' = main
    BY <1>5 DEF DeleteStaleRemoved
  <2>2. o \in Live
    BY <1>0, <2>1 DEF Live, Stored, OrdersInv, Collection
  <2> QED BY <1>1, <2>1, <2>2
<1>6. CASE Tick
  <2>1. tree' = tree /\ missed' = missed /\ adder' = adder /\ main' = main
    BY <1>6 DEF Tick
  <2>2. Stored' = Stored /\ \A p \in Stored : orders'[p].removed = orders[p].removed
    BY <1>0, <1>6, AgedCollection
  <2>3. o \in Live
    BY <2>2 DEF Live
  <2> QED BY <1>1, <2>1, <2>3
<1>7. CASE Restart
  <2>1. PICK R : orders' = Without(R) /\ tree' = Stored \ R
    BY <1>7, Zenon DEF Restart
  <2>2. o \in tree'
    BY <2>1 DEF Live, Stored, Without
  <2> QED BY <2>2 DEF Covered
<1> QED
  BY <1>3, <1>4, <1>5, <1>6, <1>7, BatchTracks, CommitTracks, CleanupTracks, CallTracks DEF Next

\* Between handlers every order that is stored and not removed is in the expiration
\* watcher, for any number of concurrent calls, provided that no order trimmed by one
\* of them is stored again before it has left the expiration watcher, and that the
\* event decoder knows all asset data (add, trimOrdersAndGenerateEvents,
\* setupInMemoryOrderState, handleOrderExpirations).
THEOREM TrackedCorrect ==
    ASSUME Unrecognised = {}
    PROVE  Spec /\ []TrimmedStayOut => []LiveIsTracked
<1>1. Init => TrackInv
  BY DEF Init, TrackInv, Live, Stored
<1>2. WatchInv /\ TrackInv /\ TrimmedStayOut /\ [Next]_vars => TrackInv'
  BY StepTrack
<1>3. TrackInv => LiveIsTracked
  BY DEF TrackInv, LiveIsTracked, Quiet, Covered, InsertedBy, Running
<1> QED BY <1>1, <1>2, <1>3, InitWatchInv, StepWatchInv, PTL DEF Spec

\* Calls that are made one after the other meet that condition.
LEMMA StepStayOut ==
    ASSUME WatchInv, TrimmedStayOut, [Next]_vars, \A a, b \in Adder : a = b
    PROVE  TrimmedStayOut'
<1> SUFFICES ASSUME NEW a \in Adder, adder'[a].pc = "trimmed" PROVE adder'[a].gone \cap Stored' = {}
  BY DEF TrimmedStayOut
<1>0. CallsInv /\ DOMAIN adder = Adder
  BY DEF WatchInv, CallsInv
<1>1. CASE Trim(a)
  <2>1. \/ Become(a, Idle)
        \/ Become(a, [pc |-> "ready", acc |-> adder[a].acc, out |-> Nothing, pinned |-> adder[a].pinned])
        \/ \E R, last : /\ orders' = Without(R)
                        /\ Become(a, [pc |-> "trimmed", acc |-> adder[a].acc, pinned |-> adder[a].pinned,
                                      gone |-> R, last |-> last])
    BY <1>1, Zenon DEF Trim
  <2>2. PICK R, last : /\ orders' = Without(R)
                       /\ Become(a, [pc |-> "trimmed", acc |-> adder[a].acc, pinned |-> adder[a].pinned,
                                     gone |-> R, last |-> last])
    <3>1. ~Become(a, Idle)
      BY <1>0 DEF Become, Idle
    <3>2. ~Become(a, [pc |-> "ready", acc |-> adder[a].acc, out |-> Nothing, pinned |-> adder[a].pinned])
      BY <1>0 DEF Become
    <3> QED BY <2>1, <3>1, <3>2, Zenon
  <2>3. adder'[a].gone = R
    BY <1>0, <2>2 DEF Become
  <2> QED BY <2>2, <2>3, Zenon DEF Stored, Without
<1>2. ASSUME Stored' \subseteq Stored, adder'[a] = adder[a] PROVE adder'[a].gone \cap Stored' = {}
  BY <1>2 DEF TrimmedStayOut
<1>3. CASE Insert(a)
  <2>1. \/ \E c, p, out : Become(a, [pc |-> "inserted", acc |-> c, pinned |-> p, out |-> out])
        \/ \E out : Become(a, [pc |-> "sending", out |-> out])
    BY <1>3, Zenon DEF Insert
  <2>2. \A c, p, out : ~Become(a, [pc |-> "inserted", acc |-> c, pinned |-> p, out |-> out])
    BY <1>0 DEF Become
  <2>3. \A out : ~Become(a, [pc |-> "sending", out |-> out])
    BY <1>0 DEF Become
  <2> QED BY <2>1, <2>2, <2>3, Zenon
<1>4. CASE Stored' \subseteq Stored /\ ~Trim(a)
  <2>1. CASE adder' = adder
    BY <1>2, <1>4, <2>1
  <2>2. CASE Restart
    BY <2>2, Zenon DEF Restart, Idle
  <2>3. CASE TrimMemory(a)
    <3>1. \E c, p, out : Become(a, [pc |-> "ready", acc |-> c, pinned |-> p, out |-> out])
      BY <2>3, Zenon DEF TrimMemory
    <3>2. \A c, p, out : ~Become(a, [pc |-> "ready", acc |-> c, pinned |-> p, out |-> out])
      BY <1>0 DEF Become
    <3> QED BY <3>1, <3>2, Zenon
  <2>4. CASE Check(a) \/ Validate(a) \/ SetupMemory(a) \/ Send(a) \/ Cancel(a)
    <3>1. \/ \E b, p : Become(a, [pc |-> "checked", batch |-> b, pinned |-> p])
          \/ \E c, p : Become(a, [pc |-> "locked", acc |-> c, pinned |-> p])
          \/ Become(a, Idle)
          \/ \E out : Become(a, [pc |-> "sending", out |-> out])
          \/ \E out : Become(a, [pc |-> "late", out |-> out])
      BY <2>4, Zenon DEF Check, Validate, SetupMemory, Send, Cancel
    <3>2. \A b, p : ~Become(a, [pc |-> "checked", batch |-> b, pinned |-> p])
      BY <1>0 DEF Become
    <3>3. \A c, p : ~Become(a, [pc |-> "locked", acc |-> c, pinned |-> p])
      BY <1>0 DEF Become
    <3>4. ~Become(a, Idle)
      BY <1>0 DEF Become, Idle
    <3>5. \A out : ~Become(a, [pc |-> "sending", out |-> out]) /\ ~Become(a, [pc |-> "late", out |-> out])
      BY <1>0 DEF Become
    <3> QED BY <3>1, <3>2, <3>3, <3>4, <3>5, Zenon
  <2>5. CASE TakeBatch \/ CommitOrders \/ CommitHeaders \/ StartCleanup \/ FinishCleanup \/ SendCleanup
    BY <2>1, <2>5, Zenon DEF TakeBatch, CommitOrders, CommitHeaders, StartCleanup, FinishCleanup, SendCleanup
  <2>6. CASE FindStaleRemoved \/ (\E o \in Order : DeleteStaleRemoved(o)) \/ IncreaseMaxExp \/ CompleteStart \/ Tick
    BY <2>1, <2>6, Zenon DEF FindStaleRemoved, DeleteStaleRemoved, IncreaseMaxExp, CompleteStart, Tick
  <2>7. CASE Stopped \/ UNCHANGED vars
    BY <2>1, <2>7, Zenon DEF Stopped, vars
  <2> QED BY <1>3, <1>4, <2>2, <2>3, <2>4, <2>5, <2>6, <2>7, Zenon DEF Next
<1>5. ASSUME NEW b \in Adder PROVE b = a
  OBVIOUS
<1> QED BY <1>1, <1>3, <1>4, <1>5, RoomSteps

\* One call after the other, the expiration watcher misses no order.
THEOREM TrackedInSequence ==
    ASSUME Unrecognised = {}, \A a, b \in Adder : a = b
    PROVE  Spec => []LiveIsTracked
<1>1. Init => TrimmedStayOut
  BY DEF Init, TrimmedStayOut, Idle
<1>2. WatchInv /\ TrimmedStayOut /\ [Next]_vars => TrimmedStayOut'
  BY StepStayOut
<1>3. Spec => []TrimmedStayOut
  BY <1>1, <1>2, InitWatchInv, StepWatchInv, PTL DEF Spec
<1>4. Spec /\ []TrimmedStayOut => []LiveIsTracked
  BY TrackedCorrect
<1> QED BY <1>3, <1>4, PTL

=============================================================================
