---------------------------- MODULE OrderWatcher ----------------------------
(***************************************************************************)
(* zeroex/orderwatch: the orders a node stores and watches.  Four          *)
(* goroutines of Watch (block events, Cleanup, the removed-order checker   *)
(* and the max expiration time loop) and any number of concurrent          *)
(* ValidateAndStoreValidOrders calls work on one orders collection, one    *)
(* expiration watcher and one order feed.  The lock handleBlockEventsMu    *)
(* and the collection's write lock are not variables: who holds them       *)
(* follows from where the goroutines are.                                  *)
(*                                                                         *)
(* Left to the environment: which orders a batch of block events touches   *)
(* (the event decoder and the token indexes) and what the Ethereum node    *)
(* answers when orders are validated.  Storage itself does not fail here.  *)
(***************************************************************************)
EXTENDS Integers, FiniteSets, Sequences

CONSTANTS
    Order,         \* order hashes
    Exp,           \* ExpirationTimeSeconds of each order
    Unrecognised,  \* orders with a Chai ERC20Bridge maker asset, which the
                   \* validator accepts and the event decoder does not know
    NoOrder,       \* an order hash with no order in the collection
    Block, NoBlock, Parent, Number, Time,   \* headers of the block watcher
    MaxBatch,      \* bound on the events handled in one go
    Retention,     \* MiniHeaderRetentionLimit
    MaxOrders,     \* config.MaxOrders
    Target,        \* int(maxOrdersTrimRatio * maxOrders)
    Unlimited,     \* constants.UnlimitedExpirationTime
    MaxOffer,      \* bound on the orders of one call
    MaxAmount,     \* bound on fillable amounts
    Adder,         \* concurrent ValidateAndStoreValidOrders calls
    Pins,          \* the values of "pinned" the calls are made with
    Cancellable,   \* may the context of a call be cancelled?
    MaxRestarts    \* bound on restarts of the node

ASSUME OrderAssumption ==
    /\ IsFiniteSet(Order)
    /\ Exp \in [Order -> 1..Unlimited]
    /\ Unrecognised \subseteq Order
ASSUME HeaderAssumption ==
    /\ NoBlock \notin Block
    /\ Parent \in [Block -> Block \cup {NoBlock}]
    /\ Number \in [Block -> Nat]
    /\ Time \in [Block -> 0..Unlimited]
    /\ \A b \in Block : Parent[b] \in Block =>
        /\ Number[b] = Number[Parent[b]] + 1
        /\ Time[Parent[b]] < Time[b]
ASSUME SizeAssumption ==
    /\ {MaxBatch, Retention, MaxOrders, MaxOffer, Unlimited, MaxAmount} \subseteq Nat \ {0}
    /\ Target \in 0..(MaxOrders - 1) /\ MaxRestarts \in Nat
    /\ Pins \subseteq BOOLEAN /\ Cancellable \in BOOLEAN /\ IsFiniteSet(Adder)

VARIABLES
    orders,    \* the orders collection
    headers,   \* the miniHeaders collection
    stack,     \* external: the block watcher's headers, as of its last event
               \* that the main loop has taken
    tree,      \* expirationWatcher: the orders it holds
    maxExp,    \* maxExpirationTime (and its copy in the metadata)
    view,      \* external: what the subscribers know of each order
    main,      \* mainLoop and handleBlockEvents, with their locals
    cleanup,   \* cleanupLoop and Cleanup
    doomed,    \* permanentlyDeleteStaleRemovedOrders: orders left to delete
    adder,     \* ValidateAndStoreValidOrders, one record per call
    started,   \* app.started: the node takes orders
    missed,    \* history: pruned orders whose revalidation failed
    restarts

stored == <<orders, headers, maxExp>>
vars == <<stored, stack, tree, view, main, cleanup, doomed, adder, missed, started, restarts>>

\* meshdb.Order.  An order's age stands for LastUpdated: 0 is recent, 1 is
\* longer ago than permanentlyDeleteAfter (5 minutes), 2 is longer ago than
\* defaultLastUpdatedBuffer (30 minutes).
Record == [removed : BOOLEAN, pinned : BOOLEAN, amount : 0..MaxAmount, age : 0..2]
ASSUME NoOrderAssumption == NoOrder \notin Record
Stored == {o \in Order : orders[o] # NoOrder}
Live   == {o \in Stored : ~orders[o].removed}

\* What subscribers know: an open order's fillable amount, 0 for an order
\* that is unknown or was closed, EXPIRED for one closed by an EXPIRED event.
EXPIRED == -1
\* The effect of the order events a handler will send: the last one counts.
NoEvent == -2
Nothing == [o \in Order |-> NoEvent]
Deliver(out) == [o \in Order |-> IF out[o] = NoEvent THEN view[o] ELSE out[o]]

-----------------------------------------------------------------------------
(* Block headers and the block watcher's feed *)

Event == [type : {"Added", "Removed"}, header : Block]

\* External: the block watcher's stack of at most Retention headers, and its
\* batches of events, which are walks on the block tree (see BatchIsAPath of
\* module BlockWatcher).  An empty stack may be given any block.
Top(s) == IF s = <<>> THEN NoBlock ELSE s[Len(s)]
Push(s, h) == Append(IF Len(s) = Retention THEN Tail(s) ELSE s, h)
Follows(s, e) == IF e.type = "Added" THEN s = <<>> \/ Parent[e.header] = Top(s)
                 ELSE e.header = Top(s)
Move(s, e) == IF e.type = "Added" THEN Push(s, e.header) ELSE SubSeq(s, 1, Len(s) - 1)
Stacks == {s \in UNION {[1..n -> Block] : n \in 0..Retention} :
              \A i, j \in DOMAIN s : i < j => Number[s[i]] < Number[s[j]]}
\* The walks of n steps from s, each with the stack it leads to
Walks[n \in 0..MaxBatch, s \in Stacks] ==
    IF n = 0 THEN {[events |-> <<>>, end |-> s]}
    ELSE UNION {{[events |-> Append(w.events, e), end |-> Move(w.end, e)] :
                    e \in {f \in Event : Follows(w.end, f)}} : w \in Walks[n - 1, s]}
Batches == [s \in Stacks |-> UNION {Walks[n, s] : n \in 1..MaxBatch}]

\* FindLatestMiniHeader
Latest(hs) == IF hs = {} THEN NoBlock
              ELSE CHOOSE h \in hs : \A g \in hs : Number[g] <= Number[h]

\* getBlockchainState: the last event counts, a Removed one too.
LatestTimestamp(e) == Time[e[Len(e)].header]

\* updateBlockHeadersStoredInDB: the last event about a header decides.
LastAbout(e, h, type) ==
    \E k \in 1..Len(e) : /\ e[k].header = h /\ e[k].type = type
                         /\ \A j \in (k + 1)..Len(e) : e[j].header # h
\* Mutant: a header that is removed anywhere in the events is deleted.
RemovedWins(hs, e) ==
    (hs \cup {e[k].header : k \in DOMAIN e})
      \ {h \in Block : \E k \in DOMAIN e : e[k] = [type |-> "Removed", header |-> h]}
UpdateHeaders(hs, e) ==
    {h \in Block : LastAbout(e, h, "Added")
                   \/ (h \in hs /\ ~LastAbout(e, h, "Removed"))}

\* PruneMiniHeadersAboveRetentionLimit
PruneHeaders(hs) ==
    IF Cardinality(hs) <= Retention THEN hs
    ELSE {h \in hs : Number[h] >= Number[Latest(hs)] - (Retention - 1)}

-----------------------------------------------------------------------------
(* Locks *)

Holding == {"locked", "trimmed", "ready", "inserted", "sending"}
\* handleBlockEventsMu
NoReader == /\ cleanup.pc \in {"idle", "waiting"}
            /\ \A a \in Adder : adder[a].pc \notin Holding
NoWriter == main.pc \notin {"begun", "committed"}
\* colInfo.writeMut of the orders collection, held by an open transaction
NoTransaction == main.pc # "begun" /\ cleanup.pc # "begun"

Running == main.pc \notin {"stopped", "failed"}

-----------------------------------------------------------------------------
(* Revalidation of stored orders *)

Unwatched(r, amount) == [r EXCEPT !.removed = TRUE, !.amount = amount, !.age = 0]
Rewatched(r, amount) == [r EXCEPT !.removed = FALSE, !.amount = amount, !.age = 0]

\* External: BatchValidate at a block with timestamp ts.  A result is the
\* fillable amount of an accepted order or a reason to reject it: EXPIRED,
\* CLOSED (filled, cancelled, unfunded), INVALID (a status with no end
\* state, such as an invalid signature) or ERROR (a MeshError).
CLOSED == 0
INVALID == -3
ERROR == -4
Result(o, ts) ==
    {CLOSED, INVALID, ERROR} \cup (IF ts < Exp[o] THEN 1..MaxAmount ELSE {EXPIRED})
Results(S, ts) == {res \in [S -> UNION {Result(o, ts) : o \in S}] :
                       \A o \in S : res[o] \in Result(o, ts)}
Accepted(x) == x \in 1..MaxAmount

\* Rejections that change nothing
Ignored(r, x) == x = ERROR \/ r.amount = 0

\* convertValidationResultsIntoOrderEvents for one order: what is stored,
\* what subscribers are told, and whether the order is put in the expiration
\* watcher or taken out of it.
Change(o, r, x, ts) ==
    LET revive == r.amount = 0 \/ (r.removed /\ ts < Exp[o])
        keep == [record |-> r, event |-> NoEvent, watch |-> {}, unwatch |-> {}]
    IN  IF Accepted(x)
        THEN IF revive
             THEN [record |-> Rewatched(r, x), event |-> x,
                   watch |-> {o}, unwatch |-> {}]
             ELSE IF x = r.amount THEN keep
             ELSE [keep EXCEPT !.record = [r EXCEPT !.amount = x, !.age = 0],
                               !.event = x]
        ELSE IF Ignored(r, x) THEN keep
        ELSE [record |-> Unwatched(r, 0), event |-> IF x = INVALID THEN NoEvent ELSE x,
              watch |-> {}, unwatch |-> {o}]

\* Mutant: removed orders are never old enough to be deleted.
NeverDead(r) == FALSE
\* time.Since(order.LastUpdated) > permanentlyDeleteAfter
IsDead(r) == r.removed /\ r.age >= 1

\* A status with no end state makes the conversion fail.
Fails(ords, res) == \E o \in DOMAIN res : res[o] = INVALID /\ ords[o].amount # 0

\* The pruned orders that have neither been removed nor put back in the
\* expiration watcher, after a revalidation with results res
Missed(lost, res) ==
    {o \in missed \cup {p \in lost \cap DOMAIN res : res[p] = ERROR} :
        orders'[o] # NoOrder /\ ~orders'[o].removed /\ o \notin tree'}

\* generateOrderEventsIfChanged for the orders S on top of the transaction's
\* orders: the dead ones are deleted, the others revalidated.
Revalidated(ords, S, res, ts) ==
    [o \in Order |->
        IF o \in DOMAIN res THEN Change(o, ords[o], res[o], ts).record
        ELSE IF o \in S THEN NoOrder ELSE ords[o]]
Announced(out, ords, res, ts) ==
    [o \in Order |->
        IF o \in DOMAIN res /\ Change(o, ords[o], res[o], ts).event # NoEvent
        THEN Change(o, ords[o], res[o], ts).event ELSE out[o]]
Watched(t, ords, res, ts) ==
    (t \ UNION {Change(o, ords[o], res[o], ts).unwatch : o \in DOMAIN res})
      \cup UNION {Change(o, ords[o], res[o], ts).watch : o \in DOMAIN res}

-----------------------------------------------------------------------------
(* mainLoop and handleBlockEvents *)

Idle == [pc |-> "idle"]

\* Mutant: an order is still valid in the block of its expiration time.
ExpiredStrictly(ts) == {o \in tree : Exp[o] < ts}
\* expirationWatcher.Prune
Prune(ts) == {o \in tree : ~(ts < Exp[o])}

\* FindRemovedOrders: those that may have become valid again at ts
Unexpired(ts) == {o \in Stored : /\ orders[o].removed /\ orders[o].amount # 0
                                 /\ ts < Exp[o]}

\* The main loop takes all block events from its channel and locks;
\* handleBlockEvents opens its transactions, finds the orders S that the
\* events touch and runs handleOrderExpirations.
TakeBatch ==
    /\ main.pc = "idle" /\ NoReader /\ NoTransaction
    /\ \E walk \in Batches[stack], S \in SUBSET Stored :
        LET e == walk.events
            prev == Latest(headers)
            ts == LatestTimestamp(e)
            pruned == IF prev = NoBlock \/ (prev # NoBlock /\ Time[prev] < ts)
                      THEN Prune(ts) ELSE {}
            unexpired == IF prev # NoBlock /\ Time[prev] > ts
                         THEN Unexpired(ts) \ S ELSE {}
        IN  /\ main' = [pc |-> "begun", ts |-> ts, reval |-> S,
                        expired |-> (pruned \cap Stored) \ S,
                        unexpired |-> unexpired,
                        lost |-> pruned \cap S,
                        headers |-> UpdateHeaders(headers, e)]
            /\ tree' = (tree \ pruned) \cup unexpired
            /\ stack' = walk.end
    /\ UNCHANGED <<stored, view, cleanup, doomed, adder, missed, started, restarts>>

\* What handleOrderExpirations left in the orders transaction
InTransaction(o) ==
    IF o \in main.expired THEN Unwatched(orders[o], orders[o].amount)
    ELSE IF o \in main.unexpired THEN Rewatched(orders[o], orders[o].amount)
    ELSE orders[o]
\* Mutant: no UNEXPIRED events.
ExpiredEventOnly(o) == IF o \in main.expired THEN EXPIRED ELSE NoEvent
ExpirationEvent(o) ==
    IF o \in main.expired THEN EXPIRED
    ELSE IF o \in main.unexpired THEN orders[o].amount ELSE NoEvent

\* The touched orders are revalidated and the orders transaction committed.
\* When the conversion fails both transactions are discarded and Watch ends.
CommitOrders ==
    LET txn == [o \in Order |-> InTransaction(o)]
        S == {o \in main.reval : ~IsDead(orders[o])}
    IN  /\ main.pc = "begun"
        /\ \E res \in Results(S, main.ts) :
            \/ /\ Fails(txn, res)
               /\ main' = [pc |-> "stopped"]
               /\ UNCHANGED <<orders, tree, missed>>
            \/ /\ ~Fails(txn, res)
               /\ orders' = Revalidated(txn, main.reval, res, main.ts)
               /\ tree' = Watched(tree, txn, res, main.ts)
               /\ missed' = Missed(main.lost, res)
               /\ main' = [pc |-> "committed", headers |-> main.headers,
                           out |-> Announced([o \in Order |-> ExpirationEvent(o)],
                                             txn, res, main.ts)]
        /\ UNCHANGED <<headers, maxExp, stack, view, cleanup, doomed, adder, started, restarts>>

\* The headers transaction is committed, the order events are sent, excess
\* headers are pruned and the lock is released.
CommitHeaders ==
    /\ main.pc = "committed"
    /\ headers' = PruneHeaders(main.headers)
    /\ view' = Deliver(main.out)
    /\ main' = Idle
    /\ UNCHANGED <<orders, maxExp, stack, tree, cleanup, doomed, adder, missed,
                   started, restarts>>

-----------------------------------------------------------------------------
(* The other goroutines of Watch *)

\* cleanupLoop waits for at least an hour before each Cleanup.
Waiting == [pc |-> "waiting"]

\* Cleanup takes the lock for reading and opens an orders transaction.  It
\* looks for orders not updated for 30 minutes, or, when App.Start calls it
\* because too many blocks have been missed, for all of them.  Without any
\* header it fails, and so does Watch.
StartCleanup ==
    /\ Running /\ NoWriter /\ NoTransaction
    /\ \E cutoff \in {0, 2} :
        /\ cleanup.pc = IF cutoff = 0 THEN "waiting" ELSE "idle"
        /\ cutoff = 0 => ~started /\ headers # {}
        /\ IF headers = {}
           THEN /\ main' = [pc |-> "stopped"]
                /\ UNCHANGED cleanup
           ELSE /\ cleanup' = [pc |-> "begun",
                               found |-> {o \in Stored : orders[o].age >= cutoff}]
                /\ UNCHANGED main
    /\ UNCHANGED <<stored, stack, tree, view, doomed, adder, missed, started, restarts>>

FinishCleanup ==
    LET ts == Time[Latest(headers)]
        S == {o \in cleanup.found : ~IsDead(orders[o])}
    IN  /\ cleanup.pc = "begun"
        /\ \E res \in Results(S, ts) :
            \/ /\ Fails(orders, res)
               /\ main' = [pc |-> "stopped"]
               /\ cleanup' = Waiting
               /\ UNCHANGED <<orders, tree, missed>>
            \/ /\ ~Fails(orders, res)
               /\ orders' = Revalidated(orders, cleanup.found, res, ts)
               /\ tree' = Watched(tree, orders, res, ts)
               /\ missed' = Missed({}, res)
               /\ cleanup' = [pc |-> "sending",
                              out |-> Announced(Nothing, orders, res, ts)]
               /\ UNCHANGED main
        /\ UNCHANGED <<headers, maxExp, stack, view, doomed, adder, started, restarts>>

SendCleanup ==
    /\ cleanup.pc = "sending"
    /\ view' = Deliver(cleanup.out)
    /\ cleanup' = Waiting
    /\ UNCHANGED <<stored, stack, tree, main, doomed, adder, missed, started, restarts>>

\* permanentlyDeleteStaleRemovedOrders finds the removed orders ...
FindStaleRemoved ==
    /\ Running /\ doomed = {}
    /\ doomed' = {o \in Stored : IsDead(orders[o])}
    /\ doomed' # {}
    /\ UNCHANGED <<stored, stack, tree, view, main, cleanup, adder, missed, started, restarts>>

\* ... and deletes them one by one, without handleBlockEventsMu.
DeleteStaleRemoved(o) ==
    /\ o \in doomed /\ NoTransaction
    /\ orders' = [orders EXCEPT ![o] = NoOrder]
    /\ doomed' = doomed \ {o}
    /\ UNCHANGED <<headers, maxExp, stack, tree, view, main, cleanup, adder, missed,
                   started, restarts>>

\* What the slow counter may say when it says something new: New and Reset give it
\* the max expiration time, and it only grows, at a rate that depends on the clock,
\* as far as its MaxCount.
Count == (maxExp + 1)..Unlimited

\* increaseMaxExpirationTimeIfPossible
IncreaseMaxExp ==
    /\ Running /\ Cardinality(Stored) < MaxOrders
    /\ maxExp' \in Count
    /\ UNCHANGED <<orders, headers, stack, tree, view, main, cleanup, doomed, adder,
                   missed, started, restarts>>

-----------------------------------------------------------------------------
(* ValidateAndStoreValidOrders *)

Become(a, state) == adder' = [adder EXCEPT ![a] = state]
adderOnly == <<stored, stack, tree, view, main, cleanup, doomed, missed, started, restarts>>

\* meshSpecificOrderValidation, before the lock is taken: of the orders
\* offered, those that are not stored and do not expire too late go on.
Check(a) ==
    /\ adder[a].pc = "idle" /\ started
    /\ \E S \in SUBSET {o \in Order \ Stored : Exp[o] <= maxExp}, pinned \in Pins :
          /\ Cardinality(S) <= MaxOffer
          /\ Become(a, [pc |-> "checked", batch |-> S, pinned |-> pinned])
    /\ UNCHANGED adderOnly

\* The lock is taken for reading and the orders are validated at the latest
\* stored header; without one the call fails.
Validate(a) ==
    /\ adder[a].pc = "checked" /\ NoWriter
    /\ IF headers = {} THEN Become(a, Idle)
       ELSE \E S \in SUBSET {o \in adder[a].batch : Time[Latest(headers)] < Exp[o]} :
            \E acc \in [S -> 1..MaxAmount] :
               Become(a, [pc |-> "locked", acc |-> acc, pinned |-> adder[a].pinned])
    /\ UNCHANGED adderOnly

\* Mutant: pinned orders make room too.
AllStored(ords) == {o \in Order : ords[o] # NoOrder}
\* The expirationTime index, without its pinned part
Removable(ords) == {o \in Order : ords[o] # NoOrder /\ ~ords[o].pinned}

\* TrimOrdersByExpirationTime: the excess above the target, latest expiring
\* first, and the order that comes last.
Excess == Cardinality(Stored) - Target
TrimSets ==
    {R \in SUBSET Removable(orders) :
        /\ Cardinality(R) <= Excess
        /\ Cardinality(R) = Excess \/ R = Removable(orders)
        /\ \A r \in R, s \in Removable(orders) \ R : Exp[r] >= Exp[s]}
LastOf(R) == {r \in R : \A s \in R : Exp[r] <= Exp[s]}
\* The max expiration time m after the orders R have been trimmed
Lowered(m, R) == LET new == Exp[CHOOSE r \in LastOf(R) : TRUE] - 1
                 IN  IF new < m THEN new ELSE m
Without(R) == [o \in Order |-> IF o \in R THEN NoOrder ELSE orders[o]]

\* Mutant: there is room up to the maximum plus one.
FullLate == Cardinality(Stored) > MaxOrders
\* decreaseMaxExpirationTimeIfNeeded
Full == Cardinality(Stored) + 1 > MaxOrders

\* add: room is made if there is none.  When the pinned orders leave too
\* little to remove, the others are gone and the call fails.
Trim(a) ==
    /\ adder[a].pc = "locked"
    /\ \/ /\ ~Full
          /\ Become(a, [pc |-> "ready", acc |-> adder[a].acc, out |-> Nothing,
                        pinned |-> adder[a].pinned])
          /\ UNCHANGED orders
       \/ /\ Full /\ NoTransaction
          /\ \E R \in TrimSets :
              /\ orders' = Without(R)
              /\ IF Cardinality(R) < Excess THEN Become(a, Idle)
                 ELSE \E last \in LastOf(R) :
                    Become(a, [pc |-> "trimmed", acc |-> adder[a].acc,
                               pinned |-> adder[a].pinned,
                               gone |-> R, last |-> last])
    /\ UNCHANGED <<headers, maxExp, stack, tree, view, main, cleanup, doomed,
                   missed, started, restarts>>

\* trimOrdersAndGenerateEvents: the trimmed orders leave the expiration
\* watcher, except the last one: computing the new max expiration time has
\* decremented its ExpirationTimeSeconds in place, and Remove misses it.
TrimMemory(a) ==
    /\ adder[a].pc = "trimmed"
    /\ tree' = tree \ (adder[a].gone \ {adder[a].last})
    /\ maxExp' = Lowered(maxExp, adder[a].gone)
    /\ Become(a, [pc |-> "ready", acc |-> adder[a].acc, pinned |-> adder[a].pinned,
                  out |-> [o \in Order |->
                             IF o \in adder[a].gone THEN 0 ELSE NoEvent]])
    /\ UNCHANGED <<orders, headers, stack, view, main, cleanup, doomed, missed, started, restarts>>

Fresh(amount, pinned) ==
    [removed |-> FALSE, pinned |-> pinned, amount |-> amount, age |-> 0]

\* add: all accepted orders are inserted in one transaction, except those
\* that the max expiration time now excludes.  One that is stored already
\* makes the call return without storing any of them.
Insert(a) ==
    LET acc == adder[a].acc
        over == {o \in DOMAIN acc : ~adder[a].pinned /\ Exp[o] > maxExp}
        new == DOMAIN acc \ over
    IN  /\ adder[a].pc = "ready" /\ NoTransaction
        /\ \/ /\ new \cap Stored # {}
              /\ \E K \in SUBSET over :
                    Become(a, [pc |-> "sending", out |-> [o \in Order |->
                        IF o \in K THEN 0 ELSE adder[a].out[o]]])
              /\ UNCHANGED orders
           \/ /\ new \cap Stored = {}
              /\ orders' = [o \in Order |-> IF o \in new
                              THEN Fresh(acc[o], adder[a].pinned) ELSE orders[o]]
              /\ Become(a, [pc |-> "inserted", acc |-> acc, pinned |-> adder[a].pinned,
                            out |-> adder[a].out])
        /\ UNCHANGED <<headers, maxExp, stack, tree, view, main, cleanup, doomed,
                       missed, started, restarts>>

\* Mutant: the expiration watcher is left out.
SetupDecoderOnly(S) == tree
\* setupInMemoryOrderState for the orders S
Setup(S) == tree \cup S

\* add: the in-memory state of every accepted order is set up, the excluded
\* ones included, and ADDED events are prepared.  An order whose asset data
\* the event decoder does not know makes the call fail half way.
SetupMemory(a) ==
    LET acc == adder[a].acc
    IN  /\ adder[a].pc = "inserted"
        /\ \/ /\ DOMAIN acc \cap Unrecognised # {}
              /\ \E K \in SUBSET (DOMAIN acc \ Unrecognised) : tree' = Setup(K)
              /\ Become(a, Idle)
           \/ /\ DOMAIN acc \cap Unrecognised = {}
              /\ tree' = Setup(DOMAIN acc)
              /\ Become(a, [pc |-> "sending", out |-> [o \in Order |->
                    IF o \in DOMAIN acc THEN acc[o] ELSE adder[a].out[o]]])
        /\ missed' = missed \ tree'
        /\ UNCHANGED <<stored, stack, view, main, cleanup, doomed, started, restarts>>

\* The events are sent, and only then is the lock released, unless the
\* context of the call is cancelled first.
Send(a) ==
    /\ adder[a].pc \in {"sending", "late"}
    /\ view' = Deliver(adder[a].out)
    /\ Become(a, Idle)
    /\ UNCHANGED <<stored, stack, tree, main, cleanup, doomed, missed, started, restarts>>

Cancel(a) ==
    /\ Cancellable /\ adder[a].pc = "sending"
    /\ Become(a, [pc |-> "late", out |-> adder[a].out])
    /\ UNCHANGED adderOnly

-----------------------------------------------------------------------------
(* Time, restarts, and the specification *)

\* App.Start completes.
CompleteStart ==
    /\ Running /\ ~started /\ cleanup.pc \in {"idle", "waiting"}
    /\ started' = TRUE
    /\ UNCHANGED <<stored, stack, tree, view, main, cleanup, doomed, adder, missed,
                   restarts>>

\* A node whose Watch has ended may stay that way.
Stopped == ~Running /\ UNCHANGED vars

\* Minutes pass, but not between a change of the orders and the sending of
\* its events, nor while the removed-order checker deletes what it found.
Tick ==
    /\ cleanup.pc # "sending" /\ doomed = {}
    /\ \A a \in Adder : adder[a].pc \notin {"inserted", "sending", "late"}
    /\ cleanup.pc = "waiting" \/ \E o \in Stored : orders[o].age < 2
    /\ orders' = [o \in Order |-> IF o \in Stored /\ orders[o].age < 2
                    THEN [orders[o] EXCEPT !.age = @ + 1] ELSE orders[o]]
    /\ cleanup' = IF cleanup.pc = "waiting" THEN Idle ELSE cleanup
    /\ UNCHANGED <<headers, maxExp, stack, tree, view, main, doomed, adder, missed,
                   started, restarts>>

\* What a subscriber learns from GetOrders: the orders that are not removed
Snapshot(ords) == [o \in Order |->
    IF ords[o] # NoOrder /\ ~ords[o].removed THEN ords[o].amount ELSE 0]

\* The stored headers in the order of their numbers
ByNumber(hs) ==
    CHOOSE s \in [1..Cardinality(hs) -> hs] :
        \A i, j \in DOMAIN s : i < j => s[i] # s[j] /\ Number[s[i]] <= Number[s[j]]

\* The process ends, at any time, and is started again.  New brings the max
\* expiration time up to the present, makes room if there is none, and sets
\* up the in-memory state of all stored orders, the removed ones too; it
\* fails on asset data the event decoder does not know, and when there are
\* too many pinned orders.  Subscribers reconnect and fetch all orders.
Restart ==
    /\ restarts < MaxRestarts
    /\ restarts' = restarts + 1
    /\ \E now \in (IF headers = {} THEN 0 ELSE Time[Latest(headers)])..Unlimited,
          R \in (IF Full THEN TrimSets ELSE {{}}) :
        LET base == IF now > maxExp THEN now ELSE maxExp
            pinnedOnly == Full /\ Cardinality(R) < Excess
            unknown == (Stored \ R) \cap Unrecognised # {}
        IN  /\ orders' = Without(R)
            /\ maxExp' = IF R = {} \/ pinnedOnly THEN base ELSE Lowered(base, R)
            /\ main' = IF pinnedOnly \/ unknown THEN [pc |-> "failed"] ELSE Idle
            /\ tree' = Stored \ R
    /\ view' = Snapshot(orders')
    /\ stack' = ByNumber(PruneHeaders(headers))
    /\ headers' = PruneHeaders(headers)
    /\ cleanup' = Waiting /\ doomed' = {} /\ missed' = {} /\ started' = FALSE
    /\ adder' = [a \in Adder |-> Idle]

Init ==
    /\ orders = [o \in Order |-> NoOrder]
    /\ headers = {} /\ stack = <<>> /\ tree = {}
    /\ maxExp = Unlimited /\ view = [o \in Order |-> 0]
    /\ main = Idle /\ cleanup = Waiting /\ doomed = {}
    /\ adder = [a \in Adder |-> Idle]
    /\ missed = {} /\ started = FALSE /\ restarts = 0

Next ==
    \/ TakeBatch \/ CommitOrders \/ CommitHeaders
    \/ StartCleanup \/ FinishCleanup \/ SendCleanup
    \/ FindStaleRemoved \/ \E o \in Order : DeleteStaleRemoved(o)
    \/ IncreaseMaxExp
    \/ \E a \in Adder : \/ Check(a) \/ Validate(a) \/ Trim(a) \/ TrimMemory(a)
                        \/ Insert(a) \/ SetupMemory(a) \/ Send(a) \/ Cancel(a)
    \/ CompleteStart \/ Tick \/ Restart \/ Stopped

Spec == Init /\ [][Next]_vars

-----------------------------------------------------------------------------
(* Properties *)

\* No handler is in the middle of anything.
Quiet == /\ main.pc = "idle" /\ cleanup.pc \in {"idle", "waiting"}
         /\ \A a \in Adder : adder[a].pc = "idle"

\* "add adds a 0x order to the DB and watches it for changes in fillability":
\* between handlers every order that is stored and not removed is in the
\* expiration watcher, so that handleOrderExpirations will see it expire.
\* There are three exceptions.  A MeshError right after the order was pruned
\* ("missed" holds those orders).  An order whose asset data decoding fails is
\* stored and never watched.  And while two calls add orders, one may store an
\* order again that the other has just trimmed, before the other takes it out of
\* the expiration watcher.
LiveIsTracked == Quiet => Live \subseteq tree \cup missed

\* Between handlers no stored order that is not removed has expired by the
\* latest stored header, with the same exception: handleOrderExpirations
\* and revalidation together leave none behind, whatever the reorgs.
NoExpiredLive ==
    Quiet /\ headers # {} =>
        \A o \in Live \ missed : Time[Latest(headers)] < Exp[o]

\* Between handlers a subscriber that applied all order events knows each
\* stored, not removed order with the amount that is stored: no change of an
\* order that stays open goes unannounced.
LiveIsAnnounced ==
    Quiet => \A o \in Live : view[o] = orders[o].amount

\* Every header of the block watcher's stack is stored, and its top is the
\* latest stored one: a node that restarts resumes where the events that
\* handleBlockEvents has handled ended, whatever the batches were.
HeadersCoverStack ==
    main.pc = "idle" => /\ {stack[i] : i \in DOMAIN stack} \subseteq headers
                        /\ stack # <<>> => Latest(headers) = Top(stack)

\* add checks for room before it inserts: however trims, insertions and
\* deletions interleave, each call in progress exceeds MaxOrders by no more
\* than the orders it was given, less one.
StorageIsBounded ==
    Cardinality(Stored) < MaxOrders + MaxOffer * Cardinality(Adder)

\* Making room, here and at a restart, and revalidation never delete a pinned
\* order that is not removed.  (The removed-order checker can, for an order
\* that was removed when it looked.)
PinnedStays ==
    [][\A o \in Live \ doomed : orders[o].pinned => o \in Stored']_vars

\* Fairness: every goroutine goes on, time passes, and Go's mutexes do not
\* starve a goroutine that waits for one.  Nothing makes the node restart or
\* a call be made or cancelled.
Fairness ==
    /\ WF_vars(CommitOrders) /\ WF_vars(CommitHeaders)
    /\ WF_vars(FinishCleanup) /\ WF_vars(SendCleanup)
    /\ WF_vars(FindStaleRemoved) /\ SF_vars(Tick)
    /\ \A o \in Order : SF_vars(DeleteStaleRemoved(o))
    /\ \A a \in Adder :
        /\ SF_vars(Validate(a)) /\ SF_vars(Trim(a)) /\ WF_vars(TrimMemory(a))
        /\ SF_vars(Insert(a)) /\ WF_vars(SetupMemory(a)) /\ WF_vars(Send(a))
FairSpec == Spec /\ Fairness

\* A removed order is eventually deleted or watched again, unless Watch
\* ends: neither reorgs nor revalidation keep it in storage for ever.  And
\* every call of ValidateAndStoreValidOrders ends: it is never left waiting
\* for the block event lock or for the orders collection.
WorkIsFinished ==
    /\ \A o \in Order : (o \in Stored \ Live) ~> (o \notin Stored \ Live \/ ~Running)
    /\ \A a \in Adder : (adder[a].pc # "idle") ~> (adder[a].pc = "idle")

=============================================================================
