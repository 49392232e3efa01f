----------------------------- MODULE Snapshots ------------------------------
(***************************************************************************)
(* core: App.GetOrders.  Orders are handed out page by page from a         *)
(* snapshot of the database.  A request with an empty snapshot ID makes a  *)
(* new snapshot, a request with an ID renews that snapshot's expiration    *)
(* time, and a goroutine of App.Start forgets the snapshots that the       *)
(* expiration watcher (expirationwatch) has pruned.  The map of snapshots  *)
(* and the tree of expiration times have a lock each.  A step is what a    *)
(* goroutine does up to the next point where it matters what the others do *)
(* in between; a lock that is taken again for the same key is no such      *)
(* point, because new expiration times are never among the expired ones.   *)
(***************************************************************************)
EXTENDS Integers, Sequences, FiniteSets, FiniteSetsExt, Functions

CONSTANTS Order,       \* orders; their hashes are numbers, in the index's order
          Caller,      \* goroutines that may call GetOrders
          PerPage,
          Ttl,         \* the minute after which an unused snapshot expires
          MaxTime, MaxSnapshots, MaxChanges  \* bounds of the model

NoID == 0
ID == 1..MaxSnapshots

ASSUME SnapshotsAssumption ==
    /\ Order \subseteq Nat /\ IsFiniteSet(Order) /\ PerPage \in Nat \ {0} /\ Ttl \in Nat \ {0}
    /\ MaxTime \in Nat /\ MaxSnapshots \in Nat /\ MaxChanges \in Nat

VARIABLES
    now,               \* the clock, in seconds
    orders,            \* the stored orders that are not marked as removed
    changes,           \* how often they have changed
    tree,              \* rbTree: pairs of expiration time and snapshot ID
    idToSnapshotInfo,  \* ID |-> orders of the snapshot, expiration time
    made,              \* the orders of every snapshot made, by ID
    call,              \* the GetOrders call of each caller
    pruner             \* the IDs the pruning goroutine of App.Start has still to forget

snapshotVars == <<tree, idToSnapshotInfo, made, call>>
dbVars == <<now, orders, changes>>

Idle == [at |-> "idle", page |-> 0, id |-> NoID, orders |-> {}, exp |-> 0]
Failed == [Idle EXCEPT !.at = "failed"]

\* A query over the index, which is in the order of the hashes, with Offset and
\* Max: it leaves out the first page * PerPage orders and stops after PerPage more.
Rank(S, o) == Cardinality({p \in S : p < o})
Page(S, page) == {o \in S : page * PerPage <= Rank(S, o) /\ Rank(S, o) < (page + 1) * PerPage}

\* The expiration watcher's Add, Remove and Prune, on its tree.
AddItem(t, exp, id) == t \cup {<<exp, id>>}
RemoveItem(t, exp, id) == t \ {<<exp, id>>}
Expired(t) == {e \in t : e[1] <= now}

-----------------------------------------------------------------------------
\* External: time passes.
Tick ==
    /\ now < MaxTime
    /\ now' = now + 1
    /\ UNCHANGED <<orders, changes, snapshotVars, pruner>>

\* External: the order watcher adds or removes an order.
OrdersChange ==
    /\ changes < MaxChanges
    /\ changes' = changes + 1
    /\ \E o \in Order : orders' = SymDiff(orders, {o})
    /\ UNCHANGED <<now, snapshotVars, pruner>>

-----------------------------------------------------------------------------
\* GetOrders without an ID: a snapshot with a new ID, and its expiration time
\* in the tree.  It is not in the map yet.
NewSnapshot(c, page) ==
    LET id == Len(made) + 1
    IN  /\ id \in ID
        /\ made' = Append(made, orders)
        /\ tree' = AddItem(tree, now + Ttl, id)
        /\ call' = [call EXCEPT ![c] = [at |-> "insert", page |-> page, id |-> id,
                                        orders |-> orders, exp |-> now + Ttl]]
        /\ UNCHANGED idToSnapshotInfo

\* Mutant: the new expiration time is not put in the tree.
RenewInMapOnly(c, page, id) ==
    LET info == idToSnapshotInfo[id]
    IN  /\ id \in DOMAIN idToSnapshotInfo
        /\ tree' = RemoveItem(tree, info.exp, id)
        /\ idToSnapshotInfo' = [idToSnapshotInfo EXCEPT ![id].exp = now + Ttl]
        /\ call' = [call EXCEPT ![c] = [at |-> "query", page |-> page, id |-> id,
                                        orders |-> info.orders, exp |-> now + Ttl]]
        /\ UNCHANGED made

\* GetOrders with the ID of a snapshot in the map: its expiration time is reset
\* in the tree and in the map, under the map's lock.
RenewSnapshot(c, page, id) ==
    LET info == idToSnapshotInfo[id]
    IN  /\ id \in DOMAIN idToSnapshotInfo
        /\ tree' = AddItem(RemoveItem(tree, info.exp, id), now + Ttl, id)
        /\ idToSnapshotInfo' = [idToSnapshotInfo EXCEPT ![id].exp = now + Ttl]
        /\ call' = [call EXCEPT ![c] = [at |-> "query", page |-> page, id |-> id,
                                        orders |-> info.orders, exp |-> now + Ttl]]
        /\ UNCHANGED made

\* The database cannot make a snapshot, or there is none with this ID.
SnapshotFails(c, id) ==
    /\ id = NoID \/ id \notin DOMAIN idToSnapshotInfo
    /\ call' = [call EXCEPT ![c] = Failed]
    /\ UNCHANGED <<tree, idToSnapshotInfo, made>>

\* GetOrders(page, PerPage, id) is called; a PerPage of 0 is refused before.
GetOrders(c, page, id) ==
    /\ call[c].at = "idle"
    /\ \/ id = NoID /\ NewSnapshot(c, page)
       \/ id # NoID /\ RenewSnapshot(c, page, id)
       \/ SnapshotFails(c, id)

\* The new snapshot is put in the map.
InsertSnapshot(c) ==
    /\ call[c].at = "insert"
    /\ idToSnapshotInfo' =
          [id \in DOMAIN idToSnapshotInfo \cup {call[c].id} |->
              IF id = call[c].id THEN [orders |-> call[c].orders, exp |-> call[c].exp]
              ELSE idToSnapshotInfo[id]]
    /\ call' = [call EXCEPT ![c].at = "query"]
    /\ UNCHANGED <<dbVars, tree, made, pruner>>

\* The query over the snapshot; the caller takes the page from here.
Found(c) == Page(call[c].orders, call[c].page)

-----------------------------------------------------------------------------
\* Prune: the keys of the tree that have expired are deleted, smallest first,
\* and their IDs collected.
Prune ==
    /\ pruner = {} /\ Expired(tree) # {}
    /\ tree' = tree \ Expired(tree)
    /\ pruner' = {e[2] : e \in Expired(tree)}
    /\ UNCHANGED <<dbVars, idToSnapshotInfo, made, call>>

\* Then they are deleted from the map, one critical section each.
ForgetSnapshot ==
    /\ \E id \in pruner :
        /\ idToSnapshotInfo' = Restrict(idToSnapshotInfo, DOMAIN idToSnapshotInfo \ {id})
        /\ pruner' = pruner \ {id}
    /\ UNCHANGED <<dbVars, tree, made, call>>

PrunerStep == Prune \/ ForgetSnapshot

SnapshotsInit ==
    /\ now = 0 /\ orders = Order /\ changes = 0
    /\ tree = {} /\ idToSnapshotInfo = <<>> /\ made = <<>>
    /\ call = [c \in Caller |-> Idle]
    /\ pruner = {}

-----------------------------------------------------------------------------
(***************************************************************************)
(* A snapshot whose expiration time is still ahead will be pruned at that  *)
(* time: the tree has its ID under exactly this time.  (GetOrders changes  *)
(* the map and the tree while the pruning goroutine empties both.)         *)
(***************************************************************************)
UnexpiredIsWatched ==
    \A id \in DOMAIN idToSnapshotInfo :
        idToSnapshotInfo[id].exp > now => <<idToSnapshotInfo[id].exp, id>> \in tree
=============================================================================
