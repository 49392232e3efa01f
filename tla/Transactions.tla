---------------------------- MODULE Transactions ----------------------------
(***************************************************************************)
(* db: collections of models over LevelDB.  A model is stored under its    *)
(* primary key, once more under an index key, and counted under the count  *)
(* key of its collection.  A transaction queues writes in a batch while it *)
(* reads the database itself, and writes the batch when it commits.        *)
(*                                                                         *)
(* A goroutine (Proc) either opens transactions on the collections of its  *)
(* role, in that order, as handleBlockEvents does with mini headers and    *)
(* orders, or, if its role is empty, one transaction on all of them.  The  *)
(* locks are not variables: who holds them follows from where the          *)
(* goroutines are.  A transaction is used by one goroutine, so its mutex   *)
(* matters only where Commit calls Discard.  An operation that returns an  *)
(* error queues nothing and is no step here.                               *)
(***************************************************************************)
EXTENDS Integers, FiniteSets, Sequences, Functions

CONSTANTS
    Col,      \* collections
    ID,       \* model IDs
    Value,    \* what the index of a collection is computed from
    NoModel,  \* nothing is stored under a primary key
    Model,    \* the models the callers write: collection, ID, value
    Filter,   \* what the queries ask for: collection, value
    Proc,     \* goroutines that write
    Roles     \* the roles the goroutines may have together

ASSUME ModelAssumption ==
    /\ Model \subseteq Col \X ID \X Value
    /\ Filter \subseteq Col \X Value
    /\ NoModel \notin Value \cup Col
    /\ IsFiniteSet(ID)
ASSUME RoleAssumption == \A r \in Roles : \A p \in Proc : IsInjective(r[p]) /\ r[p] \in Seq(Col)

VARIABLES
    role,   \* the collections each goroutine opens; <<>>: a global transaction
    db,     \* LevelDB: the keys of each collection
    st,     \* the transaction of each goroutine on each collection
    glob,   \* the global transaction of each goroutine
    opened, \* how many of its collections the goroutine has opened
    work,   \* what each open transaction has queued
    query   \* a running query

vars == <<role, db, st, glob, opened, work, query>>

-----------------------------------------------------------------------------
(* What is stored, and what a batch does to it.                            *)

Stored(d) == {i \in ID : d.data[i] # NoModel}

EmptyDB == [data |-> [i \in ID |-> NoModel], index |-> {}, count |-> 0]

Key(i, v) == [key |-> "model", id |-> i, val |-> v]
Index(k, i, v) == [key |-> k, id |-> i, val |-> v]

Write(d, w) ==
    CASE w.key = "model" -> [d EXCEPT !.data[w.id] = w.val]
      [] w.key = "put"   -> [d EXCEPT !.index = @ \cup {<<w.val, w.id>>}]
      [] w.key = "del"   -> [d EXCEPT !.index = @ \ {<<w.val, w.id>>}]

Batched(d, batch) ==
    LET after[n \in 0 .. Len(batch)] == IF n = 0 THEN d ELSE Write(after[n - 1], batch[n])
    IN  after[Len(batch)]

\* Commit adds the update of the count key to the batch and writes the batch.
Written(d, u) == [Batched(d, u.batch) EXCEPT !.count = d.count + u.diff]

\* affectedIDs of a Transaction.  "want" is no field of it: it is the content
\* the caller asks for with the operations it has queued.
NoWork(d) == [batch |-> <<>>, diff |-> 0, affected |-> {}, want |-> d.data]

Queue(u, i, v, ws, n) ==
    [batch |-> u.batch \o ws, diff |-> u.diff + n,
     affected |-> u.affected \cup {i}, want |-> [u.want EXCEPT ![i] = v]]

\* The two index functions stand for the loop over all indexes of the collection.
saveIndexesWithTransaction(i, v) == <<Index("put", i, v)>>
deleteIndexesWithTransaction(i, v) == <<Index("del", i, v)>>
findExistingModel(d, i) == d.data[i]

\* Mutant: an update removes the old index key after it has written the new one.
NewIndexFirst(d, u, i, v) ==
    Queue(u, i, v, <<Key(i, v), Index("put", i, v), Index("del", i, d.data[i])>>, 0)

insertWithTransaction(d, u, i, v) ==
    Queue(u, i, v, <<Key(i, v)>> \o saveIndexesWithTransaction(i, v), 1)
updateWithTransaction(d, u, i, v) ==
    Queue(u, i, v, deleteIndexesWithTransaction(i, findExistingModel(d, i)) \o <<Key(i, v)>>
                     \o saveIndexesWithTransaction(i, v), 0)
deleteWithTransaction(d, u, i) ==
    Queue(u, i, NoModel, <<Key(i, NoModel)>> \o deleteIndexesWithTransaction(i, findExistingModel(d, i)), -1)

-----------------------------------------------------------------------------
(* The locks.                                                              *)

IsGlobal(p) == role[p] = <<>>

\* Commit returns only after the Discard it calls, which waits for txn.mut,
\* which Commit holds until it returns.
HoldsMut(s) == s = "failed"

Running(p) == glob[p] # "failed" /\ \A c \in Col : st[p][c] # "failed"

\* Mutant: OpenTransaction does not take globalWriteLock.
NoGlobalLock == TRUE
\* globalWriteLock is free for readers: no writer holds it or waits for it.
GlobalReadable == \A q \in Proc : glob[q] = "closed"
NoReader == \A q \in Proc, c \in Col : st[q][c] = "closed"
\* A goroutine takes colLock just before it asks for globalWriteLock.
ColLockFree == \A q \in Proc : glob[q] = "closed"
WriteMutFree(c) == \A q \in Proc : st[q][c] \in {"closed", "rlocked"}

-----------------------------------------------------------------------------
(* Transactions on one collection.                                         *)

NextCol(p) == role[p][opened[p] + 1]

RLock(p) ==
    /\ ~IsGlobal(p) /\ Running(p)
    /\ opened[p] < Len(role[p])
    /\ st[p][NextCol(p)] = "closed"
    /\ GlobalReadable
    /\ st' = [st EXCEPT ![p][NextCol(p)] = "rlocked"]
    /\ UNCHANGED <<role, db, glob, opened, work, query>>

LockCollection(p) ==
    /\ ~IsGlobal(p) /\ Running(p)
    /\ opened[p] < Len(role[p])
    /\ st[p][NextCol(p)] = "rlocked"
    /\ WriteMutFree(NextCol(p))
    /\ st' = [st EXCEPT ![p][NextCol(p)] = "open"]
    /\ work' = [work EXCEPT ![p][NextCol(p)] = NoWork(db[NextCol(p)])]
    /\ opened' = [opened EXCEPT ![p] = @ + 1]
    /\ UNCHANGED <<role, db, glob, query>>

InTransaction(p, c) ==
    /\ ~IsGlobal(p) /\ Running(p)
    /\ opened[p] = Len(role[p]) /\ st[p][c] = "open"

\* The check of affectedIDs: no model is touched twice.
Fresh(p, c, i) == i \notin work[p][c].affected

Insert(p, c, i, v) ==
    /\ InTransaction(p, c)
    /\ Fresh(p, c, i)
    /\ db[c].data[i] = NoModel
    /\ work' = [work EXCEPT ![p][c] = insertWithTransaction(db[c], @, i, v)]
    /\ UNCHANGED <<role, db, st, glob, opened, query>>

UpdateModel(p, c, i, v) ==
    /\ InTransaction(p, c)
    /\ Fresh(p, c, i)
    /\ db[c].data[i] # NoModel
    /\ work' = [work EXCEPT ![p][c] = updateWithTransaction(db[c], @, i, v)]
    /\ UNCHANGED <<role, db, st, glob, opened, query>>

Delete(p, c, i) ==
    /\ InTransaction(p, c)
    /\ Fresh(p, c, i)
    /\ db[c].data[i] # NoModel
    /\ work' = [work EXCEPT ![p][c] = deleteWithTransaction(db[c], @, i)]
    /\ UNCHANGED <<role, db, st, glob, opened, query>>

\* Mutant: the read lock of globalWriteLock is kept.
KeepRLock(p, c) ==
    /\ st' = [st EXCEPT ![p][c] = "rlocked"]
    /\ opened' = [opened EXCEPT ![p] = 0]
    /\ work' = [work EXCEPT ![p][c] = NoWork(EmptyDB)]

\* The unlocks at the end of Commit and Discard.  The goroutine starts over
\* when it has closed the last of its transactions.
Unlock(p, c) ==
    /\ st' = [st EXCEPT ![p][c] = "closed"]
    /\ opened' = [opened EXCEPT ![p] =
                    IF \A d \in Col \ {c} : st[p][d] = "closed" THEN 0 ELSE @]
    /\ work' = [work EXCEPT ![p][c] = NoWork(EmptyDB)]

\* What remains of the models that matched the query since it started.
Steady(q, d) == [q EXCEPT !.steady = {i \in @ : d[q.col].data[i] = q.val}]

Commit(p, c) ==
    /\ InTransaction(p, c)
    /\ db' = [db EXCEPT ![c] = Written(@, work[p][c])]
    /\ query' = Steady(query, db')
    /\ Unlock(p, c)
    /\ UNCHANGED <<role, glob>>

\* LevelDB refuses the batch, as it does once it is closed.
CommitFails(p, c) ==
    /\ InTransaction(p, c)
    /\ st' = [st EXCEPT ![p][c] = "failed"]
    /\ UNCHANGED <<role, db, glob, opened, work, query>>

Discard(p, c) ==
    /\ InTransaction(p, c) \/ st[p][c] = "failed"
    /\ ~HoldsMut(st[p][c])
    /\ Unlock(p, c)
    /\ UNCHANGED <<role, db, glob, query>>

-----------------------------------------------------------------------------
(* Transactions on all collections.                                        *)

LockCollections(p) ==
    /\ IsGlobal(p)
    /\ glob[p] = "closed"
    /\ ColLockFree
    /\ glob' = [glob EXCEPT ![p] = "waiting"]
    /\ UNCHANGED <<role, db, st, opened, work, query>>

LockGlobal(p) ==
    /\ glob[p] = "waiting"
    /\ NoReader
    /\ glob' = [glob EXCEPT ![p] = "open"]
    /\ work' = [work EXCEPT ![p] = [c \in Col |-> NoWork(db[c])]]
    /\ UNCHANGED <<role, db, st, opened, query>>

InGlobalTransaction(p) == glob[p] = "open"

\* A GlobalTransaction has no affectedIDs to check: it is its callers that do not
\* touch a model twice.
InsertGlobal(p, c, i, v) ==
    /\ InGlobalTransaction(p) /\ Fresh(p, c, i)
    /\ db[c].data[i] = NoModel
    /\ work' = [work EXCEPT ![p][c] = insertWithTransaction(db[c], @, i, v)]
    /\ UNCHANGED <<role, db, st, glob, opened, query>>

UpdateGlobal(p, c, i, v) ==
    /\ InGlobalTransaction(p) /\ Fresh(p, c, i)
    /\ db[c].data[i] # NoModel
    /\ work' = [work EXCEPT ![p][c] = updateWithTransaction(db[c], @, i, v)]
    /\ UNCHANGED <<role, db, st, glob, opened, query>>

DeleteGlobal(p, c, i) ==
    /\ InGlobalTransaction(p) /\ Fresh(p, c, i)
    /\ db[c].data[i] # NoModel
    /\ work' = [work EXCEPT ![p][c] = deleteWithTransaction(db[c], @, i)]
    /\ UNCHANGED <<role, db, st, glob, opened, query>>

UnlockGlobal(p) ==
    /\ glob' = [glob EXCEPT ![p] = "closed"]
    /\ work' = [work EXCEPT ![p] = [c \in Col |-> NoWork(EmptyDB)]]

\* Mutant: only the collections whose count changes are written.
CommitCounted(p) ==
    /\ glob[p] = "open"
    /\ db' = [c \in Col |-> IF work[p][c].diff = 0 THEN db[c] ELSE Written(db[c], work[p][c])]
    /\ query' = Steady(query, db')
    /\ UnlockGlobal(p)
    /\ UNCHANGED <<role, st, opened>>

CommitGlobal(p) ==
    /\ glob[p] = "open"
    /\ db' = [c \in Col |-> Written(db[c], work[p][c])]
    /\ query' = Steady(query, db')
    /\ UnlockGlobal(p)
    /\ UNCHANGED <<role, st, opened>>

CommitGlobalFails(p) ==
    /\ glob[p] = "open"
    /\ glob' = [glob EXCEPT ![p] = "failed"]
    /\ UNCHANGED <<role, db, st, opened, work, query>>

DiscardGlobal(p) ==
    /\ glob[p] \in {"open", "failed"}
    /\ ~HoldsMut(glob[p])
    /\ UnlockGlobal(p)
    /\ UNCHANGED <<role, db, st, opened, query>>

-----------------------------------------------------------------------------
(* Queries by index value, of the database (live) or of a snapshot of it.  *)

NoQuery == [col |-> NoModel, live |-> TRUE, steady |-> {}, todo |-> {}]

\* The iterator holds on to the index as it is when the query starts.
StartQuery(c, v, live) ==
    /\ query.col = NoModel
    /\ query' = [col |-> c, val |-> v, live |-> live,
                  snapshot |-> IF live THEN EmptyDB.data ELSE db[c].data,
                  todo |-> {i \in ID : <<v, i>> \in db[c].index}, got |-> {},
                  steady |-> {i \in ID : live /\ db[c].data[i] = v}]
    /\ UNCHANGED <<role, db, st, glob, opened, work>>

\* Mutant: the models of a snapshot query are read from the database.
ReadsLive(q) == db[q.col].data
Reads(q) == IF q.live THEN db[q.col].data ELSE q.snapshot

\* A model that is gone by now is left out.
Found(q, i) == IF Reads(q)[i] = NoModel THEN q.got ELSE q.got \cup {i}

getAndAppendModel(i) ==
    /\ query.col # NoModel
    /\ i \in query.todo
    /\ query' = [query EXCEPT !.todo = @ \ {i}, !.got = Found(query, i)]
    /\ UNCHANGED <<role, db, st, glob, opened, work>>

EndQuery ==
    /\ query.col # NoModel
    /\ query.todo = {}
    /\ query' = NoQuery
    /\ UNCHANGED <<role, db, st, glob, opened, work>>

-----------------------------------------------------------------------------
NoTransaction == [p \in Proc |-> [c \in Col |-> "closed"]]
NoGlobal == [p \in Proc |-> "closed"]
NoneOpened == [p \in Proc |-> 0]
NothingQueued == [p \in Proc |-> [c \in Col |-> NoWork(EmptyDB)]]

Init ==
    /\ role \in Roles
    /\ db = [c \in Col |-> EmptyDB]
    /\ st = NoTransaction /\ glob = NoGlobal /\ opened = NoneOpened
    /\ work = NothingQueued
    /\ query = NoQuery

\* The process dies; what LevelDB has written stays.
Crash ==
    /\ st' = NoTransaction /\ glob' = NoGlobal /\ opened' = NoneOpened
    /\ work' = NothingQueued
    /\ query' = NoQuery
    /\ UNCHANGED <<role, db>>

Close(p) ==
    \/ \E c \in Col : Commit(p, c) \/ Discard(p, c)
    \/ CommitGlobal(p)
    \/ DiscardGlobal(p)

Next ==
    \/ \E p \in Proc :
        \/ RLock(p)
        \/ LockCollection(p)
        \/ LockCollections(p)
        \/ LockGlobal(p)
        \/ \E m \in Model : Insert(p, m[1], m[2], m[3]) \/ UpdateModel(p, m[1], m[2], m[3])
        \/ \E c \in Col, i \in ID : Delete(p, c, i)
        \/ \E m \in Model : InsertGlobal(p, m[1], m[2], m[3]) \/ UpdateGlobal(p, m[1], m[2], m[3])
        \/ \E c \in Col, i \in ID : DeleteGlobal(p, c, i)
        \/ \E c \in Col : CommitFails(p, c)
        \/ CommitGlobalFails(p)
        \/ Close(p)
    \/ \E f \in Filter, live \in BOOLEAN : StartQuery(f[1], f[2], live)
    \/ \E i \in ID : getAndAppendModel(i)
    \/ EndQuery
    \/ Crash

Spec == Init /\ [][Next]_vars

\* A goroutine that is inside OpenTransaction or OpenGlobalTransaction.
Opening(p) ==
    \/ glob[p] = "waiting"
    \/ opened[p] < Len(role[p]) /\ \E c \in Col : st[p][c] # "closed"

(***************************************************************************)
(* sync.Mutex hands itself to a goroutine that has waited for 1ms, so a    *)
(* waiter for writeMut is not overtaken for ever; a waiting writer keeps   *)
(* new readers of globalWriteLock out.  The callers close what they open.  *)
(* No fairness makes an idle goroutine open a transaction, or a Commit     *)
(* fail.                                                                   *)
(***************************************************************************)
Fairness ==
    \A p \in Proc :
        /\ WF_vars(opened[p] > 0 /\ RLock(p))
        /\ SF_vars(LockCollection(p))
        /\ WF_vars(LockGlobal(p))
        /\ WF_vars(Close(p))

FairSpec == Spec /\ Fairness

-----------------------------------------------------------------------------
(* Properties.                                                             *)

\* CheckIntegrity never finds anything, and Count is right: after any crash and
\* whatever the transactions did, every collection has exactly the index keys
\* of its models, and its count key says how many models it has.
Integrity ==
    \A c \in Col :
        /\ db[c].index = {<<db[c].data[i], i>> : i \in Stored(db[c])}
        /\ db[c].count = Cardinality(Stored(db[c]))

HasOpen(p, c) == glob[p] = "open" \/ st[p][c] = "open"

\* OpenTransaction, OpenGlobalTransaction: while a transaction is open, no one
\* else changes its collection, so that what it has read of it (Has, Get, the
\* count) still holds when it commits.
Isolation ==
    [][\A p \in Proc, c \in Col : HasOpen(p, c) /\ HasOpen(p, c)' => db'[c] = db[c]]_vars

\* Transactions are atomic: the step that ends one leaves each collection as it
\* was, or with all of the operations queued on it applied and nothing else;
\* a global transaction does one or the other for all collections together.
AllOrNothing ==
    [][LET Ends(p, c) == HasOpen(p, c) /\ ~HasOpen(p, c)'
           Applied(p, c) == db'[c].data = work[p][c].want
       IN  \A p \in Proc : LET E == {c \in Col : Ends(p, c)} IN
            \/ \A c \in E : db'[c] = db[c]
            \/ \A c \in E : Applied(p, c)]_vars

\* A query of a snapshot finds exactly the models of the snapshot that have the
\* value; a live query, whose iterator and reads see different states, finds
\* at least the models that had the value all the time.
QueryIsComplete ==
    query.col # NoModel /\ query.todo = {} =>
        IF query.live THEN query.steady \subseteq query.got
        ELSE query.got = {i \in ID : query.snapshot[i] = query.val}

\* A goroutine that opens transactions gets the locks it waits for, nested
\* transactions and a waiting global transaction included, unless some Commit
\* has failed.
OpenReturns ==
    \A p \in Proc : Opening(p) ~> (~Opening(p) \/ \E q \in Proc : ~Running(q))
=============================================================================
