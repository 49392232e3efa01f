------------------------- MODULE TransactionsProofs -------------------------
(***************************************************************************)
(* Transactions, for every number of goroutines, collections and models    *)
(* and for every role.                                                     *)
(*                                                                         *)
(* Isolation is mutual exclusion: a step that changes a collection is the  *)
(* commit of a transaction that has it open, and the locks let one         *)
(* goroutine at a time have it open (LockInv).  What was read of the       *)
(* collection while it was open is then still true at the commit, so the   *)
(* batch makes of it exactly what the caller asked for, index keys and     *)
(* count included (DataInv): integrity, atomicity, and what queries find   *)
(* (QueryInv) follow.                                                      *)
(***************************************************************************)
EXTENDS Transactions, SequenceTheorems, FiniteSetTheorems, WellFoundedInduction, TLAPS

States == {"closed", "rlocked", "open", "failed"}
GlobalStates == {"closed", "waiting", "open", "failed"}

LockTypes ==
    /\ role \in Roles
    /\ st \in [Proc -> [Col -> States]]
    /\ glob \in [Proc -> GlobalStates]
    /\ opened \in [Proc -> Nat]

\* A goroutine keeps to its role.
KeepsRole ==
    /\ \A p \in Proc : IsGlobal(p) => \A c \in Col : st[p][c] = "closed"
    /\ \A p \in Proc : ~IsGlobal(p) => glob[p] = "closed"

\* What writeMut, colLock and globalWriteLock protect.
Exclusion ==
    /\ \A p, q \in Proc : \A c \in Col :
        st[p][c] \in {"open", "failed"} /\ st[q][c] \in {"open", "failed"} => p = q
    /\ \A p, q \in Proc : glob[p] # "closed" /\ glob[q] # "closed" => p = q
    /\ \A p, q \in Proc : \A c \in Col :
        glob[p] \in {"open", "failed"} => st[q][c] = "closed"

LockInv == LockTypes /\ KeepsRole /\ Exclusion

\* What st' is when one goroutine moves on one collection, read at any place.
LEMMA Moved ==
    ASSUME NEW P, NEW C, NEW S, NEW f \in [P -> [C -> S]], NEW p \in P, NEW c \in C, NEW v \in S,
           NEW g, g = [f EXCEPT ![p][c] = v]
    PROVE  /\ g \in [P -> [C -> S]]
           /\ g[p][c] = v
           /\ \A q \in P : \A d \in C : q # p \/ d # c => g[q][d] = f[q][d]
  OBVIOUS

\* The collection OpenTransaction locks next is one of the goroutine's role.
LEMMA NextColType ==
    ASSUME LockTypes, NEW p \in Proc, opened[p] < Len(role[p])
    PROVE  NextCol(p) \in Col
  <1>1. role[p] \in Seq(Col)
    BY RoleAssumption DEF LockTypes
  <1>2. opened[p] + 1 \in 1..Len(role[p])
    BY <1>1 DEF LockTypes
  <1>3. QED
    BY <1>1, <1>2 DEF NextCol

\* No lock is held when the database is opened.
LEMMA LockInit == Init => LockInv
  BY DEF Init, LockInv, LockTypes, KeepsRole, Exclusion, NoTransaction, NoGlobal, NoneOpened,
         States, GlobalStates

\* A step that leaves the locks alone.
LEMMA Untouched ==
    LockInv /\ UNCHANGED <<role, st, glob, opened>> => LockInv'
  BY DEF LockInv, LockTypes, KeepsRole, Exclusion, IsGlobal

\* RLock takes no lock that another goroutine may hold alone.
LEMMA RLockKeeps ==
    ASSUME LockInv, NEW p \in Proc, RLock(p)
    PROVE  LockInv'
  <1> DEFINE c == NextCol(p)
  <1>1. c \in Col
    BY NextColType DEF RLock, LockInv
  <1>2. /\ st' \in [Proc -> [Col -> States]]
        /\ st'[p][c] = "rlocked"
        /\ \A q \in Proc : \A d \in Col : q # p \/ d # c => st'[q][d] = st[q][d]
    BY <1>1, Moved, "rlocked" \in States DEF RLock, LockInv, LockTypes, States
  <1> HIDE DEF c
  <1>3. LockTypes'
    BY <1>2 DEF RLock, LockInv, LockTypes
  <1>4. KeepsRole'
    BY <1>1, <1>2 DEF RLock, LockInv, LockTypes, KeepsRole, IsGlobal
  <1>5. Exclusion'
    BY <1>1, <1>2 DEF RLock, LockInv, LockTypes, Exclusion, GlobalReadable
  <1>6. QED
    BY <1>3, <1>4, <1>5 DEF LockInv

\* OpenTransaction gets writeMut when no one has it.
LEMMA LockCollectionKeeps ==
    ASSUME LockInv, NEW p \in Proc, LockCollection(p)
    PROVE  LockInv'
  <1> DEFINE c == NextCol(p)
  <1>1. c \in Col
    BY NextColType DEF LockCollection, LockInv
  <1>2. /\ st' \in [Proc -> [Col -> States]]
        /\ st'[p][c] = "open"
        /\ \A q \in Proc : \A d \in Col : q # p \/ d # c => st'[q][d] = st[q][d]
    BY <1>1, Moved, "open" \in States DEF LockCollection, LockInv, LockTypes, States
  <1>3. st[p][c] = "rlocked" /\ \A q \in Proc : st[q][c] \in {"closed", "rlocked"}
    BY DEF LockCollection, WriteMutFree
  <1> HIDE DEF c
  <1>4. LockTypes'
    BY <1>2 DEF LockCollection, LockInv, LockTypes
  <1>5. KeepsRole'
    BY <1>1, <1>2 DEF LockCollection, LockInv, LockTypes, KeepsRole, IsGlobal
  <1>6. Exclusion'
    BY <1>1, <1>2, <1>3 DEF LockCollection, LockInv, LockTypes, Exclusion
  <1>7. QED
    BY <1>4, <1>5, <1>6 DEF LockInv

\* Commit and Discard release what they hold.
LEMMA UnlockKeeps ==
    ASSUME LockInv, NEW p \in Proc, NEW c \in Col, Unlock(p, c), UNCHANGED <<role, glob>>
    PROVE  LockInv'
  <1>1. /\ st' \in [Proc -> [Col -> States]]
        /\ st'[p][c] = "closed"
        /\ \A q \in Proc : \A d \in Col : q # p \/ d # c => st'[q][d] = st[q][d]
    BY Moved, "closed" \in States DEF Unlock, LockInv, LockTypes, States
  <1>2. opened' \in [Proc -> Nat]
    BY DEF Unlock, LockInv, LockTypes
  <1>3. LockTypes'
    BY <1>1, <1>2 DEF LockInv, LockTypes
  <1>4. KeepsRole'
    BY <1>1, Zenon DEF LockInv, LockTypes, KeepsRole, IsGlobal
  <1>5. \A q \in Proc : \A d \in Col : st'[q][d] = st[q][d] \/ st'[q][d] = "closed"
    BY <1>1
  <1>6. Exclusion'
    <2>1. ASSUME NEW x \in Proc, NEW y \in Proc, NEW d \in Col,
                 st'[x][d] \in {"open", "failed"}, st'[y][d] \in {"open", "failed"}
          PROVE  x = y
      BY <1>5, <2>1 DEF LockInv, Exclusion
    <2>2. ASSUME NEW x \in Proc, NEW y \in Proc, glob'[x] # "closed", glob'[y] # "closed"
          PROVE  x = y
      BY <2>2 DEF LockInv, Exclusion
    <2>3. ASSUME NEW x \in Proc, NEW y \in Proc, NEW d \in Col, glob'[x] \in {"open", "failed"}
          PROVE  st'[y][d] = "closed"
      BY <1>5, <2>3 DEF LockInv, Exclusion
    <2>4. QED
      BY <2>1, <2>2, <2>3 DEF Exclusion
  <1>7. QED
    BY <1>3, <1>4, <1>6 DEF LockInv

\* A Commit that fails keeps its locks.
LEMMA CommitFailsKeeps ==
    ASSUME LockInv, NEW p \in Proc, NEW c \in Col, CommitFails(p, c)
    PROVE  LockInv'
  <1>1. /\ st' \in [Proc -> [Col -> States]]
        /\ st'[p][c] = "failed"
        /\ \A q \in Proc : \A d \in Col : q # p \/ d # c => st'[q][d] = st[q][d]
    BY Moved, "failed" \in States DEF CommitFails, LockInv, LockTypes, States
  <1>2. ~IsGlobal(p) /\ st[p][c] = "open"
    BY DEF CommitFails, InTransaction
  <1>3. LockTypes'
    BY <1>1 DEF CommitFails, LockInv, LockTypes
  <1>4. KeepsRole'
    BY <1>1, <1>2 DEF CommitFails, LockInv, LockTypes, KeepsRole, IsGlobal
  <1>5. Exclusion'
    BY <1>1, <1>2 DEF CommitFails, LockInv, LockTypes, Exclusion
  <1>6. QED
    BY <1>3, <1>4, <1>5 DEF LockInv

\* OpenGlobalTransaction, CommitGlobal and DiscardGlobal.
LEMMA GlobalKeeps ==
    ASSUME LockInv, NEW p \in Proc,
           \/ LockCollections(p)
           \/ LockGlobal(p)
           \/ CommitGlobalFails(p)
           \/ UnlockGlobal(p) /\ glob[p] = "open" /\ UNCHANGED <<role, st, opened>>
    PROVE  LockInv'
  <1> DEFINE Locks(v) == /\ glob' = [glob EXCEPT ![p] = v] /\ v \in GlobalStates
                         /\ v # "closed" => \A q \in Proc : q # p => glob[q] = "closed"
                         /\ v \in {"open", "failed"} => \A q \in Proc : \A c \in Col : st[q][c] = "closed"
  <1>1. IsGlobal(p) /\ UNCHANGED <<role, st, opened>>
    BY DEF LockInv, KeepsRole, LockCollections, LockGlobal, CommitGlobalFails, UnlockGlobal
  <1>2. \E v : Locks(v)
    <2>1. CASE LockCollections(p)
      <3> Locks("waiting")
        BY <2>1 DEF LockCollections, ColLockFree, GlobalStates
      <3> QED BY Zenon
    <2>2. CASE LockGlobal(p)
      <3> Locks("open")
        BY <2>2 DEF LockGlobal, NoReader, GlobalStates, LockInv, Exclusion
      <3> QED BY Zenon
    <2>3. CASE CommitGlobalFails(p)
      <3> Locks("failed")
        BY <2>3 DEF CommitGlobalFails, GlobalStates, LockInv, Exclusion
      <3> QED BY Zenon
    <2>4. CASE UnlockGlobal(p)
      <3> Locks("closed")
        BY <2>4 DEF UnlockGlobal, GlobalStates
      <3> QED BY Zenon
    <2>5. QED
      BY <2>1, <2>2, <2>3, <2>4
  <1>3. PICK v : Locks(v)
    BY <1>2, Zenon
  <1>4. LockTypes' /\ \A q \in Proc : glob'[q] = IF q = p THEN v ELSE glob[q]
    BY <1>1, <1>3 DEF LockInv, LockTypes
  <1>5. KeepsRole'
    BY <1>1, <1>4 DEF LockInv, KeepsRole, IsGlobal
  <1>6. Exclusion'
    BY <1>1, <1>3, <1>4 DEF LockInv, Exclusion
  <1>7. QED
    BY <1>4, <1>5, <1>6 DEF LockInv

\* Every step keeps the locks in order.
LEMMA LockStep == LockInv /\ [Next]_vars => LockInv'
  <1> SUFFICES ASSUME LockInv, [Next]_vars PROVE LockInv'
    OBVIOUS
  <1>1. CASE UNCHANGED vars
    BY <1>1, Untouched DEF vars
  <1>2. ASSUME NEW p \in Proc, RLock(p) PROVE LockInv'
    BY <1>2, RLockKeeps
  <1>3. ASSUME NEW p \in Proc, LockCollection(p) PROVE LockInv'
    BY <1>3, LockCollectionKeeps
  <1>4. ASSUME NEW p \in Proc, LockCollections(p) \/ LockGlobal(p) \/ CommitGlobalFails(p)
        PROVE  LockInv'
    BY <1>4, GlobalKeeps
  <1>5. ASSUME NEW p \in Proc, NEW m \in Model,
               \/ Insert(p, m[1], m[2], m[3]) \/ UpdateModel(p, m[1], m[2], m[3])
               \/ InsertGlobal(p, m[1], m[2], m[3]) \/ UpdateGlobal(p, m[1], m[2], m[3])
        PROVE  LockInv'
    BY <1>5, Untouched DEF Insert, UpdateModel, InsertGlobal, UpdateGlobal
  <1>6. ASSUME NEW p \in Proc, NEW c \in Col, NEW i \in ID, Delete(p, c, i) \/ DeleteGlobal(p, c, i)
        PROVE  LockInv'
    BY <1>6, Untouched DEF Delete, DeleteGlobal
  <1>7. ASSUME NEW p \in Proc, NEW c \in Col, CommitFails(p, c) PROVE LockInv'
    BY <1>7, CommitFailsKeeps
  <1>8. ASSUME NEW p \in Proc, NEW c \in Col, Commit(p, c) \/ Discard(p, c) PROVE LockInv'
    BY <1>8, UnlockKeeps DEF Commit, Discard
  <1>9. ASSUME NEW p \in Proc, CommitGlobal(p) \/ DiscardGlobal(p) PROVE LockInv'
    <2>1. UnlockGlobal(p) /\ glob[p] = "open" /\ UNCHANGED <<role, st, opened>>
      BY <1>9 DEF CommitGlobal, DiscardGlobal, HoldsMut
    <2>2. QED
      BY <2>1, GlobalKeeps
  <1>10. ASSUME NEW f, NEW l, StartQuery(f[1], f[2], l) PROVE LockInv'
    BY <1>10, Untouched DEF StartQuery
  <1>11. ASSUME NEW i, getAndAppendModel(i) PROVE LockInv'
    BY <1>11, Untouched DEF getAndAppendModel
  <1>12. CASE EndQuery
    BY <1>12, Untouched DEF EndQuery
  <1>13. CASE Crash
    BY <1>13 DEF Crash, LockInv, LockTypes, KeepsRole, Exclusion, IsGlobal, NoTransaction, NoGlobal,
                 NoneOpened, States, GlobalStates
  <1>14. QED
    BY <1>1, <1>2, <1>3, <1>4, <1>5, <1>6, <1>7, <1>8, <1>9, <1>10, <1>11, <1>12, <1>13, Zenon
    DEF Next, Close

\* The keys of each collection are there.
HasCols == db = [c \in Col |-> db[c]]

\* Only a commit changes the database.
LEMMA OnlyCommits ==
    ASSUME [Next]_vars
    PROVE  \/ UNCHANGED db
           \/ \E q \in Proc : (\E d \in Col : Commit(q, d)) \/ CommitGlobal(q)
  <1>1. CASE UNCHANGED vars
    BY <1>1 DEF vars
  <1>2. ASSUME NEW p \in Proc, RLock(p) \/ LockCollection(p) \/ LockCollections(p) \/ LockGlobal(p)
        PROVE  UNCHANGED db
    BY <1>2 DEF RLock, LockCollection, LockCollections, LockGlobal
  <1>3. ASSUME NEW p \in Proc, NEW c, NEW i, NEW v,
               Insert(p, c, i, v) \/ UpdateModel(p, c, i, v) \/ Delete(p, c, i)
        PROVE  UNCHANGED db
    BY <1>3 DEF Insert, UpdateModel, Delete
  <1>4. ASSUME NEW p \in Proc, NEW c, NEW i, NEW v,
               InsertGlobal(p, c, i, v) \/ UpdateGlobal(p, c, i, v) \/ DeleteGlobal(p, c, i)
        PROVE  UNCHANGED db
    BY <1>4 DEF InsertGlobal, UpdateGlobal, DeleteGlobal
  <1>5. ASSUME NEW p \in Proc, NEW c, CommitFails(p, c) \/ CommitGlobalFails(p)
        PROVE  UNCHANGED db
    BY <1>5 DEF CommitFails, CommitGlobalFails
  <1>6. ASSUME NEW p \in Proc, NEW c, Discard(p, c) \/ DiscardGlobal(p)
        PROVE  UNCHANGED db
    BY <1>6 DEF Discard, DiscardGlobal
  <1>7. ASSUME NEW c, NEW v, NEW l, NEW i, StartQuery(c, v, l) \/ getAndAppendModel(i) \/ EndQuery \/ Crash
        PROVE  UNCHANGED db
    BY <1>7 DEF StartQuery, getAndAppendModel, EndQuery, Crash
  <1>8. QED
    BY <1>1, <1>2, <1>3, <1>4, <1>5, <1>6, <1>7, Zenon DEF Next, Close

\* Every step keeps the keys of each collection.
LEMMA HasColsStep == HasCols /\ [Next]_vars => HasCols'
  BY OnlyCommits DEF HasCols, Commit, CommitGlobal

\* A commit changes only what the committing goroutine has open and closes.
LEMMA IsolationStep ==
    ASSUME LockInv, HasCols, [Next]_vars, NEW p \in Proc, NEW c \in Col,
           HasOpen(p, c), HasOpen(p, c)'
    PROVE  db'[c] = db[c]
  <1>1. ASSUME NEW q \in Proc, NEW d \in Col, Commit(q, d) PROVE db'[c] = db[c]
    <2>1. d # c => db'[c] = db[c]
      BY <1>1 DEF Commit, HasCols
    <2>2. ~IsGlobal(q) /\ st[q][d] = "open"
      BY <1>1 DEF Commit, InTransaction
    <2>3. d = c => q = p
      BY <2>2 DEF LockInv, Exclusion, HasOpen
    <2>4. st'[q][d] = "closed" /\ glob' = glob
      BY <1>1, Moved, "closed" \in States DEF Commit, Unlock, LockInv, LockTypes, States
    <2>5. glob[q] = "closed"
      BY <2>2 DEF LockInv, KeepsRole
    <2>6. QED
      BY <2>1, <2>3, <2>4, <2>5 DEF HasOpen
  <1>2. ASSUME NEW q \in Proc, CommitGlobal(q) PROVE FALSE
    <2>1. glob[q] = "open" /\ st' = st /\ glob' = [glob EXCEPT ![q] = "closed"]
      BY <1>2 DEF CommitGlobal, UnlockGlobal
    <2>2. st[p][c] = "closed"
      BY <2>1 DEF LockInv, Exclusion
    <2>3. glob'[q] = "closed"
      BY <2>1 DEF LockInv, LockTypes
    <2>4. glob[p] = "open"
      BY <2>2 DEF HasOpen
    <2>5. p = q
      BY <2>1, <2>4 DEF LockInv, Exclusion
    <2>6. QED
      BY <2>1, <2>2, <2>3, <2>5 DEF HasOpen
  <1>3. QED
    BY <1>1, <1>2, OnlyCommits

\* The locks exclude each other: at most one transaction is open on a
\* collection, and none while a global transaction is open.
THEOREM MutualExclusion == Spec => []LockInv
  BY LockInit, LockStep, PTL DEF Spec

\* While a transaction is open, no one else changes its collection.
THEOREM Isolated == Spec => Isolation
  <1>1. Init => HasCols
    BY DEF Init, HasCols
  <1>2. LockInv /\ HasCols /\ [Next]_vars =>
          [\A p \in Proc, c \in Col : HasOpen(p, c) /\ HasOpen(p, c)' => db'[c] = db[c]]_vars
    BY IsolationStep
  <1>3. QED
    BY <1>1, <1>2, LockInit, LockStep, HasColsStep, PTL DEF Spec, Isolation

-----------------------------------------------------------------------------
(* Batches.                                                                *)

\* Induction, for sets of numbers.
LEMMA Induction ==
    ASSUME NEW S, 0 \in S, \A n \in Nat : n \in S => n + 1 \in S
    PROVE  Nat \subseteq S
  <1> DEFINE T == Nat \ S
             R == {ss \in Nat \X Nat : ss[1] < ss[2]}
  <1> SUFFICES ASSUME T # {} PROVE FALSE
    OBVIOUS
  <1>1. IsWellFoundedOn(R, Nat)
    BY NatLessThanWellFounded DEF OpToRel
  <1>2. PICK x \in T : \A y \in T : ~(<<y, x>> \in R)
    BY <1>1, WFMin, Zenon
  <1>3. x - 1 \in Nat /\ x - 1 < x /\ (x - 1) + 1 = x
    OBVIOUS
  <1>4. x - 1 \notin T
    BY <1>2, <1>3, Zenon
  <1> QED
    BY <1>3, <1>4

\* LevelDB writes a batch key by key.
LEMMA BatchLoop ==
    ASSUME NEW d, NEW batch, Len(batch) \in Nat
    PROVE  \E f : /\ f[0] = d /\ f[Len(batch)] = Batched(d, batch)
                  /\ \A i \in 1 .. Len(batch) : f[i] = Write(f[i - 1], batch[i])
  <1> DEFINE step(f, i) == IF i = 0 THEN d ELSE Write(f[i - 1], batch[i])
             has == {n \in Nat : \E f : f = [i \in 0 .. n |-> step(f, i)]}
  <1>1. 0 \in has
    <2>1. [i \in 0 .. 0 |-> d] = [i \in 0 .. 0 |-> step([j \in 0 .. 0 |-> d], i)]
      OBVIOUS
    <2> QED
      BY <2>1, Zenon
  <1>2. ASSUME NEW n \in Nat, n \in has PROVE n + 1 \in has
    <2>1. PICK f : f = [i \in 0 .. n |-> step(f, i)]
      BY <1>2, Zenon
    <2> DEFINE g == [i \in 0 .. n + 1 |-> IF i = n + 1 THEN step(f, i) ELSE f[i]]
    <2>2. ASSUME NEW i \in 0 .. n + 1 PROVE step(g, i) = step(f, i)
      <3>1. CASE i = 0
        BY <3>1
      <3>2. CASE i # 0
        <4>1. i - 1 \in 0 .. n /\ i - 1 \in 0 .. n + 1 /\ i - 1 # n + 1
          BY <3>2
        <4>2. g[i - 1] = f[i - 1]
          BY <4>1
        <4> HIDE DEF g
        <4> QED
          BY <4>2
      <3> QED
        BY <3>1, <3>2, Zenon
    <2>3. \A i \in 0 .. n : f[i] = step(f, i)
      BY <2>1, Zenon
    <2> HIDE DEF step
    <2>4. g = [i \in 0 .. n + 1 |-> step(g, i)]
      BY <2>2, <2>3
    <2> HIDE DEF g
    <2>5. \E e : e = [i \in 0 .. n + 1 |-> step(e, i)]
      BY <2>4
    <2>6. n + 1 \in Nat
      OBVIOUS
    <2> QED
      BY <2>5, <2>6
  <1>3. Len(batch) \in has
    <2> HIDE DEF has
    <2>1. Nat \subseteq has
      BY <1>1, <1>2, Induction
    <2> QED
      BY <2>1
  <1> DEFINE after == CHOOSE f : f = [i \in 0 .. Len(batch) |-> step(f, i)]
  <1>4. after = [i \in 0 .. Len(batch) |-> step(after, i)]
    <2> HIDE DEF step
    <2> QED
      BY <1>3, Zenon
  <1>5. Batched(d, batch) = after[Len(batch)]
    BY DEF Batched
  <1> HIDE DEF after
  <1>6. \A i \in 0 .. Len(batch) : after[i] = step(after, i)
    <2> HIDE DEF step
    <2> QED
      BY <1>4, Zenon
  <1>7. after[0] = d
    BY <1>6
  <1>8. \A i \in 1 .. Len(batch) : after[i] = Write(after[i - 1], batch[i])
    BY <1>6
  <1> QED
    BY <1>5, <1>7, <1>8, Zenon

\* An empty batch changes nothing.
LEMMA BatchedNone ==
    ASSUME NEW d
    PROVE  Batched(d, <<>>) = d
  <1>1. Len(<<>>) = 0 /\ 0 \in Nat
    OBVIOUS
  <1>2. PICK f : f[0] = d /\ f[Len(<<>>)] = Batched(d, <<>>)
    BY <1>1, BatchLoop
  <1> QED
    BY <1>1, <1>2, Zenon

\* A key more in the batch is written after the others.
LEMMA BatchedAppend ==
    ASSUME NEW d, NEW S, NEW batch \in Seq(S), NEW w \in S
    PROVE  Batched(d, Append(batch, w)) = Write(Batched(d, batch), w)
  <1> DEFINE n == Len(batch)
             longer == Append(batch, w)
  <1>1. n \in Nat /\ Len(longer) = n + 1 /\ n + 1 \in Nat /\ (n + 1) - 1 = n /\ n + 1 \in 1 .. n + 1
    OBVIOUS
  <1>2. longer[n + 1] = w /\ \A i \in 1 .. n : longer[i] = batch[i]
    OBVIOUS
  <1>3. PICK f : /\ f[0] = d /\ f[n] = Batched(d, batch)
                 /\ \A i \in 1 .. n : f[i] = Write(f[i - 1], batch[i])
    <2>1. Len(batch) \in Nat
      OBVIOUS
    <2> HIDE DEF longer
    <2>2. \E f : /\ f[0] = d /\ f[Len(batch)] = Batched(d, batch)
                 /\ \A i \in 1 .. Len(batch) : f[i] = Write(f[i - 1], batch[i])
      BY <2>1, BatchLoop
    <2> QED
      BY <2>2, Zenon
  <1> HIDE DEF longer
  <1>4. PICK g : /\ g[0] = d /\ g[n + 1] = Batched(d, longer)
                 /\ \A i \in 1 .. n + 1 : g[i] = Write(g[i - 1], longer[i])
    <2>1. Len(longer) \in Nat
      BY <1>1, Zenon
    <2>2. \E g : /\ g[0] = d /\ g[Len(longer)] = Batched(d, longer)
                 /\ \A i \in 1 .. Len(longer) : g[i] = Write(g[i - 1], longer[i])
      BY <2>1, BatchLoop
    <2> QED
      BY <1>1, <2>2, Zenon
  <1> DEFINE same == {i \in Nat : i <= n => g[i] = f[i]}
  <1> HIDE DEF n
  <1>5. 0 \in same
    BY <1>3, <1>4
  <1>6. ASSUME NEW i \in Nat, i \in same PROVE i + 1 \in same
    <2> SUFFICES ASSUME i + 1 <= n PROVE g[i + 1] = f[i + 1]
      OBVIOUS
    <2>1. g[i] = f[i] /\ i + 1 \in 1 .. n /\ i + 1 \in 1 .. n + 1 /\ (i + 1) - 1 = i
      BY <1>1, <1>6
    <2>2. g[i + 1] = Write(g[i], longer[i + 1]) /\ f[i + 1] = Write(f[i], batch[i + 1])
      BY <1>3, <1>4, <2>1
    <2>3. longer[i + 1] = batch[i + 1]
      BY <1>2, <2>1, Zenon
    <2> QED
      BY <2>1, <2>2, <2>3, Zenon
  <1>7. n \in same
    <2> HIDE DEF same
    <2>1. Nat \subseteq same
      BY <1>5, <1>6, Induction
    <2> QED
      BY <1>1, <2>1
  <1>8. g[n] = f[n]
    BY <1>1, <1>7
  <1>9. g[n + 1] = Write(g[n], longer[n + 1])
    BY <1>1, <1>4
  <1> QED
    BY <1>2, <1>3, <1>4, <1>8, <1>9, Zenon DEF longer

-----------------------------------------------------------------------------
(* What a transaction will have done when it commits.                      *)

Content == Value \cup {NoModel}
DB == [data : [ID -> Content], index : SUBSET (Content \X ID), count : Int]
Op == [key : {"model", "put", "del"}, id : ID, val : Content]
Work == [batch : Seq(Op), diff : Int, affected : SUBSET ID, want : [ID -> Content]]

Present(data) == {i \in ID : data[i] # NoModel}
IndexOf(data) == {<<data[i], i>> : i \in Present(data)}

Sound(d) == d.index = IndexOf(d.data) /\ d.count = Cardinality(Present(d.data))

\* The batch makes of the collection what the caller asks for.
Planned(d, u) ==
    /\ \A i \in ID \ u.affected : u.want[i] = d.data[i]
    /\ Batched(d, u.batch) \in DB
    /\ Batched(d, u.batch).data = u.want
    /\ Batched(d, u.batch).index = IndexOf(u.want)
    /\ d.count + u.diff = Cardinality(Present(u.want))

DataTypes == db \in [Col -> DB] /\ work \in [Proc -> [Col -> Work]]

DataInv ==
    /\ DataTypes
    /\ \A c \in Col : Sound(db[c])
    /\ \A p \in Proc, c \in Col : HasOpen(p, c) => Planned(db[c], work[p][c])

\* A model under a new ID.
LEMMA PresentPut ==
    ASSUME NEW data \in [ID -> Content], NEW i \in ID, NEW v \in Value, data[i] = NoModel,
           NEW new, new = [data EXCEPT ![i] = v]
    PROVE  /\ new \in [ID -> Content] /\ IndexOf(new) = IndexOf(data) \cup {<<v, i>>}
           /\ Cardinality(Present(new)) = Cardinality(Present(data)) + 1
           /\ Cardinality(Present(data)) \in Nat
  <1>1. v # NoModel /\ IsFiniteSet(ID) /\ v \in Content
    BY ModelAssumption DEF Content
  <1>2. new \in [ID -> Content] /\ new[i] = v /\ \A j \in ID \ {i} : new[j] = data[j]
    BY <1>1
  <1>3. Present(new) = Present(data) \cup {i} /\ i \notin Present(data)
    BY <1>1, <1>2 DEF Present
  <1>4. IsFiniteSet(Present(data))
    BY <1>1, FS_Subset DEF Present
  <1>5. IndexOf(new) = IndexOf(data) \cup {<<v, i>>}
    <2>1. \A j \in Present(data) : new[j] = data[j]
      BY <1>2, <1>3 DEF Present
    <2> QED
      BY <1>2, <1>3, <2>1, Zenon DEF IndexOf
  <1> QED
    BY <1>2, <1>3, <1>4, <1>5, FS_AddElement, FS_CardinalityType, Zenon

\* A model is gone.
LEMMA PresentDel ==
    ASSUME NEW data \in [ID -> Content], NEW i \in ID, data[i] # NoModel,
           NEW new, new = [data EXCEPT ![i] = NoModel]
    PROVE  /\ new \in [ID -> Content] /\ IndexOf(new) = IndexOf(data) \ {<<data[i], i>>}
           /\ Cardinality(Present(new)) = Cardinality(Present(data)) - 1
           /\ Cardinality(Present(data)) \in Nat
  <1>1. IsFiniteSet(ID) /\ NoModel \in Content
    BY ModelAssumption DEF Content
  <1>2. new \in [ID -> Content] /\ new[i] = NoModel /\ \A j \in ID \ {i} : new[j] = data[j]
    BY <1>1
  <1>3. Present(new) = Present(data) \ {i} /\ i \in Present(data)
    BY <1>2 DEF Present
  <1>4. IsFiniteSet(Present(data))
    BY <1>1, FS_Subset DEF Present
  <1>5. IndexOf(new) = IndexOf(data) \ {<<data[i], i>>}
    BY <1>2, <1>3 DEF IndexOf, Present
  <1> QED
    BY <1>2, <1>3, <1>4, <1>5, FS_RemoveElement, FS_CardinalityType, Zenon

\* Another value under the same ID.
LEMMA PresentReplace ==
    ASSUME NEW data \in [ID -> Content], NEW i \in ID, NEW v \in Value, data[i] # NoModel,
           NEW new, new = [data EXCEPT ![i] = v]
    PROVE  /\ new \in [ID -> Content]
           /\ IndexOf(new) = (IndexOf(data) \ {<<data[i], i>>}) \cup {<<v, i>>}
           /\ Present(new) = Present(data)
  <1>1. v # NoModel /\ v \in Content
    BY ModelAssumption DEF Content
  <1>2. new \in [ID -> Content] /\ new[i] = v /\ \A j \in ID \ {i} : new[j] = data[j]
    BY <1>1
  <1>3. Present(new) = Present(data) /\ i \in Present(data)
    BY <1>1, <1>2 DEF Present
  <1>4. IndexOf(new) = (IndexOf(data) \ {<<data[i], i>>}) \cup {<<v, i>>}
    BY <1>2, <1>3 DEF IndexOf
  <1> QED
    BY <1>2, <1>3, <1>4, Zenon

\* The keys of one operation at the end of a batch.
LEMMA OneMore ==
    ASSUME NEW S, NEW s \in Seq(S), NEW a \in S
    PROVE  s \o <<a>> = Append(s, a) /\ Append(s, a) \in Seq(S) /\ <<a>> \in Seq(S)
  OBVIOUS

\* Insert and Delete have two keys.
LEMMA TwoMore ==
    ASSUME NEW S, NEW s \in Seq(S), NEW a \in S, NEW b \in S
    PROVE  /\ s \o (<<a>> \o <<b>>) = Append(Append(s, a), b)
           /\ Append(s, a) \in Seq(S) /\ Append(Append(s, a), b) \in Seq(S)
  <1>1. s \o <<a>> = Append(s, a) /\ Append(s, a) \in Seq(S) /\ <<a>> \in Seq(S) /\ <<b>> \in Seq(S)
    BY OneMore
  <1>2. (s \o <<a>>) \o <<b>> = s \o (<<a>> \o <<b>>)
    BY <1>1, ConcatAssociative
  <1>3. Append(s, a) \o <<b>> = Append(Append(s, a), b) /\ Append(Append(s, a), b) \in Seq(S)
    BY <1>1, OneMore
  <1> QED
    BY <1>1, <1>2, <1>3, Zenon

\* An update has three keys.
LEMMA ThreeMore ==
    ASSUME NEW S, NEW s \in Seq(S), NEW a \in S, NEW b \in S, NEW c \in S
    PROVE  /\ s \o ((<<a>> \o <<b>>) \o <<c>>) = Append(Append(Append(s, a), b), c)
           /\ Append(s, a) \in Seq(S) /\ Append(Append(s, a), b) \in Seq(S)
           /\ Append(Append(Append(s, a), b), c) \in Seq(S)
  <1>1. /\ <<a>> \in Seq(S) /\ <<c>> \in Seq(S) /\ <<a>> \o <<b>> \in Seq(S)
        /\ s \o (<<a>> \o <<b>>) = Append(Append(s, a), b)
        /\ Append(s, a) \in Seq(S) /\ Append(Append(s, a), b) \in Seq(S)
    <2>1. <<a>> \in Seq(S) /\ <<b>> \in Seq(S) /\ <<c>> \in Seq(S)
      BY OneMore
    <2>2. <<a>> \o <<b>> \in Seq(S)
      BY <2>1
    <2> QED
      BY <2>1, <2>2, TwoMore
  <1> DEFINE t == <<a>> \o <<b>>
             r == Append(Append(s, a), b)
  <1> HIDE DEF t, r
  <1>2. (s \o t) \o <<c>> = s \o (t \o <<c>>)
    BY <1>1, ConcatAssociative DEF t
  <1>3. r \o <<c>> = Append(r, c) /\ Append(r, c) \in Seq(S)
    BY <1>1, OneMore DEF r
  <1> QED
    BY <1>1, <1>2, <1>3, Zenon DEF t, r

\* The key of a model.
LEMMA WriteModel ==
    ASSUME NEW d \in DB, NEW i \in ID, NEW v \in Content, NEW data, data = d.data, NEW k, k = Key(i, v)
    PROVE  /\ k \in Op /\ Write(d, k) \in DB
           /\ Write(d, k).data = [data EXCEPT ![i] = v] /\ Write(d, k).index = d.index
  BY DEF Key, Write, Op, DB

\* The key of an index is written.
LEMMA WritePut ==
    ASSUME NEW d \in DB, NEW i \in ID, NEW v \in Content, NEW k, k = Index("put", i, v)
    PROVE  /\ k \in Op /\ Write(d, k) \in DB
           /\ Write(d, k).data = d.data /\ Write(d, k).index = d.index \cup {<<v, i>>}
  BY DEF Index, Write, Op, DB

\* The key of an index is deleted.
LEMMA WriteDel ==
    ASSUME NEW d \in DB, NEW i \in ID, NEW v \in Content, NEW k, k = Index("del", i, v)
    PROVE  /\ k \in Op /\ Write(d, k) \in DB
           /\ Write(d, k).data = d.data /\ Write(d, k).index = d.index \ {<<v, i>>}
  BY DEF Index, Write, Op, DB

\* A transaction that has queued nothing.
LEMMA PlannedNone ==
    ASSUME NEW d \in DB, Sound(d)
    PROVE  NoWork(d) \in Work /\ Planned(d, NoWork(d))
  <1>1. NoWork(d) \in Work
    BY DEF NoWork, Work, DB
  <1>2. d.count + 0 = d.count
    BY DEF DB
  <1> QED
    BY <1>1, <1>2, BatchedNone DEF NoWork, Planned, Sound

\* What Queue makes of a plan, given what its keys do to the collection.
LEMMA Queued ==
    ASSUME NEW d \in DB, NEW u \in Work, Planned(d, u), NEW i \in ID, NEW v \in Content, NEW n \in Int, NEW ws,
           u.batch \o ws \in Seq(Op), Batched(d, u.batch \o ws) \in DB,
           NEW want, want = [u.want EXCEPT ![i] = v], Batched(d, u.batch \o ws).data = want,
           Batched(d, u.batch \o ws).index = IndexOf(want),
           Cardinality(Present(want)) = Cardinality(Present(u.want)) + n
    PROVE  Queue(u, i, v, ws, n) \in Work /\ Planned(d, Queue(u, i, v, ws, n))
  <1> DEFINE w == Queue(u, i, v, ws, n)
  <1>1. /\ u.diff \in Int /\ u.affected \subseteq ID /\ u.want \in [ID -> Content] /\ d.count \in Int
        /\ d.count + u.diff = Cardinality(Present(u.want))
        /\ \A j \in ID \ u.affected : u.want[j] = d.data[j]
    BY DEF Work, DB, Planned
  <1>2. w.batch = u.batch \o ws /\ w.diff = u.diff + n /\ w.affected = u.affected \cup {i} /\ w.want = want
    BY DEF Queue
  <1>3. w \in Work
    BY <1>1 DEF Queue, Work
  <1>4. d.count + w.diff = Cardinality(Present(want))
    BY <1>1, <1>2
  <1>5. \A j \in ID \ w.affected : want[j] = d.data[j]
    BY <1>1, <1>2
  <1> HIDE DEF w
  <1>6. Planned(d, w)
    BY <1>2, <1>4, <1>5 DEF Planned
  <1> QED
    BY <1>3, <1>6 DEF w

\* Two keys at the end of a batch.
LEMMA BatchedTwo ==
    ASSUME NEW d, NEW batch \in Seq(Op), NEW k \in Op, NEW x \in Op
    PROVE  /\ batch \o (<<k>> \o <<x>>) \in Seq(Op)
           /\ Batched(d, batch \o (<<k>> \o <<x>>)) = Write(Write(Batched(d, batch), k), x)
  <1> DEFINE b == Append(batch, k)
  <1>1. batch \o (<<k>> \o <<x>>) = Append(b, x) /\ b \in Seq(Op) /\ Append(b, x) \in Seq(Op)
    BY TwoMore
  <1>2. Batched(d, b) = Write(Batched(d, batch), k)
    BY BatchedAppend
  <1> HIDE DEF b
  <1>3. Batched(d, Append(b, x)) = Write(Batched(d, b), x)
    BY <1>1, BatchedAppend
  <1> QED BY <1>1, <1>2, <1>3, Zenon

\* Three keys at the end of a batch.
LEMMA BatchedThree ==
    ASSUME NEW d, NEW batch \in Seq(Op), NEW k \in Op, NEW x \in Op, NEW y \in Op
    PROVE  /\ batch \o ((<<k>> \o <<x>>) \o <<y>>) \in Seq(Op)
           /\ Batched(d, batch \o ((<<k>> \o <<x>>) \o <<y>>)) = Write(Write(Write(Batched(d, batch), k), x), y)
  <1> DEFINE b == Append(batch, k)
             c == Append(b, x)
  <1>1. /\ batch \o ((<<k>> \o <<x>>) \o <<y>>) = Append(c, y)
        /\ b \in Seq(Op) /\ c \in Seq(Op) /\ Append(c, y) \in Seq(Op)
    BY ThreeMore, Zenon
  <1>2. Batched(d, b) = Write(Batched(d, batch), k)
    BY BatchedAppend
  <1> HIDE DEF b
  <1>3. Batched(d, c) = Write(Batched(d, b), x)
    BY <1>1, BatchedAppend
  <1> HIDE DEF c
  <1>4. Batched(d, Append(c, y)) = Write(Batched(d, c), y)
    BY <1>1, BatchedAppend
  <1> QED BY <1>1, <1>2, <1>3, <1>4, Zenon

\* Insert.
LEMMA PlannedInsert ==
    ASSUME NEW d \in DB, NEW u \in Work, Planned(d, u), NEW i \in ID, i \notin u.affected, NEW v \in Value,
           d.data[i] = NoModel
    PROVE  insertWithTransaction(d, u, i, v) \in Work /\ Planned(d, insertWithTransaction(d, u, i, v))
  <1> DEFINE e == Batched(d, u.batch)
             k == Key(i, v)
             x == Index("put", i, v)
             ws == <<k>> \o <<x>>
             want == [u.want EXCEPT ![i] = v]
             f == Write(e, k)
             g == Write(f, x)
  <1>1. /\ e \in DB /\ e.data = u.want /\ e.index = IndexOf(u.want) /\ u.want[i] = NoModel /\ v \in Content
        /\ u.want \in [ID -> Content] /\ u.batch \in Seq(Op) /\ 1 \in Int
    BY DEF Planned, Work, Content
  <1>2. /\ IndexOf(want) = IndexOf(u.want) \cup {<<v, i>>}
        /\ Cardinality(Present(want)) = Cardinality(Present(u.want)) + 1
    BY <1>1, PresentPut
  <1>3. insertWithTransaction(d, u, i, v) = Queue(u, i, v, ws, 1)
    BY DEF insertWithTransaction, saveIndexesWithTransaction
  <1> HIDE DEF e
  <1>4. k \in Op /\ f \in DB /\ f.data = want /\ f.index = e.index
    BY <1>1, WriteModel
  <1> HIDE DEF k, f
  <1>5. x \in Op /\ g \in DB /\ g.data = f.data /\ g.index = f.index \cup {<<v, i>>}
    BY <1>1, <1>4, WritePut
  <1> HIDE DEF x, g
  <1>6. u.batch \o ws \in Seq(Op) /\ Batched(d, u.batch \o ws) = g
    BY <1>1, <1>4, <1>5, BatchedTwo DEF e, f, g
  <1> HIDE DEF ws, want
  <1>7. /\ Batched(d, u.batch \o ws) \in DB /\ Batched(d, u.batch \o ws).data = want
        /\ Batched(d, u.batch \o ws).index = IndexOf(want)
    BY <1>1, <1>2, <1>4, <1>5, <1>6
  <1>8. Queue(u, i, v, ws, 1) \in Work /\ Planned(d, Queue(u, i, v, ws, 1))
    BY <1>1, <1>2, <1>6, <1>7, Queued DEF want
  <1> QED BY <1>3, <1>8, Zenon

\* Update: the old index key goes, whatever the new one is.
LEMMA PlannedUpdate ==
    ASSUME NEW d \in DB, NEW u \in Work, Planned(d, u), NEW i \in ID, i \notin u.affected, NEW v \in Value,
           d.data[i] # NoModel
    PROVE  updateWithTransaction(d, u, i, v) \in Work /\ Planned(d, updateWithTransaction(d, u, i, v))
  <1> DEFINE e == Batched(d, u.batch)
             old == d.data[i]
             y == Index("del", i, old)
             k == Key(i, v)
             x == Index("put", i, v)
             ws == (<<y>> \o <<k>>) \o <<x>>
             want == [u.want EXCEPT ![i] = v]
             f == Write(e, y)
             g == Write(f, k)
             h == Write(g, x)
  <1>1. /\ e \in DB /\ e.data = u.want /\ e.index = IndexOf(u.want) /\ u.want[i] = old /\ v \in Content
        /\ u.want \in [ID -> Content] /\ u.batch \in Seq(Op) /\ 0 \in Int /\ old \in Content
    BY DEF Planned, Work, Content, DB
  <1>2. /\ IndexOf(want) = (IndexOf(u.want) \ {<<old, i>>}) \cup {<<v, i>>}
        /\ Present(want) = Present(u.want)
    BY <1>1, PresentReplace
  <1>3. updateWithTransaction(d, u, i, v) = Queue(u, i, v, ws, 0)
    BY DEF updateWithTransaction, saveIndexesWithTransaction, deleteIndexesWithTransaction, findExistingModel
  <1>4. Cardinality(Present(u.want)) + 0 = Cardinality(Present(u.want))
    <2>1. d.count \in Int /\ u.diff \in Int /\ d.count + u.diff = Cardinality(Present(u.want))
      BY DEF Planned, DB, Work
    <2>2. Cardinality(Present(u.want)) \in Int
      BY <2>1
    <2> QED BY <2>2
  <1> HIDE DEF e, old
  <1>5. y \in Op /\ f \in DB /\ f.data = e.data /\ f.index = e.index \ {<<old, i>>}
    BY <1>1, WriteDel
  <1> HIDE DEF y, f
  <1>6. k \in Op /\ g \in DB /\ g.data = want /\ g.index = f.index
    <2>1. u.want = f.data
      BY <1>1, <1>5
    <2> QED BY <1>1, <1>5, <2>1, WriteModel
  <1> HIDE DEF k, g
  <1>7. x \in Op /\ h \in DB /\ h.data = g.data /\ h.index = g.index \cup {<<v, i>>}
    BY <1>1, <1>6, WritePut
  <1> HIDE DEF x, h
  <1>8. u.batch \o ws \in Seq(Op) /\ Batched(d, u.batch \o ws) = h
    BY <1>1, <1>5, <1>6, <1>7, BatchedThree DEF e, f, g, h
  <1> HIDE DEF ws, want
  <1>9. /\ Batched(d, u.batch \o ws) \in DB /\ Batched(d, u.batch \o ws).data = want
        /\ Batched(d, u.batch \o ws).index = IndexOf(want)
    BY <1>1, <1>2, <1>5, <1>6, <1>7, <1>8
  <1>10. Queue(u, i, v, ws, 0) \in Work /\ Planned(d, Queue(u, i, v, ws, 0))
    BY <1>1, <1>2, <1>4, <1>8, <1>9, Queued DEF want
  <1> QED BY <1>3, <1>10, Zenon

\* Delete.
LEMMA PlannedDelete ==
    ASSUME NEW d \in DB, NEW u \in Work, Planned(d, u), NEW i \in ID, i \notin u.affected,
           d.data[i] # NoModel
    PROVE  deleteWithTransaction(d, u, i) \in Work /\ Planned(d, deleteWithTransaction(d, u, i))
  <1> DEFINE e == Batched(d, u.batch)
             old == d.data[i]
             k == Key(i, NoModel)
             x == Index("del", i, old)
             ws == <<k>> \o <<x>>
             want == [u.want EXCEPT ![i] = NoModel]
             f == Write(e, k)
             g == Write(f, x)
  <1>1. /\ e \in DB /\ e.data = u.want /\ e.index = IndexOf(u.want) /\ u.want[i] = old /\ NoModel \in Content
        /\ u.want \in [ID -> Content] /\ u.batch \in Seq(Op) /\ -1 \in Int /\ old \in Content
    BY DEF Planned, Work, Content, DB
  <1>2. /\ IndexOf(want) = IndexOf(u.want) \ {<<old, i>>}
        /\ Cardinality(Present(want)) = Cardinality(Present(u.want)) + (-1)
    BY <1>1, PresentDel
  <1>3. deleteWithTransaction(d, u, i) = Queue(u, i, NoModel, ws, -1)
    BY DEF deleteWithTransaction, deleteIndexesWithTransaction, findExistingModel
  <1> HIDE DEF e, old
  <1>4. k \in Op /\ f \in DB /\ f.data = want /\ f.index = e.index
    BY <1>1, WriteModel
  <1> HIDE DEF k, f
  <1>5. x \in Op /\ g \in DB /\ g.data = f.data /\ g.index = f.index \ {<<old, i>>}
    BY <1>1, <1>4, WriteDel
  <1> HIDE DEF x, g
  <1>6. u.batch \o ws \in Seq(Op) /\ Batched(d, u.batch \o ws) = g
    BY <1>1, <1>4, <1>5, BatchedTwo DEF e, f, g
  <1> HIDE DEF ws, want
  <1>7. /\ Batched(d, u.batch \o ws) \in DB /\ Batched(d, u.batch \o ws).data = want
        /\ Batched(d, u.batch \o ws).index = IndexOf(want)
    BY <1>1, <1>2, <1>4, <1>5, <1>6
  <1>8. Queue(u, i, NoModel, ws, -1) \in Work /\ Planned(d, Queue(u, i, NoModel, ws, -1))
    BY <1>1, <1>2, <1>6, <1>7, Queued DEF want
  <1> QED BY <1>3, <1>8, Zenon

\* Commit writes what was planned.
LEMMA PlannedWritten ==
    ASSUME NEW d \in DB, NEW u \in Work, Planned(d, u)
    PROVE  Written(d, u) \in DB /\ Written(d, u).data = u.want /\ Sound(Written(d, u))
  <1> DEFINE e == Batched(d, u.batch)
             n == d.count + u.diff
             r == [e EXCEPT !.count = n]
  <1>1. /\ e \in DB /\ e.data = u.want /\ e.index = IndexOf(u.want) /\ n = Cardinality(Present(u.want)) /\ n \in Int
    BY DEF Planned, DB, Work
  <1>2. Written(d, u) = r
    BY DEF Written
  <1> HIDE DEF e, n
  <1>3. r \in DB /\ r.data = u.want /\ r.index = e.index /\ r.count = n
    BY <1>1 DEF DB
  <1> HIDE DEF r
  <1>4. Sound(r)
    BY <1>1, <1>3 DEF Sound
  <1> QED BY <1>2, <1>3, <1>4, Zenon

-----------------------------------------------------------------------------
(* Every step keeps the collections sound and the transactions planned.    *)

\* No model is stored and nothing is queued when the database is opened.
LEMMA NothingStored ==
    EmptyDB \in DB /\ Sound(EmptyDB) /\ NoWork(EmptyDB) \in Work
  <1>1. EmptyDB \in DB
    BY DEF EmptyDB, DB, Content
  <1>2. Present(EmptyDB.data) = {} /\ EmptyDB.index = {} /\ EmptyDB.count = 0
    BY DEF EmptyDB, Present
  <1>3. Sound(EmptyDB)
    BY <1>2, FS_EmptySet DEF Sound, IndexOf
  <1> QED BY <1>1, <1>3, PlannedNone

\* Initially all of this holds.
LEMMA DataInit == Init => DataInv
  <1> SUFFICES ASSUME Init PROVE DataInv
    OBVIOUS
  <1>1. DataTypes
    BY NothingStored DEF Init, DataTypes, NothingQueued
  <1>2. \A c \in Col : Sound(db[c])
    BY NothingStored DEF Init
  <1>3. \A p \in Proc, c \in Col : ~HasOpen(p, c)
    BY DEF Init, HasOpen, NoTransaction, NoGlobal
  <1> QED BY <1>1, <1>2, <1>3 DEF DataInv

\* A step that changes no collection, and the plan of at most one goroutine.
LEMMA PlansKept ==
    ASSUME DataInv, UNCHANGED db, work' \in [Proc -> [Col -> Work]],
           \A p \in Proc, c \in Col :
             HasOpen(p, c)' => \/ HasOpen(p, c) /\ work'[p][c] = work[p][c]
                               \/ Planned(db[c], work'[p][c])
    PROVE  DataInv'
  <1>1. DataTypes'
    BY DEF DataInv, DataTypes
  <1>2. (\A c \in Col : Sound(db[c]))'
    BY DEF DataInv
  <1>3. ASSUME NEW p \in Proc, NEW c \in Col, HasOpen(p, c)' PROVE Planned(db[c], work[p][c])'
    <2>1. Planned(db[c], work'[p][c])
      BY <1>3 DEF DataInv
    <2> QED BY <2>1, Zenon DEF Planned
  <1> QED BY <1>1, <1>2, <1>3 DEF DataInv

\* A step that touches neither the collections nor what is queued.
LEMMA DataUntouched ==
    ASSUME DataInv, UNCHANGED <<db, work>>, \A p \in Proc, c \in Col : HasOpen(p, c)' => HasOpen(p, c)
    PROVE  DataInv'
  <1>1. work' \in [Proc -> [Col -> Work]]
    BY DEF DataInv, DataTypes
  <1> QED BY <1>1, PlansKept

\* One transaction on a collection queues an operation or is opened.
LEMMA OnePlan ==
    ASSUME DataInv, NEW p \in Proc, NEW c \in Col, NEW u \in Work, Planned(db[c], u),
           work' = [work EXCEPT ![p][c] = u], UNCHANGED <<db, glob>>,
           \A q \in Proc, d \in Col : q # p \/ d # c => st'[q][d] = st[q][d]
    PROVE  DataInv'
  <1>1. work \in [Proc -> [Col -> Work]]
    BY DEF DataInv, DataTypes
  <1>2. /\ work' \in [Proc -> [Col -> Work]] /\ work'[p][c] = u
        /\ \A q \in Proc : \A d \in Col : q # p \/ d # c => work'[q][d] = work[q][d]
    BY <1>1, Moved
  <1>3. ASSUME NEW q \in Proc, NEW d \in Col, HasOpen(q, d)'
        PROVE  (HasOpen(q, d) /\ work'[q][d] = work[q][d]) \/ Planned(db[d], work'[q][d])
    BY <1>2, <1>3 DEF HasOpen
  <1> QED BY <1>2, <1>3, PlansKept

\* The operations of a transaction.
LEMMA OperationKeeps ==
    ASSUME LockInv, DataInv, NEW p \in Proc, NEW c \in Col, NEW i \in ID, HasOpen(p, c), Fresh(p, c, i),
           UNCHANGED <<db, st, glob>>,
           \/ /\ db[c].data[i] = NoModel
              /\ \E v \in Value : work' = [work EXCEPT ![p][c] = insertWithTransaction(db[c], @, i, v)]
           \/ /\ db[c].data[i] # NoModel
              /\ \E v \in Value : work' = [work EXCEPT ![p][c] = updateWithTransaction(db[c], @, i, v)]
           \/ /\ db[c].data[i] # NoModel
              /\ work' = [work EXCEPT ![p][c] = deleteWithTransaction(db[c], @, i)]
    PROVE  DataInv'
  <1> DEFINE d == db[c]
             u == work[p][c]
  <1>1. d \in DB /\ u \in Work /\ Planned(d, u) /\ i \notin u.affected
    BY DEF DataInv, DataTypes, Fresh
  <1>2. work \in [Proc -> [Col -> Work]]
    BY DEF DataInv, DataTypes
  <1>3. \E w \in Work : Planned(d, w) /\ work' = [work EXCEPT ![p][c] = w]
    <2>1. ASSUME NEW v \in Value, d.data[i] = NoModel,
                 work' = [work EXCEPT ![p][c] = insertWithTransaction(d, @, i, v)]
          PROVE  \E w \in Work : Planned(d, w) /\ work' = [work EXCEPT ![p][c] = w]
      <3> DEFINE w == insertWithTransaction(d, u, i, v)
      <3>1. w \in Work /\ Planned(d, w)
        BY <1>1, <2>1, PlannedInsert
      <3>2. work' = [work EXCEPT ![p][c] = w]
        BY <1>2, <2>1
      <3> HIDE DEF w, d, u
      <3> QED BY <3>1, <3>2, Zenon
    <2>2. ASSUME NEW v \in Value, d.data[i] # NoModel,
                 work' = [work EXCEPT ![p][c] = updateWithTransaction(d, @, i, v)]
          PROVE  \E w \in Work : Planned(d, w) /\ work' = [work EXCEPT ![p][c] = w]
      <3> DEFINE w == updateWithTransaction(d, u, i, v)
      <3>1. w \in Work /\ Planned(d, w)
        BY <1>1, <2>2, PlannedUpdate
      <3>2. work' = [work EXCEPT ![p][c] = w]
        BY <1>2, <2>2
      <3> HIDE DEF w, d, u
      <3> QED BY <3>1, <3>2, Zenon
    <2>3. ASSUME d.data[i] # NoModel, work' = [work EXCEPT ![p][c] = deleteWithTransaction(d, @, i)]
          PROVE  \E w \in Work : Planned(d, w) /\ work' = [work EXCEPT ![p][c] = w]
      <3> DEFINE w == deleteWithTransaction(d, u, i)
      <3>1. w \in Work /\ Planned(d, w)
        BY <1>1, <2>3, PlannedDelete
      <3>2. work' = [work EXCEPT ![p][c] = w]
        BY <1>2, <2>3
      <3> HIDE DEF w, d, u
      <3> QED BY <3>1, <3>2, Zenon
    <2> QED BY <2>1, <2>2, <2>3, Zenon
  <1> QED BY <1>3, OnePlan, Zenon

\* A transaction on a collection is opened.
LEMMA OpenKeeps ==
    ASSUME LockInv, DataInv, NEW p \in Proc, LockCollection(p)
    PROVE  DataInv'
  <1> DEFINE c == NextCol(p)
             u == NoWork(db[c])
  <1>1. c \in Col
    BY NextColType DEF LockCollection, LockInv
  <1>2. \A q \in Proc : \A d \in Col : q # p \/ d # c => st'[q][d] = st[q][d]
    BY <1>1, Moved, "open" \in States DEF LockCollection, LockInv, LockTypes, States
  <1>3. work' = [work EXCEPT ![p][c] = u] /\ UNCHANGED <<db, glob>>
    BY DEF LockCollection
  <1> HIDE DEF c
  <1>4. u \in Work /\ Planned(db[c], u)
    BY <1>1, PlannedNone DEF DataInv, DataTypes
  <1> HIDE DEF u
  <1> QED BY <1>1, <1>2, <1>3, <1>4, OnePlan, Zenon

\* A transaction on all collections is opened.
LEMMA OpenGlobalKeeps ==
    ASSUME LockInv, DataInv, NEW p \in Proc, LockGlobal(p)
    PROVE  DataInv'
  <1> DEFINE us == [c \in Col |-> NoWork(db[c])]
  <1>1. ASSUME NEW c \in Col PROVE us[c] \in Work /\ Planned(db[c], us[c])
    BY PlannedNone DEF DataInv, DataTypes
  <1>2. work' = [work EXCEPT ![p] = us] /\ UNCHANGED <<db, st>> /\ glob' = [glob EXCEPT ![p] = "open"]
        /\ work \in [Proc -> [Col -> Work]] /\ us \in [Col -> Work] /\ glob \in [Proc -> GlobalStates]
    BY <1>1 DEF LockGlobal, DataInv, DataTypes, LockInv, LockTypes
  <1> HIDE DEF us
  <1>3. work' \in [Proc -> [Col -> Work]] /\ work'[p] = us /\ \A q \in Proc : q # p => work'[q] = work[q]
    BY <1>2
  <1>4. \A q \in Proc : q # p => glob'[q] = glob[q]
    BY <1>2
  <1>5. ASSUME NEW q \in Proc, NEW d \in Col, HasOpen(q, d)'
        PROVE  (HasOpen(q, d) /\ work'[q][d] = work[q][d]) \/ Planned(db[d], work'[q][d])
    BY <1>1, <1>2, <1>3, <1>4, <1>5 DEF HasOpen
  <1> QED BY <1>2, <1>3, <1>5, PlansKept

\* Discard forgets what was queued.
LEMMA DiscardKeeps ==
    ASSUME LockInv, DataInv, NEW p \in Proc, NEW c \in Col, Unlock(p, c), UNCHANGED <<db, glob>>, glob[p] = "closed"
    PROVE  DataInv'
  <1> DEFINE u == NoWork(EmptyDB)
  <1>1. work \in [Proc -> [Col -> Work]] /\ u \in Work /\ work' = [work EXCEPT ![p][c] = u]
    BY NothingStored DEF DataInv, DataTypes, Unlock
  <1> HIDE DEF u
  <1>2. /\ work' \in [Proc -> [Col -> Work]]
        /\ \A q \in Proc : \A d \in Col : q # p \/ d # c => work'[q][d] = work[q][d]
    BY <1>1, Moved
  <1>3. /\ st'[p][c] = "closed"
        /\ \A q \in Proc : \A d \in Col : q # p \/ d # c => st'[q][d] = st[q][d]
    BY Moved, "closed" \in States DEF Unlock, LockInv, LockTypes, States
  <1>4. ASSUME NEW q \in Proc, NEW d \in Col, HasOpen(q, d)'
        PROVE  (HasOpen(q, d) /\ work'[q][d] = work[q][d]) \/ Planned(db[d], work'[q][d])
    BY <1>2, <1>3, <1>4 DEF HasOpen
  <1> QED BY <1>2, <1>4, PlansKept

\* Commit: no other goroutine has a transaction open on what is written.
LEMMA CommitKeeps ==
    ASSUME LockInv, DataInv, NEW p \in Proc, NEW c \in Col, Commit(p, c)
    PROVE  DataInv' /\ db'[c].data = work[p][c].want
  <1> DEFINE u == NoWork(EmptyDB)
             r == Written(db[c], work[p][c])
  <1>1. /\ ~IsGlobal(p) /\ st[p][c] = "open" /\ glob' = glob
        /\ db' = [db EXCEPT ![c] = r] /\ Unlock(p, c)
    BY DEF Commit, InTransaction
  <1>2. glob[p] = "closed"
    BY <1>1 DEF LockInv, KeepsRole
  <1>3. r \in DB /\ r.data = work[p][c].want /\ Sound(r)
    <2>1. db[c] \in DB /\ work[p][c] \in Work /\ Planned(db[c], work[p][c])
      BY <1>1 DEF DataInv, DataTypes, HasOpen
    <2> QED BY <2>1, PlannedWritten
  <1> HIDE DEF r
  <1>4. db' \in [Col -> DB] /\ db'[c] = r /\ \A d \in Col : d # c => db'[d] = db[d]
    BY <1>1, <1>3 DEF DataInv, DataTypes
  <1>5. work \in [Proc -> [Col -> Work]] /\ u \in Work /\ work' = [work EXCEPT ![p][c] = u]
    BY <1>1, NothingStored DEF DataInv, DataTypes, Unlock
  <1> HIDE DEF u
  <1>6. /\ work' \in [Proc -> [Col -> Work]]
        /\ \A q \in Proc : \A d \in Col : q # p \/ d # c => work'[q][d] = work[q][d]
    BY <1>5, Moved
  <1>7. /\ st'[p][c] = "closed"
        /\ \A q \in Proc : \A d \in Col : q # p \/ d # c => st'[q][d] = st[q][d]
    BY <1>1, Moved, "closed" \in States DEF Unlock, LockInv, LockTypes, States
  <1>8. \A d \in Col : Sound(db'[d])
    BY <1>3, <1>4 DEF DataInv
  <1>9. ASSUME NEW q \in Proc, NEW d \in Col, HasOpen(q, d)' PROVE Planned(db'[d], work'[q][d])
    <2>1. q # p \/ d # c
      BY <1>1, <1>2, <1>7, <1>9 DEF HasOpen
    <2>2. HasOpen(q, d)
      BY <1>1, <1>7, <1>9, <2>1 DEF HasOpen
    <2>3. d # c
      BY <1>1, <2>1, <2>2 DEF LockInv, Exclusion, HasOpen
    <2>4. db'[d] = db[d] /\ work'[q][d] = work[q][d] /\ Planned(db[d], work[q][d])
      BY <1>4, <1>6, <2>2, <2>3 DEF DataInv
    <2> QED BY <2>4, Zenon
  <1>10. DataInv'
    <2>1. ASSUME NEW q \in Proc, NEW d \in Col, HasOpen(q, d)' PROVE Planned(db[d], work[q][d])'
      BY <1>9, <2>1, Zenon DEF Planned
    <2>2. (\A d \in Col : Sound(db[d]))'
      BY <1>8 DEF Sound
    <2> QED BY <1>4, <1>6, <2>1, <2>2 DEF DataInv, DataTypes
  <1> QED BY <1>3, <1>4, <1>10, Zenon

\* Nothing is open after a global transaction.
LEMMA GlobalEnds ==
    ASSUME LockInv, DataInv, NEW p \in Proc, glob[p] = "open", UnlockGlobal(p), UNCHANGED st
    PROVE  work' \in [Proc -> [Col -> Work]] /\ \A q \in Proc, d \in Col : ~HasOpen(q, d)'
  <1> DEFINE us == [c \in Col |-> NoWork(EmptyDB)]
  <1>1. us \in [Col -> Work] /\ work' = [work EXCEPT ![p] = us] /\ work \in [Proc -> [Col -> Work]]
    BY NothingStored DEF UnlockGlobal, DataInv, DataTypes
  <1> HIDE DEF us
  <1>2. work' \in [Proc -> [Col -> Work]]
    BY <1>1
  <1>3. glob \in [Proc -> GlobalStates] /\ glob' = [glob EXCEPT ![p] = "closed"]
    BY DEF UnlockGlobal, LockInv, LockTypes
  <1>4. ASSUME NEW q \in Proc, NEW d \in Col PROVE ~HasOpen(q, d)'
    <2>1. st'[q][d] = "closed"
      BY DEF LockInv, Exclusion
    <2>2. glob'[q] = "closed"
      BY <1>3 DEF LockInv, Exclusion
    <2> QED BY <2>1, <2>2 DEF HasOpen
  <1> QED BY <1>2, <1>4

\* CommitGlobal writes all collections.
LEMMA CommitGlobalKeeps ==
    ASSUME LockInv, DataInv, NEW p \in Proc, CommitGlobal(p)
    PROVE  DataInv' /\ \A c \in Col : db'[c].data = work[p][c].want
  <1>1. glob[p] = "open" /\ UnlockGlobal(p) /\ UNCHANGED st /\ db' = [c \in Col |-> Written(db[c], work[p][c])]
    BY DEF CommitGlobal
  <1>2. ASSUME NEW c \in Col
        PROVE  db'[c] \in DB /\ db'[c].data = work[p][c].want /\ Sound(db'[c])
    <2> DEFINE r == Written(db[c], work[p][c])
    <2>1. db[c] \in DB /\ work[p][c] \in Work /\ Planned(db[c], work[p][c])
      BY <1>1 DEF DataInv, DataTypes, HasOpen
    <2>2. r \in DB /\ r.data = work[p][c].want /\ Sound(r)
      BY <2>1, PlannedWritten
    <2>3. db'[c] = r
      BY <1>1
    <2> HIDE DEF r
    <2> QED BY <2>2, <2>3, Zenon
  <1>3. work' \in [Proc -> [Col -> Work]] /\ \A q \in Proc, d \in Col : ~HasOpen(q, d)'
    BY <1>1, GlobalEnds
  <1>4. db' \in [Col -> DB]
    <2>1. db' = [c \in Col |-> db'[c]]
      BY <1>1
    <2> QED BY <1>2, <2>1
  <1>5. DataInv'
    <2>1. (\A c \in Col : Sound(db[c]))'
      BY <1>2 DEF Sound
    <2> QED BY <1>3, <1>4, <2>1 DEF DataInv, DataTypes
  <1> QED BY <1>2, <1>5

\* The process dies.
LEMMA CrashKeeps ==
    ASSUME DataInv, Crash
    PROVE  DataInv'
  <1>1. work' \in [Proc -> [Col -> Work]]
    BY NothingStored DEF Crash, NothingQueued
  <1>2. \A q \in Proc, d \in Col : HasOpen(q, d)' => FALSE
    BY DEF Crash, HasOpen, NoTransaction, NoGlobal
  <1> QED BY <1>1, <1>2, PlansKept DEF Crash

\* Steps that queue nothing and open nothing.
LEMMA LocksKeepData ==
    ASSUME LockInv, DataInv, NEW p \in Proc,
           \/ RLock(p) \/ LockCollections(p) \/ CommitGlobalFails(p) \/ \E c \in Col : CommitFails(p, c)
    PROVE  DataInv'
  <1>1. CASE RLock(p)
    <2> DEFINE c == NextCol(p)
    <2>1. c \in Col
      BY <1>1, NextColType DEF RLock, LockInv
    <2>2. st'[p][c] = "rlocked" /\ \A q \in Proc : \A d \in Col : q # p \/ d # c => st'[q][d] = st[q][d]
      BY <1>1, <2>1, Moved, "rlocked" \in States DEF RLock, LockInv, LockTypes, States
    <2> HIDE DEF c
    <2>3. \A q \in Proc, d \in Col : HasOpen(q, d)' => HasOpen(q, d)
      BY <1>1, <2>2 DEF HasOpen, RLock
    <2> QED BY <1>1, <2>3, DataUntouched DEF RLock
  <1>2. ASSUME NEW c \in Col, CommitFails(p, c) PROVE DataInv'
    <2>1. st'[p][c] = "failed" /\ \A q \in Proc : \A d \in Col : q # p \/ d # c => st'[q][d] = st[q][d]
      BY <1>2, Moved, "failed" \in States DEF CommitFails, LockInv, LockTypes, States
    <2>2. \A q \in Proc, d \in Col : HasOpen(q, d)' => HasOpen(q, d)
      BY <1>2, <2>1 DEF HasOpen, CommitFails
    <2> QED BY <1>2, <2>2, DataUntouched DEF CommitFails
  <1>3. CASE LockCollections(p) \/ CommitGlobalFails(p)
    <2>1. UNCHANGED <<db, work, st>> /\ \A q \in Proc : glob'[q] = "open" => glob[q] = "open"
      BY <1>3 DEF LockCollections, CommitGlobalFails, LockInv, LockTypes
    <2>2. \A q \in Proc, d \in Col : HasOpen(q, d)' => HasOpen(q, d)
      BY <2>1 DEF HasOpen
    <2> QED BY <2>1, <2>2, DataUntouched
  <1> QED BY <1>1, <1>2, <1>3

\* Every step.
LEMMA DataStep == LockInv /\ DataInv /\ [Next]_vars => DataInv'
  <1> SUFFICES ASSUME LockInv, DataInv, [Next]_vars PROVE DataInv'
    OBVIOUS
  <1>1. CASE UNCHANGED vars
    BY <1>1, DataUntouched DEF vars, HasOpen
  <1>2. ASSUME NEW p \in Proc,
               RLock(p) \/ LockCollections(p) \/ CommitGlobalFails(p) \/ \E c \in Col : CommitFails(p, c)
        PROVE  DataInv'
    BY <1>2, LocksKeepData
  <1>3. ASSUME NEW p \in Proc, LockCollection(p) PROVE DataInv'
    BY <1>3, OpenKeeps
  <1>4. ASSUME NEW p \in Proc, LockGlobal(p) PROVE DataInv'
    BY <1>4, OpenGlobalKeeps
  <1>5. ASSUME NEW p \in Proc, NEW m \in Model, Insert(p, m[1], m[2], m[3]) \/ InsertGlobal(p, m[1], m[2], m[3])
        PROVE  DataInv'
    <2>1. m[1] \in Col /\ m[2] \in ID /\ m[3] \in Value
      BY ModelAssumption
    <2>2. HasOpen(p, m[1]) /\ Fresh(p, m[1], m[2]) /\ UNCHANGED <<db, st, glob>> /\ db[m[1]].data[m[2]] = NoModel
          /\ work' = [work EXCEPT ![p][m[1]] = insertWithTransaction(db[m[1]], @, m[2], m[3])]
      BY <1>5 DEF Insert, InsertGlobal, HasOpen, InTransaction, InGlobalTransaction
    <2> QED BY <2>1, <2>2, OperationKeeps, Zenon
  <1>6. ASSUME NEW p \in Proc, NEW m \in Model, UpdateModel(p, m[1], m[2], m[3]) \/ UpdateGlobal(p, m[1], m[2], m[3])
        PROVE  DataInv'
    <2>1. m[1] \in Col /\ m[2] \in ID /\ m[3] \in Value
      BY ModelAssumption
    <2>2. HasOpen(p, m[1]) /\ Fresh(p, m[1], m[2]) /\ UNCHANGED <<db, st, glob>> /\ db[m[1]].data[m[2]] # NoModel
          /\ work' = [work EXCEPT ![p][m[1]] = updateWithTransaction(db[m[1]], @, m[2], m[3])]
      BY <1>6 DEF UpdateModel, UpdateGlobal, HasOpen, InTransaction, InGlobalTransaction
    <2> QED BY <2>1, <2>2, OperationKeeps, Zenon
  <1>7. ASSUME NEW p \in Proc, NEW c \in Col, NEW i \in ID, Delete(p, c, i) \/ DeleteGlobal(p, c, i)
        PROVE  DataInv'
    <2>1. HasOpen(p, c) /\ Fresh(p, c, i) /\ UNCHANGED <<db, st, glob>> /\ db[c].data[i] # NoModel
          /\ work' = [work EXCEPT ![p][c] = deleteWithTransaction(db[c], @, i)]
      BY <1>7 DEF Delete, DeleteGlobal, HasOpen, InTransaction, InGlobalTransaction
    <2> QED BY <2>1, OperationKeeps, Zenon
  <1>8. ASSUME NEW p \in Proc, NEW c \in Col, Commit(p, c) PROVE DataInv'
    BY <1>8, CommitKeeps
  <1>9. ASSUME NEW p \in Proc, NEW c \in Col, Discard(p, c) PROVE DataInv'
    <2>1. ~IsGlobal(p) /\ Unlock(p, c) /\ UNCHANGED <<db, glob>>
      BY <1>9 DEF Discard, InTransaction, HoldsMut
    <2>2. glob[p] = "closed"
      BY <2>1 DEF LockInv, KeepsRole
    <2> QED BY <2>1, <2>2, DiscardKeeps
  <1>10. ASSUME NEW p \in Proc, CommitGlobal(p) PROVE DataInv'
    BY <1>10, CommitGlobalKeeps
  <1>11. ASSUME NEW p \in Proc, DiscardGlobal(p) PROVE DataInv'
    <2>1. glob[p] = "open" /\ UnlockGlobal(p) /\ UNCHANGED <<db, st>>
      BY <1>11 DEF DiscardGlobal, HoldsMut
    <2>2. work' \in [Proc -> [Col -> Work]] /\ \A q \in Proc, d \in Col : ~HasOpen(q, d)'
      BY <2>1, GlobalEnds
    <2> QED BY <2>1, <2>2, PlansKept
  <1>12. ASSUME NEW f, NEW l, NEW i, StartQuery(f[1], f[2], l) \/ getAndAppendModel(i) \/ EndQuery PROVE DataInv'
    BY <1>12, DataUntouched DEF StartQuery, getAndAppendModel, EndQuery, HasOpen
  <1>13. CASE Crash
    BY <1>13, CrashKeeps
  <1> QED
    BY <1>1, <1>2, <1>3, <1>4, <1>5, <1>6, <1>7, <1>8, <1>9, <1>10, <1>11, <1>12, <1>13, Zenon DEF Next, Close

\* CheckIntegrity never finds anything, and Count is right.
THEOREM DatabaseIsSound == Spec => []Integrity
  <1>1. DataInv => Integrity
    BY DEF DataInv, Sound, Integrity, IndexOf, Present, Stored
  <1> QED BY <1>1, LockInit, LockStep, DataInit, DataStep, PTL DEF Spec

-----------------------------------------------------------------------------
(* Transactions are atomic.                                                *)

\* Only commits end transactions with a change.
LEMMA AtomicStep ==
    ASSUME LockInv, DataInv, [Next]_vars, NEW p \in Proc, NEW E,
           E = {c \in Col : HasOpen(p, c) /\ ~HasOpen(p, c)'}
    PROVE  (\A c \in E : db'[c] = db[c]) \/ (\A c \in E : db'[c].data = work[p][c].want)
  <1>1. CASE UNCHANGED db
    BY <1>1
  <1>2. ASSUME NEW q \in Proc, NEW d \in Col, Commit(q, d) PROVE \A c \in E : db'[c].data = work[p][c].want
    <2>1. st'[q][d] = "closed" /\ \A x \in Proc : \A c \in Col : x # q \/ c # d => st'[x][c] = st[x][c]
      BY <1>2, Moved, "closed" \in States DEF Commit, Unlock, LockInv, LockTypes, States
    <2>2. glob' = glob
      BY <1>2 DEF Commit
    <2>3. \A c \in E : c \in Col /\ p = q /\ c = d
      BY <2>1, <2>2 DEF HasOpen
    <2>4. db'[d].data = work[q][d].want
      BY <1>2, CommitKeeps
    <2> QED BY <2>3, <2>4
  <1>3. ASSUME NEW q \in Proc, CommitGlobal(q) PROVE \A c \in E : db'[c].data = work[p][c].want
    <2>1. glob[q] = "open" /\ st' = st
      BY <1>3 DEF CommitGlobal
    <2>2. ASSUME NEW c \in E PROVE p = q
      <3>1. c \in Col /\ HasOpen(p, c)
        OBVIOUS
      <3>2. st[p][c] = "closed"
        BY <2>1, <3>1 DEF LockInv, Exclusion
      <3>3. glob[p] = "open"
        BY <3>1, <3>2 DEF HasOpen
      <3> QED BY <2>1, <3>3 DEF LockInv, Exclusion
    <2>3. \A c \in Col : db'[c].data = work[q][c].want
      BY <1>3, CommitGlobalKeeps
    <2> QED BY <2>2, <2>3
  <1> QED BY <1>1, <1>2, <1>3, OnlyCommits

\* The step that ends a transaction applies all that was queued, or nothing.
THEOREM Atomic == Spec => AllOrNothing
  <1>1. LockInv /\ DataInv /\ [Next]_vars =>
          [LET Ends(p, c) == HasOpen(p, c) /\ ~HasOpen(p, c)'
               Applied(p, c) == db'[c].data = work[p][c].want
           IN  \A p \in Proc : LET E == {c \in Col : Ends(p, c)} IN
                \/ \A c \in E : db'[c] = db[c]
                \/ \A c \in E : Applied(p, c)]_vars
    BY AtomicStep, Zenon
  <1> QED BY <1>1, LockInit, LockStep, DataInit, DataStep, PTL DEF Spec, AllOrNothing

-----------------------------------------------------------------------------
(* Queries.                                                                *)

Query == [col : Col, val : Value, live : BOOLEAN, snapshot : [ID -> Content],
          todo : SUBSET ID, got : SUBSET ID, steady : SUBSET ID]

\* What is found or still to be read covers what must be found.
Covers ==
    IF query.live
    THEN /\ query.steady \subseteq query.todo \cup query.got
         /\ \A i \in query.steady : db[query.col].data[i] = query.val
    ELSE query.todo \cup query.got = {i \in ID : query.snapshot[i] = query.val}

QueryInv == query = NoQuery \/ (query \in Query /\ Covers)

\* A query starts: its iterator has exactly the models with the value.
LEMMA StartQueryKeeps ==
    ASSUME DataInv, NEW f \in Filter, NEW live \in BOOLEAN, StartQuery(f[1], f[2], live)
    PROVE  QueryInv'
  <1> DEFINE c == f[1]
             v == f[2]
             snap == IF live THEN EmptyDB.data ELSE db[c].data
             todo == {i \in ID : <<v, i>> \in db[c].index}
             steady == {i \in ID : live /\ db[c].data[i] = v}
  <1>1. c \in Col /\ v \in Value /\ v # NoModel
    BY ModelAssumption
  <1>2. db[c] \in DB /\ db[c].index = IndexOf(db[c].data)
    BY <1>1 DEF DataInv, DataTypes, Sound
  <1>3. todo = {i \in ID : db[c].data[i] = v}
    BY <1>1, <1>2 DEF IndexOf, Present
  <1>4. snap \in [ID -> Content]
    BY <1>2, NothingStored DEF DB
  <1>5. query' = [col |-> c, val |-> v, live |-> live, snapshot |-> snap, todo |-> todo, got |-> {},
                  steady |-> steady] /\ db' = db
    BY DEF StartQuery
  <1>6. todo \subseteq ID /\ steady \subseteq ID /\ (live => steady = todo /\ \A i \in steady : db[c].data[i] = v)
        /\ (~live => snap = db[c].data)
    BY <1>3
  <1>7. ~live => todo = {i \in ID : snap[i] = v}
    BY <1>3
  <1> HIDE DEF c, v, snap, todo, steady
  <1>8. query' \in Query
    BY <1>1, <1>4, <1>5, <1>6, Zenon DEF Query
  <1>9. /\ query'.col = c /\ query'.val = v /\ query'.live = live /\ query'.snapshot = snap
        /\ query'.todo = todo /\ query'.got = {} /\ query'.steady = steady
    BY <1>5
  <1>10. Covers'
    <2>1. CASE live
      BY <1>5, <1>6, <1>9, <2>1, Zenon DEF Covers
    <2>2. CASE ~live
      <3>1. query'.todo \cup query'.got = {i \in ID : query'.snapshot[i] = query'.val}
        BY <1>7, <1>9, <2>2
      <3> QED BY <1>9, <2>2, <3>1, Zenon DEF Covers
    <2> QED BY <2>1, <2>2
  <1> QED BY <1>8, <1>10 DEF QueryInv

\* A model of the iterator is read.
LEMMA AppendModelKeeps ==
    ASSUME QueryInv, DataInv, NEW i \in ID, getAndAppendModel(i)
    PROVE  QueryInv'
  <1>1. query \in Query /\ Covers /\ i \in query.todo /\ db' = db
    BY ModelAssumption DEF QueryInv, getAndAppendModel, NoQuery
  <1> DEFINE got == Found(query, i)
             todo == query.todo \ {i}
  <1>2. query' = [query EXCEPT !.todo = todo, !.got = got]
    BY DEF getAndAppendModel
  <1>3. query.col \in Col /\ query.val \in Value /\ query.val # NoModel /\ query.todo \subseteq ID /\ query.got \subseteq ID
    BY <1>1, ModelAssumption DEF Query
  <1>4. got \in {query.got, query.got \cup {i}} /\ (Reads(query)[i] # NoModel => got = query.got \cup {i})
    BY DEF Found
  <1> HIDE DEF got
  <1>5. query' \in Query
    BY <1>1, <1>2, <1>3, <1>4, Zenon DEF Query
  <1>6. /\ query'.col = query.col /\ query'.val = query.val /\ query'.live = query.live
        /\ query'.snapshot = query.snapshot /\ query'.todo = todo /\ query'.got = got /\ query'.steady = query.steady
    BY <1>1, <1>2 DEF Query
  <1>7. CASE query.live
    <2>1. query.steady \subseteq query.todo \cup query.got /\ \A j \in query.steady : db[query.col].data[j] = query.val
      BY <1>1, <1>7 DEF Covers
    <2>2. Reads(query) = db[query.col].data
      BY <1>7 DEF Reads
    <2>3. i \in query.steady => i \in got
      BY <1>3, <1>4, <2>1, <2>2
    <2>4. query.steady \subseteq todo \cup got
      BY <1>4, <2>1, <2>3
    <2> HIDE DEF todo
    <2>5. Covers'
      BY <1>1, <1>6, <1>7, <2>1, <2>4, Zenon DEF Covers
    <2> QED BY <1>5, <2>5 DEF QueryInv
  <1>8. CASE ~query.live
    <2>1. query.todo \cup query.got = {j \in ID : query.snapshot[j] = query.val}
      BY <1>1, <1>8, Zenon DEF Covers
    <2>2. Reads(query) = query.snapshot
      BY <1>8 DEF Reads
    <2>3. query.snapshot[i] = query.val
      BY <1>1, <1>3, <2>1
    <2>4. got = query.got \cup {i}
      BY <1>3, <1>4, <2>2, <2>3
    <2>5. todo \cup got = {j \in ID : query.snapshot[j] = query.val}
      BY <1>1, <2>1, <2>4
    <2> HIDE DEF todo
    <2>6. query'.todo \cup query'.got = {j \in ID : query'.snapshot[j] = query'.val}
      BY <1>6, <2>5
    <2>7. Covers'
      BY <1>6, <1>8, <2>6, Zenon DEF Covers
    <2> QED BY <1>5, <2>7 DEF QueryInv
  <1> QED BY <1>7, <1>8

\* A commit takes away from what a live query must find.
LEMMA SteadyKeeps ==
    ASSUME QueryInv, query' = Steady(query, db')
    PROVE  QueryInv'
  <1>1. CASE query = NoQuery
    <2>1. query.steady = {} /\ {i \in query.steady : db'[query.col].data[i] = query.val} = {}
      BY <1>1 DEF NoQuery
    <2>2. query' = [query EXCEPT !.steady = {}]
      BY <2>1 DEF Steady
    <2>3. query' = NoQuery
      BY <1>1, <2>2, Zenon DEF NoQuery
    <2> QED BY <2>3, Zenon DEF QueryInv
  <1>2. CASE query \in Query /\ Covers
    <2> DEFINE steady == {i \in query.steady : db'[query.col].data[i] = query.val}
    <2>1. query' = [query EXCEPT !.steady = steady]
      BY DEF Steady
    <2>2. steady \subseteq query.steady /\ \A i \in steady : db'[query.col].data[i] = query.val
      OBVIOUS
    <2> HIDE DEF steady
    <2>3. query' \in Query
      BY <1>2, <2>1, <2>2 DEF Query
    <2>4. /\ query'.col = query.col /\ query'.val = query.val /\ query'.live = query.live
          /\ query'.snapshot = query.snapshot /\ query'.todo = query.todo /\ query'.got = query.got
          /\ query'.steady = steady
      BY <1>2, <2>1 DEF Query
    <2>5. Covers'
      <3>1. CASE query.live
        <4>1. query.steady \subseteq query.todo \cup query.got
          BY <1>2, <3>1 DEF Covers
        <4>2. steady \subseteq query.todo \cup query.got
          BY <2>2, <4>1
        <4> QED BY <2>2, <2>4, <3>1, <4>2, Zenon DEF Covers
      <3>2. CASE ~query.live
        <4>1. query'.todo \cup query'.got = {j \in ID : query'.snapshot[j] = query'.val}
          BY <1>2, <2>4, <3>2 DEF Covers
        <4> QED BY <2>4, <3>2, <4>1, Zenon DEF Covers
      <3> QED BY <3>1, <3>2
    <2> QED BY <2>3, <2>5 DEF QueryInv
  <1> QED BY <1>1, <1>2 DEF QueryInv

\* Every step.
LEMMA QueryStep == LockInv /\ DataInv /\ QueryInv /\ [Next]_vars => QueryInv'
  <1> SUFFICES ASSUME DataInv, QueryInv, [Next]_vars PROVE QueryInv'
    OBVIOUS
  <1>1. ASSUME UNCHANGED <<db, query>> PROVE QueryInv'
    BY <1>1, Zenon DEF QueryInv, Covers
  <1>2. CASE UNCHANGED vars
    BY <1>1, <1>2 DEF vars
  <1>3. ASSUME NEW p \in Proc, RLock(p) \/ LockCollection(p) \/ LockCollections(p) \/ LockGlobal(p)
        PROVE  QueryInv'
    BY <1>1, <1>3 DEF RLock, LockCollection, LockCollections, LockGlobal
  <1>4. ASSUME NEW p \in Proc, NEW c, NEW i, NEW v,
               Insert(p, c, i, v) \/ UpdateModel(p, c, i, v) \/ Delete(p, c, i)
        PROVE  QueryInv'
    BY <1>1, <1>4 DEF Insert, UpdateModel, Delete
  <1>5. ASSUME NEW p \in Proc, NEW c, NEW i, NEW v,
               InsertGlobal(p, c, i, v) \/ UpdateGlobal(p, c, i, v) \/ DeleteGlobal(p, c, i)
        PROVE  QueryInv'
    BY <1>1, <1>5 DEF InsertGlobal, UpdateGlobal, DeleteGlobal
  <1>6. ASSUME NEW p \in Proc, NEW c, CommitFails(p, c) \/ CommitGlobalFails(p) \/ Discard(p, c) \/ DiscardGlobal(p)
        PROVE  QueryInv'
    BY <1>1, <1>6 DEF CommitFails, CommitGlobalFails, Discard, DiscardGlobal
  <1>7. ASSUME NEW p \in Proc, NEW c, Commit(p, c) \/ CommitGlobal(p) PROVE QueryInv'
    BY <1>7, SteadyKeeps, Zenon DEF Commit, CommitGlobal
  <1>8. ASSUME NEW f \in Filter, NEW live \in BOOLEAN, StartQuery(f[1], f[2], live) PROVE QueryInv'
    BY <1>8, StartQueryKeeps
  <1>9. ASSUME NEW i \in ID, getAndAppendModel(i) PROVE QueryInv'
    BY <1>9, AppendModelKeeps
  <1>10. CASE EndQuery \/ Crash
    BY <1>10, Zenon DEF EndQuery, Crash, QueryInv
  <1> QED
    BY <1>2, <1>3, <1>4, <1>5, <1>6, <1>7, <1>8, <1>9, <1>10, Zenon DEF Next, Close

\* A snapshot query finds exactly the models of the snapshot with the value, a
\* live query at least those that had it all the time.
THEOREM QueriesAreComplete == Spec => []QueryIsComplete
  <1>1. Init => QueryInv
    BY Zenon DEF Init, QueryInv
  <1>2. QueryInv => QueryIsComplete
    <2>1. CASE query = NoQuery
      <3>1. query.col = NoModel
        BY <2>1 DEF NoQuery
      <3> QED BY <3>1, Zenon DEF QueryIsComplete
    <2>2. ASSUME Covers, query.todo = {} PROVE QueryIsComplete
      <3>1. CASE query.live
        <4>1. query.steady \subseteq query.got
          BY <2>2, <3>1 DEF Covers
        <4> QED BY <3>1, <4>1, Zenon DEF QueryIsComplete
      <3>2. CASE ~query.live
        <4>1. query.todo \cup query.got = {i \in ID : query.snapshot[i] = query.val}
          BY <2>2, <3>2, Zenon DEF Covers
        <4>2. query.got = {i \in ID : query.snapshot[i] = query.val}
          BY <2>2, <4>1
        <4> QED BY <3>2, <4>2, Zenon DEF QueryIsComplete
      <3> QED BY <3>1, <3>2
    <2> QED BY <2>1, <2>2, Zenon DEF QueryInv, QueryIsComplete
  <1> QED BY <1>1, <1>2, LockInit, LockStep, DataInit, DataStep, QueryStep, PTL DEF Spec
=============================================================================
