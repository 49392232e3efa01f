-------------------------- MODULE OrderSyncProofs ---------------------------
(***************************************************************************)
(* Snapshots and ordersync, for every number of orders, streams and peers, *)
(* every page size, time to live and filter.                               *)
(***************************************************************************)
EXTENDS OrderSync, FiniteSetTheorems, WellFoundedInduction, TLAPS

-----------------------------------------------------------------------------
(* Pages.                                                                  *)

\* A nonempty set of numbers has a least one.
LEMMA NatMin ==
    ASSUME NEW T, T \subseteq Nat, T # {}
    PROVE  \E x \in T : \A y \in T : ~(y < x)
  <1> DEFINE R == {ss \in Nat \X Nat : ss[1] < ss[2]}
  <1>1. IsWellFoundedOn(R, Nat)
    BY NatLessThanWellFounded DEF OpToRel
  <1>2. PICK x \in T : \A y \in T : ~(<<y, x>> \in R)
    BY <1>1, WFMin, Zenon
  <1>3. \A y \in T : y < x => <<y, x>> \in R
    OBVIOUS
  <1> QED BY <1>2, <1>3, Zenon

\* A rank is less than the number of orders.
LEMMA RankType ==
    ASSUME NEW S, S \subseteq Nat, IsFiniteSet(S), NEW o \in S
    PROVE  /\ IsFiniteSet({p \in S : p < o}) /\ Rank(S, o) \in Nat
           /\ Cardinality(S) \in Nat /\ Rank(S, o) < Cardinality(S)
  <1> DEFINE B == {p \in S : p < o}
  <1>1. IsFiniteSet(B) /\ Cardinality(B) \in Nat /\ Cardinality(S) \in Nat
    BY FS_Subset, FS_CardinalityType
  <1>2. B \subseteq S /\ B # S
    <2>1. ~(o < o)
      OBVIOUS
    <2> QED BY <2>1
  <1>3. Cardinality(B) < Cardinality(S)
    BY <1>1, <1>2, FS_Subset
  <1> QED BY <1>1, <1>3 DEF Rank

\* Ranks are consecutive: every number up to a rank is a rank.
LEMMA RankFills ==
    ASSUME NEW S, S \subseteq Nat, IsFiniteSet(S), NEW o \in S, NEW r \in Nat, r <= Rank(S, o)
    PROVE  \E p \in S : Rank(S, p) = r
  <1> DEFINE T == {p \in S : r <= Rank(S, p)}
  <1>1. PICK x \in T : \A y \in T : ~(y < x)
    BY NatMin, Zenon
  <1> DEFINE B == {p \in S : p < x}
  <1>2. Rank(S, x) \in Nat /\ r <= Rank(S, x) /\ IsFiniteSet(B) /\ Rank(S, x) = Cardinality(B) /\ x \in S /\ x \in Nat
    BY RankType, Zenon DEF Rank
  <1>3. SUFFICES ASSUME Rank(S, x) # r PROVE FALSE
    BY <1>2
  <1>4. B # {}
    BY <1>2, <1>3, FS_EmptySet
  <1> DEFINE D == {x - p : p \in B}
  <1>5. D \subseteq Nat /\ D # {}
    <2>1. \A p \in B : x - p \in Nat
      BY <1>2
    <2> QED BY <1>4, <2>1, Zenon
  <1>6. PICK d \in D : \A e \in D : ~(e < d)
    BY <1>5, NatMin, Zenon
  <1>7. PICK y \in B : d = x - y
    BY <1>6, Zenon
  <1>8. \A p \in B : p <= y
    <2> TAKE p \in B
    <2>1. x - p \in D
      OBVIOUS
    <2>2. ~(x - p < x - y)
      BY <1>6, <1>7, <2>1, Zenon
    <2>3. p \in Nat /\ y \in Nat
      BY <1>7
    <2> QED BY <1>2, <2>2, <2>3
  <1> DEFINE C == {p \in S : p < y}
  <1>9. B = C \cup {y} /\ y \notin C
    <2>1. y \in S /\ y \in Nat /\ y < x
      BY <1>7
    <2>2. \A p \in S : p < x => p <= y
      BY <1>8
    <2>3. \A p \in Nat : p <= y <=> p < y \/ p = y
      BY <2>1
    <2>4. \A p \in Nat : p < y => p < x
      BY <1>2, <2>1
    <2>5. ~(y < y)
      BY <2>1
    <2>6. ASSUME NEW p PROVE p \in B <=> p \in C \cup {y}
      BY <2>1, <2>2, <2>3, <2>4, Zenon
    <2> QED BY <2>5, <2>6
  <1>10. IsFiniteSet(C) /\ Cardinality(C) = Rank(S, y) /\ Rank(S, y) \in Nat
    BY <1>7, RankType, Zenon DEF Rank
  <1>11. Cardinality(B) = Cardinality(C) + 1
    BY <1>9, <1>10, FS_AddElement, Zenon
  <1>12. y \in T
    BY <1>2, <1>3, <1>7, <1>10, <1>11
  <1> QED BY <1>1, <1>7, <1>12

\* Multiples of the page size.
LEMMA Multiples ==
    ASSUME NEW j \in Nat, NEW k \in Nat, k <= j
    PROVE  /\ k * PerPage \in Nat /\ j * PerPage \in Nat /\ (k + 1) * PerPage = k * PerPage + PerPage
           /\ k * PerPage <= j * PerPage /\ j <= j * PerPage
           /\ PerPage \in Nat /\ PerPage >= 1
  <1>1. PICK n \in Nat : PerPage = n + 1
    <2>1. PerPage - 1 \in Nat /\ PerPage = (PerPage - 1) + 1
      BY SnapshotsAssumption
    <2> QED BY <2>1
  <1>2. PICK m \in Nat : j = k + m
    <2>1. j - k \in Nat /\ j = k + (j - k)
      OBVIOUS
    <2> QED BY <2>1
  <1>3. k * n \in Nat /\ m * n \in Nat /\ j * n \in Nat
    OBVIOUS
  <1>4. j * n = k * n + m * n
    BY <1>2
  <1>5. k * PerPage = k * n + k /\ j * PerPage = j * n + j /\ (k + 1) * PerPage = k * n + k + n + 1
    BY <1>1
  <1> QED BY <1>1, <1>2, <1>3, <1>4, <1>5

\* After an empty page there are only empty pages.
LEMMA PagesEnd ==
    ASSUME NEW S, S \subseteq Order, NEW k \in Nat, Page(S, k) = {}, NEW j \in Nat, k <= j
    PROVE  Page(S, j) = {}
  <1> SUFFICES ASSUME NEW o \in Page(S, j) PROVE FALSE
    OBVIOUS
  <1>1. S \subseteq Nat /\ IsFiniteSet(S)
    BY SnapshotsAssumption, FS_Subset, Zenon
  <1> DEFINE a == k * PerPage
             b == j * PerPage
             c == (k + 1) * PerPage
  <1>2. o \in S /\ b <= Rank(S, o)
    BY DEF Page
  <1>3. Rank(S, o) \in Nat
    BY <1>1, <1>2, RankType, Zenon
  <1>4. a \in Nat /\ b \in Nat /\ a <= b /\ c = a + PerPage /\ PerPage \in Nat /\ PerPage >= 1
    BY Multiples, Zenon
  <1> HIDE DEF a, b, c
  <1>5. PICK p \in S : Rank(S, p) = a
    <2>1. a <= Rank(S, o)
      BY <1>2, <1>3, <1>4
    <2> QED BY <1>1, <1>2, <1>4, <2>1, RankFills, Zenon
  <1>6. a <= Rank(S, p) /\ Rank(S, p) < c
    BY <1>4, <1>5
  <1>7. p \in Page(S, k)
    BY <1>5, <1>6 DEF Page, a, c
  <1> QED BY <1>7

\* The pages from the first empty one on, and those from the number of orders on, are empty.
LEMMA PagesBound ==
    ASSUME NEW S, S \subseteq Order, NEW j \in Nat, Page(S, j) # {}
    PROVE  Cardinality(Order) \in Nat /\ j <= Cardinality(Order)
  <1>1. S \subseteq Nat /\ IsFiniteSet(S)
    BY SnapshotsAssumption, FS_Subset, Zenon
  <1>2. PICK o \in S : j * PerPage <= Rank(S, o)
    BY DEF Page
  <1>3. Rank(S, o) \in Nat /\ Cardinality(S) \in Nat /\ Rank(S, o) < Cardinality(S)
    BY <1>1, RankType, Zenon
  <1>4. Cardinality(S) <= Cardinality(Order) /\ Cardinality(Order) \in Nat
    BY SnapshotsAssumption, FS_Subset, FS_CardinalityType, Zenon
  <1> DEFINE b == j * PerPage
  <1>5. b \in Nat /\ j <= b /\ b <= Rank(S, o)
    BY <1>2, Multiples
  <1> HIDE DEF b
  <1> QED BY <1>3, <1>4, <1>5

\* The orders on the pages from a up to but not including b.
Between(S, a, b) == UNION {Page(S, k) : k \in a..(b - 1)}

\* Adjacent ranges of pages.
LEMMA BetweenAdds ==
    ASSUME NEW S, NEW a \in Nat, NEW b \in Nat, NEW c \in Nat, a <= b, b <= c
    PROVE  Between(S, a, c) = Between(S, a, b) \cup Between(S, b, c)
  <1>1. a..(c - 1) = (a..(b - 1)) \cup (b..(c - 1))
    OBVIOUS
  <1> QED BY <1>1 DEF Between

\* No page, and one page.
LEMMA BetweenOne ==
    ASSUME NEW S, NEW a \in Nat
    PROVE  Between(S, a, a) = {} /\ Between(S, a, a + 1) = Page(S, a)
  <1>1. a..(a - 1) = {} /\ a..((a + 1) - 1) = {a}
    OBVIOUS
  <1> QED BY <1>1 DEF Between

\* The next page.
LEMMA BetweenNext ==
    ASSUME NEW S, NEW a \in Nat, NEW b \in Nat, a <= b
    PROVE  a <= b + 1 /\ Between(S, a, b + 1) = Between(S, a, b) \cup Page(S, b)
  <1>1. b + 1 \in Nat /\ b <= b + 1 /\ a <= b + 1
    OBVIOUS
  <1>2. Between(S, a, b + 1) = Between(S, a, b) \cup Between(S, b, b + 1)
    BY <1>1, BetweenAdds
  <1> QED BY <1>1, <1>2, BetweenOne

\* The pages up to the first empty one are all the pages.
LEMMA BetweenAll ==
    ASSUME NEW S, S \subseteq Order, NEW a \in Nat, NEW b \in Nat, b > 0, Page(S, b - 1) = {}
    PROVE  Between(S, a, b) = UNION {Page(S, k) : k \in a..Cardinality(Order)}
  <1>1. ASSUME NEW k \in Nat, Page(S, k) # {}
        PROVE  Cardinality(Order) \in Nat /\ k <= Cardinality(Order) /\ k <= b - 1
    <2>1. Cardinality(Order) \in Nat /\ k <= Cardinality(Order)
      BY <1>1, PagesBound
    <2>2. b - 1 \in Nat /\ (~(k <= b - 1) => b - 1 <= k)
      OBVIOUS
    <2>3. k <= b - 1
      BY <1>1, <2>2, PagesEnd
    <2> QED BY <2>1, <2>3
  <1>2. ASSUME NEW k \in Nat, Page(S, k) # {}
        PROVE  k \in a..(b - 1) <=> k \in a..Cardinality(Order)
    BY <1>1, <1>2
  <1>3. Cardinality(Order) \in Nat
    BY SnapshotsAssumption, FS_CardinalityType
  <1>4. \A k \in a..(b - 1) : k \in Nat
    OBVIOUS
  <1>5. \A k \in a..Cardinality(Order) : k \in Nat
    BY <1>3
  <1>6. \A o : o \in Between(S, a, b) <=> \E k \in a..(b - 1) : o \in Page(S, k)
    BY DEF Between
  <1> QED BY <1>2, <1>4, <1>5, <1>6

-----------------------------------------------------------------------------
(* The inductive invariant of Snapshots.                                   *)

SnapshotTypes ==
    /\ now \in Nat /\ orders \subseteq Order
    /\ made \in Seq(SUBSET Order)
    /\ idToSnapshotInfo \in [DOMAIN idToSnapshotInfo -> [orders : SUBSET Order, exp : Nat]]
    /\ call \in [Caller -> [at : {"idle", "failed", "insert", "query"}, page : Nat, id : Nat,
                            orders : SUBSET Order, exp : Nat]]

\* A snapshot keeps the orders it was made of.
Frozen ==
    /\ \A id \in DOMAIN idToSnapshotInfo : id \in 1..Len(made) /\ idToSnapshotInfo[id].orders = made[id]
    /\ \A c \in Caller : call[c].at \in {"insert", "query"} =>
          call[c].id \in 1..Len(made) /\ call[c].orders = made[call[c].id]

\* A snapshot that is about to be put in the map is in the tree already, and no
\* one else knows its ID.
Inserting ==
    /\ \A c \in Caller : call[c].at = "insert" =>
          /\ call[c].id \notin DOMAIN idToSnapshotInfo
          /\ call[c].exp > now => <<call[c].exp, call[c].id>> \in tree
    /\ \A c, d \in Caller : call[c].at = "insert" /\ call[d].at = "insert" /\ call[c].id = call[d].id => c = d

SnapshotInv == SnapshotTypes /\ Frozen /\ Inserting /\ UnexpiredIsWatched

-----------------------------------------------------------------------------
Request == [type : {"request", "response"}, supported : BOOLEAN, parses : BOOLEAN, page : Nat, id : Nat]
ResponseMessage == [orders : SUBSET Order, complete : BOOLEAN, page : Nat, id : Nat]

Message == Request \cup ResponseMessage
StreamState == [by : {"none", "requester", "foreign"}, open : SUBSET Ends, msgs : [Ends -> SUBSET Message]]
HandlerState == [at : {"none", "accept", "wait", "call", "paging", "closed"}, page : Nat, id : Nat]
Sync == [stream : Stream \cup {0}, page : Nat, id : Nat, received : SUBSET Order, first : Nat, complete : BOOLEAN]

SyncTypes ==
    /\ stream \in [Stream -> StreamState]
    /\ \A s \in Stream : stream[s].msgs["provider"] \subseteq Request /\ stream[s].msgs["requester"] \subseteq ResponseMessage
    /\ handler \in [Stream -> HandlerState]
    /\ service \in [at : {"peers", "send", "await"}, synced : SUBSET Peers, sync : Sync]
    /\ service.at # "peers" => service.sync.stream \in Stream

\* A node that runs this code sends valid requests only.
ValidRequests ==
    /\ penalised \subseteq {"foreign"}
    /\ \A s \in Stream : stream[s].by # "foreign" =>
          \A m \in stream[s].msgs["provider"] : m.type = "request" /\ m.supported

-----------------------------------------------------------------------------
\* What the requester has got is all that matches on the pages it has been through.
Gathered ==
    LET y == service.sync
    IN  /\ y.id \in 0..Len(made)
        /\ y.id = NoID => y.received = {}
        /\ y.id # NoID => y.first <= y.page /\ y.received = Matching \cap Between(made[y.id], y.first, y.page)
        /\ y.complete => y.id # NoID /\ y.page > 0 /\ Page(made[y.id], y.page - 1) = {}

\* Page p comes next, but for pages on which nothing matches.
Reaches(y, p) == y.id # NoID => y.page <= p /\ Matching \cap Between(made[y.id], y.page, p) = {}

Answers(y, m) ==
    /\ m.id \in 1..Len(made) /\ (y.id # NoID => m.id = y.id)
    /\ Reaches(y, m.page)
    /\ m.orders = Matching \cap Page(made[m.id], m.page)
    /\ m.complete => Page(made[m.id], m.page) = {}

Handling(s) == handler[s].at \in {"call", "paging"}

\* The stream of the sync carries one request or one response, or the handler is
\* at work, and what is under way is about the next page of the snapshot.
Exchange ==
    LET y == service.sync
        s == y.stream
    IN  service.at # "peers" =>
        /\ ~y.complete /\ stream[s].by = "requester"
        /\ \A m \in stream[s].msgs["provider"] : m.id = y.id /\ m.page = y.page
        /\ Handling(s) => handler[s].id = y.id /\ Reaches(y, handler[s].page)
        /\ \A m \in stream[s].msgs["requester"] : Answers(y, m)
        /\ stream[s].msgs["provider"] = {} \/ stream[s].msgs["requester"] = {}
        /\ Handling(s) => stream[s].msgs["provider"] = {} /\ stream[s].msgs["requester"] = {}
        /\ service.at = "send" =>
              ~Handling(s) /\ stream[s].msgs["provider"] = {} /\ stream[s].msgs["requester"] = {}

\* A page is asked for as the request says.
Paging ==
    \A s \in Stream : handler[s].at = "paging" /\ call[s].at \in {"insert", "query"} =>
        call[s].page = handler[s].page /\ (handler[s].id # NoID => call[s].id = handler[s].id)

SyncInv == SyncTypes /\ Gathered /\ Exchange /\ Paging

-----------------------------------------------------------------------------
(* The steps of Snapshots.                                                 *)

\* A step that leaves the snapshots alone.
LEMMA SnapshotsSame ==
    ASSUME SnapshotInv, UNCHANGED <<now, orders, snapshotVars>>
    PROVE  SnapshotInv'
  BY DEF SnapshotInv, SnapshotTypes, Frozen, Inserting, UnexpiredIsWatched, snapshotVars

\* Time passes.
LEMMA TickKeeps ==
    ASSUME SnapshotInv, Tick
    PROVE  SnapshotInv'
  <1>1. now \in Nat /\ now' = now + 1 /\ UNCHANGED <<orders, tree, idToSnapshotInfo, made, call>>
    BY DEF SnapshotInv, SnapshotTypes, Tick, snapshotVars
  <1>2. SnapshotTypes' /\ Frozen'
    BY <1>1 DEF SnapshotInv, SnapshotTypes, Frozen
  <1>3. \A x \in Nat : x > now' => x > now
    BY <1>1
  <1>4. Inserting'
    BY <1>1, <1>3 DEF SnapshotInv, SnapshotTypes, Inserting
  <1>5. UnexpiredIsWatched'
    BY <1>1, <1>3 DEF SnapshotInv, SnapshotTypes, UnexpiredIsWatched
  <1> QED BY <1>2, <1>4, <1>5 DEF SnapshotInv

\* The database changes.
LEMMA OrdersChangeKeeps ==
    ASSUME SnapshotInv, OrdersChange
    PROVE  SnapshotInv'
  <1>1. orders' \subseteq Order /\ UNCHANGED <<now, tree, idToSnapshotInfo, made, call>>
    BY DEF SnapshotInv, SnapshotTypes, OrdersChange, snapshotVars, SymDiff
  <1> QED
    BY <1>1 DEF SnapshotInv, SnapshotTypes, Frozen, Inserting, UnexpiredIsWatched

\* A call that has failed or is over.
LEMMA CallEnds ==
    ASSUME SnapshotInv, NEW c \in Caller, NEW r \in {Idle, Failed}, call' = [call EXCEPT ![c] = r],
           UNCHANGED <<now, orders, tree, idToSnapshotInfo, made>>
    PROVE  SnapshotInv'
  <1>1. r \in [at : {"idle", "failed", "insert", "query"}, page : Nat, id : Nat, orders : SUBSET Order, exp : Nat]
        /\ r.at \notin {"insert", "query"}
    BY DEF Idle, Failed, NoID
  <1>2. \A d \in Caller : call'[d] = IF d = c THEN r ELSE call[d]
    BY DEF SnapshotInv, SnapshotTypes
  <1>3. SnapshotTypes'
    BY <1>1 DEF SnapshotInv, SnapshotTypes
  <1>4. \A d \in Caller : call'[d].at \in {"insert", "query"} => call'[d] = call[d]
    BY <1>1, <1>2
  <1>4a. Frozen'
    BY <1>4 DEF SnapshotInv, Frozen
  <1>4b. Inserting'
    BY <1>4 DEF SnapshotInv, Inserting
  <1>5. UnexpiredIsWatched'
    BY DEF SnapshotInv, UnexpiredIsWatched
  <1> QED BY <1>3, <1>4a, <1>4b, <1>5 DEF SnapshotInv

\* GetOrders makes a snapshot: its ID is new.
LEMMA NewSnapshotKeeps ==
    ASSUME SnapshotInv, NEW c \in Caller, NEW page \in Nat, NewSnapshot(c, page), UNCHANGED <<now, orders>>
    PROVE  SnapshotInv'
  <1> DEFINE id == Len(made) + 1
             exp == now + Ttl
             r == [at |-> "insert", page |-> page, id |-> id, orders |-> orders, exp |-> exp]
  <1>1. Len(made) \in Nat /\ id \in Nat /\ exp \in Nat /\ orders \subseteq Order
    BY SnapshotsAssumption DEF SnapshotInv, SnapshotTypes
  <1>2. /\ made' = Append(made, orders) /\ tree' = tree \cup {<<exp, id>>}
        /\ call' = [call EXCEPT ![c] = r] /\ idToSnapshotInfo' = idToSnapshotInfo
    BY DEF NewSnapshot, AddItem
  <1>3. /\ Len(made') = id /\ made'[id] = orders /\ made' \in Seq(SUBSET Order)
        /\ \A i \in 1..Len(made) : i \in 1..Len(made') /\ made'[i] = made[i] /\ i # id
    BY <1>1, <1>2 DEF SnapshotInv, SnapshotTypes
  <1>4. r \in [at : {"idle", "failed", "insert", "query"}, page : Nat, id : Nat, orders : SUBSET Order, exp : Nat]
    BY <1>1
  <1>5. r.at = "insert" /\ r.id = id /\ r.orders = orders /\ r.exp = exp
    OBVIOUS
  <1> HIDE DEF r, id, exp
  <1>6. \A d \in Caller : call'[d] = IF d = c THEN r ELSE call[d]
    BY <1>2 DEF SnapshotInv, SnapshotTypes
  <1>7. SnapshotTypes'
    BY <1>2, <1>3, <1>4 DEF SnapshotInv, SnapshotTypes
  <1>8. Frozen'
    <2>1. ASSUME NEW i \in DOMAIN idToSnapshotInfo' PROVE i \in 1..Len(made') /\ idToSnapshotInfo'[i].orders = made'[i]
      BY <1>2, <1>3 DEF SnapshotInv, Frozen
    <2>2. ASSUME NEW d \in Caller, call'[d].at \in {"insert", "query"}
          PROVE  call'[d].id \in 1..Len(made') /\ call'[d].orders = made'[call'[d].id]
      <3>1. id \in 1..Len(made')
        BY <1>1, <1>3 DEF id
      <3> QED BY <1>3, <1>5, <1>6, <2>2, <3>1 DEF SnapshotInv, Frozen
    <2> QED BY <2>1, <2>2 DEF Frozen
  <1>9. id \notin DOMAIN idToSnapshotInfo /\ \A d \in Caller : call[d].at = "insert" => call[d].id # id
    BY <1>3 DEF SnapshotInv, Frozen
  <1>10. Inserting'
    BY <1>2, <1>5, <1>6, <1>9 DEF SnapshotInv, Inserting
  <1>11. UnexpiredIsWatched'
    BY <1>2 DEF SnapshotInv, UnexpiredIsWatched
  <1> QED BY <1>7, <1>8, <1>10, <1>11 DEF SnapshotInv

\* GetOrders renews a snapshot in the map and in the tree.
LEMMA RenewSnapshotKeeps ==
    ASSUME SnapshotInv, NEW c \in Caller, NEW page \in Nat, NEW id, RenewSnapshot(c, page, id), UNCHANGED <<now, orders>>
    PROVE  SnapshotInv'
  <1> DEFINE info == idToSnapshotInfo[id]
             exp == now + Ttl
             r == [at |-> "query", page |-> page, id |-> id, orders |-> info.orders, exp |-> exp]
  <1>0. id \in DOMAIN idToSnapshotInfo /\ exp \in Nat
    BY SnapshotsAssumption DEF SnapshotInv, SnapshotTypes, RenewSnapshot
  <1>1. /\ id \in DOMAIN idToSnapshotInfo /\ id \in 1..Len(made) /\ id \in Nat /\ exp \in Nat
        /\ info \in [orders : SUBSET Order, exp : Nat] /\ info.orders = made[id]
    <2>1. id \in 1..Len(made) /\ info.orders = made[id]
      BY <1>0 DEF SnapshotInv, Frozen
    <2>2. info \in [orders : SUBSET Order, exp : Nat] /\ Len(made) \in Nat
      BY <1>0 DEF SnapshotInv, SnapshotTypes
    <2> QED BY <1>0, <2>1, <2>2
  <1>2. /\ tree' = (tree \ {<<info.exp, id>>}) \cup {<<exp, id>>}
        /\ idToSnapshotInfo' = [idToSnapshotInfo EXCEPT ![id].exp = exp]
        /\ call' = [call EXCEPT ![c] = r] /\ made' = made
    BY DEF RenewSnapshot, AddItem, RemoveItem
  <1>3. r \in [at : {"idle", "failed", "insert", "query"}, page : Nat, id : Nat, orders : SUBSET Order, exp : Nat]
    BY <1>1
  <1>4. r.at = "query" /\ r.id = id /\ r.orders = made[id]
    BY <1>1
  <1>5. /\ DOMAIN idToSnapshotInfo' = DOMAIN idToSnapshotInfo
        /\ idToSnapshotInfo' \in [DOMAIN idToSnapshotInfo' -> [orders : SUBSET Order, exp : Nat]]
        /\ idToSnapshotInfo'[id].exp = exp /\ idToSnapshotInfo'[id].orders = info.orders
        /\ \A i \in DOMAIN idToSnapshotInfo : i # id => idToSnapshotInfo'[i] = idToSnapshotInfo[i]
    BY <1>1, <1>2, Zenon DEF SnapshotInv, SnapshotTypes
  <1>6. <<exp, id>> \in tree' /\ \A x, i : i # id /\ <<x, i>> \in tree => <<x, i>> \in tree'
    BY <1>2
  <1> HIDE DEF r, info, exp
  <1>7. \A d \in Caller : call'[d] = IF d = c THEN r ELSE call[d]
    BY <1>2 DEF SnapshotInv, SnapshotTypes
  <1>8. SnapshotTypes'
    BY <1>2, <1>3, <1>5, Zenon DEF SnapshotInv, SnapshotTypes
  <1>9. Frozen'
    BY <1>1, <1>2, <1>4, <1>5, <1>7 DEF SnapshotInv, Frozen
  <1>10. Inserting'
    <2>1. \A d \in Caller : call'[d].at = "insert" => call[d].at = "insert" /\ call'[d] = call[d]
      BY <1>4, <1>7
    <2>2. \A d \in Caller : call[d].at = "insert" => call[d].id # id
      BY <1>1, Zenon DEF SnapshotInv, Inserting
    <2>3. \A d \in Caller : call'[d].at = "insert" => call'[d].id \notin DOMAIN idToSnapshotInfo'
      BY <1>5, <2>1, Zenon DEF SnapshotInv, Inserting
    <2>4. \A d \in Caller : call'[d].at = "insert" /\ call'[d].exp > now' => <<call'[d].exp, call'[d].id>> \in tree'
      BY <1>6, <2>1, <2>2 DEF SnapshotInv, Inserting
    <2>5. \A d, e \in Caller : call'[d].at = "insert" /\ call'[e].at = "insert" /\ call'[d].id = call'[e].id => d = e
      BY <2>1 DEF SnapshotInv, Inserting
    <2> QED BY <2>3, <2>4, <2>5 DEF Inserting
  <1>11. UnexpiredIsWatched'
    BY <1>5, <1>6 DEF SnapshotInv, UnexpiredIsWatched
  <1> QED BY <1>8, <1>9, <1>10, <1>11 DEF SnapshotInv

\* The new snapshot is put in the map.
LEMMA InsertSnapshotKeeps ==
    ASSUME SnapshotInv, NEW c \in Caller, InsertSnapshot(c)
    PROVE  SnapshotInv'
  <1> DEFINE id == call[c].id
             r == [call[c] EXCEPT !.at = "query"]
             n == [orders |-> call[c].orders, exp |-> call[c].exp]
  <1>1. call[c].at = "insert" /\ id \in 1..Len(made) /\ id \in Nat /\ call[c].orders = made[id] /\ id \notin DOMAIN idToSnapshotInfo
    BY Zenon DEF SnapshotInv, SnapshotTypes, Frozen, Inserting, InsertSnapshot
  <1>2. /\ UNCHANGED <<now, orders, tree, made>> /\ call' = [call EXCEPT ![c] = r]
        /\ idToSnapshotInfo' = [i \in DOMAIN idToSnapshotInfo \cup {id} |-> IF i = id THEN n ELSE idToSnapshotInfo[i]]
    BY DEF InsertSnapshot, dbVars
  <1>3. r \in [at : {"idle", "failed", "insert", "query"}, page : Nat, id : Nat, orders : SUBSET Order, exp : Nat]
        /\ r.at = "query" /\ r.id = id /\ r.orders = made[id]
    BY <1>1, Zenon DEF SnapshotInv, SnapshotTypes
  <1>4. n \in [orders : SUBSET Order, exp : Nat] /\ n.orders = made[id] /\ n.exp = call[c].exp
    BY <1>1 DEF SnapshotInv, SnapshotTypes
  <1> HIDE DEF r, n
  <1>5. /\ DOMAIN idToSnapshotInfo' = DOMAIN idToSnapshotInfo \cup {id}
        /\ idToSnapshotInfo'[id] = n
        /\ \A i \in DOMAIN idToSnapshotInfo : idToSnapshotInfo'[i] = idToSnapshotInfo[i]
    BY <1>1, <1>2
  <1>6. \A d \in Caller : call'[d] = IF d = c THEN r ELSE call[d]
    BY <1>2 DEF SnapshotInv, SnapshotTypes
  <1>7. SnapshotTypes'
    <2>1. idToSnapshotInfo' \in [DOMAIN idToSnapshotInfo' -> [orders : SUBSET Order, exp : Nat]]
      BY <1>2, <1>4, <1>5 DEF SnapshotInv, SnapshotTypes
    <2> QED BY <1>2, <1>3, <2>1 DEF SnapshotInv, SnapshotTypes
  <1>8. Frozen'
    <2>1. \A i \in DOMAIN idToSnapshotInfo' : i \in 1..Len(made') /\ idToSnapshotInfo'[i].orders = made'[i]
      BY <1>1, <1>2, <1>4, <1>5 DEF SnapshotInv, Frozen
    <2>2. \A d \in Caller : call'[d].at \in {"insert", "query"} =>
              call'[d].id \in 1..Len(made') /\ call'[d].orders = made'[call'[d].id]
      BY <1>1, <1>2, <1>3, <1>6 DEF SnapshotInv, Frozen
    <2> QED BY <2>1, <2>2 DEF Frozen
  <1>9. Inserting'
    <2>1. \A d \in Caller : call'[d].at = "insert" => d # c /\ call[d].at = "insert" /\ call'[d] = call[d]
      BY <1>3, <1>6
    <2>2. \A d \in Caller : d # c /\ call[d].at = "insert" => call[d].id # id
      BY <1>1 DEF SnapshotInv, Inserting
    <2>3. \A d \in Caller : call'[d].at = "insert" => call'[d].id \notin DOMAIN idToSnapshotInfo'
      BY <1>5, <2>1, <2>2, Zenon DEF SnapshotInv, Inserting
    <2>4. \A d \in Caller : call'[d].at = "insert" /\ call'[d].exp > now' => <<call'[d].exp, call'[d].id>> \in tree'
      BY <1>2, <2>1 DEF SnapshotInv, Inserting
    <2>5. \A d, e \in Caller : call'[d].at = "insert" /\ call'[e].at = "insert" /\ call'[d].id = call'[e].id => d = e
      BY <2>1 DEF SnapshotInv, Inserting
    <2> QED BY <2>3, <2>4, <2>5 DEF Inserting
  <1>10. UnexpiredIsWatched'
    BY <1>1, <1>2, <1>4, <1>5, Zenon DEF SnapshotInv, Inserting, UnexpiredIsWatched
  <1> QED BY <1>7, <1>8, <1>9, <1>10 DEF SnapshotInv

\* Only what has expired is taken out of the tree, and then out of the map.
LEMMA PrunerKeeps ==
    ASSUME SnapshotInv, PrunerStep
    PROVE  SnapshotInv'
  <1>1. CASE Prune
    <2>1. UNCHANGED <<now, orders, idToSnapshotInfo, made, call>> /\ tree' = tree \ {e \in tree : e[1] <= now}
      BY <1>1 DEF Prune, dbVars, Expired
    <2>2. \A x \in Nat : \A i : x > now /\ <<x, i>> \in tree => <<x, i>> \in tree'
      BY <2>1 DEF SnapshotInv, SnapshotTypes
    <2>3. SnapshotTypes' /\ Frozen'
      BY <2>1 DEF SnapshotInv, SnapshotTypes, Frozen
    <2>4. Inserting'
      BY <2>1, <2>2 DEF SnapshotInv, SnapshotTypes, Inserting
    <2>5. UnexpiredIsWatched'
      BY <2>1, <2>2 DEF SnapshotInv, SnapshotTypes, UnexpiredIsWatched
    <2> QED BY <2>3, <2>4, <2>5 DEF SnapshotInv
  <1>2. CASE ForgetSnapshot
    <2>1. PICK id : idToSnapshotInfo' = [i \in DOMAIN idToSnapshotInfo \ {id} |-> idToSnapshotInfo[i]]
      BY <1>2, Zenon DEF ForgetSnapshot, Restrict
    <2>2. UNCHANGED <<now, orders, tree, made, call>>
      BY <1>2 DEF ForgetSnapshot, dbVars
    <2>3. /\ DOMAIN idToSnapshotInfo' \subseteq DOMAIN idToSnapshotInfo
          /\ \A i \in DOMAIN idToSnapshotInfo' : idToSnapshotInfo'[i] = idToSnapshotInfo[i]
          /\ idToSnapshotInfo' \in [DOMAIN idToSnapshotInfo' -> [orders : SUBSET Order, exp : Nat]]
      BY <2>1 DEF SnapshotInv, SnapshotTypes
    <2>4. SnapshotTypes' /\ Frozen'
      BY <2>2, <2>3 DEF SnapshotInv, SnapshotTypes, Frozen
    <2>5. Inserting'
      BY <2>2, <2>3 DEF SnapshotInv, Inserting
    <2>6. UnexpiredIsWatched'
      BY <2>2, <2>3 DEF SnapshotInv, UnexpiredIsWatched
    <2> QED BY <2>4, <2>5, <2>6 DEF SnapshotInv
  <1> QED BY <1>1, <1>2 DEF PrunerStep

-----------------------------------------------------------------------------
(* What the steps of OrderSync do, stream by stream.                       *)

\* Only stream s changes; x is what it changes to.
Writes(s, x) ==
    /\ x \in StreamState
    /\ x.msgs["provider"] \subseteq Request /\ x.msgs["requester"] \subseteq ResponseMessage
    /\ stream' = [stream EXCEPT ![s] = x]

\* What CloseHandler does to a stream.
LEMMA CloseHandlerWrites ==
    ASSUME SyncTypes, NEW s \in Stream, CloseHandler(s)
    PROVE  /\ handler' = [handler EXCEPT ![s] = HandlerClosed]
           /\ \E x : /\ Writes(s, x) /\ x.by = stream[s].by /\ x.msgs["provider"] = {}
                     /\ x.msgs["requester"] = stream[s].msgs["requester"]
  <1> DEFINE x == [stream[s] EXCEPT !.open = @ \ {"provider"}, !.msgs["provider"] = {}]
  <1>1. stream[s] \in StreamState /\ stream[s].msgs["requester"] \subseteq ResponseMessage
    BY DEF SyncTypes
  <1>2. x \in StreamState
    BY <1>1, Zenon DEF StreamState, Ends
  <1>3. x.by = stream[s].by /\ x.msgs["provider"] = {} /\ x.msgs["requester"] = stream[s].msgs["requester"]
    BY <1>1 DEF StreamState, Ends
  <1>4. stream' = [stream EXCEPT ![s] = x]
    BY <1>1, Zenon DEF CloseHandler, Closed, SyncTypes, StreamState
  <1>5. Writes(s, x)
    BY <1>1, <1>2, <1>3, <1>4 DEF Writes
  <1> QED BY <1>3, <1>5, Zenon DEF CloseHandler

\* What RefuseStream does.
LEMMA RefuseStreamWrites ==
    ASSUME SyncTypes, NEW s \in Stream, RefuseStream(s)
    PROVE  /\ handler' = [handler EXCEPT ![s] = HandlerClosed]
           /\ \E x : Writes(s, x) /\ x.by = stream[s].by /\ x.msgs["provider"] = {} /\ x.msgs["requester"] = {}
  <1> DEFINE x == [stream[s] EXCEPT !.open = {}, !.msgs = [e \in Ends |-> {}]]
  <1>1. stream[s] \in StreamState
    BY DEF SyncTypes
  <1>2. x \in StreamState /\ x.by = stream[s].by /\ x.msgs["provider"] = {} /\ x.msgs["requester"] = {}
    BY <1>1, Zenon DEF StreamState, Ends
  <1>3. stream' = [stream EXCEPT ![s] = x]
    BY <1>1, Zenon DEF RefuseStream, SyncTypes, StreamState
  <1>4. Writes(s, x)
    BY <1>2, <1>3, Zenon DEF Writes
  <1> QED BY <1>2, <1>4, Zenon DEF RefuseStream

\* A stream after a message has been received at one end.
ReceivedState(s, e, open) == [stream[s] EXCEPT !.msgs[e] = {}, !.open = open]

\* Its fields.
LEMMA ReceivedFields ==
    ASSUME SyncTypes, NEW s \in Stream, NEW e \in Ends, NEW open \in SUBSET Ends,
           NEW x, x = ReceivedState(s, e, open)
    PROVE  /\ x \in StreamState /\ x.by = stream[s].by
           /\ x.msgs[e] = {} /\ x.msgs[Other(e)] = stream[s].msgs[Other(e)]
           /\ x.msgs["provider"] \subseteq Request /\ x.msgs["requester"] \subseteq ResponseMessage
  <1>1. stream[s] \in StreamState
    BY DEF SyncTypes
  <1>2. x \in StreamState
    BY <1>1, Zenon DEF StreamState, Ends, ReceivedState
  <1>3. x.by = stream[s].by /\ x.msgs[e] = {} /\ x.msgs[Other(e)] = stream[s].msgs[Other(e)]
    BY <1>1 DEF StreamState, Ends, Other, ReceivedState
  <1>4. x.msgs["provider"] \subseteq Request /\ x.msgs["requester"] \subseteq ResponseMessage
    BY <1>3 DEF SyncTypes, Ends, Other
  <1> QED BY <1>2, <1>3, <1>4

\* The provider has received a request.
LEMMA ProviderReceived ==
    ASSUME SyncTypes, NEW s \in Stream, NEW open \in SUBSET Ends, NEW x, x = ReceivedState(s, "provider", open)
    PROVE  /\ x \in StreamState /\ x.by = stream[s].by
           /\ x.msgs["provider"] = {} /\ x.msgs["requester"] = stream[s].msgs["requester"]
           /\ x.msgs["provider"] \subseteq Request /\ x.msgs["requester"] \subseteq ResponseMessage
  <1>1. "provider" \in Ends /\ Other("provider") = "requester"
    BY DEF Ends, Other
  <1> QED BY <1>1, ReceivedFields

\* The requester has received a response.
LEMMA RequesterReceived ==
    ASSUME SyncTypes, NEW s \in Stream, NEW open \in SUBSET Ends, NEW x, x = ReceivedState(s, "requester", open)
    PROVE  /\ x \in StreamState /\ x.by = stream[s].by
           /\ x.msgs["requester"] = {} /\ x.msgs["provider"] = stream[s].msgs["provider"]
           /\ x.msgs["provider"] \subseteq Request /\ x.msgs["requester"] \subseteq ResponseMessage
  <1>1. "requester" \in Ends /\ Other("requester") = "provider"
    BY DEF Ends, Other
  <1> QED BY <1>1, ReceivedFields

\* A stream after a message has been sent to end f.
SentState(s, f, m, open) ==
    [stream[s] EXCEPT !.msgs[f] = IF f \in stream[s].open THEN {m} ELSE {}, !.open = open]

\* Its fields.
LEMMA SentFields ==
    ASSUME SyncTypes, NEW s \in Stream, NEW f \in Ends, NEW open \in SUBSET Ends, NEW m,
           f = "provider" => m \in Request, f = "requester" => m \in ResponseMessage
    PROVE  LET x == SentState(s, f, m, open)
           IN  /\ x \in StreamState /\ x.by = stream[s].by
               /\ x.msgs[f] \subseteq {m} /\ \A e \in Ends : e # f => x.msgs[e] = stream[s].msgs[e]
               /\ x.msgs["provider"] \subseteq Request /\ x.msgs["requester"] \subseteq ResponseMessage
  <1> DEFINE sent == IF f \in stream[s].open THEN {m} ELSE {}
             x == [stream[s] EXCEPT !.msgs[f] = sent, !.open = open]
  <1>1. stream[s] \in StreamState /\ m \in Message /\ sent \subseteq {m}
    BY DEF SyncTypes, Message, Ends
  <1>2. SentState(s, f, m, open) = x
    BY DEF SentState
  <1> HIDE DEF sent
  <1>3. x \in StreamState
    BY <1>1, Zenon DEF StreamState
  <1>4. x.by = stream[s].by /\ x.msgs[f] = sent /\ \A e \in Ends : e # f => x.msgs[e] = stream[s].msgs[e]
    BY <1>1 DEF StreamState
  <1>5. x.msgs["provider"] \subseteq Request /\ x.msgs["requester"] \subseteq ResponseMessage
    BY <1>1, <1>4 DEF SyncTypes, Ends
  <1> QED BY <1>1, <1>2, <1>3, <1>4, <1>5

\* A stream that has just been opened.
OpenedState(by, M) == [by |-> by, open |-> Ends, msgs |-> [e \in Ends |-> IF e = "provider" THEN M ELSE {}]]

\* Its fields.
LEMMA OpenedFields ==
    ASSUME NEW by \in {"requester", "foreign"}, NEW M \in SUBSET Request
    PROVE  LET x == OpenedState(by, M)
           IN  x \in StreamState /\ x.by = by /\ x.msgs["provider"] = M /\ x.msgs["requester"] = {}
  BY DEF StreamState, Ends, Message, OpenedState

\* A step of a handler keeps the types.
LEMMA HandlerTypes ==
    ASSUME SyncTypes, NEW s \in Stream, NEW x, Writes(s, x), NEW h \in HandlerState,
           handler' = [handler EXCEPT ![s] = h], service' = service
    PROVE  SyncTypes'
  BY DEF SyncTypes, Writes

\* And so does a step of the requester.
LEMMA ServiceTypes ==
    ASSUME SyncTypes, NEW s \in Stream, NEW x, Writes(s, x), handler' \in [Stream -> HandlerState],
           service' \in [at : {"peers", "send", "await"}, synced : SUBSET Peers, sync : Sync],
           service'.at # "peers" => service'.sync.stream \in Stream
    PROVE  SyncTypes'
  <1>1. /\ stream' \in [Stream -> StreamState]
        /\ \A t \in Stream : stream'[t] = IF t = s THEN x ELSE stream[t]
    BY DEF SyncTypes, Writes
  <1>2. \A t \in Stream : stream'[t].msgs["provider"] \subseteq Request /\ stream'[t].msgs["requester"] \subseteq ResponseMessage
    BY <1>1 DEF SyncTypes, Writes
  <1> QED BY <1>1, <1>2 DEF SyncTypes

\* What is sent and received has the right type.
LEMMA MessageTypes ==
    ASSUME SnapshotInv, SyncTypes, NEW s \in Stream
    PROVE  /\ call[s].at = "query" => Response(s) \in ResponseMessage
           /\ HandlerClosed \in HandlerState
           /\ handler[s] \in HandlerState
           /\ FirstRequest \in Request
  <1>1. handler[s].page \in Nat /\ call[s].id \in Nat /\ call[s].orders \subseteq Order
    BY DEF SyncTypes, HandlerState, SnapshotInv, SnapshotTypes, Stream
  <1>2. (Found(s) = {}) \in BOOLEAN /\ Found(s) \cap Matching \subseteq Order
    BY <1>1 DEF Found, Page
  <1>3. Response(s) \in ResponseMessage
    BY <1>1, <1>2 DEF Response, ResponseMessage
  <1>4. HandlerClosed \in HandlerState /\ FirstRequest \in Request
    BY DEF HandlerClosed, NoHandler, HandlerState, NoID, FirstRequest, Request
  <1>5. handler[s] \in HandlerState
    BY DEF SyncTypes
  <1> QED BY <1>3, <1>4, <1>5

-----------------------------------------------------------------------------
(* The steps of OrderSync.                                                 *)

\* Snapshots are made, and never change.
Grows ==
    /\ Len(made) \in Nat /\ Len(made') \in Nat /\ Len(made) <= Len(made')
    /\ \A i \in 1..Len(made) : made'[i] = made[i]

\* Nothing happens to what has been received.
LEMMA GatheredSame ==
    ASSUME Gathered, Grows, service' = service
    PROVE  Gathered'
  <1>1. \A i \in 0..Len(made) : i \in 0..Len(made') /\ (i # NoID => made'[i] = made[i])
    BY DEF Grows, NoID
  <1> QED BY <1>1 DEF Gathered

\* What is true of a request or response stays true.
LEMMA AnswersSame ==
    ASSUME Gathered, Grows, service' = service
    PROVE  /\ \A p : Reaches(service.sync, p) => Reaches(service.sync, p)'
           /\ \A m : Answers(service.sync, m) => Answers(service.sync, m)'
  <1>1. \A i \in 1..Len(made) : i \in 1..Len(made') /\ made'[i] = made[i]
    BY DEF Grows
  <1>2. service.sync.id # NoID => service.sync.id \in 1..Len(made)
    <2>1. service.sync.id \in 0..Len(made)
      BY DEF Gathered
    <2> QED BY <2>1 DEF NoID
  <1>3. \A p : Reaches(service.sync, p) => Reaches(service.sync, p)'
    BY <1>1, <1>2 DEF Reaches
  <1>4. \A m : Answers(service.sync, m) => Answers(service.sync, m)'
    BY <1>1, <1>3 DEF Answers
  <1> QED BY <1>3, <1>4

\* Something happens elsewhere.
LEMMA ExchangeSame ==
    ASSUME Gathered, Exchange, Grows, service' = service,
           service.at # "peers" => /\ stream'[service.sync.stream] = stream[service.sync.stream]
                                   /\ handler'[service.sync.stream] = handler[service.sync.stream]
    PROVE  Exchange'
  <1>1. /\ \A p : Reaches(service.sync, p) => Reaches(service.sync, p)'
        /\ \A m : Answers(service.sync, m) => Answers(service.sync, m)'
    BY AnswersSame
  <1> QED BY <1>1, Zenon DEF Exchange, Handling

\* The handler of the stream of the sync makes a step.
LEMMA ExchangeHandles ==
    ASSUME SyncTypes, Gathered, Exchange, Grows, service' = service, service.at # "peers",
           NEW s \in Stream, s = service.sync.stream, NEW x, Writes(s, x), NEW h,
           handler' = [handler EXCEPT ![s] = h], x.by = stream[s].by,
           x.msgs["provider"] \subseteq stream[s].msgs["provider"],
           \A m \in x.msgs["requester"] : m \in stream[s].msgs["requester"] \/ Answers(service.sync, m),
           x.msgs["provider"] = {} \/ x.msgs["requester"] = {},
           h.at \in {"call", "paging"} => /\ h.id = service.sync.id /\ Reaches(service.sync, h.page)
                                          /\ x.msgs["provider"] = {} /\ x.msgs["requester"] = {},
           service.at = "send" => h.at \notin {"call", "paging"} /\ x.msgs["requester"] = {}
    PROVE  Exchange'
  <1>1. /\ \A p : Reaches(service.sync, p) => Reaches(service.sync, p)'
        /\ \A m : Answers(service.sync, m) => Answers(service.sync, m)'
    BY AnswersSame
  <1>2. stream'[s] = x /\ handler'[s] = h
    BY DEF SyncTypes, Writes
  <1>3. Handling(s)' <=> h.at \in {"call", "paging"}
    BY <1>2 DEF Handling
  <1>4. /\ ~service.sync.complete /\ stream[s].by = "requester"
        /\ \A m \in stream[s].msgs["provider"] : m.id = service.sync.id /\ m.page = service.sync.page
        /\ \A m \in stream[s].msgs["requester"] : Answers(service.sync, m)
        /\ service.at = "send" => stream[s].msgs["provider"] = {}
    BY Zenon DEF Exchange
  <1>5. \A m \in x.msgs["requester"] : Answers(service.sync, m)'
    BY <1>1, <1>4, Zenon
  <1>6. h.at \in {"call", "paging"} => Reaches(service.sync, h.page)'
    BY <1>1
  <1> QED BY <1>2, <1>3, <1>4, <1>5, <1>6, Zenon DEF Exchange

\* The handler of any stream makes a step that is not about a page.
LEMMA ExchangeCloses ==
    ASSUME SyncTypes, Gathered, Exchange, Grows, service' = service,
           NEW s \in Stream, NEW x, Writes(s, x), NEW h, handler' = [handler EXCEPT ![s] = h],
           stream[s].by = "none" \/ x.by = stream[s].by,
           x.msgs["provider"] \subseteq stream[s].msgs["provider"] \/ stream[s].by = "none",
           x.msgs["requester"] \subseteq stream[s].msgs["requester"],
           h.at \notin {"call", "paging"}
    PROVE  Exchange'
  <1>1. CASE service.at # "peers" /\ s = service.sync.stream
    <2>1. /\ stream[s].by = "requester"
          /\ stream[s].msgs["provider"] = {} \/ stream[s].msgs["requester"] = {}
          /\ service.at = "send" => stream[s].msgs["requester"] = {}
      BY <1>1, Zenon DEF Exchange
    <2>2. x.by = stream[s].by /\ x.msgs["provider"] \subseteq stream[s].msgs["provider"]
      BY <2>1
    <2> QED BY <1>1, <2>1, <2>2, ExchangeHandles, Zenon
  <1>2. CASE service.at = "peers" \/ s # service.sync.stream
    <2>1. service.at # "peers" => service.sync.stream \in Stream
      BY DEF SyncTypes
    <2>2. \A t \in Stream : t # s => stream'[t] = stream[t] /\ handler'[t] = handler[t]
      BY DEF SyncTypes, Writes
    <2> QED BY <1>2, <2>1, <2>2, ExchangeSame
  <1> QED BY <1>1, <1>2

\* The handlers and calls of the other streams.
LEMMA PagingSame ==
    ASSUME SyncTypes, SnapshotTypes, Paging, NEW s \in Stream, NEW h, handler' = [handler EXCEPT ![s] = h],
           \A t \in Stream : t # s => call'[t] = call[t],
           h.at = "paging" /\ call'[s].at \in {"insert", "query"} =>
               call'[s].page = h.page /\ (h.id # NoID => call'[s].id = h.id)
    PROVE  Paging'
  <1>1. \A t \in Stream : handler'[t] = IF t = s THEN h ELSE handler[t]
    BY DEF SyncTypes
  <1> QED BY <1>1 DEF Paging

\* A node that runs this code goes on sending valid requests.
LEMMA ValidSame ==
    ASSUME SyncTypes, ValidRequests, NEW s \in Stream, NEW x, Writes(s, x), penalised' = penalised,
           \/ x.by = "foreign"
           \/ x.by = stream[s].by /\ x.msgs["provider"] \subseteq stream[s].msgs["provider"]
           \/ \A m \in x.msgs["provider"] : m.type = "request" /\ m.supported
    PROVE  ValidRequests'
  <1>1. \A t \in Stream : stream'[t] = IF t = s THEN x ELSE stream[t]
    BY DEF SyncTypes, Writes
  <1>2. \A m \in x.msgs["provider"] : x.by # "foreign" => m.type = "request" /\ m.supported
    BY DEF ValidRequests
  <1>3. \A t \in Stream : stream'[t].by # "foreign" => \A m \in stream'[t].msgs["provider"] : m.type = "request" /\ m.supported
    BY <1>1, <1>2 DEF ValidRequests
  <1> QED BY <1>3 DEF ValidRequests

\* No snapshot is made.
LEMMA GrowsSame ==
    ASSUME SnapshotTypes, made' = made
    PROVE  Grows
  BY DEF SnapshotTypes, Grows

OrderSyncInv == SnapshotInv /\ SyncInv /\ ValidRequests

\* Steps of the snapshots alone.
LEMMA SnapshotStepKeepsSync ==
    ASSUME OrderSyncInv, UNCHANGED syncVars, Grows,
           \A s \in Stream : call'[s].at \in {"insert", "query"} =>
              /\ call[s].at \in {"insert", "query"}
              /\ call'[s].page = call[s].page /\ call'[s].id = call[s].id
    PROVE  SyncInv' /\ ValidRequests'
  <1>1. UNCHANGED <<stream, handler, service, penalised>>
    BY DEF syncVars
  <1>2. SyncTypes' /\ ValidRequests'
    BY <1>1 DEF OrderSyncInv, SyncInv, SyncTypes, ValidRequests
  <1>3. Gathered'
    BY <1>1, GatheredSame DEF OrderSyncInv, SyncInv
  <1>4. Exchange'
    BY <1>1, ExchangeSame DEF OrderSyncInv, SyncInv
  <1>5. Paging'
    BY <1>1 DEF OrderSyncInv, SyncInv, Paging
  <1> QED BY <1>2, <1>3, <1>4, <1>5 DEF SyncInv

\* A handler that closes its end, whatever it was doing.
LEMMA ClosesKeeps ==
    ASSUME OrderSyncInv, NEW s \in Stream, CloseHandler(s) \/ RefuseStream(s), service' = service, made' = made,
           \A t \in Stream : t # s => call'[t] = call[t]
    PROVE  SyncInv' /\ (penalised' = penalised => ValidRequests')
  <1>1. handler' = [handler EXCEPT ![s] = HandlerClosed]
    BY CloseHandlerWrites, RefuseStreamWrites DEF OrderSyncInv, SyncInv
  <1>2. PICK x : /\ Writes(s, x) /\ x.by = stream[s].by
                 /\ x.msgs["provider"] \subseteq stream[s].msgs["provider"]
                 /\ x.msgs["requester"] \subseteq stream[s].msgs["requester"]
    <2>1. CASE CloseHandler(s)
      <3>1. PICK x : /\ Writes(s, x) /\ x.by = stream[s].by /\ x.msgs["provider"] = {}
                     /\ x.msgs["requester"] = stream[s].msgs["requester"]
        BY <2>1, CloseHandlerWrites DEF OrderSyncInv, SyncInv
      <3> QED BY <3>1
    <2>2. CASE RefuseStream(s)
      <3>1. PICK x : Writes(s, x) /\ x.by = stream[s].by /\ x.msgs["provider"] = {} /\ x.msgs["requester"] = {}
        BY <2>2, RefuseStreamWrites, Zenon DEF OrderSyncInv, SyncInv
      <3> QED BY <3>1
    <2> QED BY <2>1, <2>2
  <1>3. HandlerClosed \in HandlerState /\ HandlerClosed.at = "closed"
    BY DEF HandlerClosed, HandlerState, NoHandler, NoID
  <1>4. Grows
    BY GrowsSame DEF OrderSyncInv, SnapshotInv
  <1>5. SyncTypes'
    BY <1>1, <1>2, <1>3, HandlerTypes, Zenon DEF OrderSyncInv, SyncInv
  <1>6. Gathered'
    BY <1>4, GatheredSame DEF OrderSyncInv, SyncInv
  <1>7. Exchange'
    BY <1>1, <1>2, <1>3, <1>4, ExchangeCloses, Zenon DEF OrderSyncInv, SyncInv
  <1>8. Paging'
    BY <1>1, <1>3, PagingSame, Zenon DEF OrderSyncInv, SyncInv, SnapshotInv
  <1>9. penalised' = penalised => ValidRequests'
    BY <1>2, ValidSame DEF OrderSyncInv, SyncInv
  <1> QED BY <1>5, <1>6, <1>7, <1>8, <1>9 DEF SyncInv

\* The same, when the message that was received has been scored.
LEMMA PenaliseKeeps ==
    ASSUME OrderSyncInv, NEW s \in Stream, CloseHandler(s), Penalise(stream[s].by),
           NEW m \in stream[s].msgs["provider"], m.type # "request" \/ ~m.supported
    PROVE  ValidRequests'
  <1>1. stream[s].by = "foreign" /\ penalised' \subseteq {"foreign"}
    BY Zenon DEF OrderSyncInv, ValidRequests, Penalise
  <1>2. PICK x : /\ Writes(s, x) /\ x.by = stream[s].by
    BY CloseHandlerWrites DEF OrderSyncInv, SyncInv
  <1>3. \A t \in Stream : stream'[t] = IF t = s THEN x ELSE stream[t]
    BY <1>2 DEF SyncTypes, Writes, OrderSyncInv, SyncInv
  <1>4. \A t \in Stream : stream'[t].by # "foreign" => \A n \in stream'[t].msgs["provider"] : n.type = "request" /\ n.supported
    BY <1>1, <1>2, <1>3 DEF OrderSyncInv, ValidRequests
  <1> QED BY <1>1, <1>4 DEF ValidRequests

\* A foreign stream is opened.
LEMMA ForeignRequestKeeps ==
    ASSUME OrderSyncInv, NEW s \in Stream, ForeignRequest(s)
    PROVE  SyncInv' /\ ValidRequests'
  <1> DEFINE h == [handler[s] EXCEPT !.at = "accept"]
  <1>1. /\ stream[s].by = "none" /\ handler' = [handler EXCEPT ![s] = h]
        /\ service' = service /\ made' = made /\ call' = call /\ penalised' = penalised
    BY DEF ForeignRequest, snapshotVars
  <1>2. h \in HandlerState /\ h.at = "accept"
    BY DEF OrderSyncInv, SyncInv, SyncTypes, HandlerState
  <1>3. PICK m \in {[FirstRequest EXCEPT !.type = "response"], [FirstRequest EXCEPT !.supported = FALSE],
                    [FirstRequest EXCEPT !.parses = FALSE], [FirstRequest EXCEPT !.id = 1]} :
            stream' = [stream EXCEPT ![s] = OpenedState("foreign", {m})]
    BY Zenon DEF ForeignRequest, OpenedState
  <1>4. m \in Request
    <2>1. FirstRequest \in Request
      BY DEF FirstRequest, Request, NoID
    <2>2. [FirstRequest EXCEPT !.type = "response"] \in Request /\ [FirstRequest EXCEPT !.supported = FALSE] \in Request
      BY <2>1, Zenon DEF Request
    <2>3. [FirstRequest EXCEPT !.parses = FALSE] \in Request /\ [FirstRequest EXCEPT !.id = 1] \in Request
      BY <2>1, Zenon DEF Request
    <2> QED BY <1>3, <2>2, <2>3, Zenon
  <1> DEFINE x == OpenedState("foreign", {m})
  <1>5. Writes(s, x) /\ x.by = "foreign" /\ x.msgs["requester"] = {}
    <2>1. x \in StreamState /\ x.by = "foreign" /\ x.msgs["provider"] = {m} /\ x.msgs["requester"] = {}
      BY <1>4, OpenedFields
    <2> QED BY <1>3, <1>4, <2>1, Zenon DEF Writes
  <1> HIDE DEF x
  <1>6. Grows
    BY <1>1, GrowsSame DEF OrderSyncInv, SnapshotInv
  <1> HIDE DEF h
  <1>7. SyncTypes'
    BY <1>1, <1>2, <1>5, HandlerTypes, Zenon DEF OrderSyncInv, SyncInv
  <1>8. Gathered'
    BY <1>1, <1>6, GatheredSame DEF OrderSyncInv, SyncInv
  <1>9. Exchange'
    BY <1>1, <1>2, <1>5, <1>6, ExchangeCloses, Zenon DEF OrderSyncInv, SyncInv
  <1>10. Paging'
    BY <1>1, <1>2, PagingSame, Zenon DEF OrderSyncInv, SyncInv, SnapshotInv
  <1>11. ValidRequests'
    BY <1>1, <1>5, ValidSame DEF OrderSyncInv, SyncInv
  <1> QED BY <1>7, <1>8, <1>9, <1>10, <1>11 DEF SyncInv

\* waitForRequest.
LEMMA ReceiveRequestKeeps ==
    ASSUME OrderSyncInv, NEW s \in Stream, ReceiveRequest(s)
    PROVE  SyncInv' /\ ValidRequests'
  <1>1. PICK m \in stream[s].msgs["provider"] :
          \/ CloseHandler(s) /\ Penalise(stream[s].by) /\ (m.type # "request" \/ ~m.supported)
          \/ CloseHandler(s) /\ penalised' = penalised
          \/ /\ stream' = Received(s, "provider")
             /\ handler' = [handler EXCEPT ![s] = [handler[s] EXCEPT !.at = "call", !.page = m.page, !.id = m.id]]
             /\ penalised' = penalised
    BY Zenon DEF ReceiveRequest
  <1>2. service' = service /\ made' = made /\ call' = call
    BY DEF ReceiveRequest, snapshotVars
  <1>3. CASE CloseHandler(s)
    <2>1. SyncInv' /\ (penalised' = penalised => ValidRequests')
      BY <1>2, <1>3, ClosesKeeps
    <2>2. penalised' # penalised => ValidRequests'
      BY <1>1, <1>3, PenaliseKeeps DEF ReceiveRequest
    <2> QED BY <2>1, <2>2
  <1>4. CASE /\ stream' = Received(s, "provider")
             /\ handler' = [handler EXCEPT ![s] = [handler[s] EXCEPT !.at = "call", !.page = m.page, !.id = m.id]]
             /\ penalised' = penalised
    <2> DEFINE h == [handler[s] EXCEPT !.at = "call", !.page = m.page, !.id = m.id]
    <2>1. m \in Request /\ stream[s] \in StreamState /\ handler[s] \in HandlerState
      BY DEF OrderSyncInv, SyncInv, SyncTypes
    <2>2. h \in HandlerState /\ h.at = "call" /\ h.page = m.page /\ h.id = m.id /\ m.page \in Nat
      BY <2>1, Zenon DEF HandlerState, Request
    <2> DEFINE x == ReceivedState(s, "provider", stream[s].open)
    <2>3. /\ Writes(s, x) /\ x.by = stream[s].by /\ x.msgs["provider"] = {}
          /\ x.msgs["requester"] = stream[s].msgs["requester"]
      <3>1. stream[s].open \in SUBSET Ends
        BY <2>1 DEF StreamState
      <3>2. stream' = [stream EXCEPT ![s] = x]
        BY <1>4, <2>1, Zenon DEF Received, ReceivedState, StreamState, OrderSyncInv, SyncInv, SyncTypes
      <3>3. /\ x \in StreamState /\ x.by = stream[s].by
            /\ x.msgs["provider"] = {} /\ x.msgs["requester"] = stream[s].msgs["requester"]
            /\ x.msgs["provider"] \subseteq Request /\ x.msgs["requester"] \subseteq ResponseMessage
        <4>1. SyncTypes /\ x = ReceivedState(s, "provider", stream[s].open)
          BY DEF OrderSyncInv, SyncInv
        <4> HIDE DEF x
        <4> QED BY <3>1, <4>1, ProviderReceived
      <3> QED BY <3>2, <3>3 DEF Writes
    <2> HIDE DEF x
    <2>4. Grows
      BY <1>2, GrowsSame DEF OrderSyncInv, SnapshotInv
    <2>5. handler' = [handler EXCEPT ![s] = h]
      BY <1>4
    <2> HIDE DEF h
    <2>6. SyncTypes'
      BY <1>2, <2>2, <2>3, <2>5, HandlerTypes, Zenon DEF OrderSyncInv, SyncInv
    <2>7. Gathered'
      BY <1>2, <2>4, GatheredSame DEF OrderSyncInv, SyncInv
    <2>8. Exchange'
      <3>1. CASE service.at # "peers" /\ s = service.sync.stream
        <4>1. /\ m.id = service.sync.id /\ m.page = service.sync.page
              /\ stream[s].msgs["requester"] = {} /\ service.at # "send"
          BY <3>1, Zenon DEF OrderSyncInv, SyncInv, Exchange
        <4>2. Reaches(service.sync, h.page)
          <5>1. Between(made[service.sync.id], h.page, h.page) = {}
            BY <2>2, BetweenOne
          <5> QED BY <2>2, <4>1, <5>1 DEF Reaches
        <4>3. x.msgs["requester"] = {} /\ x.msgs["provider"] = {}
          BY <2>3, <4>1
        <4>4. h.id = service.sync.id /\ service.at # "send"
          BY <2>2, <4>1
        <4>5. SyncTypes /\ Gathered /\ Exchange
          BY DEF OrderSyncInv, SyncInv
        <4> QED BY <1>2, <2>3, <2>4, <2>5, <3>1, <4>2, <4>3, <4>4, <4>5, ExchangeHandles, Zenon
      <3>2. CASE service.at = "peers" \/ s # service.sync.stream
        <4>1. service.at # "peers" => service.sync.stream \in Stream
          BY DEF OrderSyncInv, SyncInv, SyncTypes
        <4>2. \A t \in Stream : t # s => stream'[t] = stream[t] /\ handler'[t] = handler[t]
          BY <2>3, <2>5 DEF OrderSyncInv, SyncInv, SyncTypes, Writes
        <4> QED BY <1>2, <2>4, <3>2, <4>1, <4>2, ExchangeSame DEF OrderSyncInv, SyncInv
      <3> QED BY <3>1, <3>2
    <2>9. Paging'
      BY <1>2, <2>2, <2>5, PagingSame, Zenon DEF OrderSyncInv, SyncInv, SnapshotInv
    <2>10. ValidRequests'
      BY <1>4, <2>3, ValidSame DEF OrderSyncInv, SyncInv
    <2> QED BY <2>6, <2>7, <2>8, <2>9, <2>10 DEF SyncInv
  <1> QED BY <1>1, <1>3, <1>4

\* A step of a handler that works on a page.
LEMMA PageStepKeeps ==
    ASSUME OrderSyncInv, Grows, NEW s \in Stream, Handling(s), NEW x, Writes(s, x), NEW h \in HandlerState,
           handler' = [handler EXCEPT ![s] = h], service' = service, penalised' = penalised,
           x.by = stream[s].by, x.msgs["provider"] = stream[s].msgs["provider"],
           service.at # "peers" /\ s = service.sync.stream =>
              /\ \A m \in x.msgs["requester"] : Answers(service.sync, m)
              /\ h.at \in {"call", "paging"} =>
                    h.id = handler[s].id /\ Reaches(service.sync, h.page) /\ x.msgs["requester"] = {},
           \A t \in Stream : t # s => call'[t] = call[t],
           h.at = "paging" /\ call'[s].at \in {"insert", "query"} =>
               call'[s].page = h.page /\ (h.id # NoID => call'[s].id = h.id)
    PROVE  SyncInv' /\ ValidRequests'
  <1>1. SyncTypes'
    BY HandlerTypes, Zenon DEF OrderSyncInv, SyncInv
  <1>2. Gathered'
    BY GatheredSame DEF OrderSyncInv, SyncInv
  <1>3. Exchange'
    <2>1. CASE service.at # "peers" /\ s = service.sync.stream
      <3>1. /\ handler[s].id = service.sync.id
            /\ stream[s].msgs["provider"] = {} /\ service.at # "send"
        BY <2>1, Zenon DEF OrderSyncInv, SyncInv, Exchange
      <3>2. SyncTypes /\ Gathered /\ Exchange
        BY DEF OrderSyncInv, SyncInv
      <3>3. \A m \in x.msgs["requester"] : m \in stream[s].msgs["requester"] \/ Answers(service.sync, m)
        BY <2>1
      <3>4. x.msgs["provider"] = {}
        BY <3>1
      <3>5. h.at \in {"call", "paging"} => /\ h.id = service.sync.id /\ Reaches(service.sync, h.page)
                                           /\ x.msgs["provider"] = {} /\ x.msgs["requester"] = {}
        BY <2>1, <3>1, <3>4, Zenon
      <3> QED BY <2>1, <3>1, <3>2, <3>3, <3>4, <3>5, ExchangeHandles, Zenon
    <2>2. CASE service.at = "peers" \/ s # service.sync.stream
      <3>1. service.at # "peers" => service.sync.stream \in Stream
        BY Zenon DEF OrderSyncInv, SyncInv, SyncTypes
      <3>2. \A t \in Stream : t # s => stream'[t] = stream[t] /\ handler'[t] = handler[t]
        BY Zenon DEF OrderSyncInv, SyncInv, SyncTypes, Writes
      <3> QED BY <2>2, <3>1, <3>2, ExchangeSame, Zenon DEF OrderSyncInv, SyncInv
    <2> QED BY <2>1, <2>2
  <1>4. Paging'
    BY PagingSame, Zenon DEF OrderSyncInv, SyncInv, SnapshotInv
  <1>5. ValidRequests'
    BY ValidSame, Zenon DEF OrderSyncInv, SyncInv
  <1> QED BY <1>1, <1>2, <1>3, <1>4, <1>5 DEF SyncInv

\* What GetOrders does to the call and to the list of snapshots.
LEMMA GetOrdersDoes ==
    ASSUME SnapshotInv, NEW c \in Caller, NEW page \in Nat, NEW id, GetOrders(c, page, id)
    PROVE  /\ Grows
           /\ \A d \in Caller : d # c => call'[d] = call[d]
           /\ call'[c].at \in {"insert", "query"} => call'[c].page = page /\ (id # NoID => call'[c].id = id)
  <1>1. call \in [Caller -> [at : {"idle", "failed", "insert", "query"}, page : Nat, id : Nat,
                            orders : SUBSET Order, exp : Nat]] /\ made \in Seq(SUBSET Order) /\ orders \in SUBSET Order
    BY DEF SnapshotInv, SnapshotTypes
  <1>2. CASE id = NoID /\ NewSnapshot(c, page)
    <2>1. Grows
      <3>1. made' = Append(made, orders)
        BY <1>2 DEF NewSnapshot
      <3>2. Len(made) \in Nat /\ Len(made') = Len(made) + 1 /\ \A i \in 1..Len(made) : made'[i] = made[i]
        BY <1>1, <3>1
      <3> QED BY <3>2 DEF Grows
    <2>2. /\ \A d \in Caller : d # c => call'[d] = call[d]
          /\ call'[c].page = page
      BY <1>1, <1>2 DEF NewSnapshot
    <2> QED BY <1>2, <2>1, <2>2
  <1>3. CASE id # NoID /\ RenewSnapshot(c, page, id)
    <2>1. Grows
      BY <1>3, GrowsSame DEF RenewSnapshot, SnapshotInv
    <2>2. /\ \A d \in Caller : d # c => call'[d] = call[d]
          /\ call'[c].page = page /\ call'[c].id = id
      BY <1>1, <1>3 DEF RenewSnapshot
    <2> QED BY <2>1, <2>2
  <1>4. CASE SnapshotFails(c, id)
    <2>1. Grows
      BY <1>4, GrowsSame DEF SnapshotFails, SnapshotInv
    <2>2. /\ \A d \in Caller : d # c => call'[d] = call[d]
          /\ call'[c].at = "failed"
      BY <1>1, <1>4 DEF SnapshotFails, Failed, Idle
    <2> QED BY <2>1, <2>2
  <1> QED BY <1>2, <1>3, <1>4 DEF GetOrders

\* A page is asked for.
LEMMA AskPageKeeps ==
    ASSUME OrderSyncInv, NEW s \in Stream, AskPage(s)
    PROVE  SyncInv' /\ ValidRequests'
  <1> DEFINE h == [handler[s] EXCEPT !.at = "paging"]
             x == stream[s]
  <1>1. /\ handler[s].at = "call" /\ GetOrders(s, handler[s].page, handler[s].id)
        /\ handler' = [handler EXCEPT ![s] = h]
        /\ service' = service /\ stream' = stream /\ penalised' = penalised
    BY DEF AskPage
  <1>2. handler[s] \in HandlerState /\ Handling(s)
    BY <1>1 DEF OrderSyncInv, SyncInv, SyncTypes, Handling
  <1>3. h \in HandlerState /\ h.at = "paging" /\ h.page = handler[s].page /\ h.id = handler[s].id /\ h.page \in Nat
    BY <1>2 DEF HandlerState
  <1>4. Writes(s, x)
    BY <1>1 DEF OrderSyncInv, SyncInv, SyncTypes, Writes
  <1>5. /\ Grows
        /\ \A t \in Stream : t # s => call'[t] = call[t]
        /\ call'[s].at \in {"insert", "query"} => call'[s].page = h.page /\ (h.id # NoID => call'[s].id = h.id)
    BY <1>1, <1>3, GetOrdersDoes DEF OrderSyncInv, Stream
  <1>6. service.at # "peers" /\ s = service.sync.stream =>
           Reaches(service.sync, handler[s].page) /\ stream[s].msgs["requester"] = {}
    BY <1>2, Zenon DEF OrderSyncInv, SyncInv, Exchange
  <1> HIDE DEF h
  <1> QED BY <1>1, <1>2, <1>3, <1>4, <1>5, <1>6, PageStepKeeps, Zenon

\* The page that has been found is the page the handler is at, of the snapshot
\* that the requester knows.
LEMMA FoundIsPage ==
    ASSUME OrderSyncInv, NEW s \in Stream, handler[s].at = "paging", call[s].at = "query"
    PROVE  /\ call[s].id \in 1..Len(made) /\ Found(s) = Page(made[call[s].id], handler[s].page)
           /\ handler[s].page \in Nat /\ Handling(s)
           /\ service.at # "peers" /\ s = service.sync.stream =>
                 /\ service.sync.id # NoID => call[s].id = service.sync.id
                 /\ Reaches(service.sync, handler[s].page)
                 /\ service.sync.page \in Nat
                 /\ stream[s].msgs["requester"] = {}
  <1>1. call[s].id \in 1..Len(made) /\ call[s].orders = made[call[s].id]
    BY DEF OrderSyncInv, SnapshotInv, Frozen, Stream
  <1>2. call[s].page = handler[s].page /\ (handler[s].id # NoID => call[s].id = handler[s].id)
    BY DEF OrderSyncInv, SyncInv, Paging
  <1>3. handler[s].page \in Nat /\ Handling(s)
    BY DEF OrderSyncInv, SyncInv, SyncTypes, HandlerState, Handling
  <1>4. service.at # "peers" /\ s = service.sync.stream =>
           /\ handler[s].id = service.sync.id /\ Reaches(service.sync, handler[s].page)
           /\ stream[s].msgs["requester"] = {}
    BY <1>3, Zenon DEF OrderSyncInv, SyncInv, Exchange
  <1>5. service.sync.page \in Nat
    BY DEF OrderSyncInv, SyncInv, SyncTypes, Sync
  <1> QED BY <1>1, <1>2, <1>3, <1>4, <1>5, Zenon DEF Found

\* A page without a match is skipped.
LEMMA SkipPageKeeps ==
    ASSUME OrderSyncInv, NEW s \in Stream, handler[s].at = "paging", call[s].at = "query",
           Found(s) \cap Matching = {}, handler' = [handler EXCEPT ![s].at = "call", ![s].page = @ + 1],
           UNCHANGED <<stream, service, penalised, made>>, call' = [call EXCEPT ![s] = Idle]
    PROVE  SyncInv' /\ ValidRequests'
  <1> DEFINE p == handler[s].page
             h == [handler[s] EXCEPT !.at = "call", !.page = p + 1]
             x == stream[s]
  <1>1. handler[s] \in HandlerState /\ handler' = [handler EXCEPT ![s] = h]
    BY DEF OrderSyncInv, SyncInv, SyncTypes, HandlerState
  <1>2. p \in Nat /\ h \in HandlerState /\ h.at = "call" /\ h.page = p + 1 /\ h.id = handler[s].id
    <2>1. p \in Nat
      BY <1>1 DEF HandlerState
    <2> DEFINE q == p + 1
    <2>2. q \in Nat
      BY <2>1
    <2> HIDE DEF p, q
    <2>3. [handler[s] EXCEPT !.at = "call", !.page = q] \in HandlerState
      BY <1>1, <2>2, Zenon DEF HandlerState
    <2>4. [handler[s] EXCEPT !.at = "call", !.page = q].at = "call"
          /\ [handler[s] EXCEPT !.at = "call", !.page = q].page = q
          /\ [handler[s] EXCEPT !.at = "call", !.page = q].id = handler[s].id
      BY <1>1 DEF HandlerState
    <2> QED BY <2>1, <2>3, <2>4 DEF q
  <1>3. Writes(s, x)
    BY DEF OrderSyncInv, SyncInv, SyncTypes, Writes
  <1>4. Grows
    BY GrowsSame DEF OrderSyncInv, SnapshotInv
  <1>5. \A t \in Stream : t # s => call'[t] = call[t]
    BY DEF OrderSyncInv, SnapshotInv, SnapshotTypes, Stream
  <1>6. service.at # "peers" /\ s = service.sync.stream =>
           Reaches(service.sync, h.page) /\ stream[s].msgs["requester"] = {}
    <2> SUFFICES ASSUME service.at # "peers", s = service.sync.stream
                 PROVE  Reaches(service.sync, h.page) /\ stream[s].msgs["requester"] = {}
      OBVIOUS
    <2> DEFINE y == service.sync
               S == made[y.id]
    <2>1. /\ Reaches(y, p) /\ y.page \in Nat /\ stream[s].msgs["requester"] = {}
          /\ y.id # NoID => Found(s) = Page(S, p)
      BY FoundIsPage
    <2>2. ASSUME y.id # NoID PROVE y.page <= p + 1 /\ Matching \cap Between(S, y.page, p + 1) = {}
      <3>1. y.page <= p /\ Matching \cap Between(S, y.page, p) = {}
        BY <2>1, <2>2 DEF Reaches
      <3>2. /\ y.page <= p + 1
            /\ Between(S, y.page, p + 1) = Between(S, y.page, p) \cup Page(S, p)
        <4>1. p \in Nat /\ y.page \in Nat
          BY <1>2, <2>1
        <4> HIDE DEF S, y, p
        <4> QED BY <3>1, <4>1, BetweenNext
      <3> QED BY <2>1, <2>2, <3>1, <3>2, Zenon
    <2> QED BY <1>2, <2>1, <2>2 DEF Reaches
  <1>7. Handling(s)
    BY DEF Handling
  <1> HIDE DEF h
  <1> QED BY <1>1, <1>2, <1>3, <1>4, <1>5, <1>6, <1>7, PageStepKeeps, Zenon

\* A response.
LEMMA ResponseAnswers ==
    ASSUME OrderSyncInv, NEW s \in Stream, handler[s].at = "paging", call[s].at = "query",
           service.at # "peers", s = service.sync.stream
    PROVE  Answers(service.sync, Response(s))
  <1>1. /\ call[s].id \in 1..Len(made) /\ Found(s) = Page(made[call[s].id], handler[s].page)
        /\ service.sync.id # NoID => call[s].id = service.sync.id
        /\ Reaches(service.sync, handler[s].page)
    BY FoundIsPage, Zenon
  <1>2. /\ Response(s).id = call[s].id /\ Response(s).page = handler[s].page
        /\ Response(s).orders = Found(s) \cap Matching
        /\ Response(s).complete => Found(s) = {}
    BY Zenon DEF Response
  <1>3. Response(s).complete => Page(made[call[s].id], handler[s].page) = {}
    BY <1>1, <1>2, Zenon
  <1> QED BY <1>1, <1>2, <1>3, Zenon DEF Answers

\* A response is written.
LEMMA RespondKeeps ==
    ASSUME OrderSyncInv, NEW s \in Stream, handler[s].at = "paging", call[s].at = "query",
           NEW open \in SUBSET Ends, stream' = [stream EXCEPT ![s] = SentState(s, "requester", Response(s), open)],
           NEW h \in HandlerState, h.at \in {"wait", "closed"}, handler' = [handler EXCEPT ![s] = h],
           UNCHANGED <<service, penalised, made>>, call' = [call EXCEPT ![s] = Idle]
    PROVE  SyncInv' /\ ValidRequests'
  <1> DEFINE m == Response(s)
             x == SentState(s, "requester", m, open)
  <1>1. SyncTypes /\ SnapshotInv /\ "requester" \in Ends /\ "provider" \in Ends
    BY DEF OrderSyncInv, SyncInv, Ends
  <1>2. m \in ResponseMessage
    BY <1>1, MessageTypes
  <1> HIDE DEF m
  <1>3. /\ x \in StreamState /\ x.by = stream[s].by
        /\ x.msgs["requester"] \subseteq {m} /\ x.msgs["provider"] = stream[s].msgs["provider"]
        /\ x.msgs["provider"] \subseteq Request /\ x.msgs["requester"] \subseteq ResponseMessage
    <2>1. "requester" = "provider" => m \in Request
      OBVIOUS
    <2>2. /\ x \in StreamState /\ x.by = stream[s].by
          /\ x.msgs["requester"] \subseteq {m} /\ \A e \in Ends : e # "requester" => x.msgs[e] = stream[s].msgs[e]
          /\ x.msgs["provider"] \subseteq Request /\ x.msgs["requester"] \subseteq ResponseMessage
      BY <1>1, <1>2, <2>1, SentFields, Zenon
    <2>3. x.msgs["provider"] = stream[s].msgs["provider"]
      BY <1>1, <2>2, Zenon
    <2> QED BY <2>2, <2>3, Zenon
  <1>4. Writes(s, x)
    BY <1>3, Zenon DEF Writes, m
  <1>5. Grows
    BY GrowsSame DEF OrderSyncInv, SnapshotInv
  <1>6. \A t \in Stream : t # s => call'[t] = call[t]
    BY DEF OrderSyncInv, SnapshotInv, SnapshotTypes, Stream
  <1>7. service.at # "peers" /\ s = service.sync.stream => \A n \in x.msgs["requester"] : Answers(service.sync, n)
    BY <1>3, ResponseAnswers, Zenon DEF m
  <1>8. Handling(s) /\ service' = service /\ penalised' = penalised
    BY DEF Handling
  <1>9. h.at \notin {"call", "paging"}
    OBVIOUS
  <1> HIDE DEF x
  <1> QED BY <1>3, <1>4, <1>5, <1>6, <1>7, <1>8, <1>9, PageStepKeeps, Zenon

\* A page has been found.
LEMMA FilterPageKeeps ==
    ASSUME OrderSyncInv, NEW s \in Stream, FilterPage(s)
    PROVE  SyncInv' /\ ValidRequests'
  <1>1. /\ handler[s].at = "paging" /\ call[s].at = "query" /\ call' = [call EXCEPT ![s] = Idle]
        /\ UNCHANGED <<service, penalised, made>>
    BY DEF FilterPage
  <1>2. stream[s] \in StreamState /\ stream \in [Stream -> StreamState]
    BY DEF OrderSyncInv, SyncInv, SyncTypes
  <1>3. CASE /\ Found(s) # {} /\ Found(s) \cap Matching = {}
             /\ handler' = [handler EXCEPT ![s].at = "call", ![s].page = @ + 1]
             /\ UNCHANGED stream
    BY <1>1, <1>3, SkipPageKeeps, Zenon
  <1> DEFINE m == Response(s)
             H(at) == [NoHandler EXCEPT !.at = at]
  <1>4. H("wait") \in HandlerState /\ H("wait").at = "wait" /\ H("closed") \in HandlerState /\ H("closed").at = "closed"
    BY DEF NoHandler, HandlerState, NoID
  <1>5. CASE stream' = Sent(s, "provider", m) /\ handler' = [handler EXCEPT ![s] = H("wait")]
    <2> DEFINE x == SentState(s, "requester", m, stream[s].open)
    <2>1. stream[s].open \in SUBSET Ends
      BY <1>2 DEF StreamState
    <2>2. stream' = [stream EXCEPT ![s] = x]
      BY <1>2, <1>5, Zenon DEF Sent, SentState, Other, StreamState
    <2> HIDE DEF H
    <2> QED BY <1>1, <1>4, <1>5, <2>1, <2>2, RespondKeeps, Zenon
  <1>6. CASE /\ stream' = [Sent(s, "provider", m) EXCEPT ![s].open = @ \ {"provider"}]
             /\ handler' = [handler EXCEPT ![s] = H("closed")]
    <2> DEFINE open == stream[s].open \ {"provider"}
               x == SentState(s, "requester", m, open)
    <2>1. open \in SUBSET Ends
      BY <1>2 DEF StreamState
    <2>2. stream' = [stream EXCEPT ![s] = x]
      BY <1>2, <1>6, Zenon DEF Sent, SentState, Other, StreamState
    <2> HIDE DEF H, open
    <2> QED BY <1>1, <1>4, <1>6, <2>1, <2>2, RespondKeeps, Zenon
  <1>7. CASE CloseHandler(s)
    <2>1. \A t \in Stream : t # s => call'[t] = call[t]
      BY <1>1 DEF OrderSyncInv, SnapshotInv, SnapshotTypes, Stream
    <2> QED BY <1>1, <1>7, <2>1, ClosesKeeps
  <1> QED BY <1>3, <1>5, <1>6, <1>7 DEF FilterPage, Respond

\* GetOrders has failed.
LEMMA PageFailsKeeps ==
    ASSUME OrderSyncInv, NEW s \in Stream, PageFails(s)
    PROVE  SyncInv' /\ ValidRequests'
  <1>1. /\ CloseHandler(s) /\ call' = [call EXCEPT ![s] = Idle]
        /\ UNCHANGED <<service, penalised, made>>
    BY DEF PageFails
  <1>2. \A t \in Stream : t # s => call'[t] = call[t]
    BY <1>1 DEF OrderSyncInv, SnapshotInv, SnapshotTypes, Stream
  <1> QED BY <1>1, <1>2, ClosesKeeps

-----------------------------------------------------------------------------
\* The requester has no stream, and what it had received is forgotten.
LEMMA NoSyncKeeps ==
    ASSUME OrderSyncInv, UNCHANGED <<snapshotVars, handler>>, service' \in [at : {"peers"}, synced : SUBSET Peers, sync : {NoSync}]
    PROVE  Gathered' /\ Exchange' /\ Paging' /\ service' \in [at : {"peers", "send", "await"}, synced : SUBSET Peers, sync : Sync]
  <1>1. NoSync \in Sync /\ NoSync.id = NoID /\ NoSync.received = {} /\ NoSync.complete = FALSE
    BY DEF NoSync, Sync, NoID
  <1>2. service'.at = "peers" /\ service'.sync = NoSync
    OBVIOUS
  <1>3. made' = made /\ call' = call /\ Len(made) \in Nat
    BY DEF snapshotVars, OrderSyncInv, SnapshotInv, SnapshotTypes
  <1>4. Gathered'
    <2>1. 0 \in 0..Len(made')
      BY <1>3
    <2>2. service'.sync.id = 0 /\ service'.sync.received = {} /\ ~service'.sync.complete
      BY <1>1, <1>2 DEF NoID
    <2> QED BY <2>1, <2>2 DEF Gathered, NoID
  <1>5. Exchange'
    BY <1>2, Zenon DEF Exchange
  <1>6. Paging'
    BY <1>3 DEF OrderSyncInv, SyncInv, Paging
  <1> QED BY <1>1, <1>4, <1>5, <1>6

\* Steps that touch no stream.
LEMMA PeersKeeps ==
    ASSUME OrderSyncInv, UNCHANGED <<snapshotVars, stream, handler, penalised>>,
           NEW synced \in SUBSET Peers, service.at = "peers",
           service' = [service EXCEPT !.synced = synced, !.sync = NoSync]
    PROVE  SyncInv' /\ ValidRequests'
  <1>1. service' \in [at : {"peers"}, synced : SUBSET Peers, sync : {NoSync}]
    BY Zenon DEF OrderSyncInv, SyncInv, SyncTypes
  <1>2. Gathered' /\ Exchange' /\ Paging' /\ service' \in [at : {"peers", "send", "await"}, synced : SUBSET Peers, sync : Sync]
    BY <1>1, NoSyncKeeps
  <1>3. service'.at = "peers"
    BY <1>1
  <1>4. SyncTypes'
    BY <1>2, <1>3 DEF OrderSyncInv, SyncInv, SyncTypes
  <1>5. ValidRequests'
    BY DEF OrderSyncInv, ValidRequests
  <1> QED BY <1>2, <1>4, <1>5 DEF SyncInv

\* getOrdersFromPeer returns an error.
LEMMA ReturnFailedKeeps ==
    ASSUME OrderSyncInv, UNCHANGED <<snapshotVars, handler, penalised>>, service.at # "peers", ReturnFailed
    PROVE  SyncInv' /\ ValidRequests'
  <1> DEFINE s == service.sync.stream
             open == stream[s].open \ {"requester"}
             x == ReceivedState(s, "requester", open)
  <1>1. s \in Stream /\ stream[s] \in StreamState /\ stream \in [Stream -> StreamState]
    BY DEF OrderSyncInv, SyncInv, SyncTypes
  <1>2. service' \in [at : {"peers"}, synced : SUBSET Peers, sync : {NoSync}]
    BY Zenon DEF ReturnFailed, OrderSyncInv, SyncInv, SyncTypes
  <1>3. Gathered' /\ Exchange' /\ Paging' /\ service' \in [at : {"peers", "send", "await"}, synced : SUBSET Peers, sync : Sync]
    BY <1>2, NoSyncKeeps
  <1>4. stream' = [stream EXCEPT ![s] = x]
    BY <1>1, Zenon DEF ReturnFailed, Closed, ReceivedState, StreamState
  <1>5. /\ x \in StreamState /\ x.by = stream[s].by /\ x.msgs["provider"] = stream[s].msgs["provider"]
        /\ x.msgs["provider"] \subseteq Request /\ x.msgs["requester"] \subseteq ResponseMessage
    <2>1. SyncTypes /\ open \in SUBSET Ends
      BY <1>1 DEF OrderSyncInv, SyncInv, StreamState
    <2>2. x = ReceivedState(s, "requester", open)
      OBVIOUS
    <2> HIDE DEF open, s, x
    <2> QED BY <1>1, <2>1, <2>2, RequesterReceived
  <1>6. Writes(s, x)
    BY <1>4, <1>5, Zenon DEF Writes
  <1> HIDE DEF x, s
  <1>7. SyncTypes'
    <2>1. service'.at = "peers"
      BY <1>2
    <2>2. SyncTypes /\ handler' \in [Stream -> HandlerState]
      BY DEF OrderSyncInv, SyncInv, SyncTypes
    <2>3. service'.at # "peers" => service'.sync.stream \in Stream
      BY <2>1
    <2>4. s \in Stream /\ service' \in [at : {"peers", "send", "await"}, synced : SUBSET Peers, sync : Sync]
      BY <1>1, <1>3
    <2> QED BY <1>6, <2>2, <2>3, <2>4, ServiceTypes
  <1>8. ValidRequests'
    BY <1>1, <1>5, <1>6, ValidSame DEF OrderSyncInv, SyncInv
  <1> QED BY <1>3, <1>7, <1>8 DEF SyncInv

\* A step of the requester on the stream s of the sync, which goes on: x is the
\* stream and y the sync after it.
LEMMA SyncGoesOn ==
    ASSUME OrderSyncInv, UNCHANGED <<snapshotVars, penalised>>, NEW s \in Stream, NEW x, Writes(s, x),
           handler' \in [Stream -> HandlerState], \A t \in Stream : handler'[t].at = "paging" => handler'[t] = handler[t],
           NEW at \in {"send", "await"}, NEW y \in Sync, y.stream = s,
           service' = [service EXCEPT !.at = at, !.sync = y],
           x.by = "requester", x.msgs["requester"] = {},
           \A m \in x.msgs["provider"] : m.type = "request" /\ m.supported /\ m.id = y.id /\ m.page = y.page,
           handler'[s].at \notin {"call", "paging"}, at = "send" => x.msgs["provider"] = {},
           y.id \in 0..Len(made), y.id = NoID => y.received = {},
           y.id # NoID => y.first <= y.page /\ y.received = Matching \cap Between(made[y.id], y.first, y.page),
           ~y.complete
    PROVE  SyncInv' /\ ValidRequests'
  <1>1. /\ service'.at = at /\ service'.sync = y
        /\ service' \in [at : {"peers", "send", "await"}, synced : SUBSET Peers, sync : Sync]
    BY Zenon DEF OrderSyncInv, SyncInv, SyncTypes
  <1>2. made' = made /\ call' = call /\ penalised' = penalised
    BY DEF snapshotVars
  <1>3. SyncTypes'
    <2>1. service'.sync.stream \in Stream
      BY <1>1
    <2> QED BY <1>1, <2>1, ServiceTypes DEF OrderSyncInv, SyncInv
  <1>4. Gathered'
    BY <1>1, <1>2 DEF Gathered
  <1>5. stream'[s] = x
    BY DEF OrderSyncInv, SyncInv, SyncTypes, Writes
  <1>6. ~Handling(s)'
    BY DEF Handling
  <1>7. Exchange'
    <2>1. service'.sync.stream = s /\ service'.sync.id = y.id /\ service'.sync.page = y.page
      BY <1>1
    <2> QED BY <1>1, <1>5, <1>6, <2>1 DEF Exchange
  <1>8. Paging'
    BY <1>2 DEF OrderSyncInv, SyncInv, Paging
  <1>9. ValidRequests'
    BY <1>2, ValidSame DEF OrderSyncInv, SyncInv
  <1> QED BY <1>3, <1>4, <1>7, <1>8, <1>9 DEF SyncInv

\* A stream is opened, or none can be.
LEMMA OpenStreamKeeps ==
    ASSUME OrderSyncInv, OpenStream
    PROVE  SyncInv' /\ ValidRequests'
  <1>1. UNCHANGED <<snapshotVars, penalised>> /\ service.at = "peers"
    BY Zenon DEF OpenStream, NextPeer
  <1>2. CASE service' = [service EXCEPT !.sync = NoSync] /\ UNCHANGED <<stream, handler>>
    <2>1. service.synced \in SUBSET Peers /\ service' = [service EXCEPT !.synced = service.synced, !.sync = NoSync]
      BY <1>2, Zenon DEF OrderSyncInv, SyncInv, SyncTypes
    <2> QED BY <1>1, <1>2, <2>1, PeersKeeps, Zenon
  <1>3. CASE \E s \in Stream :
                /\ stream' = Opened(s, "requester")
                /\ handler' = [handler EXCEPT ![s].at = "accept"]
                /\ service' = [service EXCEPT !.at = "send", !.sync = [NoSync EXCEPT !.stream = s]]
    <2>1. PICK s \in Stream :
                /\ stream' = Opened(s, "requester")
                /\ handler' = [handler EXCEPT ![s].at = "accept"]
                /\ service' = [service EXCEPT !.at = "send", !.sync = [NoSync EXCEPT !.stream = s]]
      BY <1>3, Zenon
    <2> DEFINE x == OpenedState("requester", {})
               y == [NoSync EXCEPT !.stream = s]
    <2>2. x \in StreamState /\ x.by = "requester" /\ x.msgs["provider"] = {} /\ x.msgs["requester"] = {}
      <3>1. {} \in SUBSET Request
        OBVIOUS
      <3> QED BY <3>1, OpenedFields
    <2>3. Writes(s, x)
      <3>1. stream' = [stream EXCEPT ![s] = x]
        BY <2>1 DEF Opened, OpenedState, Ends
      <3> QED BY <2>2, <3>1 DEF Writes
    <2>4. y \in Sync /\ y.stream = s /\ y.id = NoID /\ y.received = {} /\ ~y.complete
      BY Zenon DEF NoSync, Sync, NoID
    <2>5. /\ handler' \in [Stream -> HandlerState] /\ handler'[s].at = "accept"
          /\ \A t \in Stream : t # s => handler'[t] = handler[t]
      BY <2>1 DEF OrderSyncInv, SyncInv, SyncTypes, HandlerState
    <2>6. \A t \in Stream : handler'[t].at = "paging" => handler'[t] = handler[t]
      BY <2>5
    <2>7. y.id \in 0..Len(made)
      BY <2>4 DEF NoID, OrderSyncInv, SnapshotInv, SnapshotTypes
    <2>8. service' = [service EXCEPT !.at = "send", !.sync = y]
      BY <2>1
    <2> HIDE DEF x, y
    <2> QED BY <1>1, <2>2, <2>3, <2>4, <2>5, <2>6, <2>7, <2>8, SyncGoesOn, Zenon
  <1> QED BY <1>2, <1>3, Zenon DEF OpenStream

\* A request is sent, or the stream has been closed.
LEMMA SendRequestKeeps ==
    ASSUME OrderSyncInv, SendRequest
    PROVE  SyncInv' /\ ValidRequests'
  <1> DEFINE s == service.sync.stream
             m == [FirstRequest EXCEPT !.page = service.sync.page, !.id = service.sync.id]
             x == SentState(s, "provider", m, stream[s].open)
             y == service.sync
  <1>1. service.at = "send" /\ UNCHANGED <<snapshotVars, handler, penalised>>
    BY DEF SendRequest
  <1>2. CASE ReturnFailed
    BY <1>1, <1>2, ReturnFailedKeeps
  <1>3. CASE stream' = Sent(s, "requester", m) /\ service' = [service EXCEPT !.at = "await"]
    <2>1. /\ s \in Stream /\ stream[s] \in StreamState /\ stream \in [Stream -> StreamState] /\ SyncTypes
          /\ y \in Sync /\ handler \in [Stream -> HandlerState]
          /\ service \in [at : {"peers", "send", "await"}, synced : SUBSET Peers, sync : Sync]
      BY <1>1 DEF OrderSyncInv, SyncInv, SyncTypes
    <2>2. m \in Request /\ m.type = "request" /\ m.supported /\ m.page = y.page /\ m.id = y.id
      BY <2>1, Zenon DEF FirstRequest, Request, Sync, NoID
    <2>3. stream[s].open \in SUBSET Ends /\ "requester" \in Ends /\ "provider" \in Ends
      BY <2>1 DEF StreamState, Ends
    <2>4. stream' = [stream EXCEPT ![s] = x]
      BY <1>3, <2>1, Zenon DEF Sent, SentState, Other, StreamState
    <2>5. stream[s].by = "requester" /\ stream[s].msgs["requester"] = {} /\ ~Handling(s) /\ ~y.complete
      BY <1>1, Zenon DEF OrderSyncInv, SyncInv, Exchange
    <2>6. service' = [service EXCEPT !.at = "await", !.sync = y] /\ handler' = handler
      BY <1>1, <1>3, <2>1, Zenon
    <2>7. /\ y.id \in 0..Len(made) /\ (y.id = NoID => y.received = {})
          /\ y.id # NoID => y.first <= y.page /\ y.received = Matching \cap Between(made[y.id], y.first, y.page)
      BY Zenon DEF OrderSyncInv, SyncInv, Gathered
    <2>8. y.stream = s /\ handler'[s].at \notin {"call", "paging"}
      BY <2>5, <2>6 DEF Handling
    <2> HIDE DEF s, m, y
    <2>9. /\ x \in StreamState /\ x.by = stream[s].by /\ x.msgs["requester"] = {} /\ x.msgs["provider"] \subseteq {m}
          /\ x.msgs["provider"] \subseteq Request /\ x.msgs["requester"] \subseteq ResponseMessage
      <3> DEFINE open == stream[s].open
      <3> HIDE DEF open
      <3>1. "provider" = "requester" => m \in ResponseMessage
        OBVIOUS
      <3>2. open \in SUBSET Ends
        BY <2>3 DEF open
      <3> DEFINE z == SentState(s, "provider", m, open)
      <3>3. /\ z \in StreamState /\ z.by = stream[s].by
            /\ z.msgs["provider"] \subseteq {m} /\ \A e \in Ends : e # "provider" => z.msgs[e] = stream[s].msgs[e]
            /\ z.msgs["provider"] \subseteq Request /\ z.msgs["requester"] \subseteq ResponseMessage
        BY <2>1, <2>2, <2>3, <3>1, <3>2, SentFields, Zenon
      <3>4. z = x
        BY DEF open
      <3> QED BY <2>3, <2>5, <3>3, <3>4, Zenon
    <2>10. Writes(s, x)
      BY <2>4, <2>9, Zenon DEF Writes
    <2> HIDE DEF x
    <2>11. \A n \in x.msgs["provider"] : n.type = "request" /\ n.supported /\ n.id = y.id /\ n.page = y.page
      BY <2>2, <2>9
    <2>12. handler' \in [Stream -> HandlerState] /\ \A t \in Stream : handler'[t] = handler[t]
      BY <2>1, <2>6
    <2>13. x.by = "requester" /\ x.msgs["requester"] = {}
      BY <2>5, <2>9
    <2>14. y \in Sync /\ s \in Stream
      BY <2>1
    <2> QED BY <1>1, <2>5, <2>6, <2>7, <2>8, <2>10, <2>11, <2>12, <2>13, <2>14, SyncGoesOn, Zenon
  <1> QED BY <1>2, <1>3 DEF SendRequest

\* The order of the numbers of pages.
LEMMA LeqTransitive ==
    ASSUME NEW a \in Nat, NEW b \in Nat, NEW c \in Nat, a <= b, b <= c
    PROVE  a <= c
  OBVIOUS

\* HandleOrderSyncResponse adds the matching orders of the next pages.
LEMMA HandledGathers ==
    ASSUME NEW y \in Sync, NEW m \in ResponseMessage, Answers(y, m), y.id = NoID => y.received = {},
           y.id # NoID => y.first <= y.page /\ y.received = Matching \cap Between(made[y.id], y.first, y.page)
    PROVE  LET z == Handled(y, m)
           IN  /\ z \in Sync /\ z.stream = y.stream /\ z.complete = y.complete
               /\ z.id = m.id /\ z.id # NoID /\ z.page = m.page + 1 /\ z.first <= z.page
               /\ z.received = Matching \cap Between(made[z.id], z.first, z.page)
  <1> DEFINE first == IF y.id = NoID THEN m.page ELSE y.first
             got == y.received \cup m.orders
             next == m.page + 1
             z == Handled(y, m)
             S == made[m.id]
             from == y.first
             to == y.page
             page == m.page
  <1>1. /\ to \in Nat /\ from \in Nat /\ y.received \subseteq Order /\ page \in Nat /\ m.id \in Nat /\ m.orders \subseteq Order
    BY DEF Sync, ResponseMessage
  <1>2. first \in Nat /\ got \in SUBSET Order /\ next \in Nat
    <2>1. first \in {from, page}
      OBVIOUS
    <2> HIDE DEF first, from, page
    <2>2. page + 1 \in Nat
      BY <1>1
    <2> QED BY <1>1, <2>1, <2>2 DEF page
  <1>3. z = [y EXCEPT !.received = got, !.first = first, !.id = m.id, !.page = next]
    BY DEF Handled
  <1>4. m.id # NoID /\ (y.id # NoID => m.id = y.id) /\ m.orders = Matching \cap Page(S, page) /\ Reaches(y, page)
    <2>1. m.id \in 1..Len(made)
      BY DEF Answers
    <2>2. m.id # 0
      BY <2>1
    <2> QED BY <2>2, Zenon DEF Answers, NoID
  <1>5. first <= next /\ got = Matching \cap Between(S, first, next)
    <2>1. CASE y.id = NoID
      <3>1. first = page /\ got = m.orders /\ next = page + 1
        BY <2>1
      <3> HIDE DEF S, page, first, got, next
      <3>2. Between(S, page, page + 1) = Page(S, page)
        BY <1>1, BetweenOne
      <3>3. page <= page + 1
        BY <1>1
      <3> QED BY <1>4, <3>1, <3>2, <3>3
    <2>2. CASE y.id # NoID
      <3>1. /\ first = from /\ next = page + 1 /\ S = made[y.id] /\ got = y.received \cup m.orders
            /\ from <= to /\ y.received = Matching \cap Between(S, from, to)
            /\ to <= page /\ Matching \cap Between(S, to, page) = {}
        BY <1>4, <2>2 DEF Reaches
      <3> HIDE DEF S, page, from, to, first, got, next
      <3>2. from <= page
        BY <1>1, <3>1, LeqTransitive, Zenon
      <3>3. Between(S, from, page) = Between(S, from, to) \cup Between(S, to, page)
        <4>1. from \in Nat /\ to \in Nat /\ page \in Nat /\ from <= to /\ to <= page
          BY <1>1, <3>1, Zenon
        <4> QED BY <4>1, BetweenAdds
      <3>4. from <= page + 1 /\ Between(S, from, page + 1) = Between(S, from, page) \cup Page(S, page)
        BY <1>1, <3>2, BetweenNext
      <3>5. got = Matching \cap (Between(S, from, page) \cup Page(S, page))
        BY <1>4, <3>1, <3>3
      <3> QED BY <3>1, <3>4, <3>5, Zenon
    <2> QED BY <2>1, <2>2, Zenon
  <1> HIDE DEF first, got, next
  <1>6. z \in Sync
    BY <1>1, <1>2, <1>3, Zenon DEF Sync
  <1>7. /\ z.stream = y.stream /\ z.complete = y.complete /\ z.id = m.id /\ z.page = next
        /\ z.first = first /\ z.received = got
    BY <1>3 DEF Sync
  <1> QED BY <1>4, <1>5, <1>6, <1>7, Zenon DEF next

\* A response is received, and it is the last one or the sync goes on.
LEMMA ReceiveResponseKeeps ==
    ASSUME OrderSyncInv, ReceiveResponse
    PROVE  SyncInv' /\ ValidRequests'
  <1> DEFINE s == service.sync.stream
             y == service.sync
  <1>1. service.at = "await" /\ UNCHANGED <<snapshotVars, handler, penalised>>
    BY DEF ReceiveResponse
  <1>2. PICK m \in stream[s].msgs["requester"] :
          \/ /\ m.complete
             /\ service' = [service EXCEPT !.at = "peers", !.synced = @ \cup {Provider},
                                           !.sync = [Handled(y, m) EXCEPT !.stream = 0, !.complete = TRUE]]
             /\ stream' = [Received(s, "requester") EXCEPT ![s].open = @ \ {"requester"}]
          \/ /\ service' = [service EXCEPT !.at = "send", !.sync = Handled(y, m)]
             /\ stream' = Received(s, "requester")
    BY Zenon DEF ReceiveResponse
  <1>3. /\ s \in Stream /\ stream[s] \in StreamState /\ stream \in [Stream -> StreamState] /\ SyncTypes
        /\ y \in Sync /\ handler \in [Stream -> HandlerState] /\ m \in ResponseMessage
        /\ service \in [at : {"peers", "send", "await"}, synced : SUBSET Peers, sync : Sync]
    BY <1>1, Zenon DEF OrderSyncInv, SyncInv, SyncTypes
  <1>4. /\ Answers(y, m) /\ ~y.complete /\ stream[s].by = "requester"
        /\ stream[s].msgs["provider"] = {} /\ ~Handling(s)
    BY <1>1, <1>2, Zenon DEF OrderSyncInv, SyncInv, Exchange
  <1>5. /\ y.id \in 0..Len(made) /\ (y.id = NoID => y.received = {})
        /\ y.id # NoID => y.first <= y.page /\ y.received = Matching \cap Between(made[y.id], y.first, y.page)
    BY Zenon DEF OrderSyncInv, SyncInv, Gathered
  <1> DEFINE z == Handled(y, m)
  <1>6. /\ z \in Sync /\ z.stream = y.stream /\ z.complete = y.complete
        /\ z.id = m.id /\ z.id # NoID /\ z.page = m.page + 1 /\ z.first <= z.page
        /\ z.received = Matching \cap Between(made[z.id], z.first, z.page)
    BY <1>3, <1>4, <1>5, HandledGathers, Zenon
  <1>7. z.id \in 0..Len(made) /\ m.page \in Nat /\ (m.complete => Page(made[z.id], m.page) = {})
    <2>1. m.page \in Nat
      BY <1>3 DEF ResponseMessage
    <2>2. m.id \in 1..Len(made) /\ (m.complete => Page(made[m.id], m.page) = {})
      BY <1>4 DEF Answers
    <2>3. m.id \in 0..Len(made)
      BY <2>2
    <2>4. z.id = m.id
      BY <1>6, Zenon
    <2> HIDE DEF z
    <2> QED BY <2>1, <2>2, <2>3, <2>4
  <1>8. /\ made' = made /\ call' = call /\ handler' = handler /\ penalised' = penalised
        /\ handler[s].at \notin {"call", "paging"}
    BY <1>1, <1>4, Zenon DEF snapshotVars, Handling
  <1>9. ASSUME NEW open \in SUBSET Ends, stream' = [stream EXCEPT ![s] = ReceivedState(s, "requester", open)]
        PROVE  \E x : Writes(s, x) /\ x.by = "requester" /\ x.msgs["requester"] = {} /\ x.msgs["provider"] = {}
    <2> DEFINE x == ReceivedState(s, "requester", open)
    <2>1. "requester" \in Ends /\ Other("requester") = "provider"
      BY DEF Ends, Other
    <2> HIDE DEF s
    <2>2. /\ x \in StreamState /\ x.by = stream[s].by /\ x.msgs["requester"] = {}
          /\ x.msgs["provider"] = stream[s].msgs["provider"]
          /\ x.msgs["provider"] \subseteq Request /\ x.msgs["requester"] \subseteq ResponseMessage
      <3>1. x = ReceivedState(s, "requester", open)
        OBVIOUS
      <3> HIDE DEF x
      <3>2. SyncTypes /\ s \in Stream
        BY <1>3, Zenon
      <3> QED BY <3>1, <3>2, RequesterReceived
    <2>3. Writes(s, x)
      BY <1>9, <2>2 DEF Writes
    <2> QED BY <1>4, <2>2, <2>3
  <1>10. CASE /\ service' = [service EXCEPT !.at = "send", !.sync = z]
              /\ stream' = Received(s, "requester")
    <2>1. stream' = [stream EXCEPT ![s] = ReceivedState(s, "requester", stream[s].open)]
      BY <1>3, <1>10, Zenon DEF Received, ReceivedState, StreamState
    <2>2. stream[s].open \in SUBSET Ends
      BY <1>3 DEF StreamState
    <2>3. PICK x : Writes(s, x) /\ x.by = "requester" /\ x.msgs["requester"] = {} /\ x.msgs["provider"] = {}
      BY <1>9, <2>1, <2>2, Zenon
    <2>4. z.stream = s /\ ~z.complete
      BY <1>4, <1>6, Zenon
    <2> HIDE DEF z, s, y
    <2> QED BY <1>1, <1>3, <1>6, <1>7, <1>8, <1>10, <2>3, <2>4, SyncGoesOn, Zenon
  <1>11. CASE /\ m.complete
              /\ service' = [service EXCEPT !.at = "peers", !.synced = @ \cup {Provider},
                                            !.sync = [z EXCEPT !.stream = 0, !.complete = TRUE]]
              /\ stream' = [Received(s, "requester") EXCEPT ![s].open = @ \ {"requester"}]
    <2>1. stream' = [stream EXCEPT ![s] = ReceivedState(s, "requester", stream[s].open \ {"requester"})]
      BY <1>3, <1>11, Zenon DEF Received, ReceivedState, StreamState
    <2>2. stream[s].open \ {"requester"} \in SUBSET Ends
      BY <1>3 DEF StreamState
    <2>3. PICK x : Writes(s, x) /\ x.by = "requester" /\ x.msgs["requester"] = {} /\ x.msgs["provider"] = {}
      BY <1>9, <2>1, <2>2, Zenon
    <2> DEFINE w == [z EXCEPT !.stream = 0, !.complete = TRUE]
    <2> HIDE DEF z
    <2>4. w \in Sync /\ w.id = z.id /\ w.page = z.page /\ w.first = z.first /\ w.received = z.received
      BY <1>6, Zenon DEF Sync
    <2>5. /\ service' \in [at : {"peers", "send", "await"}, synced : SUBSET Peers, sync : Sync]
          /\ service'.at = "peers" /\ service'.sync = w
      BY <1>3, <1>11, <2>4, Zenon DEF Peers
    <2> HIDE DEF w, s
    <2>6. SyncTypes'
      BY <1>3, <1>8, <2>3, <2>5, ServiceTypes, Zenon
    <2>7. Gathered'
      <3>1. z.page > 0 /\ z.page - 1 = m.page
        <4>1. z.page = m.page + 1 /\ m.page \in Nat
          BY <1>6, <1>7
        <4> QED BY <4>1
      <3>2. /\ w.id \in 0..Len(made') /\ w.id # NoID /\ w.first <= w.page
            /\ w.received = Matching \cap Between(made'[w.id], w.first, w.page)
        BY <1>6, <1>7, <1>8, <2>4, Zenon
      <3>3. w.page > 0 /\ Page(made'[w.id], w.page - 1) = {}
        BY <1>7, <1>8, <1>11, <2>4, <3>1
      <3> QED BY <2>5, <3>2, <3>3, Zenon DEF Gathered
    <2>8. Exchange'
      BY <2>5, Zenon DEF Exchange
    <2>9. Paging'
      BY <1>8 DEF OrderSyncInv, SyncInv, Paging
    <2>10. ValidRequests'
      BY <1>3, <1>8, <2>3, ValidSame DEF OrderSyncInv
    <2> QED BY <2>6, <2>7, <2>8, <2>9, <2>10 DEF SyncInv
  <1> QED BY <1>2, <1>10, <1>11

-----------------------------------------------------------------------------
\* What the program starts with.
LEMMA OrderSyncInitially == Init => OrderSyncInv
  <1> SUFFICES ASSUME Init PROVE OrderSyncInv
    OBVIOUS
  <1>1. Idle \in [at : {"idle", "failed", "insert", "query"}, page : Nat, id : Nat, orders : SUBSET Order, exp : Nat]
        /\ Idle.at = "idle"
    BY DEF Idle, NoID
  <1>2. /\ now = 0 /\ orders = Order /\ idToSnapshotInfo = <<>> /\ made = <<>>
        /\ call = [c \in Caller |-> Idle]
    BY DEF Init, SnapshotsInit
  <1>3. SnapshotInv
    <2>1. DOMAIN idToSnapshotInfo = {}
      BY <1>2
    <2>2. SnapshotTypes
      BY <1>1, <1>2, <2>1 DEF SnapshotTypes
    <2>3. Frozen /\ Inserting /\ UnexpiredIsWatched
      BY <1>1, <1>2, <2>1 DEF Frozen, Inserting, UnexpiredIsWatched
    <2> QED BY <2>2, <2>3 DEF SnapshotInv
  <1>4. /\ NoSync \in Sync /\ NoSync.id = NoID /\ NoSync.received = {} /\ NoSync.complete = FALSE
        /\ NoHandler \in HandlerState /\ NoHandler.at = "none"
    BY DEF NoSync, Sync, NoID, NoHandler, HandlerState
  <1>5. /\ stream = [s \in Stream |-> [by |-> "none", open |-> {}, msgs |-> [e \in Ends |-> {}]]]
        /\ handler = [s \in Stream |-> NoHandler]
        /\ service.at = "peers" /\ service.sync = NoSync /\ penalised = {}
        /\ service \in [at : {"peers", "send", "await"}, synced : SUBSET Peers, sync : Sync]
    BY <1>4, Zenon DEF Init
  <1>6. \A s \in Stream : stream[s] \in StreamState /\ stream[s].msgs["provider"] = {} /\ stream[s].msgs["requester"] = {}
    BY <1>5 DEF StreamState, Ends
  <1>7. SyncTypes
    BY <1>4, <1>5, <1>6, Zenon DEF SyncTypes
  <1>8. Gathered
    <2>1. 0 \in 0..Len(made)
      BY <1>2
    <2>2. service.sync.id = 0 /\ service.sync.received = {} /\ ~service.sync.complete
      BY <1>4, <1>5 DEF NoID
    <2> QED BY <2>1, <2>2 DEF Gathered, NoID
  <1>9. Exchange /\ Paging
    BY <1>4, <1>5, Zenon DEF Exchange, Paging
  <1>10. ValidRequests
    BY <1>5, <1>6, Zenon DEF ValidRequests
  <1> QED BY <1>3, <1>7, <1>8, <1>9, <1>10 DEF OrderSyncInv, SyncInv

\* A step of a handler keeps the snapshots' invariant.
LEMMA HandlerStepSnapshots ==
    ASSUME OrderSyncInv, NEW s \in Stream, HandlerStep(s)
    PROVE  SnapshotInv'
  <1>1. s \in Caller /\ SnapshotInv /\ handler[s].page \in Nat
    BY DEF Stream, OrderSyncInv, SyncInv, SyncTypes, HandlerState
  <1>2. CASE RefuseStream(s) \/ ReceiveRequest(s) \/ RequestFails(s)
    <2>1. UNCHANGED <<now, orders, snapshotVars>>
      BY <1>2, Zenon DEF RefuseStream, ReceiveRequest, RequestFails, dbVars
    <2> QED BY <1>1, <2>1, SnapshotsSame
  <1>3. CASE FilterPage(s) \/ PageFails(s)
    <2>1. call' = [call EXCEPT ![s] = Idle] /\ UNCHANGED <<now, orders, tree, idToSnapshotInfo, made>>
      BY <1>3 DEF FilterPage, PageFails, dbVars
    <2> QED BY <1>1, <2>1, CallEnds, Zenon
  <1>4. CASE AskPage(s)
    <2>1. GetOrders(s, handler[s].page, handler[s].id) /\ UNCHANGED <<now, orders>>
      BY <1>4 DEF AskPage, dbVars
    <2> DEFINE page == handler[s].page
               id == handler[s].id
    <2>2. page \in Nat /\ GetOrders(s, page, id)
      BY <1>1, <2>1
    <2> HIDE DEF page, id
    <2>3. CASE NewSnapshot(s, page)
      BY <1>1, <2>1, <2>2, <2>3, NewSnapshotKeeps
    <2>4. CASE RenewSnapshot(s, page, id)
      BY <1>1, <2>1, <2>2, <2>4, RenewSnapshotKeeps
    <2>5. CASE SnapshotFails(s, id)
      BY <1>1, <2>1, <2>5, CallEnds, Zenon DEF SnapshotFails
    <2> QED BY <2>2, <2>3, <2>4, <2>5 DEF GetOrders
  <1> QED BY <1>2, <1>3, <1>4 DEF HandlerStep

\* A step of a handler.
LEMMA HandlerStepKeeps ==
    ASSUME OrderSyncInv, NEW s \in Stream, HandlerStep(s)
    PROVE  OrderSyncInv'
  <1>1. SnapshotInv'
    BY HandlerStepSnapshots
  <1>2. CASE RefuseStream(s) \/ RequestFails(s)
    <2>1. /\ CloseHandler(s) \/ RefuseStream(s)
          /\ UNCHANGED <<service, made, call, penalised>>
      BY <1>2 DEF RefuseStream, RequestFails, snapshotVars
    <2>2. SyncInv' /\ ValidRequests'
      BY <2>1, ClosesKeeps
    <2> QED BY <1>1, <2>2 DEF OrderSyncInv
  <1>3. CASE ReceiveRequest(s)
    BY <1>1, <1>3, ReceiveRequestKeeps DEF OrderSyncInv
  <1>4. CASE AskPage(s)
    BY <1>1, <1>4, AskPageKeeps DEF OrderSyncInv
  <1>5. CASE FilterPage(s)
    BY <1>1, <1>5, FilterPageKeeps DEF OrderSyncInv
  <1>6. CASE PageFails(s)
    BY <1>1, <1>6, PageFailsKeeps DEF OrderSyncInv
  <1> QED BY <1>2, <1>3, <1>4, <1>5, <1>6 DEF HandlerStep

\* A step of the requester.
LEMMA ServiceKeeps ==
    ASSUME OrderSyncInv, ServiceGoroutine
    PROVE  OrderSyncInv'
  <1>1. SnapshotInv'
    <2>1. UNCHANGED <<now, orders, snapshotVars>>
      BY Zenon DEF ServiceGoroutine, ServiceStep, GetOrdersReturns, OpenStream, SendRequest, ReceiveResponse,
             SyncWithOther, ResponseFails, dbVars
    <2> QED BY <2>1, SnapshotsSame DEF OrderSyncInv
  <1>2. CASE GetOrdersReturns
    <2>1. /\ service.at = "peers" /\ UNCHANGED <<snapshotVars, stream, handler, penalised>>
          /\ service' = [service EXCEPT !.synced = {}, !.sync = NoSync] /\ {} \in SUBSET Peers
      BY <1>2 DEF GetOrdersReturns
    <2> QED BY <1>1, <2>1, PeersKeeps, Zenon DEF OrderSyncInv
  <1>3. CASE \E p \in Others : SyncWithOther(p)
    <2>1. PICK result \in SUBSET Others :
             /\ service.at = "peers" /\ UNCHANGED <<snapshotVars, stream, handler, penalised>>
             /\ service' = [service EXCEPT !.synced = @ \cup result, !.sync = NoSync]
      <3>1. PICK p \in Others : SyncWithOther(p)
        BY <1>3
      <3>2. PICK result \in {{}, {p}} : service' = [service EXCEPT !.synced = @ \cup result, !.sync = NoSync]
        BY <3>1, Zenon DEF SyncWithOther
      <3>3. result \in SUBSET Others
        OBVIOUS
      <3> QED BY <3>1, <3>2, <3>3, Zenon DEF SyncWithOther, NextPeer
    <2> DEFINE synced == service.synced \cup result
    <2>2. synced \in SUBSET Peers
      BY DEF OrderSyncInv, SyncInv, SyncTypes, Peers
    <2>3. service' = [service EXCEPT !.synced = synced, !.sync = NoSync]
      BY <2>1
    <2> HIDE DEF synced
    <2> QED BY <1>1, <2>1, <2>2, <2>3, PeersKeeps, Zenon DEF OrderSyncInv
  <1>4. CASE OpenStream
    BY <1>1, <1>4, OpenStreamKeeps DEF OrderSyncInv
  <1>5. CASE SendRequest
    BY <1>1, <1>5, SendRequestKeeps DEF OrderSyncInv
  <1>6. CASE ReceiveResponse
    BY <1>1, <1>6, ReceiveResponseKeeps DEF OrderSyncInv
  <1>7. CASE ResponseFails
    <2>1. service.at # "peers" /\ ReturnFailed /\ UNCHANGED <<snapshotVars, handler, penalised>>
      BY <1>7 DEF ResponseFails
    <2> QED BY <1>1, <2>1, ReturnFailedKeeps DEF OrderSyncInv
  <1> QED BY <1>2, <1>3, <1>4, <1>5, <1>6, <1>7 DEF ServiceGoroutine, ServiceStep

\* A step of the clock, the database, the pruning goroutine or a stuttering step.
LEMMA QuietKeeps ==
    ASSUME OrderSyncInv,
           \/ (Tick \/ OrdersChange \/ PrunerStep) /\ UNCHANGED syncVars
           \/ UNCHANGED vars
    PROVE  OrderSyncInv'
  <1>1. made' = made /\ call' = call /\ UNCHANGED syncVars
    BY DEF Tick, OrdersChange, PrunerStep, Prune, ForgetSnapshot, vars, snapshotVars, dbVars
  <1>2. SnapshotInv'
    BY TickKeeps, OrdersChangeKeeps, PrunerKeeps, SnapshotsSame DEF OrderSyncInv, vars, dbVars
  <1>3. Grows
    BY <1>1, GrowsSame DEF OrderSyncInv, SnapshotInv
  <1>4. SyncInv' /\ ValidRequests'
    BY <1>1, <1>3, SnapshotStepKeepsSync
  <1> QED BY <1>2, <1>4 DEF OrderSyncInv

\* A new snapshot is put in the map.
LEMMA InsertKeeps ==
    ASSUME OrderSyncInv, NEW s \in Stream, InsertSnapshot(s), UNCHANGED syncVars
    PROVE  OrderSyncInv'
  <1>1. SnapshotInv'
    BY InsertSnapshotKeeps DEF OrderSyncInv, Stream
  <1>2. Grows
    BY GrowsSame DEF OrderSyncInv, SnapshotInv, InsertSnapshot
  <1>3. \A t \in Stream : call'[t].at \in {"insert", "query"} =>
           call[t].at \in {"insert", "query"} /\ call'[t].page = call[t].page /\ call'[t].id = call[t].id
    BY DEF InsertSnapshot, OrderSyncInv, SnapshotInv, SnapshotTypes, Stream
  <1>4. SyncInv' /\ ValidRequests'
    BY <1>2, <1>3, SnapshotStepKeepsSync
  <1> QED BY <1>1, <1>4 DEF OrderSyncInv

\* Every step.
LEMMA OrderSyncStep == OrderSyncInv /\ [Next]_vars => OrderSyncInv'
  <1> SUFFICES ASSUME OrderSyncInv, [Next]_vars PROVE OrderSyncInv'
    OBVIOUS
  <1>1. CASE \E s \in Stream : ForeignRequest(s)
    <2>1. PICK s \in Stream : ForeignRequest(s)
      BY <1>1
    <2>2. SnapshotInv'
      BY <2>1, SnapshotsSame DEF OrderSyncInv, ForeignRequest, dbVars
    <2> QED BY <2>1, <2>2, ForeignRequestKeeps DEF OrderSyncInv
  <1>2. CASE (Tick \/ OrdersChange \/ PrunerStep) /\ UNCHANGED syncVars
    BY <1>2, QuietKeeps
  <1>3. CASE ServiceGoroutine
    BY <1>3, ServiceKeeps
  <1>4. CASE \E s \in Stream : HandlerGoroutine(s)
    BY <1>4, HandlerStepKeeps, InsertKeeps DEF HandlerGoroutine
  <1>5. CASE UNCHANGED vars
    BY <1>5, QuietKeeps
  <1> QED BY <1>1, <1>2, <1>3, <1>4, <1>5 DEF Next, Environment

\* The invariant holds always.
LEMMA OrderSyncAlways == Spec => []OrderSyncInv
  BY OrderSyncInitially, OrderSyncStep, PTL DEF Spec

(***************************************************************************)
(* A snapshot whose expiration time is ahead is in the tree under exactly  *)
(* this time (GetOrders and the pruning goroutine of App.Start), whatever  *)
(* the callers, the time to live and the order of the steps.               *)
(***************************************************************************)
THEOREM SnapshotsAreWatched == Spec => []UnexpiredIsWatched
  <1>1. OrderSyncInv => UnexpiredIsWatched
    BY DEF OrderSyncInv, SnapshotInv
  <1> QED BY <1>1, OrderSyncAlways, PTL

(***************************************************************************)
(* No node that runs this code is scored down for a message it sent        *)
(* (HandleStream, getOrdersFromPeer).                                      *)
(***************************************************************************)
THEOREM NoMeshPeerIsPenalised == Spec => []MeshPeersSendValidMessages
  <1>1. OrderSyncInv => MeshPeersSendValidMessages
    BY DEF OrderSyncInv, ValidRequests, MeshPeersSendValidMessages
  <1> QED BY <1>1, OrderSyncAlways, PTL

(***************************************************************************)
(* A complete sync has received exactly the matching orders of one         *)
(* snapshot, from the first page it was sent on, for every number of       *)
(* orders and every page size (HandleOrderSyncRequest,                     *)
(* HandleOrderSyncResponse, GetOrders).                                    *)
(***************************************************************************)
THEOREM CompleteSyncHasEverything == Spec => []SyncIsComplete
  <1>1. OrderSyncInv => SyncIsComplete
    <2> SUFFICES ASSUME OrderSyncInv, service.sync.complete
                 PROVE  service.sync.received = Matching \cap
                          UNION {Page(made[service.sync.id], page) : page \in service.sync.first..Cardinality(Order)}
      BY DEF SyncIsComplete
    <2> DEFINE y == service.sync
               S == made[y.id]
    <2>1. /\ y.id \in 1..Len(made) /\ y.page > 0 /\ Page(S, y.page - 1) = {}
          /\ y.received = Matching \cap Between(S, y.first, y.page)
      BY DEF OrderSyncInv, SyncInv, Gathered, SnapshotInv, SnapshotTypes, NoID
    <2>2. S \subseteq Order /\ y.first \in Nat /\ y.page \in Nat
      BY <2>1 DEF OrderSyncInv, SyncInv, SyncTypes, Sync, SnapshotInv, SnapshotTypes
    <2> HIDE DEF S, y
    <2>3. Between(S, y.first, y.page) = UNION {Page(S, k) : k \in y.first..Cardinality(Order)}
      BY <2>1, <2>2, BetweenAll
    <2> QED BY <2>1, <2>3 DEF S, y
  <1> QED BY <1>1, OrderSyncAlways, PTL
=============================================================================
