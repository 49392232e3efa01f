---------------------------- MODULE BackfillProofs --------------------------
(***************************************************************************)
(* What the backfill gathers, for every chain and every history of it, and *)
(* every size of ranges, chunks and answers: the logs of one block of each *)
(* height, all below the block that Watch goes on from.                    *)
(***************************************************************************)
EXTENDS Backfill, FiniteSetTheorems, WellFoundedInduction, TLAPS

\* The types of ranges, of results, and of the goroutines of a chunk.
BlockRange == [from : Int, to : Int]
Result == [block : Block, query : BlockRange]
At == {"check", "query", "cancelled", "store", "done"}
Request == [range : BlockRange, at : At, todo : Seq(BlockRange), logs : SUBSET Result, err : BOOLEAN]

\* Every range comes before those that follow it.
Ordered(ranges) == \A i, j \in 1..Len(ranges) : i < j => ranges[i].to < ranges[j].from

\* The ranges of chunks are above n, and each comes before those that follow it.
Planned(cs, n) ==
    \A i \in 1..Len(cs) :
        /\ cs[i] # <<>> /\ Ordered(cs[i])
        /\ \A k \in 1..Len(cs[i]) : n < cs[i][k].from /\ cs[i][k].from <= cs[i][k].to
        /\ \A j \in 1..Len(cs) : i < j =>
              \A k \in 1..Len(cs[i]) : \A l \in 1..Len(cs[j]) : cs[i][k].to < cs[j][l].from

\* The logs found so far are those of the part of the range below todo, one block of
\* each height.
Requested(req) ==
    /\ req.range.from <= req.range.to
    /\ \A l \in req.logs : req.range.from <= Number[l.block] /\ Number[l.block] <= req.range.to
    /\ \A k, l \in req.logs : Number[k.block] = Number[l.block] => k = l
    /\ req.at \in {"check", "query"} =>
        /\ req.todo # <<>> /\ Ordered(req.todo)
        /\ \A t \in 1..Len(req.todo) :
            /\ req.range.from <= req.todo[t].from /\ req.todo[t].from <= req.todo[t].to
            /\ req.todo[t].to <= req.range.to
            /\ \A l \in req.logs : Number[l.block] < req.todo[t].from

\* The goroutines ask for ranges above furthest.
Asked ==
    /\ requests # <<>>
    /\ \A i \in 1..Len(requests) : Requested(requests[i]) /\ furthest < requests[i].range.from
    /\ \A i, j \in 1..Len(requests) : i < j => requests[i].range.to < requests[j].range.from
    /\ \A i \in 1..Len(requests) : Planned(chunks, requests[i].range.to)

\* An endpoint that is behind the stack is asked for an empty range.
EmptyRange(r) == r.to < r.from
EmptyRequest(req) ==
    /\ req.logs = {}
    /\ req.at \in {"check", "query"} => Len(req.todo) = 1 /\ EmptyRange(req.todo[1])

NothingAsked ==
    /\ allLogs = {}
    /\ \A i \in 1..Len(chunks) : chunks[i] # <<>> /\ \A k \in 1..Len(chunks[i]) : EmptyRange(chunks[i][k])
    /\ pc = "requests" => requests # <<>> /\ \A i \in 1..Len(requests) : EmptyRequest(requests[i])

\* The ranges still to be asked for lie above those asked for, and these above
\* furthestBlockProcessed; or the endpoint is behind and nothing is found.
BackfillInv ==
    /\ chain \in Chains
    /\ pc \in {"start", "latest"} => allLogs = {} /\ ~failed /\ stack \in Seq(Block) /\ start = Top
    /\ pc \in {"latest", "chunk", "requests"} => start \in Block
    /\ elapsed \in Int /\ furthest \in Int /\ allLogs \in SUBSET Result
    /\ chunks \in Seq(Seq(BlockRange)) /\ requests \in Seq(Request)
    /\ HeightsOnce
    /\ pc \in {"chunk", "requests"} /\ elapsed > 0 => Number[start] <= furthest
    /\ pc = "chunk" /\ elapsed > 0 /\ ~failed => Planned(chunks, furthest)
    /\ pc = "requests" /\ elapsed > 0 => Asked
    /\ pc \in {"chunk", "requests"} /\ elapsed <= 0 => NothingAsked

\* A sequence with elements.
LEMMA NotEmpty ==
    ASSUME NEW s, Len(s) # 0
    PROVE  s # <<>>
  <1>1. Len(<<>>) = 0
    OBVIOUS
  <1> QED
    BY <1>1, Zenon

\* The smaller one of two.
LEMMA MinOfTwo ==
    ASSUME NEW a \in Int, NEW b \in Int
    PROVE  Min({a, b}) = IF a <= b THEN a ELSE b
  <1>1. \E x \in {a, b} : \A y \in {a, b} : x <= y
    OBVIOUS
  <1>2. Min({a, b}) \in {a, b} /\ \A y \in {a, b} : Min({a, b}) <= y
    BY <1>1 DEF Min
  <1> QED
    BY <1>2

\* Multiples of a size are in order.
LEMMA Multiples ==
    ASSUME NEW i \in Int, NEW j \in Int, i <= j, NEW n \in Nat
    PROVE  i * n \in Int /\ j * n \in Int /\ i * n <= j * n /\ (i - 1) * n = i * n - n
  <1>1. (j - i) * n >= 0
    OBVIOUS
  <1>2. (j - i) * n = j * n - i * n
    OBVIOUS
  <1>3. (i - 1) * n = i * n - n
    OBVIOUS
  <1> QED
    BY <1>1, <1>2, <1>3

\* How often a size is contained in a length, rounded down.
LEMMA Quotient ==
    ASSUME NEW a \in Nat, NEW n \in Nat \ {0}
    PROVE  a \div n \in Nat /\ (a \div n) * n <= a /\ a < (a \div n) * n + n
  OBVIOUS

\* getSubBlockRanges: ranges that are not empty and come one after the other.
LEMMA RangesInOrder ==
    ASSUME NEW from \in Int, NEW to \in Int, NEW size \in Nat \ {0}, from <= to
    PROVE  LET ranges == getSubBlockRanges(from, to, size)
           IN  /\ ranges \in Seq(BlockRange) /\ ranges # <<>> /\ Ordered(ranges)
               /\ \A i \in 1..Len(ranges) : from <= ranges[i].from /\ ranges[i].from <= ranges[i].to
  <1> DEFINE ranges == getSubBlockRanges(from, to, size)
  <1>1. CASE to - from < size
    <2>1. ranges = <<[from |-> from, to |-> to]>>
      BY <1>1, Zenon DEF getSubBlockRanges
    <2>2. [from |-> from, to |-> to] \in BlockRange
      BY DEF BlockRange
    <2> HIDE DEF ranges
    <2>3. ranges \in Seq(BlockRange) /\ Len(ranges) = 1 /\ ranges[1] = [from |-> from, to |-> to]
      BY <2>1, <2>2
    <2>4. ranges # <<>>
      BY <2>1
    <2>5. ASSUME NEW i \in 1..1, NEW j \in 1..1, i < j PROVE FALSE
      BY <2>5
    <2>6. Ordered(ranges)
      BY <2>3, <2>5 DEF Ordered
    <2> QED
      BY <2>3, <2>4, <2>6 DEF ranges
  <1>2. CASE ~(to - from < size)
    <2> DEFINE n == (to - from + size) \div size
               first(i) == from + (i - 1) * size
               last(i) == Min({from + i * size - 1, to})
    <2>1. ranges = [i \in 1..n |-> [from |-> first(i), to |-> last(i)]]
      BY <1>2, Zenon DEF getSubBlockRanges
    <2>2. to - from + size \in Nat /\ to - from + size >= size
      BY <1>2
    <2>3. n \in Nat /\ n * size <= to - from + size /\ to - from + size < n * size + size
      BY <2>2, Quotient
    <2> HIDE DEF n
    <2>4. n >= 1
      BY <2>2, <2>3
    <2>5. ASSUME NEW i \in 1..n
          PROVE  /\ first(i) \in Int /\ last(i) \in Int /\ from <= first(i) /\ first(i) <= last(i)
                 /\ \A j \in 1..n : i < j => last(i) < first(j)
      <3>1. i * size \in Int /\ i * size <= n * size /\ (i - 1) * size = i * size - size
        BY <2>3, Multiples
      <3>2. 1 * size <= i * size /\ 1 * size = size
        BY Multiples
      <3>3. last(i) = IF from + i * size - 1 <= to THEN from + i * size - 1 ELSE to
        BY <3>1, MinOfTwo
      <3>4. \A j \in 1..n : i < j => i * size <= (j - 1) * size
        BY <2>3, Multiples
      <3>5. \A j \in 1..n : (j - 1) * size \in Int
        BY <2>3, Multiples
      <3>6. first(i) \in Int /\ from <= first(i)
        BY <3>1, <3>2
      <3>7. last(i) \in Int /\ last(i) <= from + i * size - 1
        BY <3>1, <3>3
      <3>8. first(i) <= last(i)
        BY <2>3, <3>1, <3>3
      <3>9. ASSUME NEW j \in 1..n, i < j PROVE last(i) < first(j)
        <4>1. i * size <= (j - 1) * size /\ (j - 1) * size \in Int
          BY <3>4, <3>5, <3>9
        <4> QED
          BY <4>1, <3>1, <3>7
      <3> QED
        BY <3>6, <3>7, <3>8, <3>9
    <2> HIDE DEF first, last
    <2>6. \A i \in 1..n : [from |-> first(i), to |-> last(i)] \in BlockRange
      BY <2>5 DEF BlockRange
    <2> HIDE DEF ranges
    <2>7. ranges \in Seq(BlockRange) /\ Len(ranges) = n
      BY <2>1, <2>3, <2>6
    <2>8. \A i \in 1..n : ranges[i].from = first(i) /\ ranges[i].to = last(i)
      BY <2>1
    <2>9. Ordered(ranges)
      BY <2>5, <2>7, <2>8 DEF Ordered
    <2>10. ranges # <<>>
      BY <2>4, <2>7
    <2> QED
      BY <2>5, <2>7, <2>8, <2>9, <2>10 DEF ranges
  <1> QED
    BY <1>1, <1>2

\* The chunks are not empty, and hold the ranges in their order.
LEMMA ChunkParts ==
    ASSUME NEW ranges \in Seq(BlockRange), ranges # <<>>
    PROVE  /\ Chunked(ranges) \in Seq(Seq(BlockRange))
           /\ \A i \in 1..Len(Chunked(ranges)) :
                /\ Chunked(ranges)[i] # <<>>
                /\ \A k \in 1..Len(Chunked(ranges)[i]) :
                    /\ (i - 1) * ChunkSize + k \in 1..Len(ranges) /\ k <= ChunkSize
                    /\ Chunked(ranges)[i][k] = ranges[(i - 1) * ChunkSize + k]
  <1> DEFINE n == (Len(ranges) + ChunkSize - 1) \div ChunkSize
             last(i) == Min({i * ChunkSize, Len(ranges)})
             cs == Chunked(ranges)
             part(i) == SubSeq(ranges, (i - 1) * ChunkSize + 1, last(i))
  <1>1. ChunkSize \in Nat \ {0} /\ Len(ranges) \in Nat \ {0}
    BY SizesAssumption
  <1>2. cs = [i \in 1..n |-> part(i)]
    BY Zenon DEF Chunked
  <1>3. Len(ranges) + ChunkSize - 1 \in Nat
    BY <1>1
  <1>4. n \in Nat /\ n * ChunkSize <= Len(ranges) + ChunkSize - 1
    BY <1>1, <1>3, Quotient
  <1> HIDE DEF n
  <1>5. ASSUME NEW i \in 1..n
        PROVE  /\ part(i) \in Seq(BlockRange) /\ part(i) # <<>>
               /\ \A k \in 1..Len(part(i)) :
                    /\ (i - 1) * ChunkSize + k \in 1..Len(ranges) /\ k <= ChunkSize
                    /\ part(i)[k] = ranges[(i - 1) * ChunkSize + k]
    <2> DEFINE base == (i - 1) * ChunkSize
    <2>1. i * ChunkSize \in Int /\ i * ChunkSize <= n * ChunkSize /\ base = i * ChunkSize - ChunkSize
      BY <1>1, <1>4, Multiples
    <2>2. 1 * ChunkSize <= i * ChunkSize /\ 1 * ChunkSize = ChunkSize
      BY <1>1, Multiples
    <2>3. last(i) = IF i * ChunkSize <= Len(ranges) THEN i * ChunkSize ELSE Len(ranges)
      BY <1>1, <2>1, MinOfTwo
    <2>4. base \in Nat /\ last(i) \in Nat /\ base + 1 <= last(i) /\ last(i) <= Len(ranges)
          /\ last(i) <= base + ChunkSize
      BY <1>1, <1>4, <2>1, <2>2, <2>3
    <2>5. part(i) = SubSeq(ranges, base + 1, last(i))
      OBVIOUS
    <2> HIDE DEF base, last, part
    <2>6. /\ part(i) \in Seq(BlockRange) /\ Len(part(i)) = last(i) - base
          /\ \A k \in 1..last(i) - base : part(i)[k] = ranges[base + k]
      BY <2>4, <2>5
    <2>7. part(i) # <<>>
      BY <2>4, <2>6
    <2>8. ASSUME NEW k \in 1..Len(part(i))
          PROVE  base + k \in 1..Len(ranges) /\ k <= ChunkSize /\ part(i)[k] = ranges[base + k]
      BY <1>1, <2>4, <2>6
    <2> QED
      BY <2>6, <2>7, <2>8 DEF base
  <1> HIDE DEF part, cs
  <1>6. cs \in Seq(Seq(BlockRange)) /\ Len(cs) = n /\ \A i \in 1..n : cs[i] = part(i)
    BY <1>2, <1>4, <1>5
  <1> QED
    BY <1>5, <1>6 DEF cs

\* Ranges that come one after the other make up such chunks.
LEMMA ChunksInOrder ==
    ASSUME NEW ranges \in Seq(BlockRange), ranges # <<>>, Ordered(ranges), NEW n \in Int,
           \A i \in 1..Len(ranges) : n < ranges[i].from /\ ranges[i].from <= ranges[i].to
    PROVE  Planned(Chunked(ranges), n)
  <1> DEFINE cs == Chunked(ranges)
             at(i, k) == (i - 1) * ChunkSize + k
  <1>1. /\ cs \in Seq(Seq(BlockRange))
        /\ \A i \in 1..Len(cs) : cs[i] # <<>>
        /\ \A i \in 1..Len(cs) : \A k \in 1..Len(cs[i]) :
                at(i, k) \in 1..Len(ranges) /\ k <= ChunkSize /\ cs[i][k] = ranges[at(i, k)]
    BY ChunkParts, Zenon
  <1>2. ChunkSize \in Nat \ {0}
    BY SizesAssumption
  <1> HIDE DEF cs
  <1>3. ASSUME NEW i \in 1..Len(cs), NEW k \in 1..Len(cs[i]), NEW l \in 1..Len(cs[i]), k < l
        PROVE  at(i, k) < at(i, l)
    <2>1. (i - 1) * ChunkSize \in Int
      BY <1>2, Multiples
    <2> QED
      BY <1>1, <1>3, <2>1
  <1>4. ASSUME NEW i \in 1..Len(cs), NEW j \in 1..Len(cs), i < j,
               NEW k \in 1..Len(cs[i]), NEW l \in 1..Len(cs[j])
        PROVE  at(i, k) < at(j, l)
    <2>1. i * ChunkSize \in Int /\ (i - 1) * ChunkSize = i * ChunkSize - ChunkSize
      BY <1>2, Multiples
    <2>2. i * ChunkSize <= (j - 1) * ChunkSize /\ (j - 1) * ChunkSize \in Int
      BY <1>2, <1>4, Multiples
    <2>3. cs[i] \in Seq(BlockRange) /\ cs[j] \in Seq(BlockRange) /\ k <= ChunkSize
      BY <1>1
    <2>4. k \in Int /\ l \in Int /\ l >= 1
      BY <2>3
    <2> DEFINE a == (i - 1) * ChunkSize
               b == (j - 1) * ChunkSize
               c == i * ChunkSize
    <2>5. c \in Int /\ a = c - ChunkSize /\ c <= b /\ b \in Int
      BY <2>1, <2>2
    <2> HIDE DEF a, b, c
    <2>6. a + k < b + l
      BY <1>2, <2>3, <2>4, <2>5
    <2> QED
      BY <2>6 DEF a, b
  <1> HIDE DEF at
  <1>5. \A i \in 1..Len(cs) : Ordered(cs[i])
    BY <1>1, <1>3, Zenon DEF Ordered
  <1>6. \A i, j \in 1..Len(cs) : i < j => \A k \in 1..Len(cs[i]) : \A l \in 1..Len(cs[j]) : cs[i][k].to < cs[j][l].from
    BY <1>1, <1>4, Zenon DEF Ordered
  <1>7. \A i \in 1..Len(cs) : \A k \in 1..Len(cs[i]) : n < cs[i][k].from /\ cs[i][k].from <= cs[i][k].to
    BY <1>1, Zenon
  <1> QED
    BY <1>1, <1>5, <1>6, <1>7 DEF Planned, cs

\* The blocks of a chain are told apart by their numbers, and an answer is about
\* those of its query.
LEMMA Answer ==
    ASSUME chain \in Chains, NEW r \in BlockRange
    PROVE  /\ FilterLogs(r) \subseteq Result
           /\ \A l \in FilterLogs(r) : r.from <= Number[l.block] /\ Number[l.block] <= r.to
           /\ \A k, l \in FilterLogs(r) : Number[k.block] = Number[l.block] => k = l
  <1>1. chain \in Seq(Block) /\ \A n \in 1..Len(chain) : Number[chain[n]] = n
    BY HeadersAssumption
  <1>2. Range(chain) \subseteq Block /\ \A b, c \in Range(chain) : Number[b] = Number[c] => b = c
    BY <1>1 DEF Range
  <1>3. /\ BlocksIn(r) \subseteq Range(chain)
        /\ \A b \in BlocksIn(r) : r.from <= Number[b] /\ Number[b] <= r.to
    BY Zenon DEF BlocksIn
  <1>4. \A l \in FilterLogs(r) : l.block \in BlocksIn(r) /\ l = [block |-> l.block, query |-> r]
    BY DEF FilterLogs
  <1>5. FilterLogs(r) \subseteq Result
    BY <1>2, <1>3, <1>4 DEF Result
  <1>6. ASSUME NEW k \in FilterLogs(r), NEW l \in FilterLogs(r), Number[k.block] = Number[l.block]
        PROVE  k = l
    <2>1. k.block = l.block
      BY <1>2, <1>3, <1>4, <1>6, Zenon
    <2> QED
      BY <1>4, <2>1, Zenon
  <1> QED
    BY <1>3, <1>4, <1>5, <1>6, Zenon

\* The two halves of a range.
LEMMA HalvesOf ==
    ASSUME NEW r \in BlockRange, r.from <= r.to, r.from # r.to
    PROVE  \E m \in Int : /\ r.from <= m /\ m < r.to
                          /\ Halves(r) = <<[from |-> r.from, to |-> m], [from |-> m + 1, to |-> r.to]>>
  <1> DEFINE half == (r.to - r.from) \div 2
  <1>1. r = [from |-> r.from, to |-> r.to] /\ r.from \in Int /\ r.to \in Int
    BY DEF BlockRange
  <1>2. half \in Int /\ 0 <= half /\ half < r.to - r.from
    BY <1>1
  <1>3. Halves(r) = <<[r EXCEPT !.to = r.from + half], [r EXCEPT !.from = r.from + half + 1]>>
    BY DEF Halves
  <1> HIDE DEF half
  <1>4. /\ [r EXCEPT !.to = r.from + half] = [from |-> r.from, to |-> r.from + half]
        /\ [r EXCEPT !.from = r.from + half + 1] = [from |-> r.from + half + 1, to |-> r.to]
    BY <1>1
  <1>5. r.from + half \in Int /\ r.from <= r.from + half /\ r.from + half < r.to
    BY <1>1, <1>2
  <1> QED
    BY <1>3, <1>4, <1>5

\* What is left to ask for, when the first range is split and when it is answered.
LEMMA SplitKeepsOrder ==
    ASSUME NEW todo \in Seq(BlockRange), todo # <<>>, Ordered(todo), NEW a \in Int, NEW b \in Int,
           \A t \in 1..Len(todo) : a <= todo[t].from /\ todo[t].from <= todo[t].to /\ todo[t].to <= b,
           Head(todo).from # Head(todo).to,
           NEW S \in SUBSET Int, \A n \in S : \A t \in 1..Len(todo) : n < todo[t].from
    PROVE  LET more == Halves(Head(todo)) \o Tail(todo)
           IN  /\ more \in Seq(BlockRange) /\ more # <<>> /\ Ordered(more)
               /\ \A t \in 1..Len(more) : a <= more[t].from /\ more[t].from <= more[t].to /\ more[t].to <= b
               /\ \A n \in S : \A t \in 1..Len(more) : n < more[t].from
  <1> DEFINE r == Head(todo)
             more == Halves(r) \o Tail(todo)
  <1>1. /\ r = todo[1] /\ r \in BlockRange /\ Len(todo) \in Nat \ {0} /\ Tail(todo) \in Seq(BlockRange)
        /\ Len(Tail(todo)) = Len(todo) - 1 /\ \A t \in 1..Len(todo) - 1 : Tail(todo)[t] = todo[t + 1]
    OBVIOUS
  <1>2. a <= r.from /\ r.from <= r.to /\ r.to <= b /\ r.from \in Int /\ r.to \in Int
    BY <1>1 DEF BlockRange
  <1>3. PICK m \in Int : /\ r.from <= m /\ m < r.to
                         /\ Halves(r) = <<[from |-> r.from, to |-> m], [from |-> m + 1, to |-> r.to]>>
    BY <1>1, <1>2, HalvesOf, Zenon
  <1> HIDE DEF r
  <1> DEFINE x == [from |-> r.from, to |-> m]
             y == [from |-> m + 1, to |-> r.to]
  <1>4. x \in BlockRange /\ y \in BlockRange
    BY <1>2, <1>3 DEF BlockRange
  <1>5. x.from = r.from /\ x.to = m /\ y.from = m + 1 /\ y.to = r.to
    OBVIOUS
  <1>6. Halves(r) = <<x, y>>
    BY <1>3
  <1> HIDE DEF x, y
  <1>7. /\ more \in Seq(BlockRange) /\ Len(more) = Len(todo) + 1 /\ more[1] = x /\ more[2] = y
        /\ \A t \in 3..Len(more) : more[t] = todo[t - 1]
    BY <1>1, <1>4, <1>6
  <1> HIDE DEF more
  <1>8. \A t \in 2..Len(todo) : r.to < todo[t].from
    BY <1>1 DEF Ordered
  <1>9. ASSUME NEW t \in 1..Len(todo) PROVE todo[t].from \in Int /\ todo[t].to \in Int
    <2>1. todo[t] \in BlockRange
      OBVIOUS
    <2> QED
      BY <2>1 DEF BlockRange
  <1>10. \A t \in 1..Len(more) : t = 1 \/ t = 2 \/ (t \in 3..Len(more) /\ t - 1 \in 2..Len(todo))
    BY <1>1, <1>7
  <1>11. ASSUME NEW t \in 1..Len(more)
         PROVE  /\ a <= more[t].from /\ more[t].from <= more[t].to /\ more[t].to <= b
                /\ \A n \in S : n < more[t].from
    <2>1. CASE t = 1
      BY <1>1, <1>2, <1>3, <1>5, <1>7, <2>1
    <2>2. CASE t = 2
      <3>1. \A n \in S : n < r.from /\ n \in Int
        BY <1>1
      <3> QED
        BY <1>1, <1>2, <1>3, <1>5, <1>7, <2>2, <3>1
    <2>3. CASE t \in 3..Len(more) /\ t - 1 \in 2..Len(todo)
      <3>1. t - 1 \in 1..Len(todo) /\ more[t] = todo[t - 1]
        BY <1>1, <1>7, <2>3
      <3> QED
        BY <3>1
    <2> QED
      BY <1>10, <2>1, <2>2, <2>3
  <1>12. ASSUME NEW t \in 1..Len(more), NEW u \in 1..Len(more), t < u
         PROVE  more[t].to < more[u].from
    <2>1. CASE u = 2
      BY <1>1, <1>3, <1>5, <1>7, <1>10, <1>12, <2>1
    <2>2. CASE u # 2
      <3>0. u # 1
        BY <1>1, <1>7, <1>12
      <3>1. u \in 3..Len(more) /\ u - 1 \in 2..Len(todo) /\ more[u] = todo[u - 1]
        BY <1>7, <1>10, <2>2, <3>0
      <3>2. CASE t \in {1, 2}
        <4>1. more[t].to <= r.to /\ more[t].to \in Int
          BY <1>2, <1>3, <1>5, <1>7, <3>2
        <4>2. r.to < more[u].from /\ more[u].from \in Int
          BY <1>8, <1>9, <3>1
        <4> QED
          BY <1>2, <4>1, <4>2
      <3>3. CASE t \notin {1, 2}
        <4>1. t - 1 \in 1..Len(todo) /\ u - 1 \in 1..Len(todo) /\ t - 1 < u - 1 /\ more[t] = todo[t - 1]
          BY <1>1, <1>7, <1>10, <1>12, <3>1, <3>3
        <4> QED
          BY <3>1, <4>1 DEF Ordered
      <3> QED
        BY <3>2, <3>3
    <2> QED
      BY <2>1, <2>2
  <1>13. more # <<>>
    BY <1>1, <1>7
  <1> QED
    BY <1>7, <1>11, <1>12, <1>13, Zenon DEF Ordered, more, r

\* The fields of a request.
LEMMA RequestFields ==
    ASSUME NEW req \in Request
    PROVE  /\ DOMAIN req = {"range", "at", "todo", "logs", "err"}
           /\ req.range \in BlockRange /\ req.at \in At /\ req.todo \in Seq(BlockRange)
           /\ req.logs \in SUBSET Result /\ req.err \in BOOLEAN
  BY DEF Request

\* A request that failed has no logs.
LEMMA FailedRequest ==
    ASSUME NEW req \in Request, req.range.from <= req.range.to
    PROVE  RequestFails(req) \in Request /\ Requested(RequestFails(req)) /\ RequestFails(req).range = req.range
  <1> DEFINE new == RequestFails(req)
  <1>1. /\ DOMAIN req = {"range", "at", "todo", "logs", "err"}
        /\ req.range \in BlockRange /\ req.todo \in Seq(BlockRange)
    BY RequestFields, Zenon
  <1>2. new = [req EXCEPT !.at = "store", !.err = TRUE, !.logs = {}]
    BY DEF RequestFails
  <1> HIDE DEF new
  <1>3. new = [range |-> req.range, at |-> "store", todo |-> req.todo, logs |-> {}, err |-> TRUE]
    BY <1>1, <1>2, Zenon
  <1>4. new \in Request
    BY <1>1, <1>3 DEF Request, At
  <1>5. new.at = "store" /\ new.logs = {} /\ new.range = req.range
    BY <1>3
  <1>6. Requested(new)
    BY <1>5 DEF Requested
  <1> QED
    BY <1>4, <1>5, <1>6 DEF new

\* One that is split asks for less at a time.
LEMMA SplitRequest ==
    ASSUME NEW req \in Request, Requested(req), req.at = "query"
    PROVE  RequestSplit(req) \in Request /\ Requested(RequestSplit(req)) /\ RequestSplit(req).range = req.range
  <1>1. CASE Head(req.todo).from = Head(req.todo).to
    <2>1. RequestSplit(req) = RequestFails(req)
      BY <1>1, Zenon DEF RequestSplit
    <2> QED
      BY <2>1, FailedRequest, Zenon DEF Requested
  <1>2. CASE Head(req.todo).from # Head(req.todo).to
    <2> DEFINE new == RequestSplit(req)
               more == Halves(Head(req.todo)) \o Tail(req.todo)
               S == {Number[l.block] : l \in req.logs}
    <2>1. new = [req EXCEPT !.todo = more]
      BY <1>2, Zenon DEF RequestSplit
    <2>2. /\ req.todo \in Seq(BlockRange) /\ req.range.from \in Int /\ req.range.to \in Int
          /\ req.logs \in SUBSET Result
      BY DEF Request, BlockRange
    <2>3. S \in SUBSET Int
      BY <2>2, HeadersAssumption DEF Result
    <2>4. /\ req.todo # <<>> /\ Ordered(req.todo)
          /\ \A t \in 1..Len(req.todo) : /\ req.range.from <= req.todo[t].from /\ req.todo[t].from <= req.todo[t].to
                                         /\ req.todo[t].to <= req.range.to
          /\ \A n \in S : \A t \in 1..Len(req.todo) : n < req.todo[t].from
      BY DEF Requested
    <2>5. /\ more \in Seq(BlockRange) /\ more # <<>> /\ Ordered(more)
          /\ \A t \in 1..Len(more) : req.range.from <= more[t].from /\ more[t].from <= more[t].to /\ more[t].to <= req.range.to
          /\ \A n \in S : \A t \in 1..Len(more) : n < more[t].from
      <3> HIDE DEF S
      <3> QED
        BY <1>2, <2>2, <2>3, <2>4, SplitKeepsOrder, Zenon
    <2> HIDE DEF new, more
    <2>6. new \in Request /\ new.todo = more /\ new.at = "query" /\ new.logs = req.logs /\ new.range = req.range
      BY <2>1, <2>5 DEF Request
    <2>7. \A l \in req.logs : Number[l.block] \in S
      OBVIOUS
    <2>8. Requested(new)
      <3> HIDE DEF S
      <3> QED
        BY <2>5, <2>6, <2>7, Zenon DEF Requested
    <2> QED
      BY <2>6, <2>8 DEF new
  <1> QED
    BY <1>1, <1>2

\* One that is answered gets the logs of its first range.
LEMMA AnsweredRequest ==
    ASSUME NEW req \in Request, Requested(req), req.at = "query", chain \in Chains
    PROVE  RequestAnswered(req) \in Request /\ Requested(RequestAnswered(req)) /\ RequestAnswered(req).range = req.range
  <1> DEFINE new == RequestAnswered(req)
             r == Head(req.todo)
             found == FilterLogs(r)
  <1>1. /\ req.todo \in Seq(BlockRange) /\ req.range.from \in Int /\ req.range.to \in Int
        /\ req.logs \in SUBSET Result
    BY DEF Request, BlockRange
  <1>2. /\ req.todo # <<>> /\ Ordered(req.todo)
        /\ \A t \in 1..Len(req.todo) : /\ req.range.from <= req.todo[t].from /\ req.todo[t].from <= req.todo[t].to
                                       /\ req.todo[t].to <= req.range.to
                                       /\ \A l \in req.logs : Number[l.block] < req.todo[t].from
        /\ req.range.from <= req.range.to
        /\ \A l \in req.logs : req.range.from <= Number[l.block] /\ Number[l.block] <= req.range.to
        /\ \A k, l \in req.logs : Number[k.block] = Number[l.block] => k = l
    BY Zenon DEF Requested
  <1>3. /\ r = req.todo[1] /\ r \in BlockRange /\ Len(req.todo) \in Nat \ {0} /\ Tail(req.todo) \in Seq(BlockRange)
        /\ Len(Tail(req.todo)) = Len(req.todo) - 1 /\ \A t \in 1..Len(req.todo) - 1 : Tail(req.todo)[t] = req.todo[t + 1]
    BY <1>1, <1>2
  <1>4. /\ found \subseteq Result
        /\ \A l \in found : r.from <= Number[l.block] /\ Number[l.block] <= r.to
        /\ \A k, l \in found : Number[k.block] = Number[l.block] => k = l
    <2> HIDE DEF r
    <2> QED
      BY <1>3, Answer, Zenon
  <1>5. new = [req EXCEPT !.logs = req.logs \cup found, !.todo = Tail(req.todo),
                          !.at = IF Len(req.todo) = 1 THEN "store" ELSE req.at]
    BY DEF RequestAnswered
  <1> HIDE DEF new, found
  <1>6. /\ new \in Request /\ new.todo = Tail(req.todo) /\ new.range = req.range /\ new.logs = req.logs \cup found
        /\ Len(req.todo) = 1 => new.at = "store"
    <2>1. /\ DOMAIN req = {"range", "at", "todo", "logs", "err"}
          /\ req.range \in BlockRange /\ req.at \in At /\ req.err \in BOOLEAN
      BY DEF Request
    <2> DEFINE at == IF Len(req.todo) = 1 THEN "store" ELSE req.at
               tail == Tail(req.todo)
               logs == req.logs \cup found
    <2>2. at \in At /\ logs \in SUBSET Result /\ tail \in Seq(BlockRange) /\ (Len(req.todo) = 1 => at = "store")
      BY <1>1, <1>3, <1>4, <2>1 DEF At
    <2> HIDE DEF at, tail, logs
    <2>3. new = [range |-> req.range, at |-> at, todo |-> tail, logs |-> logs, err |-> req.err]
      BY <1>5, <2>1, Zenon DEF at, tail, logs
    <2>4. new \in Request
      BY <2>1, <2>2, <2>3 DEF Request
    <2>5. new.todo = tail /\ new.range = req.range /\ new.logs = logs /\ new.at = at
      BY <2>3
    <2> QED
      BY <2>2, <2>4, <2>5 DEF tail, logs
  <1>7. /\ req.range.from <= r.from /\ r.from <= r.to /\ r.to <= req.range.to /\ r.from \in Int /\ r.to \in Int
        /\ \A l \in req.logs : Number[l.block] < r.from
    BY <1>2, <1>3 DEF BlockRange
  <1> HIDE DEF r
  <1>8. \A l \in Result : Number[l.block] \in Int
    BY HeadersAssumption DEF Result
  <1>9. \A l \in new.logs : req.range.from <= Number[l.block] /\ Number[l.block] <= r.to /\ Number[l.block] <= req.range.to
    BY <1>1, <1>2, <1>4, <1>6, <1>7, <1>8
  <1>10. ASSUME NEW k \in new.logs, NEW l \in new.logs, Number[k.block] = Number[l.block] PROVE k = l
    <2>1. CASE k \in req.logs /\ l \in req.logs
      BY <1>2, <1>10, <2>1, Zenon
    <2>2. CASE k \in found /\ l \in found
      BY <1>4, <1>10, <2>2, Zenon
    <2>3. ASSUME NEW x \in req.logs, NEW y \in found PROVE Number[x.block] # Number[y.block]
      BY <1>1, <1>4, <1>7, <1>8
    <2> QED
      BY <1>6, <1>10, <2>1, <2>2, <2>3
  <1>11. ASSUME Len(req.todo) # 1
         PROVE  /\ new.todo # <<>> /\ Ordered(new.todo)
                /\ \A t \in 1..Len(new.todo) :
                    /\ req.range.from <= new.todo[t].from /\ new.todo[t].from <= new.todo[t].to
                    /\ new.todo[t].to <= req.range.to
                    /\ r.to < new.todo[t].from
    <2>1. Len(new.todo) = Len(req.todo) - 1 /\ Len(new.todo) \in Nat \ {0}
      BY <1>3, <1>6, <1>11
    <2>2. \A t \in 1..Len(new.todo) : t + 1 \in 2..Len(req.todo) /\ new.todo[t] = req.todo[t + 1]
      BY <1>3, <1>6, <2>1
    <2>3. Ordered(new.todo)
      <3> SUFFICES ASSUME NEW i \in 1..Len(new.todo), NEW j \in 1..Len(new.todo), i < j
                   PROVE  new.todo[i].to < new.todo[j].from
        BY DEF Ordered
      <3>1. i + 1 \in 1..Len(req.todo) /\ j + 1 \in 1..Len(req.todo) /\ i + 1 < j + 1
        BY <1>3, <2>1, <2>2
      <3> QED
        BY <1>2, <2>2, <3>1, Zenon DEF Ordered
    <2>4. \A t \in 2..Len(req.todo) : r.to < req.todo[t].from
      BY <1>2, <1>3 DEF Ordered
    <2>5. \A t \in 2..Len(req.todo) : t \in 1..Len(req.todo)
      BY <1>3
    <2>6. Len(new.todo) # 0
      BY <2>1
    <2>7. new.todo # <<>>
      BY <2>6, NotEmpty, Zenon
    <2> QED
      BY <1>2, <2>2, <2>3, <2>4, <2>5, <2>7, Zenon
  <1>12. Len(req.todo) # 1 =>
            \A t \in 1..Len(new.todo) : \A l \in new.logs : Number[l.block] < new.todo[t].from
    <2> SUFFICES ASSUME Len(req.todo) # 1, NEW t \in 1..Len(new.todo), NEW l \in new.logs
                 PROVE  Number[l.block] < new.todo[t].from
      OBVIOUS
    <2>1. new.todo[t] \in BlockRange /\ l \in Result
      BY <1>1, <1>3, <1>4, <1>6
    <2>2. new.todo[t].from \in Int /\ Number[l.block] \in Int /\ r.to < new.todo[t].from /\ Number[l.block] <= r.to
      BY <1>8, <1>9, <1>11, <2>1 DEF BlockRange
    <2> QED
      BY <1>7, <2>2
  <1>13. Requested(new)
    BY <1>2, <1>6, <1>9, <1>10, <1>11, <1>12, Zenon DEF Requested
  <1> QED
    BY <1>6, <1>13 DEF new

\* The smallest number of a set.
LEMMA Smallest ==
    ASSUME NEW S \in SUBSET Nat, S # {}
    PROVE  \E m \in S : \A n \in S : m <= n
  <1> DEFINE R == {ss \in Nat \X Nat : ss[1] < ss[2]}
  <1>1. IsWellFoundedOn(R, Nat)
    BY NatLessThanWellFounded DEF OpToRel
  <1>2. PICK m \in S : \A n \in S : ~(<<n, m>> \in R)
    BY <1>1, WFMin, Zenon
  <1>3. \A n \in S : <<n, m>> \notin R => m <= n
    OBVIOUS
  <1> QED
    BY <1>2, <1>3, Zenon

\* The requests before the first one that failed are the first so many.
LEMMA SucceededFirst ==
    ASSUME requests \in Seq(Request)
    PROVE  \E done \in 0..Len(requests) : Cardinality(Succeeded) = done /\ \A i \in 1..done : ~requests[i].err
  <1> DEFINE n == Len(requests)
             bad == {i \in Nat : i = n \/ (i < n /\ requests[i + 1].err)}
  <1>1. n \in Nat /\ DOMAIN requests = 1..n
    OBVIOUS
  <1>2. n \in bad /\ bad \in SUBSET Nat
    BY <1>1
  <1> HIDE DEF bad
  <1>3. PICK m \in bad : \A i \in bad : m <= i
    BY <1>2, Smallest
  <1>4. m \in Nat /\ m <= n
    BY <1>2, <1>3
  <1>5. ASSUME NEW i \in 1..m PROVE ~requests[i].err
    <2>1. i - 1 \in Nat /\ i - 1 < m /\ i - 1 < n /\ (i - 1) + 1 = i
      BY <1>1, <1>4
    <2>2. i - 1 \notin bad
      BY <1>3, <1>4, <2>1
    <2> QED
      BY <2>1, <2>2 DEF bad
  <1>6. m < n => requests[m + 1].err
    BY <1>3, <1>4 DEF bad
  <1>7. ASSUME NEW i \in 1..m PROVE i \in DOMAIN requests /\ \A j \in 1..i : ~requests[j].err
    <2>1. \A j \in 1..i : j \in 1..m
      BY <1>4
    <2> QED
      BY <1>1, <1>4, <1>5, <2>1
  <1>8. ASSUME NEW i \in DOMAIN requests, \A j \in 1..i : ~requests[j].err PROVE i \in 1..m
    <2>1. i \in 1..n
      BY <1>1
    <2> SUFFICES ASSUME m < i PROVE FALSE
      BY <1>1, <1>4, <2>1
    <2>2. m + 1 \in 1..i /\ m < n
      BY <1>1, <1>4, <2>1
    <2> QED
      BY <1>6, <1>8, <2>2
  <1>9. Succeeded = 1..m
    BY <1>7, <1>8 DEF Succeeded
  <1>10. Cardinality(1..m) = m
    BY <1>4, FS_Interval
  <1>11. m \in 0..Len(requests)
    BY <1>1, <1>4
  <1> QED
    BY <1>5, <1>9, <1>10, <1>11, Zenon

\* Nothing has been asked at first.
LEMMA BackfillInit == Init => BackfillInv
  <1> SUFFICES ASSUME Init PROVE BackfillInv
    OBVIOUS
  <1>1. stack \in Seq(Block)
    <2>1. PICK c \in Chains : \E n \in 0..Len(c) : stack = SubSeq(c, 1, n)
      BY DEF Init
    <2>2. PICK n \in 0..Len(c) : stack = SubSeq(c, 1, n)
      BY <2>1
    <2>3. c \in Seq(Block)
      BY HeadersAssumption
    <2> QED
      BY <2>2, <2>3
  <1>2. /\ chain \in Chains /\ allLogs = {} /\ failed = FALSE /\ start = Top /\ pc = "start"
        /\ elapsed = 0 /\ furthest = 0 /\ chunks = <<>> /\ requests = <<>>
    BY DEF Init
  <1>3. HeightsOnce
    BY <1>2 DEF HeightsOnce
  <1> QED
    BY <1>1, <1>2, <1>3 DEF BackfillInv

\* A step that is not about logs.
LEMMA LogsStay ==
    ASSUME BackfillInv, chain' \in Chains, UNCHANGED <<elapsed, logVars, start>>,
           pc' \in {"push", "group", "send", "returned"} \/ UNCHANGED <<pc, stack>>
    PROVE  BackfillInv'
  <1>1. /\ elapsed' = elapsed /\ chunks' = chunks /\ requests' = requests /\ failed' = failed
        /\ furthest' = furthest /\ allLogs' = allLogs /\ start' = start
    BY DEF logVars
  <1>2. HeightsOnce'
    BY <1>1 DEF HeightsOnce, BackfillInv
  <1>3. CASE pc' \in {"push", "group", "send", "returned"}
    BY <1>1, <1>2, <1>3 DEF BackfillInv
  <1>4. CASE UNCHANGED <<pc, stack>>
    <2>1. (Top' = Top) /\ (Asked' <=> Asked) /\ (NothingAsked' <=> NothingAsked)
      BY <1>1, <1>4, Zenon DEF Top, Asked, NothingAsked
    <2> QED
      BY <1>1, <1>2, <1>4, <2>1 DEF BackfillInv
  <1> QED
    BY <1>3, <1>4

\* The first steps.
LEMMA StartKeeps ==
    ASSUME BackfillInv, FastSyncToLatestBlock
    PROVE  BackfillInv'
  <1>1. /\ chain' = chain /\ stack' = stack /\ UNCHANGED <<elapsed, logVars, start>>
        /\ pc = "start" /\ (pc' = "returned" \/ (pc' = "latest" /\ Top # NoBlock))
    BY DEF FastSyncToLatestBlock, Return, history
  <1>2. CASE pc' = "returned"
    BY <1>1, <1>2, LogsStay DEF BackfillInv
  <1>3. CASE pc' = "latest" /\ Top # NoBlock
    <2>1. Top \in Block
      BY <1>1, <1>3 DEF Top, BackfillInv
    <2>2. /\ elapsed' = elapsed /\ chunks' = chunks /\ requests' = requests /\ failed' = failed
          /\ furthest' = furthest /\ allLogs' = allLogs /\ start' = start /\ Top' = Top
      BY <1>1 DEF logVars, Top
    <2>3. HeightsOnce'
      BY <2>2 DEF HeightsOnce, BackfillInv
    <2> QED
      BY <1>1, <1>3, <2>1, <2>2, <2>3 DEF BackfillInv
  <1> QED
    BY <1>1, <1>2, <1>3

\* The ranges above the block stored last are planned.
LEMMA LatestKeeps ==
    ASSUME BackfillInv, Latest
    PROVE  BackfillInv'
  <1> DEFINE top == Number[Top]
             behind == Len(chain) - top
             ranges == getSubBlockRanges(top + 1, top + behind, RangeSize)
  <1>1. /\ pc = "latest" /\ elapsed' = behind
        /\ UNCHANGED <<chain, requests, failed, allLogs, start>>
        /\ \/ behind = 0 /\ pc' = "returned" /\ UNCHANGED <<stack, chunks, furthest>>
           \/ behind # 0 /\ pc' = "chunk" /\ chunks' = Chunked(ranges) /\ furthest' = top
           \/ pc' = "returned" /\ UNCHANGED <<chunks, furthest>>
    BY Zenon DEF Latest, Return, history
  <1>2. /\ start = Top /\ start \in Block /\ top \in Nat /\ chain \in Seq(Block) /\ allLogs = {} /\ ~failed
        /\ chunks \in Seq(Seq(BlockRange)) /\ requests \in Seq(Request) /\ furthest \in Int /\ chain \in Chains
    BY <1>1, HeadersAssumption DEF BackfillInv
  <1>3. behind \in Int
    BY <1>2
  <1>4. HeightsOnce'
    BY <1>1, <1>2 DEF HeightsOnce
  <1>5. CASE pc' = "returned" /\ UNCHANGED <<chunks, furthest>>
    BY <1>1, <1>2, <1>3, <1>4, <1>5 DEF BackfillInv
  <1>6. CASE behind # 0 /\ pc' = "chunk" /\ chunks' = Chunked(ranges) /\ furthest' = top
    <2>1. CASE behind > 0
      <3> HIDE DEF top, behind
      <3>1. top + 1 \in Int /\ top + behind \in Int /\ top + 1 <= top + behind
        BY <1>2, <1>3, <2>1
      <3>2. /\ ranges \in Seq(BlockRange) /\ ranges # <<>> /\ Ordered(ranges)
            /\ \A i \in 1..Len(ranges) : top + 1 <= ranges[i].from /\ ranges[i].from <= ranges[i].to
        BY <3>1, SizesAssumption, RangesInOrder, Zenon
      <3> HIDE DEF ranges
      <3>3. ASSUME NEW i \in 1..Len(ranges) PROVE ranges[i].from \in Int
        <4>1. ranges[i] \in BlockRange
          BY <3>2
        <4> QED
          BY <4>1 DEF BlockRange
      <3>4. \A i \in 1..Len(ranges) : top < ranges[i].from /\ ranges[i].from <= ranges[i].to
        BY <1>2, <3>2, <3>3
      <3>6. Chunked(ranges) \in Seq(Seq(BlockRange))
        BY <3>2, ChunkParts
      <3>7. top <= top /\ top \in Int
        BY <1>2
      <3>5. Planned(Chunked(ranges), top)
        BY <3>2, <3>4, <3>7, ChunksInOrder, Zenon
      <3>8. Number[start'] <= furthest'
        BY <1>1, <1>2, <1>6, <3>7 DEF top
      <3> QED
        BY <1>1, <1>2, <1>3, <1>4, <1>6, <2>1, <3>5, <3>6, <3>7, <3>8 DEF BackfillInv
    <2>2. CASE behind < 0
      <3> DEFINE r == [from |-> top + 1, to |-> top + behind]
      <3>1. r \in BlockRange /\ EmptyRange(r)
        <4> HIDE DEF top, behind
        <4> QED
          BY <1>2, <1>3, <2>2 DEF BlockRange, EmptyRange
      <3>2. (top + behind) - (top + 1) < RangeSize
        <4> HIDE DEF top, behind
        <4> QED
          BY <1>2, <1>3, <2>2, SizesAssumption
      <3>3. ranges = <<r>>
        BY <3>2, Zenon DEF getSubBlockRanges
      <3> HIDE DEF r, ranges, top, behind
      <3>4. ranges \in Seq(BlockRange) /\ Len(ranges) = 1 /\ ranges[1] = r /\ ranges # <<>>
        BY <3>1, <3>3
      <3>5. /\ Chunked(ranges) \in Seq(Seq(BlockRange))
            /\ \A i \in 1..Len(Chunked(ranges)) :
                /\ Chunked(ranges)[i] # <<>>
                /\ \A k \in 1..Len(Chunked(ranges)[i]) : Chunked(ranges)[i][k] = r
        <4>1. \A p \in 1..Len(ranges) : ranges[p] = r
          BY <3>4
        <4>2. /\ Chunked(ranges) \in Seq(Seq(BlockRange))
              /\ \A i \in 1..Len(Chunked(ranges)) :
                    /\ Chunked(ranges)[i] # <<>>
                    /\ \A k \in 1..Len(Chunked(ranges)[i]) :
                        /\ (i - 1) * ChunkSize + k \in 1..Len(ranges) /\ k <= ChunkSize
                        /\ Chunked(ranges)[i][k] = ranges[(i - 1) * ChunkSize + k]
          BY <3>4, ChunkParts, Zenon
        <4> QED
          BY <4>1, <4>2, Zenon
      <3>6. NothingAsked'
        <4>1. allLogs' = {} /\ chunks' = Chunked(ranges) /\ pc' # "requests"
          BY <1>1, <1>2, <1>6
        <4> QED
          BY <3>1, <3>5, <4>1, Zenon DEF NothingAsked
      <3>7. ~(behind > 0) /\ top \in Int
        BY <1>2, <1>3, <2>2
      <3> QED
        BY <1>1, <1>2, <1>3, <1>4, <1>6, <3>5, <3>6, <3>7 DEF BackfillInv
    <2> QED
      BY <1>3, <1>6, <2>1, <2>2
  <1> QED
    BY <1>1, <1>5, <1>6

\* The first element of a sequence and the others.
LEMMA HeadAndTail ==
    ASSUME NEW S, NEW s \in Seq(S), s # <<>>
    PROVE  /\ Head(s) = s[1] /\ Head(s) \in S /\ Len(s) \in Nat \ {0} /\ 1 \in 1..Len(s)
           /\ Tail(s) \in Seq(S) /\ Len(Tail(s)) = Len(s) - 1
           /\ \A i \in 1..Len(s) - 1 : Tail(s)[i] = s[i + 1]
  OBVIOUS

\* One goroutine for each range of the next chunk.
LEMMA ChunkKeeps ==
    ASSUME BackfillInv, StartChunk
    PROVE  BackfillInv'
  <1> DEFINE ranges == Head(chunks)
             new(i) == [range |-> ranges[i], at |-> "check", todo |-> <<ranges[i]>>, logs |-> {}, err |-> FALSE]
  <1>1. /\ pc = "chunk" /\ chunks # <<>> /\ ~failed /\ pc' = "requests" /\ chunks' = Tail(chunks)
        /\ requests' = [i \in DOMAIN ranges |-> new(i)]
        /\ UNCHANGED <<chain, elapsed, failed, furthest, allLogs, start>>
    BY Zenon DEF StartChunk, history
  <1>2. /\ chain \in Chains /\ start \in Block /\ elapsed \in Int /\ furthest \in Int /\ allLogs \in SUBSET Result
        /\ chunks \in Seq(Seq(BlockRange))
        /\ elapsed > 0 => Number[start] <= furthest /\ Planned(chunks, furthest)
        /\ elapsed <= 0 => NothingAsked
    BY <1>1, Zenon DEF BackfillInv
  <1>3. HeightsOnce'
    BY <1>1 DEF HeightsOnce, BackfillInv
  <1>4. /\ ranges = chunks[1] /\ ranges \in Seq(BlockRange) /\ Len(chunks) \in Nat \ {0} /\ 1 \in 1..Len(chunks)
        /\ Tail(chunks) \in Seq(Seq(BlockRange)) /\ Len(Tail(chunks)) = Len(chunks) - 1
        /\ \A i \in 1..Len(chunks) - 1 : Tail(chunks)[i] = chunks[i + 1]
    BY <1>1, <1>2, HeadAndTail, Zenon
  <1>5. ranges # <<>>
    <2>1. elapsed > 0 \/ elapsed <= 0
      BY <1>2
    <2>2. \A j \in 1..Len(chunks) : chunks[j] # <<>>
      BY <1>2, <2>1, Zenon DEF Planned, NothingAsked
    <2> QED
      BY <1>4, <2>2, Zenon
  <1> HIDE DEF ranges
  <1>6. DOMAIN ranges = 1..Len(ranges) /\ Len(ranges) \in Nat \ {0} /\ \A i \in 1..Len(ranges) : ranges[i] \in BlockRange
    BY <1>4, <1>5
  <1>7. ASSUME NEW i \in 1..Len(ranges)
        PROVE  /\ new(i) \in Request /\ new(i).range = ranges[i] /\ new(i).logs = {}
               /\ new(i).todo \in Seq(BlockRange) /\ Len(new(i).todo) = 1 /\ new(i).todo[1] = ranges[i]
    BY <1>6 DEF Request, At
  <1> HIDE DEF new
  <1>8. /\ requests' \in Seq(Request) /\ Len(requests') = Len(ranges) /\ requests' # <<>>
        /\ \A i \in 1..Len(ranges) : requests'[i] = new(i)
    <2>1. requests' = [i \in 1..Len(ranges) |-> new(i)]
      BY <1>1, <1>6
    <2>2. requests' \in Seq(Request) /\ Len(requests') = Len(ranges)
      BY <1>6, <1>7, <2>1
    <2> QED
      BY <1>6, <2>1, <2>2, NotEmpty
  <1>9. \A i \in 1..Len(Tail(chunks)) : i + 1 \in 1..Len(chunks) /\ 1 < i + 1 /\ Tail(chunks)[i] = chunks[i + 1]
    BY <1>4
  <1>10. CASE elapsed > 0
    <2>1. /\ Ordered(ranges)
          /\ \A k \in 1..Len(ranges) : furthest < ranges[k].from /\ ranges[k].from <= ranges[k].to
          /\ \A j \in 2..Len(chunks) : \A k \in 1..Len(ranges) : \A l \in 1..Len(chunks[j]) : ranges[k].to < chunks[j][l].from
      <3>1. Planned(chunks, furthest)
        BY <1>2, <1>10
      <3>2. \A j \in 2..Len(chunks) : j \in 1..Len(chunks) /\ 1 < j
        BY <1>4
      <3> QED
        BY <1>4, <3>1, <3>2, Zenon DEF Planned
    <2>2. ASSUME NEW i \in 1..Len(ranges) PROVE Requested(new(i))
      <3>1. /\ new(i).range = ranges[i] /\ new(i).logs = {} /\ new(i).todo # <<>> /\ Ordered(new(i).todo)
            /\ \A t \in 1..Len(new(i).todo) : new(i).todo[t] = ranges[i]
        BY <1>7, NotEmpty DEF Ordered
      <3>2. ranges[i].from \in Int /\ ranges[i].to \in Int /\ ranges[i].from <= ranges[i].to
        BY <1>6, <2>1 DEF BlockRange
      <3>3. ranges[i].from <= ranges[i].from /\ ranges[i].to <= ranges[i].to
        BY <3>2
      <3> QED
        BY <3>1, <3>2, <3>3, Zenon DEF Requested
    <2>3. ASSUME NEW k \in 1..Len(ranges) PROVE Planned(Tail(chunks), ranges[k].to)
      <3> DEFINE rest == Tail(chunks)
      <3>1. /\ \A i \in 1..Len(rest) : rest[i] # <<>> /\ Ordered(rest[i])
            /\ \A i \in 1..Len(rest) : \A l \in 1..Len(rest[i]) : rest[i][l].from <= rest[i][l].to
        BY <1>2, <1>9, <1>10 DEF Planned
      <3>2. \A i \in 1..Len(rest) : \A l \in 1..Len(rest[i]) : ranges[k].to < rest[i][l].from
        BY <1>9, <2>1
      <3>3. ASSUME NEW i \in 1..Len(rest), NEW j \in 1..Len(rest), i < j
            PROVE  \A m \in 1..Len(rest[i]) : \A l \in 1..Len(rest[j]) : rest[i][m].to < rest[j][l].from
        <4>1. i + 1 < j + 1
          BY <1>4, <3>3
        <4> QED
          BY <1>2, <1>9, <1>10, <4>1 DEF Planned
      <3> QED
        BY <3>1, <3>2, <3>3, Zenon DEF Planned
    <2>4. \A i, j \in 1..Len(ranges) : i < j => new(i).range.to < new(j).range.from
      BY <1>7, <2>1 DEF Ordered
    <2>5. \A i \in 1..Len(ranges) : /\ Requested(requests'[i]) /\ furthest < requests'[i].range.from
                                     /\ Planned(chunks', requests'[i].range.to)
      BY <1>1, <1>7, <1>8, <2>1, <2>2, <2>3
    <2>6. \A i, j \in 1..Len(ranges) : i < j => requests'[i].range.to < requests'[j].range.from
      BY <1>8, <2>4
    <2>7. Asked'
      BY <1>1, <1>8, <2>5, <2>6, Zenon DEF Asked
    <2> QED
      BY <1>1, <1>2, <1>3, <1>4, <1>8, <1>10, <2>7 DEF BackfillInv
  <1>11. CASE elapsed <= 0
    <2>1. allLogs = {} /\ \A i \in 1..Len(chunks) : chunks[i] # <<>> /\ \A k \in 1..Len(chunks[i]) : EmptyRange(chunks[i][k])
      BY <1>2, <1>11, Zenon DEF NothingAsked
    <2>2. ASSUME NEW i \in 1..Len(ranges) PROVE EmptyRequest(new(i))
      BY <1>4, <1>7, <2>1 DEF EmptyRequest
    <2>3. NothingAsked'
      BY <1>1, <1>8, <1>9, <2>1, <2>2, Zenon DEF NothingAsked
    <2>4. ~(elapsed > 0)
      BY <1>2, <1>11
    <2> QED
      BY <1>1, <1>2, <1>3, <1>4, <1>8, <2>3, <2>4 DEF BackfillInv
  <1> QED
    BY <1>2, <1>10, <1>11

\* A step of one goroutine.
LEMMA OneRequest ==
    ASSUME BackfillInv, pc = "requests", NEW i \in DOMAIN requests, NEW new,
           requests' = [requests EXCEPT ![i] = new], new \in Request, new.range = requests[i].range,
           Requested(requests[i]) => Requested(new), EmptyRequest(requests[i]) => EmptyRequest(new),
           UNCHANGED <<chain, pc, elapsed, chunks, failed, furthest, allLogs, start>>
    PROVE  BackfillInv'
  <1>1. /\ chain \in Chains /\ start \in Block /\ elapsed \in Int /\ furthest \in Int /\ allLogs \in SUBSET Result
        /\ chunks \in Seq(Seq(BlockRange)) /\ requests \in Seq(Request)
        /\ elapsed > 0 => Number[start] <= furthest /\ Asked
        /\ elapsed <= 0 => NothingAsked
    BY DEF BackfillInv
  <1>2. HeightsOnce'
    BY DEF HeightsOnce, BackfillInv
  <1>3. /\ requests' \in Seq(Request) /\ Len(requests') = Len(requests) /\ requests'[i] = new
        /\ \A j \in 1..Len(requests) : j # i => requests'[j] = requests[j]
        /\ i \in 1..Len(requests)
    BY <1>1
  <1>4. requests' # <<>>
    BY <1>1, <1>3, NotEmpty
  <1>5. \A j \in 1..Len(requests) : requests'[j].range = requests[j].range
    BY <1>3
  <1>6. CASE elapsed > 0
    <2>1. /\ \A j \in 1..Len(requests) : Requested(requests[j]) /\ furthest < requests[j].range.from
          /\ \A j, k \in 1..Len(requests) : j < k => requests[j].range.to < requests[k].range.from
          /\ \A j \in 1..Len(requests) : Planned(chunks, requests[j].range.to)
      BY <1>1, <1>6, Zenon DEF Asked
    <2>2. \A j \in 1..Len(requests) : Requested(requests'[j])
      BY <1>3, <2>1, Zenon
    <2>3. /\ \A j \in 1..Len(requests') : Requested(requests'[j]) /\ furthest < requests'[j].range.from
          /\ \A j, k \in 1..Len(requests') : j < k => requests'[j].range.to < requests'[k].range.from
          /\ \A j \in 1..Len(requests') : Planned(chunks, requests'[j].range.to)
      BY <1>3, <1>5, <2>1, <2>2
    <2>4. Asked'
      BY <1>4, <2>3 DEF Asked
    <2> QED
      BY <1>1, <1>2, <1>3, <1>6, <2>4 DEF BackfillInv
  <1>7. CASE elapsed <= 0
    <2>1. /\ allLogs = {} /\ \A j \in 1..Len(requests) : EmptyRequest(requests[j])
          /\ \A j \in 1..Len(chunks) : chunks[j] # <<>> /\ \A k \in 1..Len(chunks[j]) : EmptyRange(chunks[j][k])
      BY <1>1, <1>7, Zenon DEF NothingAsked
    <2>2. \A j \in 1..Len(requests') : EmptyRequest(requests'[j])
      BY <1>3, <2>1, Zenon
    <2>3. NothingAsked'
      BY <1>4, <2>1, <2>2 DEF NothingAsked
    <2>4. ~(elapsed > 0)
      BY <1>1, <1>7
    <2> QED
      BY <1>1, <1>2, <1>3, <2>3, <2>4 DEF BackfillInv
  <1> QED
    BY <1>1, <1>6, <1>7

\* A step that changes no more of a request than how far it is, and forgets its logs
\* or not.
LEMMA RequestGoesOn ==
    ASSUME NEW req \in Request, NEW new, NEW at \in At, at = "query" => req.at \in {"check", "query"},
           at # "check",
           new.at = at, new.range = req.range, new.todo = req.todo, new.logs \in {req.logs, {}}
    PROVE  /\ Requested(req) => Requested(new)
           /\ EmptyRequest(req) => EmptyRequest(new)
  <1>1. Requested(req) => Requested(new)
    <2> SUFFICES ASSUME Requested(req) PROVE Requested(new)
      OBVIOUS
    <2>1. new.logs \subseteq req.logs
      OBVIOUS
    <2> QED
      BY <2>1, Zenon DEF Requested
  <1>2. EmptyRequest(req) => EmptyRequest(new)
    BY DEF EmptyRequest
  <1> QED
    BY <1>1, <1>2

\* Another state and error.
LEMMA RequestAt ==
    ASSUME NEW req \in Request, NEW at \in At, at = "query" => req.at \in {"check", "query"}, at # "check",
           NEW e \in BOOLEAN, NEW logs \in {req.logs, {}}
    PROVE  LET new == [range |-> req.range, at |-> at, todo |-> req.todo, logs |-> logs, err |-> e]
           IN  /\ new \in Request /\ new.range = req.range
               /\ Requested(req) => Requested(new)
               /\ EmptyRequest(req) => EmptyRequest(new)
  <1> DEFINE new == [range |-> req.range, at |-> at, todo |-> req.todo, logs |-> logs, err |-> e]
  <1>1. new.range = req.range /\ new.at = at /\ new.todo = req.todo /\ new.logs = logs
    BY Zenon
  <1>2. logs \in SUBSET Result
    BY RequestFields
  <1>3. new \in Request
    BY <1>2, RequestFields, Zenon DEF Request
  <1> HIDE DEF new
  <1>4. (Requested(req) => Requested(new)) /\ (EmptyRequest(req) => EmptyRequest(new))
    BY <1>1, RequestGoesOn
  <1> QED
    BY <1>1, <1>3, <1>4 DEF new

\* The goroutine looks at the context.
LEMMA ContextKeeps ==
    ASSUME BackfillInv, NEW i \in DOMAIN requests, CheckContext(i)
    PROVE  BackfillInv'
  <1> DEFINE req == requests[i]
             new(at, e) == [range |-> req.range, at |-> at, todo |-> req.todo, logs |-> req.logs, err |-> e]
  <1>1. req \in Request
    BY DEF BackfillInv
  <1>2. /\ DOMAIN req = {"range", "at", "todo", "logs", "err"} /\ req.err \in BOOLEAN
    BY <1>1, RequestFields, Zenon
  <1>3. /\ pc = "requests" /\ req.at = "check"
        /\ UNCHANGED <<chain, pc, elapsed, chunks, failed, furthest, allLogs, start>>
        /\ requests' = [requests EXCEPT ![i] = IF cancelled THEN [req EXCEPT !.at = "cancelled", !.err = TRUE]
                                                            ELSE [req EXCEPT !.at = "query"]]
    BY DEF CheckContext, history
  <1> HIDE DEF req
  <1>4. ASSUME NEW m, m = [req EXCEPT !.at = "cancelled", !.err = TRUE] PROVE m = new("cancelled", TRUE)
    BY <1>2, <1>4, Zenon
  <1>5. ASSUME NEW m, m = [req EXCEPT !.at = "query"] PROVE m = new("query", req.err)
    BY <1>2, <1>5
  <1>6. ASSUME NEW at \in {"cancelled", "query"}, NEW e \in BOOLEAN, requests' = [requests EXCEPT ![i] = new(at, e)]
        PROVE  BackfillInv'
    <2>1. at \in At /\ at # "check" /\ (at = "query" => req.at \in {"check", "query"})
      BY <1>3 DEF At
    <2>2. /\ new(at, e) \in Request /\ new(at, e).range = req.range
          /\ Requested(req) => Requested(new(at, e))
          /\ EmptyRequest(req) => EmptyRequest(new(at, e))
      BY <1>1, <2>1, RequestAt, Zenon
    <2>3. PICK m : m = new(at, e)
      BY Zenon
    <2> HIDE DEF new
    <2> QED
      BY <1>3, <1>6, <2>2, <2>3, OneRequest, Zenon DEF req
  <1> HIDE DEF new
  <1>7. CASE cancelled
    <2>1. requests' = [requests EXCEPT ![i] = new("cancelled", TRUE)]
      BY <1>3, <1>4, <1>7, Zenon
    <2> QED
      BY <1>6, <2>1, Zenon
  <1>8. CASE ~cancelled
    <2>1. requests' = [requests EXCEPT ![i] = new("query", req.err)]
      BY <1>3, <1>5, <1>8, Zenon
    <2> QED
      BY <1>2, <1>6, <2>1, Zenon
  <1> QED
    BY <1>7, <1>8

\* The goroutine writes its result, or the result is lost.
LEMMA StoreKeeps ==
    ASSUME BackfillInv, NEW i \in DOMAIN requests, StoreResult(i)
    PROVE  BackfillInv'
  <1> DEFINE req == requests[i]
             new(logs, e) == [range |-> req.range, at |-> "done", todo |-> req.todo, logs |-> logs, err |-> e]
  <1>1. req \in Request
    BY DEF BackfillInv
  <1>2. /\ DOMAIN req = {"range", "at", "todo", "logs", "err"} /\ req.err \in BOOLEAN
    BY <1>1, RequestFields, Zenon
  <1>3. /\ pc = "requests"
        /\ UNCHANGED <<chain, pc, elapsed, chunks, failed, furthest, allLogs, start>>
        /\ \/ requests' = [requests EXCEPT ![i] = [req EXCEPT !.at = "done"]]
           \/ requests' = [requests EXCEPT ![i] = [req EXCEPT !.at = "done", !.err = FALSE, !.logs = {}]]
    BY DEF StoreResult
  <1> HIDE DEF req
  <1>4. ASSUME NEW m, m = [req EXCEPT !.at = "done"] PROVE m = new(req.logs, req.err)
    BY <1>2, <1>4
  <1>5. ASSUME NEW m, m = [req EXCEPT !.at = "done", !.err = FALSE, !.logs = {}] PROVE m = new({}, FALSE)
    BY <1>2, <1>5, Zenon
  <1>6. ASSUME NEW logs \in {req.logs, {}}, NEW e \in BOOLEAN, requests' = [requests EXCEPT ![i] = new(logs, e)]
        PROVE  BackfillInv'
    <2>1. "done" \in At /\ "done" # "check" /\ "done" # "query"
      BY DEF At
    <2>2. /\ new(logs, e) \in Request /\ new(logs, e).range = req.range
          /\ Requested(req) => Requested(new(logs, e))
          /\ EmptyRequest(req) => EmptyRequest(new(logs, e))
      BY <1>1, <2>1, RequestAt, Zenon
    <2>3. PICK m : m = new(logs, e)
      BY Zenon
    <2> HIDE DEF new
    <2> QED
      BY <1>3, <1>6, <2>2, <2>3, OneRequest, Zenon DEF req
  <1> HIDE DEF new
  <1>7. \/ requests' = [requests EXCEPT ![i] = new(req.logs, req.err)]
        \/ requests' = [requests EXCEPT ![i] = new({}, FALSE)]
    BY <1>3, <1>4, <1>5, Zenon
  <1> QED
    BY <1>2, <1>6, <1>7, Zenon

\* Nothing is found in an empty range.
LEMMA NothingFound ==
    ASSUME chain \in Chains, NEW r \in BlockRange, EmptyRange(r)
    PROVE  FilterLogs(r) = {} /\ ~TooManyResults(r)
  <1>1. chain \in Seq(Block) /\ \A n \in 1..Len(chain) : Number[chain[n]] = n
    BY HeadersAssumption
  <1>2. \A b \in Range(chain) : Number[b] \in Int
    BY <1>1 DEF Range
  <1>3. BlocksIn(r) = {}
    BY <1>2 DEF BlocksIn, EmptyRange, BlockRange
  <1> QED
    BY <1>3, Zenon DEF FilterLogs, TooManyResults

\* The goroutine's next request.
LEMMA FilterKeeps ==
    ASSUME BackfillInv, NEW i \in DOMAIN requests, filterLogsRecurisively(i)
    PROVE  BackfillInv'
  <1> DEFINE req == requests[i]
  <1>1. req \in Request /\ chain \in Chains
    BY DEF BackfillInv
  <1>2. /\ DOMAIN req = {"range", "at", "todo", "logs", "err"} /\ req.err \in BOOLEAN /\ req.todo \in Seq(BlockRange)
    BY <1>1, RequestFields, Zenon
  <1>3. /\ pc = "requests" /\ req.at = "query"
        /\ UNCHANGED <<chain, pc, elapsed, chunks, failed, furthest, allLogs, start>>
        /\ \/ requests' = [requests EXCEPT ![i] = RequestFails(req)]
           \/ TooManyResults(Head(req.todo)) /\ requests' = [requests EXCEPT ![i] = RequestSplit(req)]
           \/ requests' = [requests EXCEPT ![i] = RequestAnswered(req)]
    BY DEF filterLogsRecurisively, history
  <1>4. Requested(req) \/ EmptyRequest(req)
    <2>1. i \in 1..Len(requests) /\ elapsed \in Int
      BY DEF BackfillInv
    <2>2. CASE elapsed > 0
      BY <1>3, <2>1, <2>2 DEF BackfillInv, Asked
    <2>3. CASE elapsed <= 0
      BY <1>3, <2>1, <2>3 DEF BackfillInv, NothingAsked
    <2> QED
      BY <2>1, <2>2, <2>3
  <1>5. ASSUME Requested(req), EmptyRequest(req) PROVE FALSE
    <2>1. Len(req.todo) = 1 /\ req.todo[1] \in BlockRange /\ 1 \in 1..Len(req.todo)
      BY <1>2, <1>3, <1>5 DEF EmptyRequest
    <2>2. req.todo[1].to < req.todo[1].from /\ req.todo[1].from <= req.todo[1].to
      BY <1>3, <1>5, <2>1 DEF EmptyRequest, EmptyRange, Requested
    <2> QED
      BY <2>1, <2>2 DEF BlockRange
  <1>6. ASSUME NEW new, requests' = [requests EXCEPT ![i] = new], new \in Request, new.range = req.range,
               Requested(req) => Requested(new), EmptyRequest(req) => EmptyRequest(new)
        PROVE  BackfillInv'
    BY <1>3, <1>6, OneRequest, Zenon
  <1>7. CASE Requested(req)
    <2>1. req.range.from <= req.range.to /\ ~EmptyRequest(req)
      BY <1>5, <1>7, Zenon DEF Requested
    <2> HIDE DEF req
    <2>2. CASE requests' = [requests EXCEPT ![i] = RequestFails(req)]
      BY <1>1, <1>6, <2>1, <2>2, FailedRequest, Zenon
    <2>3. CASE requests' = [requests EXCEPT ![i] = RequestSplit(req)]
      BY <1>1, <1>3, <1>6, <1>7, <2>1, <2>3, SplitRequest, Zenon
    <2>4. CASE requests' = [requests EXCEPT ![i] = RequestAnswered(req)]
      BY <1>1, <1>3, <1>6, <1>7, <2>1, <2>4, AnsweredRequest, Zenon
    <2> QED
      BY <1>3, <2>2, <2>3, <2>4
  <1>8. CASE EmptyRequest(req)
    <2> HIDE DEF req
    <2>1. req.logs = {} /\ Len(req.todo) = 1 /\ EmptyRange(req.todo[1]) /\ ~Requested(req)
      BY <1>3, <1>5, <1>8 DEF EmptyRequest
    <2>2. Head(req.todo) = req.todo[1] /\ req.todo[1] \in BlockRange /\ Tail(req.todo) \in Seq(BlockRange)
      BY <1>2, <2>1
    <2>3. FilterLogs(Head(req.todo)) = {} /\ ~TooManyResults(Head(req.todo))
      BY <1>1, <2>1, <2>2, NothingFound
    <2>4. \A todo, e : [range |-> req.range, at |-> "store", todo |-> todo, logs |-> {}, err |-> e].logs = {}
      OBVIOUS
    <2>5. ASSUME NEW todo \in Seq(BlockRange), NEW e \in BOOLEAN, NEW new,
                 new = [range |-> req.range, at |-> "store", todo |-> todo, logs |-> {}, err |-> e]
          PROVE  new \in Request /\ new.range = req.range /\ EmptyRequest(new)
      <3>1. req.range \in BlockRange
        BY <1>1, RequestFields, Zenon
      <3>2. new \in Request
        BY <2>5, <3>1 DEF Request, At
      <3> QED
        BY <2>5, <3>2 DEF EmptyRequest
    <2>6. CASE requests' = [requests EXCEPT ![i] = RequestFails(req)]
      <3>1. RequestFails(req) = [range |-> req.range, at |-> "store", todo |-> req.todo, logs |-> {}, err |-> TRUE]
        <4>1. PICK m : m = RequestFails(req)
          OBVIOUS
        <4>2. m = [req EXCEPT !.at = "store", !.err = TRUE, !.logs = {}]
          BY <4>1, Zenon DEF RequestFails
        <4> QED
          BY <1>2, <4>1, <4>2, Zenon
      <3> QED
        BY <1>2, <1>6, <2>1, <2>5, <2>6, <3>1, Zenon
    <2>7. CASE requests' = [requests EXCEPT ![i] = RequestAnswered(req)]
      <3>1. RequestAnswered(req) = [req EXCEPT !.logs = {}, !.todo = Tail(req.todo), !.at = "store"]
        BY <2>1, <2>3, Zenon DEF RequestAnswered
      <3>2. RequestAnswered(req) = [range |-> req.range, at |-> "store", todo |-> Tail(req.todo), logs |-> {}, err |-> req.err]
        BY <1>2, <3>1, Zenon
      <3> QED
        BY <1>2, <1>6, <2>1, <2>2, <2>5, <2>7, <3>2, Zenon
    <2> QED
      BY <1>3, <2>3, <2>6, <2>7
  <1> QED
    BY <1>4, <1>7, <1>8

\* The results of a chunk, up to the first request that failed.
LEMMA CollectKeeps ==
    ASSUME BackfillInv, CollectChunk
    PROVE  BackfillInv'
  <1> DEFINE n == Len(requests)
             range(i) == requests[i].range
  <1>1. /\ chain \in Chains /\ start \in Block /\ elapsed \in Int /\ furthest \in Int /\ allLogs \in SUBSET Result
        /\ chunks \in Seq(Seq(BlockRange)) /\ requests \in Seq(Request) /\ HeightsOnce
        /\ elapsed > 0 => Number[start] <= furthest /\ Asked
        /\ elapsed <= 0 => NothingAsked
    BY DEF BackfillInv, CollectChunk
  <1>2. PICK done \in 0..n : Cardinality(Succeeded) = done
    BY <1>1, SucceededFirst
  <1>3. /\ pc = "requests" /\ pc' = "chunk" /\ requests' = <<>> /\ UNCHANGED <<chain, elapsed, chunks, start>>
        /\ allLogs' = allLogs \cup UNION {requests[i].logs : i \in 1..done}
        /\ failed' = (done < n)
        /\ furthest' = IF done < n THEN range(done + 1).from - 1 ELSE range(done).to
    BY <1>2, Zenon DEF CollectChunk, history
  <1>4. requests # <<>>
    BY <1>1, <1>3 DEF Asked, NothingAsked
  <1>5. n \in Nat \ {0} /\ done \in Nat /\ done <= n
    BY <1>1, <1>2, <1>4
  <1>6. ASSUME NEW i \in 1..n
        PROVE  range(i).from \in Int /\ range(i).to \in Int /\ requests[i].logs \in SUBSET Result
    <2>1. requests[i] \in Request
      BY <1>1
    <2>2. requests[i].range \in BlockRange /\ requests[i].logs \in SUBSET Result
      BY <2>1 DEF Request
    <2> QED
      BY <2>2 DEF BlockRange
  <1>7. done < n => done + 1 \in 1..n
    BY <1>5
  <1>8. ~(done < n) => done = n /\ done \in 1..n
    BY <1>5
  <1>9. \A i \in 1..done : i \in 1..n
    BY <1>5
  <1>10. furthest' \in Int
    BY <1>3, <1>6, <1>7, <1>8
  <1>11. allLogs' \in SUBSET Result
    BY <1>1, <1>3, <1>6, <1>9
  <1>12. \A l \in Result : Number[l.block] \in Int
    BY HeadersAssumption DEF Result
  <1>13. Number[start] \in Int
    BY <1>1, HeadersAssumption
  <1>14. \A l \in allLogs' : l \in allLogs \/ \E i \in 1..done : l \in requests[i].logs
    BY <1>3
  <1>15. CASE elapsed > 0
    <2>1. /\ \A i \in 1..n : Requested(requests[i]) /\ furthest < range(i).from
          /\ \A i, j \in 1..n : i < j => range(i).to < range(j).from
          /\ \A i \in 1..n : Planned(chunks, range(i).to)
          /\ Number[start] <= furthest
      BY <1>1, <1>15, Zenon DEF Asked
    <2>2. /\ \A i \in 1..n : range(i).from <= range(i).to
          /\ \A i \in 1..n : \A l \in requests[i].logs : range(i).from <= Number[l.block] /\ Number[l.block] <= range(i).to
          /\ \A i \in 1..n : \A k, l \in requests[i].logs : Number[k.block] = Number[l.block] => k = l
      BY <2>1, Zenon DEF Requested
    <2>3. /\ \A l \in allLogs : Number[start] < Number[l.block] /\ Number[l.block] <= furthest
          /\ \A k, l \in allLogs : Number[k.block] = Number[l.block] => k = l
      BY <1>1, Zenon DEF HeightsOnce
    <2> HIDE DEF range
    <2>4. furthest <= furthest'
      <3>1. CASE done < n
        <4>1. furthest < range(done + 1).from /\ range(done + 1).from \in Int
          BY <1>6, <1>7, <2>1, <3>1
        <4> QED
          BY <1>1, <1>3, <3>1, <4>1
      <3>2. CASE ~(done < n)
        <4>1. /\ furthest < range(done).from /\ range(done).from <= range(done).to
              /\ range(done).from \in Int /\ range(done).to \in Int
          BY <1>6, <1>8, <2>1, <2>2, <3>2
        <4> QED
          BY <1>1, <1>3, <3>2, <4>1
      <3> QED
        BY <3>1, <3>2
    <2>5. \A i \in 1..done : range(i).to <= furthest'
      <3> SUFFICES ASSUME NEW i \in 1..done PROVE range(i).to <= furthest'
        OBVIOUS
      <3>1. i \in 1..n
        BY <1>9
      <3>2. CASE done < n
        <4>1. i < done + 1
          BY <1>5
        <4>2. range(i).to < range(done + 1).from
          BY <1>7, <2>1, <3>1, <3>2, <4>1
        <4> QED
          BY <1>3, <1>6, <1>7, <3>1, <3>2, <4>2
      <3>3. CASE ~(done < n) /\ i = done
        BY <1>3, <1>6, <3>1, <3>3
      <3>4. CASE ~(done < n) /\ i # done
        <4>1. i < done /\ done \in 1..n
          BY <1>5, <1>8, <3>4
        <4>2. range(i).to < range(done).from /\ range(done).from <= range(done).to
          BY <2>1, <2>2, <3>1, <4>1
        <4> QED
          BY <1>3, <1>6, <3>1, <3>4, <4>1, <4>2
      <3> QED
        BY <3>2, <3>3, <3>4
    <2>6. ASSUME NEW l \in allLogs'
          PROVE  Number[start] < Number[l.block] /\ Number[l.block] <= furthest'
      <3>1. CASE l \in allLogs
        BY <1>1, <1>10, <1>12, <2>3, <2>4, <3>1
      <3>2. ASSUME NEW i \in 1..done, l \in requests[i].logs
            PROVE  Number[start] < Number[l.block] /\ Number[l.block] <= furthest'
        <4>1. i \in 1..n /\ Number[l.block] \in Int
          BY <1>6, <1>9, <1>12, <3>2
        <4>2. range(i).from <= Number[l.block] /\ Number[l.block] <= range(i).to
          BY <2>2, <3>2, <4>1
        <4> QED
          BY <1>1, <1>6, <1>10, <1>13, <2>1, <2>5, <4>1, <4>2
      <3> QED
        BY <1>14, <3>1, <3>2
    <2>7. ASSUME NEW i \in 1..done, NEW l \in requests[i].logs
          PROVE  \A k \in allLogs : Number[k.block] # Number[l.block]
      <3>1. i \in 1..n
        BY <1>9
      <3>2. l \in Result /\ range(i).from \in Int
        BY <1>6, <3>1
      <3>3. furthest < range(i).from /\ range(i).from <= Number[l.block]
        BY <2>1, <2>2, <3>1
      <3>4. \A k \in allLogs : k \in Result /\ Number[k.block] <= furthest
        BY <1>1, <2>3
      <3> QED
        BY <1>1, <1>12, <3>2, <3>3, <3>4
    <2>8. ASSUME NEW i \in 1..done, NEW j \in 1..done, i < j, NEW k \in requests[i].logs, NEW l \in requests[j].logs
          PROVE  Number[k.block] # Number[l.block]
      <3>1. i \in 1..n /\ j \in 1..n
        BY <1>9
      <3>2. k \in Result /\ l \in Result /\ range(i).to \in Int /\ range(j).from \in Int
        BY <1>6, <3>1
      <3>3. range(i).to < range(j).from
        BY <2>1, <2>8, <3>1
      <3>4. Number[k.block] <= range(i).to /\ range(j).from <= Number[l.block]
        BY <2>2, <3>1
      <3> QED
        BY <1>12, <3>2, <3>3, <3>4
    <2>9. ASSUME NEW k \in allLogs', NEW l \in allLogs', Number[k.block] = Number[l.block]
          PROVE  k = l
      <3>1. CASE k \in allLogs /\ l \in allLogs
        BY <2>3, <2>9, <3>1, Zenon
      <3>2. ASSUME NEW i \in 1..done, NEW j \in 1..done, k \in requests[i].logs, l \in requests[j].logs
            PROVE  k = l
        <4>1. i = j
          <5>1. i < j \/ j < i \/ i = j
            BY <1>5
          <5> QED
            BY <2>8, <2>9, <3>2, <5>1
        <4> QED
          BY <1>9, <2>2, <2>9, <3>2, <4>1
      <3> QED
        BY <1>14, <2>7, <2>9, <3>1, <3>2, Zenon
    <2>10. HeightsOnce'
      BY <1>3, <2>6, <2>9 DEF HeightsOnce
    <2>11. Number[start] <= furthest'
      BY <1>1, <1>10, <1>13, <2>1, <2>4
    <2>12. ~failed' => Planned(chunks, furthest')
      BY <1>3, <1>8, <2>1, Zenon DEF range
    <2> QED
      BY <1>1, <1>3, <1>10, <1>11, <1>15, <2>10, <2>11, <2>12 DEF BackfillInv
  <1>16. CASE elapsed <= 0
    <2>1. /\ allLogs = {} /\ \A i \in 1..n : EmptyRequest(requests[i])
          /\ \A j \in 1..Len(chunks) : chunks[j] # <<>> /\ \A k \in 1..Len(chunks[j]) : EmptyRange(chunks[j][k])
      BY <1>1, <1>3, <1>16, Zenon DEF NothingAsked
    <2>2. allLogs' = {}
      BY <1>9, <1>14, <2>1 DEF EmptyRequest
    <2>3. HeightsOnce'
      BY <2>2 DEF HeightsOnce
    <2>4. NothingAsked'
      BY <1>3, <2>1, <2>2, Zenon DEF NothingAsked
    <2>5. ~(elapsed' > 0) /\ requests' \in Seq(Request) /\ pc' = "chunk"
      BY <1>1, <1>3, <1>16
    <2>6. ~(pc' \in {"start", "latest"}) /\ ~(pc' = "requests")
      BY <2>5
    <2> QED
      BY <1>1, <1>3, <1>10, <1>11, <2>3, <2>4, <2>5, <2>6, Zenon DEF BackfillInv
  <1> QED
    BY <1>1, <1>15, <1>16

\* Every step keeps the invariant.
LEMMA BackfillStep == BackfillInv /\ [Next]_vars => BackfillInv'
  <1> SUFFICES ASSUME BackfillInv, [Next]_vars PROVE BackfillInv'
    OBVIOUS
  <1>1. CASE ChainMoves \/ Cancel \/ UNCHANGED vars
    <2>1. chain' \in Chains /\ UNCHANGED <<elapsed, logVars, start, pc, stack>>
      BY <1>1 DEF ChainMoves, Cancel, vars, history, BackfillInv
    <2> QED
      BY <2>1, LogsStay
  <1>2. CASE LatestFails \/ ClearStack \/ PushFurthest \/ GroupLogs \/ HeaderFails \/ SendEvents
    <2>1. chain' = chain /\ UNCHANGED <<elapsed, logVars, start>> /\ pc' \in {"push", "group", "send", "returned"}
      BY <1>2 DEF LatestFails, ClearStack, PushFurthest, GroupLogs, HeaderFails, SendEvents, Return, history
    <2>2. chain' \in Chains
      BY <2>1 DEF BackfillInv
    <2> QED
      BY <2>1, <2>2, LogsStay
  <1>3. CASE \E i \in DOMAIN requests : Goroutine(i)
    BY <1>3, ContextKeeps, FilterKeeps, StoreKeeps DEF Goroutine
  <1> QED
    BY <1>1, <1>2, <1>3, StartKeeps, LatestKeeps, ChunkKeeps, CollectKeeps DEF Next, Step, FastSync

(***************************************************************************)
(* The logs gathered by the backfill (getLogsInBlockRange and              *)
(* filterLogsRecurisively) are those of at most one block of each height,  *)
(* none of them above the block Watch goes on from, for every chain, every *)
(* size of ranges and chunks and every limit on the results of a query,    *)
(* however the chain is reorganised and whichever requests fail.           *)
(***************************************************************************)
THEOREM BackfillCorrect == Spec => []HeightsOnce
  <1>1. BackfillInv => HeightsOnce
    BY DEF BackfillInv
  <1> QED
    BY <1>1, BackfillInit, BackfillStep, PTL DEF Spec
=============================================================================
