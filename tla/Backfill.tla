------------------------------ MODULE Backfill ------------------------------
(***************************************************************************)
(* ethereum/blockwatch: FastSyncToLatestBlock.  Before Watch starts, the   *)
(* watcher fetches the logs of the blocks that were mined while the Mesh   *)
(* node was down, in ranges, several eth_getLogs requests at a time, and   *)
(* sends the blocks that have logs as one batch of Added events.  Every    *)
(* request is a step of its own: it may fail, and the canonical chain may  *)
(* move between any two of them.                                           *)
(***************************************************************************)
EXTENDS Integers, Sequences, FiniteSetsExt, Functions, TLC

CONSTANTS Block, NoBlock,
          Number,     \* Number[b], Parent[b]: of the header with hash b
          Parent,
          LogsIn,     \* LogsIn[b] is the number of logs of block b
          Chains,     \* the canonical chains the Ethereum node may report
          RangeSize,  \* maxBlocksInGetLogsQuery
          ChunkSize,  \* getLogsRequestChunkSize
          MaxBehind,  \* constants.MaxBlocksStoredInNonArchiveNode
          LogCap      \* external: logs the endpoint returns for one query

ASSUME HeadersAssumption ==
    /\ NoBlock \notin Block
    /\ Number \in [Block -> Nat \ {0}] /\ LogsIn \in [Block -> Nat]
    /\ \A c \in Chains : c \in Seq(Block) /\ \A n \in 1..Len(c) : Number[c[n]] = n
ASSUME SizesAssumption ==
    /\ RangeSize \in Nat \ {0} /\ ChunkSize \in Nat \ {0}
    /\ MaxBehind \in Nat \ {0} /\ LogCap \in Nat

VARIABLES
    chain,      \* external: the node's canonical chain
    cancelled,  \* ctx is done
    stack,      \* w.stack, the headers only
    pc,         \* where FastSyncToLatestBlock is
    err,        \* it returned an error
    elapsed,    \* blocksElapsed
    chunks,     \* chunkChan: chunks of block ranges still to be requested
    requests,   \* the goroutines of the current chunk
    failed,     \* didAPreviousRequestFail
    furthest,   \* furthestBlockProcessed
    allLogs,    \* the logs found: blocks with logs, and the query of each
    headers,    \* hashToBlockHeader, as block |-> Parent of its header
    sent,       \* the headers of the batch sent on blockFeed
    start,      \* history: the top of the stack when FastSync was called
    moved,      \* history: the chain has moved since
    raced       \* history: two goroutines wrote indexToLogResult at once

logVars == <<chunks, requests, failed, furthest, allLogs>>
history == <<start, raced>>
vars == <<chain, cancelled, stack, pc, err, elapsed, logVars, headers, sent,
          history, moved>>

Top == IF stack = <<>> THEN NoBlock ELSE stack[Len(stack)]

-----------------------------------------------------------------------------
\* Mutant: adjacent ranges share a block.
OverlappingRanges(from, to, rangeSize) ==
    IF to - from < rangeSize
    THEN <<[from |-> from, to |-> to]>>
    ELSE [i \in 1..((to - from + rangeSize) \div rangeSize) |->
            [from |-> from + (i - 1) * rangeSize,
             to   |-> Min({from + i * rangeSize, to})]]

\* The inclusive ranges of at most rangeSize blocks that make up from..to.
getSubBlockRanges(from, to, rangeSize) ==
    IF to - from < rangeSize
    THEN <<[from |-> from, to |-> to]>>
    ELSE [i \in 1..((to - from + rangeSize) \div rangeSize) |->
            [from |-> from + (i - 1) * rangeSize,
             to   |-> Min({from + i * rangeSize - 1, to})]]

\* The chunks of ranges whose requests are sent together.
Chunked(ranges) ==
    [i \in 1..((Len(ranges) + ChunkSize - 1) \div ChunkSize) |->
        SubSeq(ranges, (i - 1) * ChunkSize + 1, Min({i * ChunkSize, Len(ranges)}))]

\* The client's answer for a block number, from the chain of the moment; an
\* unknown number is an error.
HeaderByNumber(n) == IF n <= Len(chain) THEN chain[n] ELSE NoBlock

\* External: eth_getLogs answers from the chain of the moment, and has
\* nothing to say of blocks it does not know.
BlocksIn(r) ==
    {b \in Range(chain) : r.from <= Number[b] /\ Number[b] <= r.to /\ LogsIn[b] > 0}

\* A result is the logs of a block together with the query they answer.
FilterLogs(r) == {[block |-> b, query |-> r] : b \in BlocksIn(r)}

TooManyResults(r) ==
    BlocksIn(r) # {} /\ MapThenSumSet(LAMBDA b : LogsIn[b], BlocksIn(r)) > LogCap

\* The two ranges a query with too many results is split into.
Halves(r) ==
    LET half == (r.to - r.from) \div 2
    IN  <<[r EXCEPT !.to = r.from + half], [r EXCEPT !.from = r.from + half + 1]>>

-----------------------------------------------------------------------------
\* External: the chain grows, is reorganised, or the endpoint falls behind.
ChainMoves ==
    /\ pc # "returned"
    /\ chain' \in Chains \ {chain}
    /\ moved' = TRUE
    /\ UNCHANGED <<cancelled, stack, pc, err, elapsed, logVars, headers, sent,
                   history>>

\* The context is cancelled; only the goroutines of a chunk look at it.
Cancel ==
    /\ pc # "returned" /\ ~cancelled
    /\ cancelled' = TRUE
    /\ UNCHANGED <<chain, stack, pc, err, elapsed, logVars, headers, sent,
                   history, moved>>

Return(e) ==
    /\ pc' = "returned"
    /\ err' = e

\* Peek: with no stored block nothing has elapsed.
FastSyncToLatestBlock ==
    /\ pc = "start"
    /\ IF Top = NoBlock THEN Return(FALSE) ELSE pc' = "latest" /\ UNCHANGED err
    /\ UNCHANGED <<chain, cancelled, stack, elapsed, logVars, headers, sent,
                   history, moved>>

\* HeaderByNumber(nil) fails.
LatestFails ==
    /\ pc = "latest"
    /\ Return(TRUE)
    /\ UNCHANGED <<chain, cancelled, stack, elapsed, logVars, headers, sent,
                   history, moved>>

\* HeaderByNumber(nil) answers.  Too far behind: all headers are dropped and
\* the caller re-validates every order.  An endpoint that is behind the
\* stack makes blocksElapsed negative and the range empty.
Latest ==
    LET behind == Len(chain) - Number[Top]
    IN  /\ pc = "latest"
        /\ elapsed' = behind
        /\ \/ /\ behind = 0
              /\ Return(FALSE)
              /\ UNCHANGED <<stack, chunks, furthest>>
           \/ /\ behind # 0 /\ behind < MaxBehind
              /\ pc' = "chunk"
              /\ chunks' = Chunked(getSubBlockRanges(Number[Top] + 1,
                                      Number[Top] + behind, RangeSize))
              /\ furthest' = Number[Top]
              /\ UNCHANGED <<stack, err>>
           \/ /\ behind >= MaxBehind
              /\ stack' = <<>>
              /\ Return(FALSE)
              /\ UNCHANGED <<chunks, furthest>>
        /\ UNCHANGED <<chain, cancelled, requests, failed, allLogs, headers,
                       sent, history, moved>>

-----------------------------------------------------------------------------
\* getLogsInBlockRange: one goroutine for each range of the next chunk.
StartChunk ==
    /\ pc = "chunk" /\ chunks # <<>> /\ ~failed
    /\ pc' = "requests"
    /\ requests' = [i \in DOMAIN Head(chunks) |->
                      [range |-> Head(chunks)[i], at |-> "check",
                       todo |-> <<Head(chunks)[i]>>, logs |-> {}, err |-> FALSE]]
    /\ chunks' = Tail(chunks)
    /\ UNCHANGED <<chain, cancelled, stack, err, elapsed, failed, furthest,
                   allLogs, headers, sent, history, moved>>

\* A goroutine looks at the context once, before its first request.
CheckContext(i) ==
    /\ pc = "requests" /\ requests[i].at = "check"
    /\ requests' = [requests EXCEPT ![i] =
          IF cancelled THEN [@ EXCEPT !.at = "cancelled", !.err = TRUE]
                       ELSE [@ EXCEPT !.at = "query"]]
    /\ UNCHANGED <<chain, cancelled, stack, pc, err, elapsed, chunks, failed,
                   furthest, allLogs, headers, sent, history, moved>>

\* filterLogsRecurisively: the request for the next range of the goroutine
\* fails, is split, or is answered.  "todo" is what the open calls have left.
RequestFails(req) == [req EXCEPT !.at = "store", !.err = TRUE, !.logs = {}]

RequestSplit(req) ==
    IF Head(req.todo).from = Head(req.todo).to
    THEN RequestFails(req)
    ELSE [req EXCEPT !.todo = Halves(Head(req.todo)) \o Tail(req.todo)]

RequestAnswered(req) ==
    [req EXCEPT !.logs = @ \cup FilterLogs(Head(req.todo)),
                !.todo = Tail(@),
                !.at   = IF Len(req.todo) = 1 THEN "store" ELSE @]

filterLogsRecurisively(i) ==
    /\ pc = "requests" /\ requests[i].at = "query"
    /\ \/ requests' = [requests EXCEPT ![i] = RequestFails(@)]
       \/ /\ TooManyResults(Head(requests[i].todo))
          /\ requests' = [requests EXCEPT ![i] = RequestSplit(@)]
       \/ /\ ~TooManyResults(Head(requests[i].todo))
          /\ requests' = [requests EXCEPT ![i] = RequestAnswered(@)]
    /\ UNCHANGED <<chain, cancelled, stack, pc, err, elapsed, chunks, failed,
                   furthest, allLogs, headers, sent, history, moved>>

\* indexToLogResult[index] is written under mu, except by a goroutine that
\* found the context cancelled.  When two goroutines write without the lock
\* in common, an entry may be lost and reads as the zero value, a result
\* without error and without logs (or the runtime stops the process).
Races(i) ==
    \E j \in DOMAIN requests \ {i} :
        /\ requests[j].at \in {"store", "cancelled"}
        /\ "cancelled" \in {requests[i].at, requests[j].at}

\* Mutant: a goroutine that found the context cancelled misses wg.Done.
StoreOnlyAnswers(i) ==
    /\ pc = "requests" /\ requests[i].at = "store"
    /\ requests' = [requests EXCEPT ![i].at = "done"]
    /\ UNCHANGED <<chain, cancelled, stack, pc, err, elapsed, chunks, failed,
                   furthest, allLogs, headers, sent, history, moved>>

StoreResult(i) ==
    /\ pc = "requests" /\ requests[i].at \in {"store", "cancelled"}
    /\ \/ /\ requests' = [requests EXCEPT ![i].at = "done"]
          /\ UNCHANGED raced
       \/ /\ Races(i)
          /\ requests' = [requests EXCEPT ![i] =
                [@ EXCEPT !.at = "done", !.err = FALSE, !.logs = {}]]
          /\ raced' = TRUE
    /\ UNCHANGED <<chain, cancelled, stack, pc, err, elapsed, chunks, failed,
                   furthest, allLogs, headers, sent, start, moved>>

\* The ranges of the chunk that precede the first failed one.
Succeeded ==
    {i \in DOMAIN requests : \A j \in 1..i : ~requests[j].err}

\* wg.Wait, then the results in the order of the ranges, up to the first
\* failed one.
CollectChunk ==
    LET done == Cardinality(Succeeded)
    IN  /\ pc = "requests" /\ \A i \in DOMAIN requests : requests[i].at = "done"
        /\ allLogs' = allLogs \cup UNION {requests[i].logs : i \in 1..done}
        /\ failed' = (done < Len(requests))
        /\ furthest' = IF done < Len(requests) THEN requests[done + 1].range.from - 1
                                               ELSE requests[done].range.to
        /\ pc' = "chunk"
        /\ requests' = <<>>
        /\ UNCHANGED <<chain, cancelled, stack, err, elapsed, chunks, headers,
                       sent, history, moved>>

MovedPastTop == furthest > Number[Top]

\* getMissedEventsToBackfill, with the logs at hand: Clear when there was
\* progress.
ClearStack ==
    /\ pc = "chunk" /\ (chunks = <<>> \/ failed)
    /\ IF MovedPastTop
       THEN stack' = <<>> /\ pc' = "push" /\ UNCHANGED err
       ELSE Return(FALSE) /\ UNCHANGED stack
    /\ UNCHANGED <<chain, cancelled, elapsed, logVars, headers, sent, history,
                   moved>>

\* HeaderByNumber of the furthest block, and Push.
PushFurthest ==
    /\ pc = "push" /\ HeaderByNumber(furthest) # NoBlock
    /\ stack' = <<HeaderByNumber(furthest)>>
    /\ IF allLogs = {} THEN Return(FALSE) ELSE pc' = "group" /\ UNCHANGED err
    /\ UNCHANGED <<chain, cancelled, elapsed, logVars, headers, sent, history,
                   moved>>

BlocksFound == {l.block : l \in allLogs}

\* The header of the next block with logs: its parent is that of the block
\* of the same number on the chain of the moment.
GroupLogs ==
    \E b \in BlocksFound \ DOMAIN headers :
      LET header == HeaderByNumber(Number[b])
      IN  /\ pc = "group" /\ header # NoBlock
          /\ \A c \in BlocksFound \ DOMAIN headers : Number[b] <= Number[c]
          /\ headers' = headers @@ (b :> Parent[header])
          /\ pc' = IF BlocksFound = DOMAIN headers' THEN "send" ELSE pc
          /\ UNCHANGED <<chain, cancelled, stack, err, elapsed, logVars, sent,
                         history, moved>>

\* HeaderByNumber fails, or knows no block of that number.
HeaderFails ==
    /\ pc \in {"push", "group"}
    /\ Return(TRUE)
    /\ UNCHANGED <<chain, cancelled, stack, elapsed, logVars, headers, sent,
                   history, moved>>

\* The batch is sent, its events in the random order of a Go map.
SendEvents ==
    /\ pc = "send"
    /\ sent' = headers
    /\ Return(FALSE)
    /\ UNCHANGED <<chain, cancelled, stack, elapsed, logVars, headers, history,
                   moved>>

-----------------------------------------------------------------------------
\* simplestack.New over the headers of the database.
Init ==
    /\ chain \in Chains
    /\ \E c \in Chains : \E n \in 0..Len(c) :
          stack = SubSeq(c, 1, n)
    /\ cancelled = FALSE
    /\ pc = "start" /\ err = FALSE /\ elapsed = 0
    /\ chunks = <<>> /\ requests = <<>> /\ failed = FALSE
    /\ furthest = 0 /\ allLogs = {}
    /\ headers = <<>> /\ sent = <<>>
    /\ start = Top /\ moved = FALSE /\ raced = FALSE

Goroutine(i) == CheckContext(i) \/ filterLogsRecurisively(i) \/ StoreResult(i)

FastSync ==
    \/ FastSyncToLatestBlock \/ LatestFails \/ Latest
    \/ StartChunk \/ CollectChunk
    \/ ClearStack \/ PushFurthest \/ GroupLogs \/ HeaderFails \/ SendEvents

Step == FastSync \/ \E i \in DOMAIN requests : Goroutine(i)

Next == ChainMoves \/ Cancel \/ Step

Spec == Init /\ [][Next]_vars

\* Fairness: the goroutines are scheduled, and every request is answered or
\* fails within requestTimeout.
FairSpec == Spec /\ WF_vars(Step)

-----------------------------------------------------------------------------
\* The blocks whose logs the backfill owes its subscribers when it has
\* brought the stack to block number n.
Missed(n) ==
    {chain[k] : k \in {k \in (Number[start] + 1)..n : LogsIn[chain[k]] > 0}}

Announced ==
    IF stack = <<>>
    THEN elapsed >= MaxBehind /\ sent = <<>>
    ELSE sent = [b \in Missed(Number[Top]) |-> Parent[b]]

\* FastSyncToLatestBlock, which app.Start waits for, returns.  If it does so
\* without error on a chain that did not move, it has announced exactly the
\* blocks with logs between the block stored before and the block Watch goes
\* on from, each with its own parent; only when MaxBehind blocks have elapsed,
\* where the caller re-validates every order, does it drop the headers and
\* announce nothing.
NothingMissed ==
    /\ <>(pc = "returned")
    /\ [](pc = "returned" /\ ~err /\ ~moved /\ ~raced /\ start # NoBlock => Announced)

\* The logs gathered are those of at most one block of each height, from one
\* query, and of none above furthestBlockProcessed, however the chain is
\* reorganised between two requests: no log is processed twice, by the
\* backfill or by the Watch that follows it.
HeightsOnce ==
    \A l \in allLogs :
      /\ Number[start] < Number[l.block] /\ Number[l.block] <= furthest
      /\ \A k \in allLogs : Number[k.block] = Number[l.block] => k = l
=============================================================================
