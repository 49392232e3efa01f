---------------------------- MODULE BlockWatcher ----------------------------
(***************************************************************************)
(* ethereum/blockwatch: Watch and SyncToLatestBlock.  The watcher polls an *)
(* Ethereum node and turns the node's canonical chain, which may be        *)
(* reorganised between any two RPC calls, into batches of Added and        *)
(* Removed events on a feed.  Every RPC call is a step of its own and may  *)
(* fail.  FastSyncToLatestBlock, which runs before Watch, is in module     *)
(* Backfill; what it leaves in the stack is this module's Init.            *)
(***************************************************************************)
EXTENDS SimpleStack

CONSTANTS Parent,     \* Parent[b] is the hash of b's parent
          Chains,     \* the canonical chains the Ethereum node may report
          MaxBehind,  \* constants.MaxBlocksStoredInNonArchiveNode
          FeedCap     \* capacity of the subscriber's channel

\* A chain is the sequence of its blocks; block number n is at position n.
\* Some block may have a parent outside Block: a header nobody can fetch.
ASSUME ParentAssumption ==
    /\ DOMAIN Parent = Block
    /\ \A b \in Block : Parent[b] \in Block => Number[b] = Number[Parent[b]] + 1
    /\ \A b \in Block : Parent[b] # NoBlock
ASSUME ChainsAssumption ==
    /\ Chains # {}
    /\ \A c \in Chains :
        /\ c \in Seq(Block) /\ c # <<>>
        /\ \A n \in 1..Len(c) : Number[c[n]] = n
        /\ \A n \in 1..(Len(c) - 1) : Parent[c[n + 1]] = c[n]
ASSUME BoundsAssumption == MaxBehind \in Nat \ {0} /\ FeedCap \in Nat \ {0}

VARIABLES
    chain,            \* external: the node's canonical chain
    reliable,         \* external: RPC has stopped failing, chain has settled
    stack,            \* w.stack
    feed,             \* batches sent on blockFeed, not yet received
    pc,               \* where Watch and SyncToLatestBlock are
    firstSync,        \* the sync of Watch before the ticker loop
    checkpointID,     \* locals of SyncToLatestBlock ...
    latestHeader,
    lastStoredHeader,
    numBlocksToFetch,
    fetched,          \* the loop variable i
    calls,            \* headers of the open buildCanonicalChain calls,
                      \* the innermost last
    events,           \* allEvents
    undo,             \* loop variable of Reset
    announced,        \* history: the stack when the last batch was sent
    emptied           \* history: this sync has removed all retained headers

rpcVars  == <<chain, reliable>>
loopVars == <<numBlocksToFetch, fetched>>
syncVars == <<checkpointID, latestHeader, lastStoredHeader>>
vars == <<rpcVars, stack, feed, pc, firstSync, syncVars, loopVars,
          calls, events, undo, announced, emptied>>

Event == [type : {"Added", "Removed"}, blockHeader : Block]

Added(b)   == [type |-> "Added", blockHeader |-> b]
Removed(b) == [type |-> "Removed", blockHeader |-> b]

Headers == stack.miniHeaders

Innermost == calls[Len(calls)]

\* Consecutive headers are parent and child.
Linked(s) == \A k \in 1..(Len(s) - 1) : Parent[s[k + 1]] = s[k]

Consecutive(s) == \A k \in 1..Len(s) : Number[s[k]] = Number[s[1]] + k - 1

-----------------------------------------------------------------------------
\* External: the Ethereum node.  Its canonical chain grows, is reorganised or
\* shrinks (a load balanced endpoint may answer from a node that is behind).
ChainMoves ==
    /\ ~reliable
    /\ chain' \in Chains
    /\ UNCHANGED <<reliable, stack, feed, pc, firstSync, syncVars, loopVars,
                   calls, events, undo, announced, emptied>>

\* External: from some time on the endpoint answers and the chain is stable.
Settle ==
    /\ ~reliable
    /\ reliable' = TRUE
    /\ UNCHANGED <<chain, stack, feed, pc, firstSync, syncVars, loopVars,
                   calls, events, undo, announced, emptied>>

\* External: the subscriber takes a batch from its channel.
Receive ==
    /\ feed # <<>>
    /\ feed' = Tail(feed)
    /\ UNCHANGED <<rpcVars, stack, pc, firstSync, syncVars, loopVars, calls,
                   events, undo, announced, emptied>>

RPCMayFail == ~reliable

\* SyncToLatestBlock returns: its locals are gone.
Return(next) ==
    /\ pc' = next
    /\ firstSync' = FALSE
    /\ checkpointID' = 0 /\ latestHeader' = NoBlock /\ lastStoredHeader' = NoBlock
    /\ numBlocksToFetch' = 0 /\ fetched' = 0
    /\ calls' = <<>> /\ events' = <<>> /\ undo' = 0 /\ emptied' = FALSE

-----------------------------------------------------------------------------
\* Watch: the ticker fires (or the first, immediate sync starts) and
\* SyncToLatestBlock takes a checkpoint.
StartSync ==
    /\ pc = "idle"
    /\ pc' = "latest"
    /\ stack' = Checkpoint(stack)
    /\ checkpointID' = stack'.latestCheckpointID
    /\ UNCHANGED <<rpcVars, feed, firstSync, latestHeader, lastStoredHeader,
                   loopVars, calls, events, undo, announced, emptied>>

\* Watch: the context is cancelled.
Cancel ==
    /\ pc = "idle" /\ ~firstSync
    /\ pc' = "stopped"
    /\ UNCHANGED <<rpcVars, stack, feed, firstSync, syncVars, loopVars, calls,
                   events, undo, announced, emptied>>

\* HeaderByNumber(nil) fails: the sync returns the error, Watch logs it.
LatestFails ==
    /\ pc = "latest" /\ RPCMayFail
    /\ Return("idle")
    /\ UNCHANGED <<rpcVars, stack, feed, announced>>

\* numBlocksToFetch for a latest header and a stored one.
Behind(header, stored) ==
    IF stored = NoBlock THEN 1 ELSE Number[header] - Number[stored]

\* Mutant: the no-op test is missing.
NeverCaughtUp(behind) == FALSE
\* Mutant: off by one, the last missing block is never fetched.
CaughtUpOneEarly(behind) == behind <= 1

\* "Noop if already caught up or ahead of latest block"
AlreadyCaughtUp(behind) == behind <= 0

TooManyBlocksBehind(behind) == behind >= MaxBehind

\* HeaderByNumber(nil) answers.  The sync is a no-op when the stack is not
\* behind; it gives up when it is too far behind, which ends Watch except in
\* its first sync, where the error is only logged.
Latest ==
    LET header == chain[Len(chain)]
        stored == Peek(stack)
        behind == Behind(header, stored)
    IN  /\ pc = "latest"
        /\ \/ /\ AlreadyCaughtUp(behind)
              /\ Return("idle")
           \/ /\ ~AlreadyCaughtUp(behind) /\ TooManyBlocksBehind(behind)
              /\ Return(IF firstSync THEN "idle" ELSE "stopped")
           \/ /\ ~AlreadyCaughtUp(behind) /\ ~TooManyBlocksBehind(behind)
              /\ pc' = "fetch"
              /\ latestHeader' = header
              /\ lastStoredHeader' = stored
              /\ numBlocksToFetch' = behind
              /\ UNCHANGED <<firstSync, checkpointID, fetched, calls, events,
                             undo, emptied>>
        /\ UNCHANGED <<rpcVars, stack, feed, announced>>

\* The loop of SyncToLatestBlock ends with no error.
FetchDone ==
    /\ pc = "fetch" /\ fetched = numBlocksToFetch
    /\ pc' = "finish"
    /\ UNCHANGED <<rpcVars, stack, feed, firstSync, syncVars, loopVars, calls,
                   events, undo, announced, emptied>>

\* The next header: the one known already when a single block is missing,
\* else HeaderByNumber(top + 1), answered from the chain of this moment.
Fetch ==
    /\ pc = "fetch" /\ fetched < numBlocksToFetch
    /\ \/ /\ numBlocksToFetch = 1
          /\ calls' = <<latestHeader>>
       \/ /\ numBlocksToFetch # 1
          /\ Number[Peek(stack)] + 1 <= Len(chain)
          /\ calls' = <<chain[Number[Peek(stack)] + 1]>>
    /\ pc' = "build"
    /\ UNCHANGED <<rpcVars, stack, feed, firstSync, syncVars, loopVars, events,
                   undo, announced, emptied>>

\* HeaderByNumber fails, or knows no block of that number.
FetchFails ==
    /\ pc = "fetch" /\ fetched < numBlocksToFetch /\ numBlocksToFetch # 1
    /\ RPCMayFail \/ Number[Peek(stack)] + 1 > Len(chain)
    /\ pc' = "finish"
    /\ UNCHANGED <<rpcVars, stack, feed, firstSync, syncVars, loopVars, calls,
                   events, undo, announced, emptied>>

-----------------------------------------------------------------------------
\* buildCanonicalChain(Innermost).

\* Mutant: only the block numbers are compared.
ExtendsByNumber(b) ==
    Peek(stack) # NoBlock => Number[b] = Number[Peek(stack)] + 1

Extends(b) == Peek(stack) = NoBlock \/ Parent[b] = Peek(stack)

\* An error returns through all open calls to SyncToLatestBlock, which keeps
\* the events gathered so far.
BuildError ==
    /\ pc' = "finish"
    /\ calls' = <<>>

\* addLogs, Push and the Added event; then return to the caller.
AddBlock ==
    /\ ~PushFails(stack, Innermost)
    /\ stack' = Push(stack, Innermost)
    /\ events' = Append(events, Added(Innermost))
    /\ calls' = SubSeq(calls, 1, Len(calls) - 1)
    /\ IF Len(calls) = 1
       THEN pc' = "fetch" /\ fetched' = fetched + 1
       ELSE pc' = "return" /\ UNCHANGED fetched

AddBlockFails ==
    /\ RPCMayFail \/ PushFails(stack, Innermost)
    /\ BuildError
    /\ UNCHANGED <<stack, events, fetched>>

\* The next block extends the stack, or the stack is empty.
BuildExtend ==
    /\ pc = "build" /\ Extends(Innermost)
    /\ AddBlock \/ AddBlockFails
    /\ UNCHANGED <<rpcVars, feed, firstSync, syncVars, numBlocksToFetch, undo,
                   announced, emptied>>

\* Mutant: the Removed event is forgotten.
BuildReorgSilently ==
    /\ pc = "build" /\ ~Extends(Innermost)
    /\ stack' = Pop(stack)
    /\ emptied' = (emptied \/ Len(Headers) = 1)
    /\ \/ /\ Parent[Innermost] \in Block
          /\ calls' = Append(calls, Parent[Innermost])
          /\ pc' = "build"
       \/ /\ RPCMayFail \/ Parent[Innermost] \notin Block
          /\ BuildError
    /\ UNCHANGED <<rpcVars, feed, firstSync, syncVars, loopVars, events, undo,
                   announced>>

\* The next block is on another branch: pop the top, emit Removed, fetch the
\* next block's parent by hash and recurse on it.
BuildReorg ==
    /\ pc = "build" /\ ~Extends(Innermost)
    /\ stack' = Pop(stack)
    /\ events' = Append(events, Removed(Peek(stack)))
    /\ emptied' = (emptied \/ Len(Headers) = 1)
    /\ \/ /\ Parent[Innermost] \in Block
          /\ calls' = Append(calls, Parent[Innermost])
          /\ pc' = "build"
       \/ /\ RPCMayFail \/ Parent[Innermost] \notin Block
          /\ BuildError
    /\ UNCHANGED <<rpcVars, feed, firstSync, syncVars, loopVars, undo, announced>>

\* The recursive call has put the parent on the stack: add the block itself.
BuildReturn ==
    /\ pc = "return"
    /\ AddBlock \/ AddBlockFails
    /\ UNCHANGED <<rpcVars, feed, firstSync, syncVars, numBlocksToFetch, undo,
                   announced, emptied>>

-----------------------------------------------------------------------------
\* Mutant: < where the code has <=.
RevertOnlyIfLower ==
    /\ events # <<>> /\ lastStoredHeader # NoBlock
    /\ Number[events[Len(events)].blockHeader] < Number[lastStoredHeader]

shouldRevertChanges ==
    /\ events # <<>> /\ lastStoredHeader # NoBlock
    /\ Number[events[Len(events)].blockHeader] <= Number[lastStoredHeader]

\* No events: nothing to revert or to send.
FinishNoEvents ==
    /\ pc = "finish" /\ events = <<>>
    /\ Return("idle")
    /\ UNCHANGED <<rpcVars, stack, feed, announced>>

\* Checkpoint and Send.  Send blocks while the subscriber's channel is full.
FinishSend ==
    /\ pc = "finish" /\ events # <<>> /\ ~shouldRevertChanges
    /\ Len(feed) < FeedCap
    /\ stack' = Checkpoint(stack)
    /\ feed' = Append(feed, events)
    /\ announced' = Headers
    /\ Return("idle")
    /\ UNCHANGED rpcVars

\* Reset(checkpointID) starts, or returns one of its errors.
FinishRevert ==
    /\ pc = "finish" /\ shouldRevertChanges
    /\ IF ResetFails(stack, checkpointID)
       THEN Return("idle")
       ELSE /\ pc' = "reset"
            /\ undo' = Len(stack.updates)
            /\ UNCHANGED <<firstSync, syncVars, loopVars, calls, events,
                           emptied>>
    /\ UNCHANGED <<rpcVars, stack, feed, announced>>

\* One iteration of Reset's loop.
ResetStep ==
    /\ pc = "reset" /\ undo > 0
    /\ IF UndoFails(stack, undo)
       THEN Return("idle") /\ UNCHANGED stack
       ELSE /\ stack' = UndoUpdate(stack, undo)
            /\ undo' = undo - 1
            /\ UNCHANGED <<pc, firstSync, syncVars, loopVars, calls, events,
                           emptied>>
    /\ UNCHANGED <<rpcVars, feed, announced>>

ResetEnd ==
    /\ pc = "reset" /\ undo = 0
    /\ stack' = EndReset(stack)
    /\ Return("idle")
    /\ UNCHANGED <<rpcVars, feed, announced>>

-----------------------------------------------------------------------------
Init ==
    /\ chain \in Chains
    /\ reliable = FALSE
    /\ \E c \in Chains :
          \E i \in 1..(Len(c) + 1), j \in 0..Len(c) :
            /\ j - i < Limit
            /\ stack = NewStack(SubSeq(c, i, j))
    /\ feed = <<>>
    /\ pc = "idle" /\ firstSync = TRUE
    /\ checkpointID = 0 /\ latestHeader = NoBlock /\ lastStoredHeader = NoBlock
    /\ numBlocksToFetch = 0 /\ fetched = 0
    /\ calls = <<>> /\ events = <<>> /\ undo = 0 /\ emptied = FALSE
    /\ announced = Headers

Sync ==
    \/ StartSync \/ LatestFails \/ Latest
    \/ FetchDone \/ Fetch \/ FetchFails
    \/ BuildExtend \/ BuildReorg \/ BuildReturn
    \/ FinishNoEvents \/ FinishSend \/ FinishRevert
    \/ ResetStep \/ ResetEnd

Next == ChainMoves \/ Settle \/ Receive \/ Cancel \/ Sync

Spec == Init /\ [][Next]_vars

\* Fairness: Watch keeps polling and its goroutine keeps running, and the
\* order watcher keeps receiving.  The chain, the RPC failures and the
\* cancellation are the environment's and get none.
FairSpec == Spec /\ WF_vars(Sync) /\ WF_vars(Receive)

-----------------------------------------------------------------------------
\* The watcher's state and the locals of SyncToLatestBlock have the types of
\* the Go code.
TypeOK ==
    /\ chain \in Chains /\ reliable \in BOOLEAN
    /\ stack \in Stack
    /\ feed \in Seq(Seq(Event))
    /\ pc \in {"idle", "latest", "fetch", "build", "return", "finish", "reset",
               "stopped"}
    /\ firstSync \in BOOLEAN
    /\ checkpointID \in Nat
    /\ latestHeader \in Block \cup {NoBlock}
    /\ lastStoredHeader \in Block \cup {NoBlock}
    /\ numBlocksToFetch \in Nat /\ fetched \in Nat /\ undo \in Nat
    /\ calls \in Seq(Block) /\ events \in Seq(Event)
    /\ announced \in Seq(Block) /\ emptied \in BOOLEAN

\* The stack is one branch of the chain at every moment, in the middle of a
\* reorg and of a Reset too: each header is the child of the one below it,
\* and there are never more than Limit of them.
StackIsABranch == Linked(Headers) /\ Len(Headers) <= Limit

\* No operation on the stack ever takes one of its error returns: no block
\* number is pushed twice, Reset is called with the latest checkpoint and
\* can undo every update.  And the loop of SyncToLatestBlock never asks the
\* empty stack for the number of its top, a nil dereference.
NoStackError ==
    /\ pc = "fetch" /\ numBlocksToFetch # 1 => Peek(stack) # NoBlock
    /\ pc = "build" /\ Extends(Innermost) => ~PushFails(stack, Innermost)
    /\ pc = "return" => ~PushFails(stack, Innermost)
    /\ pc = "finish" /\ shouldRevertChanges => ~ResetFails(stack, checkpointID)
    /\ pc = "reset" /\ undo > 0 => ~UndoFails(stack, undo)

\* The block a consumer is at after an event.
TipAfter(e) == IF e.type = "Added" THEN e.blockHeader ELSE Parent[e.blockHeader]

\* A batch can be applied event by event: a Removed event names the block the
\* consumer is at and an Added event a child of it.
Applies(tip, e) ==
    TipAfter([e EXCEPT !.type = IF @ = "Added" THEN "Removed" ELSE "Added"]) = tip

\* While the sync is running, the batch gathered so far leads from the header
\* stored before the sync to the top of the stack, without a gap, unless a
\* reorg goes deeper than the retained headers.
BatchIsAPath ==
    events # <<>> /\ pc # "reset" /\ ~emptied =>
      /\ lastStoredHeader # NoBlock => Applies(lastStoredHeader, events[1])
      /\ \A k \in 1..(Len(events) - 1) :
            Applies(TipAfter(events[k]), events[k + 1])
      /\ TipAfter(events[Len(events)]) = Peek(stack)

IsSuffixOf(s, t) ==
    /\ Len(s) <= Len(t)
    /\ \A k \in 1..Len(s) : s[k] = t[Len(t) - Len(s) + k]

\* Between syncs the subscribers know of every header in the stack, in the
\* same order: a sync that sends nothing adds nothing to the stack.
StackWasAnnounced == pc = "idle" => IsSuffixOf(Headers, announced)

Height(s) == IF s = <<>> THEN 0 ELSE Number[s[Len(s)]]

\* A batch never leaves the consumer at a lower block than before, unless a
\* reorg went deeper than the retained headers.
NeverFallsBack == [][emptied \/ Height(announced') >= Height(announced)]_announced

CaughtUp ==
    \/ pc = "stopped"
    \/ Height(announced) >= Len(chain)

\* Once the endpoint is reliable and the chain stable, the watcher reaches the
\* latest block, unless it is already as high on another branch, is too far
\* behind, or was stopped.
Converges == reliable ~> CaughtUp

=============================================================================
