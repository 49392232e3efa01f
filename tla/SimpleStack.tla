----------------------------- MODULE SimpleStack -----------------------------
(***************************************************************************)
(* ethereum/simplestack: the in-memory stack of block headers that the     *)
(* block watcher keeps.  A stack is a record                               *)
(*   miniHeaders        the headers, oldest first                          *)
(*   updates            the pushes and pops since the last checkpoint      *)
(*   latestCheckpointID                                                    *)
(* and every operation of the Go type is an operator from stacks to        *)
(* stacks.  All operations run under the stack's mutex, so they are        *)
(* atomic; Reset, a loop over `updates', is given as its loop body         *)
(* (UndoUpdate) and its last statement (EndReset).                         *)
(***************************************************************************)
EXTENDS Integers, Sequences

CONSTANTS Block,   \* block headers; a header is identified with its hash
          Number,  \* Number[b] is the block number of b
          NoBlock, \* the nil *MiniHeader
          Limit,   \* retention limit: the stack never holds more headers
          MaxID    \* bound: checkpoint ids count 1..MaxID and start again

ASSUME LimitAssumption == Limit \in Nat \ {0}
ASSUME MaxIDAssumption == MaxID \in Nat \ {0, 1}
ASSUME NumberAssumption == Number \in [Block -> Nat]
ASSUME NoBlockAssumption == NoBlock \notin Block

Update == [type : {"Pop", "Push"}, miniHeader : Block]

Stack == [miniHeaders : Seq(Block), updates : Seq(Update),
          latestCheckpointID : Nat]

\* New(retentionLimit, miniHeaders)
NewStack(miniHeaders) ==
    [miniHeaders |-> miniHeaders, updates |-> <<>>, latestCheckpointID |-> 0]

Peek(s) ==
    IF s.miniHeaders = <<>> THEN NoBlock
                            ELSE s.miniHeaders[Len(s.miniHeaders)]

\* A pop of the empty stack changes nothing and is not recorded.
Pop(s) ==
    IF s.miniHeaders = <<>>
    THEN s
    ELSE [miniHeaders |-> SubSeq(s.miniHeaders, 1, Len(s.miniHeaders) - 1),
          updates |-> Append(s.updates,
                             [type |-> "Pop", miniHeader |-> Peek(s)]),
          latestCheckpointID |-> s.latestCheckpointID]

\* Push returns an error when the stack holds a header of the same number.
PushFails(s, h) ==
    \E k \in 1..Len(s.miniHeaders) : Number[s.miniHeaders[k]] = Number[h]

\* The oldest header gives way when the stack is full.  Its eviction is not
\* recorded in `updates'.
Retained(headers) ==
    IF Len(headers) = Limit THEN Tail(headers) ELSE headers

Push(s, h) ==
    [miniHeaders |-> Append(Retained(s.miniHeaders), h),
     updates |-> Append(s.updates, [type |-> "Push", miniHeader |-> h]),
     latestCheckpointID |-> s.latestCheckpointID]

\* latestCheckpointID is a Go int that only grows.  Reset compares it with an
\* id handed out earlier and with 0, so counting in 1..MaxID is enough.
NextID(id) == IF id = MaxID THEN 1 ELSE id + 1

Checkpoint(s) ==
    [miniHeaders |-> s.miniHeaders, updates |-> <<>>,
     latestCheckpointID |-> NextID(s.latestCheckpointID)]

Clear(s) == NewStack(<<>>)

\* The error returns of Reset.
ResetFails(s, checkpointID) ==
    \/ s.latestCheckpointID = 0
    \/ checkpointID # s.latestCheckpointID

\* The loop body of Reset for index i.  push and pop append to `updates'
\* behind the entries the loop still has to read.
UndoFails(s, i) ==
    s.updates[i].type = "Pop" /\ PushFails(s, s.updates[i].miniHeader)

\* Mutant: a pushed header is not taken back.
UndoPopsOnly(s, i) ==
    IF s.updates[i].type = "Pop" /\ ~PushFails(s, s.updates[i].miniHeader)
    THEN Push(s, s.updates[i].miniHeader)
    ELSE s

UndoUpdate(s, i) ==
    IF s.updates[i].type = "Pop" THEN Push(s, s.updates[i].miniHeader)
                                 ELSE Pop(s)

EndReset(s) ==
    [miniHeaders |-> s.miniHeaders, updates |-> <<>>,
     latestCheckpointID |-> s.latestCheckpointID]

=============================================================================
