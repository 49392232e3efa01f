------------------------- MODULE BlockWatcherProofs -------------------------
(***************************************************************************)
(* Theorems about BlockWatcher, for every block tree, retention limit and  *)
(* channel capacity.                                                       *)
(***************************************************************************)
EXTENDS BlockWatcher, SequenceTheorems, TLAPS

\* The stack operations take stacks to stacks, and Peek returns a header of
\* the stack or nil.
LEMMA StackTypes ==
    ASSUME NEW s \in Stack
    PROVE  /\ Peek(s) \in Block \cup {NoBlock}
           /\ s.miniHeaders # <<>> => Peek(s) \in Block
           /\ Pop(s) \in Stack
           /\ Checkpoint(s) \in Stack
           /\ EndReset(s) \in Stack
           /\ \A h \in Block : Push(s, h) \in Stack
           /\ \A i \in 1..Len(s.updates) : UndoUpdate(s, i) \in Stack
<1>1. /\ s.miniHeaders \in Seq(Block) /\ s.updates \in Seq(Update)
      /\ s.latestCheckpointID \in Nat
  BY DEF Stack
<1>2. s.miniHeaders # <<>> => Peek(s) \in Block
  BY <1>1 DEF Peek
<1>3. Peek(s) \in Block \cup {NoBlock}
  BY <1>2 DEF Peek
<1>4. Pop(s) \in Stack
  <2>1. CASE s.miniHeaders = <<>>
    BY <2>1 DEF Pop
  <2>2. CASE s.miniHeaders # <<>>
    <3>1. SubSeq(s.miniHeaders, 1, Len(s.miniHeaders) - 1) \in Seq(Block)
      BY <1>1, <2>2
    <3>2. [type |-> "Pop", miniHeader |-> Peek(s)] \in Update
      BY <1>2, <2>2 DEF Update
    <3>3. Append(s.updates, [type |-> "Pop", miniHeader |-> Peek(s)]) \in Seq(Update)
      BY <1>1, <3>2
    <3> QED BY <1>1, <2>2, <3>1, <3>3 DEF Pop, Stack
  <2> QED BY <2>1, <2>2
<1>5. \A h \in Block : Push(s, h) \in Stack
  <2> TAKE h \in Block
  <2>1. Retained(s.miniHeaders) \in Seq(Block)
    <3>1. CASE Len(s.miniHeaders) = Limit
      BY <1>1, <3>1, LimitAssumption DEF Retained
    <3> QED BY <1>1, <3>1 DEF Retained
  <2>2. Append(Retained(s.miniHeaders), h) \in Seq(Block)
    BY <2>1
  <2>3. [type |-> "Push", miniHeader |-> h] \in Update
    BY DEF Update
  <2>4. Append(s.updates, [type |-> "Push", miniHeader |-> h]) \in Seq(Update)
    BY <1>1, <2>3
  <2> QED BY <1>1, <2>2, <2>4 DEF Push, Stack
<1>6. Checkpoint(s) \in Stack
  <2>1. NextID(s.latestCheckpointID) \in Nat
    BY <1>1 DEF NextID
  <2> QED BY <1>1, <2>1 DEF Checkpoint, Stack
<1>7. EndReset(s) \in Stack
  BY <1>1 DEF EndReset, Stack
<1>8. \A i \in 1..Len(s.updates) : UndoUpdate(s, i) \in Stack
  <2> TAKE i \in 1..Len(s.updates)
  <2>1. s.updates[i] \in Update
    BY <1>1
  <2>2. s.updates[i].miniHeader \in Block
    BY <2>1 DEF Update
  <2> QED BY <1>4, <1>5, <2>2 DEF UndoUpdate
<1> QED BY <1>2, <1>3, <1>4, <1>5, <1>6, <1>7, <1>8

\* Undoing an update leaves the recorded updates where they are.
LEMMA UndoKeepsUpdates ==
    ASSUME NEW s \in Stack, NEW i \in 1..Len(s.updates)
    PROVE  LET t == UndoUpdate(s, i)
           IN  /\ Len(t.updates) \in Nat /\ Len(t.updates) >= Len(s.updates)
               /\ \A k \in 1..Len(s.updates) : t.updates[k] = s.updates[k]
               /\ t.latestCheckpointID = s.latestCheckpointID
<1>1. s.updates \in Seq(Update) /\ s.miniHeaders \in Seq(Block)
  BY DEF Stack
<1>2. s.updates[i] \in Update
  BY <1>1
<1>3. CASE s.updates[i].type = "Pop"
  <2> DEFINE h == s.updates[i].miniHeader
             u == [type |-> "Push", miniHeader |-> h]
  <2>1. u \in Update
    BY <1>2 DEF Update
  <2>2. UndoUpdate(s, i).updates = Append(s.updates, u)
    BY <1>3 DEF UndoUpdate, Push
  <2>3. UndoUpdate(s, i).latestCheckpointID = s.latestCheckpointID
    BY <1>3 DEF UndoUpdate, Push
  <2> HIDE DEF u
  <2> QED BY <1>1, <2>1, <2>2, <2>3
<1>4. CASE s.updates[i].type # "Pop"
  <2>1. CASE s.miniHeaders = <<>>
    BY <1>1, <1>4, <2>1 DEF UndoUpdate, Pop
  <2>2. CASE s.miniHeaders # <<>>
    <3> DEFINE u == [type |-> "Pop", miniHeader |-> Peek(s)]
    <3>1. u \in Update
      BY <2>2, StackTypes DEF Update
    <3>2. UndoUpdate(s, i).updates = Append(s.updates, u)
      BY <1>4, <2>2 DEF UndoUpdate, Pop
    <3>3. UndoUpdate(s, i).latestCheckpointID = s.latestCheckpointID
      BY <1>4, <2>2 DEF UndoUpdate, Pop
    <3> HIDE DEF u
    <3> QED BY <1>1, <3>1, <3>2, <3>3
  <2> QED BY <2>1, <2>2
<1> QED BY <1>3, <1>4

\* The action that leaves SyncToLatestBlock puts its locals in their types.
LEMMA ReturnType ==
    ASSUME NEW next \in {"idle", "stopped"}, Return(next)
    PROVE  /\ pc' = next /\ firstSync' \in BOOLEAN /\ emptied' \in BOOLEAN
           /\ checkpointID' \in Nat
           /\ latestHeader' \in Block \cup {NoBlock}
           /\ lastStoredHeader' \in Block \cup {NoBlock}
           /\ numBlocksToFetch' \in Nat /\ fetched' \in Nat /\ undo' \in Nat
           /\ calls' \in Seq(Block) /\ events' \in Seq(Event)
<1>1. firstSync' \in BOOLEAN /\ emptied' \in BOOLEAN
  BY Zenon DEF Return
<1>2. /\ pc' = next
      /\ checkpointID' \in Nat
      /\ latestHeader' \in Block \cup {NoBlock}
      /\ lastStoredHeader' \in Block \cup {NoBlock}
      /\ numBlocksToFetch' \in Nat /\ fetched' \in Nat /\ undo' \in Nat
      /\ calls' \in Seq(Block) /\ events' \in Seq(Event)
  BY SMT DEF Return
<1> QED BY <1>1, <1>2

\* Where the control is, the locals have the values the next statement needs.
Control ==
    /\ pc \in {"build", "return"} => calls # <<>>
    /\ \A k \in 1..(Len(calls) - 1) : calls[k + 1] = Parent[calls[k]]
    /\ pc = "return" => Headers # <<>> /\ Parent[Innermost] = Peek(stack)
    /\ pc = "fetch" /\ numBlocksToFetch # 1 => Headers # <<>>
    /\ pc \in {"fetch", "build", "return"} => latestHeader \in Block
    /\ pc = "reset" => undo <= Len(stack.updates)

TypeInv == TypeOK /\ Control

\* The watcher that Watch starts with satisfies the type invariant.
LEMMA InitTypeInv == Init => TypeInv
<1> SUFFICES ASSUME Init PROVE TypeInv
  OBVIOUS
<1>1. PICK c \in Chains, i \in Nat, j \in Nat :
        /\ i \in 1..(Len(c) + 1) /\ j \in 0..Len(c)
        /\ stack = NewStack(SubSeq(c, i, j))
  <2>1. \A c \in Chains : Len(c) \in Nat
    BY ChainsAssumption
  <2> QED BY <2>1 DEF Init
<1>2. SubSeq(c, i, j) \in Seq(Block)
  BY <1>1, ChainsAssumption
<1>3. stack \in Stack /\ Headers \in Seq(Block)
  BY <1>1, <1>2 DEF NewStack, Stack, Headers
<1>4. reliable \in BOOLEAN /\ firstSync \in BOOLEAN /\ emptied \in BOOLEAN
  BY Zenon DEF Init
<1>5. TypeOK
  BY <1>3, <1>4 DEF Init, TypeOK
<1>6. Control
  BY <1>3 DEF Init, Control
<1> QED
  BY <1>5, <1>6 DEF TypeInv

\* The one open call that the loop of SyncToLatestBlock makes.
LEMMA SingletonSeq ==
    ASSUME NEW b \in Block
    PROVE  <<b>> \in Seq(Block) /\ Len(<<b>>) = 1 /\ <<b>> # <<>>
OBVIOUS

\* An action whose control ends in "idle" or "stopped" through Return.
LEMMA ReturnControl ==
    ASSUME NEW next \in {"idle", "stopped"}, Return(next)
    PROVE  Control'
<1>1. calls' = <<>> /\ pc' = next
  BY DEF Return
<1> QED BY <1>1 DEF Control

\* A push puts its argument on top.
LEMMA PushTop ==
    ASSUME NEW s \in Stack, NEW h \in Block
    PROVE  Push(s, h).miniHeaders # <<>> /\ Peek(Push(s, h)) = h
<1>1. s.miniHeaders \in Seq(Block)
  BY DEF Stack
<1>2. Retained(s.miniHeaders) \in Seq(Block)
  <2>1. CASE Len(s.miniHeaders) = Limit
    BY <1>1, <2>1, LimitAssumption DEF Retained
  <2> QED BY <1>1, <2>1 DEF Retained
<1>3. Push(s, h).miniHeaders = Append(Retained(s.miniHeaders), h)
  BY DEF Push
<1> QED BY <1>2, <1>3 DEF Peek

\* A sequence without its last element.
Front(s) == SubSeq(s, 1, Len(s) - 1)

\* What Pop leaves of the stack's headers, and a return of the open calls.
LEMMA FrontProperties ==
    ASSUME NEW s \in Seq(Block), s # <<>>
    PROVE  /\ Front(s) \in Seq(Block) /\ Len(Front(s)) = Len(s) - 1
           /\ \A k \in 1..(Len(s) - 1) : Front(s)[k] = s[k]
           /\ Len(s) \in Nat \ {0} /\ s[Len(s)] \in Block
<1>1. Len(s) \in Nat \ {0}
  OBVIOUS
<1>2. \A k \in 1..(Len(s) - 1) : s[k] \in Block
  BY <1>1
<1>3. Front(s) \in Seq(Block) /\ Len(Front(s)) = Len(s) - 1
  <2>1. PICK n \in Nat : n = Len(s) - 1
    BY <1>1
  <2>2. SubSeq(s, 1, n) \in Seq(Block) /\ Len(SubSeq(s, 1, n)) = n
    <3>1. CASE n = 0
      BY <3>1
    <3>2. CASE n # 0
      BY <1>2, <2>1, <3>2
    <3> QED BY <3>1, <3>2
  <2> QED BY <2>1, <2>2 DEF Front
<1>4. \A k \in 1..(Len(s) - 1) : Front(s)[k] = s[k]
  BY <1>1, <1>2, SubSeqProperties DEF Front
<1> QED BY <1>1, <1>3, <1>4

\* The calls that stay open when the innermost one returns.
LEMMA OpenCalls ==
    ASSUME NEW c \in Seq(Block), c # <<>>,
           \A k \in 1..(Len(c) - 1) : c[k + 1] = Parent[c[k]]
    PROVE  /\ \A k \in 1..(Len(Front(c)) - 1) : Front(c)[k + 1] = Parent[Front(c)[k]]
           /\ Len(c) # 1 =>
                Front(c) # <<>> /\ Parent[Front(c)[Len(Front(c))]] = c[Len(c)]
<1>1. /\ Front(c) \in Seq(Block) /\ Len(Front(c)) = Len(c) - 1
      /\ \A k \in 1..(Len(c) - 1) : Front(c)[k] = c[k]
      /\ Len(c) \in Nat \ {0}
  BY FrontProperties
<1>2. \A k \in 1..(Len(Front(c)) - 1) : Front(c)[k + 1] = Parent[Front(c)[k]]
  BY <1>1
<1>3. ASSUME Len(c) # 1
      PROVE  Front(c) # <<>> /\ Parent[Front(c)[Len(Front(c))]] = c[Len(c)]
  <2>1. Len(c) - 1 \in 1..(Len(c) - 1)
    BY <1>1, <1>3
  <2>2. c[(Len(c) - 1) + 1] = Parent[c[Len(c) - 1]]
    BY <2>1
  <2> QED BY <1>1, <1>3, <2>1, <2>2
<1> QED BY <1>2, <1>3

\* AddBlock and AddBlockFails, in the two actions they are part of.
LEMMA AddBlockTypeInv ==
    ASSUME TypeOK, Control, calls # <<>>, AddBlock \/ AddBlockFails,
           pc \in {"build", "return"},
           UNCHANGED <<rpcVars, feed, firstSync, syncVars, numBlocksToFetch, undo,
                       announced, emptied>>
    PROVE  TypeOK' /\ Control'
<1>0. stack \in Stack /\ calls \in Seq(Block) /\ events \in Seq(Event)
  BY DEF TypeOK
<1>1. CASE AddBlock
  <2> DEFINE rest == Front(calls)
  <2>1. /\ Innermost \in Block
        /\ rest \in Seq(Block) /\ Len(rest) = Len(calls) - 1
        /\ \A k \in 1..(Len(rest) - 1) : rest[k + 1] = Parent[rest[k]]
        /\ Len(calls) # 1 => rest # <<>> /\ Parent[rest[Len(rest)]] = Innermost
    BY <1>0, OpenCalls, FrontProperties DEF Innermost, Control
  <2>2. calls' = rest /\ stack' = Push(stack, Innermost)
    BY <1>1 DEF AddBlock, Front
  <2> HIDE DEF rest
  <2>3. stack' \in Stack /\ Headers' # <<>> /\ Peek(stack') = Innermost
    BY <1>0, <2>1, <2>2, StackTypes, PushTop, Zenon DEF Headers
  <2>4. events' \in Seq(Event)
    <3>1. Added(Innermost) \in Event
      BY <2>1 DEF Added, Event
    <3> QED BY <1>0, <1>1, <3>1 DEF AddBlock
  <2>5. fetched' \in Nat /\ pc' \in {"fetch", "return"}
    BY <1>1 DEF AddBlock, TypeOK
  <2>6. TypeOK'
    BY <2>1, <2>2, <2>3, <2>4, <2>5 DEF TypeOK, rpcVars, syncVars
  <2>7. pc' = "return" => Len(calls) # 1
    BY <1>1 DEF AddBlock
  <2>8. pc' = "return" => rest # <<>> /\ Parent[Innermost'] = Peek(stack')
    BY <2>1, <2>2, <2>3, <2>7 DEF Innermost
  <2>9. Control'
    BY <2>1, <2>2, <2>3, <2>5, <2>8 DEF Control, syncVars
  <2> QED BY <2>6, <2>9
<1>2. CASE AddBlockFails
  BY <1>2 DEF AddBlockFails, BuildError, TypeOK, Control, syncVars, rpcVars
<1> QED BY <1>1, <1>2

\* Every step of the watcher, the node and the subscriber preserves it.
LEMMA StepTypeInv == TypeInv /\ [Next]_vars => TypeInv'
<1> SUFFICES ASSUME TypeOK, Control, [Next]_vars
             PROVE  TypeOK' /\ Control'
  BY DEF TypeInv
<1>0. stack \in Stack /\ Headers \in Seq(Block) /\ calls \in Seq(Block)
  BY DEF TypeOK, Stack, Headers
<1>1. CASE ChainMoves
  BY <1>1 DEF ChainMoves, TypeOK, Control, Headers, Innermost, syncVars, loopVars
<1>2. CASE Settle
  <2>1. reliable' \in BOOLEAN
    BY <1>2, Zenon DEF Settle
  <2> QED
    BY <1>2, <2>1 DEF Settle, TypeOK, Control, Headers, Innermost, syncVars, loopVars
<1>3. CASE Receive
  BY <1>3 DEF Receive, TypeOK, Control, Headers, Innermost, syncVars, loopVars, rpcVars
<1>4. CASE Cancel
  BY <1>4 DEF Cancel, TypeOK, Control, Headers, Innermost, syncVars, loopVars, rpcVars
<1>5. CASE StartSync
  <2>1. stack' \in Stack /\ checkpointID' \in Nat
    BY <1>0, <1>5, StackTypes DEF StartSync, Stack
  <2> QED
    BY <1>5, <2>1 DEF StartSync, TypeOK, Control, loopVars, rpcVars
<1>6. CASE LatestFails
  BY <1>6, ReturnType, ReturnControl DEF LatestFails, TypeOK, rpcVars
<1>7. CASE Latest
  <2> DEFINE header == chain[Len(chain)]
             stored == Peek(stack)
             behind == Behind(header, stored)
  <2>1. header \in Block
    <3>1. chain \in Seq(Block) /\ chain # <<>>
      BY ChainsAssumption DEF TypeOK
    <3> QED BY <3>1
  <2>2. stored \in Block \cup {NoBlock} /\ (stored # NoBlock => Headers # <<>>)
    BY <1>0, StackTypes DEF Peek, Headers
  <2>3. behind \in Int /\ (stored = NoBlock => behind = 1)
    <3>1. CASE stored = NoBlock
      BY <3>1 DEF Behind
    <3>2. CASE stored # NoBlock
      BY <2>1, <2>2, <3>2, NumberAssumption DEF Behind
    <3> QED BY <3>1, <3>2
  <2> HIDE DEF header, stored, behind
  <2>4. /\ pc = "latest" /\ UNCHANGED <<rpcVars, stack, feed, announced>>
        /\ \/ Return("idle")
           \/ Return(IF firstSync THEN "idle" ELSE "stopped")
           \/ /\ ~AlreadyCaughtUp(behind) /\ pc' = "fetch"
              /\ latestHeader' = header /\ lastStoredHeader' = stored
              /\ numBlocksToFetch' = behind
              /\ UNCHANGED <<firstSync, checkpointID, fetched, calls, events,
                             undo, emptied>>
    BY <1>7, Zenon DEF Latest, header, stored, behind
  <2>5. CASE \E next \in {"idle", "stopped"} : Return(next)
    BY <2>4, <2>5, ReturnType, ReturnControl DEF TypeOK, rpcVars
  <2>6. CASE /\ ~AlreadyCaughtUp(behind) /\ pc' = "fetch"
             /\ latestHeader' = header /\ lastStoredHeader' = stored
             /\ numBlocksToFetch' = behind
             /\ UNCHANGED <<firstSync, checkpointID, fetched, calls, events,
                            undo, emptied>>
    <3>1. numBlocksToFetch' \in Nat
      BY <2>3, <2>6 DEF AlreadyCaughtUp
    <3>2. TypeOK'
      BY <2>1, <2>2, <2>4, <2>6, <3>1 DEF TypeOK, rpcVars
    <3>3. Control'
      BY <2>1, <2>2, <2>3, <2>4, <2>6 DEF Control, Headers
    <3> QED BY <3>2, <3>3
  <2> QED BY <2>4, <2>5, <2>6
<1>8. CASE FetchDone
  BY <1>8 DEF FetchDone, TypeOK, Control, Headers, Innermost, syncVars, loopVars, rpcVars
<1>9. CASE Fetch
  <2>1. calls' \in Seq(Block) /\ Len(calls') = 1 /\ calls' # <<>>
    <3>1. CASE numBlocksToFetch = 1
      <4>1. latestHeader \in Block /\ calls' = <<latestHeader>>
        BY <1>9, <3>1 DEF Fetch, Control
      <4> QED BY <4>1, SingletonSeq
    <3>2. CASE numBlocksToFetch # 1
      <4>1. Peek(stack) \in Block
        BY <1>0, <1>9, <3>2, StackTypes DEF Fetch, Control, Headers
      <4>2. chain \in Seq(Block)
        BY ChainsAssumption DEF TypeOK
      <4>3. chain[Number[Peek(stack)] + 1] \in Block
        BY <1>9, <3>2, <4>1, <4>2, NumberAssumption DEF Fetch
      <4>4. calls' = <<chain[Number[Peek(stack)] + 1]>>
        BY <1>9, <3>2 DEF Fetch
      <4> QED BY <4>3, <4>4, SingletonSeq
    <3> QED BY <3>1, <3>2
  <2>2. TypeOK'
    BY <1>9, <2>1 DEF Fetch, TypeOK, syncVars, loopVars, rpcVars
  <2>3. Control'
    BY <1>9, <2>1 DEF Fetch, Control, syncVars, loopVars, rpcVars
  <2> QED BY <2>2, <2>3
<1>10. CASE FetchFails
  BY <1>10 DEF FetchFails, TypeOK, Control, Headers, Innermost, syncVars, loopVars, rpcVars
<1>11. CASE BuildExtend
  <2>1. calls # <<>>
    BY <1>11 DEF BuildExtend, Control
  <2> QED BY <1>11, <2>1, AddBlockTypeInv DEF BuildExtend
<1>12. CASE BuildReorg
  <2>1. calls # <<>> /\ Innermost \in Block
    BY <1>0, <1>12 DEF BuildReorg, Control, Innermost
  <2>2. Peek(stack) \in Block
    BY <1>0, <1>12, StackTypes DEF BuildReorg, Extends
  <2>3. stack' \in Stack
    BY <1>0, <1>12, StackTypes DEF BuildReorg
  <2>4. events' \in Seq(Event)
    <3>1. Removed(Peek(stack)) \in Event
      BY <2>2 DEF Removed, Event
    <3> QED BY <1>12, <3>1 DEF BuildReorg, TypeOK
  <2>5. emptied' \in BOOLEAN
    BY <1>12, Zenon DEF BuildReorg
  <2>6. CASE /\ Parent[Innermost] \in Block
             /\ calls' = Append(calls, Parent[Innermost]) /\ pc' = "build"
    <3>1. /\ calls' \in Seq(Block) /\ calls' # <<>> /\ Len(calls') = Len(calls) + 1
          /\ \A k \in 1..Len(calls) : calls'[k] = calls[k]
          /\ calls'[Len(calls) + 1] = Parent[calls[Len(calls)]]
      BY <1>0, <2>1, <2>6 DEF Innermost
    <3>2. \A k \in 1..(Len(calls') - 1) : calls'[k + 1] = Parent[calls'[k]]
      BY <1>0, <3>1 DEF Control
    <3>3. TypeOK'
      BY <1>12, <2>3, <2>4, <2>5, <2>6, <3>1 DEF BuildReorg, TypeOK, rpcVars, syncVars, loopVars
    <3>4. Control'
      BY <1>12, <2>6, <3>1, <3>2 DEF BuildReorg, Control, syncVars
    <3> QED BY <3>3, <3>4
  <2>7. CASE BuildError
    <3>1. TypeOK'
      BY <1>12, <2>3, <2>4, <2>5, <2>7 DEF BuildError, BuildReorg, TypeOK, rpcVars, syncVars, loopVars
    <3>2. Control'
      BY <1>12, <2>7 DEF BuildError, BuildReorg, Control
    <3> QED BY <3>1, <3>2
  <2> QED BY <1>12, <2>6, <2>7 DEF BuildReorg
<1>13. CASE BuildReturn
  <2>1. calls # <<>>
    BY <1>13 DEF BuildReturn, Control
  <2> QED BY <1>13, <2>1, AddBlockTypeInv DEF BuildReturn
<1>14. CASE FinishNoEvents
  BY <1>14, ReturnType, ReturnControl DEF FinishNoEvents, TypeOK, rpcVars
<1>15. CASE FinishSend
  <2>1. stack' \in Stack
    BY <1>0, <1>15, StackTypes DEF FinishSend
  <2>2. feed' \in Seq(Seq(Event)) /\ announced' \in Seq(Block)
    BY <1>0, <1>15 DEF FinishSend, TypeOK
  <2> QED
    BY <1>15, <2>1, <2>2, ReturnType, ReturnControl DEF FinishSend, TypeOK, rpcVars
<1>16. CASE FinishRevert
  <2>1. CASE ResetFails(stack, checkpointID)
    BY <1>16, <2>1, ReturnType, ReturnControl DEF FinishRevert, TypeOK, rpcVars
  <2>2. CASE ~ResetFails(stack, checkpointID)
    <3>1. undo' \in Nat /\ undo' = Len(stack'.updates)
      BY <1>0, <1>16, <2>2 DEF FinishRevert, Stack
    <3> QED
      BY <1>16, <2>2, <3>1 DEF FinishRevert, TypeOK, Control, syncVars, loopVars, rpcVars
  <2> QED BY <2>1, <2>2
<1>17. CASE ResetStep
  <2>1. CASE UndoFails(stack, undo)
    BY <1>17, <2>1, ReturnType, ReturnControl DEF ResetStep, TypeOK, rpcVars
  <2>2. CASE ~UndoFails(stack, undo)
    <3>1. undo \in 1..Len(stack.updates) /\ Len(stack.updates) \in Nat
      <4>1. undo > 0 /\ undo <= Len(stack.updates)
        BY <1>17 DEF ResetStep, Control
      <4>2. undo \in Nat /\ Len(stack.updates) \in Nat
        BY <1>0 DEF TypeOK, Stack
      <4> QED BY <4>1, <4>2
    <3>2. stack' \in Stack /\ stack' = UndoUpdate(stack, undo)
      BY <1>0, <1>17, <2>2, <3>1, StackTypes DEF ResetStep
    <3>3. Len(stack'.updates) \in Nat /\ Len(stack'.updates) >= undo - 1
      BY <1>0, <3>1, <3>2, UndoKeepsUpdates
    <3>4. undo' = undo - 1
      BY <1>17, <2>2 DEF ResetStep
    <3>5. undo' \in Nat
      BY <3>1, <3>4
    <3>6. TypeOK'
      BY <1>17, <2>2, <3>2, <3>5 DEF ResetStep, TypeOK, syncVars, loopVars, rpcVars
    <3>7. pc' = "reset" /\ undo' <= Len(stack'.updates)
      BY <1>17, <2>2, <3>3, <3>4 DEF ResetStep
    <3>8. Control'
      BY <1>17, <2>2, <3>5, <3>7 DEF ResetStep, Control, syncVars, loopVars, rpcVars
    <3> QED
      BY <3>6, <3>8
  <2> QED BY <2>1, <2>2
<1>18. CASE ResetEnd
  <2>1. stack' \in Stack
    BY <1>0, <1>18, StackTypes DEF ResetEnd
  <2> QED
    BY <1>18, <2>1, ReturnType, ReturnControl DEF ResetEnd, TypeOK, rpcVars
<1>20. CASE UNCHANGED vars
  <2>1. TypeOK'
    BY <1>20 DEF vars, TypeOK, syncVars, loopVars, rpcVars
  <2>2. Headers' = Headers /\ Innermost' = Innermost /\ Peek(stack)' = Peek(stack)
    BY <1>20 DEF vars, Headers, Innermost
  <2>3. Control'
    BY <1>20, <2>2 DEF vars, Control, syncVars, loopVars, rpcVars
  <2> QED BY <2>1, <2>3
<1> QED
  BY <1>1, <1>2, <1>3, <1>4, <1>5, <1>6, <1>7, <1>8, <1>9, <1>10, <1>11, <1>12,
     <1>13, <1>14, <1>15, <1>16, <1>17, <1>18, <1>20 DEF Next, Sync

\* Every variable of the watcher has its type in every state.
THEOREM TypeCorrect == Spec => []TypeOK
<1>1. TypeInv => TypeOK
  BY DEF TypeInv
<1> QED BY <1>1, InitTypeInv, StepTypeInv, PTL DEF Spec

-----------------------------------------------------------------------------
(***************************************************************************)
(* The stack of the block watcher is one branch of the chain in every      *)
(* state, none of its operations fails, and between syncs it holds nothing *)
(* that was not announced.  The argument follows the updates recorded      *)
(* since the checkpoint: hist[k] is what the stack held, or more, before   *)
(* update k, and Reset walks back through it.                              *)
(***************************************************************************)
Branch(s) == Linked(s) /\ Consecutive(s) /\ Len(s) <= Limit

\* Undoing update u takes `after', or a suffix of it, to a suffix of `before'.
Undoes(before, after, u) ==
    /\ u.type = "Push" => after # <<>> /\ after[Len(after)] = u.miniHeader /\ IsSuffixOf(Front(after), before)
    /\ u.type = "Pop" => IsSuffixOf(Append(after, u.miniHeader), before)

\* A suffix of a branch is a branch.
LEMMA SuffixOfBranch ==
    ASSUME NEW s \in Seq(Block), NEW t \in Seq(Block), IsSuffixOf(s, t), Branch(t)
    PROVE  Branch(s)
<1> DEFINE d == Len(t) - Len(s)
<1>1. Len(s) \in Nat /\ Len(t) \in Nat /\ d \in Nat /\ Len(t) = d + Len(s)
  BY DEF IsSuffixOf
<1>2. \A k \in 1..Len(s) : s[k] = t[d + k] /\ d + k \in 1..Len(t)
  BY <1>1 DEF IsSuffixOf
<1>3. Len(s) <= Limit
  BY <1>1, LimitAssumption DEF Branch
<1> HIDE DEF d
<1>4. Linked(s)
  <2> SUFFICES ASSUME NEW k \in 1..(Len(s) - 1) PROVE Parent[s[k + 1]] = s[k]
    BY DEF Linked
  <2>1. s[k] = t[d + k] /\ s[k + 1] = t[(d + k) + 1] /\ d + k \in 1..(Len(t) - 1)
    BY <1>1, <1>2
  <2> QED BY <2>1 DEF Branch, Linked
<1>5. Consecutive(s)
  <2> SUFFICES ASSUME NEW k \in 1..Len(s)
               PROVE  Number[s[k]] = Number[s[1]] + k - 1
    BY DEF Consecutive
  <2>1. s[k] = t[d + k] /\ s[1] = t[d + 1] /\ d + k \in 1..Len(t) /\ d + 1 \in 1..Len(t)
    BY <1>1, <1>2
  <2>2. Number[t[d + k]] = Number[t[1]] + (d + k) - 1
    BY <2>1 DEF Branch, Consecutive
  <2>3. Number[t[d + 1]] = Number[t[1]] + (d + 1) - 1
    BY <2>1 DEF Branch, Consecutive
  <2>4. Number[t[1]] \in Nat
    BY <1>1, <2>1, NumberAssumption
  <2> QED BY <1>1, <2>1, <2>2, <2>3, <2>4
<1> QED BY <1>3, <1>4, <1>5 DEF Branch

\* Being a suffix is reflexive and transitive.
LEMMA SuffixOrder ==
    ASSUME NEW s \in Seq(Block), NEW t \in Seq(Block), NEW u \in Seq(Block)
    PROVE  /\ IsSuffixOf(s, s)
           /\ IsSuffixOf(s, t) /\ IsSuffixOf(t, u) => IsSuffixOf(s, u)
<1>1. IsSuffixOf(s, s)
  BY DEF IsSuffixOf
<1>2. ASSUME IsSuffixOf(s, t), IsSuffixOf(t, u) PROVE IsSuffixOf(s, u)
  <2>1. Len(s) \in Nat /\ Len(t) \in Nat /\ Len(u) \in Nat
    OBVIOUS
  <2>2. Len(s) <= Len(t) /\ Len(t) <= Len(u)
    BY <1>2 DEF IsSuffixOf
  <2>3. \A k \in 1..Len(s) : s[k] = u[Len(u) - Len(s) + k]
    <3> TAKE k \in 1..Len(s)
    <3>0. Len(t) - Len(s) + k \in 1..Len(t)
      BY <2>1, <2>2
    <3>1. PICK m \in 1..Len(t) : m = Len(t) - Len(s) + k
      BY <3>0, Zenon
    <3>2. s[k] = t[m] /\ t[m] = u[Len(u) - Len(t) + m]
      BY <1>2, <3>1 DEF IsSuffixOf
    <3>3. Len(u) - Len(t) + m = Len(u) - Len(s) + k
      BY <2>1, <3>1
    <3> QED BY <3>2, <3>3
  <2> QED BY <2>1, <2>2, <2>3 DEF IsSuffixOf
<1> QED BY <1>1, <1>2

\* What Push keeps of the headers is a suffix of them.
LEMMA RetainedSuffix ==
    ASSUME NEW s \in Seq(Block), Len(s) <= Limit
    PROVE  /\ Retained(s) \in Seq(Block) /\ IsSuffixOf(Retained(s), s)
           /\ Len(Retained(s)) < Limit
           /\ s # <<>> /\ Retained(s) # <<>> =>
                Retained(s)[Len(Retained(s))] = s[Len(s)]
<1>0. Len(s) \in Nat /\ Limit \in Nat \ {0}
  BY LimitAssumption
<1>1. CASE Len(s) = Limit
  <2>1. Retained(s) = Tail(s) /\ s # <<>>
    BY <1>0, <1>1 DEF Retained
  <2>2. /\ Tail(s) \in Seq(Block) /\ Len(Tail(s)) = Len(s) - 1
        /\ \A k \in 1..(Len(s) - 1) : Tail(s)[k] = s[k + 1]
    BY <2>1
  <2>3. \A k \in 1..Len(Tail(s)) : Tail(s)[k] = s[Len(s) - Len(Tail(s)) + k]
    BY <1>0, <2>2
  <2>4. IsSuffixOf(Tail(s), s)
    BY <1>0, <2>2, <2>3 DEF IsSuffixOf
  <2>5. Tail(s) # <<>> => Tail(s)[Len(Tail(s))] = s[Len(s)]
    BY <1>0, <2>2
  <2> QED BY <1>0, <1>1, <2>1, <2>2, <2>4, <2>5
<1>2. CASE Len(s) # Limit
  <2>1. Retained(s) = s
    BY <1>2 DEF Retained
  <2> QED BY <1>0, <1>2, <2>1, SuffixOrder
<1> QED BY <1>1, <1>2

\* A child of its top extends a branch to a branch.
LEMMA AppendBranch ==
    ASSUME NEW s \in Seq(Block), NEW b \in Block, Branch(s), Len(s) < Limit,
           s # <<>> => Parent[b] = s[Len(s)]
    PROVE  Append(s, b) \in Seq(Block) /\ Branch(Append(s, b))
<1> DEFINE t == Append(s, b)
<1>1. /\ Len(s) \in Nat /\ t \in Seq(Block) /\ Len(t) = Len(s) + 1
      /\ t[Len(s) + 1] = b
      /\ \A k \in 1..Len(s) : t[k] = s[k]
  OBVIOUS
<1> HIDE DEF t
<1>2. Linked(t)
  <2> SUFFICES ASSUME NEW k \in 1..(Len(t) - 1) PROVE Parent[t[k + 1]] = t[k]
    BY Zenon DEF Linked
  <2>1. CASE k = Len(s)
    BY <1>1, <2>1
  <2>2. CASE k # Len(s)
    BY <1>1, <2>2 DEF Branch, Linked
  <2> QED BY <2>1, <2>2
<1>3. Consecutive(t)
  <2> SUFFICES ASSUME NEW k \in 1..Len(t)
               PROVE  Number[t[k]] = Number[t[1]] + k - 1
    BY DEF Consecutive
  <2>1. CASE k # Len(s) + 1
    <3>1. k \in 1..Len(s) /\ 1 \in 1..Len(s)
      BY <1>1, <2>1
    <3> QED BY <1>1, <3>1 DEF Branch, Consecutive
  <2>2. CASE k = Len(s) + 1 /\ s = <<>>
    BY <1>1, <2>2, NumberAssumption
  <2>3. CASE k = Len(s) + 1 /\ s # <<>>
    <3>1. Len(s) \in 1..Len(s) /\ 1 \in 1..Len(s)
      BY <1>1, <2>3
    <3>2. Number[s[Len(s)]] = Number[s[1]] + Len(s) - 1
      BY <3>1 DEF Branch, Consecutive
    <3>3. s[Len(s)] \in Block /\ s[1] \in Block
      BY <3>1
    <3>4. Number[b] = Number[s[Len(s)]] + 1
      BY <2>3, <3>3, ParentAssumption
    <3> QED BY <1>1, <2>3, <3>1, <3>2, <3>3, <3>4, NumberAssumption
  <2> QED BY <2>1, <2>2, <2>3
<1>4. Len(t) <= Limit
  BY <1>1, LimitAssumption
<1> QED BY <1>1, <1>2, <1>3, <1>4 DEF Branch, t

\* Appending and popping again changes nothing.
LEMMA FrontOfAppend ==
    ASSUME NEW s \in Seq(Block), NEW b \in Block
    PROVE  Front(Append(s, b)) = s
<1> DEFINE t == Append(s, b)
<1>1. /\ Len(s) \in Nat /\ t \in Seq(Block) /\ t # <<>> /\ Len(t) = Len(s) + 1
      /\ \A k \in 1..Len(s) : t[k] = s[k]
  OBVIOUS
<1> HIDE DEF t
<1>2. /\ Front(t) \in Seq(Block) /\ Len(Front(t)) = Len(s)
      /\ \A k \in 1..Len(s) : Front(t)[k] = s[k]
  <2>1. Len(t) - 1 = Len(s)
    BY <1>1
  <2>2. /\ Front(t) \in Seq(Block) /\ Len(Front(t)) = Len(t) - 1
        /\ \A k \in 1..(Len(t) - 1) : Front(t)[k] = t[k]
    BY <1>1, FrontProperties, Zenon
  <2> QED BY <1>1, <2>1, <2>2, Zenon
<1> QED BY <1>2, SeqEqual DEF t

\* Push of a child of the top, or of any block on the empty stack: the number
\* is new, the result is a branch, and without its top it is a suffix of what
\* was there before.
LEMMA PushBranch ==
    ASSUME NEW s \in Seq(Block), NEW b \in Block, Branch(s),
           s # <<>> => Parent[b] = s[Len(s)]
    PROVE  LET t == Append(Retained(s), b)
           IN  /\ t \in Seq(Block) /\ Branch(t)
               /\ t # <<>> /\ IsSuffixOf(Front(t), s)
               /\ \A k \in 1..Len(s) : Number[s[k]] # Number[b]
<1> DEFINE r == Retained(s)
<1>1. /\ r \in Seq(Block) /\ IsSuffixOf(r, s) /\ Len(r) < Limit
      /\ s # <<>> /\ r # <<>> => r[Len(r)] = s[Len(s)]
  BY RetainedSuffix DEF Branch
<1> HIDE DEF r
<1>2. r # <<>> => s # <<>>
  BY <1>1 DEF IsSuffixOf
<1>3. Append(r, b) \in Seq(Block) /\ Branch(Append(r, b))
  <2>1. Branch(r)
    BY <1>1, SuffixOfBranch
  <2> QED BY <1>1, <1>2, <2>1, AppendBranch
<1>4. Append(r, b) # <<>> /\ Front(Append(r, b)) = r
  <2>1. Append(r, b) # <<>>
    <3>1. Len(Append(r, b)) = Len(r) + 1 /\ Len(r) \in Nat
      BY <1>1
    <3> QED BY <1>3, <3>1
  <2> QED BY <1>1, <2>1, FrontOfAppend
<1>5. ASSUME NEW k \in 1..Len(s) PROVE Number[s[k]] # Number[b]
  <2>1. Len(s) \in 1..Len(s) /\ s # <<>> /\ 1 \in 1..Len(s)
    OBVIOUS
  <2>2. s[Len(s)] \in Block /\ s[1] \in Block
    BY <2>1
  <2>3. Number[b] = Number[s[Len(s)]] + 1
    BY <2>1, <2>2, ParentAssumption
  <2>4. /\ Number[s[Len(s)]] = Number[s[1]] + Len(s) - 1
        /\ Number[s[k]] = Number[s[1]] + k - 1
    BY <2>1 DEF Branch, Consecutive
  <2> QED BY <2>2, <2>3, <2>4, NumberAssumption
<1> QED BY <1>1, <1>3, <1>4, <1>5 DEF r

\* Pop: the rest is a branch, and with the popped header it is the whole.
LEMMA PopBranch ==
    ASSUME NEW s \in Seq(Block), s # <<>>, Branch(s)
    PROVE  /\ Front(s) \in Seq(Block) /\ Branch(Front(s))
           /\ IsSuffixOf(Append(Front(s), s[Len(s)]), s)
<1>1. /\ Front(s) \in Seq(Block) /\ Len(Front(s)) = Len(s) - 1
      /\ \A k \in 1..(Len(s) - 1) : Front(s)[k] = s[k]
      /\ Len(s) \in Nat \ {0} /\ s[Len(s)] \in Block
  BY FrontProperties
<1>2. Linked(Front(s)) /\ Len(Front(s)) <= Limit
  BY <1>1, LimitAssumption DEF Branch, Linked
<1>3. Consecutive(Front(s))
  BY <1>1 DEF Branch, Consecutive
<1>4. Append(Front(s), s[Len(s)]) = s
  BY <1>1
<1> QED BY <1>1, <1>2, <1>3, <1>4, SuffixOrder DEF Branch

\* The same block on top of both keeps a suffix a suffix.
LEMMA AppendSuffix ==
    ASSUME NEW s \in Seq(Block), NEW t \in Seq(Block), NEW h \in Block,
           IsSuffixOf(s, t)
    PROVE  IsSuffixOf(Append(s, h), Append(t, h))
<1> DEFINE x == Append(s, h)
           y == Append(t, h)
<1>1. /\ Len(s) \in Nat /\ Len(t) \in Nat
      /\ Len(x) = Len(s) + 1 /\ Len(y) = Len(t) + 1
      /\ x[Len(s) + 1] = h /\ y[Len(t) + 1] = h
      /\ \A k \in 1..Len(s) : x[k] = s[k]
      /\ \A k \in 1..Len(t) : y[k] = t[k]
  OBVIOUS
<1> HIDE DEF x, y
<1>2. \A k \in 1..Len(x) : x[k] = y[Len(y) - Len(x) + k]
  <2> TAKE k \in 1..Len(x)
  <2>1. CASE k = Len(s) + 1
    BY <1>1, <2>1
  <2>2. CASE k # Len(s) + 1
    <3>1. k \in 1..Len(s) /\ Len(t) - Len(s) + k \in 1..Len(t)
      BY <1>1, <2>2 DEF IsSuffixOf
    <3>2. Len(y) - Len(x) + k = Len(t) - Len(s) + k
      BY <1>1
    <3> QED BY <1>1, <3>1, <3>2 DEF IsSuffixOf
  <2> QED BY <2>1, <2>2
<1>3. IsSuffixOf(x, y)
  BY <1>1, <1>2 DEF IsSuffixOf
<1> QED BY <1>3 DEF x, y

\* A pop takes a suffix of `after' to a suffix of `after' without its top.
LEMMA FrontSuffix ==
    ASSUME NEW s \in Seq(Block), NEW t \in Seq(Block), s # <<>>, t # <<>>,
           IsSuffixOf(s, t)
    PROVE  IsSuffixOf(Front(s), Front(t))
<1>1. /\ Len(s) \in Nat \ {0} /\ Len(t) \in Nat \ {0} /\ Len(s) <= Len(t)
      /\ Len(Front(s)) = Len(s) - 1 /\ Len(Front(t)) = Len(t) - 1
      /\ \A k \in 1..(Len(s) - 1) : Front(s)[k] = s[k]
      /\ \A k \in 1..(Len(t) - 1) : Front(t)[k] = t[k]
  BY FrontProperties DEF IsSuffixOf
<1>2. \A k \in 1..(Len(s) - 1) : Front(s)[k] = Front(t)[Len(Front(t)) - Len(Front(s)) + k]
  <2> TAKE k \in 1..(Len(s) - 1)
  <2>1. Len(t) - Len(s) + k \in 1..(Len(t) - 1)
    BY <1>1
  <2>2. s[k] = t[Len(t) - Len(s) + k]
    BY <1>1 DEF IsSuffixOf
  <2>3. Len(Front(t)) - Len(Front(s)) + k = Len(t) - Len(s) + k
    BY <1>1
  <2> QED BY <1>1, <2>1, <2>2, <2>3, Zenon
<1> QED BY <1>1, <1>2 DEF IsSuffixOf

\* hist[1] is what the subscribers know, or less; hist[k + 1] is the stack
\* after the first k of the updates; n updates are not undone yet.
Hist(hist, n, headers, updates, known) ==
    /\ hist \in [1..(n + 1) -> Seq(Block)]
    /\ IsSuffixOf(hist[1], known)
    /\ \A k \in 1..(n + 1) : Branch(hist[k])
    /\ \A k \in 1..n : Undoes(hist[k], hist[k + 1], updates[k])
    /\ IsSuffixOf(headers, hist[n + 1])

\* A checkpoint starts a new history.
LEMMA HistStart ==
    ASSUME NEW headers \in Seq(Block), NEW known \in Seq(Block), NEW updates,
           Branch(headers), IsSuffixOf(headers, known)
    PROVE  \E hist : Hist(hist, 0, headers, updates, known)
<1> DEFINE hist == [k \in 1..1 |-> headers]
<1>1. hist \in [1..(0 + 1) -> Seq(Block)] /\ hist[1] = headers
  OBVIOUS
<1> HIDE DEF hist
<1>2. Hist(hist, 0, headers, updates, known)
  BY <1>1, SuffixOrder DEF Hist
<1> QED BY <1>2

\* A stack without updates is known to the subscribers.
LEMMA HistEmpty ==
    ASSUME NEW headers \in Seq(Block), NEW known \in Seq(Block), NEW updates,
           NEW hist, Hist(hist, 0, headers, updates, known)
    PROVE  IsSuffixOf(headers, known)
<1>1. hist[1] \in Seq(Block) /\ IsSuffixOf(hist[1], known) /\ IsSuffixOf(headers, hist[1])
  BY DEF Hist
<1> QED BY <1>1, SuffixOrder

\* An update that can be undone adds one stack to the history.
LEMMA HistExtend ==
    ASSUME NEW headers \in Seq(Block), NEW after \in Seq(Block),
           NEW known \in Seq(Block),
           NEW updates \in Seq(Update), NEW u \in Update,
           NEW hist, Hist(hist, Len(updates), headers, updates, known),
           Branch(after), Undoes(headers, after, u)
    PROVE  \E h : Hist(h, Len(updates) + 1, after, Append(updates, u), known)
<1>1. PICK n \in Nat : n = Len(updates)
  OBVIOUS
<1> DEFINE h == [k \in 1..(n + 2) |-> IF k = n + 2 THEN after ELSE hist[k]]
           us == Append(updates, u)
<1>2. /\ hist \in [1..(n + 1) -> Seq(Block)] /\ IsSuffixOf(hist[1], known)
      /\ \A k \in 1..(n + 1) : Branch(hist[k])
      /\ \A k \in 1..n : Undoes(hist[k], hist[k + 1], updates[k])
      /\ IsSuffixOf(headers, hist[n + 1])
  BY <1>1 DEF Hist
<1>3. /\ h \in [1..((n + 1) + 1) -> Seq(Block)]
      /\ h[n + 2] = after /\ \A k \in 1..(n + 1) : h[k] = hist[k]
  BY <1>2
<1>4. us[n + 1] = u /\ \A k \in 1..n : us[k] = updates[k]
  BY <1>1
<1> HIDE DEF h, us
<1>5. Undoes(hist[n + 1], after, u)
  <2>1. hist[n + 1] \in Seq(Block)
    BY <1>2
  <2>2. ASSUME u.type = "Push"
        PROVE  after # <<>> /\ after[Len(after)] = u.miniHeader /\ IsSuffixOf(Front(after), hist[n + 1])
    <3>1. after # <<>> /\ after[Len(after)] = u.miniHeader /\ IsSuffixOf(Front(after), headers)
      BY <2>2 DEF Undoes
    <3>2. Front(after) \in Seq(Block)
      BY <3>1, FrontProperties
    <3> QED BY <1>2, <2>1, <3>1, <3>2, SuffixOrder
  <2>3. ASSUME u.type = "Pop" PROVE IsSuffixOf(Append(after, u.miniHeader), hist[n + 1])
    <3> DEFINE x == Append(after, u.miniHeader)
    <3>1. IsSuffixOf(x, headers)
      BY <2>3 DEF Undoes
    <3>2. x \in Seq(Block)
      BY DEF Update
    <3> HIDE DEF x
    <3>3. IsSuffixOf(x, hist[n + 1])
      BY <1>2, <2>1, <3>1, <3>2, SuffixOrder
    <3> QED BY <3>3 DEF x
  <2> QED BY <2>2, <2>3 DEF Undoes
<1>6. \A k \in 1..(n + 1) : Undoes(h[k], h[k + 1], us[k])
  <2> TAKE k \in 1..(n + 1)
  <2>1. CASE k = n + 1
    <3>1. h[k] = hist[n + 1] /\ h[k + 1] = after /\ us[k] = u
      BY <1>3, <1>4, <2>1
    <3> QED BY <1>5, <3>1
  <2>2. CASE k # n + 1
    <3>1. k \in 1..n /\ k \in 1..(n + 1) /\ k + 1 \in 1..(n + 1)
      BY <2>2
    <3>2. h[k] = hist[k] /\ h[k + 1] = hist[k + 1] /\ us[k] = updates[k]
      BY <1>3, <1>4, <3>1, Zenon
    <3> QED BY <1>2, <3>1, <3>2
  <2> QED BY <2>1, <2>2
<1>7. \A k \in 1..((n + 1) + 1) : Branch(h[k])
  <2> TAKE k \in 1..((n + 1) + 1)
  <2>1. CASE k = n + 2
    BY <1>3, <2>1
  <2>2. CASE k # n + 2
    BY <1>2, <1>3, <2>2
  <2> QED BY <2>1, <2>2
<1>8. IsSuffixOf(h[1], known) /\ IsSuffixOf(after, h[(n + 1) + 1])
  <2>1. h[1] = hist[1] /\ h[(n + 1) + 1] = after
    BY <1>3
  <2>2. IsSuffixOf(after, after)
    BY SuffixOrder, Zenon
  <2> QED BY <1>2, <2>1, <2>2, Zenon
<1>9. Hist(h, n + 1, after, us, known)
  BY <1>3, <1>6, <1>7, <1>8 DEF Hist
<1> QED BY <1>1, <1>9 DEF us

\* One iteration of Reset goes one stack back in the history.
LEMMA HistUndo ==
    ASSUME NEW n \in Nat, NEW headers \in Seq(Block), NEW after \in Seq(Block),
           NEW known, NEW us, NEW vs,
           NEW hist, Hist(hist, n + 1, headers, us, known),
           \A k \in 1..n : vs[k] = us[k],
           IsSuffixOf(after, hist[n + 1])
    PROVE  \E h : Hist(h, n, after, vs, known)
<1> DEFINE h == [k \in 1..(n + 1) |-> hist[k]]
<1>1. /\ hist \in [1..((n + 1) + 1) -> Seq(Block)] /\ IsSuffixOf(hist[1], known)
      /\ \A k \in 1..((n + 1) + 1) : Branch(hist[k])
      /\ \A k \in 1..(n + 1) : Undoes(hist[k], hist[k + 1], us[k])
  BY DEF Hist
<1>2. h \in [1..(n + 1) -> Seq(Block)] /\ \A k \in 1..(n + 1) : h[k] = hist[k]
  BY <1>1
<1> HIDE DEF h
<1>3. \A k \in 1..n : Undoes(h[k], h[k + 1], vs[k])
  <2> TAKE k \in 1..n
  <2>1. h[k] = hist[k] /\ h[k + 1] = hist[k + 1] /\ vs[k] = us[k]
    BY <1>2
  <2> QED BY <1>1, <2>1
<1>4. (\A k \in 1..(n + 1) : Branch(h[k])) /\ h[1] = hist[1] /\ h[n + 1] = hist[n + 1]
  BY <1>1, <1>2
<1>5. Hist(h, n, after, vs, known)
  BY <1>1, <1>2, <1>3, <1>4 DEF Hist
<1> QED BY <1>5

-----------------------------------------------------------------------------
\* How many updates Reset would still have to undo.
Pending == IF pc = "reset" THEN undo ELSE Len(stack.updates)

Traced == \E hist : Hist(hist, Pending, Headers, stack.updates, announced)

BranchInv ==
    /\ Branch(Headers)
    /\ pc \in {"idle", "stopped"} => IsSuffixOf(Headers, announced)
    /\ pc \in {"idle", "stopped", "latest"} => events = <<>>
    /\ pc \notin {"idle", "stopped"} =>
          checkpointID = stack.latestCheckpointID /\ checkpointID # 0 /\ Traced
    /\ pc \notin {"idle", "stopped", "reset"} => Len(events) = Len(stack.updates)

\* The stack that Watch starts with is a part of a chain.
LEMMA InitBranchInv == Init => BranchInv
<1> SUFFICES ASSUME Init PROVE BranchInv
  OBVIOUS
<1>0. \A c \in Chains : Len(c) \in Nat
  BY ChainsAssumption
<1>1. PICK c \in Chains, i \in Nat, j \in Nat :
        /\ i \in 1..(Len(c) + 1) /\ j \in 0..Len(c) /\ j - i < Limit
        /\ stack = NewStack(SubSeq(c, i, j))
  BY <1>0 DEF Init
<1> DEFINE s == SubSeq(c, i, j)
<1>2. /\ c \in Seq(Block)
      /\ \A n \in 1..Len(c) : Number[c[n]] = n
      /\ \A n \in 1..(Len(c) - 1) : Parent[c[n + 1]] = c[n]
  BY ChainsAssumption
<1>3. \A k \in i..j : c[k] \in Block
  BY <1>0, <1>1, <1>2
<1>4. /\ s \in Seq(Block) /\ Len(s) = IF i <= j THEN j - i + 1 ELSE 0
      /\ \A k \in 1..(j - i + 1) : s[k] = c[i + k - 1]
  BY <1>3, SubSeqProperties
<1> HIDE DEF s
<1>5. Len(s) <= Limit
  BY <1>1, <1>4, LimitAssumption
<1>6. \A k \in 1..Len(s) : s[k] = c[i + k - 1] /\ i + k - 1 \in 1..Len(c)
  BY <1>0, <1>1, <1>4
<1>7. Linked(s)
  <2> SUFFICES ASSUME NEW k \in 1..(Len(s) - 1) PROVE Parent[s[k + 1]] = s[k]
    BY Zenon DEF Linked
  <2>1. PICK m \in Nat : m = i + k - 1
    BY <1>1, <1>4
  <2>2. s[k] = c[m] /\ m \in 1..Len(c)
    BY <1>4, <1>6, <2>1
  <2>3. s[k + 1] = c[m + 1] /\ m + 1 \in 1..Len(c)
    <3>1. k + 1 \in 1..Len(s) /\ i + (k + 1) - 1 = m + 1
      BY <1>4, <2>1
    <3> QED BY <1>6, <3>1
  <2>4. m \in 1..(Len(c) - 1)
    BY <1>0, <2>2, <2>3
  <2> QED BY <1>2, <2>2, <2>3, <2>4
<1>8. Consecutive(s)
  <2> SUFFICES ASSUME NEW k \in 1..Len(s)
               PROVE  Number[s[k]] = Number[s[1]] + k - 1
    BY DEF Consecutive
  <2>1. Number[s[k]] = i + k - 1
    BY <1>2, <1>6
  <2>2. Number[s[1]] = i
    <3>1. 1 \in 1..Len(s) /\ i + 1 - 1 = i
      BY <1>4
    <3> QED BY <1>2, <1>6, <3>1, Zenon
  <2> QED BY <2>1, <2>2
<1>9. Headers = s
  BY <1>1 DEF Headers, NewStack, s
<1>10. Branch(Headers) /\ IsSuffixOf(Headers, announced)
  <2>1. announced = Headers
    BY DEF Init
  <2> QED BY <1>4, <1>5, <1>7, <1>8, <1>9, <2>1, SuffixOrder DEF Branch
<1> QED BY <1>10 DEF Init, BranchInv

\* SyncToLatestBlock returns with a stack that is known to the subscribers.
LEMMA ReturnBranch ==
    ASSUME NEW next \in {"idle", "stopped"}, Return(next),
           Branch(Headers'), IsSuffixOf(Headers', announced')
    PROVE  BranchInv'
<1>1. pc' = next /\ events' = <<>>
  BY DEF Return
<1> QED BY <1>1 DEF BranchInv

\* While nothing is recorded, the stack is known to the subscribers.
LEMMA KnownWithoutEvents ==
    ASSUME TypeOK, BranchInv, events = <<>>, pc \notin {"idle", "stopped", "reset"}
    PROVE  IsSuffixOf(Headers, announced)
<1>1. Headers \in Seq(Block) /\ announced \in Seq(Block) /\ stack.updates \in Seq(Update)
  BY DEF TypeOK, Stack, Headers
<1>2. Len(stack.updates) = 0
  BY DEF BranchInv
<1>3. PICK hist : Hist(hist, 0, Headers, stack.updates, announced)
  BY <1>2 DEF BranchInv, Traced, Pending
<1> QED BY <1>1, <1>3, HistEmpty

\* A step that neither touches the stack nor leaves SyncToLatestBlock.
LEMMA SameStack ==
    ASSUME BranchInv, pc \notin {"idle", "stopped", "reset"},
           pc' \notin {"idle", "stopped", "reset", "latest"},
           UNCHANGED <<stack, announced, events, checkpointID>>
    PROVE  BranchInv'
<1>1. Headers' = Headers /\ Pending' = Pending
  BY DEF Headers, Pending
<1>2. Traced'
  <2>1. PICK hist : Hist(hist, Pending, Headers, stack.updates, announced)
    BY DEF BranchInv, Traced
  <2>2. Hist(hist, Pending', Headers', stack'.updates, announced')
    BY <1>1, <2>1
  <2> QED BY <2>2 DEF Traced
<1> QED BY <1>1, <1>2 DEF BranchInv

\* A recorded update whose event is appended to the batch.
LEMMA Recorded ==
    ASSUME TypeOK, BranchInv, pc \in {"build", "return"},
           pc' \in {"fetch", "build", "return", "finish"},
           NEW u \in Update, NEW after \in Seq(Block), NEW e \in Event,
           stack' = [miniHeaders |-> after, updates |-> Append(stack.updates, u),
                     latestCheckpointID |-> stack.latestCheckpointID],
           events' = Append(events, e), UNCHANGED <<announced, checkpointID>>,
           Branch(after), Undoes(Headers, after, u)
    PROVE  BranchInv'
<1>1. /\ Headers \in Seq(Block) /\ announced \in Seq(Block)
      /\ stack.updates \in Seq(Update) /\ events \in Seq(Event)
  BY DEF TypeOK, Stack, Headers
<1>2. /\ Headers' = after /\ stack'.updates = Append(stack.updates, u)
      /\ stack'.latestCheckpointID = stack.latestCheckpointID
  BY DEF Headers
<1>3. /\ Len(stack'.updates) = Len(stack.updates) + 1
      /\ Len(events') = Len(events) + 1
  BY <1>1, <1>2
<1>4. Pending = Len(stack.updates) /\ Pending' = Len(stack.updates) + 1
  BY <1>3 DEF Pending
<1>5. PICK hist : Hist(hist, Len(stack.updates), Headers, stack.updates, announced)
  BY <1>4 DEF BranchInv, Traced
<1>6. PICK h : Hist(h, Len(stack.updates) + 1, after, Append(stack.updates, u), announced)
  BY <1>1, <1>5, HistExtend
<1>7. Traced'
  <2>1. Hist(h, Pending', Headers', stack'.updates, announced')
    BY <1>2, <1>4, <1>6
  <2> QED BY <2>1 DEF Traced
<1> QED BY <1>2, <1>3, <1>7 DEF BranchInv

\* buildCanonicalChain pushes only onto the parent, or onto the empty stack.
LEMMA InnermostFits ==
    ASSUME TypeOK, Control, pc = "return" \/ (pc = "build" /\ Extends(Innermost))
    PROVE  /\ Innermost \in Block
           /\ Headers # <<>> => Parent[Innermost] = Headers[Len(Headers)]
<1>1. calls # <<>> /\ calls \in Seq(Block) /\ Headers \in Seq(Block)
  BY DEF TypeOK, Control, Stack, Headers
<1>2. Innermost \in Block
  BY <1>1 DEF Innermost
<1>3. ASSUME Headers # <<>> PROVE Parent[Innermost] = Headers[Len(Headers)]
  <2>1. Peek(stack) = Headers[Len(Headers)] /\ Peek(stack) \in Block
    BY <1>1, <1>3 DEF Peek, Headers
  <2> QED BY <2>1, NoBlockAssumption DEF Control, Extends
<1> QED BY <1>2, <1>3

\* AddBlock and AddBlockFails, in the two actions they are part of.
LEMMA AddBlockBranch ==
    ASSUME TypeOK, Control, BranchInv, AddBlock \/ AddBlockFails,
           pc = "return" \/ (pc = "build" /\ Extends(Innermost)),
           UNCHANGED <<announced, syncVars>>
    PROVE  BranchInv'
<1>1. CASE AddBlock
  <2> DEFINE after == Append(Retained(Headers), Innermost)
             u == [type |-> "Push", miniHeader |-> Innermost]
  <2>1. /\ Innermost \in Block /\ Headers \in Seq(Block)
        /\ Headers # <<>> => Parent[Innermost] = Headers[Len(Headers)]
    BY InnermostFits DEF TypeOK, Stack, Headers
  <2>2. after \in Seq(Block) /\ Branch(after) /\ after # <<>> /\ IsSuffixOf(Front(after), Headers)
    BY <2>1, PushBranch DEF BranchInv
  <2>3. /\ u \in Update /\ Added(Innermost) \in Event /\ u.type = "Push"
        /\ after[Len(after)] = u.miniHeader
    <3>1. Retained(Headers) \in Seq(Block)
      BY <2>1, RetainedSuffix DEF BranchInv, Branch
    <3>2. after[Len(after)] = Innermost
      BY <2>1, <3>1
    <3> QED BY <2>1, <3>2 DEF Update, Added, Event
  <2>4. stack' = [miniHeaders |-> after, updates |-> Append(stack.updates, u),
                  latestCheckpointID |-> stack.latestCheckpointID]
    BY <1>1 DEF AddBlock, Push, Headers
  <2> HIDE DEF after, u
  <2>5. Undoes(Headers, after, u)
    BY <2>2, <2>3 DEF Undoes
  <2>6. pc' \in {"fetch", "return"} /\ events' = Append(events, Added(Innermost))
    BY <1>1 DEF AddBlock
  <2>7. UNCHANGED <<announced, checkpointID>> /\ pc \in {"build", "return"} /\ pc' \in {"fetch", "build", "return", "finish"}
    BY <2>6 DEF syncVars
  <2> QED BY <2>2, <2>3, <2>4, <2>5, <2>6, <2>7, Recorded, Zenon
<1>2. CASE AddBlockFails
  BY <1>2, SameStack DEF AddBlockFails, BuildError, syncVars
<1> QED BY <1>1, <1>2

\* A pop that starts or continues a reorg.
LEMMA ReorgBranch ==
    ASSUME TypeOK, Control, BranchInv, BuildReorg
    PROVE  BranchInv'
<1>1. /\ stack \in Stack /\ Headers \in Seq(Block) /\ Headers # <<>>
      /\ Peek(stack) \in Block /\ Peek(stack) = Headers[Len(Headers)]
  <2>1. stack \in Stack /\ Headers \in Seq(Block)
    BY DEF TypeOK, Stack, Headers
  <2>2. Headers # <<>>
    BY DEF BuildReorg, Extends, Peek, Headers
  <2> QED BY <2>1, <2>2 DEF Peek, Headers
<1> DEFINE after == Front(Headers)
           u == [type |-> "Pop", miniHeader |-> Peek(stack)]
<1>2. after \in Seq(Block) /\ Branch(after) /\ IsSuffixOf(Append(after, Peek(stack)), Headers)
  BY <1>1, PopBranch DEF BranchInv
<1>3. /\ u \in Update /\ Removed(Peek(stack)) \in Event
      /\ u.type = "Pop" /\ u.miniHeader = Peek(stack)
  BY <1>1 DEF Update, Removed, Event
<1>4. stack' = [miniHeaders |-> after, updates |-> Append(stack.updates, u),
                latestCheckpointID |-> stack.latestCheckpointID]
  BY <1>1 DEF BuildReorg, Pop, Headers, Front
<1> HIDE DEF after, u
<1>5. Undoes(Headers, after, u)
  BY <1>2, <1>3 DEF Undoes
<1>6. /\ pc = "build" /\ pc' \in {"build", "finish"}
      /\ events' = Append(events, Removed(Peek(stack)))
      /\ UNCHANGED <<announced, checkpointID>>
  BY DEF BuildReorg, BuildError, syncVars
<1>7. pc \in {"build", "return"} /\ pc' \in {"fetch", "build", "return", "finish"}
  BY <1>6
<1> QED BY <1>2, <1>3, <1>4, <1>5, <1>6, <1>7, Recorded, Zenon

\* One iteration of Reset never fails and goes one update back.
LEMMA UndoBranch ==
    ASSUME TypeOK, Control, BranchInv, pc = "reset", undo > 0
    PROVE  /\ ~UndoFails(stack, undo)
           /\ \E h : Hist(h, undo - 1, UndoUpdate(stack, undo).miniHeaders,
                          UndoUpdate(stack, undo).updates, announced)
<1>1. PICK n \in Nat : undo = n + 1
  <2>1. undo \in Nat /\ undo - 1 \in Nat /\ undo = (undo - 1) + 1
    BY DEF TypeOK
  <2> QED BY <2>1
<1>2. /\ stack \in Stack /\ Headers \in Seq(Block) /\ announced \in Seq(Block)
      /\ stack.updates \in Seq(Update) /\ undo \in 1..Len(stack.updates)
  BY DEF TypeOK, Stack, Headers, Control
<1>3. PICK hist : Hist(hist, n + 1, Headers, stack.updates, announced)
  BY <1>1 DEF BranchInv, Traced, Pending
<1> DEFINE t == UndoUpdate(stack, undo)
           u == stack.updates[undo]
           before == hist[n + 1]
           after == hist[(n + 1) + 1]
<1>4. /\ before \in Seq(Block) /\ after \in Seq(Block)
      /\ Branch(before) /\ Undoes(before, after, u) /\ IsSuffixOf(Headers, after)
  BY <1>1, <1>3 DEF Hist
<1>5. u \in Update
  BY <1>2
<1>6. u.type \in {"Pop", "Push"} /\ u.miniHeader \in Block
  BY <1>5 DEF Update
<1>7. t \in Stack /\ t.miniHeaders \in Seq(Block)
  BY <1>2, StackTypes, Zenon DEF Stack
<1>8. \A k \in 1..n : t.updates[k] = stack.updates[k]
  BY <1>1, <1>2, UndoKeepsUpdates
<1>9. ~UndoFails(stack, undo) /\ IsSuffixOf(t.miniHeaders, before)
  <2>1. CASE u.type = "Pop"
    <3> DEFINE h == u.miniHeader
               r == Retained(Headers)
               x == Append(Headers, h)
               y == Append(after, h)
               z == Append(r, h)
    <3>1. t.miniHeaders = z /\ h \in Block
      BY <1>6, <2>1 DEF UndoUpdate, Push, Headers
    <3>2. r \in Seq(Block) /\ IsSuffixOf(r, Headers)
      BY <1>2, RetainedSuffix DEF BranchInv, Branch
    <3> HIDE DEF u, h, r, t, before, after
    <3>3. x \in Seq(Block) /\ y \in Seq(Block) /\ z \in Seq(Block)
      BY <1>2, <1>4, <3>1, <3>2
    <3>4. IsSuffixOf(y, before)
      BY <1>4, <2>1 DEF Undoes, h
    <3>5. IsSuffixOf(x, y) /\ IsSuffixOf(z, x)
      BY <1>2, <1>4, <3>1, <3>2, AppendSuffix
    <3>6. /\ Len(Headers) \in Nat /\ Len(x) = Len(Headers) + 1
          /\ x[Len(Headers) + 1] = h
          /\ \A k \in 1..Len(Headers) : x[k] = Headers[k]
      BY <1>2, <3>1
    <3> HIDE DEF x, y, z
    <3>7. IsSuffixOf(x, before) /\ IsSuffixOf(z, before)
      BY <1>4, <3>3, <3>4, <3>5, SuffixOrder
    <3>8. Consecutive(x)
      BY <1>4, <3>3, <3>7, SuffixOfBranch DEF Branch
    <3>9. \A k \in 1..Len(Headers) : Number[Headers[k]] # Number[h]
      <4> TAKE k \in 1..Len(Headers)
      <4>1. k \in 1..Len(x) /\ Len(Headers) + 1 \in 1..Len(x) /\ 1 \in 1..Len(x)
        BY <3>6
      <4>2. /\ Number[x[k]] = Number[x[1]] + k - 1
            /\ Number[x[Len(Headers) + 1]] = Number[x[1]] + (Len(Headers) + 1) - 1
        BY <3>8, <4>1 DEF Consecutive
      <4>3. Number[x[1]] \in Nat
        BY <3>3, <4>1, NumberAssumption
      <4> QED BY <3>6, <4>2, <4>3
    <3>10. ~UndoFails(stack, undo)
      BY <3>9 DEF UndoFails, PushFails, Headers, h, u
    <3> QED BY <3>1, <3>7, <3>10
  <2>2. CASE u.type = "Push"
    <3>1. ~UndoFails(stack, undo)
      BY <2>2 DEF UndoFails
    <3>2. after # <<>> /\ IsSuffixOf(Front(after), before)
      BY <1>4, <2>2 DEF Undoes
    <3>3. CASE Headers = <<>>
      <4>1. t.miniHeaders = <<>>
        BY <2>2, <3>3 DEF UndoUpdate, Pop, Headers
      <4>2. Len(before) \in Nat
        BY <1>4
      <4> QED BY <3>1, <4>1, <4>2 DEF IsSuffixOf
    <3>4. CASE Headers # <<>>
      <4>1. t.miniHeaders = Front(Headers)
        BY <2>2, <3>4 DEF UndoUpdate, Pop, Headers, Front
      <4> HIDE DEF before, after, t
      <4>2. Front(Headers) \in Seq(Block) /\ Front(after) \in Seq(Block)
        BY <1>2, <1>4, <3>2, <3>4, FrontProperties
      <4>3. IsSuffixOf(Front(Headers), Front(after))
        BY <1>2, <1>4, <3>2, <3>4, FrontSuffix
      <4>4. IsSuffixOf(Front(Headers), before)
        BY <1>4, <3>2, <4>2, <4>3, SuffixOrder
      <4> QED BY <3>1, <4>1, <4>4
    <3> QED BY <3>3, <3>4
  <2> QED BY <1>6, <2>1, <2>2
<1>10. \E h : Hist(h, n, t.miniHeaders, t.updates, announced)
  BY <1>2, <1>3, <1>7, <1>8, <1>9, HistUndo, Zenon
<1>11. undo - 1 = n
  BY <1>1
<1> QED BY <1>9, <1>10, <1>11

\* Every step preserves the branch invariant.
LEMMA StepBranchInv == TypeInv /\ BranchInv /\ [Next]_vars => BranchInv'
<1> SUFFICES ASSUME TypeOK, Control, BranchInv, [Next]_vars
             PROVE  BranchInv'
  BY DEF TypeInv
<1>0. /\ stack \in Stack /\ Headers \in Seq(Block) /\ announced \in Seq(Block)
      /\ stack.updates \in Seq(Update)
  BY DEF TypeOK, Stack, Headers
<1>1. CASE UNCHANGED <<stack, pc, syncVars, events, undo, announced>>
  <2>1. Headers' = Headers /\ Pending' = Pending
    BY <1>1 DEF Headers, Pending
  <2>2. Traced => Traced'
    BY <1>1, <2>1 DEF Traced
  <2> QED BY <1>1, <2>1, <2>2 DEF BranchInv, syncVars
<1>2. CASE ChainMoves \/ Settle \/ Receive \/ UNCHANGED vars
  BY <1>1, <1>2 DEF ChainMoves, Settle, Receive, vars
<1>3. CASE Cancel
  BY <1>3 DEF Cancel, BranchInv, Headers
<1>4. CASE StartSync
  <2>1. /\ Headers' = Headers /\ stack'.updates = <<>>
        /\ checkpointID' = stack'.latestCheckpointID
        /\ stack'.latestCheckpointID = NextID(stack.latestCheckpointID)
        /\ pc = "idle" /\ pc' = "latest" /\ UNCHANGED <<events, announced>>
    BY <1>4 DEF StartSync, Checkpoint, Headers
  <2>2. checkpointID' # 0
    <3>1. stack.latestCheckpointID \in Nat
      BY <1>0 DEF Stack
    <3> QED BY <2>1, <3>1 DEF NextID
  <2>3. Pending' = 0
    BY <2>1 DEF Pending
  <2>4. \E hist : Hist(hist, 0, Headers, <<>>, announced)
    <3>1. Headers \in Seq(Block) /\ announced \in Seq(Block) /\ Branch(Headers) /\ IsSuffixOf(Headers, announced)
      BY <1>0, <2>1 DEF BranchInv
    <3> QED BY <3>1, HistStart, Zenon
  <2>5. Traced'
    <3>1. PICK hist : Hist(hist, 0, Headers, <<>>, announced)
      BY <2>4
    <3>2. Hist(hist, Pending', Headers', stack'.updates, announced')
      BY <2>1, <2>3, <3>1
    <3> QED BY <3>2 DEF Traced
  <2>6. Len(events') = Len(stack'.updates)
    BY <2>1 DEF BranchInv
  <2> QED BY <2>1, <2>2, <2>5, <2>6 DEF BranchInv
<1>5. ASSUME NEW next \in {"idle", "stopped"}, Return(next), events = <<>>,
             pc \notin {"idle", "stopped", "reset"}, UNCHANGED <<stack, announced>>
      PROVE  BranchInv'
  <2>1. Headers' = Headers /\ announced' = announced
    BY <1>5 DEF Headers
  <2>2. Branch(Headers') /\ IsSuffixOf(Headers', announced')
    BY <1>5, <2>1, KnownWithoutEvents DEF BranchInv
  <2> QED BY <1>5, <2>2, ReturnBranch
<1>6. CASE LatestFails
  BY <1>5, <1>6 DEF LatestFails, BranchInv
<1>7. CASE Latest
  <2>1. /\ pc = "latest" /\ UNCHANGED <<stack, announced>>
        /\ \/ Return("idle")
           \/ Return(IF firstSync THEN "idle" ELSE "stopped")
           \/ pc' = "fetch" /\ UNCHANGED <<checkpointID, events>>
    BY <1>7, Zenon DEF Latest
  <2>2. CASE \E next \in {"idle", "stopped"} : Return(next)
    BY <1>5, <2>1, <2>2 DEF BranchInv
  <2>3. CASE pc' = "fetch" /\ UNCHANGED <<checkpointID, events>>
    BY <2>1, <2>3, SameStack
  <2> QED BY <2>1, <2>2, <2>3
<1>8. CASE FetchDone \/ Fetch \/ FetchFails
  BY <1>8, SameStack DEF FetchDone, Fetch, FetchFails, syncVars
<1>9. CASE BuildExtend \/ BuildReturn
  BY <1>9, AddBlockBranch DEF BuildExtend, BuildReturn
<1>10. CASE BuildReorg
  BY <1>10, ReorgBranch
<1>11. CASE FinishNoEvents
  BY <1>5, <1>11 DEF FinishNoEvents
<1>12. CASE FinishSend
  <2>1. Headers' = Headers /\ announced' = Headers /\ Return("idle")
    BY <1>12 DEF FinishSend, Checkpoint, Headers
  <2>2. Branch(Headers') /\ IsSuffixOf(Headers', announced')
    BY <1>0, <2>1, SuffixOrder DEF BranchInv
  <2> QED BY <2>1, <2>2, ReturnBranch
<1>13. CASE FinishRevert
  <2>1. ~ResetFails(stack, checkpointID)
    BY <1>13 DEF FinishRevert, BranchInv, ResetFails
  <2>2. /\ pc = "finish" /\ pc' = "reset" /\ undo' = Len(stack.updates)
        /\ UNCHANGED <<stack, announced, checkpointID, events>>
    BY <1>13, <2>1 DEF FinishRevert, syncVars
  <2>3. Pending' = Pending /\ Headers' = Headers
    BY <2>2 DEF Pending, Headers
  <2>4. Traced'
    <3>1. PICK hist : Hist(hist, Pending, Headers, stack.updates, announced)
      BY <2>2 DEF BranchInv, Traced
    <3>2. Hist(hist, Pending', Headers', stack'.updates, announced')
      BY <2>2, <2>3, <3>1
    <3> QED BY <3>2 DEF Traced
  <2>5. checkpointID = stack.latestCheckpointID /\ checkpointID # 0 /\ Branch(Headers)
    BY <2>2 DEF BranchInv
  <2>6. pc' = "reset" /\ (checkpointID = stack.latestCheckpointID)' /\ checkpointID' # 0 /\ Branch(Headers')
    BY <2>2, <2>3, <2>5
  <2> QED BY <2>4, <2>6 DEF BranchInv
<1>14. CASE ResetStep
  <2>1. /\ ~UndoFails(stack, undo) /\ undo \in 1..Len(stack.updates)
        /\ \E h : Hist(h, undo - 1, UndoUpdate(stack, undo).miniHeaders,
                       UndoUpdate(stack, undo).updates, announced)
    <3>1. pc = "reset" /\ undo > 0 /\ undo <= Len(stack.updates)
      BY <1>14 DEF ResetStep, Control
    <3>2. undo \in Nat /\ Len(stack.updates) \in Nat
      BY <1>0 DEF TypeOK, Stack
    <3>3. undo \in 1..Len(stack.updates)
      BY <3>1, <3>2
    <3> QED BY <1>0, <3>1, <3>3, UndoBranch
  <2>2. /\ pc = "reset" /\ pc' = "reset" /\ undo' = undo - 1
        /\ stack' = UndoUpdate(stack, undo)
        /\ UNCHANGED <<checkpointID, announced>>
    BY <1>14, <2>1 DEF ResetStep, syncVars
  <2>3. stack' \in Stack /\ stack'.latestCheckpointID = stack.latestCheckpointID
    <3>1. stack \in Stack
      BY <1>0 DEF TypeOK
    <3> QED BY <2>1, <2>2, <3>1, StackTypes, UndoKeepsUpdates, Zenon
  <2>4. PICK h : Hist(h, undo - 1, stack'.miniHeaders, stack'.updates, announced)
    BY <2>1, <2>2
  <2>5. Pending' = undo - 1 /\ Headers' = stack'.miniHeaders /\ Headers' \in Seq(Block)
    BY <2>2, <2>3 DEF Pending, Headers, Stack
  <2>6. Traced'
    BY <2>2, <2>4, <2>5 DEF Traced
  <2>7. Branch(Headers')
    <3> DEFINE n == undo - 1
    <3>0. n \in Nat
      BY <1>0, <2>1 DEF TypeOK
    <3>1. Hist(h, n, Headers', stack'.updates, announced)
      BY <2>4, <2>5
    <3> HIDE DEF n
    <3>2. n + 1 \in 1..(n + 1)
      BY <3>0
    <3>3. h[n + 1] \in Seq(Block) /\ Branch(h[n + 1]) /\ IsSuffixOf(Headers', h[n + 1])
      BY <3>1, <3>2 DEF Hist
    <3> QED BY <2>5, <3>3, SuffixOfBranch
  <2> QED BY <2>2, <2>3, <2>6, <2>7 DEF BranchInv
<1>15. CASE ResetEnd
  <2>1. Headers' = Headers /\ announced' = announced /\ Return("idle")
    BY <1>15 DEF ResetEnd, EndReset, Headers
  <2>2. PICK hist : Hist(hist, 0, Headers, stack.updates, announced)
    BY <1>15 DEF ResetEnd, BranchInv, Traced, Pending
  <2>3. Branch(Headers') /\ IsSuffixOf(Headers', announced')
    BY <1>0, <2>1, <2>2, HistEmpty DEF BranchInv
  <2> QED BY <2>1, <2>3, ReturnBranch
<1> QED
  BY <1>2, <1>3, <1>4, <1>6, <1>7, <1>8, <1>9, <1>10, <1>11, <1>12, <1>13, <1>14,
     <1>15 DEF Next, Sync

\* The inductive invariant holds in every state of every behaviour.
LEMMA Inductive == Spec => [](TypeInv /\ BranchInv)
BY InitTypeInv, StepTypeInv, InitBranchInv, StepBranchInv, PTL DEF Spec

\* Whatever the node reports and whichever calls fail, SyncToLatestBlock and
\* Reset keep the stack one branch of the block tree, within its limit.
THEOREM BranchCorrect == Spec => []StackIsABranch
<1>1. BranchInv => StackIsABranch
  BY DEF BranchInv, Branch, StackIsABranch
<1> QED BY <1>1, Inductive, PTL

\* Push, Reset and the undoing of an update never return their errors, and
\* SyncToLatestBlock never dereferences the nil top of an empty stack.
THEOREM StackErrorsUnreachable == Spec => []NoStackError
<1>1. TypeInv /\ BranchInv => NoStackError
  <2> SUFFICES ASSUME TypeOK, Control, BranchInv PROVE NoStackError
    BY DEF TypeInv
  <2>1. ASSUME pc = "return" \/ (pc = "build" /\ Extends(Innermost))
        PROVE  ~PushFails(stack, Innermost)
    <3>1. /\ Headers \in Seq(Block) /\ Innermost \in Block
          /\ Headers # <<>> => Parent[Innermost] = Headers[Len(Headers)]
      BY <2>1, InnermostFits DEF TypeOK, Stack, Headers
    <3>2. \A k \in 1..Len(Headers) : Number[Headers[k]] # Number[Innermost]
      <4>1. Branch(Headers)
        BY DEF BranchInv
      <4> QED BY <3>1, <4>1, PushBranch, Zenon
    <3> QED BY <3>2 DEF PushFails, Headers
  <2>2. pc = "finish" => ~ResetFails(stack, checkpointID)
    BY DEF BranchInv, ResetFails
  <2>3. pc = "reset" /\ undo > 0 => ~UndoFails(stack, undo)
    BY UndoBranch
  <2>4. pc = "fetch" /\ numBlocksToFetch # 1 => Peek(stack) # NoBlock
    <3>1. stack \in Stack
      BY DEF TypeOK
    <3> QED BY <3>1, StackTypes, NoBlockAssumption DEF Control, Headers
  <2> QED BY <2>1, <2>2, <2>3, <2>4 DEF NoStackError
<1> QED BY <1>1, Inductive, PTL

\* Between syncs the subscribers know every header of the stack, also after
\* a sync that failed or was reverted.
THEOREM AnnouncedCorrect == Spec => []StackWasAnnounced
<1>1. BranchInv => StackWasAnnounced
  BY DEF BranchInv, StackWasAnnounced
<1> QED BY <1>1, Inductive, PTL

-----------------------------------------------------------------------------
(***************************************************************************)
(* A batch is a path.  While there are no events, the top of the stack is  *)
(* the header stored before the sync; from then on the last event leads to *)
(* the top, as every pop and push appends the event that goes with it.     *)
(***************************************************************************)
Steps(ev, start) ==
    /\ start # NoBlock => Applies(start, ev[1])
    /\ \A k \in 1..(Len(ev) - 1) : Applies(TipAfter(ev[k]), ev[k + 1])

PathInv ==
    /\ pc \in {"fetch", "build", "return", "finish"} /\ events = <<>> => Peek(stack) = lastStoredHeader
    /\ BatchIsAPath

\* What the two kinds of events do to a consumer.
LEMMA EventTips ==
    ASSUME NEW b \in Block
    PROVE  /\ Added(b) \in Event /\ Removed(b) \in Event
           /\ TipAfter(Added(b)) = b /\ TipAfter(Removed(b)) = Parent[b]
           /\ \A tip : Applies(tip, Added(b)) <=> Parent[b] = tip
           /\ \A tip : Applies(tip, Removed(b)) <=> b = tip
BY DEF Added, Removed, Event, TipAfter, Applies

\* An event leaves a consumer at some block.
LEMMA TipIsABlock ==
    ASSUME NEW e \in Event
    PROVE  TipAfter(e) # NoBlock
BY NoBlockAssumption, ParentAssumption DEF Event, TipAfter

\* One more event that applies where the batch has led so far.
LEMMA OneMoreEvent ==
    ASSUME NEW ev \in Seq(Event), NEW e \in Event, NEW start,
           ev = <<>> /\ start # NoBlock => Applies(start, e),
           ev # <<>> => Steps(ev, start) /\ Applies(TipAfter(ev[Len(ev)]), e)
    PROVE  LET new == Append(ev, e)
           IN  new # <<>> /\ Steps(new, start) /\ new[Len(new)] = e
<1> DEFINE new == Append(ev, e)
           n == Len(ev)
<1>1. n \in Nat /\ Len(new) = n + 1 /\ new[n + 1] = e /\ \A k \in 1..n : new[k] = ev[k]
  OBVIOUS
<1>2. ev = <<>> => n = 0
  OBVIOUS
<1>3. ev # <<>> => n \in 1..n
  OBVIOUS
<1> HIDE DEF new, n
<1>4. start # NoBlock => Applies(start, new[1])
  <2>1. CASE ev = <<>>
    BY <1>1, <1>2, <2>1
  <2>2. CASE ev # <<>>
    <3>1. new[1] = ev[1]
      BY <1>1, <1>3, <2>2
    <3> QED BY <2>2, <3>1 DEF Steps
  <2> QED BY <2>1, <2>2
<1>5. ASSUME NEW k \in 1..n PROVE Applies(TipAfter(new[k]), new[k + 1])
  <2>1. ev # <<>> /\ new[k] = ev[k]
    BY <1>1, <1>2
  <2>2. CASE k = n
    BY <1>1, <2>1, <2>2 DEF n
  <2>3. CASE k # n
    <3>1. k \in 1..(n - 1) /\ k + 1 \in 1..n
      BY <1>1, <2>3
    <3>2. new[k + 1] = ev[k + 1] /\ Applies(TipAfter(ev[k]), ev[k + 1])
      BY <1>1, <2>1, <3>1 DEF Steps, n
    <3> QED BY <2>1, <3>2
  <2> QED BY <2>2, <2>3
<1>6. (n + 1) - 1 = n /\ new # <<>>
  <2>1. Len(<<>>) = 0
    OBVIOUS
  <2> QED BY <1>1, <2>1
<1>7. Steps(new, start)
  BY <1>1, <1>4, <1>5, <1>6 DEF Steps
<1> QED BY <1>1, <1>6, <1>7 DEF new

\* A push or a pop with its event.
LEMMA EventKeepsPath ==
    ASSUME TypeOK, PathInv, pc \in {"build", "return"}, NEW e \in Event, events' = Append(events, e),
           lastStoredHeader' = lastStoredHeader,
           emptied => emptied',
           Peek(stack) # NoBlock => Applies(Peek(stack), e),
           ~emptied' => TipAfter(e) = Peek(stack')
    PROVE  PathInv'
<1>1. events \in Seq(Event)
  BY DEF TypeOK
<1>2. events' # <<>>
  BY <1>1
<1>3. ASSUME ~emptied' PROVE BatchIsAPath'
  <2>1. events = <<>> => Peek(stack) = lastStoredHeader
    BY DEF PathInv
  <2>2. ASSUME events # <<>>
        PROVE  Steps(events, lastStoredHeader) /\ Applies(TipAfter(events[Len(events)]), e)
    <3>1. Steps(events, lastStoredHeader) /\ TipAfter(events[Len(events)]) = Peek(stack)
      BY <1>3, <2>2 DEF PathInv, BatchIsAPath, Steps
    <3>2. events[Len(events)] \in Event
      BY <1>1, <2>2
    <3>3. Peek(stack) # NoBlock
      BY <3>1, <3>2, TipIsABlock
    <3> QED BY <3>1, <3>3
  <2>3. /\ Steps(events', lastStoredHeader) /\ events'[Len(events')] = e
    BY <1>1, <2>1, <2>2, OneMoreEvent
  <2> QED BY <1>3, <2>3 DEF BatchIsAPath, Steps
<1> QED BY <1>2, <1>3 DEF PathInv, BatchIsAPath

\* A step that leaves the stack, the events and the stored header alone.
LEMMA SamePath ==
    ASSUME PathInv, UNCHANGED <<stack, events, lastStoredHeader, emptied>>,
           pc' \in {"fetch", "build", "return", "finish"} => pc \in {"fetch", "build", "return", "finish"},
           pc' # "reset" => pc # "reset"
    PROVE  PathInv'
BY DEF PathInv, BatchIsAPath

\* A step after which there are no events.
LEMMA NoPath ==
    ASSUME events' = <<>>, pc' \notin {"fetch", "build", "return", "finish"}
    PROVE  PathInv'
BY DEF PathInv, BatchIsAPath

\* AddBlock and AddBlockFails keep the batch a path.
LEMMA AddBlockPath ==
    ASSUME TypeOK, Control, PathInv, AddBlock \/ AddBlockFails,
           pc = "return" \/ (pc = "build" /\ Extends(Innermost)),
           UNCHANGED <<syncVars, emptied>>
    PROVE  PathInv'
<1>1. CASE AddBlock
  <2> DEFINE b == Innermost
  <2>1. stack \in Stack /\ b \in Block /\ (Headers # <<>> => Parent[b] = Headers[Len(Headers)])
    BY InnermostFits DEF TypeOK
  <2>2. stack' = Push(stack, b) /\ events' = Append(events, Added(b))
    BY <1>1 DEF AddBlock
  <2> HIDE DEF b
  <2>3. Peek(stack') = b
    BY <2>1, <2>2, PushTop
  <2>4. Added(b) \in Event /\ TipAfter(Added(b)) = b /\ \A tip : Applies(tip, Added(b)) <=> Parent[b] = tip
    BY <2>1, EventTips
  <2>5. Peek(stack) # NoBlock => Applies(Peek(stack), Added(b))
    <3>1. Peek(stack) # NoBlock => Parent[b] = Peek(stack)
      BY <2>1 DEF Peek, Headers
    <3> QED BY <2>4, <3>1, Zenon
  <2>6. lastStoredHeader' = lastStoredHeader /\ pc \in {"build", "return"}
    BY DEF syncVars
  <2>7. (emptied => emptied') /\ (~emptied' => TipAfter(Added(b)) = Peek(stack'))
    BY <2>3, <2>4
  <2> QED BY <2>2, <2>4, <2>5, <2>6, <2>7, EventKeepsPath, Zenon
<1>2. CASE AddBlockFails
  <2>1. UNCHANGED <<stack, events, lastStoredHeader, emptied>> /\ pc' = "finish" /\ pc \in {"build", "return"}
    BY <1>2 DEF AddBlockFails, BuildError, syncVars
  <2> QED BY <2>1, SamePath
<1> QED BY <1>1, <1>2

\* A pop of a reorg: the new top is the parent of the removed header, unless
\* the removed one was the last.
LEMMA ReorgPath ==
    ASSUME TypeOK, BranchInv, PathInv, BuildReorg
    PROVE  PathInv'
<1> DEFINE top == Peek(stack)
<1>1. /\ Headers \in Seq(Block) /\ Headers # <<>>
      /\ top = Headers[Len(Headers)] /\ top \in Block
  <2>1. stack \in Stack /\ Headers \in Seq(Block)
    BY DEF TypeOK, Stack, Headers
  <2>2. Headers # <<>>
    BY DEF BuildReorg, Extends, Peek, Headers
  <2> QED BY <2>1, <2>2 DEF Peek, Headers
<1>2. /\ Headers' = Front(Headers) /\ events' = Append(events, Removed(top))
      /\ emptied' = (emptied \/ Len(Headers) = 1)
      /\ pc = "build" /\ lastStoredHeader' = lastStoredHeader
  <2>1. stack' = Pop(stack) /\ Headers # <<>>
    BY <1>1 DEF BuildReorg
  <2>2. Headers' = Front(Headers)
    BY <2>1 DEF Pop, Headers, Front
  <2> QED BY <2>2 DEF BuildReorg, syncVars
<1> HIDE DEF top
<1>3. ASSUME ~emptied' PROVE Parent[top] = Peek(stack')
  <2>1. /\ Front(Headers) \in Seq(Block) /\ Len(Front(Headers)) = Len(Headers) - 1
        /\ \A k \in 1..(Len(Headers) - 1) : Front(Headers)[k] = Headers[k]
        /\ Len(Headers) \in Nat \ {0}
    BY <1>1, FrontProperties
  <2>2. Len(Headers) # 1
    BY <1>2, <1>3
  <2> DEFINE n == Len(Headers) - 1
  <2>3. n \in 1..n /\ n + 1 = Len(Headers)
    BY <2>1, <2>2
  <2>4. Parent[Headers[n + 1]] = Headers[n]
    BY <2>3 DEF BranchInv, Branch, Linked
  <2>5. Peek(stack') = Front(Headers)[n]
    <3>1. Headers' # <<>> /\ Len(Headers') = n
      BY <1>2, <2>1, <2>3
    <3> QED BY <1>2, <3>1 DEF Peek, Headers
  <2>6. Front(Headers)[n] = Headers[n]
    BY <2>1, <2>3
  <2> QED BY <1>1, <2>3, <2>4, <2>5, <2>6
<1>4. /\ Removed(top) \in Event /\ TipAfter(Removed(top)) = Parent[top]
      /\ \A tip : Applies(tip, Removed(top)) <=> top = tip
  BY <1>1, EventTips
<1>5. Applies(Peek(stack), Removed(top))
  BY <1>4, Zenon DEF top
<1>6. (emptied => emptied') /\ pc \in {"build", "return"} /\ (~emptied' => TipAfter(Removed(top)) = Peek(stack'))
  BY <1>2, <1>3, <1>4
<1> QED BY <1>2, <1>4, <1>5, <1>6, EventKeepsPath, Zenon

\* Every step keeps the batch a path.
LEMMA StepPathInv == TypeInv /\ BranchInv /\ PathInv /\ [Next]_vars => PathInv'
<1> SUFFICES ASSUME TypeOK, Control, BranchInv, PathInv, [Next]_vars
             PROVE  PathInv'
  BY DEF TypeInv
<1>1. ASSUME NEW next \in {"idle", "stopped"}, Return(next) PROVE PathInv'
  BY <1>1, NoPath DEF Return
<1>2. CASE ChainMoves \/ Settle \/ Receive \/ UNCHANGED vars
  <2>1. UNCHANGED <<stack, events, lastStoredHeader, emptied, pc>>
    BY <1>2 DEF ChainMoves, Settle, Receive, vars, syncVars
  <2> QED BY <2>1, SamePath
<1>3. CASE Cancel \/ StartSync
  <2>1. events' = <<>> /\ pc' \in {"stopped", "latest"}
    BY <1>3 DEF Cancel, StartSync, BranchInv
  <2> QED BY <2>1, NoPath
<1>4. CASE LatestFails \/ FinishNoEvents \/ FinishSend \/ ResetEnd
  BY <1>1, <1>4 DEF LatestFails, FinishNoEvents, FinishSend, ResetEnd
<1>5. CASE Latest
  <2>1. /\ pc = "latest" /\ UNCHANGED stack
        /\ \/ Return("idle")
           \/ Return(IF firstSync THEN "idle" ELSE "stopped")
           \/ pc' = "fetch" /\ lastStoredHeader' = Peek(stack) /\ UNCHANGED events
    BY <1>5, Zenon DEF Latest
  <2>2. CASE \E next \in {"idle", "stopped"} : Return(next)
    BY <1>1, <2>2
  <2>3. CASE pc' = "fetch" /\ lastStoredHeader' = Peek(stack) /\ UNCHANGED events
    BY <2>1, <2>3 DEF BranchInv, PathInv, BatchIsAPath
  <2> QED BY <2>1, <2>2, <2>3
<1>6. CASE FetchDone \/ Fetch \/ FetchFails
  <2>1. UNCHANGED <<stack, events, lastStoredHeader, emptied>> /\ pc = "fetch" /\ pc' \in {"build", "finish"}
    BY <1>6 DEF FetchDone, Fetch, FetchFails, syncVars
  <2> QED BY <2>1, SamePath
<1>7. CASE BuildExtend \/ BuildReturn
  BY <1>7, AddBlockPath DEF BuildExtend, BuildReturn
<1>8. CASE BuildReorg
  BY <1>8, ReorgPath
<1>9. CASE FinishRevert \/ ResetStep
  <2>1. Return("idle") \/ pc' = "reset"
    BY <1>9 DEF FinishRevert, ResetStep
  <2>2. CASE Return("idle")
    BY <1>1, <2>2
  <2>3. CASE pc' = "reset"
    BY <2>3 DEF PathInv, BatchIsAPath
  <2> QED BY <2>1, <2>2, <2>3
<1> QED
  BY <1>2, <1>3, <1>4, <1>5, <1>6, <1>7, <1>8, <1>9 DEF Next, Sync

\* The events of a batch lead, one after the other, from the header that was
\* stored before the sync to the top of the stack, through failed calls and
\* reorgs; only a stack that ran empty breaks the path.
THEOREM BatchCorrect == Spec => []BatchIsAPath
<1>1. Init => PathInv
  BY DEF Init, PathInv, BatchIsAPath
<1>2. PathInv => BatchIsAPath
  BY DEF PathInv
<1> QED BY <1>1, <1>2, StepPathInv, InitTypeInv, StepTypeInv, InitBranchInv, StepBranchInv, PTL DEF Spec

-----------------------------------------------------------------------------
(***************************************************************************)
(* A batch never leaves the subscribers lower than before.  A batch that   *)
(* is sent ends above the header stored before the sync.  What has to be   *)
(* shown is that this header is the one the subscribers are at: Reset must *)
(* not lose it.  It is evicted only when all of the stack is above it, and *)
(* the batch ends above it ever after, so that nothing is reverted.        *)
(***************************************************************************)
Holds(headers, b) == \E k \in 1..Len(headers) : headers[k] = b

\* With n updates to undo, Reset comes back to block b: it is in the stack and no
\* update is about it, or the first one that is about it is its pop.
Kept(n, headers, updates, b) ==
    \E m \in 1..(n + 1) :
        /\ \A k \in 1..(m - 1) : updates[k].miniHeader # b
        /\ m = n + 1 => Holds(headers, b)
        /\ m # n + 1 => updates[m].type = "Pop" /\ updates[m].miniHeader = b

\* What is appended to the updates is about another block, or comes later.
LEMMA KeptAppend ==
    ASSUME NEW updates \in Seq(Update), NEW u \in Update, NEW b, NEW headers, NEW after,
           Kept(Len(updates), headers, updates, b),
           Holds(headers, b) =>
             \/ u.miniHeader # b /\ Holds(after, b)
             \/ u.type = "Pop" /\ u.miniHeader = b
    PROVE  Kept(Len(updates) + 1, after, Append(updates, u), b)
<1> DEFINE n == Len(updates)
           us == Append(updates, u)
<1>1. n \in Nat /\ us[n + 1] = u /\ \A k \in 1..n : us[k] = updates[k]
  <2>1. n \in Nat
    OBVIOUS
  <2>2. us[n + 1] = u
    OBVIOUS
  <2>3. ASSUME NEW k \in 1..n PROVE us[k] = updates[k]
    BY <2>3
  <2> QED BY <2>1, <2>2, <2>3, Zenon
<1>2. PICK m \in 1..(n + 1) :
        /\ \A k \in 1..(m - 1) : updates[k].miniHeader # b
        /\ m = n + 1 => Holds(headers, b)
        /\ m # n + 1 => updates[m].type = "Pop" /\ updates[m].miniHeader = b
  BY DEF Kept
<1> HIDE DEF n, us
<1>3. \A k \in 1..(m - 1) : us[k].miniHeader # b
  <2> TAKE k \in 1..(m - 1)
  <2>1. k \in 1..n
    BY <1>1
  <2> QED BY <1>1, <1>2, <2>1
<1>4. m \in 1..((n + 1) + 1) /\ m # (n + 1) + 1
  BY <1>1
<1>5. CASE m # n + 1
  <2>1. m \in 1..n
    BY <1>1, <1>5
  <2>2. us[m].type = "Pop" /\ us[m].miniHeader = b
    BY <1>1, <1>2, <1>5, <2>1
  <2>3. Kept(n + 1, after, us, b)
    BY <1>3, <1>4, <2>2 DEF Kept
  <2> QED BY <2>3 DEF n, us
<1>6. CASE m = n + 1 /\ u.type = "Pop" /\ u.miniHeader = b
  <2>1. Kept(n + 1, after, us, b)
    BY <1>1, <1>3, <1>4, <1>6 DEF Kept
  <2> QED BY <2>1 DEF n, us
<1>7. CASE m = n + 1 /\ u.miniHeader # b /\ Holds(after, b)
  <2>1. PICK l \in 1..((n + 1) + 1) : l = (n + 1) + 1
    BY <1>1
  <2>2. \A k \in 1..(l - 1) : us[k].miniHeader # b
    <3> TAKE k \in 1..(l - 1)
    <3>1. l - 1 = n + 1
      BY <1>1, <2>1
    <3>2. k = n + 1 \/ k \in 1..n
      BY <1>1, <3>1
    <3>3. m - 1 = n
      BY <1>1, <1>7
    <3> QED BY <1>1, <1>3, <1>7, <3>2, <3>3, Zenon
  <2>3. Kept(n + 1, after, us, b)
    BY <1>7, <2>1, <2>2 DEF Kept
  <2> QED BY <2>3 DEF n, us
<1> QED BY <1>2, <1>5, <1>6, <1>7

\* Push of a child of the top: a block of the stack stays in it, or all that is
\* left is above it.
LEMMA PushHolds ==
    ASSUME NEW s \in Seq(Block), NEW x \in Block, Branch(s), s # <<>> => Parent[x] = s[Len(s)],
           NEW b \in Block, Holds(s, b)
    PROVE  LET t == Append(Retained(s), x)
           IN  /\ x # b
               /\ Holds(t, b) \/ \A k \in 1..Len(t) : Number[t[k]] > Number[b]
<1>1. PICK j \in 1..Len(s) : s[j] = b
  BY DEF Holds
<1>2. Len(s) \in Nat \ {0} /\ s # <<>> /\ 1 \in 1..Len(s) /\ Len(s) \in 1..Len(s) /\ Limit \in Nat \ {0}
  BY <1>1, LimitAssumption
<1>3. x # b
  BY <1>1, PushBranch, Zenon
<1>4. \A k \in 1..Len(s) : Number[s[k]] = Number[s[1]] + k - 1 /\ s[k] \in Block /\ Number[s[k]] \in Nat
  BY NumberAssumption DEF Branch, Consecutive
<1>5. CASE Len(s) # Limit
  <2>1. Retained(s) = s
    BY <1>5 DEF Retained
  <2>2. /\ Len(Append(s, x)) = Len(s) + 1 /\ \A k \in 1..Len(s) : Append(s, x)[k] = s[k]
        /\ j \in 1..Len(Append(s, x))
    BY <1>1
  <2>3. Holds(Append(s, x), b)
    BY <1>1, <2>2 DEF Holds
  <2> QED BY <1>3, <2>1, <2>3
<1>6. CASE Len(s) = Limit
  <2> DEFINE r == Tail(s)
             t == Append(r, x)
  <2>1. Retained(s) = r /\ r \in Seq(Block) /\ Len(r) = Len(s) - 1 /\ \A k \in 1..(Len(s) - 1) : r[k] = s[k + 1]
    BY <1>2, <1>6 DEF Retained
  <2> HIDE DEF r
  <2>2. Len(t) = Len(s) /\ t[Len(s)] = x /\ \A k \in 1..(Len(s) - 1) : t[k] = s[k + 1]
    BY <1>2, <2>1
  <2> HIDE DEF t
  <2>3. CASE j # 1
    <3>1. j - 1 \in 1..(Len(s) - 1) /\ (j - 1) + 1 = j /\ j - 1 \in 1..Len(t)
      BY <1>2, <2>2, <2>3
    <3>2. t[j - 1] = b
      BY <1>1, <2>2, <3>1
    <3>3. Holds(t, b)
      BY <3>1, <3>2 DEF Holds
    <3> QED BY <1>3, <2>1, <3>3 DEF t
  <2>4. CASE j = 1
    <3>1. Number[x] = Number[s[Len(s)]] + 1
      BY <1>2, <1>4, ParentAssumption
    <3>2. ASSUME NEW k \in 1..Len(t) PROVE Number[t[k]] > Number[b]
      <4>1. CASE k = Len(s)
        BY <1>1, <1>2, <1>4, <2>2, <2>4, <3>1, <4>1
      <4>2. CASE k # Len(s)
        <5>1. k \in 1..(Len(s) - 1) /\ k + 1 \in 1..Len(s)
          BY <1>2, <2>2, <4>2
        <5>2. Number[s[k + 1]] = Number[s[1]] + (k + 1) - 1 /\ Number[s[1]] \in Nat
          BY <1>2, <1>4, <5>1
        <5> QED BY <1>1, <2>2, <2>4, <5>1, <5>2
      <4> QED BY <4>1, <4>2
    <3> QED BY <1>3, <2>1, <3>2 DEF t
  <2> QED BY <2>3, <2>4
<1> QED BY <1>5, <1>6

\* A pop leaves all but the top.
LEMMA FrontHolds ==
    ASSUME NEW s \in Seq(Block), NEW b, Holds(s, b), s[Len(s)] # b
    PROVE  Holds(Front(s), b)
<1>1. PICK j \in 1..Len(s) : s[j] = b
  BY DEF Holds
<1>2. s # <<>>
  BY <1>1
<1>3. Len(Front(s)) = Len(s) - 1 /\ \A k \in 1..(Len(s) - 1) : Front(s)[k] = s[k]
  BY <1>2, FrontProperties
<1>4. j \in 1..(Len(s) - 1)
  BY <1>1
<1> QED BY <1>1, <1>3, <1>4 DEF Holds

\* What Reset undoes is the top of the stack, and there is room for what it
\* pushes back.
LEMMA UndoFits ==
    ASSUME TypeOK, Control, BranchInv, pc = "reset", undo > 0
    PROVE  LET u == stack.updates[undo]
           IN  /\ u.type = "Pop" => Retained(Headers) = Headers
               /\ u.type = "Push" /\ Headers # <<>> => Headers[Len(Headers)] = u.miniHeader
<1>1. PICK n \in Nat : undo = n + 1
  <2>1. undo \in Nat /\ undo - 1 \in Nat /\ undo = (undo - 1) + 1
    BY DEF TypeOK
  <2> QED BY <2>1
<1>2. stack \in Stack /\ Headers \in Seq(Block) /\ undo \in 1..Len(stack.updates)
  <2>1. stack \in Stack /\ undo \in Nat
    BY Zenon DEF TypeOK
  <2>2. Headers \in Seq(Block) /\ stack.updates \in Seq(Update)
    BY <2>1 DEF Stack, Headers
  <2>3. undo <= Len(stack.updates)
    BY Zenon DEF Control
  <2> QED BY <2>1, <2>2, <2>3
<1>3. PICK hist : Hist(hist, n + 1, Headers, stack.updates, announced)
  BY <1>1 DEF BranchInv, Traced, Pending
<1> DEFINE u == stack.updates[undo]
           before == hist[n + 1]
           after == hist[(n + 1) + 1]
<1>4. /\ before \in Seq(Block) /\ after \in Seq(Block)
      /\ Branch(before) /\ Undoes(before, after, u) /\ IsSuffixOf(Headers, after)
  BY <1>1, <1>3 DEF Hist
<1> HIDE DEF before, after, u
<1>5. Len(Headers) \in Nat /\ Len(after) \in Nat /\ Len(before) \in Nat /\ Len(Headers) <= Len(after)
  BY <1>2, <1>4 DEF IsSuffixOf
<1>6. ASSUME u.type = "Pop" PROVE Retained(Headers) = Headers
  <2>1. IsSuffixOf(Append(after, u.miniHeader), before)
    BY <1>4, <1>6 DEF Undoes
  <2>2. Len(Append(after, u.miniHeader)) = Len(after) + 1
    BY <1>4
  <2>3. Len(before) <= Limit /\ Len(Append(after, u.miniHeader)) <= Len(before)
    BY <1>4, <2>1 DEF Branch, IsSuffixOf
  <2>4. Len(Headers) # Limit
    BY <1>5, <2>2, <2>3, LimitAssumption
  <2> QED BY <2>4 DEF Retained
<1>7. ASSUME u.type = "Push", Headers # <<>> PROVE Headers[Len(Headers)] = u.miniHeader
  <2>1. after[Len(after)] = u.miniHeader
    BY <1>4, <1>7 DEF Undoes
  <2>2. Len(Headers) \in 1..Len(Headers)
    BY <1>2, <1>7
  <2>3. Headers[Len(Headers)] = after[Len(after) - Len(Headers) + Len(Headers)]
    BY <1>4, <2>2 DEF IsSuffixOf
  <2> QED BY <1>5, <2>1, <2>3
<1> QED BY <1>6, <1>7 DEF u

\* One iteration of Reset on the way back to block b.
LEMMA UndoKeeps ==
    ASSUME TypeOK, Control, BranchInv, pc = "reset", undo > 0,
           NEW b \in Block, Kept(undo, Headers, stack.updates, b)
    PROVE  Kept(undo - 1, UndoUpdate(stack, undo).miniHeaders, UndoUpdate(stack, undo).updates, b)
<1> DEFINE t == UndoUpdate(stack, undo)
           u == stack.updates[undo]
           us == stack.updates
<1>1. PICK n \in Nat : undo = n + 1 /\ undo - 1 = n
  <2>1. undo \in Nat /\ undo - 1 \in Nat /\ undo = (undo - 1) + 1
    BY DEF TypeOK
  <2> QED BY <2>1
<1>2. stack \in Stack /\ Headers \in Seq(Block) /\ us \in Seq(Update) /\ undo \in 1..Len(us)
  <2>1. stack \in Stack /\ undo \in Nat
    BY Zenon DEF TypeOK
  <2>2. Headers \in Seq(Block) /\ us \in Seq(Update)
    BY <2>1 DEF Stack, Headers
  <2>3. undo <= Len(us)
    BY Zenon DEF Control
  <2> QED BY <2>1, <2>2, <2>3
<1>3. \A k \in 1..(n + 1) : t.updates[k] = us[k]
  <2>1. \A k \in 1..Len(us) : t.updates[k] = us[k]
    BY <1>2, UndoKeepsUpdates
  <2>2. 1..(n + 1) \subseteq 1..Len(us)
    BY <1>1, <1>2
  <2> QED BY <2>1, <2>2
<1>4. /\ u.type = "Pop" => t.miniHeaders = Append(Headers, u.miniHeader)
      /\ u.type = "Push" /\ Headers # <<>> =>
            t.miniHeaders = Front(Headers) /\ Headers[Len(Headers)] = u.miniHeader
      /\ u.type \in {"Pop", "Push"}
  <2>1. \A k \in 1..Len(us) : us[k] \in Update
    <3> HIDE DEF us
    <3> QED BY <1>2
  <2>2. u.type \in {"Pop", "Push"}
    BY <1>2, <2>1 DEF Update
  <2> QED BY <2>2, UndoFits DEF UndoUpdate, Push, Pop, Headers, Front
<1>5. PICK m \in 1..((n + 1) + 1) :
        /\ \A k \in 1..(m - 1) : us[k].miniHeader # b
        /\ m = (n + 1) + 1 => Holds(Headers, b)
        /\ m # (n + 1) + 1 => us[m].type = "Pop" /\ us[m].miniHeader = b
  BY <1>1 DEF Kept
<1>6. u = us[n + 1]
  BY <1>1
<1> HIDE DEF t, u, us
<1>7. CASE m \in 1..n
  <2>0. /\ 1..(m - 1) \subseteq 1..(n + 1)
        /\ m # n + 1 /\ m # (n + 1) + 1 /\ m \in 1..(n + 1)
    BY <1>7
  <2>1. \A k \in 1..(m - 1) : t.updates[k].miniHeader # b
    BY <1>3, <1>5, <2>0, Zenon
  <2>2. m # n + 1 /\ m \in 1..(n + 1) /\ t.updates[m].type = "Pop" /\ t.updates[m].miniHeader = b
    BY <1>3, <1>5, <2>0, Zenon
  <2>3. Kept(n, t.miniHeaders, t.updates, b)
    BY <2>1, <2>2 DEF Kept
  <2> QED BY <1>1, <2>3 DEF t
<1>8. CASE m \in {n + 1, (n + 1) + 1}
  <2>1. \A k \in 1..n : t.updates[k].miniHeader # b
    <3> TAKE k \in 1..n
    <3>1. k \in 1..(m - 1) /\ k \in 1..(n + 1)
      BY <1>8
    <3> QED BY <1>3, <1>5, <3>1
  <2>2. Holds(t.miniHeaders, b)
    <3>1. CASE u.type = "Pop"
      <4>1. /\ Len(Append(Headers, u.miniHeader)) = Len(Headers) + 1 /\ Len(Headers) \in Nat
            /\ \A k \in 1..Len(Headers) : Append(Headers, u.miniHeader)[k] = Headers[k]
            /\ Append(Headers, u.miniHeader)[Len(Headers) + 1] = u.miniHeader
        BY <1>2
      <4>2. u.miniHeader = b \/ Holds(Headers, b)
        BY <1>5, <1>6, <1>8
      <4>3. CASE u.miniHeader = b
        BY <1>4, <3>1, <4>1, <4>3 DEF Holds
      <4>4. CASE Holds(Headers, b)
        <5>1. PICK k \in 1..Len(Headers) : Headers[k] = b
          BY <4>4 DEF Holds
        <5>2. k \in 1..(Len(Headers) + 1)
          BY <4>1
        <5> QED BY <1>4, <3>1, <4>1, <5>1, <5>2 DEF Holds
      <4> QED BY <4>2, <4>3, <4>4
    <3>2. CASE u.type = "Push"
      <4>1. m = (n + 1) + 1
        BY <1>5, <1>6, <1>8, <3>2
      <4>2. Holds(Headers, b) /\ u.miniHeader # b
        <5>1. n + 1 \in 1..(m - 1)
          BY <4>1
        <5> QED BY <1>5, <1>6, <4>1, <5>1
      <4>3. Headers # <<>>
        BY <4>2 DEF Holds
      <4> QED BY <1>2, <1>4, <3>2, <4>2, <4>3, FrontHolds
    <3> QED BY <1>4, <3>1, <3>2
  <2>3. (n + 1) - 1 = n /\ n + 1 \in 1..(n + 1)
    OBVIOUS
  <2>4. Kept(n, t.miniHeaders, t.updates, b)
    BY <2>1, <2>2, <2>3 DEF Kept
  <2> QED BY <1>1, <2>4 DEF t
<1>9. m \in 1..n \/ m \in {n + 1, (n + 1) + 1}
  BY <1>5
<1> QED BY <1>7, <1>8, <1>9

-----------------------------------------------------------------------------
Syncing == {"fetch", "build", "return", "finish"}

\* The first block that a sync fetches is the one after the stored header, and a
\* block that is built on the stack has the number after the top's.
NumbersInv ==
    /\ pc = "fetch" /\ fetched = 0 => events = <<>>
    /\ pc \in {"fetch", "build", "return"} /\ numBlocksToFetch = 1 /\ lastStoredHeader # NoBlock =>
          Number[latestHeader] = Number[lastStoredHeader] + 1
    /\ pc = "build" /\ Headers # <<>> => Number[Innermost] = Number[Peek(stack)] + 1

\* The stack is above block b, and so is the batch wherever it may end.
Above(b) ==
    /\ \A k \in 1..Len(Headers) : Number[Headers[k]] > Number[b]
    /\ events # <<>> /\ Number[events[Len(events)].blockHeader] > Number[b]
    /\ pc = "build" => Number[Innermost] > Number[b]

\* A sync can still be reverted to the header stored before it, or will not be.
KeptInv ==
    /\ pc \in Syncing /\ lastStoredHeader # NoBlock =>
          \/ Kept(Len(stack.updates), Headers, stack.updates, lastStoredHeader)
          \/ Above(lastStoredHeader)
    /\ pc = "reset" => lastStoredHeader # NoBlock /\ Kept(undo, Headers, stack.updates, lastStoredHeader)

\* The subscribers are at the header stored before the sync.
HeightInv ==
    /\ pc \in {"idle", "stopped", "latest"} /\ Headers = <<>> => announced = <<>>
    /\ pc \in Syncing \cup {"reset"} =>
          IF lastStoredHeader = NoBlock THEN announced = <<>>
                                        ELSE Height(announced) = Number[lastStoredHeader]

\* The top of the stack, and the number of a block on it.
LEMMA TopOfStack ==
    ASSUME TypeOK
    PROVE  /\ Headers \in Seq(Block)
           /\ Headers = <<>> => Peek(stack) = NoBlock
           /\ Headers # <<>> => /\ Peek(stack) = Headers[Len(Headers)] /\ Peek(stack) \in Block
                                /\ Number[Peek(stack)] \in Nat /\ Len(Headers) \in 1..Len(Headers)
<1>1. Headers \in Seq(Block)
  BY DEF TypeOK, Stack, Headers
<1> QED BY <1>1, NumberAssumption DEF Peek, Headers

\* The parent has the number before.
LEMMA NumberOfParent ==
    ASSUME NEW b \in Block, Parent[b] \in Block
    PROVE  Number[b] = Number[Parent[b]] + 1 /\ Number[b] \in Nat /\ Number[Parent[b]] \in Nat
BY ParentAssumption, NumberAssumption

\* A block that a sync fetches comes after the top.
LEMMA FetchNumbers ==
    ASSUME TypeOK, Control, PathInv, NumbersInv, Fetch
    PROVE  /\ NumbersInv' /\ Innermost' \in Block
           /\ Headers # <<>> => Number[Innermost'] = Number[Peek(stack)] + 1
           /\ Headers = <<>> => events = <<>>
<1>1. /\ pc = "fetch" /\ pc' = "build" /\ fetched < numBlocksToFetch
      /\ UNCHANGED <<stack, events, lastStoredHeader, latestHeader, numBlocksToFetch>>
  BY DEF Fetch, syncVars, loopVars
<1>2. fetched \in Nat /\ numBlocksToFetch \in Nat /\ latestHeader \in Block /\ chain \in Chains
  BY <1>1 DEF TypeOK, Control
<1>3. CASE numBlocksToFetch = 1 /\ calls' = <<latestHeader>>
  <2>1. Innermost' = latestHeader
    BY <1>3 DEF Innermost
  <2>2. events = <<>>
    BY <1>1, <1>2, <1>3 DEF NumbersInv
  <2>3. Peek(stack) = lastStoredHeader
    BY <1>1, <2>2 DEF PathInv
  <2>4. Headers # <<>> => Number[latestHeader] = Number[Peek(stack)] + 1
    <3>1. Headers # <<>> => Peek(stack) # NoBlock
      BY TopOfStack, NoBlockAssumption
    <3> QED BY <1>1, <1>3, <2>3, <3>1 DEF NumbersInv
  <2> QED BY <1>1, <1>2, <2>1, <2>2, <2>4 DEF NumbersInv, Headers
<1>4. CASE /\ numBlocksToFetch # 1 /\ Number[Peek(stack)] + 1 <= Len(chain)
           /\ calls' = <<chain[Number[Peek(stack)] + 1]>>
  <2>1. Headers # <<>>
    BY <1>1, <1>4 DEF Control
  <2>2. PICK n \in Nat : n = Number[Peek(stack)]
    BY <2>1, TopOfStack
  <2>3. n + 1 \in 1..Len(chain) /\ chain \in Seq(Block) /\ \A i \in 1..Len(chain) : Number[chain[i]] = i
    BY <1>2, <1>4, <2>2, ChainsAssumption
  <2>4. Innermost' = chain[n + 1]
    BY <1>4, <2>2 DEF Innermost
  <2>5. Innermost' \in Block /\ Number[Innermost'] = n + 1
    BY <2>3, <2>4
  <2>6. Number[Innermost'] = Number[Peek(stack)] + 1
    BY <2>2, <2>5
  <2> QED BY <1>1, <2>1, <2>5, <2>6 DEF NumbersInv, Headers
<1> QED BY <1>3, <1>4 DEF Fetch

\* A pop of a reorg: the parent that is fetched comes after the new top.
LEMMA ReorgNumbers ==
    ASSUME TypeOK, Control, BranchInv, NumbersInv, BuildReorg
    PROVE  /\ NumbersInv' /\ Headers # <<>> /\ Peek(stack) \in Block
           /\ Headers' = Front(Headers) /\ events' = Append(events, Removed(Peek(stack)))
           /\ stack'.updates = Append(stack.updates, [type |-> "Pop", miniHeader |-> Peek(stack)])
           /\ lastStoredHeader' = lastStoredHeader /\ pc = "build" /\ pc' \in {"build", "finish"}
           /\ pc' = "build" => Innermost' \in Block /\ Number[Innermost'] = Number[Peek(stack)]
<1>1. Headers # <<>>
  BY DEF BuildReorg, Extends, Peek, Headers
<1>2. /\ Headers \in Seq(Block) /\ Peek(stack) = Headers[Len(Headers)] /\ Peek(stack) \in Block
      /\ Number[Peek(stack)] \in Nat /\ Len(Headers) \in 1..Len(Headers)
  BY <1>1, TopOfStack
<1>3. /\ Headers' = Front(Headers)
      /\ stack'.updates = Append(stack.updates, [type |-> "Pop", miniHeader |-> Peek(stack)])
  BY <1>1 DEF BuildReorg, Pop, Headers, Front
<1>4. /\ pc = "build" /\ pc' \in {"build", "finish"} /\ lastStoredHeader' = lastStoredHeader
      /\ events' = Append(events, Removed(Peek(stack)))
  BY DEF BuildReorg, BuildError, syncVars
<1>5. calls \in Seq(Block) /\ calls # <<>> /\ Innermost \in Block
  BY <1>4 DEF TypeOK, Control, Innermost
<1>6. ASSUME pc' = "build"
      PROVE  Innermost' \in Block /\ Number[Innermost'] = Number[Peek(stack)]
  <2>1. Parent[Innermost] \in Block /\ calls' = Append(calls, Parent[Innermost])
    BY <1>6 DEF BuildReorg, BuildError
  <2>2. Innermost' = Parent[Innermost]
    BY <1>5, <2>1 DEF Innermost
  <2>3. Number[Innermost] = Number[Parent[Innermost]] + 1 /\ Number[Parent[Innermost]] \in Nat
    BY <1>5, <2>1, NumberOfParent, Zenon
  <2>4. Number[Innermost] = Number[Peek(stack)] + 1
    BY <1>1, <1>4 DEF NumbersInv
  <2> QED BY <1>2, <2>1, <2>2, <2>3, <2>4
<1>7. ASSUME Headers' # <<>> PROVE Number[Peek(stack)] = Number[Peek(stack)'] + 1
  <2>1. /\ Len(Front(Headers)) = Len(Headers) - 1 /\ Len(Headers) \in Nat
        /\ \A k \in 1..(Len(Headers) - 1) : Front(Headers)[k] = Headers[k]
    BY <1>1, <1>2, FrontProperties
  <2> DEFINE n == Len(Headers) - 1
  <2>2. n \in 1..n /\ n \in 1..Len(Headers) /\ n + 1 = Len(Headers) /\ Len(Headers') = n
    <3>1. Len(Headers') # 0
      BY <1>2, <1>3, <1>7, <1>1, FrontProperties
    <3> QED BY <1>3, <2>1, <3>1
  <2>3. Peek(stack)' = Headers[n]
    BY <1>3, <1>7, <2>1, <2>2 DEF Peek, Headers
  <2>4. Parent[Headers[n + 1]] = Headers[n]
    BY <2>2 DEF BranchInv, Branch, Linked
  <2>5. Headers[n] \in Block
    BY <1>2, <2>2
  <2> QED BY <1>2, <2>2, <2>3, <2>4, <2>5, NumberOfParent
<1>8. NumbersInv'
  <2>1. pc' # "fetch" /\ UNCHANGED <<numBlocksToFetch, latestHeader>>
    BY <1>4 DEF BuildReorg, loopVars, syncVars
  <2>2. pc' = "build" /\ Headers' # <<>> => Number[Innermost'] = Number[Peek(stack)'] + 1
    BY <1>6, <1>7
  <2> QED BY <1>4, <2>1, <2>2 DEF NumbersInv
<1> QED BY <1>1, <1>2, <1>3, <1>4, <1>6, <1>8

\* Every step keeps the numbers.
LEMMA StepNumbers == TypeInv /\ BranchInv /\ PathInv /\ NumbersInv /\ [Next]_vars => NumbersInv'
<1> SUFFICES ASSUME TypeOK, Control, BranchInv, PathInv, NumbersInv, [Next]_vars
             PROVE  NumbersInv'
  BY DEF TypeInv
<1>1. ASSUME pc' \notin {"fetch", "build", "return"} PROVE NumbersInv'
  BY <1>1 DEF NumbersInv
<1>2. CASE ChainMoves \/ Settle \/ Receive \/ UNCHANGED vars
  <2>1. UNCHANGED <<stack, events, lastStoredHeader, latestHeader, pc, fetched, numBlocksToFetch, calls>>
    BY <1>2 DEF ChainMoves, Settle, Receive, vars, syncVars, loopVars
  <2> QED BY <2>1 DEF NumbersInv, Headers, Innermost
<1>3. CASE Cancel \/ StartSync \/ LatestFails \/ FetchDone \/ FetchFails \/ FinishNoEvents \/ FinishSend
             \/ FinishRevert \/ ResetStep \/ ResetEnd
  <2>1. pc' \notin {"fetch", "build", "return"}
    BY <1>3 DEF Cancel, StartSync, LatestFails, FetchDone, FetchFails, FinishNoEvents, FinishSend,
         FinishRevert, ResetStep, ResetEnd, Return
  <2> QED BY <1>1, <2>1
<1>4. CASE Latest
  <2> DEFINE header == chain[Len(chain)]
             stored == Peek(stack)
             behind == Behind(header, stored)
  <2>1. \/ pc' \in {"idle", "stopped"}
        \/ /\ pc = "latest" /\ pc' = "fetch" /\ latestHeader' = header /\ lastStoredHeader' = stored
           /\ numBlocksToFetch' = behind /\ UNCHANGED events
    BY <1>4, Zenon DEF Latest, Return
  <2>2. CASE pc' \in {"idle", "stopped"}
    BY <1>1, <2>2
  <2>3. CASE /\ pc = "latest" /\ pc' = "fetch" /\ latestHeader' = header /\ lastStoredHeader' = stored
             /\ numBlocksToFetch' = behind /\ UNCHANGED events
    <3>1. events' = <<>>
      BY <2>3 DEF BranchInv
    <3>2. header \in Block /\ Number[header] \in Nat
      <4>1. chain \in Seq(Block) /\ chain # <<>>
        BY ChainsAssumption DEF TypeOK
      <4> QED BY <4>1, NumberAssumption
    <3>3. stored # NoBlock => Number[stored] \in Nat
      BY TopOfStack
    <3> HIDE DEF header, stored
    <3>4. behind = 1 /\ stored # NoBlock => Number[header] = Number[stored] + 1
      BY <3>2, <3>3 DEF Behind
    <3> QED BY <2>3, <3>1, <3>4 DEF NumbersInv
  <2> QED BY <2>1, <2>2, <2>3
<1>5. CASE Fetch
  BY <1>5, FetchNumbers
<1>6. CASE BuildExtend \/ BuildReturn
  <2>1. /\ pc \in {"build", "return"} /\ UNCHANGED <<numBlocksToFetch, latestHeader, lastStoredHeader>>
        /\ pc' \in {"return", "finish"} \/ (pc' = "fetch" /\ fetched' = fetched + 1)
    BY <1>6 DEF BuildExtend, BuildReturn, AddBlock, AddBlockFails, BuildError, syncVars
  <2>2. fetched \in Nat
    BY DEF TypeOK
  <2> QED BY <1>1, <2>1, <2>2 DEF NumbersInv
<1>7. CASE BuildReorg
  BY <1>7, ReorgNumbers
<1> QED
  BY <1>2, <1>3, <1>4, <1>5, <1>6, <1>7 DEF Next, Sync

\* What is pushed onto a stack above a number, from above it, leaves it above.
LEMMA PushAbove ==
    ASSUME NEW s \in Seq(Block), Len(s) <= Limit, NEW x \in Block, NEW n,
           \A k \in 1..Len(s) : Number[s[k]] > n, Number[x] > n
    PROVE  \A k \in 1..Len(Append(Retained(s), x)) : Number[Append(Retained(s), x)[k]] > n
<1> DEFINE r == Retained(s)
<1>1. /\ r \in Seq(Block) /\ Len(r) \in Nat
      /\ Len(Append(r, x)) = Len(r) + 1 /\ Append(r, x)[Len(r) + 1] = x
      /\ \A k \in 1..Len(r) : Append(r, x)[k] = r[k]
  BY RetainedSuffix
<1>2. \A k \in 1..Len(r) : r[k] = s[Len(s) - Len(r) + k] /\ Len(s) - Len(r) + k \in 1..Len(s)
  <2>1. IsSuffixOf(r, s)
    BY RetainedSuffix
  <2> QED BY <1>1, <2>1 DEF IsSuffixOf
<1> HIDE DEF r
<1>3. ASSUME NEW k \in 1..Len(Append(r, x)) PROVE Number[Append(r, x)[k]] > n
  <2>1. CASE k = Len(r) + 1
    BY <1>1, <2>1
  <2>2. CASE k # Len(r) + 1
    <3>1. k \in 1..Len(r)
      BY <1>1, <2>2
    <3> QED BY <1>1, <1>2, <3>1
  <2> QED BY <2>1, <2>2
<1> QED BY <1>3 DEF r

\* AddBlock and AddBlockFails: the stored header stays within reach, or below.
LEMMA AddBlockKept ==
    ASSUME TypeOK, Control, BranchInv, KeptInv, AddBlock \/ AddBlockFails,
           pc = "return" \/ (pc = "build" /\ Extends(Innermost)), UNCHANGED syncVars
    PROVE  KeptInv'
<1> DEFINE t == lastStoredHeader
           x == Innermost
<1>1. CASE AddBlockFails
  <2>1. UNCHANGED <<stack, events, lastStoredHeader>> /\ pc' = "finish" /\ pc \in Syncing
    BY <1>1 DEF AddBlockFails, BuildError, syncVars, Syncing
  <2>2. Headers' = Headers
    BY <2>1 DEF Headers
  <2>3. Above(lastStoredHeader) => Above(lastStoredHeader)'
    BY <2>1, <2>2 DEF Above
  <2> QED BY <2>1, <2>2, <2>3 DEF KeptInv
<1>2. CASE AddBlock
  <2>1. pc \in Syncing /\ pc' \in {"fetch", "return"} /\ lastStoredHeader' = t
    BY <1>2 DEF AddBlock, Syncing, syncVars
  <2>2. CASE t = NoBlock
    BY <2>1, <2>2 DEF KeptInv
  <2>3. CASE t # NoBlock
    <3> DEFINE after == Append(Retained(Headers), x)
               u == [type |-> "Push", miniHeader |-> x]
    <3>1. /\ t \in Block /\ x \in Block /\ Headers \in Seq(Block) /\ Branch(Headers)
          /\ Headers # <<>> => Parent[x] = Headers[Len(Headers)]
          /\ stack.updates \in Seq(Update) /\ events \in Seq(Event)
      BY <2>3, InnermostFits DEF TypeOK, Stack, Headers, BranchInv
    <3>2. /\ Headers' = after /\ stack'.updates = Append(stack.updates, u)
          /\ events' = Append(events, Added(x)) /\ u \in Update /\ u.miniHeader = x
      BY <1>2, <3>1 DEF AddBlock, Push, Headers, Update
    <3>3. events' # <<>> /\ events'[Len(events')].blockHeader = x
      <4>1. events'[Len(events')] = Added(x) /\ events' # <<>>
        BY <3>1, <3>2
      <4> QED BY <4>1 DEF Added
    <3>4. Len(stack'.updates) = Len(stack.updates) + 1
      BY <3>1, <3>2
    <3>5. Number[t] \in Nat /\ Number[x] \in Nat /\ Len(Headers) <= Limit
      BY <3>1, NumberAssumption DEF Branch
    <3> HIDE DEF t, x, u, after
    <3>6. ASSUME \A k \in 1..Len(after) : Number[after[k]] > Number[t], Number[x] > Number[t]
          PROVE  KeptInv'
      <4>1. Above(lastStoredHeader)'
        BY <2>1, <3>2, <3>3, <3>6 DEF Above
      <4> QED BY <2>1, <4>1 DEF KeptInv
    <3>7. ASSUME Kept(Len(stack.updates), Headers, stack.updates, t), Holds(Headers, t) => x # t /\ Holds(after, t)
          PROVE  KeptInv'
      <4>1. Kept(Len(stack.updates) + 1, after, Append(stack.updates, u), t)
        BY <3>1, <3>2, <3>7, KeptAppend
      <4>2. Kept(Len(stack'.updates), Headers', stack'.updates, lastStoredHeader')
        BY <2>1, <3>2, <3>4, <4>1
      <4> QED BY <2>1, <4>2 DEF KeptInv
    <3>8. CASE Above(t)
      <4>1. Number[x] > Number[t]
        <5>1. CASE Headers = <<>>
          BY <3>8, <5>1 DEF Above, Control, x
        <5>2. CASE Headers # <<>>
          <6>1. Len(Headers) \in 1..Len(Headers) /\ Headers[Len(Headers)] \in Block
            BY <3>1, <5>2
          <6>2. Number[Headers[Len(Headers)]] > Number[t]
            BY <3>8, <6>1 DEF Above
          <6>3. Number[x] = Number[Headers[Len(Headers)]] + 1 /\ Number[Headers[Len(Headers)]] \in Nat
            BY <3>1, <5>2, <6>1, NumberOfParent
          <6> QED BY <3>5, <6>2, <6>3
        <5> QED BY <5>1, <5>2
      <4>2. \A k \in 1..Len(Headers) : Number[Headers[k]] > Number[t]
        BY <3>8 DEF Above
      <4>3. \A k \in 1..Len(after) : Number[after[k]] > Number[t]
        BY <3>1, <3>5, <4>1, <4>2, PushAbove DEF after
      <4> QED BY <3>6, <4>1, <4>3
    <3>9. CASE Kept(Len(stack.updates), Headers, stack.updates, t)
      <4>1. CASE ~Holds(Headers, t)
        BY <3>7, <3>9, <4>1
      <4>2. CASE Holds(Headers, t)
        <5>1. x # t /\ (Holds(after, t) \/ \A k \in 1..Len(after) : Number[after[k]] > Number[t])
          BY <3>1, <4>2, PushHolds DEF after
        <5>2. CASE Holds(after, t)
          BY <3>7, <3>9, <5>1, <5>2
        <5>3. CASE \A k \in 1..Len(after) : Number[after[k]] > Number[t]
          <6>1. Len(after) \in 1..Len(after) /\ after[Len(after)] = x
            <7>1. Retained(Headers) \in Seq(Block)
              BY <3>1, <3>5, RetainedSuffix
            <7> QED BY <3>1, <7>1 DEF after
          <6> QED BY <3>6, <5>3, <6>1
        <5> QED BY <5>1, <5>2, <5>3
      <4> QED BY <4>1, <4>2
    <3> QED BY <2>1, <2>3, <3>8, <3>9 DEF KeptInv, t
  <2> QED BY <2>2, <2>3
<1> QED BY <1>1, <1>2

\* A pop of a reorg: if it pops the stored header, Reset will push it back.
LEMMA ReorgKept ==
    ASSUME TypeOK, Control, BranchInv, NumbersInv, KeptInv, BuildReorg
    PROVE  KeptInv'
<1> DEFINE t == lastStoredHeader
           top == Peek(stack)
           u == [type |-> "Pop", miniHeader |-> top]
<1>1. /\ Headers # <<>> /\ top \in Block
      /\ Headers' = Front(Headers) /\ events' = Append(events, Removed(top))
      /\ stack'.updates = Append(stack.updates, u)
      /\ lastStoredHeader' = t /\ pc = "build" /\ pc' \in {"build", "finish"}
      /\ pc' = "build" => Number[Innermost'] = Number[top]
  BY ReorgNumbers
<1>2. /\ Headers \in Seq(Block) /\ top = Headers[Len(Headers)] /\ Len(Headers) \in 1..Len(Headers)
      /\ stack.updates \in Seq(Update) /\ events \in Seq(Event)
      /\ u \in Update /\ u.type = "Pop" /\ u.miniHeader = top
  BY <1>1, TopOfStack DEF TypeOK, Stack, Update
<1>3. pc \in Syncing /\ pc' \in Syncing /\ pc' # "reset" /\ pc # "reset"
  BY <1>1 DEF Syncing
<1>4. Len(stack'.updates) = Len(stack.updates) + 1
  BY <1>1, <1>2
<1>5. events' # <<>> /\ events'[Len(events')].blockHeader = top
  <2>1. events'[Len(events')] = Removed(top) /\ events' # <<>>
    BY <1>1, <1>2
  <2> QED BY <2>1 DEF Removed
<1> HIDE DEF t, top, u
<1>6. CASE t = NoBlock
  BY <1>1, <1>3, <1>6 DEF KeptInv
<1>7. CASE Kept(Len(stack.updates), Headers, stack.updates, t)
  <2>1. Holds(Headers, t) => (top # t /\ Holds(Front(Headers), t)) \/ top = t
    BY <1>2, FrontHolds
  <2>2. Kept(Len(stack.updates) + 1, Front(Headers), Append(stack.updates, u), t)
    BY <1>2, <1>7, <2>1, KeptAppend
  <2>3. Kept(Len(stack'.updates), Headers', stack'.updates, lastStoredHeader')
    BY <1>1, <1>4, <2>2
  <2> QED BY <1>3, <2>3 DEF KeptInv
<1>8. CASE Above(t)
  <2>1. Number[top] > Number[t]
    BY <1>2, <1>8 DEF Above
  <2>2. \A k \in 1..Len(Front(Headers)) : Number[Front(Headers)[k]] > Number[t]
    <3>1. /\ Len(Front(Headers)) = Len(Headers) - 1 /\ Len(Headers) \in Nat
          /\ \A k \in 1..(Len(Headers) - 1) : Front(Headers)[k] = Headers[k]
      BY <1>1, <1>2, FrontProperties
    <3> QED BY <1>8, <3>1 DEF Above
  <2>3. Above(lastStoredHeader)'
    BY <1>1, <1>5, <2>1, <2>2 DEF Above
  <2> QED BY <1>3, <2>3 DEF KeptInv
<1> QED BY <1>3, <1>6, <1>7, <1>8 DEF KeptInv, t

\* Every step keeps the stored header within reach of Reset.
LEMMA StepKept == TypeInv /\ BranchInv /\ PathInv /\ NumbersInv /\ KeptInv /\ [Next]_vars => KeptInv'
<1> SUFFICES ASSUME TypeOK, Control, BranchInv, PathInv, NumbersInv, KeptInv, [Next]_vars
             PROVE  KeptInv'
  BY DEF TypeInv
<1>1. ASSUME pc' \in {"idle", "stopped", "latest"} PROVE KeptInv'
  BY <1>1 DEF KeptInv, Syncing
<1>2. ASSUME pc' = pc, UNCHANGED <<stack, events, lastStoredHeader, calls, undo>> PROVE KeptInv'
  BY <1>2 DEF KeptInv, Above, Headers, Innermost
<1>3. CASE ChainMoves \/ Settle \/ Receive \/ UNCHANGED vars
  BY <1>2, <1>3 DEF ChainMoves, Settle, Receive, vars, syncVars
<1>4. CASE Cancel \/ StartSync \/ LatestFails \/ FinishNoEvents \/ FinishSend \/ ResetEnd
  <2>1. pc' \in {"idle", "stopped", "latest"}
    BY <1>4 DEF Cancel, StartSync, LatestFails, FinishNoEvents, FinishSend, ResetEnd, Return
  <2> QED BY <1>1, <2>1
<1>5. CASE Latest
  <2>1. \/ pc' \in {"idle", "stopped"}
        \/ pc = "latest" /\ pc' = "fetch" /\ lastStoredHeader' = Peek(stack) /\ UNCHANGED stack
    BY <1>5, Zenon DEF Latest, Return
  <2>2. CASE pc' \in {"idle", "stopped"}
    BY <1>1, <2>2
  <2>3. CASE pc = "latest" /\ pc' = "fetch" /\ lastStoredHeader' = Peek(stack) /\ UNCHANGED stack
    <3>1. Len(stack.updates) = 0
      BY <2>3 DEF BranchInv
    <3>2. ASSUME Peek(stack) # NoBlock PROVE Kept(0, Headers, stack.updates, Peek(stack))
      <4>1. Holds(Headers, Peek(stack))
        BY <3>2, TopOfStack DEF Holds
      <4> QED BY <4>1 DEF Kept
    <3> QED BY <2>3, <3>1, <3>2 DEF KeptInv, Headers
  <2> QED BY <2>1, <2>2, <2>3
<1>6. CASE FetchDone \/ FetchFails
  <2>1. UNCHANGED <<stack, events, lastStoredHeader>> /\ pc = "fetch" /\ pc' = "finish"
    BY <1>6 DEF FetchDone, FetchFails, syncVars
  <2>2. Above(lastStoredHeader) => Above(lastStoredHeader)'
    BY <2>1 DEF Above, Headers
  <2> QED BY <2>1, <2>2 DEF KeptInv, Headers, Syncing
<1>7. CASE Fetch
  <2>1. UNCHANGED <<stack, events, lastStoredHeader>> /\ pc = "fetch" /\ pc' = "build" /\ Headers' = Headers
    BY <1>7 DEF Fetch, syncVars, Headers
  <2>2. /\ Headers # <<>> => Number[Innermost'] = Number[Peek(stack)] + 1
        /\ Headers = <<>> => events = <<>>
    BY <1>7, FetchNumbers
  <2>3. ASSUME lastStoredHeader # NoBlock, Above(lastStoredHeader) PROVE Above(lastStoredHeader)'
    <3>1. Headers # <<>>
      BY <2>2, <2>3 DEF Above
    <3>2. Peek(stack) = Headers[Len(Headers)] /\ Number[Peek(stack)] \in Nat /\ Len(Headers) \in 1..Len(Headers)
      BY <3>1, TopOfStack
    <3>3. lastStoredHeader \in Block /\ Number[lastStoredHeader] \in Nat
      BY <2>3, NumberAssumption DEF TypeOK
    <3>4. Number[Peek(stack)] > Number[lastStoredHeader]
      BY <2>3, <3>2 DEF Above
    <3>5. Number[Innermost'] > Number[lastStoredHeader]
      BY <2>2, <3>1, <3>2, <3>3, <3>4
    <3> QED BY <2>1, <2>3, <3>5 DEF Above
  <2> QED BY <2>1, <2>3 DEF KeptInv, Syncing
<1>8. CASE BuildExtend \/ BuildReturn
  BY <1>8, AddBlockKept DEF BuildExtend, BuildReturn
<1>9. CASE BuildReorg
  BY <1>9, ReorgKept
<1>10. CASE FinishRevert
  <2>1. ~ResetFails(stack, checkpointID)
    BY <1>10 DEF FinishRevert, BranchInv, ResetFails
  <2>2. /\ pc = "finish" /\ pc' = "reset" /\ undo' = Len(stack.updates)
        /\ UNCHANGED <<stack, lastStoredHeader>>
    BY <1>10, <2>1 DEF FinishRevert, syncVars
  <2>3. /\ events # <<>> /\ lastStoredHeader # NoBlock
        /\ Number[events[Len(events)].blockHeader] <= Number[lastStoredHeader]
    BY <1>10 DEF FinishRevert, shouldRevertChanges
  <2>4. ~Above(lastStoredHeader)
    <3>1. events \in Seq(Event) /\ lastStoredHeader \in Block
      BY <2>3 DEF TypeOK
    <3>2. events[Len(events)] \in Event
      BY <2>3, <3>1
    <3>3. Number[events[Len(events)].blockHeader] \in Nat /\ Number[lastStoredHeader] \in Nat
      BY <3>1, <3>2, NumberAssumption DEF Event
    <3>4. ~(Number[events[Len(events)].blockHeader] > Number[lastStoredHeader])
      BY <2>3, <3>3
    <3> QED BY <3>4, Zenon DEF Above
  <2>5. Kept(Len(stack.updates), Headers, stack.updates, lastStoredHeader)
    BY <2>2, <2>3, <2>4 DEF KeptInv, Syncing
  <2> QED BY <2>2, <2>3, <2>5 DEF KeptInv, Headers, Syncing
<1>11. CASE ResetStep
  <2>1. pc = "reset" /\ undo > 0
    BY <1>11 DEF ResetStep
  <2>2. ~UndoFails(stack, undo)
    BY <2>1, UndoBranch
  <2>3. pc' = "reset" /\ undo' = undo - 1 /\ stack' = UndoUpdate(stack, undo) /\ UNCHANGED lastStoredHeader
    BY <1>11, <2>1, <2>2 DEF ResetStep, syncVars
  <2>4. lastStoredHeader \in Block /\ Kept(undo, Headers, stack.updates, lastStoredHeader) /\ lastStoredHeader # NoBlock
    BY <2>1 DEF KeptInv, TypeOK
  <2>5. Kept(undo - 1, UndoUpdate(stack, undo).miniHeaders, UndoUpdate(stack, undo).updates, lastStoredHeader)
    BY <2>1, <2>4, UndoKeeps
  <2>6. Headers' = UndoUpdate(stack, undo).miniHeaders
    BY <2>3 DEF Headers
  <2>7. Kept(undo', Headers', stack'.updates, lastStoredHeader')
    BY <2>3, <2>5, <2>6
  <2> QED BY <2>3, <2>4, <2>7 DEF KeptInv, Syncing
<1> QED
  BY <1>3, <1>4, <1>5, <1>6, <1>7, <1>8, <1>9, <1>10, <1>11 DEF Next, Sync

\* A nonempty suffix ends where the whole ends.
LEMMA SuffixHeight ==
    ASSUME NEW s \in Seq(Block), NEW t \in Seq(Block), IsSuffixOf(s, t), s # <<>>
    PROVE  Height(t) = Number[s[Len(s)]]
<1>1. Len(s) \in Nat /\ Len(t) \in Nat /\ Len(s) \in 1..Len(s) /\ Len(s) <= Len(t)
  BY DEF IsSuffixOf
<1>2. s[Len(s)] = t[Len(t) - Len(s) + Len(s)]
  BY <1>1 DEF IsSuffixOf
<1>3. Len(t) - Len(s) + Len(s) = Len(t) /\ t # <<>>
  BY <1>1
<1> QED BY <1>2, <1>3 DEF Height

\* Every step keeps the stored header where the subscribers are.
LEMMA StepHeight ==
    TypeInv /\ BranchInv /\ PathInv /\ KeptInv /\ HeightInv /\ [Next]_vars => HeightInv'
<1> SUFFICES ASSUME TypeOK, Control, BranchInv, PathInv, KeptInv, HeightInv, [Next]_vars
             PROVE  HeightInv'
  BY DEF TypeInv
<1>1. ASSUME pc' \in {"idle", "stopped", "latest"}, Headers' = <<>> => announced' = <<>> PROVE HeightInv'
  BY <1>1 DEF HeightInv, Syncing
<1>2. ASSUME pc \in Syncing \cup {"reset"}, pc' \in Syncing \cup {"reset"},
             UNCHANGED <<lastStoredHeader, announced>>
      PROVE  HeightInv'
  BY <1>2 DEF HeightInv, Syncing
<1>3. CASE ChainMoves \/ Settle \/ Receive \/ UNCHANGED vars
  <2>1. UNCHANGED <<stack, pc, lastStoredHeader, announced>>
    BY <1>3 DEF ChainMoves, Settle, Receive, vars, syncVars
  <2> QED BY <2>1 DEF HeightInv, Headers
<1>4. CASE Cancel \/ StartSync \/ LatestFails
  <2>1. /\ pc \in {"idle", "latest"} /\ pc' \in {"idle", "stopped", "latest"}
        /\ Headers' = Headers /\ UNCHANGED announced
    <3>1. CASE Cancel
      BY <3>1 DEF Cancel, Headers
    <3>2. CASE StartSync
      BY <3>2 DEF StartSync, Checkpoint, Headers
    <3>3. CASE LatestFails
      BY <3>3 DEF LatestFails, Return, Headers
    <3> QED BY <1>4, <3>1, <3>2, <3>3
  <2> QED BY <1>1, <2>1 DEF HeightInv
<1>5. CASE Latest
  <2>1. /\ pc = "latest" /\ Headers' = Headers /\ UNCHANGED announced
        /\ pc' \in {"idle", "stopped"} \/ (pc' = "fetch" /\ lastStoredHeader' = Peek(stack))
    <3>1. UNCHANGED <<stack, announced>>
      BY <1>5, Zenon DEF Latest
    <3> QED BY <1>5, <3>1, Zenon DEF Latest, Return, Headers
  <2>2. CASE pc' \in {"idle", "stopped"}
    BY <1>1, <2>1, <2>2 DEF HeightInv
  <2>3. CASE pc' = "fetch" /\ lastStoredHeader' = Peek(stack)
    <3>1. CASE Headers = <<>>
      BY <2>1, <2>3, <3>1, TopOfStack DEF HeightInv
    <3>2. CASE Headers # <<>>
      <4>1. Peek(stack) # NoBlock /\ Peek(stack) = Headers[Len(Headers)] /\ Headers \in Seq(Block)
        BY <3>2, TopOfStack, NoBlockAssumption
      <4>2. IsSuffixOf(Headers, announced)
        BY <2>1, KnownWithoutEvents DEF BranchInv
      <4>3. announced \in Seq(Block)
        BY DEF TypeOK
      <4>4. Height(announced) = Number[Peek(stack)]
        BY <3>2, <4>1, <4>2, <4>3, SuffixHeight
      <4> QED BY <2>1, <2>3, <4>1, <4>4 DEF HeightInv
    <3> QED BY <3>1, <3>2
  <2> QED BY <2>1, <2>2, <2>3
<1>6. CASE FetchDone \/ Fetch \/ FetchFails \/ BuildExtend \/ BuildReorg \/ BuildReturn
  <2>1. pc \in Syncing /\ pc' \in Syncing /\ UNCHANGED <<lastStoredHeader, announced>>
    BY <1>6 DEF FetchDone, Fetch, FetchFails, BuildExtend, BuildReorg, BuildReturn, AddBlock, AddBlockFails,
         BuildError, Syncing, syncVars
  <2> QED BY <1>2, <2>1
<1>7. CASE FinishNoEvents
  <2>1. /\ pc = "finish" /\ events = <<>> /\ pc' = "idle" /\ UNCHANGED announced /\ Headers' = Headers
    BY <1>7 DEF FinishNoEvents, Return, Headers
  <2>2. Peek(stack) = lastStoredHeader
    BY <2>1 DEF PathInv
  <2>3. Headers = <<>> => announced = <<>>
    BY <2>1, <2>2, TopOfStack DEF HeightInv, Syncing
  <2> QED BY <1>1, <2>1, <2>3
<1>8. CASE FinishSend
  <2>1. pc' = "idle" /\ announced' = Headers /\ Headers' = Headers
    BY <1>8 DEF FinishSend, Return, Checkpoint, Headers
  <2> QED BY <1>1, <2>1
<1>9. CASE FinishRevert \/ ResetStep
  <2>1. pc = "finish" => ~ResetFails(stack, checkpointID)
    BY DEF BranchInv, ResetFails
  <2>2. pc = "reset" /\ undo > 0 => ~UndoFails(stack, undo)
    BY UndoBranch
  <2>3. pc \in {"finish", "reset"} /\ pc' = "reset" /\ UNCHANGED <<lastStoredHeader, announced>>
    BY <1>9, <2>1, <2>2 DEF FinishRevert, ResetStep, syncVars
  <2> QED BY <1>2, <2>3 DEF Syncing
<1>10. CASE ResetEnd
  <2>1. pc = "reset" /\ undo = 0 /\ pc' = "idle" /\ Headers' = Headers /\ UNCHANGED announced
    BY <1>10 DEF ResetEnd, EndReset, Return, Headers
  <2>2. Kept(0, Headers, stack.updates, lastStoredHeader)
    BY <2>1 DEF KeptInv
  <2>3. Holds(Headers, lastStoredHeader)
    <3>1. PICK m \in 1..(0 + 1) : m = 0 + 1 => Holds(Headers, lastStoredHeader)
      BY <2>2, Zenon DEF Kept
    <3>2. m = 0 + 1
      OBVIOUS
    <3> QED BY <3>1, <3>2
  <2>4. Headers # <<>>
    BY <2>3 DEF Holds
  <2> QED BY <1>1, <2>1, <2>4
<1> QED
  BY <1>3, <1>4, <1>5, <1>6, <1>7, <1>8, <1>9, <1>10 DEF Next, Sync

\* The batch that is sent ends at the top of the stack, above the stored header or,
\* if its last event removes a block, not below it.
LEMMA SendIsHigher ==
    ASSUME TypeOK, PathInv, HeightInv, FinishSend, ~emptied
    PROVE  Height(announced') >= Height(announced)
<1> DEFINE e == events[Len(events)]
           t == lastStoredHeader
<1>1. pc = "finish" /\ events # <<>> /\ ~shouldRevertChanges /\ announced' = Headers
  BY DEF FinishSend
<1>2. events \in Seq(Event) /\ e \in Event /\ e.blockHeader \in Block /\ e.type \in {"Added", "Removed"}
  <2>1. events \in Seq(Event)
    BY DEF TypeOK
  <2>2. e \in Event
    BY <1>1, <2>1
  <2> QED BY <2>1, <2>2 DEF Event
<1>3. TipAfter(e) = Peek(stack) /\ TipAfter(e) # NoBlock
  BY <1>1, <1>2, TipIsABlock DEF PathInv, BatchIsAPath
<1>4. Headers # <<>> /\ Peek(stack) \in Block /\ Height(Headers) = Number[Peek(stack)] /\ Number[Peek(stack)] \in Nat
  BY <1>3, TopOfStack DEF Height
<1>5. CASE t = NoBlock
  <2>1. Height(announced) = 0
    BY <1>1, <1>5 DEF HeightInv, Syncing, Height
  <2> QED BY <1>1, <1>4, <2>1
<1>6. CASE t # NoBlock
  <2>1. Height(announced) = Number[t] /\ t \in Block /\ Number[t] \in Nat
    BY <1>1, <1>6, NumberAssumption DEF HeightInv, Syncing, TypeOK
  <2>2. Number[e.blockHeader] \in Nat /\ Number[e.blockHeader] > Number[t]
    BY <1>1, <1>2, <1>6, <2>1, NumberAssumption DEF shouldRevertChanges
  <2>3. CASE e.type = "Added"
    <3>1. e.blockHeader = Peek(stack)
      BY <1>3, <2>3 DEF TipAfter
    <3>2. Height(announced') = Number[e.blockHeader]
      BY <1>1, <1>4, <3>1, Zenon
    <3> HIDE DEF e, t
    <3> QED BY <2>1, <2>2, <3>2
  <2>4. CASE e.type = "Removed"
    <3>1. Parent[e.blockHeader] = Peek(stack)
      BY <1>3, <2>4 DEF TipAfter
    <3>2. Number[e.blockHeader] = Number[Peek(stack)] + 1
      BY <1>2, <1>4, <3>1, NumberOfParent, Zenon
    <3>3. Height(announced') = Number[Peek(stack)] /\ Number[Peek(stack)] \in Nat
      BY <1>1, <1>4, Zenon
    <3>4. \A x, y, z \in Nat : x > y /\ x = z + 1 => z >= y
      OBVIOUS
    <3> HIDE DEF e, t
    <3>5. Number[Peek(stack)] >= Number[t]
      BY <2>1, <2>2, <3>2, <3>3, <3>4, Zenon
    <3> QED BY <2>1, <3>3, <3>5, Zenon
  <2> QED BY <1>2, <2>3, <2>4
<1> QED BY <1>5, <1>6

\* No batch leaves the subscribers at a lower block than the one before did, however
\* syncs fail and are reverted in between; only a reorg deeper than the retained
\* headers can.
THEOREM FallBackCorrect == Spec => NeverFallsBack
<1> DEFINE Inv == TypeInv /\ BranchInv /\ PathInv /\ NumbersInv /\ KeptInv /\ HeightInv
<1>1. Init => Inv
  <2> SUFFICES ASSUME Init PROVE Inv
    OBVIOUS
  <2>1. PathInv /\ NumbersInv /\ KeptInv
    BY DEF Init, PathInv, BatchIsAPath, NumbersInv, KeptInv, Syncing
  <2>2. HeightInv
    BY DEF Init, HeightInv, Syncing
  <2> QED BY <2>1, <2>2, InitTypeInv, InitBranchInv
<1>2. Inv /\ [Next]_vars => Inv'
  BY StepTypeInv, StepBranchInv, StepPathInv, StepNumbers, StepKept, StepHeight
<1>3. Inv /\ [Next]_vars => [emptied \/ Height(announced') >= Height(announced)]_announced
  <2> SUFFICES ASSUME Inv, Next, announced' # announced, ~emptied
               PROVE  Height(announced') >= Height(announced)
    BY DEF vars
  <2>1. FinishSend
    BY Zenon DEF Next, Sync, ChainMoves, Settle, Receive, Cancel, StartSync, LatestFails, Latest, FetchDone, Fetch,
         FetchFails, BuildExtend, BuildReorg, BuildReturn, FinishNoEvents, FinishRevert, ResetStep, ResetEnd
  <2> QED BY <2>1, SendIsHigher DEF TypeInv
<1> QED BY <1>1, <1>2, <1>3, PTL DEF Spec, NeverFallsBack

=============================================================================
