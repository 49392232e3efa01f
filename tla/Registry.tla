------------------------------ MODULE Registry ------------------------------
(***************************************************************************)
(* The contracts whose logs the order watcher can decode: the known        *)
(* addresses of the event decoder and contractAddressToSeenCount, which    *)
(* counts how often the asset data of stored orders refers to an address.  *)
(* Calls that add orders change both while the removed-order checker does, *)
(* and block events read them; nothing but the Go runtime guards the map   *)
(* of counts.                                                              *)
(***************************************************************************)
EXTENDS Dispatch

CONSTANTS
    Worker,              \* the goroutines that add and delete orders
    UintSize             \* counts are unsigned and wrap

Contract == {leaf.address : leaf \in UNION {Tokens(o) : o \in Order}}
Standard == Token \cup {"Exchange"}

VARIABLES
    known,      \* addresses by standard
    seen,       \* contractAddressToSeenCount
    work,       \* what each goroutine has still to do to the registry
    read,       \* the count each goroutine has read from the map
    disturbed   \* two goroutines overlapped, a setup failed, or New trimmed

registryVars == <<known, seen, work, read, disturbed>>

-----------------------------------------------------------------------------
\* What loops over a list do.
Flatten(lists) ==
    LET upTo[n \in 0 .. Len(lists)] == IF n = 0 THEN <<>> ELSE upTo[n - 1] \o lists[n]
    IN  upTo[Len(lists)]

\* The decoder.
EventSignatures == {"Transfer", "Approval", "TransferSingle", "TransferBatch", "ApprovalForAll",
                    "Deposit", "Withdrawal", "Fill", "Cancel", "CancelUpTo"}

\* erc20TopicToEventName and so on, but for the events of the exchange whose
\* topics are not among the signatures.  A signature has one topic, whatever the
\* contract.
EventNames ==
    [ERC20 |-> {"Transfer", "Approval", "Deposit", "Withdrawal"},
     ERC721 |-> {"Transfer", "Approval", "ApprovalForAll"},
     ERC1155 |-> {"TransferSingle", "TransferBatch", "ApprovalForAll"},
     Exchange |-> {"Fill", "Cancel", "CancelUpTo"}]

\* The lists of known addresses are searched in this order.
Precedence == <<"ERC20", "ERC721", "ERC1155", "Exchange">>

EventType(standard, topic) ==
    <<IF standard = "ERC20" /\ topic \in {"Deposit", "Withdrawal"} THEN "Weth" ELSE standard, topic>>

\* FindEventType.  The errors are <<"untracked">> and <<"unsupported">>.
FindEventType(address, topic) ==
    LET standards == SelectSeq(Precedence, LAMBDA s : address \in known[s])
    IN  IF standards = <<>> THEN <<"untracked">>
        ELSE IF topic \notin EventNames[Head(standards)] THEN <<"unsupported">>
        ELSE EventType(Head(standards), topic)

\* Decode looks the address up again.  What unpackLog makes of a log that does
\* not fit the ABI (unsupported, and ignored) is left out.
Decode(address, topic) == FindEventType(address, topic)

-----------------------------------------------------------------------------
OpOn(op, leaf) == [op |-> op, name |-> leaf.name, address |-> leaf.address]

\* addAssetDataAddressToEventDecoder makes the address known, reads its count and
\* then increments it; StaticCall needs nothing, and a name that is not recognised
\* ends the call with an error.
AddLeaf(leaf) ==
    CASE leaf.name \in Token ->
            <<OpOn("know", leaf), OpOn("increment", leaf)>>
      [] leaf.name = "StaticCall" -> <<>>
      [] OTHER -> <<OpOn("fail", leaf)>>

\* removeAssetDataAddressFromEventDecoder.
RemoveLeaf(leaf) ==
    CASE leaf.name \in Token ->
            <<OpOn("read", leaf), OpOn("decrement", leaf), OpOn("forget", leaf)>>
      [] leaf.name = "StaticCall" -> <<>>
      [] OTHER -> <<OpOn("fail", leaf)>>

\* MultiAsset: both call themselves for each of the nested assets in turn.
AddLeaves(data) == Flatten([i \in DOMAIN data |-> AddLeaf(data[i])])
RemoveLeaves(data) == Flatten([i \in DOMAIN data |-> RemoveLeaf(data[i])])

\* setupInMemoryOrderState without the expiration watcher.  The exchange becomes
\* known with the first order, and stays so.
SetupOps(o) == AddLeaves(MakerAssetData[o]) \o AddLeaves(MakerFeeAssetData[o])
AddKnownExchange(k, orders) == IF orders = <<>> THEN k ELSE [k EXCEPT !["Exchange"] = {Exchange}]

\* permanentlyDeleteOrder and trimOrdersAndGenerateEvents after the deletion: the
\* fee asset stays counted.
RemoveOps(o) == RemoveLeaves(MakerAssetData[o])

\* Mutant: the address is forgotten whatever its count.
ApplyAndForget(s, op) ==
    LET a == op.address
    IN  CASE op.op = "know" -> [s EXCEPT !.known[op.name] = @ \cup {a}, !.read = s.seen[a]]
          [] op.op = "read" -> [s EXCEPT !.read = s.seen[a]]
          [] op.op = "increment" -> [s EXCEPT !.seen[a] = (s.read + 1) % UintSize]
          [] op.op = "decrement" -> [s EXCEPT !.seen[a] = (s.read + UintSize - 1) % UintSize]
          [] op.op = "forget" -> [s EXCEPT !.known[op.name] = @ \ {a}]

\* One operation on [known, seen, read].
Apply(s, op) ==
    LET a == op.address
    IN  CASE op.op = "know" -> [s EXCEPT !.known[op.name] = @ \cup {a}, !.read = s.seen[a]]
          [] op.op = "read" -> [s EXCEPT !.read = s.seen[a]]
          [] op.op = "increment" -> [s EXCEPT !.seen[a] = (s.read + 1) % UintSize]
          [] op.op = "decrement" -> [s EXCEPT !.seen[a] = (s.read + UintSize - 1) % UintSize]
          [] op.op = "forget" -> IF s.seen[a] = 0 THEN [s EXCEPT !.known[op.name] = @ \ {a}] ELSE s

\* Operations in turn.
ApplyAll(s, ops) ==
    LET after[n \in 0 .. Len(ops)] == IF n = 0 THEN s ELSE Apply(after[n - 1], ops[n])
    IN  after[Len(ops)]

Busy == {w \in Worker : work[w] # <<>>}

Ops(removed, added) ==
    Flatten([i \in DOMAIN removed |-> RemoveOps(removed[i])])
        \o Flatten([i \in DOMAIN added |-> SetupOps(added[i])])

\* A goroutine begins to change the registry for orders that it has deleted and
\* stored, while others may be doing so.
BeginWork(w, removed, added) ==
    /\ work' = [work EXCEPT ![w] = Ops(removed, added)]
    /\ known' = AddKnownExchange(known, added)
    /\ disturbed' = (disturbed \/ (Ops(removed, added) # <<>> /\ Busy \ {w} # {}))
    /\ UNCHANGED <<seen, read>>

\* The next operation of a goroutine.  An error ends its call.
WorkStep(w) ==
    LET op == Head(work[w])
        s == Apply([known |-> known, seen |-> seen, read |-> read[w]], op)
    IN  /\ work[w] # <<>>
        /\ IF op.op = "fail"
           THEN work' = [work EXCEPT ![w] = <<>>] /\ disturbed' = TRUE /\ UNCHANGED <<known, seen, read>>
           ELSE /\ work' = [work EXCEPT ![w] = Tail(@)]
                /\ known' = s.known /\ seen' = s.seen
                /\ read' = [read EXCEPT ![w] = IF op.op \in {"know", "read"} THEN s.read ELSE 0]
                /\ UNCHANGED disturbed

Empty == [known |-> [s \in Standard |-> {}], seen |-> [c \in Contract |-> 0], read |-> 0]

\* New returns an error when one of the orders has asset data it does not know.
Loads(trimmed, stored) == \A op \in Range(Ops(trimmed, stored)) : op.op # "fail"

\* New: the orders that are trimmed are taken off the counts before any order has
\* been counted, then every stored order is set up.
Populated(trimmed, stored) ==
    IF ~Loads(trimmed, stored) THEN Empty
    ELSE ApplyAll([Empty EXCEPT !.known = AddKnownExchange(@, stored)], Ops(trimmed, stored))

RegistryInit ==
    /\ known = Empty.known /\ seen = Empty.seen
    /\ work = [w \in Worker |-> <<>>] /\ read = [w \in Worker |-> 0]
    /\ disturbed = FALSE

NewRegistry(trimmed, stored) ==
    LET s == Populated(trimmed, stored)
    IN  /\ known' = s.known /\ seen' = s.seen
        /\ work' = [w \in Worker |-> <<>>] /\ read' = [w \in Worker |-> 0]
        /\ disturbed' = (trimmed # <<>>)
=============================================================================
