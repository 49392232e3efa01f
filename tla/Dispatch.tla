------------------------------ MODULE Dispatch ------------------------------
(***************************************************************************)
(* From a decoded log to the orders that are validated again: the indexes  *)
(* of the orders collection, the queries on them and the switch over event *)
(* types in handleBlockEvents.  An index value is a maker, a contract and  *)
(* the bytes of a token ID, and a query asks for a prefix of it.           *)
(***************************************************************************)
EXTENDS Naturals, Sequences, Functions

CONSTANTS
    Order,
    Maker, Salt,         \* of each order
    MakerAssetData,      \* of each order, as the sequence of its tokens: name, address, ids, bridge
    MakerFeeAssetData,   \* likewise; empty when MakerFee is 0
    Account,
    TokenID,
    Bytes,               \* big.Int.Bytes of a token ID: big endian, and empty for 0
    AssetProxy,          \* of each token standard
    Exchange, ChaiBridge, ChaiToken,
    Log                  \* the logs: address, from, to, id, order and epoch, as far as a type has them

\* The bytes of s begin with those of p.
IsPrefix(p, s) == Len(p) <= Len(s) /\ \A i \in 1 .. Len(p) : p[i] = s[i]

Token == {"ERC20", "ERC721", "ERC1155"}
Tokens(o) == Range(MakerAssetData[o]) \cup Range(MakerFeeAssetData[o])

ASSUME DispatchAssumption ==
    /\ Bytes \in [TokenID -> Seq(Nat)]
    /\ Maker \in [Order -> Account] /\ Salt \in [Order -> Nat]
    /\ \A o \in Order : \A leaf \in Tokens(o) : leaf.ids \subseteq TokenID
    /\ \A log \in Log : log.id \in TokenID /\ log.epoch \in Nat

\* The types of decoded events.  "Weth" is an ERC20 token with two events more.
EventTypes ==
    {<<"ERC20", "Transfer">>, <<"ERC20", "Approval">>, <<"Weth", "Deposit">>, <<"Weth", "Withdrawal">>,
     <<"ERC721", "Transfer">>, <<"ERC721", "Approval">>, <<"ERC721", "ApprovalForAll">>,
     <<"ERC1155", "TransferSingle">>, <<"ERC1155", "TransferBatch">>, <<"ERC1155", "ApprovalForAll">>,
     <<"Exchange", "Fill">>, <<"Exchange", "Cancel">>, <<"Exchange", "CancelUpTo">>}

-----------------------------------------------------------------------------
\* parseContractAddressesAndTokenIdsFromAssetData, for one token.  An order for
\* Dai through the Chai bridge is one that depends on Chai.
singleAssetDatas(leaf) ==
    CASE leaf.name = "ERC20" -> {[address |-> leaf.address, id |-> <<>>]}
      [] leaf.name \in {"ERC721", "ERC1155"} -> {[address |-> leaf.address, id |-> Bytes[n]] : n \in leaf.ids}
      [] leaf.name = "ERC20Bridge" ->
            {[address |-> IF leaf.bridge = ChaiBridge THEN ChaiToken ELSE leaf.address, id |-> <<>>]}
      [] OTHER -> {}

\* The values of makerAddressTokenAddressTokenIDIndex, and of the index on the
\* maker fee asset, but for the one of orders without a fee.
IndexValues(data) == UNION {singleAssetDatas(leaf) : leaf \in Range(data)}

\* FindOrdersByMakerAddressTokenAddressAndTokenID, and the same for the maker fee
\* asset.  Without a token ID the prefix ends after the address.
FindOrdersByMaker(data, maker, address, id) ==
    {o \in Order : /\ Maker[o] = maker
                   /\ \E a \in IndexValues(data[o]) : a.address = address /\ IsPrefix(id, a.id)}

\* Mutant: the orders that pay their fee in the token are left out.
FindOrdersByMakerAsset(maker, address, id) == FindOrdersByMaker(MakerAssetData, maker, address, id)

findOrdersByTokenAddressAndTokenID(maker, address, id) ==
    FindOrdersByMaker(MakerAssetData, maker, address, id) \cup FindOrdersByMaker(MakerFeeAssetData, maker, address, id)

\* The range excludes its limit, which is one more than the epoch.
FindOrdersByMakerAddressAndMaxSalt(maker, epoch) == {o \in Order : Maker[o] = maker /\ Salt[o] < epoch + 1}

\* The cases of the switch in handleBlockEvents.  The account a log is from is the
\* owner or the maker, the one it is to may be the spender or the operator.
\* Approvals for anyone but the asset proxy are ignored, but for one ERC721 token.
OrdersOf(log, accounts, id) ==
    UNION {findOrdersByTokenAddressAndTokenID(a, log.address, id) : a \in accounts}

ERC20Orders(name, log) ==
    CASE name = "Transfer" -> OrdersOf(log, {log.from, log.to}, <<>>)
      [] name = "Approval" -> IF log.to = AssetProxy["ERC20"] THEN OrdersOf(log, {log.from}, <<>>) ELSE {}

ERC721Orders(name, log) ==
    CASE name = "Transfer" -> OrdersOf(log, {log.from, log.to}, Bytes[log.id])
      [] name = "Approval" -> OrdersOf(log, {log.from}, Bytes[log.id])
      [] name = "ApprovalForAll" ->
            IF log.to = AssetProxy["ERC721"] THEN OrdersOf(log, {log.from}, <<>>) ELSE {}

\* The IDs are left out of account on purpose.
ERC1155Orders(name, log) ==
    CASE name \in {"TransferSingle", "TransferBatch"} -> OrdersOf(log, {log.from, log.to}, <<>>)
      [] name = "ApprovalForAll" ->
            IF log.to = AssetProxy["ERC1155"] THEN OrdersOf(log, {log.from}, <<>>) ELSE {}

WethOrders(log) == OrdersOf(log, {log.from}, <<>>)

\* A log may be about an order that the node has never seen.
findOrder(hash) == {hash} \cap Order

ExchangeOrders(name, log) ==
    CASE name \in {"Fill", "Cancel"} -> findOrder(log.order)
      [] name = "CancelUpTo" -> FindOrdersByMakerAddressAndMaxSalt(log.from, log.epoch)

Dispatch(type, log) ==
    CASE type[1] = "ERC20" -> ERC20Orders(type[2], log)
      [] type[1] = "ERC721" -> ERC721Orders(type[2], log)
      [] type[1] = "ERC1155" -> ERC1155Orders(type[2], log)
      [] type[1] = "Weth" -> WethOrders(log)
      [] type[1] = "Exchange" -> ExchangeOrders(type[2], log)

-----------------------------------------------------------------------------
\* What the events mean on the chain, whatever the node does with them.  The
\* accounts whose balance or allowance of a token changes.  (Approval of an ERC721
\* token for another operator takes it from the proxy.)
Changed(type, log) ==
    CASE type[2] \in {"Transfer", "TransferSingle", "TransferBatch"} -> {log.from, log.to}
      [] type[2] \in {"Deposit", "Withdrawal"} \/ type = <<"ERC721", "Approval">> -> {log.from}
      [] OTHER -> IF log.to = AssetProxy[type[1]] THEN {log.from} ELSE {}

\* The token of the log is what the leaf pays with.  A batch is like one log for
\* each of its token IDs.
PaysWith(leaf, type, log) ==
    CASE type[1] \in {"ERC20", "Weth"} ->
            \/ leaf.name = "ERC20" /\ leaf.address = log.address
            \/ leaf.name = "ERC20Bridge" /\ leaf.bridge = ChaiBridge /\ log.address = ChaiToken
      [] OTHER ->
            /\ leaf.name = type[1] /\ leaf.address = log.address
            /\ IF type[2] = "ApprovalForAll" THEN leaf.ids # {} ELSE log.id \in leaf.ids

\* The order may be fillable to another extent after the event.
Depends(o, type, log) ==
    CASE type \in {<<"Exchange", "Fill">>, <<"Exchange", "Cancel">>} -> log.address = Exchange /\ o = log.order
      [] type = <<"Exchange", "CancelUpTo">> ->
            log.address = Exchange /\ Maker[o] = log.from /\ Salt[o] <= log.epoch
      [] OTHER -> Maker[o] \in Changed(type, log) /\ \E leaf \in Tokens(o) : PaysWith(leaf, type, log)

\* The contracts and events that an order depends on.
Sources ==
    [o \in Order |-> {<<e[1].address, e[2]>> : e \in {l \in Log \X EventTypes : Depends(o, l[2], l[1])}}]

\* The orders that the switch does not find for some event they depend on.
Lost == {o \in Order : \E type \in EventTypes, log \in Log : Depends(o, type, log) /\ o \notin Dispatch(type, log)}
=============================================================================
