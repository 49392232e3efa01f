------------------------------ MODULE MCGossip ------------------------------
EXTENDS Gossip, TLC

CONSTANTS p1, p2, o1, o2, o3, o4, c1, c2, ex, m1, m2, proxy, bridge, chai

Leaf(name, c, ids, b) == [name |-> name, address |-> c, ids |-> ids, bridge |-> b]
ERC20(c) == Leaf("ERC20", c, {}, c)
ERC721(c, id) == Leaf("ERC721", c, {id}, c)
ERC1155(c, ids) == Leaf("ERC1155", c, ids, c)
ERC20Bridge(c, b) == Leaf("ERC20Bridge", c, {}, b)

\* Two orders with contracts in common, one of them as the fee; o3 is not
\* fillable; o4 is, and the validator supports its bridge.
MCMakerAssetData == (o1 :> <<ERC20(c1), ERC721(c2, 0)>>) @@ (o2 :> <<ERC20(c1)>>) @@ (o3 :> <<ERC1155(c1, {1, 4})>>)
                    @@ (o4 :> <<ERC20Bridge(c1, bridge)>>)
MCMakerFeeAssetData == (o1 :> <<>>) @@ (o2 :> <<ERC721(c2, 4)>>) @@ (o3 :> <<>>) @@ (o4 :> <<>>)
MCMaker == (o1 :> m1) @@ (o2 :> m2) @@ (o3 :> m1) @@ (o4 :> m2)
MCSalt == (o1 :> 0) @@ (o2 :> 1) @@ (o3 :> 1) @@ (o4 :> 2)

\* Bytes of two bits: those of 4 begin with those of 1.
MCBytes == (0 :> <<>>) @@ (1 :> <<1>>) @@ (4 :> <<1, 0>>)
MCAssetProxy == [s \in Token |-> proxy]
MCLog == [address : {c1, c2, chai, ex}, from : {m1, m2}, to : {m1, m2, proxy}, id : {0, 1, 4},
          order : {o1, o2}, epoch : 0 .. 2]
MCSize == (o1 :> 1) @@ (o2 :> 1) @@ (o3 :> 3) @@ (o4 :> 1)
Message(p, author, data) == [p |-> p, author |-> author, data |-> data]
MCArrivals == {Message(p1, p1, o1), Message(p1, p2, o1), Message(p2, p2, o1), Message(p1, p1, o3), Message(p2, p1, o2),
               Message(p1, p1, Garbage)}
Batch(orders, opts) == [orders |-> orders, opts |-> opts]
MCBatches == {Batch(<<o1>>, TRUE), Batch(<<o1, o2>>, FALSE), Batch(<<o4>>, FALSE)}
LogOf(c, from, to) == [address |-> c, from |-> from, to |-> to, id |-> 0, order |-> o1, epoch |-> 1]
MCLogs == {<<LogOf(c1, m1, m2), "Transfer">>, <<LogOf(ex, m1, m1), "Fill">>}

\* What happens from outside in one behaviour.
Only(b) == [kind \in InputKind |-> IF kind \in DOMAIN b THEN b[kind] ELSE 0]
MCBudgets ==
    {Only([receive |-> 3, tick |-> 1]), Only([receive |-> 2, log |-> 1]), Only([receive |-> 1, add |-> 1]),
     Only([subscribe |-> 1, add |-> 1, log |-> 1]), Only([subscribe |-> 2, add |-> 2, cancel |-> 1]),
     Only([add |-> 2, log |-> 1]), Only([add |-> 1, log |-> 1, restart |-> 1]), Only([receive |-> 1, log |-> 2])}
MCWorker == {"handler", "api", "checker", "blocks"}
=============================================================================
