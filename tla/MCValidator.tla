---------------------------- MODULE MCValidator -----------------------------
EXTENDS Validator

Data(id, address) == [id |-> id, unpacks |-> TRUE, address |-> address,
                      call |-> [id |-> "da5b166a", unpacks |-> TRUE]]
ERC20 == Data("f47261b0", "token")
NoFee == Data("", "")
Bridge(address) == Data("dc1600f3", address)
StaticCall(address) == Data("c339d10a", address)

\* An order that passes the off-chain checks, and the ways not to pass.
Plain(id, size) ==
    [id |-> id, size |-> size, expirationIsInt64 |-> TRUE, makerAmount |-> 1, takerAmount |-> 1,
     maker |-> ERC20, taker |-> ERC20, makerFee |-> NoFee, takerFee |-> NoFee,
     signature |-> [type |-> "EIP712", length |-> 66], coordinator |-> FALSE, endpoint |-> ""]

A == Plain("a", 3)
B == [Plain("b", 4) EXCEPT !.maker = Bridge("chai"), !.takerFee = ERC20]
C == [Plain("c", 2) EXCEPT !.coordinator = TRUE, !.endpoint = "e",
        !.taker = StaticCall("gas")]
D == [C EXCEPT !.id = "d", !.size = 5, !.signature = [type |-> "Validator", length |-> 21],
        !.taker.call = [id |-> "d728f5b7", unpacks |-> FALSE]]

Bad == {[A EXCEPT !.expirationIsInt64 = FALSE], [A EXCEPT !.makerAmount = 0], [A EXCEPT !.takerAmount = 0],
        [A EXCEPT !.maker.unpacks = FALSE], [A EXCEPT !.taker = Bridge("other")],
        [A EXCEPT !.makerFee = StaticCall("other")],
        [A EXCEPT !.takerFee = Data("d728f5b7", "gas")],
        [A EXCEPT !.maker = [StaticCall("gas") EXCEPT !.call.id = "f47261b0"]],
        [A EXCEPT !.signature.length = 65], [A EXCEPT !.signature.type = "Illegal"]}

MCBatches == {<<A, B>>, <<C, A>>, <<D, C>>} \cup {<<bad, B>> : bad \in Bad}
MCCaller == 0..2

Answer(status, fillable) ==
    [isValidSignature |-> TRUE, status |-> status, fillable |-> fillable, remaining |-> 1]
MCAnswers == {Answer("Fillable", 1), Answer("Fillable", 0), Answer("Expired", 0),
              [Answer("Fillable", 1) EXCEPT !.isValidSignature = FALSE]}
=============================================================================
