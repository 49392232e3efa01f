----------------------------- MODULE Validator ------------------------------
(***************************************************************************)
(* zeroex/ordervalidator: BatchValidate, and the rate-limited Ethereum     *)
(* client (ethereum/ethrpcclient, RateLimiter) it sends its requests with. *)
(* Orders are checked off-chain, coordinator orders are looked up for soft *)
(* cancellations, and the rest is split into chunks that goroutines send   *)
(* to the DevUtils contract; they append their results to shared slices    *)
(* without a lock.                                                         *)
(***************************************************************************)
EXTENDS RateLimiter, Sequences, SequencesExt, FiniteSetsExt

CONSTANTS Batches,           \* the batches of orders, as sequences
          Answers,           \* what the contract may say of an order
          ChaiBridge, MaximumGasPrice, NullAddress,
          maxRequestContentLength, jsonRPCPayloadByteLength,
          concurrencyLimit,
          MaxAttempts,       \* requests before the backoff reaches its maximum
          MaxRestarts        \* bound of the model

Main == 0
Chunk == Caller \ {Main}

ASSUME ValidatorAssumption == Main \in Caller

VARIABLES
    batch,      \* the orders to validate
    phase,      \* of BatchValidate
    valid,      \* signedOrders: those that have passed so far
    lookups,    \* coordinator orders whose endpoint has not been looked up
    found,      \* coordinator orders whose endpoint has been found
    chunks,     \* signedOrderChunks
    request,    \* the eth_call request of each goroutine
    results,    \* validationResults: entries of the two slices
    raced,      \* whether two goroutines have appended at the same time
    restarts

batchVars == <<batch, phase, valid, lookups, found, chunks, request, results, raced>>
vars == <<limiterVars, batchVars, restarts>>

-----------------------------------------------------------------------------
\* The asset data decoder.  Asset data is its first four bytes, whether the
\* rest unpacks, an address in it, and the call inside of a StaticCall.
CheckGasPriceDefaultID == "d728f5b7"

idToAssetDataInfo ==
    "f47261b0" :> "ERC20Token" @@ "02571792" :> "ERC721Token" @@ "a7cb5fb7" :> "ERC1155Assets" @@
    "c339d10a" :> "StaticCall" @@ CheckGasPriceDefaultID :> "checkGasPrice" @@
    "da5b166a" :> "checkGasPrice" @@ "94cfcdd7" :> "MultiAsset" @@ "dc1600f3" :> "ERC20Bridge"

GetName(d) == IF d.id \in DOMAIN idToAssetDataInfo THEN idToAssetDataInfo[d.id] ELSE "error"

\* A call without arguments is decoded whatever follows.
Decodes(d) ==
    d.id \in DOMAIN idToAssetDataInfo /\ (d.id = CheckGasPriceDefaultID \/ d.unpacks)

\* Off-chain validation.
isSupportedStaticCallData(d) ==
    /\ GetName(d.call) = "checkGasPrice" /\ Decodes(d.call)
    /\ MaximumGasPrice # NullAddress /\ d.address = MaximumGasPrice

isSupportedAssetData(d) ==
    /\ Decodes(d)
    /\ \/ GetName(d) \in {"ERC20Token", "ERC721Token", "ERC1155Assets", "MultiAsset"}
       \/ GetName(d) = "StaticCall" /\ isSupportedStaticCallData(d)
       \/ GetName(d) = "ERC20Bridge" /\ ChaiBridge # NullAddress /\ d.address = ChaiBridge

isSupportedSignature(s) ==
    \/ s.type \in {"EIP712", "EthSign"} /\ s.length = 66
    \/ s.type = "Validator" /\ s.length >= 21
    \/ s.type \in {"PreSigned", "Wallet", "EIP1271Wallet"}

\* The checks of BatchOffchainValidation, in their order.
Checks(o) ==
    << <<"MaxExpirationExceeded", o.expirationIsInt64>>,
       <<"InvalidMakerAssetAmount", o.makerAmount # 0>>,
       <<"InvalidTakerAssetAmount", o.takerAmount # 0>>,
       <<"InvalidMakerAssetData", isSupportedAssetData(o.maker)>>,
       <<"InvalidTakerAssetData", isSupportedAssetData(o.taker)>>,
       <<"InvalidMakerFeeAssetData", o.makerFee.id = "" \/ isSupportedAssetData(o.makerFee)>>,
       <<"InvalidTakerFeeAssetData", o.takerFee.id = "" \/ isSupportedAssetData(o.takerFee)>>,
       <<"InvalidSignature", isSupportedSignature(o.signature)>> >>

FailedChecks(o) == SelectSeq(Checks(o), LAMBDA check : ~check[2])

\* The codes of the rejections that the validator itself makes.
RejectedOrderStatus ==
    {"EthRPCRequestFailed", "CoordinatorRequestFailed", "CoordinatorSoftCancelled",
     "CoordinatorEndpointNotFound", "InvalidMakerAssetAmount", "InvalidTakerAssetAmount",
     "Expired", "FullyFilled", "Cancelled", "Unfunded", "InvalidMakerAssetData",
     "InvalidMakerFeeAssetData", "InvalidTakerAssetData", "InvalidTakerFeeAssetData",
     "InvalidSignature", "MaxExpirationExceeded"}

Accept(o) == [order |-> o, accepted |-> TRUE, status |-> ""]
Reject(o, status) == [order |-> o, accepted |-> FALSE, status |-> status]

OffchainValid(orders) == SelectSeq(orders, LAMBDA o : FailedChecks(o) = <<>>)
OffchainRejected(orders) ==
    {Reject(o, Head(FailedChecks(o))[1]) : o \in {o \in ToSet(orders) : FailedChecks(o) # <<>>}}

-----------------------------------------------------------------------------
\* Mutant: a request may be as long as the limit.
FillToLimit(orders) ==
    LET add(acc, o) ==
            IF acc.length + o.size <= maxRequestContentLength
            THEN [acc EXCEPT !.length = @ + o.size, !.next = @ + 1]
            ELSE [sizes |-> Append(acc.sizes, acc.next), next |-> 1,
                  length |-> jsonRPCPayloadByteLength + o.size]
        all == FoldLeft(add, [sizes |-> <<>>, next |-> 0, length |-> jsonRPCPayloadByteLength], orders)
    IN  IF all.next # 0 THEN Append(all.sizes, all.next) ELSE all.sizes

\* The greedy split: as many orders as fit in a request, then a new chunk.
\* Every order is assumed to fit in a request of its own.
computeOptimalChunkSizes(orders) ==
    LET add(acc, o) ==
            IF acc.length + o.size < maxRequestContentLength
            THEN [acc EXCEPT !.length = @ + o.size, !.next = @ + 1]
            ELSE [sizes |-> Append(acc.sizes, acc.next), next |-> 1,
                  length |-> jsonRPCPayloadByteLength + o.size]
        all == FoldLeft(add, [sizes |-> <<>>, next |-> 0, length |-> jsonRPCPayloadByteLength], orders)
    IN  IF all.next # 0 THEN Append(all.sizes, all.next) ELSE all.sizes

\* The consecutive pieces of the given sizes.
Split(orders, sizes) ==
    LET cut(acc, n) == [rest |-> SubSeq(acc.rest, n + 1, Len(acc.rest)),
                        pieces |-> Append(acc.pieces, SubSeq(acc.rest, 1, n))]
    IN  FoldLeft(cut, [rest |-> orders, pieces |-> <<>>], sizes).pieces

\* What the contract's answer means.  To the contract a zero amount is invalid,
\* a status that the switch does not list: such an order gets no result.
Judged(o, answer) ==
    IF ~answer.isValidSignature THEN {Reject(o, "InvalidSignature")}
    ELSE IF o.makerAmount = 0 \/ o.takerAmount = 0 THEN {}
    ELSE IF answer.status = "Fillable"
         THEN {IF answer.fillable = answer.remaining THEN Accept(o) ELSE Reject(o, "Unfunded")}
         ELSE {Reject(o, answer.status)}

-----------------------------------------------------------------------------
\* The client: a goroutine waits for the rate limiter and sends its request.
At(c, at) == [request EXCEPT ![c].at = at]

AskLimiter(c) ==
    /\ request[c].at = "ready"
    /\ WaitBegin(c)
    /\ request' = At(c, "limiter")
    /\ UNCHANGED <<batch, phase, valid, lookups, found, chunks, results, raced, restarts>>

SendRequest(c) ==
    /\ request[c].at = "limiter"
    /\ WaitGranted(c)
    /\ request' = At(c, "sent")
    /\ UNCHANGED <<batch, phase, valid, lookups, found, chunks, results, raced, restarts>>

\* The limiter refuses, the caller's context ends, or the request fails.
ClientFails(c) ==
    \/ request[c].at = "ready" /\ TooManyRequests /\ UNCHANGED limiterVars
    \/ request[c].at = "limiter" /\ WaitCancelled(c)
    \/ request[c].at = "sent" /\ UNCHANGED limiterVars

-----------------------------------------------------------------------------
NoRequest == [at |-> "none", holds |-> FALSE, attempts |-> 0, entries |-> {}, seen |-> {}]

Offchain ==
    /\ phase = "offchain"
    /\ LET passed == OffchainValid(batch)
       IN  /\ results' = OffchainRejected(batch)
           /\ valid' = SelectSeq(passed, LAMBDA o : ~o.coordinator)
           /\ lookups' = {o \in ToSet(passed) : o.coordinator}
    /\ phase' = "lookup"
    /\ request' = At(Main, IF lookups' # {} THEN "ready" ELSE "none")
    /\ UNCHANGED <<limiterVars, batch, found, chunks, raced, restarts>>

\* GetCoordinatorEndpoint returns an endpoint, none, or an error.
LookUpEndpoint ==
    /\ phase = "lookup"
    /\ \E o \in lookups :
        /\ lookups' = lookups \ {o}
        /\ \/ /\ ClientFails(Main)
              /\ results' = results \cup {Reject(o, "EthRPCRequestFailed")}
              /\ UNCHANGED found
           \/ /\ request[Main].at = "sent" /\ UNCHANGED limiterVars
              /\ results' = results \cup {Reject(o, "CoordinatorEndpointNotFound")}
              /\ UNCHANGED found
           \/ /\ request[Main].at = "sent" /\ UNCHANGED limiterVars
              /\ found' = found \cup {o}
              /\ UNCHANGED results
    /\ request' = At(Main, IF lookups' # {} THEN "ready" ELSE "none")
    /\ UNCHANGED <<batch, phase, valid, chunks, raced, restarts>>

\* The coordinator server of an endpoint is asked for all its orders at once;
\* it fails, or names those that were cancelled (of those it was asked for).
AskCoordinator ==
    /\ phase = "lookup" /\ lookups = {} /\ found # {}
    /\ \E endpoint \in {o.endpoint : o \in found} :
        LET group == {o \in found : o.endpoint = endpoint}
        IN  /\ found' = found \ group
            /\ \/ /\ results' = results \cup {Reject(o, "CoordinatorRequestFailed") : o \in group}
                  /\ UNCHANGED valid
               \/ \E cancelled \in SUBSET group :
                    /\ results' = results \cup {Reject(o, "CoordinatorSoftCancelled") : o \in cancelled}
                    /\ \E more \in SetToSeqs(group \ cancelled) : valid' = valid \o more
    /\ UNCHANGED <<limiterVars, batch, phase, lookups, chunks, request, raced, restarts>>

StartChunks ==
    /\ phase = "lookup" /\ lookups = {} /\ found = {}
    /\ phase' = "chunks"
    /\ chunks' = Split(valid, computeOptimalChunkSizes(valid))
    /\ request' = [c \in Caller |->
          IF c \in DOMAIN chunks' THEN [NoRequest EXCEPT !.at = "start"] ELSE NoRequest]
    /\ UNCHANGED <<limiterVars, batch, valid, lookups, found, results, raced, restarts>>

\* The goroutine of a chunk.  semaphoreChan has room for concurrencyLimit.
Holding == {c \in Chunk : request[c].holds}

AcquireSemaphore(c) ==
    /\ request[c].at = "start" /\ Cardinality(Holding) < concurrencyLimit
    /\ request' = [request EXCEPT ![c].at = "ready", ![c].holds = TRUE]
    /\ UNCHANGED <<limiterVars, batch, phase, valid, lookups, found, chunks, results, raced, restarts>>

\* The request is retried, or the semaphore released and the orders rejected.
RetryOrGiveUp(c) ==
    /\ c \in Chunk /\ phase = "chunks" /\ ClientFails(c)
    /\ request' = IF request[c].attempts + 1 < MaxAttempts
                  THEN [request EXCEPT ![c].at = "ready", ![c].attempts = @ + 1]
                  ELSE [request EXCEPT ![c].at = "results", ![c].holds = FALSE,
                          ![c].entries = {Reject(o, "EthRPCRequestFailed") : o \in ToSet(chunks[c])}]
    /\ UNCHANGED <<batch, phase, valid, lookups, found, chunks, results, raced, restarts>>

ContractAnswers(c) ==
    /\ c \in Chunk /\ request[c].at = "sent"
    /\ \E answers \in [1..Len(chunks[c]) -> Answers] :
          request' = [request EXCEPT ![c].at = "results",
              ![c].entries = UNION {Judged(chunks[c][j], answers[j]) : j \in 1..Len(chunks[c])}]
    /\ UNCHANGED <<limiterVars, batch, phase, valid, lookups, found, chunks, results, raced, restarts>>

\* The appends: a goroutine reads a slice ...
ReadResults(c) ==
    /\ request[c].at = "results"
    /\ request' = [request EXCEPT ![c].at = "append", ![c].seen = results]
    /\ UNCHANGED <<limiterVars, batch, phase, valid, lookups, found, chunks, results, raced, restarts>>

\* ... and writes it with its entries.  What another goroutine has appended to
\* the same slice in between may be overwritten.
SameSlice(e, entries) == \E f \in entries : e.accepted = f.accepted

\* Mutant: the semaphore is not released.
KeepSemaphore(c) ==
    /\ request[c].at = "append"
    /\ results' = results \cup request[c].entries
    /\ request' = At(c, "done")
    /\ UNCHANGED <<limiterVars, batch, phase, valid, lookups, found, chunks, raced, restarts>>

AppendResults(c) ==
    LET newer == {e \in results \ request[c].seen : SameSlice(e, request[c].entries)}
    IN  /\ request[c].at = "append"
        /\ \E overwritten \in SUBSET newer :
              results' = (results \ overwritten) \cup request[c].entries
        /\ raced' = (raced \/ newer # {})
        /\ request' = [request EXCEPT ![c] = [NoRequest EXCEPT !.at = "done"]]
        /\ UNCHANGED <<limiterVars, batch, phase, valid, lookups, found, chunks, restarts>>

Return ==
    /\ phase = "chunks" /\ \A c \in DOMAIN chunks : request[c].at = "done"
    /\ phase' = "done"
    /\ UNCHANGED <<limiterVars, batch, valid, lookups, found, chunks, request, results, raced, restarts>>

MainStep == Offchain \/ LookUpEndpoint \/ AskCoordinator \/ StartChunks \/ Return

ChunkStep(c) ==
    \/ AcquireSemaphore(c) \/ RetryOrGiveUp(c) \/ ContractAnswers(c)
    \/ ReadResults(c) \/ AppendResults(c)

-----------------------------------------------------------------------------
BatchInit(b) ==
    /\ batch = b /\ phase = "offchain" /\ valid = <<>> /\ lookups = {} /\ found = {}
    /\ chunks = <<>> /\ request = [c \in Caller |-> NoRequest] /\ results = {} /\ raced = FALSE

Init ==
    /\ LimiterInit /\ restarts = 0
    /\ \E b \in Batches : BatchInit(b)

\* The node stops and starts again, with another call of BatchValidate.
RestartNode ==
    /\ restarts < MaxRestarts
    /\ restarts' = restarts + 1
    /\ Restart
    /\ phase' = "offchain" /\ valid' = <<>> /\ lookups' = {} /\ found' = {}
    /\ chunks' = <<>> /\ request' = [c \in Caller |-> NoRequest] /\ results' = {} /\ raced' = FALSE
    /\ UNCHANGED batch

LimiterGoroutines ==
    /\ Midnight \/ ResetGrants \/ StoreCheckpoint
    /\ UNCHANGED <<batchVars, restarts>>

Next ==
    \/ LimiterGoroutines \/ RestartNode
    \/ MainStep
    \/ \E c \in Caller : AskLimiter(c) \/ SendRequest(c) \/ ChunkStep(c)

Spec == Init /\ [][Next]_vars

\* Goroutines run, and a request is answered or times out.
FairSpec ==
    /\ Spec
    /\ WF_vars(MainStep)
    /\ \A c \in Caller : WF_vars(AskLimiter(c) \/ SendRequest(c) \/ ChunkStep(c))

-----------------------------------------------------------------------------
(***************************************************************************)
(* BatchValidate returns, whatever is retried or given up, and no order is *)
(* both accepted and rejected, or rejected for two reasons or for none     *)
(* that has a code.  When no two goroutines have appended at the same      *)
(* time, every order of the batch has its result: "An order is `Rejected`  *)
(* if it does not satisfy these conditions OR if we were unable to         *)
(* complete the validation process for whatever reason".                   *)
(***************************************************************************)
EveryOrderAnswered ==
    /\ <>(phase = "done")
    /\ [](\A e, f \in results : e.order = f.order => e = f)
    /\ [](\A e \in results : e.accepted \/ e.status \in RejectedOrderStatus)
    /\ [](phase = "done" /\ ~raced => {e.order : e \in results} = ToSet(batch))

Payload(orders) == jsonRPCPayloadByteLength + FoldLeft(LAMBDA n, o : n + o.size, 0, orders)

(***************************************************************************)
(* The chunks are the valid orders in their order, each request is shorter *)
(* than maxRequestContentLength, and no chunk could take the next order:   *)
(* the greedy split sends as few requests as possible.                     *)
(***************************************************************************)
ChunksFit ==
    phase = "chunks" =>
        /\ FlattenSeq(chunks) = valid
        /\ \A i \in DOMAIN chunks : Payload(chunks[i]) < maxRequestContentLength
        /\ \A i \in 1..Len(chunks) - 1 :
              Payload(chunks[i]) + chunks[i + 1][1].size >= maxRequestContentLength
=============================================================================
