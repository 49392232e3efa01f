------------------------------- MODULE Gossip -------------------------------
(***************************************************************************)
(* The way of an order through a node: GossipSub messages through the      *)
(* validators and the message handler, orders added by RPC clients, which  *)
(* are shared with peers, the scores of peers, the events that subscribers *)
(* are sent, and the registry of contracts by which later logs find the    *)
(* order again.  ValidateAndStoreValidOrders is as short here as it can be *)
(* without hiding what the callers see; OrderWatcher and Validator have    *)
(* the rest.                                                               *)
(***************************************************************************)
EXTENDS Integers, FiniteSets, Registry, Streams

CONSTANTS
    Peer, Me, Garbage,
    Arrivals,            \* the messages that arrive: from which peer, by whom, what
    Custom,              \* the orders that match the custom filter
    Valid,               \* the orders that are fillable
    Size, Envelope,      \* of an order, and what a message adds to it
    MaxOrderSizeInBytes,
    PerPeerBurst, GlobalBurst, PerPeerLimit, GlobalLimit,
    peerLimiterCacheTTL, maxReceiveBatch,
    Batches,             \* the calls of AddOrders: orders, and whether with options
    Logs,                \* the logs of blocks, with their topics
    maxOrders,
    Budgets              \* bounds on what happens from outside the node, by kind

Adder == {"handler", "api"}
NoLimiter == [tokens |-> 0, age |-> peerLimiterCacheTTL]
IdleCall == [phase |-> "idle", orders |-> <<>>, by |-> <<>>, inserted |-> {}, fresh |-> <<>>, faulty |-> {},
             shared |-> {}, again |-> <<>>]
NoLog == [phase |-> "idle", log |-> <<>>, order |-> <<>>]

ASSUME GossipAssumption ==
    /\ Worker = {"handler", "api", "checker", "blocks"} /\ NoWorker \notin Worker /\ Me \notin Peer
    /\ Custom \subseteq Order /\ Valid \subseteq Order /\ Logs \subseteq Log \X EventSignatures
    /\ Arrivals \subseteq [p : Peer, author : Peer, data : Order \cup {Garbage}]
    /\ Size \in [Order -> Nat] /\ Envelope \in Nat /\ MaxOrderSizeInBytes \in Nat
    /\ {PerPeerBurst, GlobalBurst, PerPeerLimit, GlobalLimit} \subseteq Nat /\ peerLimiterCacheTTL \in Nat \ {0}
    /\ PerPeerBurst < GlobalBurst /\ PerPeerBurst <= GlobalLimit

VARIABLES
    custom,      \* the node has a custom order filter
    cancelled,   \* its context
    budget,      \* how often each kind of input may still happen
    limiter,     \* peerLimiters: the token bucket of each peer, and its age
    global,      \* globalLimiter: its tokens
    verdict,     \* of the validators on the last message
    passed,      \* how many messages of each peer its own limiter has let pass
    sent,        \* what each peer is the author of
    queue,       \* the subscription
    score,       \* of each peer, by tag
    call,        \* HandleMessages, and AddOrders
    stored,      \* "absent", "open" or "removed"
    unfillable,  \* the orders that have been removed at some time
    published,   \* what the node has published: <<topic, order>>
    reported,    \* the new orders in the answer to AddOrders, when there is one
    blocks       \* handleBlockEvents

dbVars == <<stored, unfillable>>
netVars == <<limiter, global, verdict, passed, sent>>
InputKind == {"receive", "tick", "add", "log", "subscribe", "cancel", "restart"}
Input(kind) == budget[kind] > 0 /\ budget' = [budget EXCEPT ![kind] = @ - 1]

envVars == <<custom, cancelled, budget>>
vars == <<envVars, netVars, queue, score, call, dbVars, published, reported, blocks, registryVars, streamVars>>

-----------------------------------------------------------------------------
\* The elements of a sequence that are in S.
Keep(seq, S) ==
    LET kept[i \in 0 .. Len(seq)] ==
            IF i = 0 THEN <<>> ELSE IF seq[i] \in S THEN Append(kept[i - 1], seq[i]) ELSE kept[i - 1]
    IN  kept[Len(seq)]

\* A set of orders in the order in which the database lists them.
Listed(orders) == CHOOSE list \in [1 .. Cardinality(orders) -> orders] : Range(list) = orders

\* Order filters: ValidateOrderJSON and MatchOrderMessageJSON.
Matches(data) == data \in Order /\ (custom => data \in Custom)
MessageSize(data) == IF data \in Order THEN Size[data] + Envelope ELSE Envelope

SubscribeTopic == IF custom THEN "custom" ELSE "default"

\* getPublishTopics.
PublishTopics == IF custom THEN <<"default", "custom">> ELSE <<"default">>

-----------------------------------------------------------------------------
\* ratevalidator.Validate.  A limiter is fetched from the cache, or made again
\* when its entry is older than peerLimiterCacheTTL, in use or not.
getOrCreateLimiterForPeer(p) ==
    IF limiter[p].age >= peerLimiterCacheTTL THEN [tokens |-> PerPeerBurst, age |-> 0] ELSE limiter[p]

\* Mutant: the limit over all peers is taken from first.
ValidateGlobalFirst(p, data) ==
    LET l == getOrCreateLimiterForPeer(p)
    IN  CASE cancelled -> verdict' = "closed" /\ UNCHANGED <<limiter, global, passed>>
          [] ~cancelled /\ MessageSize(data) > MaxOrderSizeInBytes ->
                verdict' = "size" /\ UNCHANGED <<limiter, global, passed>>
          [] OTHER ->
                /\ global' = IF global = 0 THEN 0 ELSE global - 1
                /\ limiter' = [limiter EXCEPT ![p] = IF global # 0 /\ l.tokens # 0 THEN [l EXCEPT !.tokens = @ - 1] ELSE l]
                /\ passed' = [passed EXCEPT ![p] = IF global # 0 /\ l.tokens # 0 THEN @ + 1 ELSE @]
                /\ verdict' = IF global = 0 THEN "global" ELSE IF l.tokens = 0 THEN "peer" ELSE "passed"

Validate(p, data) ==
    LET l == getOrCreateLimiterForPeer(p)
    IN  CASE cancelled -> verdict' = "closed" /\ UNCHANGED <<limiter, global, passed>>
          [] ~cancelled /\ MessageSize(data) > MaxOrderSizeInBytes ->
                verdict' = "size" /\ UNCHANGED <<limiter, global, passed>>
          [] OTHER ->
                /\ limiter' = [limiter EXCEPT ![p] = IF l.tokens # 0 THEN [l EXCEPT !.tokens = @ - 1] ELSE l]
                /\ passed' = [passed EXCEPT ![p] = IF l.tokens # 0 THEN @ + 1 ELSE @]
                /\ global' = IF l.tokens # 0 /\ global # 0 THEN global - 1 ELSE global
                /\ verdict' = IF l.tokens = 0 THEN "peer" ELSE IF global = 0 THEN "global" ELSE "passed"

\* validatorset.Validate: the rate limit, then the filter.
AllPass(valid, data) == valid /\ Matches(data)

\* A message by author arrives from peer p; the validators run before pubsub
\* hands it to the subscription.
Receive(p, author, data) ==
    /\ Input("receive")
    /\ Validate(p, data)
    /\ queue' = IF AllPass(verdict' = "passed", data)
                THEN Append(queue, [from |-> author, data |-> data]) ELSE queue
    /\ sent' = [sent EXCEPT ![author] = IF queue' # queue THEN @ \cup {data} ELSE @]
    /\ UNCHANGED <<custom, cancelled, score, call, dbVars, published, reported, blocks, registryVars, streamVars>>

LessOf(a, b) == IF a < b THEN a ELSE b

\* Time passes: the buckets fill, and the entries of the cache grow old.
Tick ==
    /\ Input("tick")
    /\ global' = LessOf(GlobalBurst, global + GlobalLimit)
    /\ limiter' = [p \in Peer |->
                    IF limiter[p].age + 1 >= peerLimiterCacheTTL THEN NoLimiter
                    ELSE [tokens |-> LessOf(PerPeerBurst, limiter[p].tokens + PerPeerLimit), age |-> limiter[p].age + 1]]
    /\ UNCHANGED <<custom, cancelled, verdict, passed, sent, queue, score, call, dbVars, published, reported,
                   blocks, registryVars, streamVars>>

-----------------------------------------------------------------------------
\* handlePeerScoreEvent.
InvalidMessage(s, p) == [s EXCEPT ![p]["invalid-message"] = @ - 5]
ValidMessage(s, p) == [s EXCEPT ![p]["valid-message"] = 5]

\* The loop of HandleMessages over the batch: only the first message with an
\* order counts.
HandleMessage(h, msg) ==
    CASE MessageSize(msg.data) > MaxOrderSizeInBytes + Envelope \/ msg.data \notin Order ->
            [h EXCEPT !.score = InvalidMessage(@, msg.from)]
      [] msg.data \in DOMAIN h.by -> h
      [] OTHER -> [orders |-> Append(h.orders, msg.data),
                   by |-> [o \in DOMAIN h.by \cup {msg.data} |-> IF o = msg.data THEN msg.from ELSE h.by[o]],
                   score |-> ValidMessage(h.score, msg.from)]

HandleMessages(msgs) ==
    LET h[i \in 0 .. Len(msgs)] ==
            IF i = 0 THEN [orders |-> <<>>, by |-> <<>>, score |-> score] ELSE HandleMessage(h[i - 1], msgs[i])
    IN  h[Len(msgs)]

\* receiveBatch takes what is there until receiveTimeout or maxReceiveBatch, but
\* for the node's own messages; HandleMessages decodes it.
ReceiveBatch(n) ==
    LET others == Keep(SubSeq(queue, 1, n), {msg \in Range(queue) : msg.from # Me})
        h == HandleMessages(others)
    IN  /\ ~cancelled /\ call["handler"].phase = "idle"
        /\ n <= Len(queue) /\ Len(others) <= maxReceiveBatch
        /\ queue' = SubSeq(queue, n + 1, Len(queue))
        /\ score' = h.score
        /\ call' = IF others = <<>> THEN call
                   ELSE [call EXCEPT !["handler"] =
                            [IdleCall EXCEPT !.phase = "check", !.orders = h.orders, !.by = h.by]]
        /\ UNCHANGED <<envVars, netVars, dbVars, published, reported, blocks, registryVars, streamVars>>

\* rpcService.AddOrders and core.AddOrders up to the order watcher: the filter,
\* and no order twice.
RemoveDuplicates(orders) ==
    LET upTo[n \in 0 .. Len(orders)] ==
            IF n = 0 THEN <<>>
            ELSE IF orders[n] \in Range(upTo[n - 1]) THEN upTo[n - 1] ELSE Append(upTo[n - 1], orders[n])
    IN  upTo[Len(orders)]

\* The Go client makes the call again, without options, when it was made with.
AddOrders(orders, opts) ==
    /\ ~cancelled /\ Input("add")
    /\ call["api"].phase = "idle"
    /\ call' = [call EXCEPT !["api"] =
                    [IdleCall EXCEPT !.phase = "check", !.again = IF opts THEN orders ELSE <<>>,
                                     !.orders = RemoveDuplicates(Keep(orders, {o \in Order : Matches(o)}))]]
    /\ reported' = {}
    /\ UNCHANGED <<custom, cancelled, netVars, queue, score, dbVars, published, blocks, registryVars, streamVars>>

-----------------------------------------------------------------------------
\* ValidateAndStoreValidOrders.
Step(a, c) == call' = [call EXCEPT ![a] = c]

\* meshSpecificOrderValidation: an order that is stored is accepted as it is, or
\* rejected if it has been removed.
Check(a) ==
    LET c == call[a]
        Bad(o) == Size[o] > MaxOrderSizeInBytes \/ stored[o] = "removed"
    IN  /\ c.phase = "check"
        /\ Step(a, [c EXCEPT !.phase = "validate",
                            !.faulty = {o \in Range(c.orders) : Bad(o)},
                            !.orders = Keep(@, {o \in Order : ~Bad(o) /\ stored[o] = "absent"})])
        /\ UNCHANGED <<envVars, netVars, queue, score, dbVars, published, reported, blocks, registryVars, streamVars>>

\* The call fails, which ends the node in the message handler's case.
Fail(a) ==
    /\ Step(a, IdleCall)
    /\ cancelled' = (cancelled \/ a = "handler")

\* decreaseMaxExpirationTimeIfNeeded: an order that has to go when the database
\* is full.
Open == {o \in Order : stored[o] = "open"}
Trims ==
    IF Cardinality({o \in Order : stored[o] # "absent"}) + 1 > maxOrders /\ Open # {}
    THEN {<<o>> : o \in Open} ELSE {<<>>}

\* What validation may find: a request that fails rejects any order.
Outcomes(orders) ==
    {f \in [orders -> {"accepted", "rejected", "internal"}] :
        \A o \in orders : f[o] # "internal" => f[o] = (IF o \in Valid THEN "accepted" ELSE "rejected")}

\* With the read lock of handleBlockEventsMu: onchainOrderValidation, then add,
\* which makes room and gives the whole batch up when one of its orders has been
\* stored meanwhile.  The results have them as new all the same.
Store(a, outcome, trimmed) ==
    LET c == call[a]
        new == Keep(c.orders, {o \in Range(c.orders) : outcome[o] = "accepted"})
        left == [o \in Order |-> IF o \in Range(trimmed) THEN "absent" ELSE stored[o]]
        inserted == IF \A o \in Range(new) : left[o] = "absent" THEN new ELSE <<>>
        ops == Ops(trimmed, inserted)
    IN  /\ c.phase = "validate" /\ blocks.phase = "idle" /\ trimmed \in Trims
        /\ stored' = [o \in Order |-> IF o \in Range(inserted) THEN "open" ELSE left[o]]
        /\ BeginWork(a, trimmed, inserted)
        /\ Step(a, [c EXCEPT !.phase = IF ops # <<>> THEN "setup" ELSE IF trimmed \o inserted # <<>> THEN "send" ELSE "results",
                            !.orders = trimmed \o inserted, !.inserted = Range(inserted), !.fresh = new,
                            !.faulty = @ \cup {o \in Range(c.orders) : outcome[o] = "rejected"}])
        /\ UNCHANGED <<envVars, unfillable, netVars, queue, score, published, reported, blocks, streamVars>>

StoreFails(a) ==
    /\ call[a].phase = "validate" /\ blocks.phase = "idle"
    /\ Fail(a)
    /\ UNCHANGED <<custom, budget, netVars, queue, score, dbVars, published, reported, blocks, registryVars, streamVars>>

\* setupInMemoryOrderState for each order, after what trimming has to undo.
Setup(a) ==
    /\ call[a].phase = "setup"
    /\ WorkStep(a)
    /\ IF Head(work[a]).op = "fail" THEN Fail(a)
       ELSE Step(a, [call[a] EXCEPT !.phase = IF work'[a] = <<>> THEN "send" ELSE @]) /\ UNCHANGED cancelled
    /\ UNCHANGED <<custom, budget, netVars, queue, score, dbVars, published, reported, blocks, streamVars>>

\* The events are sent in a goroutine of their own.
SendEvents(a) ==
    /\ call[a].phase = "send"
    /\ StartSend(a, call[a].orders)
    /\ Step(a, [call[a] EXCEPT !.phase = "sending"])
    /\ UNCHANGED <<envVars, netVars, queue, score, dbVars, published, reported, blocks, registryVars>>

\* The call waits for the goroutine or the context.
EventsSent(a) ==
    /\ \/ call[a].phase = "sending" /\ sender # a
       \/ call[a].phase \in {"send", "sending"} /\ cancelled
    /\ Step(a, [call[a] EXCEPT !.phase = "results", !.orders = <<>>, !.inserted = {}])
    /\ UNCHANGED <<envVars, netVars, queue, score, dbVars, published, reported, blocks, registryVars, streamVars>>

\* Mutant: errors of this node count against the peer too.
BlamedForAll(c) == c.faulty \cup (DOMAIN c.by \ Range(c.fresh))

\* The rejected orders for which their authors are to blame.
Blamed(c) == c.faulty

\* The rest of HandleMessages.
HandleResults ==
    LET c == call["handler"]
        By(p, orders) == {o \in orders : c.by[o] = p}
        stars == {p \in Peer : By(p, Range(c.fresh)) # {}}
    IN  /\ c.phase = "results"
        /\ score' = [p \in Peer |->
                        [score[p] EXCEPT !["invalid-message"] = @ - 5 * Cardinality(By(p, Blamed(c))),
                                         !["order-stored"] = IF p \in stars THEN 10 ELSE @]]
        /\ Step("handler", IdleCall)
        /\ UNCHANGED <<envVars, netVars, queue, dbVars, published, reported, blocks, registryVars, streamVars>>

\* Send publishes on every topic and returns the first error.
FirstError(failed) == failed # {}

\* shareOrder: what is published on the topic the node is subscribed to comes
\* back, and so the node is the author.
ShareOrder(failed) ==
    LET c == call["api"]
        o == Head(c.fresh)
        topics == Range(PublishTopics) \ failed
    IN  /\ c.phase = "results" /\ c.fresh # <<>>
        /\ failed \subseteq Range(PublishTopics)
        /\ published' = published \cup {<<topic, o>> : topic \in topics}
        /\ queue' = IF SubscribeTopic \in topics THEN Append(queue, [from |-> Me, data |-> o]) ELSE queue
        /\ Step("api", IF FirstError(failed) THEN IdleCall
                       ELSE [c EXCEPT !.fresh = Tail(@), !.shared = @ \cup {o}])
        /\ UNCHANGED <<envVars, netVars, score, dbVars, reported, blocks, registryVars, streamVars>>

Answer ==
    LET c == call["api"]
    IN  /\ c.phase = "results" /\ c.fresh = <<>>
        /\ reported' = c.shared
        /\ Step("api", IF c.again = <<>> THEN IdleCall
                       ELSE [IdleCall EXCEPT !.phase = "check",
                                             !.orders = RemoveDuplicates(Keep(c.again, {o \in Order : Matches(o)}))])
        /\ UNCHANGED <<envVars, netVars, queue, score, dbVars, published, blocks, registryVars, streamVars>>

-----------------------------------------------------------------------------
\* permanentlyDeleteStaleRemovedOrders.  A transaction of handleBlockEvents keeps
\* others from writing until it commits.
PermanentlyDelete(o) ==
    /\ ~cancelled /\ work["checker"] = <<>> /\ blocks.phase \notin {"found", "delete"}
    /\ stored[o] = "removed"
    /\ stored' = [stored EXCEPT ![o] = "absent"]
    /\ BeginWork("checker", <<o>>, <<>>)
    /\ UNCHANGED <<envVars, netVars, queue, score, call, unfillable, published, reported, blocks, streamVars>>

RemoveAssets ==
    /\ WorkStep("checker")
    /\ cancelled' = (cancelled \/ Head(work["checker"]).op = "fail")
    /\ UNCHANGED <<custom, budget, netVars, queue, score, call, dbVars, published, reported, blocks, streamVars>>

-----------------------------------------------------------------------------
\* handleBlockEvents, for a batch with one log.  It begins when no call has the
\* read lock.
Adding == {a \in Adder : call[a].phase \in {"setup", "send", "sending"}}

HandleLog(log) ==
    LET eventType == FindEventType(log[1].address, log[2])
    IN  /\ ~cancelled /\ Input("log")
        /\ blocks.phase = "idle" /\ Adding = {}
        /\ blocks' = IF Len(eventType) = 1 THEN NoLog ELSE [NoLog EXCEPT !.phase = "found", !.log = log]
        /\ UNCHANGED <<custom, cancelled, netVars, queue, score, call, dbVars, published, reported, registryVars,
                       streamVars>>

Blocks(b) == blocks' = b

\* The address of the log is looked up again.
Decoded == Decode(blocks.log[1].address, blocks.log[2])

\* What the queries of the switch find.
Affected == {o \in Dispatch(Decoded, blocks.log[1]) : stored[o] # "absent"}

\* Only an unsupported event (which a log with other indexed arguments is too) is
\* no reason to stop; and the log may affect no order.
DecodeFails ==
    /\ blocks.phase = "found"
    /\ cancelled' = (cancelled \/ Decoded = <<"untracked">>)
    /\ Blocks(NoLog)
    /\ UNCHANGED <<custom, budget, netVars, queue, score, call, dbVars, published, reported, registryVars, streamVars>>

\* An order that the log affects is validated again, and changes state or not.
\* Its event is sent after the commit.
Revalidate(o, state) ==
    /\ blocks.phase = "found" /\ Len(Decoded) = 2 /\ o \in Affected
    /\ stored' = [stored EXCEPT ![o] = state]
    /\ unfillable' = IF state = "removed" THEN unfillable \cup {o} ELSE unfillable
    /\ Blocks(IF state = stored[o] THEN NoLog ELSE [blocks EXCEPT !.phase = "send", !.order = <<o>>])
    /\ UNCHANGED <<envVars, netVars, queue, score, call, published, reported, registryVars, streamVars>>

\* generateOrderEventsIfChanged deletes an order that has been removed for long;
\* the registry changes before the transaction commits.
DeleteStale(o) ==
    /\ blocks.phase = "found" /\ Len(Decoded) = 2 /\ o \in Affected /\ stored[o] = "removed"
    /\ BeginWork("blocks", <<o>>, <<>>)
    /\ Blocks([blocks EXCEPT !.phase = "delete", !.order = <<o>>])
    /\ UNCHANGED <<envVars, netVars, queue, score, call, dbVars, published, reported, streamVars>>

DeleteStep ==
    /\ blocks.phase = "delete"
    /\ IF work["blocks"] = <<>>
       THEN /\ stored' = [stored EXCEPT ![blocks.order[1]] = "absent"]
            /\ Blocks(NoLog) /\ UNCHANGED <<cancelled, registryVars>>
       ELSE /\ WorkStep("blocks") /\ UNCHANGED stored
            /\ cancelled' = (cancelled \/ Head(work["blocks"]).op = "fail")
            /\ Blocks(IF Head(work["blocks"]).op = "fail" THEN NoLog ELSE blocks)
    /\ UNCHANGED <<custom, budget, netVars, queue, score, call, unfillable, published, reported, streamVars>>

\* Unlike the calls that add orders, block handling waits for every subscriber.
SendBlockEvents ==
    /\ \/ blocks.phase = "send" /\ StartSend("blocks", blocks.order) /\ Blocks([blocks EXCEPT !.phase = "sending"])
       \/ blocks.phase = "sending" /\ sender # "blocks" /\ Blocks(NoLog) /\ UNCHANGED streamVars
    /\ UNCHANGED <<envVars, netVars, queue, score, call, dbVars, published, reported, registryVars>>

-----------------------------------------------------------------------------
NoScore == [p \in Peer |-> [tag \in {"invalid-message", "valid-message", "order-stored"} |-> 0]]

\* The context is cancelled.
Cancel ==
    /\ ~cancelled /\ Input("cancel") /\ cancelled' = TRUE
    /\ UNCHANGED <<custom, netVars, queue, score, call, dbVars, published, reported, blocks, registryVars, streamVars>>

\* The process ends, wherever it is, and a new one starts with what is stored,
\* perhaps with another filter.  A node whose order watcher is not created is
\* down.
Restart(filter, trimmed) ==
    LET left == Listed({o \in Order : stored[o] # "absent" /\ o \notin Range(trimmed)})
    IN  /\ Input("restart")
        /\ trimmed \in Trims
        /\ custom' = filter /\ cancelled' = ~Loads(trimmed, left)
        /\ limiter' = [p \in Peer |-> NoLimiter] /\ global' = GlobalBurst /\ verdict' = "passed"
        /\ passed' = [p \in Peer |-> 0] /\ sent' = [p \in Peer |-> {}]
        /\ queue' = <<>> /\ score' = NoScore /\ call' = [a \in Adder |-> IdleCall]
        /\ stored' = [o \in Order |-> IF o \in Range(trimmed) THEN "absent" ELSE stored[o]]
        /\ published' = {} /\ reported' = {} /\ blocks' = NoLog
        /\ NewRegistry(trimmed, left)
        /\ history' = <<>> /\ sender' = NoWorker /\ undelivered' = {} /\ stream' = [c \in Client |-> NoStream]
        /\ UNCHANGED unfillable

Subscription(c) ==
    /\ Input("subscribe")
    /\ SubscribeToOrders(c) \/ Disconnect(c)
    /\ UNCHANGED <<custom, cancelled, netVars, queue, score, call, dbVars, published, reported, blocks, registryVars>>

Feed ==
    /\ (\E c \in Client : Deliver(c)) \/ (\E w \in Worker : EndSend(w))
    /\ UNCHANGED <<envVars, netVars, queue, score, call, dbVars, published, reported, blocks, registryVars>>

Streamer(c) ==
    /\ StreamStep(c)
    /\ UNCHANGED <<envVars, netVars, queue, score, call, dbVars, published, reported, blocks, registryVars>>

ValidateAndStoreValidOrders(a) ==
    \/ Check(a) \/ StoreFails(a) \/ Setup(a) \/ SendEvents(a) \/ EventsSent(a)
    \/ \E outcome \in Outcomes(Range(call[a].orders)), trimmed \in Trims : Store(a, outcome, trimmed)

Handler ==
    \/ \E n \in 1 .. Len(queue) : ReceiveBatch(n)
    \/ ValidateAndStoreValidOrders("handler")
    \/ HandleResults

API ==
    \/ ValidateAndStoreValidOrders("api")
    \/ \E failed \in SUBSET {"default", "custom"} : ShareOrder(failed)
    \/ Answer

handleBlockEvents ==
    \/ DecodeFails
    \/ \E o \in Order : (\E state \in {"open", "removed"} : Revalidate(o, state)) \/ DeleteStale(o)
    \/ DeleteStep
    \/ SendBlockEvents

Environment ==
    \/ \E m \in Arrivals : Receive(m.p, m.author, m.data)
    \/ \E batch \in Batches : AddOrders(batch.orders, batch.opts)
    \/ \E log \in Logs : HandleLog(log)
    \/ \E c \in Client : Subscription(c)
    \/ Tick \/ Cancel
    \/ \E filter \in BOOLEAN, trimmed \in Trims : Restart(filter, trimmed)

Checker == (\E o \in Order : PermanentlyDelete(o)) \/ RemoveAssets

Init ==
    /\ custom \in BOOLEAN /\ cancelled = FALSE /\ budget \in Budgets
    /\ limiter = [p \in Peer |-> NoLimiter] /\ global = GlobalBurst /\ verdict = "passed"
    /\ passed = [p \in Peer |-> 0] /\ sent = [p \in Peer |-> {}]
    /\ queue = <<>> /\ score = NoScore /\ call = [a \in Adder |-> IdleCall]
    /\ stored = [o \in Order |-> "absent"] /\ unfillable = {}
    /\ published = {} /\ reported = {} /\ blocks = NoLog
    /\ RegistryInit /\ StreamsInit

Next == Environment \/ Handler \/ API \/ handleBlockEvents \/ Checker \/ Feed \/ \E c \in Client : Streamer(c)

\* Each goroutine goes on while it can.  A client that does not read is cut off by
\* the write time-out of its connection.
Spec ==
    /\ Init /\ [][Next]_vars
    /\ WF_vars(Handler) /\ WF_vars(API) /\ WF_vars(handleBlockEvents) /\ WF_vars(Feed)
    /\ \A c \in Client : WF_vars(Streamer(c))

-----------------------------------------------------------------------------
\* The limit over all peers stops a message only after its forwarder and another
\* peer had messages let pass: one peer alone, however much it sends, is stopped
\* by its own limit and cannot use up that of the others.
OnePeerCannotExhaust ==
    verdict = "global" => \E p, q \in Peer : p # q /\ passed[p] > 0 /\ passed[q] > 0

\* A peer's score rises for a stored order only if it is the author of a good one,
\* falls only if it is the author of something that is not or no longer good, and
\* does not rise without bound.
ScoresAreEarned ==
    \A p \in Peer :
        /\ score[p]["order-stored"] > 0 => \E o \in sent[p] : o \in Valid
        /\ score[p]["invalid-message"] < 0 => \E o \in sent[p] : o \notin Valid \/ o \in unfillable
        /\ score[p]["valid-message"] + score[p]["order-stored"] <= 15

BeingSetUp == UNION {call[a].inserted : a \in {b \in Adder : call[b].phase = "setup"}}

\* Every event an open order depends on is recognised for what it is, as long as
\* updates of the registry have not overlapped (and no contract is used as two
\* kinds of token): the count of a contract does not reach zero while an order
\* needs it, whichever orders come and go.
WatchedIsKnown ==
    ~disturbed /\ ~cancelled =>
        \A o \in Open \ BeingSetUp : \A source \in Sources[o] :
            FindEventType(source[1], source[2][2]) = source[2]

\* The queries that handleBlockEvents makes for an event find every open order that
\* may be fillable to another extent after it: the indexes and their prefixes lose
\* none, be it the fee that the event is about, a token ID whose bytes are empty,
\* or a salt that equals the epoch.
NoOrderIsLost == Open \cap Lost = {}

\* Everything stored can be loaded: the order watcher can be created again.
StoredCanBeLoaded == Loads(<<>>, Listed({o \in Order : stored[o] # "absent"}))

\* A call that adds orders returns: no subscriber, however slow, and no block
\* keeps it waiting for good.  And what AddOrders reports as new it has published
\* on every topic the node publishes on.
CallsEnd ==
    /\ \A a \in Adder : call[a].phase # "idle" ~> call[a].phase = "idle"
    /\ [](\A o \in reported, topic \in Range(PublishTopics) : <<topic, o>> \in published)
=============================================================================
