----------------------------- MODULE OrderSync ------------------------------
(***************************************************************************)
(* core/ordersync and the pagination subprotocol of core: a Mesh node (the *)
(* requester) runs PeriodicallyGetOrders, and asks another Mesh node (the  *)
(* provider) for all its orders, page by page, over a stream.  The         *)
(* provider's handler of each stream calls App.GetOrders (Snapshots).      *)
(* Other peers answer the requester in any way, and streams are also       *)
(* opened by foreign software that sends anything.                         *)
(***************************************************************************)
EXTENDS Snapshots

CONSTANTS Matching,    \* the orders that match the filter of both nodes
          Others,      \* the requester's other neighbours
          MinPeers     \* how many peers a round of GetOrders needs

Provider == "provider"
Peers == Others \cup {Provider}
Stream == Caller
Ends == {"requester", "provider"}

VARIABLES
    stream,   \* of each stream: who opened it, which ends are open, messages
    handler,  \* HandleStream of each stream
    service,  \* the requester's PeriodicallyGetOrders
    penalised \* the peers scored down for a message they sent

syncVars == <<stream, handler, service, penalised>>
vars == <<dbVars, snapshotVars, pruner, syncVars>>

\* handlePeerScoreEvent for psInvalidMessage and psSubprotocolNegotiationFailed.
\* The events for a valid message, for received orders and for a disconnection,
\* which the next received orders cancel, are not told apart.
Penalise(peer) == penalised' = penalised \cup {peer}

-----------------------------------------------------------------------------
\* Streams (external: libp2p).  Close closes one end: the other end reads
\* what was sent before it and then EOF.  A message to a closed end is lost,
\* or cannot be written.  A lost connection is no step of its own: it looks
\* like a timeout at each end, which may happen whenever an end waits.
Other(end) == IF end = "requester" THEN "provider" ELSE "requester"

Closed(s, end) == [stream EXCEPT ![s].open = @ \ {end}]
Sent(s, end, m) ==
    [stream EXCEPT ![s].msgs[Other(end)] = IF Other(end) \in stream[s].open THEN {m} ELSE {}]
CanSend(s, end) == end \in stream[s].open
Received(s, end) == [stream EXCEPT ![s].msgs[end] = {}]
Eof(s, end) == stream[s].msgs[end] = {} /\ Other(end) \notin stream[s].open

Opened(s, by) ==
    [stream EXCEPT ![s] = [by |-> by, open |-> Ends, msgs |-> [e \in Ends |-> {}]]]

FirstRequest == [type |-> "request", supported |-> TRUE, parses |-> TRUE, page |-> 0, id |-> NoID]

\* Foreign software opens a stream and sends a request.
ForeignRequest(s) ==
    /\ stream[s].by = "none" /\ \A t \in Stream : t > s => stream[t].by # "none"
    /\ \E m \in {[FirstRequest EXCEPT !.type = "response"], [FirstRequest EXCEPT !.supported = FALSE],
                 [FirstRequest EXCEPT !.parses = FALSE], [FirstRequest EXCEPT !.id = 1]} :
          stream' = [stream EXCEPT ![s] =
              [by |-> "foreign", open |-> Ends, msgs |-> [e \in Ends |-> IF e = "provider" THEN {m} ELSE {}]]]
    /\ handler' = [handler EXCEPT ![s].at = "accept"]
    /\ UNCHANGED <<dbVars, snapshotVars, pruner, service, penalised>>

-----------------------------------------------------------------------------
NoHandler == [at |-> "none", page |-> 0, id |-> NoID]
HandlerClosed == [NoHandler EXCEPT !.at = "closed"]

\* The provider.  HandleStream starts, but the rate limiter does not allow it.
RefuseStream(s) ==
    /\ handler[s].at = "accept"
    /\ handler' = [handler EXCEPT ![s] = HandlerClosed]
    /\ stream' = [stream EXCEPT ![s].open = {}, ![s].msgs = [e \in Ends |-> {}]]
    /\ UNCHANGED <<dbVars, snapshotVars, pruner, service, penalised>>

CloseHandler(s) ==
    /\ handler' = [handler EXCEPT ![s] = HandlerClosed]
    /\ stream' = [Closed(s, "provider") EXCEPT ![s].msgs["provider"] = {}]

\* waitForRequest returns a request, which is checked and parsed.
ReceiveRequest(s) ==
    /\ handler[s].at \in {"accept", "wait"}
    /\ \E m \in stream[s].msgs["provider"] :
        \/ /\ m.type # "request"
           /\ Penalise(stream[s].by)
           /\ CloseHandler(s)
        \/ /\ m.type = "request" /\ ~m.supported
           /\ Penalise(stream[s].by)
           /\ CloseHandler(s)
        \/ /\ m.type = "request" /\ m.supported /\ ~m.parses
           /\ CloseHandler(s)
           /\ UNCHANGED penalised
        \/ /\ m.type = "request" /\ m.supported /\ m.parses
           /\ stream' = Received(s, "provider")
           /\ handler' = [handler EXCEPT ![s] = [@ EXCEPT !.at = "call", !.page = m.page, !.id = m.id]]
           /\ UNCHANGED penalised
    /\ UNCHANGED <<dbVars, snapshotVars, pruner, service>>

\* Mutant: a timeout is scored like an invalid message.
PenaliseTimeout(s) ==
    /\ handler[s].at \in {"accept", "wait"}
    /\ Penalise(stream[s].by)
    /\ CloseHandler(s)
    /\ UNCHANGED <<dbVars, snapshotVars, pruner, service>>

\* waitForRequest times out, or the stream has been closed.
RequestFails(s) ==
    /\ handler[s].at \in {"accept", "wait"}
    /\ CloseHandler(s)
    /\ UNCHANGED <<dbVars, snapshotVars, pruner, service, penalised>>

\* HandleOrderSyncRequest asks for the current page, always with the request's
\* own snapshot ID, ...
AskPage(s) ==
    /\ handler[s].at = "call"
    /\ GetOrders(s, handler[s].page, handler[s].id)
    /\ handler' = [handler EXCEPT ![s].at = "paging"]
    /\ UNCHANGED <<dbVars, pruner, stream, service, penalised>>

Response(s) ==
    [orders |-> Found(s) \cap Matching, complete |-> Found(s) = {},
     page |-> handler[s].page, id |-> call[s].id]

\* The response is written, and the stream closed after the last one; or the
\* requester has gone and it cannot be written.
Respond(s, m) ==
    LET written == Sent(s, "provider", m)
        after(at) == [handler EXCEPT ![s] = [NoHandler EXCEPT !.at = at]]
    IN  \/ /\ CanSend(s, "provider") /\ ~m.complete
           /\ stream' = written /\ handler' = after("wait")
        \/ /\ CanSend(s, "provider") /\ m.complete
           /\ stream' = [written EXCEPT ![s].open = @ \ {"provider"}]
           /\ handler' = after("closed")
        \/ /\ Eof(s, "provider")
           /\ CloseHandler(s)

\* Mutant: a page without a match ends the sync.
StopAtUnmatched(s) ==
    /\ handler[s].at = "paging" /\ call[s].at = "query"
    /\ Respond(s, [Response(s) EXCEPT !.complete = Found(s) \cap Matching = {}])
    /\ call' = [call EXCEPT ![s] = Idle]
    /\ UNCHANGED <<dbVars, tree, idToSnapshotInfo, made, pruner, service, penalised>>

\* ... and goes on to the next page while no order of the page matches.
FilterPage(s) ==
    /\ handler[s].at = "paging" /\ call[s].at = "query"
    /\ \/ /\ Found(s) # {} /\ Found(s) \cap Matching = {}
          /\ handler' = [handler EXCEPT ![s].at = "call", ![s].page = @ + 1]
          /\ UNCHANGED stream
       \/ /\ Found(s) = {} \/ Found(s) \cap Matching # {}
          /\ Respond(s, Response(s))
    /\ call' = [call EXCEPT ![s] = Idle]
    /\ UNCHANGED <<dbVars, tree, idToSnapshotInfo, made, pruner, service, penalised>>

\* GetOrders returns an error: no such snapshot, or the database failed.
PageFails(s) ==
    /\ handler[s].at = "paging" /\ call[s].at = "failed"
    /\ CloseHandler(s)
    /\ call' = [call EXCEPT ![s] = Idle]
    /\ UNCHANGED <<dbVars, tree, idToSnapshotInfo, made, pruner, service, penalised>>

HandlerStep(s) ==
    \/ RefuseStream(s) \/ ReceiveRequest(s) \/ RequestFails(s)
    \/ AskPage(s) \/ FilterPage(s) \/ PageFails(s)

-----------------------------------------------------------------------------
\* The requester.  A call of getOrdersFromPeer for the provider: the stream,
\* the next request, what has been received and the page of the first response.
NoSync == [stream |-> 0, page |-> 0, id |-> NoID, received |-> {}, first |-> 0, complete |-> FALSE]

\* GetOrders tries the neighbours in a random order, and starts over after a
\* backoff, without those it has synced with, until there are MinPeers of them.
NextPeer(p) ==
    /\ service.at = "peers" /\ Cardinality(service.synced) < MinPeers
    /\ p \in Peers \ service.synced

\* GetOrders returns; PeriodicallyGetOrders calls it again after a delay.
GetOrdersReturns ==
    /\ service.at = "peers" /\ Cardinality(service.synced) >= MinPeers
    /\ service' = [service EXCEPT !.synced = {}, !.sync = NoSync]
    /\ UNCHANGED <<dbVars, snapshotVars, pruner, stream, handler, penalised>>

\* Another peer: it completes the sync, or fails in some way.
SyncWithOther(p) ==
    /\ NextPeer(p) /\ p \in Others
    /\ \E result \in {{}, {p}} :
          service' = [service EXCEPT !.synced = @ \cup result, !.sync = NoSync]
    /\ UNCHANGED <<dbVars, snapshotVars, pruner, stream, handler, penalised>>

\* getOrdersFromPeer opens a stream to the provider, or cannot.
OpenStream ==
    /\ NextPeer(Provider)
    /\ \/ \E s \in Stream :
            /\ stream[s].by = "none"
            /\ \A t \in Stream : t < s => stream[t].by # "none"
            /\ stream' = Opened(s, "requester")
            /\ handler' = [handler EXCEPT ![s].at = "accept"]
            /\ service' = [service EXCEPT !.at = "send",
                                          !.sync = [NoSync EXCEPT !.stream = s]]
       \/ /\ service' = [service EXCEPT !.sync = NoSync]
          /\ UNCHANGED <<stream, handler>>
    /\ UNCHANGED <<dbVars, snapshotVars, pruner, penalised>>

ReturnFailed ==
    /\ service' = [service EXCEPT !.at = "peers", !.sync = NoSync]
    /\ stream' = [Closed(service.sync.stream, "requester")
                    EXCEPT ![service.sync.stream].msgs["requester"] = {}]

SendRequest ==
    LET s == service.sync.stream
        m == [FirstRequest EXCEPT !.page = service.sync.page, !.id = service.sync.id]
    IN  /\ service.at = "send"
        /\ \/ /\ CanSend(s, "requester")
              /\ stream' = Sent(s, "requester", m)
              /\ service' = [service EXCEPT !.at = "await"]
           \/ /\ ~CanSend(s, "requester") \/ Eof(s, "requester")
              /\ ReturnFailed
        /\ UNCHANGED <<dbVars, snapshotVars, pruner, handler, penalised>>

\* HandleOrderSyncResponse: the orders are stored, the next page is asked for.
Handled(sync, m) ==
    [sync EXCEPT !.received = @ \cup m.orders, !.first = IF sync.id = NoID THEN m.page ELSE @,
                 !.id = m.id, !.page = m.page + 1]

\* waitForResponse returns a response, which may be the last one.
ReceiveResponse ==
    LET s == service.sync.stream
    IN  /\ service.at = "await"
        /\ \E m \in stream[s].msgs["requester"] :
            \/ /\ m.complete
               /\ service' = [service EXCEPT
                     !.at = "peers", !.synced = @ \cup {Provider},
                     !.sync = [Handled(@, m) EXCEPT !.stream = 0, !.complete = TRUE]]
               /\ stream' = [Received(s, "requester") EXCEPT ![s].open = @ \ {"requester"}]
            \/ /\ ~m.complete
               /\ service' = [service EXCEPT !.at = "send", !.sync = Handled(@, m)]
               /\ stream' = Received(s, "requester")
        /\ UNCHANGED <<dbVars, snapshotVars, pruner, handler, penalised>>

\* Mutant: waitForResponse does not end without a response.
OnlyValidationFails ==
    /\ service.at = "await" /\ stream[service.sync.stream].msgs["requester"] # {}
    /\ ReturnFailed
    /\ UNCHANGED <<dbVars, snapshotVars, pruner, handler, penalised>>

\* waitForResponse times out or meets EOF, or the orders cannot be validated.
ResponseFails ==
    /\ service.at = "await"
    /\ ReturnFailed
    /\ UNCHANGED <<dbVars, snapshotVars, pruner, handler, penalised>>

ServiceStep ==
    \/ GetOrdersReturns \/ OpenStream \/ SendRequest \/ ReceiveResponse
    \/ \E p \in Others : SyncWithOther(p)

-----------------------------------------------------------------------------
Init ==
    /\ SnapshotsInit
    /\ stream = [s \in Stream |-> [by |-> "none", open |-> {}, msgs |-> [e \in Ends |-> {}]]]
    /\ handler = [s \in Stream |-> NoHandler]
    /\ service = [at |-> "peers", synced |-> {}, sync |-> NoSync]
    /\ penalised = {}

Environment ==
    \/ Tick /\ UNCHANGED syncVars
    \/ OrdersChange /\ UNCHANGED syncVars
    \/ \E s \in Stream : ForeignRequest(s)

\* The goroutine that handles a stream, and the one that requests orders; an
\* end that waits for a message gets it or times out.
HandlerGoroutine(s) ==
    \/ HandlerStep(s)
    \/ InsertSnapshot(s) /\ UNCHANGED syncVars

ServiceGoroutine == ServiceStep \/ ResponseFails

Next ==
    \/ Environment
    \/ PrunerStep /\ UNCHANGED syncVars
    \/ ServiceGoroutine
    \/ \E s \in Stream : HandlerGoroutine(s)

Spec == Init /\ [][Next]_vars

\* Goroutines run.  Nothing is assumed of the network, of the clock or of the
\* other peers.
FairSpec ==
    /\ Spec
    /\ WF_vars(ServiceGoroutine)
    /\ \A s \in Stream : WF_vars(HandlerGoroutine(s))

-----------------------------------------------------------------------------
(***************************************************************************)
(* When the subprotocol says that a sync is complete, the requester has    *)
(* received exactly the matching orders of the snapshot the pages came     *)
(* from, except those on the pages before the first one it was sent; no    *)
(* change of the provider's database in between, renewal of the snapshot   *)
(* or sync of another peer loses or adds an order (HandleOrderSyncRequest, *)
(* HandleOrderSyncResponse, GetOrders).                                    *)
(***************************************************************************)
SyncIsComplete ==
    service.sync.complete =>
        service.sync.received = Matching \cap
            UNION {Page(made[service.sync.id], page) : page \in service.sync.first..Cardinality(Order)}

(***************************************************************************)
(* Only foreign software is ever scored down for a message: what a node    *)
(* that runs this code sends is valid, in whatever order timeouts,         *)
(* disconnections and responses happen (HandleStream, getOrdersFromPeer).  *)
(***************************************************************************)
MeshPeersSendValidMessages == penalised \subseteq {"foreign"}

\* Both ends of an exchange come to an end, whatever the peers do:
\* getOrdersFromPeer returns, so that no peer can hold up the other ones, and so
\* do the goroutines of the incoming streams, finitely many here (HandleStream).
ExchangesEnd ==
    /\ service.sync.stream # 0 ~> service.sync.stream = 0
    /\ <>[](\A s \in Stream : handler[s].at \in {"none", "closed"})
=============================================================================
