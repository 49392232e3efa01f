------------------------------ MODULE Streams -------------------------------
(***************************************************************************)
(* The feed of order events and the RPC subscriptions that forward it to   *)
(* clients: event.Feed, whose Send waits for every subscriber, and the     *)
(* goroutine of SetupOrderStream for each client.                          *)
(***************************************************************************)
EXTENDS Naturals, Sequences

CONSTANTS
    Client,
    orderEventsBufferSize,
    NoWorker

VARIABLES
    history,     \* the events sent so far (no part of the program)
    sender,      \* the goroutine in orderFeed.Send
    undelivered, \* the subscriptions it has still to send to
    stream       \* SetupOrderStream for each client

streamVars == <<history, sender, undelivered, stream>>

\* "requested": the client has its subscription ID, but the goroutine has not
\* subscribed to the feed yet.
Stream(state, gone, chan, got, from) == [state |-> state, gone |-> gone, chan |-> chan, got |-> got, from |-> from]
NoStream == Stream("none", FALSE, <<>>, <<>>, 0)
Streaming == {c \in Client : stream[c].state = "open"}

Set(c, s) == stream' = [stream EXCEPT ![c] = s]

SubscribeToOrders(c) ==
    /\ stream[c].state = "none"
    /\ Set(c, Stream("requested", FALSE, <<>>, <<>>, 0))
    /\ UNCHANGED <<history, sender, undelivered>>

\* SubscribeToOrderEvents.  A Send under way does not see the new subscription.
OpenStream(c) ==
    /\ stream[c].state = "requested"
    /\ Set(c, Stream("open", stream[c].gone, <<>>, <<>>, Len(history)))
    /\ UNCHANGED <<history, sender, undelivered>>

Disconnect(c) ==
    /\ stream[c].state \in {"requested", "open"} /\ ~stream[c].gone
    /\ LET s == stream[c] IN Set(c, Stream(s.state, TRUE, s.chan, s.got, s.from))
    /\ UNCHANGED <<history, sender, undelivered>>

\* Mutant: the goroutine ends without the deferred Unsubscribe.
EndWithoutUnsubscribe(c) ==
    /\ Set(c, Stream("ended", TRUE, stream[c].chan, <<>>, 0))
    /\ UNCHANGED <<history, sender, undelivered>>

\* The goroutine returns, and Unsubscribe takes its channel out of a Send.
EndStream(c) ==
    /\ Set(c, Stream("ended", TRUE, <<>>, <<>>, 0))
    /\ undelivered' = undelivered \ {c}
    /\ UNCHANGED <<history, sender>>

\* Notify writes to the connection.  It returns a net.OpError after a time-out,
\* and other errors are logged only: the events are lost with the connection.
Notify(c) ==
    LET s == stream[c]
        got == IF s.gone THEN s.got ELSE Append(s.got, Head(s.chan))
    IN  /\ s.state = "open" /\ s.chan # <<>>
        /\ \/ /\ Set(c, Stream("open", s.gone, Tail(s.chan), got, s.from))
              /\ UNCHANGED <<history, sender, undelivered>>
           \/ EndStream(c)

\* rpcSub.Err or notifier.Closed, which the select may take before or after
\* events that are waiting.
StreamClosed(c) ==
    /\ stream[c].state = "open" /\ stream[c].gone
    /\ EndStream(c)

-----------------------------------------------------------------------------
\* event.Feed (external): one Send at a time, to those subscribed when it began.
StartSend(w, event) ==
    /\ sender = NoWorker
    /\ sender' = w /\ undelivered' = Streaming /\ history' = Append(history, event)
    /\ UNCHANGED stream

Fill(c) ==
    LET s == stream[c] IN Set(c, Stream(s.state, s.gone, Append(s.chan, history[Len(history)]), s.got, s.from))

\* Mutant: events for a full channel are dropped.
DeliverOrDrop(c) ==
    /\ c \in undelivered
    /\ IF Len(stream[c].chan) < orderEventsBufferSize THEN Fill(c) ELSE UNCHANGED stream
    /\ undelivered' = undelivered \ {c}
    /\ UNCHANGED <<history, sender>>

Deliver(c) ==
    /\ c \in undelivered /\ Len(stream[c].chan) < orderEventsBufferSize
    /\ Fill(c)
    /\ undelivered' = undelivered \ {c}
    /\ UNCHANGED <<history, sender>>

EndSend(w) ==
    /\ sender = w /\ undelivered = {}
    /\ sender' = NoWorker
    /\ UNCHANGED <<history, undelivered, stream>>

StreamStep(c) == OpenStream(c) \/ Notify(c) \/ StreamClosed(c)

StreamsInit ==
    /\ history = <<>> /\ sender = NoWorker /\ undelivered = {}
    /\ stream = [c \in Client |-> NoStream]

\* What a client has been sent and has still to be sent are the events since its
\* subscription, all of them and in the order of the feed, but for the one that
\* is being delivered: SetupOrderStream neither drops nor reorders events while
\* the client is connected, however slow it is.
StreamsMissNothing ==
    \A c \in Streaming : ~stream[c].gone =>
        stream[c].got \o stream[c].chan =
            SubSeq(history, stream[c].from + 1, Len(history) - (IF c \in undelivered THEN 1 ELSE 0))
=============================================================================
