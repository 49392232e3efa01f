---------------------------- MODULE GossipProofs -----------------------------
(***************************************************************************)
(* The way of an order through a node, for every set of peers, orders and  *)
(* clients: no client that stays connected misses an event, whatever the   *)
(* sizes of the buffers; the orders an event is about are found; and the   *)
(* limits on messages bound what one peer can use up.                      *)
(***************************************************************************)
EXTENDS Gossip, SequenceTheorems, TLAPS

(* The streams of the RPC clients *)

\* What events are does not matter, only that they come in sequence.
IsSeq(s) == \E S : s \in Seq(S)

\* got, then chan, are the events of h after the first from, but for the last one
\* while it is being delivered.
Aligned(s, h, pending) ==
    /\ Len(s.got) + Len(s.chan) = Len(h) - s.from - (IF pending THEN 1 ELSE 0)
    /\ \A i \in 1 .. Len(s.got) : s.got[i] = h[s.from + i]
    /\ \A i \in 1 .. Len(s.chan) : s.chan[i] = h[s.from + Len(s.got) + i]

IsStream(s) ==
    /\ IsSeq(s.chan) /\ IsSeq(s.got) /\ s.from \in Nat

\* A Send is under way while there is someone to deliver to, and then the event
\* that is being delivered came after they subscribed.
StreamsInv ==
    /\ IsSeq(history)
    /\ DOMAIN stream = Client /\ stream = [c \in Client |-> stream[c]]
    /\ \A c \in Client : IsStream(stream[c])
    /\ undelivered \subseteq Streaming
    /\ sender = NoWorker => undelivered = {}
    /\ \A c \in Streaming : ~stream[c].gone => Aligned(stream[c], history, c \in undelivered)

\* An event more.
LEMMA AppendSeq ==
    ASSUME NEW s, IsSeq(s), NEW e
    PROVE  /\ IsSeq(Append(s, e)) /\ Len(s) \in Nat /\ Len(Append(s, e)) = Len(s) + 1
           /\ \A i \in 1 .. Len(s) : Append(s, e)[i] = s[i]
           /\ Append(s, e)[Len(s) + 1] = e
  <1>1. PICK S : s \in Seq(S)
    BY DEF IsSeq
  <1> DEFINE T == S \cup {e}
  <1>2. s \in Seq(T) /\ e \in T
    BY <1>1
  <1>3. Append(s, e) \in Seq(T)
    BY <1>2
  <1> QED
    BY <1>2, <1>3 DEF IsSeq

\* An event less.
LEMMA TailSeq ==
    ASSUME NEW s, IsSeq(s), s # <<>>
    PROVE  /\ IsSeq(Tail(s)) /\ Len(s) \in Nat \ {0} /\ Len(Tail(s)) = Len(s) - 1
           /\ \A i \in 1 .. Len(Tail(s)) : Tail(s)[i] = s[i + 1]
           /\ Head(s) = s[1]
  <1>1. PICK S : s \in Seq(S)
    BY DEF IsSeq
  <1>2. Tail(s) \in Seq(S)
    BY <1>1
  <1> QED
    BY <1>1, <1>2 DEF IsSeq

\* No events.
LEMMA NoEvents == IsSeq(<<>>) /\ Len(<<>>) = 0
  <1>1. <<>> \in Seq({})
    OBVIOUS
  <1> QED
    BY <1>1 DEF IsSeq

\* Two sequences that continue each other in h make a part of h.
LEMMA JoinedPart ==
    ASSUME NEW U, NEW g \in Seq(U), NEW q \in Seq(U), NEW h \in Seq(U), NEW f \in Nat, NEW n \in Int,
           n <= Len(h), Len(g) + Len(q) = n - f,
           \A i \in 1 .. Len(g) : g[i] = h[f + i],
           \A i \in 1 .. Len(q) : q[i] = h[f + Len(g) + i]
    PROVE  g \o q = SubSeq(h, f + 1, n)
  <1> DEFINE both == g \o q
             part == SubSeq(h, f + 1, n)
  <1>1. Len(g) \in Nat /\ Len(q) \in Nat /\ Len(h) \in Nat
    OBVIOUS
  <1>2. /\ both \in Seq(U) /\ Len(both) = Len(g) + Len(q)
        /\ \A i \in 1 .. Len(g) + Len(q) : both[i] = IF i <= Len(g) THEN g[i] ELSE q[i - Len(g)]
    BY ConcatProperties
  <1>3. \A i \in f + 1 .. n : h[i] \in U
    BY <1>1
  <1>4. /\ part \in Seq(U) /\ Len(part) = (IF f + 1 <= n THEN n - (f + 1) + 1 ELSE 0)
        /\ \A i \in 1 .. n - (f + 1) + 1 : part[i] = h[f + 1 + i - 1]
    BY <1>3, SubSeqProperties
  <1>5. Len(part) = Len(both)
    BY <1>1, <1>2, <1>4
  <1>6. ASSUME NEW i \in 1 .. Len(both) PROVE both[i] = part[i]
    <2>1. part[i] = h[f + i]
      BY <1>1, <1>2, <1>4
    <2>2. CASE i <= Len(g)
      BY <2>1, <2>2, <1>1, <1>2
    <2>3. CASE i > Len(g)
      <3>1. both[i] = q[i - Len(g)] /\ i - Len(g) \in 1 .. Len(q)
        BY <2>3, <1>1, <1>2
      <3>2. q[i - Len(g)] = h[f + Len(g) + (i - Len(g))]
        BY <3>1
      <3> QED
        BY <2>1, <3>1, <3>2, <1>1
    <2> QED
      BY <2>2, <2>3, <1>1, <1>2
  <1> HIDE DEF both, part
  <1>7. both = part
    BY <1>2, <1>4, <1>5, <1>6, SeqEqual
  <1> QED
    BY <1>7 DEF both, part

\* What the property says of one stream follows from the alignment.
LEMMA AlignedEnough ==
    ASSUME NEW s, IsStream(s), NEW h, IsSeq(h), NEW d \in {0, 1},
           Len(s.got) + Len(s.chan) = Len(h) - s.from - d,
           \A i \in 1 .. Len(s.got) : s.got[i] = h[s.from + i],
           \A i \in 1 .. Len(s.chan) : s.chan[i] = h[s.from + Len(s.got) + i]
    PROVE  s.got \o s.chan = SubSeq(h, s.from + 1, Len(h) - d)
  <1>1. PICK G, C, H : s.got \in Seq(G) /\ s.chan \in Seq(C) /\ h \in Seq(H)
    BY DEF IsStream, IsSeq
  <1> DEFINE U == G \cup C \cup H
             n == Len(h) - d
             g == s.got
             q == s.chan
             f == s.from
  <1>2. g \in Seq(U) /\ q \in Seq(U) /\ h \in Seq(U) /\ f \in Nat
    BY <1>1 DEF IsStream
  <1>3. Len(h) \in Nat
    BY <1>1
  <1>4. n \in Int /\ n <= Len(h)
    BY <1>3
  <1>5. n - f = Len(h) - f - d
    BY <1>2, <1>3
  <1>6. /\ Len(g) + Len(q) = n - f
        /\ \A i \in 1 .. Len(g) : g[i] = h[f + i]
        /\ \A i \in 1 .. Len(q) : q[i] = h[f + Len(g) + i]
    BY <1>5, Zenon
  <1> HIDE DEF U, n, g, q, f
  <1>7. g \o q = SubSeq(h, f + 1, n)
    BY <1>2, <1>4, <1>6, JoinedPart
  <1> QED
    BY <1>7 DEF n, g, q, f

-----------------------------------------------------------------------------
\* The stream of one client changes, and perhaps it no longer waits for the event
\* that is being delivered.
LEMMA OneStreamChanges ==
    ASSUME StreamsInv, NEW c \in Client, NEW s, IsStream(s), Set(c, s), UNCHANGED <<history, sender>>,
           undelivered' \in {undelivered, undelivered \ {c}},
           c \in undelivered' => s.state = "open",
           s.state = "open" /\ ~s.gone => Aligned(s, history, c \in undelivered')
    PROVE  StreamsInv'
  <1>1. stream' = [stream EXCEPT ![c] = s]
    BY DEF Set
  <1>2. stream'[c] = s /\ \A d \in Client \ {c} : stream'[d] = stream[d]
    BY <1>1 DEF StreamsInv
  <1>3. DOMAIN stream' = Client /\ stream' = [d \in Client |-> stream'[d]]
    BY <1>1 DEF StreamsInv
  <1>4. \A d \in Client : IsStream(stream'[d])
    BY <1>2 DEF StreamsInv
  <1>5. \A d \in Client \ {c} : (d \in undelivered') <=> (d \in undelivered)
    OBVIOUS
  <1>6. undelivered' \subseteq Streaming'
    BY <1>2, <1>5 DEF StreamsInv, Streaming
  <1>7. sender' = NoWorker => undelivered' = {}
    BY DEF StreamsInv
  <1>8. ASSUME NEW d \in Streaming', ~stream'[d].gone
        PROVE  Aligned(stream'[d], history', d \in undelivered')
    <2>1. CASE d = c
      BY <2>1, <1>2, <1>8 DEF Streaming
    <2>2. CASE d # c
      <3>1. d \in Streaming /\ ~stream[d].gone /\ stream'[d] = stream[d]
        BY <2>2, <1>2, <1>8 DEF Streaming
      <3>2. Aligned(stream[d], history, d \in undelivered)
        BY <3>1 DEF StreamsInv
      <3>3. (d \in undelivered') = (d \in undelivered)
        BY <2>2, <1>5, <3>1 DEF Streaming
      <3> QED
        BY <3>1, <3>2, <3>3, Zenon DEF Aligned
    <2> QED
      BY <2>1, <2>2
  <1>9. IsSeq(history)'
    BY DEF StreamsInv, IsSeq
  <1> QED
    BY <1>3, <1>4, <1>6, <1>7, <1>8, <1>9 DEF StreamsInv

\* A client asks for a subscription: nothing is owed to it yet.
LEMMA SubscribeKeeps ==
    ASSUME StreamsInv, NEW c \in Client, SubscribeToOrders(c)
    PROVE  StreamsInv'
  <1> DEFINE s == Stream("requested", FALSE, <<>>, <<>>, 0)
  <1>1. Set(c, s) /\ UNCHANGED <<history, sender, undelivered>>
    BY Zenon DEF SubscribeToOrders
  <1>2. c \notin undelivered
    BY DEF SubscribeToOrders, StreamsInv, Streaming
  <1>3. s.state = "requested" /\ s.chan = <<>> /\ s.got = <<>> /\ s.from = 0
    BY DEF Stream
  <1> HIDE DEF s
  <1>4. IsStream(s)
    BY <1>3, NoEvents DEF IsStream
  <1> QED
    BY <1>1, <1>2, <1>3, <1>4, OneStreamChanges

\* The first event for a new subscription is the next one that is sent.
LEMMA OpenKeeps ==
    ASSUME StreamsInv, NEW c \in Client, OpenStream(c)
    PROVE  StreamsInv'
  <1> DEFINE s == Stream("open", stream[c].gone, <<>>, <<>>, Len(history))
  <1>1. Set(c, s) /\ UNCHANGED <<history, sender, undelivered>>
    BY DEF OpenStream
  <1>2. c \notin undelivered
    BY Zenon DEF OpenStream, StreamsInv, Streaming
  <1>3. Len(history) \in Nat
    BY AppendSeq, Zenon DEF StreamsInv
  <1>4. s.chan = <<>> /\ s.got = <<>> /\ s.from = Len(history)
    BY DEF Stream
  <1>5. s.state = "open"
    BY DEF Stream
  <1> HIDE DEF s
  <1>6. IsStream(s)
    BY <1>3, <1>4, NoEvents DEF IsStream
  <1>7. c \notin undelivered'
    BY <1>1, <1>2
  <1>8. Aligned(s, history, c \in undelivered')
    <2>1. Len(s.got) = 0 /\ Len(s.chan) = 0
      BY <1>4, NoEvents
    <2>2. 0 + 0 = Len(history) - Len(history) - 0
      BY <1>3
    <2>3. Len(s.got) + Len(s.chan) = Len(history) - s.from - (IF c \in undelivered' THEN 1 ELSE 0)
      BY <2>1, <2>2, <1>4, <1>7, Zenon
    <2>4. \A i \in 1 .. 0 : FALSE
      OBVIOUS
    <2> QED
      BY <2>1, <2>3, <2>4 DEF Aligned
  <1> QED
    BY <1>1, <1>5, <1>6, <1>8, <1>7, OneStreamChanges

\* Nothing is said of a client that has gone.
LEMMA DisconnectKeeps ==
    ASSUME StreamsInv, NEW c \in Client, Disconnect(c)
    PROVE  StreamsInv'
  <1> DEFINE o == stream[c]
             s == Stream(o.state, TRUE, o.chan, o.got, o.from)
  <1>1. Set(c, s) /\ UNCHANGED <<history, sender, undelivered>>
    BY Zenon DEF Disconnect
  <1>2. c \in undelivered => o.state = "open"
    BY Zenon DEF StreamsInv, Streaming
  <1>3. s.state = o.state /\ s.chan = o.chan /\ s.got = o.got /\ s.from = o.from
    BY DEF Stream
  <1>4. s.gone
    BY Zenon DEF Stream
  <1>5. IsStream(o)
    BY Zenon DEF StreamsInv
  <1> HIDE DEF s, o
  <1>6. IsStream(s)
    BY <1>3, <1>5 DEF IsStream
  <1> QED
    BY <1>1, <1>2, <1>3, <1>4, <1>6, OneStreamChanges

\* A stream that ends is owed nothing any more.
LEMMA EndKeeps ==
    ASSUME StreamsInv, NEW c \in Client, EndStream(c)
    PROVE  StreamsInv'
  <1> DEFINE s == Stream("ended", TRUE, <<>>, <<>>, 0)
  <1>1. Set(c, s) /\ UNCHANGED <<history, sender>> /\ undelivered' = undelivered \ {c}
    BY Zenon DEF EndStream
  <1>2. s.state = "ended" /\ s.chan = <<>> /\ s.got = <<>> /\ s.from = 0
    BY DEF Stream
  <1> HIDE DEF s
  <1>3. IsStream(s)
    BY <1>2, NoEvents DEF IsStream
  <1> QED
    BY <1>1, <1>2, <1>3, OneStreamChanges

\* The first event of the channel becomes the last one the client has got.
LEMMA NotifyKeeps ==
    ASSUME StreamsInv, NEW c \in Client, Notify(c)
    PROVE  StreamsInv'
  <1> DEFINE o == stream[c]
             got == IF o.gone THEN o.got ELSE Append(o.got, Head(o.chan))
             s == Stream("open", o.gone, Tail(o.chan), got, o.from)
  <1>1. o.state = "open" /\ o.chan # <<>>
    BY DEF Notify
  <1>2. CASE EndStream(c)
    BY <1>2, EndKeeps
  <1>3. CASE Set(c, s) /\ UNCHANGED <<history, sender, undelivered>>
    <2>1. IsStream(o) /\ c \in Streaming
      BY <1>1, Zenon DEF StreamsInv, Streaming
    <2>2. /\ IsSeq(Tail(o.chan)) /\ Len(o.chan) \in Nat \ {0} /\ Len(Tail(o.chan)) = Len(o.chan) - 1
          /\ \A i \in 1 .. Len(Tail(o.chan)) : Tail(o.chan)[i] = o.chan[i + 1]
          /\ Head(o.chan) = o.chan[1]
      BY <2>1, <1>1, TailSeq DEF IsStream
    <2>3. /\ IsSeq(Append(o.got, Head(o.chan))) /\ Len(o.got) \in Nat
          /\ Len(Append(o.got, Head(o.chan))) = Len(o.got) + 1
          /\ \A i \in 1 .. Len(o.got) : Append(o.got, Head(o.chan))[i] = o.got[i]
          /\ Append(o.got, Head(o.chan))[Len(o.got) + 1] = Head(o.chan)
      BY <2>1, AppendSeq DEF IsStream
    <2>4. s.state = "open" /\ s.chan = Tail(o.chan) /\ s.got = got /\ s.from = o.from
      BY DEF Stream
    <2>5. s.gone = o.gone
      BY DEF Stream
    <2> HIDE DEF s, o
    <2>6. IsStream(s)
      <3>1. IsSeq(got)
        BY <2>1, <2>3 DEF IsStream
      <3> QED
        BY <2>1, <2>2, <2>4, <3>1 DEF IsStream
    <2>7. ASSUME ~o.gone PROVE Aligned(s, history, c \in undelivered)
      <3>1. Aligned(o, history, c \in undelivered)
        BY <2>1, <2>7, Zenon DEF StreamsInv, o
      <3>2. s.got = Append(o.got, Head(o.chan))
        BY <2>4, <2>7
      <3>3. Len(history) \in Nat /\ o.from \in Nat
        BY <2>1, AppendSeq, Zenon DEF StreamsInv, IsStream
      <3>4. Len(s.got) = Len(o.got) + 1 /\ Len(s.chan) = Len(o.chan) - 1
        BY <2>2, <2>3, <2>4, <3>2
      <3>0. Len(o.got) \in Int /\ Len(o.chan) \in Int /\ o.from \in Int
        BY <3>3, <2>2, <2>3
      <3>5. Len(s.got) + Len(s.chan) = Len(o.got) + Len(o.chan)
        <4> DEFINE a == Len(o.got)
                   b == Len(o.chan)
                   x == Len(s.got)
                   y == Len(s.chan)
        <4>1. a \in Int /\ b \in Int /\ x = a + 1 /\ y = b - 1
          BY <3>0, <3>4
        <4> HIDE DEF a, b, x, y
        <4>2. x + y = a + b
          BY <4>1
        <4> QED
          BY <4>2, Zenon DEF a, b, x, y
      <3>6. o.chan[1] = history[o.from + Len(o.got) + 1]
        BY <3>1, <2>2 DEF Aligned
      <3>7. ASSUME NEW i \in 1 .. Len(s.got) PROVE s.got[i] = history[s.from + i]
        <4>1. CASE i = Len(o.got) + 1
          <5>1. s.got[i] = o.chan[1]
            BY <4>1, <3>2, <2>2, <2>3
          <5>2. s.from + i = o.from + Len(o.got) + 1
            BY <4>1, <2>4, <3>3, <2>3
          <5> QED
            BY <5>1, <5>2, <3>6
        <4>2. CASE i # Len(o.got) + 1
          <5>1. i \in 1 .. Len(o.got)
            BY <4>2, <3>4, <2>3
          <5>2. s.got[i] = o.got[i]
            BY <5>1, <3>2, <2>3
          <5> QED
            BY <5>1, <5>2, <3>1, <2>4 DEF Aligned
        <4> QED
          BY <4>1, <4>2
      <3>8. ASSUME NEW i \in 1 .. Len(s.chan) PROVE s.chan[i] = history[s.from + Len(s.got) + i]
        <4>1. i + 1 \in 1 .. Len(o.chan) /\ s.chan[i] = o.chan[i + 1]
          BY <2>2, <2>4
        <4>2. o.chan[i + 1] = history[o.from + Len(o.got) + (i + 1)]
          BY <4>1, <3>1 DEF Aligned
        <4>3. o.from + Len(o.got) + (i + 1) = s.from + Len(s.got) + i
          <5> DEFINE f == o.from
                     a == Len(o.got)
                     x == Len(s.got)
          <5>1. f \in Int /\ a \in Int /\ x = a + 1 /\ s.from = f
            BY <3>0, <3>4, <2>4
          <5> HIDE DEF f, a, x
          <5>2. f + a + (i + 1) = f + x + i
            BY <5>1
          <5> QED
            BY <5>1, <5>2 DEF f, a, x
        <4> QED
          BY <4>1, <4>2, <4>3
      <3> QED
        BY <3>1, <2>4, <3>5, <3>7, <3>8, Zenon DEF Aligned
    <2> QED
      BY <1>1, <1>3, <2>4, <2>5, <2>6, <2>7, OneStreamChanges
  <1> QED
    BY <1>2, <1>3 DEF Notify

\* The event that is being delivered is the next one for the channel.
LEMMA DeliverKeeps ==
    ASSUME StreamsInv, NEW c \in Client, Deliver(c)
    PROVE  StreamsInv'
  <1> DEFINE o == stream[c]
             e == history[Len(history)]
             s == Stream(o.state, o.gone, Append(o.chan, e), o.got, o.from)
  <1>1. Set(c, s) /\ UNCHANGED <<history, sender>> /\ undelivered' = undelivered \ {c} /\ c \in undelivered
    BY DEF Deliver, Fill
  <1>2. IsStream(o) /\ c \in Streaming /\ o.state = "open"
    BY <1>1 DEF StreamsInv, Streaming
  <1>3. s.state = o.state /\ s.chan = Append(o.chan, e) /\ s.got = o.got /\ s.from = o.from
    BY DEF Stream
  <1>4. s.gone = o.gone
    BY DEF Stream
  <1>5. ASSUME ~o.gone PROVE Aligned(o, history, c \in undelivered)
    BY <1>2, <1>5, Zenon DEF StreamsInv
  <1> HIDE DEF s, o
  <1>6. /\ IsSeq(s.chan) /\ Len(o.chan) \in Nat /\ Len(s.chan) = Len(o.chan) + 1
        /\ \A i \in 1 .. Len(o.chan) : s.chan[i] = o.chan[i]
        /\ s.chan[Len(o.chan) + 1] = e
    BY <1>2, <1>3, AppendSeq DEF IsStream
  <1>7. IsStream(s)
    BY <1>2, <1>3, <1>6 DEF IsStream
  <1>8. ASSUME ~o.gone PROVE Aligned(s, history, FALSE)
    <2>1. Len(o.got) \in Nat /\ Len(o.chan) \in Nat /\ o.from \in Nat /\ Len(history) \in Nat
      <3>1. IsSeq(o.got) /\ IsSeq(history) /\ o.from \in Nat
        BY <1>2, Zenon DEF IsStream, StreamsInv
      <3> QED
        BY <3>1, <1>6, AppendSeq
    <2>2. Len(o.got) + Len(o.chan) = Len(history) - o.from - 1
      BY <1>1, <1>5, <1>8, Zenon DEF Aligned
    <2> DEFINE a == Len(o.got)
               b == Len(o.chan)
               f == o.from
               n == Len(history)
    <2>a. a \in Nat /\ b \in Nat /\ f \in Nat /\ n \in Nat /\ a + b = n - f - 1
      BY <2>1, <2>2, Zenon
    <2>b. Len(s.got) = a /\ Len(s.chan) = b + 1 /\ s.from = f
      BY <1>3, <1>6
    <2> HIDE DEF a, b, f, n
    <2>c. a + (b + 1) = n - f - 0 /\ f + a + (b + 1) = n
      BY <2>a
    <2>3. Len(s.got) + Len(s.chan) = Len(history) - s.from - 0
      BY <2>b, <2>c DEF n
    <2>4. \A i \in 1 .. Len(s.got) : s.got[i] = history[s.from + i]
      BY <1>3, <1>5, <1>8, Zenon DEF Aligned
    <2>5. ASSUME NEW i \in 1 .. Len(s.chan) PROVE s.chan[i] = history[s.from + Len(s.got) + i]
      <3>1. CASE i = Len(o.chan) + 1
        <4>1. o.from + Len(o.got) + (Len(o.chan) + 1) = Len(history)
          BY <2>c DEF a, b, f, n
        <4> QED
          BY <3>1, <4>1, <1>3, <1>6
      <3>2. CASE i # Len(o.chan) + 1
        <4>1. i \in 1 .. Len(o.chan)
          BY <3>2, <1>6
        <4> QED
          BY <4>1, <1>3, <1>5, <1>6, <1>8, Zenon DEF Aligned
      <3> QED
        BY <3>1, <3>2
    <2> QED
      BY <2>3, <2>4, <2>5, Zenon DEF Aligned
  <1>9. c \notin undelivered'
    BY <1>1
  <1>10. s.state = "open" /\ ~s.gone => Aligned(s, history, c \in undelivered')
    BY <1>4, <1>8, <1>9, Zenon DEF Aligned
  <1> QED
    BY <1>1, <1>7, <1>9, <1>10, OneStreamChanges

\* A Send begins when none is under way: every stream has all the events so far,
\* and now waits for one more.
LEMMA StartKeeps ==
    ASSUME StreamsInv, NEW w, w # NoWorker, NEW e, StartSend(w, e)
    PROVE  StreamsInv'
  <1>1. undelivered = {} /\ undelivered' = Streaming /\ history' = Append(history, e) /\ sender' = w /\ stream' = stream
    BY DEF StartSend, StreamsInv
  <1>2. sender' # NoWorker
    BY <1>1
  <1>3. Streaming' = Streaming
    BY <1>1 DEF Streaming
  <1>4. /\ IsSeq(history') /\ Len(history) \in Nat /\ Len(history') = Len(history) + 1
        /\ \A i \in 1 .. Len(history) : history'[i] = history[i]
    BY <1>1, AppendSeq DEF StreamsInv
  <1>5. ASSUME NEW c \in Streaming, ~stream[c].gone PROVE Aligned(stream[c], history', TRUE)
    <2> DEFINE o == stream[c]
    <2>1. c \notin undelivered /\ IsStream(o)
      BY <1>1 DEF StreamsInv, Streaming
    <2>2. Aligned(o, history, c \in undelivered)
      BY <1>5, Zenon DEF StreamsInv
    <2> HIDE DEF o
    <2>3. Len(o.got) \in Nat /\ Len(o.chan) \in Nat /\ o.from \in Nat
      BY <2>1, AppendSeq DEF IsStream
    <2>4. Len(o.got) + Len(o.chan) = Len(history) - o.from - 0
      BY <2>1, <2>2, Zenon DEF Aligned
    <2> DEFINE a == Len(o.got)
               b == Len(o.chan)
               f == o.from
               n == Len(history)
    <2>a. a \in Nat /\ b \in Nat /\ f \in Nat /\ n \in Nat /\ a + b = n - f - 0
      BY <2>3, <2>4, <1>4, Zenon
    <2>b. Len(history') = n + 1
      BY <1>4
    <2> HIDE DEF a, b, f, n
    <2>c. /\ a + b = (n + 1) - f - 1
          /\ \A i \in 1 .. a : f + i \in 1 .. n
          /\ \A i \in 1 .. b : f + a + i \in 1 .. n
      BY <2>a
    <2>5. Len(o.got) + Len(o.chan) = Len(history') - o.from - 1
      BY <2>b, <2>c, Zenon DEF a, b, f
    <2>6. ASSUME NEW i \in 1 .. Len(o.got) PROVE o.got[i] = history'[o.from + i]
      <3>1. o.from + i \in 1 .. Len(history)
        BY <2>c DEF a, f, n
      <3> QED
        BY <3>1, <1>4, <2>2 DEF Aligned
    <2>7. ASSUME NEW i \in 1 .. Len(o.chan) PROVE o.chan[i] = history'[o.from + Len(o.got) + i]
      <3>1. o.from + Len(o.got) + i \in 1 .. Len(history)
        BY <2>c DEF a, b, f, n
      <3> QED
        BY <3>1, <1>4, <2>2 DEF Aligned
    <2>8. Aligned(o, history', TRUE)
      BY <2>5, <2>6, <2>7, Zenon DEF Aligned
    <2> QED
      BY <2>8, Zenon DEF o
  <1>6. ASSUME NEW c \in Streaming', ~stream'[c].gone PROVE Aligned(stream'[c], history', c \in undelivered')
    <2>1. c \in Streaming /\ ~stream[c].gone /\ c \in undelivered' /\ stream' = stream
      BY <1>1, <1>3, <1>6
    <2> QED
      BY <2>1, <1>5, Zenon DEF Aligned
  <1>7. \A c \in Client : IsStream(stream'[c])
    BY <1>1 DEF StreamsInv
  <1>8. DOMAIN stream' = Client /\ stream' = [c \in Client |-> stream'[c]]
    BY <1>1 DEF StreamsInv
  <1>9. undelivered' \subseteq Streaming'
    BY <1>1, <1>3
  <1>10. IsSeq(history)'
    BY <1>4 DEF IsSeq
  <1>11. \A c \in Streaming' : ~stream'[c].gone => Aligned(stream'[c], history', c \in undelivered')
    BY <1>6
  <1>12. (sender = NoWorker => undelivered = {})'
    BY <1>2
  <1> HIDE DEF Streaming
  <1> QED
    BY <1>7, <1>8, <1>9, <1>10, <1>11, <1>12 DEF StreamsInv

\* Whatever leaves the streams and the history alone, and delivers nothing.
LEMMA StreamsUntouched ==
    ASSUME StreamsInv, UNCHANGED <<history, undelivered, stream>>, sender' = NoWorker => undelivered = {}
    PROVE  StreamsInv'
  <1>1. history' = history /\ undelivered' = undelivered /\ stream' = stream
    OBVIOUS
  <1>2. Streaming' = Streaming
    BY <1>1 DEF Streaming
  <1>3. IsSeq(history)'
    BY <1>1 DEF StreamsInv
  <1>4. DOMAIN stream' = Client /\ stream' = [c \in Client |-> stream'[c]]
    BY <1>1 DEF StreamsInv
  <1>5. \A c \in Client : IsStream(stream'[c])
    BY <1>1 DEF StreamsInv
  <1>6. undelivered' \subseteq Streaming'
    BY <1>1, <1>2 DEF StreamsInv
  <1>7. (sender = NoWorker => undelivered = {})'
    BY <1>1
  <1>8. \A c \in Streaming' : ~stream'[c].gone => Aligned(stream'[c], history', c \in undelivered')
    BY <1>1, <1>2, Zenon DEF StreamsInv
  <1> QED
    BY <1>3, <1>4, <1>5, <1>6, <1>7, <1>8 DEF StreamsInv

\* Send returns when everyone has got the event.
LEMMA EndSendKeeps ==
    ASSUME StreamsInv, NEW w, EndSend(w)
    PROVE  StreamsInv'
  BY StreamsUntouched DEF EndSend

\* A node that starts has no subscriptions.
LEMMA NoStreams ==
    ASSUME history = <<>>, undelivered = {}, stream = [c \in Client |-> NoStream]
    PROVE  StreamsInv
  <1>1. NoStream.state = "none" /\ NoStream.chan = <<>> /\ NoStream.got = <<>> /\ NoStream.from = 0
    BY DEF NoStream, Stream
  <1>2. IsStream(NoStream)
    BY <1>1, NoEvents DEF IsStream
  <1>3. \A c \in Client : stream[c] = NoStream
    BY Zenon
  <1>4. Streaming = {}
    BY <1>1, <1>3 DEF Streaming
  <1> QED
    BY <1>2, <1>3, <1>4, NoEvents DEF StreamsInv

-----------------------------------------------------------------------------
(* The steps of the node *)

\* Most steps of the node do not touch the streams.
LEMMA OtherSteps ==
    ASSUME NEW a, NEW outcome, NEW trimmed, NEW n, NEW failed, NEW o, NEW state, NEW log, NEW orders, NEW opts,
           NEW p, NEW author, NEW data,
           \/ Check(a) \/ StoreFails(a) \/ Setup(a) \/ EventsSent(a) \/ Store(a, outcome, trimmed)
           \/ ReceiveBatch(n) \/ HandleResults \/ ShareOrder(failed) \/ Answer
           \/ DecodeFails \/ Revalidate(o, state) \/ DeleteStale(o) \/ DeleteStep
           \/ Receive(p, author, data) \/ AddOrders(orders, opts) \/ HandleLog(log) \/ Tick \/ Cancel
           \/ PermanentlyDelete(o) \/ RemoveAssets
    PROVE  UNCHANGED streamVars
  <1>1. CASE Check(a) \/ StoreFails(a)
    BY <1>1 DEF Check, StoreFails
  <1>2. CASE Setup(a) \/ EventsSent(a)
    BY <1>2 DEF Setup, EventsSent
  <1>3. CASE Store(a, outcome, trimmed)
    BY <1>3, Zenon DEF Store
  <1>4. CASE ReceiveBatch(n)
    BY <1>4 DEF ReceiveBatch
  <1>5. CASE HandleResults
    BY <1>5, Zenon DEF HandleResults
  <1>6. CASE ShareOrder(failed) \/ Answer
    BY <1>6 DEF ShareOrder, Answer
  <1>7. CASE DecodeFails \/ Revalidate(o, state)
    BY <1>7 DEF DecodeFails, Revalidate
  <1>8. CASE DeleteStale(o) \/ DeleteStep
    BY <1>8 DEF DeleteStale, DeleteStep
  <1>9. CASE Receive(p, author, data) \/ AddOrders(orders, opts)
    BY <1>9 DEF Receive, AddOrders
  <1>10. CASE HandleLog(log) \/ Tick \/ Cancel
    BY <1>10 DEF HandleLog, Tick, Cancel
  <1>11. CASE PermanentlyDelete(o) \/ RemoveAssets
    BY <1>11, Zenon DEF PermanentlyDelete, RemoveAssets
  <1> QED
    BY <1>1, <1>2, <1>3, <1>4, <1>5, <1>6, <1>7, <1>8, <1>9, <1>10, <1>11

\* Every step of the node keeps the streams in order.
LEMMA NextKeeps ==
    ASSUME StreamsInv, [Next]_vars
    PROVE  StreamsInv'
  <1>0. ASSUME UNCHANGED streamVars PROVE StreamsInv'
    BY <1>0, StreamsUntouched DEF streamVars, StreamsInv
  <1>1. ASSUME NEW a \in Adder, ValidateAndStoreValidOrders(a) PROVE StreamsInv'
    <2>1. CASE SendEvents(a)
      <3>1. a \in Worker
        BY GossipAssumption DEF Adder
      <3>2. a # NoWorker
        BY <3>1, GossipAssumption
      <3> QED
        BY <2>1, <3>2, StartKeeps DEF SendEvents
    <2>2. CASE ~SendEvents(a)
      <3>1. \E outcome, trimmed : Check(a) \/ StoreFails(a) \/ Setup(a) \/ EventsSent(a) \/ Store(a, outcome, trimmed)
        BY <1>1, <2>2 DEF ValidateAndStoreValidOrders
      <3> QED
        BY <3>1, <1>0, OtherSteps
    <2> QED
      BY <2>1, <2>2
  <1>2. CASE Handler
    <2>1. CASE ValidateAndStoreValidOrders("handler")
      BY <2>1, <1>1 DEF Adder
    <2>2. CASE ~ValidateAndStoreValidOrders("handler")
      BY <1>2, <2>2, <1>0, OtherSteps DEF Handler
    <2> QED
      BY <2>1, <2>2
  <1>3. CASE API
    <2>1. CASE ValidateAndStoreValidOrders("api")
      BY <2>1, <1>1 DEF Adder
    <2>2. CASE ~ValidateAndStoreValidOrders("api")
      BY <1>3, <2>2, <1>0, OtherSteps DEF API
    <2> QED
      BY <2>1, <2>2
  <1>4. CASE handleBlockEvents
    <2>1. CASE SendBlockEvents
      <3>1. "blocks" # NoWorker
        BY GossipAssumption
      <3>2. StartSend("blocks", blocks.order) \/ UNCHANGED streamVars
        BY <2>1 DEF SendBlockEvents
      <3> QED
        BY <3>1, <3>2, <1>0, StartKeeps
    <2>2. CASE ~SendBlockEvents
      BY <1>4, <2>2, <1>0, OtherSteps DEF handleBlockEvents
    <2> QED
      BY <2>1, <2>2
  <1>5. CASE Environment
    <2>1. CASE \E c \in Client : Subscription(c)
      BY <2>1, SubscribeKeeps, DisconnectKeeps DEF Subscription
    <2>2. CASE \E filter \in BOOLEAN, trimmed \in Trims : Restart(filter, trimmed)
      <3>1. history' = <<>> /\ undelivered' = {} /\ stream' = [c \in Client |-> NoStream]
        BY <2>2 DEF Restart
      <3>2. (history = <<>> /\ undelivered = {} /\ stream = [c \in Client |-> NoStream] => StreamsInv)'
        BY NoStreams, PTL
      <3> QED
        BY <3>1, <3>2
    <2>3. CASE ~(\E c \in Client : Subscription(c)) /\ ~(\E filter \in BOOLEAN, trimmed \in Trims : Restart(filter, trimmed))
      BY <1>5, <2>3, <1>0, OtherSteps DEF Environment
    <2> QED
      BY <2>1, <2>2, <2>3
  <1>6. CASE Checker
    BY <1>6, <1>0, OtherSteps DEF Checker
  <1>7. CASE Feed
    BY <1>7, DeliverKeeps, EndSendKeeps DEF Feed
  <1>8. ASSUME NEW c \in Client, Streamer(c) PROVE StreamsInv'
    BY <1>8, OpenKeeps, NotifyKeeps, EndKeeps, Zenon DEF Streamer, StreamStep, StreamClosed
  <1>9. CASE UNCHANGED vars
    BY <1>9, <1>0 DEF vars
  <1> QED
    BY <1>2, <1>3, <1>4, <1>5, <1>6, <1>7, <1>8, <1>9 DEF Next

\* No client that stays connected misses an event or gets one out of order,
\* whatever the number of clients and senders and the size of the buffers:
\* SetupOrderStream and event.Feed.
THEOREM ClientsMissNothing == Spec => []StreamsMissNothing
  <1>1. Init => StreamsInv
    BY NoStreams DEF Init, StreamsInit
  <1>2. StreamsInv /\ [Next]_vars => StreamsInv'
    BY NextKeeps
  <1>3. StreamsInv => StreamsMissNothing
    <2> SUFFICES ASSUME StreamsInv, NEW c \in Streaming, ~stream[c].gone
                 PROVE  stream[c].got \o stream[c].chan =
                          SubSeq(history, stream[c].from + 1, Len(history) - (IF c \in undelivered THEN 1 ELSE 0))
      BY Zenon DEF StreamsMissNothing
    <2>1. IsStream(stream[c]) /\ IsSeq(history) /\ Aligned(stream[c], history, c \in undelivered)
      BY DEF StreamsInv, Streaming
    <2> DEFINE d == IF c \in undelivered THEN 1 ELSE 0
               s == stream[c]
    <2>2. d \in {0, 1} /\ IsStream(s) /\ IsSeq(history)
      BY <2>1
    <2>3. /\ Len(s.got) + Len(s.chan) = Len(history) - s.from - d
          /\ \A i \in 1 .. Len(s.got) : s.got[i] = history[s.from + i]
          /\ \A i \in 1 .. Len(s.chan) : s.chan[i] = history[s.from + Len(s.got) + i]
      BY <2>1, Zenon DEF Aligned
    <2> HIDE DEF d, s
    <2>4. s.got \o s.chan = SubSeq(history, s.from + 1, Len(history) - d)
      BY <2>2, <2>3, AlignedEnough, Zenon
    <2> QED
      BY <2>4 DEF d, s
  <1> QED
    BY <1>1, <1>2, <1>3, PTL DEF Spec

-----------------------------------------------------------------------------
(* The orders an event is about are found, for every set of orders, every  *)
(* asset data and every log.                                               *)

\* A query for a token ID finds the index value of that ID, and a query without
\* one finds the values of all IDs.
LEMMA PrefixOfItself ==
    ASSUME NEW n \in TokenID
    PROVE  IsPrefix(Bytes[n], Bytes[n]) /\ IsPrefix(<<>>, Bytes[n]) /\ IsPrefix(<<>>, <<>>)
  <1>1. Bytes[n] \in Seq(Nat)
    BY DispatchAssumption
  <1>2. Len(Bytes[n]) \in Nat
    BY <1>1
  <1>3. SubSeq(<<>>, 1, 0) = <<>> /\ SubSeq(Bytes[n], 1, 0) = <<>>
    BY <1>1
  <1> QED
    BY <1>2, <1>3 DEF IsPrefix

\* The same without a token.
LEMMA EmptyPrefix == IsPrefix(<<>>, <<>>)
  BY DEF IsPrefix

\* An index value of one of its tokens finds an order, be it in the maker asset or
\* in the maker fee asset.
LEMMA IndexFinds ==
    ASSUME NEW o \in Order, NEW leaf \in Tokens(o), NEW a \in singleAssetDatas(leaf),
           NEW id, IsPrefix(id, a.id)
    PROVE  o \in findOrdersByTokenAddressAndTokenID(Maker[o], a.address, id)
  <1>1. leaf \in Range(MakerAssetData[o]) \/ leaf \in Range(MakerFeeAssetData[o])
    BY DEF Tokens
  <1>2. a \in IndexValues(MakerAssetData[o]) \/ a \in IndexValues(MakerFeeAssetData[o])
    BY <1>1 DEF IndexValues
  <1>3. o \in FindOrdersByMaker(MakerAssetData, Maker[o], a.address, id)
            \/ o \in FindOrdersByMaker(MakerFeeAssetData, Maker[o], a.address, id)
    BY <1>2 DEF FindOrdersByMaker
  <1> QED
    BY <1>3 DEF findOrdersByTokenAddressAndTokenID

\* An order that pays with the token of an event without ID is found by its maker
\* and the contract.
LEMMA FindsToken ==
    ASSUME NEW o \in Order, NEW leaf \in Tokens(o), NEW type \in EventTypes, NEW log \in Log,
           type[1] # "Exchange", PaysWith(leaf, type, log)
    PROVE  o \in findOrdersByTokenAddressAndTokenID(Maker[o], log.address, <<>>)
  <1>1. CASE type[1] \in {"ERC20", "Weth"}
    <2> DEFINE a == [address |-> log.address, id |-> <<>>]
    <2>1. a \in singleAssetDatas(leaf)
      BY <1>1 DEF PaysWith, singleAssetDatas
    <2> QED
      BY <2>1, IndexFinds, EmptyPrefix
  <1>2. CASE type[1] \notin {"ERC20", "Weth"}
    <2>1. leaf.name \in {"ERC721", "ERC1155"} /\ leaf.address = log.address /\ leaf.ids # {}
      BY <1>2 DEF PaysWith, EventTypes
    <2>2. PICK n \in leaf.ids : n \in TokenID
      BY <2>1, DispatchAssumption, Zenon
    <2> DEFINE a == [address |-> leaf.address, id |-> Bytes[n]]
    <2>3. a \in singleAssetDatas(leaf)
      BY <2>1, <2>2 DEF singleAssetDatas
    <2> QED
      BY <2>1, <2>2, <2>3, IndexFinds, PrefixOfItself, Zenon
  <1> QED
    BY <1>1, <1>2

\* And one that pays with the very ERC721 token of an event is found by its ID.
LEMMA FindsTokenID ==
    ASSUME NEW o \in Order, NEW leaf \in Tokens(o), NEW type \in EventTypes, NEW log \in Log,
           type \in {<<"ERC721", "Transfer">>, <<"ERC721", "Approval">>}, PaysWith(leaf, type, log)
    PROVE  o \in findOrdersByTokenAddressAndTokenID(Maker[o], log.address, Bytes[log.id])
  <1>1. leaf.name = "ERC721" /\ leaf.address = log.address /\ log.id \in leaf.ids /\ log.id \in TokenID
    BY DispatchAssumption DEF PaysWith
  <1> DEFINE a == [address |-> leaf.address, id |-> Bytes[log.id]]
  <1>2. a \in singleAssetDatas(leaf)
    BY <1>1 DEF singleAssetDatas
  <1> QED
    BY <1>1, <1>2, IndexFinds, PrefixOfItself, Zenon

\* The switch finds every order an event is about.
LEMMA DispatchFinds ==
    ASSUME NEW o \in Order, NEW type \in EventTypes, NEW log \in Log, Depends(o, type, log)
    PROVE  o \in Dispatch(type, log)
  <1>1. CASE type \in {<<"Exchange", "Fill">>, <<"Exchange", "Cancel">>}
    BY <1>1 DEF Depends, Dispatch, ExchangeOrders, findOrder
  <1>2. CASE type = <<"Exchange", "CancelUpTo">>
    <2>1. Maker[o] = log.from /\ Salt[o] <= log.epoch
      BY <1>2 DEF Depends
    <2>2. Salt[o] \in Nat /\ log.epoch \in Nat
      BY DispatchAssumption
    <2>3. o \in FindOrdersByMakerAddressAndMaxSalt(log.from, log.epoch)
      BY <2>1, <2>2 DEF FindOrdersByMakerAddressAndMaxSalt
    <2> QED
      BY <2>3, <1>2 DEF Dispatch, ExchangeOrders, findOrder
  <1>3. CASE type[1] # "Exchange"
    <2>1. PICK leaf \in Tokens(o) : PaysWith(leaf, type, log)
      BY <1>3 DEF Depends
    <2>2. Maker[o] \in Changed(type, log)
      BY <1>3 DEF Depends
    <2>3. CASE type \in {<<"ERC721", "Transfer">>, <<"ERC721", "Approval">>}
      <3>1. o \in findOrdersByTokenAddressAndTokenID(Maker[o], log.address, Bytes[log.id])
        BY <2>1, <2>3, FindsTokenID
      <3> QED
        BY <3>1, <2>2, <2>3 DEF Changed, Dispatch, ERC721Orders, OrdersOf
    <2>4. CASE type \notin {<<"ERC721", "Transfer">>, <<"ERC721", "Approval">>}
      <3>1. o \in findOrdersByTokenAddressAndTokenID(Maker[o], log.address, <<>>)
        BY <2>1, <1>3, FindsToken
      <3> QED
        BY <3>1, <2>2, <2>4, <1>3 DEF Changed, Dispatch, EventTypes, ERC20Orders, ERC721Orders, ERC1155Orders, WethOrders, OrdersOf
    <2> QED
      BY <2>3, <2>4
  <1> QED
    BY <1>1, <1>2, <1>3 DEF EventTypes

\* No order is open that handleBlockEvents would miss for an event it depends on,
\* whatever the orders, their asset data and the logs are: the indexes cover both
\* the maker asset and the fee, a prefix never excludes the ID it is made of, and
\* the salt range includes the epoch.
THEOREM NothingIsLost == Spec => []NoOrderIsLost
  <1>1. Lost = {}
    BY DispatchFinds DEF Lost
  <1>2. NoOrderIsLost
    BY <1>1 DEF NoOrderIsLost
  <1> QED
    BY <1>2, PTL

-----------------------------------------------------------------------------
(* The limits of messages, for every set of peers and all limits.          *)

Bucket == [tokens : Nat, age : Nat]

\* No bucket has more than its burst.  And while all messages that were let pass
\* are those of one peer, the tokens left for all peers are more than the tokens
\* left for that peer.
LimitsInv ==
    /\ limiter \in [Peer -> Bucket] /\ global \in Nat /\ passed \in [Peer -> Nat]
    /\ \A p \in Peer : limiter[p].tokens <= PerPeerBurst
    /\ \A p \in Peer : (\A q \in Peer \ {p} : passed[q] = 0) => global > getOrCreateLimiterForPeer(p).tokens
    /\ OnePeerCannotExhaust

\* Before the first message all buckets are full: New.
LEMMA FullBuckets ==
    ASSUME limiter = [p \in Peer |-> NoLimiter], global = GlobalBurst, verdict = "passed", passed = [p \in Peer |-> 0]
    PROVE  LimitsInv
  <1>1. /\ PerPeerBurst \in Nat /\ GlobalBurst \in Nat /\ peerLimiterCacheTTL \in Nat /\ PerPeerBurst < GlobalBurst
    BY GossipAssumption
  <1>2. NoLimiter \in Bucket /\ NoLimiter.tokens = 0 /\ NoLimiter.age = peerLimiterCacheTTL
    BY <1>1 DEF NoLimiter, Bucket
  <1>3. limiter \in [Peer -> Bucket] /\ global \in Nat /\ passed \in [Peer -> Nat]
    BY <1>1, <1>2
  <1>4. \A p \in Peer : limiter[p].tokens <= PerPeerBurst /\ getOrCreateLimiterForPeer(p).tokens = PerPeerBurst
    BY <1>1, <1>2 DEF getOrCreateLimiterForPeer
  <1> QED
    BY <1>1, <1>3, <1>4 DEF LimitsInv, OnePeerCannotExhaust

\* The bucket of a peer as Validate finds it.
LEMMA BucketFound ==
    ASSUME LimitsInv, NEW p \in Peer
    PROVE  /\ getOrCreateLimiterForPeer(p) \in Bucket
           /\ getOrCreateLimiterForPeer(p).tokens <= PerPeerBurst
           /\ getOrCreateLimiterForPeer(p).age < peerLimiterCacheTTL
  <1>1. PerPeerBurst \in Nat /\ peerLimiterCacheTTL \in Nat /\ peerLimiterCacheTTL > 0
    BY GossipAssumption
  <1>2. limiter[p] \in Bucket /\ limiter[p].tokens <= PerPeerBurst
    BY DEF LimitsInv
  <1> QED
    BY <1>1, <1>2 DEF getOrCreateLimiterForPeer, Bucket

\* A message is let pass, or not.
LEMMA ValidateKeeps ==
    ASSUME LimitsInv, NEW p \in Peer, NEW data, Validate(p, data)
    PROVE  LimitsInv'
  <1> DEFINE l == getOrCreateLimiterForPeer(p)
             left == IF l.tokens # 0 THEN [l EXCEPT !.tokens = @ - 1] ELSE l
  <1>0. CASE UNCHANGED <<limiter, global, passed>> /\ verdict' \in {"closed", "size"}
    BY <1>0 DEF LimitsInv, OnePeerCannotExhaust, getOrCreateLimiterForPeer
  <1>1. CASE /\ limiter' = [limiter EXCEPT ![p] = left]
             /\ passed' = [passed EXCEPT ![p] = IF l.tokens # 0 THEN @ + 1 ELSE @]
             /\ global' = IF l.tokens # 0 /\ global # 0 THEN global - 1 ELSE global
             /\ verdict' = IF l.tokens = 0 THEN "peer" ELSE IF global = 0 THEN "global" ELSE "passed"
    <2>1. /\ limiter \in [Peer -> Bucket] /\ global \in Nat /\ passed \in [Peer -> Nat]
          /\ \A q \in Peer : limiter[q].tokens <= PerPeerBurst
          /\ \A q \in Peer : (\A r \in Peer \ {q} : passed[r] = 0) => global > getOrCreateLimiterForPeer(q).tokens
      BY DEF LimitsInv
    <2>2. l \in Bucket /\ l.tokens \in Nat /\ l.age \in Nat /\ l.tokens <= PerPeerBurst /\ l.age < peerLimiterCacheTTL
      BY BucketFound DEF Bucket
    <2>3. PerPeerBurst \in Nat /\ peerLimiterCacheTTL \in Nat
      BY GossipAssumption
    <2> HIDE DEF l
    <2>4. left \in Bucket /\ left.tokens = (IF l.tokens # 0 THEN l.tokens - 1 ELSE 0) /\ left.age = l.age
      BY <2>2 DEF Bucket
    <2> HIDE DEF left
    <2>5. limiter' \in [Peer -> Bucket] /\ global' \in Nat /\ passed' \in [Peer -> Nat]
      BY <1>1, <2>1, <2>4
    <2>6. \A q \in Peer : limiter'[q].tokens <= PerPeerBurst
      BY <1>1, <2>1, <2>2, <2>3, <2>4
    <2>7. (getOrCreateLimiterForPeer(p))' = left
      BY <1>1, <2>1, <2>2, <2>3, <2>4 DEF getOrCreateLimiterForPeer
    <2>8. \A q \in Peer \ {p} : (getOrCreateLimiterForPeer(q))' = getOrCreateLimiterForPeer(q)
      BY <1>1, <2>1 DEF getOrCreateLimiterForPeer
    <2>9. ASSUME NEW q \in Peer, \A r \in Peer \ {q} : passed'[r] = 0
          PROVE  global' > (getOrCreateLimiterForPeer(q))'.tokens
      <3>1. \A r \in Peer \ {q} : passed[r] = 0
        BY <1>1, <2>1, <2>9
      <3>2. global > getOrCreateLimiterForPeer(q).tokens
        BY <2>1, <3>1
      <3>3. CASE q = p
        BY <1>1, <2>1, <2>2, <2>4, <2>7, <3>2, <3>3 DEF l
      <3>4. CASE q # p
        <4>1. l.tokens = 0
          BY <1>1, <2>1, <2>2, <2>9, <3>4
        <4> QED
          BY <1>1, <2>8, <3>2, <3>4, <4>1
      <3> QED
        BY <3>3, <3>4
    <2>10. (OnePeerCannotExhaust)'
      <3> SUFFICES ASSUME verdict' = "global"
                   PROVE  \E q, r \in Peer : q # r /\ passed'[q] > 0 /\ passed'[r] > 0
        BY DEF OnePeerCannotExhaust
      <3>1. l.tokens # 0 /\ global = 0
        BY <1>1
      <3>2. ~(global > l.tokens)
        BY <2>2, <3>1
      <3>3. PICK q \in Peer \ {p} : passed[q] # 0
        BY <2>1, <3>2 DEF l
      <3>4. passed'[q] > 0 /\ passed'[p] > 0
        BY <1>1, <2>1, <3>1, <3>3
      <3> QED
        BY <3>3, <3>4
    <2> QED
      BY <2>5, <2>6, <2>9, <2>10 DEF LimitsInv
  <1> QED
    BY <1>0, <1>1 DEF Validate

\* Time passes.
LEMMA TickKeeps ==
    ASSUME LimitsInv, Tick
    PROVE  LimitsInv'
  <1>1. /\ PerPeerBurst \in Nat /\ GlobalBurst \in Nat /\ PerPeerLimit \in Nat /\ GlobalLimit \in Nat
        /\ peerLimiterCacheTTL \in Nat /\ PerPeerBurst < GlobalBurst /\ PerPeerBurst <= GlobalLimit
    BY GossipAssumption
  <1>2. /\ limiter \in [Peer -> Bucket] /\ global \in Nat /\ passed \in [Peer -> Nat]
        /\ \A p \in Peer : limiter[p].tokens <= PerPeerBurst
        /\ \A p \in Peer : (\A q \in Peer \ {p} : passed[q] = 0) => global > getOrCreateLimiterForPeer(p).tokens
        /\ OnePeerCannotExhaust
    BY DEF LimitsInv
  <1> DEFINE older(p) == [tokens |-> LessOf(PerPeerBurst, limiter[p].tokens + PerPeerLimit), age |-> limiter[p].age + 1]
             filled(p) == IF limiter[p].age + 1 >= peerLimiterCacheTTL THEN NoLimiter ELSE older(p)
  <1>3. /\ limiter' = [p \in Peer |-> filled(p)] /\ global' = LessOf(GlobalBurst, global + GlobalLimit)
        /\ passed' = passed /\ verdict' = verdict
    BY Zenon DEF Tick
  <1>4. ASSUME NEW p \in Peer
        PROVE  filled(p) \in Bucket /\ filled(p).tokens <= PerPeerBurst
    <2>1. limiter[p].tokens \in Nat /\ limiter[p].age \in Nat
      BY <1>2 DEF Bucket
    <2>2. NoLimiter \in Bucket /\ NoLimiter.tokens <= PerPeerBurst
      BY <1>1 DEF NoLimiter, Bucket
    <2>3. older(p) \in Bucket /\ older(p).tokens <= PerPeerBurst
      BY <1>1, <2>1 DEF LessOf, Bucket
    <2> QED
      BY <2>2, <2>3, Zenon
  <1> HIDE DEF filled
  <1>5. ASSUME NEW p \in Peer
        PROVE  (getOrCreateLimiterForPeer(p))'.tokens \in Nat /\ (getOrCreateLimiterForPeer(p))'.tokens <= PerPeerBurst
    <2>1. limiter'[p] \in Bucket /\ limiter'[p].tokens <= PerPeerBurst
      BY <1>3, <1>4
    <2> QED
      BY <1>1, <2>1 DEF getOrCreateLimiterForPeer, Bucket
  <1>6. ASSUME NEW p \in Peer, \A q \in Peer \ {p} : passed'[q] = 0
        PROVE  global' > (getOrCreateLimiterForPeer(p))'.tokens
    <2>1. global > getOrCreateLimiterForPeer(p).tokens
      BY <1>2, <1>3, <1>6
    <2>2. getOrCreateLimiterForPeer(p).tokens \in Nat
      BY BucketFound DEF Bucket
    <2>3. global' > PerPeerBurst
      BY <1>1, <1>2, <1>3, <2>1, <2>2 DEF LessOf
    <2>4. global' \in Nat
      BY <1>1, <1>2, <1>3 DEF LessOf
    <2> QED
      BY <1>1, <1>5, <2>3, <2>4
  <1>7. limiter' \in [Peer -> Bucket] /\ global' \in Nat /\ passed' \in [Peer -> Nat]
    BY <1>1, <1>2, <1>3, <1>4 DEF LessOf
  <1>8. \A p \in Peer : limiter'[p].tokens <= PerPeerBurst
    BY <1>3, <1>4
  <1>9. (OnePeerCannotExhaust)'
    BY <1>2, <1>3 DEF OnePeerCannotExhaust
  <1> QED
    BY <1>6, <1>7, <1>8, <1>9 DEF LimitsInv

\* Nothing but a message that arrives, the clock and a restart changes the buckets.
LEMMA LimitsUntouched ==
    ASSUME [Next]_vars,
           ~(\E m \in Arrivals : Receive(m.p, m.author, m.data)), ~Tick,
           ~(\E filter \in BOOLEAN, trimmed \in Trims : Restart(filter, trimmed))
    PROVE  UNCHANGED netVars
  <1>1. ASSUME NEW a, ValidateAndStoreValidOrders(a) PROVE UNCHANGED netVars
    BY <1>1, Zenon DEF ValidateAndStoreValidOrders, Check, StoreFails, Setup, SendEvents, EventsSent, Store
  <1>2. CASE Handler
    BY <1>1, <1>2, Zenon DEF Handler, ReceiveBatch, HandleResults
  <1>3. CASE API
    BY <1>1, <1>3 DEF API, ShareOrder, Answer
  <1>4. CASE handleBlockEvents
    BY <1>4, Zenon DEF handleBlockEvents, DecodeFails, Revalidate, DeleteStale, DeleteStep, SendBlockEvents
  <1>5. CASE Environment
    BY <1>5, Zenon DEF Environment, AddOrders, HandleLog, Subscription, Cancel
  <1>6. CASE Checker
    BY <1>6, Zenon DEF Checker, PermanentlyDelete, RemoveAssets
  <1>7. CASE Feed \/ \E c \in Client : Streamer(c)
    BY <1>7 DEF Feed, Streamer
  <1>8. CASE UNCHANGED vars
    BY <1>8 DEF vars
  <1> QED
    BY <1>2, <1>3, <1>4, <1>5, <1>6, <1>7, <1>8 DEF Next

\* Every step of the node keeps the limits.
LEMMA LimitsKept ==
    ASSUME LimitsInv, [Next]_vars
    PROVE  LimitsInv'
  <1>1. CASE \E m \in Arrivals : Receive(m.p, m.author, m.data)
    <2>1. PICK m \in Arrivals : Receive(m.p, m.author, m.data)
      BY <1>1
    <2>2. m.p \in Peer
      BY GossipAssumption
    <2>3. Validate(m.p, m.data)
      BY <2>1 DEF Receive
    <2> QED
      BY <2>2, <2>3, ValidateKeeps
  <1>2. CASE Tick
    BY <1>2, TickKeeps
  <1>3. CASE \E filter \in BOOLEAN, trimmed \in Trims : Restart(filter, trimmed)
    <2>1. /\ limiter' = [p \in Peer |-> NoLimiter] /\ global' = GlobalBurst /\ verdict' = "passed"
          /\ passed' = [p \in Peer |-> 0]
      BY <1>3 DEF Restart
    <2>2. (limiter = [p \in Peer |-> NoLimiter] /\ global = GlobalBurst /\ verdict = "passed"
             /\ passed = [p \in Peer |-> 0] => LimitsInv)'
      BY FullBuckets, PTL
    <2> QED
      BY <2>1, <2>2
  <1>4. CASE UNCHANGED netVars
    BY <1>4 DEF netVars, LimitsInv, OnePeerCannotExhaust, getOrCreateLimiterForPeer
  <1> QED
    BY <1>1, <1>2, <1>3, <1>4, LimitsUntouched

\* A single peer cannot use up the limit that all peers share, whatever the limits
\* and however many peers there are, as long as a bucket of one peer is smaller than
\* the shared one and the shared one fills at least as fast as that: ratevalidator.
THEOREM OnePeerIsLimited == Spec => []OnePeerCannotExhaust
  <1>1. Init => LimitsInv
    BY FullBuckets DEF Init
  <1>2. LimitsInv /\ [Next]_vars => LimitsInv'
    BY LimitsKept
  <1>3. LimitsInv => OnePeerCannotExhaust
    BY DEF LimitsInv
  <1> QED
    BY <1>1, <1>2, <1>3, PTL DEF Spec

=============================================================================
