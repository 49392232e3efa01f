----------------------------- MODULE ScoreProofs -----------------------------
(***************************************************************************)
(* The scores of peers are earned, for every set of peers and orders and   *)
(* whatever is sent: an invariant over the queue of messages, the orders   *)
(* stored and each step of HandleMessages and ValidateAndStoreValidOrders. *)
(***************************************************************************)
EXTENDS Gossip, SequenceTheorems, FiniteSetTheorems, WellFoundedInduction, TLAPS

\* What messages are does not matter here, only that they come in sequence.
IsSeq(s) == \E S : s \in Seq(S)

\* A message more.
LEMMA AppendSeq ==
    ASSUME NEW s, IsSeq(s), NEW e
    PROVE  /\ IsSeq(Append(s, e)) /\ Len(s) \in Nat /\ Len(Append(s, e)) = Len(s) + 1
           /\ \A i \in 1 .. Len(s) : Append(s, e)[i] = s[i]
           /\ Append(s, e)[Len(s) + 1] = e
  <1>1. PICK S : s \in Seq(S)
    BY DEF IsSeq
  <1> DEFINE T == S \cup {e}
  <1>2. s \in Seq(T) /\ e \in T
    BY <1>1
  <1>3. Append(s, e) \in Seq(T)
    BY <1>2
  <1> QED
    BY <1>2, <1>3 DEF IsSeq


\* No messages.
LEMMA NoMessages == IsSeq(<<>>) /\ Len(<<>>) = 0
  <1>1. <<>> \in Seq({})
    OBVIOUS
  <1> QED
    BY <1>1 DEF IsSeq

-----------------------------------------------------------------------------
(* Loops over sequences.                                                   *)

\* Induction, for sets of numbers.
LEMMA Induction ==
    ASSUME NEW S, 0 \in S, \A n \in Nat : n \in S => n + 1 \in S
    PROVE  Nat \subseteq S
  <1> DEFINE T == Nat \ S
             R == {ss \in Nat \X Nat : ss[1] < ss[2]}
  <1> SUFFICES ASSUME T # {} PROVE FALSE
    OBVIOUS
  <1>1. IsWellFoundedOn(R, Nat)
    BY NatLessThanWellFounded DEF OpToRel
  <1>2. PICK x \in T : \A y \in T : ~(<<y, x>> \in R)
    BY <1>1, WFMin, Zenon
  <1>3. x - 1 \in Nat /\ x - 1 < x /\ (x - 1) + 1 = x
    OBVIOUS
  <1>4. x - 1 \notin T
    BY <1>2, <1>3, Zenon
  <1> QED
    BY <1>3, <1>4

\* Keep is the result of a loop.
LEMMA KeepLoop ==
    ASSUME NEW seq, Len(seq) \in Nat, NEW S
    PROVE  \E f : /\ f[0] = <<>> /\ f[Len(seq)] = Keep(seq, S)
                  /\ \A i \in 1 .. Len(seq) : f[i] = IF seq[i] \in S THEN Append(f[i - 1], seq[i]) ELSE f[i - 1]
  <1> DEFINE step(f, i) == IF i = 0 THEN <<>> ELSE IF seq[i] \in S THEN Append(f[i - 1], seq[i]) ELSE f[i - 1]
             has == {n \in Nat : \E f : f = [i \in 0 .. n |-> step(f, i)]}
  <1>1. 0 \in has
    <2>1. [i \in 0 .. 0 |-> <<>>] = [i \in 0 .. 0 |-> step([j \in 0 .. 0 |-> <<>>], i)]
      OBVIOUS
    <2> QED
      BY <2>1, Zenon
  <1>2. ASSUME NEW n \in Nat, n \in has PROVE n + 1 \in has
    <2>1. PICK f : f = [i \in 0 .. n |-> step(f, i)]
      BY <1>2, Zenon
    <2> DEFINE g == [i \in 0 .. n + 1 |-> IF i = n + 1 THEN step(f, i) ELSE f[i]]
    <2>2. ASSUME NEW i \in 0 .. n + 1 PROVE step(g, i) = step(f, i)
      <3>1. CASE i = 0
        BY <3>1
      <3>2. CASE i # 0
        <4>1. i - 1 \in 0 .. n /\ i - 1 \in 0 .. n + 1 /\ i - 1 # n + 1
          BY <3>2
        <4>2. g[i - 1] = f[i - 1]
          BY <4>1
        <4> HIDE DEF g
        <4> QED
          BY <4>2
      <3> QED
        BY <3>1, <3>2, Zenon
    <2>3. \A i \in 0 .. n : f[i] = step(f, i)
      BY <2>1, Zenon
    <2> HIDE DEF step
    <2>4. g = [i \in 0 .. n + 1 |-> step(g, i)]
      BY <2>2, <2>3
    <2> HIDE DEF g
    <2>5. \E e : e = [i \in 0 .. n + 1 |-> step(e, i)]
      BY <2>4
    <2>6. n + 1 \in Nat
      OBVIOUS
    <2> QED
      BY <2>5, <2>6
  <1>3. Len(seq) \in has
    <2> HIDE DEF has
    <2>1. Nat \subseteq has
      BY <1>1, <1>2, Induction
    <2> QED
      BY <2>1
  <1> DEFINE kept == CHOOSE f : f = [i \in 0 .. Len(seq) |-> step(f, i)]
  <1>4. kept = [i \in 0 .. Len(seq) |-> step(kept, i)]
    <2> HIDE DEF step
    <2> QED
      BY <1>3, Zenon
  <1>5. Keep(seq, S) = kept[Len(seq)]
    BY DEF Keep
  <1> HIDE DEF kept
  <1>6. \A i \in 0 .. Len(seq) : kept[i] = step(kept, i)
    <2> HIDE DEF step
    <2> QED
      BY <1>4
  <1>7. kept[0] = <<>>
    BY <1>6
  <1>8. \A i \in 1 .. Len(seq) : kept[i] = IF seq[i] \in S THEN Append(kept[i - 1], seq[i]) ELSE kept[i - 1]
    BY <1>6
  <1> QED
    BY <1>5, <1>7, <1>8

\* Keep adds nothing.
LEMMA KeepType ==
    ASSUME NEW seq, IsSeq(seq), NEW S
    PROVE  Keep(seq, S) \in Seq(Range(seq) \cap S)
  <1>1. Len(seq) \in Nat /\ DOMAIN seq = 1 .. Len(seq)
    BY DEF IsSeq
  <1> DEFINE U == Range(seq) \cap S
             n == Len(seq)
  <1>2. \A i \in 1 .. n : seq[i] \in S => seq[i] \in U
    BY <1>1 DEF Range
  <1>3. PICK f : /\ f[0] = <<>> /\ f[n] = Keep(seq, S)
                 /\ \A i \in 1 .. n : f[i] = IF seq[i] \in S THEN Append(f[i - 1], seq[i]) ELSE f[i - 1]
    BY <1>1, KeepLoop
  <1>4. n \in Nat
    BY <1>1
  <1> DEFINE good == {i \in Nat : i <= n => f[i] \in Seq(U)}
  <1> HIDE DEF U, n
  <1>5. 0 \in good
    <2>1. <<>> \in Seq(U)
      OBVIOUS
    <2> QED
      BY <1>3, <2>1, Zenon
  <1>6. ASSUME NEW i \in Nat, i \in good PROVE i + 1 \in good
    <2> SUFFICES ASSUME i + 1 <= n PROVE f[i + 1] \in Seq(U)
      OBVIOUS
    <2>1. f[i] \in Seq(U) /\ i + 1 \in 1 .. n /\ (i + 1) - 1 = i
      BY <1>4, <1>6
    <2>2. f[i + 1] = IF seq[i + 1] \in S THEN Append(f[i], seq[i + 1]) ELSE f[i]
      BY <1>3, <2>1
    <2> QED
      BY <1>2, <2>1, <2>2
  <1>7. n \in good
    <2> HIDE DEF good
    <2>1. Nat \subseteq good
      BY <1>5, <1>6, Induction
    <2> QED
      BY <1>4, <2>1
  <1> QED
    BY <1>3, <1>4, <1>7 DEF U

\* HandleMessages is the result of a loop.
LEMMA HandleLoop ==
    ASSUME NEW msgs, Len(msgs) \in Nat
    PROVE  \E f : /\ f[0] = [orders |-> <<>>, by |-> <<>>, score |-> score] /\ f[Len(msgs)] = HandleMessages(msgs)
                  /\ \A i \in 1 .. Len(msgs) : f[i] = HandleMessage(f[i - 1], msgs[i])
  <1> DEFINE base == [orders |-> <<>>, by |-> <<>>, score |-> score]
             step(f, i) == IF i = 0 THEN base ELSE HandleMessage(f[i - 1], msgs[i])
             has == {n \in Nat : \E f : f = [i \in 0 .. n |-> step(f, i)]}
  <1>1. 0 \in has
    <2> HIDE DEF base
    <2>1. [i \in 0 .. 0 |-> base] = [i \in 0 .. 0 |-> step([j \in 0 .. 0 |-> base], i)]
      OBVIOUS
    <2> QED
      BY <2>1, Zenon
  <1>2. ASSUME NEW n \in Nat, n \in has PROVE n + 1 \in has
    <2>1. PICK f : f = [i \in 0 .. n |-> step(f, i)]
      BY <1>2
    <2> DEFINE g == [i \in 0 .. n + 1 |-> IF i = n + 1 THEN step(f, i) ELSE f[i]]
    <2>2. ASSUME NEW i \in 0 .. n + 1 PROVE step(g, i) = step(f, i)
      <3>1. CASE i = 0
        BY <3>1, Zenon
      <3>2. CASE i # 0
        <4>1. i - 1 \in 0 .. n /\ i - 1 \in 0 .. n + 1 /\ i - 1 # n + 1
          BY <3>2
        <4>2. g[i - 1] = f[i - 1]
          BY <4>1
        <4> HIDE DEF g, base
        <4> QED
          BY <4>2, Zenon
      <3> QED
        BY <3>1, <3>2, Zenon
    <2>3. \A i \in 0 .. n : f[i] = step(f, i)
      BY <2>1
    <2> HIDE DEF step
    <2>4. g = [i \in 0 .. n + 1 |-> step(g, i)]
      BY <2>2, <2>3
    <2> HIDE DEF g
    <2>5. \E e : e = [i \in 0 .. n + 1 |-> step(e, i)]
      BY <2>4
    <2>6. n + 1 \in Nat
      OBVIOUS
    <2> QED
      BY <2>5, <2>6
  <1>3. Len(msgs) \in has
    <2> HIDE DEF has
    <2>1. Nat \subseteq has
      BY <1>1, <1>2, Induction
    <2> QED
      BY <2>1
  <1> DEFINE h == CHOOSE f : f = [i \in 0 .. Len(msgs) |-> step(f, i)]
  <1>4. h = [i \in 0 .. Len(msgs) |-> step(h, i)]
    <2> HIDE DEF step
    <2> QED
      BY <1>3, Zenon
  <1>5. HandleMessages(msgs) = h[Len(msgs)]
    BY DEF HandleMessages
  <1> HIDE DEF h
  <1>6. \A i \in 0 .. Len(msgs) : h[i] = step(h, i)
    <2> HIDE DEF step
    <2> QED
      BY <1>4
  <1> HIDE DEF base
  <1>7. h[0] = base
    BY <1>6
  <1>8. \A i \in 1 .. Len(msgs) : h[i] = HandleMessage(h[i - 1], msgs[i])
    BY <1>6
  <1> QED
    BY <1>5, <1>7, <1>8 DEF base

-----------------------------------------------------------------------------
(* The scores of peers, for every set of peers and orders.                 *)

Tag == {"invalid-message", "valid-message", "order-stored"}
Field == {"phase", "orders", "by", "inserted", "fresh", "faulty", "shared", "again"}

\* An order that peer p is the author of, and that is not too large.
From(o, p) == p \in Peer /\ o \in Order /\ o \in sent[p] /\ Size[o] + Envelope <= MaxOrderSizeInBytes

\* The queue has orders of their authors only, and the node's own messages.
QueueInv ==
    /\ sent \in [Peer -> SUBSET Order]
    /\ IsSeq(queue) /\ \A i \in 1 .. Len(queue) : queue[i].from # Me => From(queue[i].data, queue[i].from)

\* An order that is marked as removed has been removed.
StoredInv ==
    /\ stored \in [Order -> {"absent", "open", "removed"}]
    /\ \A o \in Order : stored[o] = "removed" => o \in unfillable

\* What HandleMessages holds: orders with their authors, the new ones among them,
\* which are valid, and the ones it will blame their authors for, which are not or
\* no longer.
Handled(c) ==
    /\ DOMAIN c = Field
    /\ \A o \in DOMAIN c.by : From(o, c.by[o])
    /\ c.phase \in {"check", "validate"} => c.orders \in Seq(DOMAIN c.by)
    /\ c.fresh \in Seq(DOMAIN c.by \cap Valid)
    /\ IsFiniteSet(c.faulty) /\ c.faulty \subseteq DOMAIN c.by
    /\ \A o \in c.faulty : o \notin Valid \/ o \in unfillable
CallInv == call = [a \in Adder |-> call[a]] /\ Handled(call["handler"])

Scores(s) ==
    /\ s \in [Peer -> [Tag -> Int]]
    /\ \A p \in Peer : s[p]["valid-message"] \in {0, 5} /\ s[p]["order-stored"] \in {0, 10}

ScoreInv == QueueInv /\ StoredInv /\ CallInv /\ Scores(score) /\ ScoresAreEarned

\* One message of a batch.
LEMMA MessageHandled ==
    ASSUME NEW h, NEW msg, Scores(h.score), h.orders \in Seq(DOMAIN h.by), \A o \in DOMAIN h.by : From(o, h.by[o]),
           From(msg.data, msg.from), NEW g, g = HandleMessage(h, msg)
    PROVE  /\ Scores(g.score) /\ g.orders \in Seq(DOMAIN g.by) /\ \A o \in DOMAIN g.by : From(o, g.by[o])
           /\ \A p \in Peer : /\ g.score[p]["invalid-message"] = h.score[p]["invalid-message"]
                               /\ g.score[p]["order-stored"] = h.score[p]["order-stored"]
  <1>1. msg.data \in Order /\ msg.from \in Peer /\ Size[msg.data] + Envelope <= MaxOrderSizeInBytes
    BY DEF From
  <1>2. Size[msg.data] \in Nat /\ Envelope \in Nat /\ MaxOrderSizeInBytes \in Nat
    BY <1>1, GossipAssumption, Zenon
  <1>3. ~(MessageSize(msg.data) > MaxOrderSizeInBytes + Envelope)
    BY <1>1, <1>2 DEF MessageSize
  <1>4. CASE msg.data \in DOMAIN h.by
    <2>1. g = h
      BY <1>1, <1>3, <1>4 DEF HandleMessage
    <2> QED
      BY <2>1, Zenon
  <1>5. CASE msg.data \notin DOMAIN h.by
    <2> DEFINE by == [o \in DOMAIN h.by \cup {msg.data} |-> IF o = msg.data THEN msg.from ELSE h.by[o]]
    <2>1. g = [orders |-> Append(h.orders, msg.data), by |-> by, score |-> ValidMessage(h.score, msg.from)]
      BY <1>1, <1>3, <1>5 DEF HandleMessage
    <2>2. DOMAIN by = DOMAIN h.by \cup {msg.data} /\ \A o \in DOMAIN by : From(o, by[o])
      BY Zenon
    <2> HIDE DEF by
    <2>3. h.orders \in Seq(DOMAIN by) /\ msg.data \in DOMAIN by
      BY <2>2
    <2>4. Append(h.orders, msg.data) \in Seq(DOMAIN by)
      BY <2>3
    <2> DEFINE s == h.score
               q == msg.from
               r == [s[q] EXCEPT !["valid-message"] = 5]
               t == [s EXCEPT ![q] = r]
    <2>5. g.orders = Append(h.orders, msg.data) /\ g.by = by /\ g.score = t
      BY <2>1 DEF ValidMessage
    <2>6. s \in [Peer -> [Tag -> Int]] /\ q \in Peer
      BY <1>1, Zenon DEF Scores
    <2>7. \A p \in Peer : s[p]["valid-message"] \in {0, 5} /\ s[p]["order-stored"] \in {0, 10}
      BY Zenon DEF Scores
    <2> HIDE DEF s, q
    <2>8. /\ r \in [Tag -> Int] /\ r["valid-message"] = 5
          /\ r["invalid-message"] = s[q]["invalid-message"] /\ r["order-stored"] = s[q]["order-stored"]
      BY <2>6 DEF Tag
    <2> HIDE DEF r
    <2>9. t \in [Peer -> [Tag -> Int]] /\ t[q] = r /\ \A p \in Peer \ {q} : t[p] = s[p]
      BY <2>6, <2>8, Zenon
    <2> HIDE DEF t
    <2>10. \A p \in Peer : t[p]["invalid-message"] = s[p]["invalid-message"] /\ t[p]["order-stored"] = s[p]["order-stored"]
      BY <2>8, <2>9, Zenon
    <2>11. \A p \in Peer : t[p]["valid-message"] \in {0, 5} /\ t[p]["order-stored"] \in {0, 10}
      BY <2>7, <2>8, <2>9, Zenon
    <2>12. Scores(t)
      BY <2>9, <2>11, Zenon DEF Scores
    <2>13. \A p \in Peer : /\ g.score[p]["invalid-message"] = h.score[p]["invalid-message"]
                            /\ g.score[p]["order-stored"] = h.score[p]["order-stored"]
      BY <2>5, <2>10, Zenon DEF s
    <2> QED
      BY <2>2, <2>4, <2>5, <2>12, <2>13, Zenon
  <1> QED
    BY <1>4, <1>5, Zenon

\* A batch of messages from peers, all of which have passed the validators: no
\* author is blamed yet, and HandleMessages knows the author of every order.
LEMMA BatchHandled ==
    ASSUME Scores(score), NEW msgs, IsSeq(msgs), \A i \in 1 .. Len(msgs) : From(msgs[i].data, msgs[i].from),
           NEW g, g = HandleMessages(msgs)
    PROVE  /\ Scores(g.score) /\ g.orders \in Seq(DOMAIN g.by) /\ \A o \in DOMAIN g.by : From(o, g.by[o])
           /\ \A p \in Peer : /\ g.score[p]["invalid-message"] = score[p]["invalid-message"]
                               /\ g.score[p]["order-stored"] = score[p]["order-stored"]
  <1> DEFINE n == Len(msgs)
             ok(h) == /\ Scores(h.score) /\ h.orders \in Seq(DOMAIN h.by) /\ \A o \in DOMAIN h.by : From(o, h.by[o])
                      /\ \A p \in Peer : /\ h.score[p]["invalid-message"] = score[p]["invalid-message"]
                                          /\ h.score[p]["order-stored"] = score[p]["order-stored"]
             base == [orders |-> <<>>, by |-> <<>>, score |-> score]
  <1>1. n \in Nat
    BY DEF IsSeq
  <1>2. PICK f : /\ f[0] = base /\ f[n] = HandleMessages(msgs)
                 /\ \A i \in 1 .. n : f[i] = HandleMessage(f[i - 1], msgs[i])
    BY <1>1, HandleLoop, Zenon
  <1> DEFINE good == {i \in Nat : i <= n => ok(f[i])}
  <1>3. 0 \in good
    <2>1. base.orders = <<>> /\ base.by = <<>> /\ base.score = score
      OBVIOUS
    <2>2. DOMAIN base.by = {} /\ base.orders \in Seq(DOMAIN base.by)
      BY <2>1
    <2> HIDE DEF base
    <2>3. ok(base)
      BY <2>1, <2>2, Zenon
    <2> HIDE DEF ok, n
    <2> QED
      BY <1>2, <2>3
  <1>4. ASSUME NEW i \in Nat, i \in good PROVE i + 1 \in good
    <2> HIDE DEF ok
    <2> SUFFICES ASSUME i + 1 <= n PROVE ok(f[i + 1])
      OBVIOUS
    <2>1. ok(f[i]) /\ i + 1 \in 1 .. n /\ (i + 1) - 1 = i
      BY <1>1, <1>4
    <2> DEFINE h == f[i]
               msg == msgs[i + 1]
               k == f[i + 1]
    <2>2. k = HandleMessage(h, msg)
      BY <1>2, <2>1, Zenon
    <2>3. From(msg.data, msg.from)
      BY <2>1
    <2>4. ok(h)
      BY <2>1
    <2> HIDE DEF h, msg, k
    <2>5. Scores(h.score) /\ h.orders \in Seq(DOMAIN h.by) /\ \A o \in DOMAIN h.by : From(o, h.by[o])
      BY <2>4 DEF ok
    <2>6. /\ Scores(k.score) /\ k.orders \in Seq(DOMAIN k.by) /\ \A o \in DOMAIN k.by : From(o, k.by[o])
          /\ \A p \in Peer : /\ k.score[p]["invalid-message"] = h.score[p]["invalid-message"]
                              /\ k.score[p]["order-stored"] = h.score[p]["order-stored"]
      BY <2>2, <2>3, <2>5, MessageHandled
    <2>7. ok(k)
      BY <2>4, <2>6, Zenon DEF ok
    <2> QED
      BY <2>7 DEF k
  <1>5. n \in good
    <2> HIDE DEF good
    <2>1. Nat \subseteq good
      BY <1>3, <1>4, Induction
    <2> QED
      BY <1>1, <2>1
  <1> HIDE DEF ok
  <1>6. ok(f[n])
    BY <1>1, <1>5
  <1>7. f[n] = g
    BY <1>2
  <1> HIDE DEF n
  <1>8. ok(g)
    BY <1>6, <1>7
  <1> QED
    BY <1>8, Zenon DEF ok

\* What a step may do without changing the queue or a score.
LEMMA ScoresStay ==
    ASSUME ScoreInv, UNCHANGED <<sent, queue, score>>, unfillable \subseteq unfillable', StoredInv', CallInv'
    PROVE  ScoreInv'
  <1>1. QueueInv'
    BY Zenon DEF ScoreInv, QueueInv, From
  <1>2. Scores(score)'
    BY DEF ScoreInv, Scores
  <1>3. ScoresAreEarned'
    BY Zenon DEF ScoreInv, ScoresAreEarned
  <1> QED
    BY <1>1, <1>2, <1>3 DEF ScoreInv

\* The handler's call stays good.
LEMMA CallStays ==
    ASSUME ScoreInv, UNCHANGED <<sent, call>>, unfillable \subseteq unfillable'
    PROVE  CallInv'
  BY Zenon DEF ScoreInv, CallInv, Handled, From

\* A step of one call.
LEMMA CallSteps ==
    ASSUME ScoreInv, UNCHANGED sent, unfillable \subseteq unfillable', NEW a \in Adder, NEW c, Step(a, c),
           a = "handler" => Handled(c)
    PROVE  CallInv'
  <1>1. call = [b \in Adder |-> call[b]] /\ Handled(call["handler"])
    BY DEF ScoreInv, CallInv
  <1>2. call' = [call EXCEPT ![a] = c]
    BY DEF Step
  <1>3. call' = [b \in Adder |-> call'[b]]
    BY <1>1, <1>2
  <1>4. call'["handler"] = IF a = "handler" THEN c ELSE call["handler"]
    BY <1>1, <1>2 DEF Adder
  <1>5. Handled(call'["handler"])
    BY <1>1, <1>4
  <1>6. Handled(call["handler"])'
    BY <1>5, Zenon DEF Handled, From
  <1> QED
    BY <1>3, <1>6 DEF CallInv

\* A call that is over.
LEMMA IdleHandled == Handled(IdleCall)
  <1>1. /\ DOMAIN IdleCall = Field /\ IdleCall.by = <<>> /\ IdleCall.phase = "idle" /\ IdleCall.fresh = <<>>
        /\ IdleCall.faulty = {}
    BY Zenon DEF IdleCall, Field
  <1>2. DOMAIN <<>> = {}
    OBVIOUS
  <1>3. IsFiniteSet({})
    BY FS_EmptySet
  <1> HIDE DEF IdleCall
  <1> QED
    BY <1>1, <1>2, <1>3 DEF Handled

\* A message that arrives: validators and subscription.
LEMMA ReceiveKeepsScores ==
    ASSUME ScoreInv, NEW p \in Peer, NEW author \in Peer, NEW data, Receive(p, author, data)
    PROVE  ScoreInv'
  <1> DEFINE m == [from |-> author, data |-> data]
  <1>1. /\ sent \in [Peer -> SUBSET Order] /\ IsSeq(queue) /\ Len(queue) \in Nat
        /\ \A i \in 1 .. Len(queue) : queue[i].from # Me => From(queue[i].data, queue[i].from)
    BY DEF ScoreInv, QueueInv, IsSeq
  <1>2. UNCHANGED <<score, call, stored, unfillable>>
    BY DEF Receive, dbVars
  <1>3. CASE queue' = queue
    <2>1. sent' = sent
      BY <1>1, <1>3 DEF Receive
    <2>2. StoredInv' /\ CallInv'
      BY <1>2, <2>1, CallStays DEF ScoreInv, StoredInv
    <2> QED
      BY <1>2, <1>3, <2>1, <2>2, ScoresStay
  <1>4. CASE queue' # queue
    <2>1. /\ verdict' = "passed" /\ Matches(data) /\ queue' = Append(queue, m)
          /\ sent' = [sent EXCEPT ![author] = @ \cup {data}]
      BY <1>4 DEF Receive, AllPass
    <2>2. data \in Order
      BY <2>1 DEF Matches
    <2>3. ~(MessageSize(data) > MaxOrderSizeInBytes)
      BY <2>1 DEF Receive, Validate
    <2>4. Size[data] \in Nat /\ Envelope \in Nat /\ MaxOrderSizeInBytes \in Nat
      BY <2>2, GossipAssumption, Zenon
    <2>5. Size[data] + Envelope <= MaxOrderSizeInBytes
      BY <2>2, <2>3, <2>4 DEF MessageSize
    <2>6. sent' \in [Peer -> SUBSET Order] /\ data \in sent'[author] /\ \A q \in Peer : sent[q] \subseteq sent'[q]
      BY <1>1, <2>1, <2>2
    <2>7. \A o, q : From(o, q) => From(o, q)'
      BY <2>6 DEF From
    <2>8. From(data, author)'
      BY <2>2, <2>5, <2>6 DEF From
    <2>9. m.from = author /\ m.data = data
      OBVIOUS
    <2> HIDE DEF m
    <2>10. /\ IsSeq(queue') /\ Len(queue') = Len(queue) + 1 /\ queue'[Len(queue) + 1] = m
           /\ \A i \in 1 .. Len(queue) : queue'[i] = queue[i]
      BY <1>1, <2>1, AppendSeq, Zenon
    <2>11. ASSUME NEW i \in 1 .. Len(queue'), queue'[i].from # Me PROVE (From(queue[i].data, queue[i].from))'
      <3>1. CASE i \in 1 .. Len(queue)
        <4>1. queue'[i] = queue[i]
          BY <2>10, <3>1
        <4>2. From(queue[i].data, queue[i].from)
          BY <1>1, <2>11, <3>1, <4>1, Zenon
        <4> QED
          BY <2>6, <4>1, <4>2, Zenon DEF From
      <3>2. CASE i = Len(queue) + 1
        BY <2>8, <2>9, <2>10, <3>2, Zenon
      <3> QED
        BY <1>1, <2>10, <3>1, <3>2
    <2>12. QueueInv'
      BY <2>6, <2>10, <2>11, Zenon DEF QueueInv
    <2>13. StoredInv'
      BY <1>2 DEF ScoreInv, StoredInv
    <2>14. CallInv'
      BY <1>2, <2>7, Zenon DEF ScoreInv, CallInv, Handled
    <2>15. Scores(score)'
      BY <1>2 DEF ScoreInv, Scores
    <2>16. ScoresAreEarned'
      BY <1>2, <2>6, Zenon DEF ScoreInv, ScoresAreEarned
    <2> QED
      BY <2>12, <2>13, <2>14, <2>15, <2>16 DEF ScoreInv
  <1> QED
    BY <1>3, <1>4

\* Elements of a sequence, and of its parts.
LEMMA Parts ==
    ASSUME NEW q, IsSeq(q), NEW n \in 1 .. Len(q)
    PROVE  /\ IsSeq(SubSeq(q, 1, n)) /\ Range(SubSeq(q, 1, n)) \subseteq Range(q)
           /\ IsSeq(SubSeq(q, n + 1, Len(q)))
           /\ \A i \in 1 .. Len(SubSeq(q, n + 1, Len(q))) : SubSeq(q, n + 1, Len(q))[i] \in Range(q)
  <1>1. PICK S : q \in Seq(S)
    BY DEF IsSeq
  <1>2. Len(q) \in Nat /\ n \in Nat /\ DOMAIN q = 1 .. Len(q)
    BY <1>1
  <1> DEFINE a == SubSeq(q, 1, n)
             b == SubSeq(q, n + 1, Len(q))
  <1>3. a \in Seq(S) /\ Len(a) = n /\ DOMAIN a = 1 .. n /\ \A i \in 1 .. n : a[i] = q[i]
    BY <1>1, <1>2
  <1>4. b \in Seq(S) /\ Len(b) = Len(q) - n /\ \A i \in 1 .. Len(q) - n : b[i] = q[n + i]
    <2>1. n + 1 \in 1 .. Len(q) + 1 /\ Len(q) \in (n + 1) - 1 .. Len(q)
      BY <1>2
    <2>2. /\ b \in Seq(S) /\ Len(b) = Len(q) - (n + 1) + 1
          /\ \A i \in 1 .. Len(q) - (n + 1) + 1 : b[i] = q[(n + 1) + i - 1]
      BY <1>1, <2>1, SubSeqProperties
    <2>3. Len(q) - (n + 1) + 1 = Len(q) - n /\ \A i \in 1 .. Len(q) - n : (n + 1) + i - 1 = n + i
      BY <1>2
    <2> HIDE DEF b
    <2> QED
      BY <2>2, <2>3
  <1> HIDE DEF a, b
  <1>5. Range(a) \subseteq Range(q)
    <2>1. \A i \in 1 .. n : i \in DOMAIN q /\ a[i] = q[i]
      BY <1>2, <1>3
    <2> QED
      BY <1>3, <2>1 DEF Range
  <1>6. ASSUME NEW i \in 1 .. Len(b) PROVE b[i] \in Range(q)
    <2>1. i \in 1 .. Len(q) - n /\ n + i \in 1 .. Len(q)
      BY <1>2, <1>4
    <2>2. b[i] = q[n + i]
      BY <1>4, <2>1
    <2> QED
      BY <1>2, <2>1, <2>2 DEF Range
  <1> QED
    BY <1>3, <1>4, <1>5, <1>6, Zenon DEF a, b, IsSeq

\* A batch is taken from the subscription and decoded.
LEMMA ReceiveBatchKeepsScores ==
    ASSUME ScoreInv, NEW n \in 1 .. Len(queue), ReceiveBatch(n)
    PROVE  ScoreInv'
  <1> DEFINE front == SubSeq(queue, 1, n)
             peers == {msg \in Range(queue) : msg.from # Me}
             others == Keep(front, peers)
             g == HandleMessages(others)
             c == [IdleCall EXCEPT !.phase = "check", !.orders = g.orders, !.by = g.by]
  <1>1. IsSeq(queue) /\ DOMAIN queue = 1 .. Len(queue) /\ sent \in [Peer -> SUBSET Order]
        /\ \A i \in 1 .. Len(queue) : queue[i].from # Me => From(queue[i].data, queue[i].from)
    BY DEF ScoreInv, QueueInv, IsSeq
  <1>2. \A msg \in Range(queue) : msg.from # Me => From(msg.data, msg.from)
    BY <1>1 DEF Range
  <1>3. /\ IsSeq(front) /\ Range(front) \subseteq Range(queue)
        /\ IsSeq(SubSeq(queue, n + 1, Len(queue)))
        /\ \A i \in 1 .. Len(SubSeq(queue, n + 1, Len(queue))) : SubSeq(queue, n + 1, Len(queue))[i] \in Range(queue)
    BY <1>1, Parts, Zenon
  <1>4. /\ queue' = SubSeq(queue, n + 1, Len(queue)) /\ score' = g.score
        /\ call' = (IF others = <<>> THEN call ELSE [call EXCEPT !["handler"] = c])
        /\ UNCHANGED <<sent, stored, unfillable>>
    BY DEF ReceiveBatch, netVars, dbVars
  <1> HIDE DEF front
  <1>5. others \in Seq(Range(front) \cap peers)
    BY <1>3, KeepType
  <1> HIDE DEF others
  <1>6. IsSeq(others) /\ \A i \in 1 .. Len(others) : others[i] \in Range(queue) /\ others[i].from # Me
    BY <1>5 DEF IsSeq
  <1>7. \A i \in 1 .. Len(others) : From(others[i].data, others[i].from)
    BY <1>2, <1>6
  <1>8. Scores(score)
    BY DEF ScoreInv
  <1> HIDE DEF peers, g
  <1>9. /\ Scores(g.score) /\ g.orders \in Seq(DOMAIN g.by) /\ \A o \in DOMAIN g.by : From(o, g.by[o])
        /\ \A p \in Peer : /\ g.score[p]["invalid-message"] = score[p]["invalid-message"]
                            /\ g.score[p]["order-stored"] = score[p]["order-stored"]
    BY <1>6, <1>7, <1>8, BatchHandled, Zenon DEF g
  <1>10. QueueInv'
    <2>1. IsSeq(queue') /\ \A i \in 1 .. Len(queue') : queue'[i] \in Range(queue)
      BY <1>3, <1>4
    <2>2. \A i \in 1 .. Len(queue') : queue'[i].from # Me => From(queue'[i].data, queue'[i].from)
      BY <1>2, <2>1
    <2>3. sent' = sent
      BY <1>4
    <2> QED
      BY <1>1, <2>1, <2>2, <2>3, Zenon DEF QueueInv, From
  <1>11. StoredInv'
    BY <1>4 DEF ScoreInv, StoredInv
  <1>12. CallInv'
    <2>1. CASE others = <<>>
      BY <1>4, <2>1, CallStays
    <2>2. CASE others # <<>>
      <3>1. /\ DOMAIN c = Field /\ c.by = g.by /\ c.orders = g.orders /\ c.fresh = <<>> /\ c.faulty = {}
        BY DEF IdleCall, Field
      <3> HIDE DEF c
      <3>2. IsFiniteSet({})
        BY FS_EmptySet
      <3>3. Handled(c)
        BY <1>9, <3>1, <3>2 DEF Handled
      <3>4. Step("handler", c)
        BY <1>4, <2>2 DEF Step
      <3> QED
        BY <1>4, <3>3, <3>4, CallSteps DEF Adder
    <2> QED
      BY <2>1, <2>2
  <1>13. Scores(score)'
    <2>1. Scores(score')
      BY <1>4, <1>9
    <2> QED
      BY <2>1 DEF Scores
  <1>14. ScoresAreEarned'
    <2>1. \A p \in Peer : /\ score'[p]["invalid-message"] = score[p]["invalid-message"]
                          /\ score'[p]["order-stored"] = score[p]["order-stored"]
                          /\ score'[p]["valid-message"] \in {0, 5} /\ score'[p]["order-stored"] \in {0, 10}
      BY <1>4, <1>9 DEF Scores
    <2>2. \A p \in Peer : score'[p]["valid-message"] + score'[p]["order-stored"] <= 15
      BY <2>1
    <2> QED
      BY <1>4, <2>1, <2>2 DEF ScoreInv, ScoresAreEarned
  <1> QED
    BY <1>10, <1>11, <1>12, <1>13, <1>14 DEF ScoreInv

\* The elements of a sequence are finitely many.
LEMMA FiniteElements ==
    ASSUME NEW S, NEW q \in Seq(S)
    PROVE  IsFiniteSet(Range(q)) /\ Range(q) \subseteq S
  <1>1. Len(q) \in Nat /\ DOMAIN q = 1 .. Len(q) /\ \A i \in 1 .. Len(q) : q[i] \in S
    OBVIOUS
  <1>2. IsFiniteSet(1 .. Len(q))
    BY <1>1, FS_Interval
  <1>3. Range(q) = {q[i] : i \in 1 .. Len(q)}
    BY <1>1 DEF Range
  <1>4. \A x \in Range(q) : \E i \in 1 .. Len(q) : x = q[i]
    BY <1>3
  <1>5. q \in Surjection(1 .. Len(q), Range(q))
    BY <1>1, <1>3, <1>4 DEF Surjection
  <1>6. IsFiniteSet(Range(q))
    BY <1>2, <1>5, FS_Surjection
  <1> QED
    BY <1>1, <1>4, <1>6

\* meshSpecificOrderValidation rejects orders of this batch that have been removed.
LEMMA CheckHandles ==
    ASSUME ScoreInv, Check("handler"), NEW c, call' = [call EXCEPT !["handler"] = c]
    PROVE  Handled(c)
  <1> DEFINE d == call["handler"]
             D == DOMAIN d.by
             Bad(o) == Size[o] > MaxOrderSizeInBytes \/ stored[o] = "removed"
             faulty == {o \in Range(d.orders) : Bad(o)}
             left == Keep(d.orders, {o \in Order : ~Bad(o) /\ stored[o] = "absent"})
  <1>1. d.phase = "check" /\ Step("handler", [d EXCEPT !.phase = "validate", !.faulty = faulty, !.orders = left])
    BY DEF Check
  <1>2. /\ DOMAIN d = Field /\ (\A o \in D : From(o, d.by[o])) /\ d.orders \in Seq(D)
        /\ d.fresh \in Seq(D \cap Valid)
    BY <1>1, Zenon DEF ScoreInv, CallInv, Handled
  <1>3. call = [b \in Adder |-> call[b]]
    BY DEF ScoreInv, CallInv
  <1>4. c = [d EXCEPT !.phase = "validate", !.faulty = faulty, !.orders = left]
    BY <1>1, <1>3 DEF Step, Adder
  <1>5. \A o \in D : o \in Order /\ Size[o] + Envelope <= MaxOrderSizeInBytes
    BY <1>2, Zenon DEF From
  <1>6. \A o \in D : Bad(o) => stored[o] = "removed" /\ o \in Order
    BY <1>5, GossipAssumption
  <1>7. \A o \in D : Bad(o) => o \in unfillable
    BY <1>6, Zenon DEF ScoreInv, StoredInv
  <1> HIDE DEF D, Bad
  <1>8. IsFiniteSet(Range(d.orders)) /\ Range(d.orders) \subseteq D
    BY <1>2, FiniteElements
  <1>9. IsFiniteSet(faulty)
    BY <1>8, FS_Subset
  <1>10. faulty \subseteq D /\ \A o \in faulty : o \in unfillable
    BY <1>7, <1>8
  <1>11. left \in Seq(D)
    <2>1. IsSeq(d.orders)
      BY <1>2 DEF IsSeq
    <2> DEFINE T == {o \in Order : ~Bad(o) /\ stored[o] = "absent"}
    <2> HIDE DEF T
    <2>2. Keep(d.orders, T) \in Seq(Range(d.orders) \cap T)
      BY <2>1, KeepType
    <2>3. Keep(d.orders, T) \in Seq(D)
      BY <1>8, <2>2
    <2> QED
      BY <2>3 DEF T
  <1> HIDE DEF left, faulty, d
  <1>12. /\ DOMAIN c = Field /\ c.by = d.by /\ c.orders = left /\ c.fresh = d.fresh /\ c.faulty = faulty
    BY <1>2, <1>4 DEF Field
  <1>13. D = DOMAIN c.by
    BY <1>12 DEF D
  <1> QED
    BY <1>2, <1>9, <1>10, <1>11, <1>12, <1>13, Zenon DEF Handled

\* What validation rejects is not valid, and what it accepts is.
LEMMA StoreHandles ==
    ASSUME ScoreInv, NEW outcome \in Outcomes(Range(call["handler"].orders)), NEW trimmed,
           Store("handler", outcome, trimmed), NEW c, call' = [call EXCEPT !["handler"] = c]
    PROVE  Handled(c)
  <1> DEFINE d == call["handler"]
             D == DOMAIN d.by
             O == Range(d.orders)
             new == Keep(d.orders, {o \in O : outcome[o] = "accepted"})
             faulty == d.faulty \cup {o \in O : outcome[o] = "rejected"}
  <1>1. d.phase = "validate"
    BY DEF Store
  <1>2. /\ DOMAIN d = Field /\ (\A o \in D : From(o, d.by[o])) /\ d.orders \in Seq(D)
        /\ IsFiniteSet(d.faulty) /\ d.faulty \subseteq D /\ \A o \in d.faulty : o \notin Valid \/ o \in unfillable
    BY <1>1, Zenon DEF ScoreInv, CallInv, Handled
  <1>3. call = [b \in Adder |-> call[b]]
    BY DEF ScoreInv, CallInv
  <1> DEFINE remains == [o \in Order |-> IF o \in Range(trimmed) THEN "absent" ELSE stored[o]]
             inserted == IF \A o \in Range(new) : remains[o] = "absent" THEN new ELSE <<>>
             orders == trimmed \o inserted
             phase == IF Ops(trimmed, inserted) # <<>> THEN "setup" ELSE IF orders # <<>> THEN "send" ELSE "results"
  <1>4. /\ phase \in {"setup", "send", "results"}
        /\ Step("handler", [d EXCEPT !.phase = phase, !.orders = orders, !.inserted = Range(inserted), !.fresh = new,
                                     !.faulty = faulty])
    BY Zenon DEF Store
  <1> HIDE DEF remains, inserted, orders, phase
  <1>5. c = [d EXCEPT !.phase = phase, !.orders = orders, !.inserted = Range(inserted), !.fresh = new, !.faulty = faulty]
    BY <1>3, <1>4 DEF Step, Adder
  <1>6. \A o \in O : outcome[o] # "internal" => outcome[o] = (IF o \in Valid THEN "accepted" ELSE "rejected")
    BY DEF Outcomes
  <1>7. (\A o \in O : outcome[o] = "accepted" => o \in Valid) /\ (\A o \in O : outcome[o] = "rejected" => o \notin Valid)
    BY <1>6
  <1> HIDE DEF D
  <1>8. IsFiniteSet(O) /\ O \subseteq D
    BY <1>2, FiniteElements, Zenon
  <1> HIDE DEF O
  <1>9. IsFiniteSet({o \in O : outcome[o] = "rejected"})
    BY <1>8, FS_Subset
  <1>10. IsFiniteSet(faulty)
    BY <1>2, <1>9, FS_Union, Zenon
  <1>11. faulty \subseteq D /\ \A o \in faulty : o \notin Valid \/ o \in unfillable
    BY <1>2, <1>7, <1>8, Zenon
  <1>12. new \in Seq(D \cap Valid)
    <2>1. IsSeq(d.orders)
      BY <1>2, Zenon DEF IsSeq
    <2> DEFINE T == {o \in O : outcome[o] = "accepted"}
    <2>2. O \cap T \subseteq D \cap Valid
      BY <1>7, <1>8
    <2> HIDE DEF T
    <2>3. Keep(d.orders, T) \in Seq(O \cap T)
      BY <2>1, KeepType DEF O
    <2>4. Keep(d.orders, T) \in Seq(D \cap Valid)
      BY <2>2, <2>3
    <2> QED
      BY <2>4 DEF T
  <1> HIDE DEF new, faulty, d
  <1>13. /\ DOMAIN c = Field /\ c.by = d.by /\ c.phase = phase /\ c.fresh = new /\ c.faulty = faulty
    BY <1>2, <1>5 DEF Field
  <1>14. D = DOMAIN c.by
    BY <1>13, Zenon DEF D
  <1> QED
    BY <1>2, <1>4, <1>10, <1>11, <1>12, <1>13, <1>14 DEF Handled

\* The later phases do not touch what is known of the orders.
LEMMA LaterHandled ==
    ASSUME NEW d, Handled(d), NEW c, DOMAIN c = Field, c.phase \notin {"check", "validate"},
           c.by = d.by, c.fresh = d.fresh, c.faulty = d.faulty
    PROVE  Handled(c)
  BY Zenon DEF Handled

\* A step of ValidateAndStoreValidOrders on a call.
LEMMA CallGoesOn ==
    ASSUME ScoreInv, NEW a \in Adder, ValidateAndStoreValidOrders(a)
    PROVE  CallInv'
  <1>1. UNCHANGED <<sent, unfillable>>
    BY Zenon DEF ValidateAndStoreValidOrders, Check, StoreFails, Setup, SendEvents, EventsSent, Store, netVars, dbVars
  <1>2. call = [b \in Adder |-> call[b]] /\ Handled(call["handler"])
    BY DEF ScoreInv, CallInv
  <1> SUFFICES \E c : Step(a, c) /\ (a = "handler" => Handled(c))
    BY <1>1, CallSteps
  <1>3. ASSUME NEW c, Step(a, c), a = "handler" PROVE call' = [call EXCEPT !["handler"] = c]
    BY <1>3 DEF Step
  <1>4. CASE Check(a)
    <2>1. PICK c : Step(a, c)
      BY <1>4 DEF Check
    <2>2. ASSUME a = "handler" PROVE Handled(c)
      <3>1. call' = [call EXCEPT !["handler"] = c] /\ Check("handler")
        BY <1>3, <1>4, <2>1, <2>2
      <3> QED
        BY <3>1, CheckHandles, Zenon
    <2> QED
      BY <2>1, <2>2
  <1>5. CASE \E outcome \in Outcomes(Range(call[a].orders)), trimmed \in Trims : Store(a, outcome, trimmed)
    <2>1. PICK outcome \in Outcomes(Range(call[a].orders)), trimmed \in Trims : Store(a, outcome, trimmed)
      BY <1>5
    <2>2. PICK c : Step(a, c)
      BY <2>1 DEF Store
    <2>3. ASSUME a = "handler" PROVE Handled(c)
      <3>1. call' = [call EXCEPT !["handler"] = c] /\ Store("handler", outcome, trimmed)
        BY <1>3, <2>1, <2>2, <2>3
      <3>2. outcome \in Outcomes(Range(call["handler"].orders))
        BY <2>1, <2>3
      <3> QED
        BY <3>1, <3>2, StoreHandles, Zenon
    <2> QED
      BY <2>2, <2>3
  <1>6. CASE StoreFails(a)
    BY <1>6, IdleHandled, Zenon DEF StoreFails, Fail
  <1>7. CASE Setup(a)
    <2>1. CASE Step(a, IdleCall)
      BY <2>1, IdleHandled
    <2>2. CASE ~Step(a, IdleCall)
      <3> DEFINE phase == IF work'[a] = <<>> THEN "send" ELSE call[a].phase
                 c == [call[a] EXCEPT !.phase = phase]
      <3>1. Step(a, c) /\ call[a].phase = "setup"
        BY <1>7, <2>2 DEF Setup, Fail
      <3>2. ASSUME a = "handler" PROVE Handled(c)
        <4>1. phase \in {"setup", "send"} /\ DOMAIN call[a] = Field /\ Handled(call[a])
          BY <1>2, <3>1, <3>2 DEF Handled
        <4> HIDE DEF phase
        <4>2. DOMAIN c = Field /\ c.phase = phase /\ c.by = call[a].by /\ c.fresh = call[a].fresh /\ c.faulty = call[a].faulty
          BY <4>1 DEF Field
        <4> HIDE DEF c
        <4> QED
          BY <4>1, <4>2, LaterHandled, Zenon
      <3> QED
        BY <3>1, <3>2
    <2> QED
      BY <2>1, <2>2
  <1>8. CASE SendEvents(a) \/ EventsSent(a)
    <2> DEFINE sends == [call[a] EXCEPT !.phase = "sending"]
               ends == [call[a] EXCEPT !.phase = "results", !.orders = <<>>, !.inserted = {}]
    <2>1. Step(a, sends) \/ Step(a, ends)
      BY <1>8 DEF SendEvents, EventsSent
    <2>2. ASSUME a = "handler" PROVE Handled(sends) /\ Handled(ends)
      <3>1. DOMAIN call[a] = Field /\ Handled(call[a])
        BY <1>2, <2>2, Zenon DEF Handled
      <3>2. /\ DOMAIN sends = Field /\ sends.phase = "sending" /\ sends.by = call[a].by /\ sends.fresh = call[a].fresh
            /\ sends.faulty = call[a].faulty
        BY <3>1 DEF Field
      <3>3. /\ DOMAIN ends = Field /\ ends.phase = "results" /\ ends.by = call[a].by /\ ends.fresh = call[a].fresh
            /\ ends.faulty = call[a].faulty
        BY <3>1 DEF Field
      <3> HIDE DEF sends, ends
      <3> QED
        BY <3>1, <3>2, <3>3, LaterHandled, Zenon
    <2> HIDE DEF sends, ends
    <2> QED
      BY <2>1, <2>2
  <1> QED
    BY <1>4, <1>5, <1>6, <1>7, <1>8, Zenon DEF ValidateAndStoreValidOrders

\* And on the node.
LEMMA ValidateKeepsScores ==
    ASSUME ScoreInv, NEW a \in Adder, ValidateAndStoreValidOrders(a)
    PROVE  ScoreInv'
  <1>1. UNCHANGED <<sent, queue, score, unfillable>>
    BY Zenon DEF ValidateAndStoreValidOrders, Check, StoreFails, Setup, SendEvents, EventsSent, Store, netVars, dbVars
  <1>2. StoredInv'
    <2>1. CASE UNCHANGED dbVars
      BY <2>1 DEF ScoreInv, StoredInv, dbVars
    <2>2. CASE ~UNCHANGED dbVars
      <3>1. PICK outcome, trimmed : Store(a, outcome, trimmed)
        BY <2>2 DEF ValidateAndStoreValidOrders, Check, StoreFails, Setup, SendEvents, EventsSent
      <3>2. PICK inserted : stored' = [o \in Order |-> IF o \in Range(inserted) THEN "open"
                                                      ELSE IF o \in Range(trimmed) THEN "absent" ELSE stored[o]]
        BY <3>1 DEF Store
      <3> QED
        BY <1>1, <3>2 DEF ScoreInv, StoredInv
    <2> QED
      BY <2>1, <2>2
  <1> QED
    BY <1>1, <1>2, CallGoesOn, ScoresStay

\* The end of HandleMessages.
LEMMA ResultsKeepScores ==
    ASSUME ScoreInv, HandleResults
    PROVE  ScoreInv'
  <1> DEFINE c == call["handler"]
             By(p, orders) == {o \in orders : c.by[o] = p}
             stars == {p \in Peer : By(p, Range(c.fresh)) # {}}
             k(p) == Cardinality(By(p, c.faulty))
             r(p) == [score[p] EXCEPT !["invalid-message"] = @ - 5 * k(p), !["order-stored"] = IF p \in stars THEN 10 ELSE @]
  <1>1. /\ score' = [p \in Peer |-> r(p)] /\ Step("handler", IdleCall)
        /\ UNCHANGED <<sent, queue, stored, unfillable>>
    BY Zenon DEF HandleResults, Blamed, netVars, dbVars
  <1>2. /\ \A o \in DOMAIN c.by : From(o, c.by[o])
        /\ c.fresh \in Seq(DOMAIN c.by \cap Valid) /\ IsFiniteSet(c.faulty) /\ c.faulty \subseteq DOMAIN c.by
        /\ \A o \in c.faulty : o \notin Valid \/ o \in unfillable
    BY Zenon DEF ScoreInv, CallInv, Handled
  <1>3. /\ score \in [Peer -> [Tag -> Int]]
        /\ \A p \in Peer : score[p]["valid-message"] \in {0, 5} /\ score[p]["order-stored"] \in {0, 10}
    BY DEF ScoreInv, Scores
  <1> HIDE DEF c
  <1>4. ASSUME NEW p \in Peer
        PROVE  k(p) \in Nat /\ (k(p) # 0 => \E o \in sent[p] : o \notin Valid \/ o \in unfillable)
    <2>1. IsFiniteSet(By(p, c.faulty))
      BY <1>2, FS_Subset, Zenon
    <2>2. k(p) \in Nat /\ (k(p) # 0 => By(p, c.faulty) # {})
      BY <2>1, FS_CardinalityType, FS_EmptySet, Zenon
    <2>3. ASSUME NEW o \in By(p, c.faulty) PROVE o \in sent[p] /\ (o \notin Valid \/ o \in unfillable)
      BY <1>2, <2>3, Zenon DEF From
    <2> HIDE DEF By, k
    <2> QED
      BY <2>2, <2>3, Zenon
  <1>5. ASSUME NEW p \in stars PROVE \E o \in sent[p] : o \in Valid
    <2>1. PICK o \in Range(c.fresh) : c.by[o] = p
      BY <1>5
    <2>2. Range(c.fresh) \subseteq DOMAIN c.by \cap Valid
      BY <1>2, FiniteElements, Zenon
    <2> QED
      BY <1>2, <2>1, <2>2, Zenon DEF From
  <1> HIDE DEF k, stars, By
  <1>6. ASSUME NEW p \in Peer
        PROVE  /\ r(p) \in [Tag -> Int] /\ r(p)["valid-message"] = score[p]["valid-message"]
               /\ r(p)["invalid-message"] = score[p]["invalid-message"] - 5 * k(p)
               /\ r(p)["order-stored"] = IF p \in stars THEN 10 ELSE score[p]["order-stored"]
    BY <1>3, <1>4 DEF Tag
  <1>7. \A p \in Peer : score'[p] = r(p)
    BY <1>1, Zenon
  <1> HIDE DEF r
  <1>8. Scores(score')
    BY <1>1, <1>3, <1>6, Zenon DEF Scores
  <1>9. ASSUME NEW p \in Peer
        PROVE  /\ score'[p]["order-stored"] > 0 => \E o \in sent[p] : o \in Valid
               /\ score'[p]["invalid-message"] < 0 => \E o \in sent[p] : o \notin Valid \/ o \in unfillable
               /\ score'[p]["valid-message"] + score'[p]["order-stored"] <= 15
    <2>1. score[p]["invalid-message"] \in Int
      BY <1>3 DEF Tag
    <2>2. /\ score[p]["order-stored"] > 0 => \E o \in sent[p] : o \in Valid
          /\ score[p]["invalid-message"] < 0 => \E o \in sent[p] : o \notin Valid \/ o \in unfillable
      BY Zenon DEF ScoreInv, ScoresAreEarned
    <2>3. score'[p]["order-stored"] > 0 => \E o \in sent[p] : o \in Valid
      BY <1>5, <1>6, <1>7, <2>2, Zenon
    <2>4. score'[p]["invalid-message"] < 0 => score[p]["invalid-message"] < 0 \/ k(p) # 0
      BY <1>4, <1>6, <1>7, <2>1
    <2>5. score'[p]["valid-message"] + score'[p]["order-stored"] <= 15
      <3>1. score'[p]["valid-message"] \in {0, 5} /\ score'[p]["order-stored"] \in {0, 10}
        BY <1>8 DEF Scores
      <3> QED
        BY <3>1
    <2> QED
      BY <1>4, <2>2, <2>3, <2>4, <2>5, Zenon
  <1>10. CallInv'
    BY <1>1, IdleHandled, CallSteps DEF Adder
  <1>11. QueueInv' /\ StoredInv'
    BY <1>1, Zenon DEF ScoreInv, QueueInv, StoredInv, From
  <1>12. Scores(score)'
    BY <1>8 DEF Scores
  <1>13. ScoresAreEarned'
    BY <1>1, <1>9, Zenon DEF ScoresAreEarned
  <1> QED
    BY <1>10, <1>11, <1>12, <1>13 DEF ScoreInv

\* An order that the node shares comes back as its own.
LEMMA ShareKeepsScores ==
    ASSUME ScoreInv, NEW failed, ShareOrder(failed)
    PROVE  ScoreInv'
  <1>1. UNCHANGED <<sent, score, stored, unfillable>>
    BY DEF ShareOrder, netVars, dbVars
  <1>2. PICK c : Step("api", c)
    BY DEF ShareOrder
  <1>3. CallInv'
    BY <1>1, <1>2, CallSteps DEF Adder
  <1> DEFINE m == [from |-> Me, data |-> Head(call["api"].fresh)]
  <1>4. queue' \in {queue, Append(queue, m)}
    BY DEF ShareOrder
  <1>5. m.from = Me
    OBVIOUS
  <1>6. /\ sent \in [Peer -> SUBSET Order] /\ IsSeq(queue) /\ Len(queue) \in Nat
        /\ \A i \in 1 .. Len(queue) : queue[i].from # Me => From(queue[i].data, queue[i].from)
    BY DEF ScoreInv, QueueInv, IsSeq
  <1> HIDE DEF m
  <1>7. /\ IsSeq(Append(queue, m)) /\ Len(Append(queue, m)) = Len(queue) + 1
        /\ Append(queue, m)[Len(queue) + 1] = m
        /\ \A i \in 1 .. Len(queue) : Append(queue, m)[i] = queue[i]
    BY <1>6, AppendSeq
  <1> DEFINE q == Append(queue, m)
  <1> HIDE DEF q
  <1>8. \A i \in 1 .. Len(queue) + 1 : i \in 1 .. Len(queue) \/ i = Len(queue) + 1
    BY <1>6
  <1>9. \A i \in 1 .. Len(q) : q[i].from # Me => From(q[i].data, q[i].from)
    BY <1>5, <1>6, <1>7, <1>8, Zenon DEF q
  <1>10. IsSeq(queue') /\ \A i \in 1 .. Len(queue') : queue'[i].from # Me => From(queue'[i].data, queue'[i].from)
    BY <1>4, <1>6, <1>7, <1>9, Zenon DEF q
  <1>11. QueueInv'
    BY <1>1, <1>6, <1>10, Zenon DEF QueueInv, From
  <1>12. StoredInv' /\ Scores(score)' /\ ScoresAreEarned'
    BY <1>1, Zenon DEF ScoreInv, StoredInv, Scores, ScoresAreEarned
  <1> QED
    BY <1>3, <1>11, <1>12 DEF ScoreInv

\* Steps that change what is stored, but neither calls nor messages.
LEMMA StoredKeepsScores ==
    ASSUME ScoreInv, UNCHANGED <<sent, queue, score, call>>, unfillable \subseteq unfillable',
           NEW o, NEW state \in {"absent", "open", "removed"}, state = "removed" => o \in unfillable',
           stored' = [stored EXCEPT ![o] = state]
    PROVE  ScoreInv'
  <1>1. StoredInv'
    BY Zenon DEF ScoreInv, StoredInv
  <1> QED
    BY <1>1, CallStays, ScoresStay

\* Block events and the checker of removed orders.
LEMMA BlocksKeepScores ==
    ASSUME ScoreInv, handleBlockEvents \/ Checker
    PROVE  ScoreInv'
  <1>1. UNCHANGED <<sent, queue, score, call>>
    BY Zenon DEF handleBlockEvents, Checker, DecodeFails, Revalidate, DeleteStale, DeleteStep, SendBlockEvents,
           PermanentlyDelete, RemoveAssets, netVars
  <1>2. CASE UNCHANGED dbVars
    BY <1>1, <1>2, CallStays, ScoresStay, Zenon DEF dbVars, ScoreInv, StoredInv
  <1>3. ASSUME NEW o \in Order, NEW state \in {"open", "removed"}, Revalidate(o, state) PROVE ScoreInv'
    <2>1. /\ stored' = [stored EXCEPT ![o] = state] /\ unfillable \subseteq unfillable'
          /\ state = "removed" => o \in unfillable'
      BY <1>3 DEF Revalidate
    <2> QED
      BY <1>1, <2>1, StoredKeepsScores, Zenon
  <1>4. CASE DeleteStep
    <2>1. stored' = stored \/ stored' = [stored EXCEPT ![blocks.order[1]] = "absent"]
      BY <1>4, Zenon DEF DeleteStep
    <2>2. unfillable' = unfillable
      BY <1>4, Zenon DEF DeleteStep
    <2> QED
      BY <1>1, <1>2, <2>1, <2>2, StoredKeepsScores, Zenon DEF dbVars
  <1>5. ASSUME NEW o \in Order, PermanentlyDelete(o) PROVE ScoreInv'
    <2>1. stored' = [stored EXCEPT ![o] = "absent"] /\ unfillable' = unfillable
      BY <1>5, Zenon DEF PermanentlyDelete
    <2> QED
      BY <1>1, <2>1, StoredKeepsScores, Zenon
  <1>6. ASSUME DecodeFails \/ (\E o \in Order : DeleteStale(o)) \/ SendBlockEvents \/ RemoveAssets PROVE UNCHANGED dbVars
    BY <1>6, Zenon DEF DecodeFails, DeleteStale, SendBlockEvents, RemoveAssets
  <1> QED
    BY <1>2, <1>3, <1>4, <1>5, <1>6 DEF handleBlockEvents, Checker

\* A new process.
LEMMA RestartKeepsScores ==
    ASSUME ScoreInv, NEW filter, NEW trimmed, Restart(filter, trimmed)
    PROVE  ScoreInv'
  <1>1. /\ sent' = [p \in Peer |-> {}] /\ queue' = <<>> /\ score' = NoScore /\ call' = [a \in Adder |-> IdleCall]
        /\ stored' = [o \in Order |-> IF o \in Range(trimmed) THEN "absent" ELSE stored[o]]
        /\ unfillable' = unfillable
    BY Zenon DEF Restart
  <1>2. QueueInv'
    <2>1. IsSeq(queue') /\ Len(queue') = 0
      BY <1>1, NoMessages
    <2> QED
      BY <1>1, <2>1 DEF QueueInv
  <1>3. StoredInv'
    BY <1>1 DEF ScoreInv, StoredInv
  <1>4. CallInv'
    <2>1. call'["handler"] = IdleCall
      BY <1>1 DEF Adder
    <2>2. /\ DOMAIN IdleCall = Field /\ IdleCall.by = <<>> /\ IdleCall.phase = "idle" /\ IdleCall.fresh = <<>>
          /\ IdleCall.faulty = {}
      BY Zenon DEF IdleCall, Field
    <2>3. IsFiniteSet({})
      BY FS_EmptySet
    <2>4. DOMAIN <<>> = {}
      OBVIOUS
    <2>5. Handled(call["handler"])'
      BY <2>1, <2>2, <2>3, <2>4 DEF Handled
    <2> QED
      BY <1>1, <2>5 DEF CallInv
  <1>5. \A p \in Peer, t \in Tag : score'[p][t] = 0
    BY <1>1 DEF NoScore, Tag
  <1>6. score' \in [Peer -> [Tag -> Int]]
    BY <1>1 DEF NoScore, Tag
  <1>7. Scores(score)'
    BY <1>5, <1>6 DEF Scores, Tag
  <1>8. ScoresAreEarned'
    BY <1>5 DEF ScoresAreEarned, Tag
  <1> QED
    BY <1>2, <1>3, <1>4, <1>7, <1>8 DEF ScoreInv

\* Every step of the node keeps the scores earned.
LEMMA ScoresKept ==
    ASSUME ScoreInv, [Next]_vars
    PROVE  ScoreInv'
  <1>0. ASSUME UNCHANGED <<sent, queue, score, call, stored, unfillable>> PROVE ScoreInv'
    BY <1>0, CallStays, ScoresStay, Zenon DEF ScoreInv, StoredInv
  <1>1. ASSUME NEW c, Step("api", c), UNCHANGED <<sent, queue, score, stored, unfillable>> PROVE ScoreInv'
    <2>1. CallInv'
      BY <1>1, CallSteps DEF Adder
    <2> QED
      BY <1>1, <2>1, ScoresStay, Zenon DEF ScoreInv, StoredInv
  <1>2. CASE Handler
    <2>1. CASE ValidateAndStoreValidOrders("handler")
      BY <2>1, ValidateKeepsScores DEF Adder
    <2> QED
      BY <1>2, <2>1, ReceiveBatchKeepsScores, ResultsKeepScores DEF Handler
  <1>3. CASE API
    <2>1. CASE ValidateAndStoreValidOrders("api")
      BY <2>1, ValidateKeepsScores DEF Adder
    <2>2. CASE Answer
      <3>1. (\E c : Step("api", c)) /\ UNCHANGED <<sent, queue, score, stored, unfillable>>
        BY <2>2 DEF Answer, netVars, dbVars
      <3> QED
        BY <1>1, <3>1
    <2> QED
      BY <1>3, <2>1, <2>2, ShareKeepsScores DEF API
  <1>4. CASE Environment
    <2>1. CASE \E m \in Arrivals : Receive(m.p, m.author, m.data)
      <3>1. PICK m \in Arrivals : Receive(m.p, m.author, m.data)
        BY <2>1
      <3>2. m.p \in Peer /\ m.author \in Peer
        BY GossipAssumption, Zenon
      <3> QED
        BY <3>1, <3>2, ReceiveKeepsScores
    <2>2. CASE \E batch \in Batches : AddOrders(batch.orders, batch.opts)
      <3>1. (\E c : call' = [call EXCEPT !["api"] = c]) /\ UNCHANGED <<sent, queue, score, stored, unfillable>>
        BY <2>2, Zenon DEF AddOrders, netVars, dbVars
      <3> QED
        BY <1>1, <3>1, Zenon DEF Step
    <2>3. CASE (\E log \in Logs : HandleLog(log)) \/ (\E c \in Client : Subscription(c)) \/ Tick \/ Cancel
      BY <1>0, <2>3, Zenon DEF HandleLog, Subscription, Tick, Cancel, netVars, dbVars
    <2> QED
      BY <1>4, <2>1, <2>2, <2>3, RestartKeepsScores DEF Environment
  <1>5. CASE handleBlockEvents \/ Checker
    BY <1>5, BlocksKeepScores
  <1>6. CASE Feed \/ \E c \in Client : Streamer(c)
    BY <1>0, <1>6, Zenon DEF Feed, Streamer, netVars, dbVars
  <1>7. CASE UNCHANGED vars
    BY <1>0, <1>7, Zenon DEF vars, netVars, dbVars
  <1> QED
    BY <1>2, <1>3, <1>4, <1>5, <1>6, <1>7 DEF Next

\* Scores are earned, whatever the peers send and whatever else the node does in the
\* meantime: a peer is rewarded only for orders of its own that are valid, is blamed
\* only for orders of its own that are not or no longer, and never for a failure of
\* this node.  The messages that HandleMessages would call invalid do not get past
\* the validators.
THEOREM ScoresEarned == Spec => []ScoresAreEarned
  <1>1. Init => ScoreInv
    <2> SUFFICES ASSUME Init PROVE ScoreInv
      OBVIOUS
    <2>1. QueueInv
      <3>1. IsSeq(queue) /\ Len(queue) = 0
        BY NoMessages DEF Init
      <3> QED
        BY <3>1 DEF Init, QueueInv
    <2>2. StoredInv
      BY Zenon DEF Init, StoredInv
    <2>3. CallInv
      BY IdleHandled DEF Init, CallInv, Adder
    <2>4. \A p \in Peer, t \in Tag : score[p][t] = 0
      BY DEF Init, NoScore, Tag
    <2>5. Scores(score)
      BY <2>4 DEF Init, NoScore, Scores, Tag
    <2>6. ScoresAreEarned
      BY <2>4 DEF ScoresAreEarned, Tag
    <2> QED
      BY <2>1, <2>2, <2>3, <2>5, <2>6 DEF ScoreInv
  <1>2. ScoreInv /\ [Next]_vars => ScoreInv'
    BY ScoresKept
  <1>3. ScoreInv => ScoresAreEarned
    BY DEF ScoreInv
  <1> QED
    BY <1>1, <1>2, <1>3, PTL DEF Spec

=============================================================================
