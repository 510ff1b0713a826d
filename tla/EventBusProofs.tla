--------------------------- MODULE EventBusProofs ---------------------------
(***************************************************************************)
(* Proofs about EventBus, for any number of publishers, subscriptions and  *)
(* events, and channels of any capacity.                                   *)
(***************************************************************************)
EXTENDS EventBus, SequenceTheorems, TLAPS

(* Types *)

LEMMA Numbers ==
  ASSUME TypeOK
  PROVE  /\ Buffer \in Nat /\ Buffer > 0 /\ MaxPublished \in Nat /\ published \in Nat
         /\ \A s \in SubId : /\ sent[s] \in Seq(Event) /\ Len(sent[s]) \in Nat
                             /\ DOMAIN sent[s] = 1..Len(sent[s])
                             /\ taken[s] \in Nat /\ taken[s] <= Len(sent[s])
                             /\ Len(sent[s]) - taken[s] <= Buffer
  <1>1. ASSUME NEW s \in SubId
        PROVE  /\ sent[s] \in Seq(Event) /\ Len(sent[s]) \in Nat
               /\ DOMAIN sent[s] = 1..Len(sent[s])
               /\ taken[s] \in Nat /\ Len(sent[s]) - taken[s] \in 0..Buffer
    <2>1. sent[s] \in Seq(Event) /\ taken[s] \in Nat /\ Len(sent[s]) - taken[s] \in 0..Buffer
      BY DEF TypeOK
    <2> QED
      BY <2>1, LenProperties
  <1>2. Buffer \in Nat /\ Buffer > 0 /\ MaxPublished \in Nat /\ published \in Nat
    BY ConstantsAssumption DEF TypeOK
  <1>3. \A s \in SubId : taken[s] <= Len(sent[s]) /\ Len(sent[s]) - taken[s] <= Buffer
    BY <1>1, <1>2
  <1> QED
    BY <1>1, <1>2, <1>3

\* Only the sends still to be made of a call change.
LEMMA CallUpdate ==
  ASSUME NEW c \in Call, NEW T \in SUBSET c.subs
  PROVE  /\ [c EXCEPT !.todo = T] \in Call
         /\ [c EXCEPT !.todo = T].event = c.event
         /\ [c EXCEPT !.todo = T].subs = c.subs
         /\ [c EXCEPT !.todo = T].todo = T
  BY DEF Call

LEMMA ContinueEffect ==
  ASSUME TypeOK, NEW p \in Publisher, call[p] # Idle, NEW s \in SubId, Continue(p, s)
  PROVE  /\ call[p] \in Call /\ call'[p] \in Call /\ call'[p] # Idle
         /\ call'[p].event = call[p].event /\ call'[p].subs = call[p].subs
         /\ call'[p].todo = call[p].todo \ {s}
         /\ \A q \in Publisher \ {p} : call'[q] = call[q]
         /\ call' \in [Publisher -> Call \cup {Idle}]
  <1>1. call \in [Publisher -> Call \cup {Idle}] /\ call[p] \in Call
    BY DEF TypeOK
  <1> DEFINE T == call[p].todo \ {s}
             c == [call[p] EXCEPT !.todo = T]
  <1>2. T \in SUBSET call[p].subs
    BY <1>1 DEF Call
  <1>3. c \in Call /\ c.event = call[p].event /\ c.subs = call[p].subs /\ c.todo = T
    BY <1>1, <1>2, CallUpdate
  <1>4. call' = [call EXCEPT ![p] = c]
    BY DEF Continue
  <1> HIDE DEF c
  <1>5. c # Idle
    BY <1>3, IdleAssumption
  <1> QED
    BY <1>1, <1>3, <1>4, <1>5

LEMMA SendEffect ==
  ASSUME TypeOK, NEW p \in Publisher, NEW s \in SubId, Send(p, s)
  PROVE  /\ call[p] # Idle /\ call[p] \in Call /\ s \in call[p].todo /\ channel[s] = "open"
         /\ call[p].event \in Event /\ Len(sent[s]) - taken[s] < Buffer
         /\ sent' = [sent EXCEPT ![s] = Append(sent[s], call[p].event)]
         /\ sent'[s] \in Seq(Event) /\ Len(sent'[s]) = Len(sent[s]) + 1
         /\ DOMAIN sent'[s] = 1..Len(sent[s]) + 1
         /\ \A k \in DOMAIN sent[s] : sent'[s][k] = sent[s][k]
         /\ sent'[s][Len(sent[s]) + 1] = call[p].event
         /\ \A t \in SubId \ {s} : sent'[t] = sent[t]
  <1>1. /\ call[p] # Idle /\ s \in NextSubs(p) /\ channel[s] = "open"
        /\ sent' = [sent EXCEPT ![s] = Append(sent[s], call[p].event)]
    BY DEF Send, Reaches
  <1>2. s \in call[p].todo
    BY <1>1 DEF NextSubs
  <1>3. call[p] \in Call /\ sent \in [SubId -> Seq(Event)]
    BY <1>1 DEF TypeOK
  <1>4. call[p].event \in Event
    BY <1>3 DEF Call
  <1>5. Len(sent[s]) - taken[s] < Buffer
    <2>1. Len(sent[s]) - taken[s] # Buffer
      BY DEF Send, Full
    <2>2. /\ Len(sent[s]) \in Nat /\ taken[s] \in Nat /\ Buffer \in Nat
          /\ Len(sent[s]) - taken[s] <= Buffer
      BY Numbers
    <2> QED
      BY <2>1, <2>2
  <1>6. sent'[s] = Append(sent[s], call[p].event) /\ \A t \in SubId \ {s} : sent'[t] = sent[t]
    BY <1>1, <1>3
  <1>7. /\ sent'[s] \in Seq(Event) /\ Len(sent'[s]) = Len(sent[s]) + 1
        /\ \A k \in 1..Len(sent[s]) : sent'[s][k] = sent[s][k]
        /\ sent'[s][Len(sent[s]) + 1] = call[p].event
    BY <1>3, <1>4, <1>6, AppendProperties
  <1>8. DOMAIN sent'[s] = 1..Len(sent[s]) + 1
    BY <1>7, LenProperties
  <1> QED
    BY <1>1, <1>2, <1>3, <1>4, <1>5, <1>6, <1>7, <1>8, Numbers

LEMMA TypeInit == Init => TypeOK
  <1> SUFFICES ASSUME Init PROVE TypeOK
    OBVIOUS
  <1>1. <<>> \in Seq(Event) /\ Len(<<>>) = 0
    BY EmptySeq
  <1>2. \A s \in SubId : Len(sent[s]) - taken[s] = 0
    BY <1>1 DEF Init
  <1>3. 0 \in 0..Buffer /\ published \in 0..MaxPublished
    BY ConstantsAssumption DEF Init
  <1> QED
    BY <1>1, <1>2, <1>3 DEF Init, TypeOK

LEMMA TypeStep == TypeOK /\ [Next]_vars => TypeOK'
  <1> SUFFICES ASSUME TypeOK, [Next]_vars PROVE TypeOK'
    OBVIOUS
  <1>1. ASSUME NEW s \in SubId, NEW types \in SUBSET Type, Subscribe(s, types) PROVE TypeOK'
    BY <1>1 DEF Subscribe, TypeOK, traffic
  <1>2. ASSUME NEW s \in SubId, Unsubscribe(s) PROVE TypeOK'
    BY <1>2 DEF Unsubscribe, TypeOK, traffic
  <1>3. CASE Close
    BY <1>3 DEF Close, TypeOK, traffic
  <1>4. ASSUME NEW p \in Publisher, NEW t \in Type, Publish(p, t) PROVE TypeOK'
    <2> DEFINE subs == {s \in listed : t \in wants[s]}
               e == [by |-> p, seq |-> published', type |-> t]
               c == [event |-> e, subs |-> subs, todo |-> subs]
    <2>1. published' \in 1..MaxPublished
      BY <1>4, Numbers DEF Publish
    <2>2. e \in Event
      BY <2>1 DEF Event
    <2>3. subs \in SUBSET SubId
      BY DEF TypeOK
    <2> HIDE DEF e, subs
    <2>4. c \in Call
      BY <2>2, <2>3 DEF Call
    <2>5. call' = [call EXCEPT ![p] = c]
      BY <1>4 DEF Publish, e, subs
    <2> HIDE DEF c
    <2>6. call' \in [Publisher -> Call \cup {Idle}] /\ published' \in 0..MaxPublished
      BY <2>1, <2>4, <2>5, Numbers DEF TypeOK
    <2> QED
      BY <1>4, <2>6 DEF Publish, TypeOK, bus, traffic
  <1>5. ASSUME NEW p \in Publisher, NEW s \in SubId, Send(p, s) PROVE TypeOK'
    <2>1. call' \in [Publisher -> Call \cup {Idle}]
      BY <1>5, ContinueEffect, SendEffect DEF Send
    <2>2. sent' \in [SubId -> Seq(Event)]
      BY <1>5, SendEffect DEF TypeOK
    <2>3. \A t \in SubId : Len(sent'[t]) - taken[t] \in 0..Buffer
      BY <1>5, SendEffect, Numbers
    <2> QED
      BY <1>5, <2>1, <2>2, <2>3 DEF Send, TypeOK, bus
  <1>6. ASSUME NEW p \in Publisher, NEW s \in SubId, Drop(p, s) PROVE TypeOK'
    BY <1>6, ContinueEffect DEF Drop, Reaches, TypeOK, bus, traffic
  <1>7. ASSUME NEW p \in Publisher, GiveUp(p) \/ Return(p) PROVE TypeOK'
    <2>1. missed' \subseteq SubId
      BY <1>7 DEF GiveUp, Return, TypeOK, Call
    <2> QED
      BY <1>7, <2>1 DEF GiveUp, Return, TypeOK, bus, traffic
  <1>8. ASSUME NEW p \in Publisher, NEW s \in SubId, SendOnClosed(p, s) PROVE TypeOK'
    BY <1>8 DEF SendOnClosed, TypeOK, bus, traffic
  <1>9. ASSUME NEW s \in SubId, Receive(s) PROVE TypeOK'
    <2>1. taken' = [taken EXCEPT ![s] = taken[s] + 1] /\ taken[s] < Len(sent[s]) /\ sent' = sent
      BY <1>9 DEF Receive
    <2>2. taken' \in [SubId -> Nat]
      BY <2>1, Numbers DEF TypeOK
    <2>3. \A t \in SubId : Len(sent[t]) - taken'[t] \in 0..Buffer
      BY <2>1, Numbers DEF TypeOK
    <2> QED
      BY <1>9, <2>1, <2>2, <2>3 DEF Receive, TypeOK, bus
  <1>10. ASSUME NEW p \in Publisher, ContextEnds(p) PROVE TypeOK'
    BY <1>10 DEF ContextEnds, TypeOK, bus, traffic
  <1>11. CASE UNCHANGED vars
    BY <1>11 DEF vars, TypeOK, bus, traffic
  <1> QED
    BY <1>1, <1>2, <1>3, <1>4, <1>5, <1>6, <1>7, <1>8, <1>9, <1>10, <1>11
    DEF Next, Environment, PublishStep

\* TypeOK holds in every reachable state: in particular no channel ever holds
\* more than its capacity, however many goroutines send to it, and no Publish
\* has anyone left to send to who is not in its copy.
THEOREM TypeCorrect == Spec => []TypeOK
  BY TypeInit, TypeStep, PTL DEF Spec

-----------------------------------------------------------------------------
(* The order of one publisher's events *)

\* No event in a channel is newer than the last call of Publish.
Numbered == \A s \in SubId : \A k \in DOMAIN sent[s] : sent[s][k].seq <= published

\* A running call sends the newest event of its publisher, and to each of the
\* subscribers it still has to reach for the first time.
Sending ==
  \A p \in Publisher : call[p] # Idle =>
    /\ call[p].event.by = p /\ call[p].event.seq <= published
    /\ \A s \in SubId : \A k \in DOMAIN sent[s] : sent[s][k].by = p =>
         /\ sent[s][k].seq <= call[p].event.seq
         /\ s \in call[p].todo => sent[s][k].seq < call[p].event.seq

OrderInv == Numbered /\ Sending /\ PublisherOrder

LEMMA SendOrder ==
  ASSUME TypeOK, OrderInv, NEW p \in Publisher, NEW s \in SubId, Send(p, s)
  PROVE  OrderInv'
  <1> USE DEF OrderInv
  <1> DEFINE n == Len(sent[s])
             e == call[p].event
  <1>1. /\ call[p] # Idle /\ s \in call[p].todo
        /\ DOMAIN sent[s] = 1..n /\ n \in Nat
        /\ DOMAIN sent'[s] = 1..n + 1
        /\ \A k \in 1..n : sent'[s][k] = sent[s][k]
        /\ sent'[s][n + 1] = e
        /\ \A t \in SubId \ {s} : sent'[t] = sent[t]
    BY SendEffect, Numbers
  <1>2. /\ call'[p] # Idle /\ call'[p].event = e /\ call'[p].todo = call[p].todo \ {s}
        /\ \A q \in Publisher \ {p} : call'[q] = call[q]
    BY <1>1, ContinueEffect DEF Send
  <1>3. published' = published
    BY DEF Send
  <1>4. e.by = p /\ e.seq <= published /\ \A k \in 1..n : sent[s][k].by = p => sent[s][k].seq < e.seq
    BY <1>1 DEF Sending
  <1>5. /\ e.seq \in Nat /\ \A k \in 1..n : sent[s][k].seq \in Nat
    <2>1. e \in Event
      BY SendEffect
    <2>2. \A k \in 1..n : sent[s][k] \in Event
      BY <1>1, Numbers, ElementOfSeq
    <2> QED
      BY <2>1, <2>2, Numbers DEF Event
  <1> HIDE DEF n, e
  <1>6. Numbered'
    BY <1>1, <1>3, <1>4 DEF Numbered
  <1>7. Sending'
    <2> SUFFICES ASSUME NEW q \in Publisher, call'[q] # Idle
                 PROVE  /\ call'[q].event.by = q /\ call'[q].event.seq <= published
                        /\ \A t \in SubId : \A k \in DOMAIN sent'[t] : sent'[t][k].by = q =>
                             /\ sent'[t][k].seq <= call'[q].event.seq
                             /\ t \in call'[q].todo => sent'[t][k].seq < call'[q].event.seq
      BY <1>3 DEF Sending
    <2>1. CASE q = p
      <3>1. \A k \in DOMAIN sent'[s] : sent'[s][k].by = p => sent'[s][k].seq <= e.seq
        BY <1>1, <1>4, <1>5
      <3> QED
        BY <1>1, <1>2, <1>4, <2>1, <3>1 DEF Sending, e
    <2>2. CASE q # p
      BY <1>1, <1>2, <1>4, <2>2 DEF Sending
    <2> QED
      BY <2>1, <2>2
  <1>8. PublisherOrder'
    <2> SUFFICES ASSUME NEW t \in SubId, NEW j \in DOMAIN sent'[t], NEW k \in DOMAIN sent'[t],
                        j < k, sent'[t][j].by = sent'[t][k].by
                 PROVE  sent'[t][j].seq < sent'[t][k].seq
      BY DEF PublisherOrder
    <2>1. CASE t = s /\ k = n + 1
      <3>1. j \in 1..n
        BY <1>1, <2>1
      <3> QED
        BY <1>1, <1>4, <2>1, <3>1
    <2>2. CASE t = s /\ k # n + 1
      <3>1. j \in 1..n /\ k \in 1..n
        BY <1>1, <2>2
      <3> QED
        BY <1>1, <2>2, <3>1 DEF PublisherOrder
    <2>3. CASE t # s
      BY <1>1, <2>3 DEF PublisherOrder
    <2> QED
      BY <2>1, <2>2, <2>3
  <1> QED
    BY <1>6, <1>7, <1>8

LEMMA OrderStep ==
  ASSUME TypeOK, OrderInv, [Next]_vars PROVE OrderInv'
  <1> USE DEF OrderInv
  <1>0. \A s \in SubId : \A k \in DOMAIN sent[s] : sent[s][k].seq \in Nat
    <2>1. \A s \in SubId : \A k \in DOMAIN sent[s] : sent[s][k] \in Event
      BY Numbers, ElementOfSeq
    <2> QED
      BY <2>1, Numbers DEF Event
  <1>1. ASSUME NEW p \in Publisher, NEW t \in Type, Publish(p, t) PROVE OrderInv'
    <2>1. published' = published + 1 /\ sent' = sent
      BY <1>1 DEF Publish, traffic
    <2>2. /\ call'[p].event.by = p /\ call'[p].event.seq = published'
          /\ \A q \in Publisher \ {p} : call'[q] = call[q]
      BY <1>1 DEF Publish, TypeOK
    <2>3. Numbered' /\ \A s \in SubId : \A k \in DOMAIN sent[s] : sent[s][k].seq < published'
      BY <1>0, <2>1, Numbers DEF Numbered
    <2>4. \A q \in Publisher : call[q] # Idle => call[q].event.seq \in Nat
      BY Numbers DEF TypeOK, Call, Event
    <2>5. Sending'
      <3> SUFFICES ASSUME NEW q \in Publisher, call'[q] # Idle
                   PROVE  /\ call'[q].event.by = q /\ call'[q].event.seq <= published'
                          /\ \A s \in SubId : \A k \in DOMAIN sent[s] : sent[s][k].by = q =>
                             /\ sent[s][k].seq <= call'[q].event.seq
                             /\ s \in call'[q].todo => sent[s][k].seq < call'[q].event.seq
        BY <2>1 DEF Sending
      <3>1. CASE q = p
        BY <1>0, <2>1, <2>2, <2>3, <3>1, Numbers
      <3>2. CASE q # p
        BY <2>1, <2>2, <2>4, <3>2, Numbers DEF Sending
      <3> QED
        BY <3>1, <3>2
    <2> QED
      BY <2>1, <2>3, <2>5 DEF PublisherOrder
  <1>2. ASSUME NEW p \in Publisher, NEW s \in SubId, Drop(p, s) PROVE OrderInv'
    <2>1. UNCHANGED <<sent, published>> /\ call[p] # Idle
      BY <1>2 DEF Drop, traffic, Reaches
    <2>2. /\ call'[p].event = call[p].event /\ call'[p].todo = call[p].todo \ {s}
          /\ \A q \in Publisher \ {p} : call'[q] = call[q]
      BY <1>2, <2>1, ContinueEffect DEF Drop
    <2>3. Sending'
      <3> SUFFICES ASSUME NEW q \in Publisher, call'[q] # Idle
                   PROVE  /\ call'[q].event.by = q /\ call'[q].event.seq <= published
                          /\ \A u \in SubId : \A k \in DOMAIN sent[u] : sent[u][k].by = q =>
                             /\ sent[u][k].seq <= call'[q].event.seq
                             /\ u \in call'[q].todo => sent[u][k].seq < call'[q].event.seq
        BY <2>1 DEF Sending
      <3>1. /\ call[q] # Idle /\ call'[q].event = call[q].event
            /\ call'[q].todo \subseteq call[q].todo
        BY <2>1, <2>2
      <3> QED
        BY <3>1 DEF Sending
    <2> QED
      BY <2>1, <2>3 DEF Numbered, PublisherOrder
  <1>3. ASSUME NEW p \in Publisher, GiveUp(p) \/ Return(p) PROVE OrderInv'
    <2>1. UNCHANGED <<sent, published>> /\ call' = [call EXCEPT ![p] = Idle]
      BY <1>3 DEF GiveUp, Return, traffic
    <2>2. call'[p] = Idle /\ \A q \in Publisher \ {p} : call'[q] = call[q]
      BY <2>1 DEF TypeOK
    <2>3. Sending'
      BY <2>1, <2>2 DEF Sending
    <2> QED
      BY <2>1, <2>3 DEF Numbered, PublisherOrder
  <1>4. ASSUME UNCHANGED <<sent, call, published>> PROVE OrderInv'
    BY <1>4 DEF Numbered, Sending, PublisherOrder
  <1>5. \/ UNCHANGED <<sent, call, published>>
        \/ \E p \in Publisher, t \in Type : Publish(p, t)
        \/ \E p \in Publisher, s \in SubId : Send(p, s) \/ Drop(p, s)
        \/ \E p \in Publisher : GiveUp(p) \/ Return(p)
    BY DEF Next, Environment, PublishStep, Close, Subscribe, Unsubscribe, Receive, ContextEnds,
           SendOnClosed, vars, bus, traffic
  <1> QED
    BY <1>1, <1>2, <1>3, <1>4, <1>5, SendOrder

LEMMA OrderInvariant == Spec => []OrderInv
  <1>1. Init => OrderInv
    BY DEF Init, OrderInv, Numbered, Sending, PublisherOrder
  <1>2. TypeOK /\ OrderInv /\ [Next]_vars => OrderInv'
    BY OrderStep
  <1> QED
    BY <1>1, <1>2, TypeCorrect, PTL DEF Spec

\* A subscriber gets the events of one publisher in the order in which Publish
\* took their numbers, and none twice, though Publish sends after it has let go
\* of the lock and others publish, subscribe and close meanwhile.
THEOREM EventsInOrder == Spec => []PublisherOrder
  <1>1. OrderInv => PublisherOrder
    BY DEF OrderInv
  <1> QED
    BY <1>1, OrderInvariant, PTL

-----------------------------------------------------------------------------
(* What a slow consumer costs *)

\* A channel found full is noted as such.
Noticed == \A s \in SubId : Full(s) => s \in wasFull

\* Whom a running call has passed has the event, or had a full channel.
Accounted ==
  \A p \in Publisher : call[p] # Idle =>
    \A s \in call[p].subs \ call[p].todo : Delivered(p, s) \/ s \in wasFull

LossInv == Noticed /\ Accounted /\ NothingLostUnlessFull

LEMMA SendLoss ==
  ASSUME TypeOK, LossInv, NEW p \in Publisher, NEW s \in SubId, Send(p, s)
  PROVE  LossInv'
  <1> USE DEF LossInv
  <1> DEFINE n == Len(sent[s])
             e == call[p].event
  <1>1. /\ call[p] # Idle
        /\ DOMAIN sent[s] = 1..n /\ n \in Nat
        /\ DOMAIN sent'[s] = 1..n + 1
        /\ \A k \in 1..n : sent'[s][k] = sent[s][k]
        /\ sent'[s][n + 1] = e
        /\ \A t \in SubId \ {s} : sent'[t] = sent[t]
    BY SendEffect, Numbers
  <1>2. /\ call'[p] # Idle /\ call'[p].event = e /\ call'[p].todo = call[p].todo \ {s}
        /\ call'[p].subs = call[p].subs
        /\ \A q \in Publisher \ {p} : call'[q] = call[q]
    BY <1>1, ContinueEffect DEF Send
  <1>3. taken' = taken /\ missed' = missed
    BY DEF Send
  <1>4. wasFull \subseteq wasFull' /\ (Full(s)' => s \in wasFull')
    BY DEF Send
  <1>5. ASSUME NEW q \in Publisher, NEW t \in SubId, call'[q] # Idle, Delivered(q, t)
        PROVE  Delivered(q, t)'
    <2>1. call'[q].event = call[q].event
      BY <1>2
    <2>2. PICK k \in DOMAIN sent[t] : sent[t][k] = call[q].event
      BY <1>5 DEF Delivered
    <2>3. k \in DOMAIN sent'[t] /\ sent'[t][k] = sent[t][k]
      BY <1>1, <2>2
    <2> QED
      BY <2>1, <2>2, <2>3 DEF Delivered
  <1>6. Delivered(p, s)'
    BY <1>1, <1>2 DEF Delivered
  <1> HIDE DEF n, e
  <1>7. Noticed'
    BY <1>1, <1>3, <1>4 DEF Noticed, Full
  <1>8. Accounted'
    <2> SUFFICES ASSUME NEW q \in Publisher, call'[q] # Idle,
                        NEW t \in call'[q].subs \ call'[q].todo
                 PROVE  Delivered(q, t)' \/ t \in wasFull'
      BY DEF Accounted
    <2>1. CASE q = p /\ t = s
      BY <1>6, <2>1
    <2>2. CASE ~(q = p /\ t = s)
      <3>1. call[q] # Idle /\ t \in call[q].subs \ call[q].todo
        BY <1>1, <1>2, <2>2
      <3>2. t \in SubId
        BY <3>1 DEF TypeOK, Call
      <3> QED
        BY <1>4, <1>5, <3>1, <3>2 DEF Accounted
    <2> QED
      BY <2>1, <2>2
  <1>9. NothingLostUnlessFull'
    BY <1>3, <1>4 DEF NothingLostUnlessFull
  <1> QED
    BY <1>7, <1>8, <1>9

LEMMA LossStep ==
  ASSUME TypeOK, LossInv, [Next]_vars PROVE LossInv'
  <1> USE DEF LossInv
  <1>1. ASSUME NEW p \in Publisher, NEW t \in Type, Publish(p, t) PROVE LossInv'
    <2>1. UNCHANGED <<sent, taken, wasFull, missed>>
      BY <1>1 DEF Publish, traffic
    <2>2. /\ call'[p].todo = call'[p].subs
          /\ \A q \in Publisher \ {p} : call'[q] = call[q]
      BY <1>1 DEF Publish, TypeOK
    <2>3. Accounted'
      BY <2>1, <2>2 DEF Accounted, Delivered
    <2> QED
      BY <2>1, <2>3 DEF Noticed, Full, NothingLostUnlessFull
  <1>2. ASSUME NEW p \in Publisher, NEW s \in SubId, Drop(p, s) PROVE LossInv'
    <2>1. UNCHANGED <<sent, taken, wasFull, missed>> /\ call[p] # Idle /\ Full(s)
      BY <1>2 DEF Drop, traffic, Reaches
    <2>2. /\ call'[p].event = call[p].event /\ call'[p].todo = call[p].todo \ {s}
          /\ call'[p].subs = call[p].subs
          /\ \A q \in Publisher \ {p} : call'[q] = call[q]
      BY <1>2, <2>1, ContinueEffect DEF Drop
    <2>3. s \in wasFull
      BY <2>1 DEF Noticed
    <2>4. Accounted'
      <3> SUFFICES ASSUME NEW q \in Publisher, call'[q] # Idle,
                          NEW u \in call'[q].subs \ call'[q].todo
                   PROVE  Delivered(q, u)' \/ u \in wasFull
        BY <2>1 DEF Accounted
      <3>1. Delivered(q, u)' <=> Delivered(q, u)
        BY <2>1, <2>2 DEF Delivered
      <3> QED
        BY <2>1, <2>2, <2>3, <3>1 DEF Accounted
    <2> QED
      BY <2>1, <2>4 DEF Noticed, Full, NothingLostUnlessFull
  <1>3. ASSUME NEW p \in Publisher, GiveUp(p) \/ Return(p) PROVE LossInv'
    <2>1. UNCHANGED <<sent, taken, wasFull>> /\ call' = [call EXCEPT ![p] = Idle]
      BY <1>3 DEF GiveUp, Return, traffic
    <2>2. call'[p] = Idle /\ \A q \in Publisher \ {p} : call'[q] = call[q]
      BY <2>1 DEF TypeOK
    <2>3. Accounted'
      BY <2>1, <2>2 DEF Accounted, Delivered
    <2>4. missed' \subseteq wasFull
      BY <1>3 DEF GiveUp, Return, Accounted, NothingLostUnlessFull
    <2> QED
      BY <2>1, <2>3, <2>4 DEF Noticed, Full, NothingLostUnlessFull
  <1>4. ASSUME NEW s \in SubId, Receive(s) PROVE LossInv'
    <2>1. UNCHANGED <<sent, call, wasFull, missed>> /\ taken' = [taken EXCEPT ![s] = taken[s] + 1]
      BY <1>4 DEF Receive
    <2>2. ~Full(s)'
      BY <2>1, Numbers DEF Full, TypeOK
    <2>3. \A t \in SubId \ {s} : Full(t)' <=> Full(t)
      BY <2>1 DEF Full, TypeOK
    <2> QED
      BY <2>1, <2>2, <2>3 DEF Noticed, Accounted, Delivered, NothingLostUnlessFull
  <1>5. ASSUME UNCHANGED <<sent, taken, call, wasFull, missed>> PROVE LossInv'
    BY <1>5 DEF Noticed, Full, Accounted, Delivered, NothingLostUnlessFull
  <1>6. \/ UNCHANGED <<sent, taken, call, wasFull, missed>>
        \/ \E p \in Publisher, t \in Type : Publish(p, t)
        \/ \E p \in Publisher, s \in SubId : Send(p, s) \/ Drop(p, s)
        \/ \E p \in Publisher : GiveUp(p) \/ Return(p)
        \/ \E s \in SubId : Receive(s)
    BY DEF Next, Environment, PublishStep, Close, Subscribe, Unsubscribe, ContextEnds,
           SendOnClosed, vars, bus, traffic
  <1> QED
    BY <1>1, <1>2, <1>3, <1>4, <1>5, <1>6, SendLoss

\* A slow consumer loses its own events only: whoever a Publish that returned
\* without an error left out had a full channel at some time.
THEOREM LossIsLocal == Spec => []NothingLostUnlessFull
  <1>1. Init => LossInv
    <2> SUFFICES ASSUME Init PROVE LossInv
      OBVIOUS
    <2>1. \A s \in SubId : ~Full(s)
      BY ConstantsAssumption, EmptySeq DEF Init, Full
    <2> QED
      BY <2>1 DEF Init, LossInv, Noticed, Accounted, NothingLostUnlessFull
  <1>2. TypeOK /\ LossInv /\ [Next]_vars => LossInv'
    BY LossStep
  <1>3. LossInv => NothingLostUnlessFull
    BY DEF LossInv
  <1> QED
    BY <1>1, <1>2, <1>3, TypeCorrect, PTL DEF Spec

-----------------------------------------------------------------------------
(* EventBus implements LossyQueues *)

\* What is put at the end of a sequence is at the end of every rest of it.
LEMMA RestOfAppend ==
  ASSUME NEW S, NEW q \in Seq(S), NEW e \in S, NEW t \in 0..Len(q)
  PROVE  SubSeq(Append(q, e), t + 1, Len(q) + 1) = Append(SubSeq(q, t + 1, Len(q)), e)
  <1> DEFINE n == Len(q)
             a == Append(q, e)
             r == SubSeq(q, t + 1, n)
  <1>1. n \in Nat /\ t \in Nat /\ t <= n
    BY LenProperties
  <1>2. /\ a \in Seq(S) /\ Len(a) = n + 1
        /\ \A i \in 1..n : a[i] = q[i]
        /\ a[n + 1] = e
    BY AppendProperties
  <1>3. \A i \in 1..n : q[i] \in S
    BY ElementOfSeq
  <1>4. r \in Seq(S) /\ Len(r) = n - t /\ \A i \in 1..n - t : r[i] = q[t + i]
    <2>1. t + 1 \in Int /\ n \in Int /\ \A i \in t + 1..n : q[i] \in S
      BY <1>1, <1>3
    <2>2. /\ r \in Seq(S) /\ Len(r) = IF t + 1 <= n THEN n - (t + 1) + 1 ELSE 0
          /\ \A i \in 1..n - (t + 1) + 1 : r[i] = q[t + 1 + i - 1]
      BY <2>1, SubSeqProperties
    <2> QED
      BY <1>1, <2>2
  <1>5. /\ SubSeq(a, t + 1, n + 1) \in Seq(S) /\ Len(SubSeq(a, t + 1, n + 1)) = n - t + 1
        /\ \A i \in 1..n - t + 1 : SubSeq(a, t + 1, n + 1)[i] = a[t + i]
    <2>1. t + 1 \in Int /\ n + 1 \in Int /\ \A i \in t + 1..n + 1 : a[i] \in S
      BY <1>1, <1>2, <1>3
    <2> HIDE DEF a
    <2>2. /\ SubSeq(a, t + 1, n + 1) \in Seq(S)
          /\ Len(SubSeq(a, t + 1, n + 1)) = IF t + 1 <= n + 1 THEN n + 1 - (t + 1) + 1 ELSE 0
          /\ \A i \in 1..n + 1 - (t + 1) + 1 : SubSeq(a, t + 1, n + 1)[i] = a[t + 1 + i - 1]
      BY <2>1, SubSeqProperties
    <2> QED
      BY <1>1, <2>2
  <1>6. /\ Append(r, e) \in Seq(S) /\ Len(Append(r, e)) = n - t + 1
        /\ \A i \in 1..n - t : Append(r, e)[i] = r[i]
        /\ Append(r, e)[n - t + 1] = e
    <2> HIDE DEF r
    <2> QED
      BY <1>4, AppendProperties
  <1> HIDE DEF n, a, r
  <1>7. \A i \in 1..n - t + 1 : SubSeq(a, t + 1, n + 1)[i] = Append(r, e)[i]
    <2>1. ASSUME NEW i \in 1..n - t PROVE a[t + i] = Append(r, e)[i]
      BY <1>1, <1>2, <1>4, <1>6
    <2>2. a[t + (n - t + 1)] = Append(r, e)[n - t + 1]
      BY <1>1, <1>2, <1>6
    <2>3. \A i \in 1..n - t + 1 : i \in 1..n - t \/ i = n - t + 1
      BY <1>1
    <2>4. \A i \in 1..n - t + 1 : a[t + i] = Append(r, e)[i]
      BY <2>1, <2>2, <2>3
    <2> QED
      BY <1>5, <2>4
  <1>8. SubSeq(a, t + 1, n + 1) = Append(r, e)
    BY <1>5, <1>6, <1>7, SeqEqual
  <1> QED
    BY <1>8 DEF n, a, r

LEMMA RestOfTail ==
  ASSUME NEW S, NEW q \in Seq(S), NEW t \in Nat, t < Len(q)
  PROVE  /\ SubSeq(q, t + 1, Len(q)) # <<>>
         /\ Tail(SubSeq(q, t + 1, Len(q))) = SubSeq(q, t + 1 + 1, Len(q))
  <1>1. Len(q) \in Nat /\ t + 1 \in 1..Len(q) /\ Len(q) \in t + 1..Len(q)
    BY LenProperties
  <1>2. \A i \in t + 1..Len(q) : q[i] \in S
    BY <1>1, ElementOfSeq
  <1>3. Len(SubSeq(q, t + 1, Len(q))) = Len(q) - (t + 1) + 1
    BY <1>1, <1>2, SubSeqProperties
  <1>4. SubSeq(q, t + 1, Len(q)) # <<>>
    <2>1. Len(q) - (t + 1) + 1 # 0
      BY <1>1
    <2>2. Len(<<>>) = 0
      BY EmptySeq
    <2> QED
      BY <1>3, <2>1, <2>2
  <1> QED
    BY <1>1, <1>4, HeadTailOfSubSeq

\* The variables of LossyQueues, as ImplementsQueues has them.
Queue == [s \in SubId |-> SubSeq(sent[s], taken[s] + 1, Len(sent[s]))]
Latest == [s \in SubId |-> Newest(s)]

LEMMA QueuesMean ==
  /\ Queues!vars = <<Queue, channel, Latest>>
  /\ (Queues!vars)' = <<Queue', channel', Latest'>>
  /\ \A s : Queues!Open(s) <=>
       /\ channel[s] = "none" /\ channel' = [channel EXCEPT ![s] = "open"]
       /\ UNCHANGED <<Queue, Latest>>
  /\ Queues!End <=>
       /\ \E R \in SUBSET {s \in SubId : channel[s] = "open"} :
            channel' = [s \in SubId |-> IF s \in R THEN "closed" ELSE channel[s]]
       /\ UNCHANGED <<Queue, Latest>>
  /\ \A s, m : Queues!Put(s, m) <=>
       /\ channel[s] = "open" /\ Len(Queue[s]) < Buffer
       /\ \A n \in Latest[s] : n.by = m.by => n.seq < m.seq
       /\ Queue' = [Queue EXCEPT ![s] = Append(@, m)]
       /\ Latest' = [Latest EXCEPT ![s] = {n \in @ : n.by # m.by} \cup {m}]
       /\ UNCHANGED channel
  /\ \A s : Queues!Take(s) <=>
       /\ Queue[s] # <<>> /\ Queue' = [Queue EXCEPT ![s] = Tail(@)]
       /\ UNCHANGED <<channel, Latest>>
  BY DEF Queues!vars, Queues!Open, Queues!End, Queues!Put, Queues!Take, Queue, Latest

LEMMA SameTraffic ==
  ASSUME UNCHANGED <<sent, taken>> PROVE UNCHANGED <<Queue, Latest>>
  BY DEF Queue, Latest, Newest

\* The ids listed are those whose channel is open.
OpenListed == listed = {s \in SubId : channel[s] = "open"}

LEMMA OpenStep == TypeOK /\ OpenListed /\ [Next]_vars => OpenListed'
  <1> SUFFICES ASSUME TypeOK, OpenListed, [Next]_vars PROVE OpenListed'
    OBVIOUS
  <1> USE DEF OpenListed
  <1>1. ASSUME NEW s \in SubId, NEW types \in SUBSET Type, Subscribe(s, types) PROVE OpenListed'
    BY <1>1 DEF Subscribe, TypeOK
  <1>2. ASSUME NEW s \in SubId, Unsubscribe(s) PROVE OpenListed'
    BY <1>2 DEF Unsubscribe, TypeOK
  <1>3. CASE Close
    BY <1>3 DEF Close
  <1>4. CASE UNCHANGED <<listed, channel>>
    BY <1>4
  <1> QED
    BY <1>1, <1>2, <1>3, <1>4
    DEF Next, Environment, PublishStep, Publish, Send, Drop, SendOnClosed, GiveUp, Return,
        Receive, ContextEnds, vars, bus

\* A send puts the event at the end of the queue, newer than all of its publisher.
LEMMA QueuePut ==
  ASSUME TypeOK, OrderInv, NEW p \in Publisher, NEW s \in SubId, Send(p, s)
  PROVE  \E m \in Event : Queues!Put(s, m)
  <1> DEFINE n == Len(sent[s])
  <1>0. PICK e \in Event : e = call[p].event
    BY SendEffect
  <1>1. /\ call[p] # Idle /\ s \in call[p].todo /\ channel[s] = "open"
        /\ n - taken[s] < Buffer
        /\ sent'[s] = Append(sent[s], e) /\ Len(sent'[s]) = n + 1
        /\ DOMAIN sent[s] = 1..n /\ DOMAIN sent'[s] = 1..n + 1
        /\ \A k \in 1..n : sent'[s][k] = sent[s][k]
        /\ sent'[s][n + 1] = e
        /\ \A t \in SubId \ {s} : sent'[t] = sent[t]
    BY <1>0, SendEffect, Numbers DEF TypeOK
  <1>2. taken' = taken /\ channel' = channel
    BY DEF Send, bus
  <1>3. sent[s] \in Seq(Event) /\ taken[s] \in 0..n /\ n \in Nat /\ Buffer \in Nat
    BY Numbers
  <1> HIDE DEF n
  <1>4. Len(Queue[s]) < Buffer
    <2>1. \A i \in taken[s] + 1..n : sent[s][i] \in Event
      BY <1>3, ElementOfSeq DEF n
    <2>2. Len(SubSeq(sent[s], taken[s] + 1, n)) =
            IF taken[s] + 1 <= n THEN n - (taken[s] + 1) + 1 ELSE 0
      BY <1>3, <2>1, SubSeqProperties
    <2>3. Len(Queue[s]) = Len(SubSeq(sent[s], taken[s] + 1, n))
      BY DEF Queue, n
    <2>4. Buffer > 0
      BY ConstantsAssumption
    <2> QED
      BY <1>1, <1>3, <2>2, <2>3, <2>4
  <1>5. Queue' = [Queue EXCEPT ![s] = Append(@, e)]
    <2>1. Queue'[s] = Append(Queue[s], e)
      <3>1. SubSeq(Append(sent[s], e), taken[s] + 1, n + 1)
              = Append(SubSeq(sent[s], taken[s] + 1, n), e)
        BY <1>1, <1>3, RestOfAppend DEF n
      <3> QED
        BY <1>1, <1>2, <3>1 DEF Queue, n
    <2>2. \A t \in SubId \ {s} : Queue'[t] = Queue[t]
      BY <1>1, <1>2 DEF Queue
    <2> QED
      BY <2>1, <2>2 DEF Queue
  <1>6. Newest(s)' = {m \in Newest(s) : m.by # e.by} \cup {e}
    <2>1. e \in Newest(s)'
      BY <1>1, <1>3 DEF Newest
    <2>2. ASSUME NEW m \in Newest(s), m.by # e.by PROVE m \in Newest(s)'
      <3>1. PICK k \in 1..n : m = sent[s][k] /\ \A i \in 1..n : i > k => sent[s][i].by # m.by
        BY <1>1 DEF Newest
      <3>2. k \in 1..n + 1 /\ m = sent'[s][k]
        BY <1>1, <1>3, <3>1
      <3>3. ASSUME NEW i \in 1..n + 1, i > k PROVE sent'[s][i].by # m.by
        BY <1>1, <1>3, <2>2, <3>1, <3>3
      <3> QED
        BY <1>1, <3>2, <3>3 DEF Newest
    <2>3. ASSUME NEW m \in Newest(s)', m # e PROVE m \in Newest(s) /\ m.by # e.by
      <3>1. PICK k \in 1..n + 1 : /\ m = sent'[s][k]
                                  /\ \A i \in 1..n + 1 : i > k => sent'[s][i].by # m.by
        BY <1>1 DEF Newest
      <3>2. k \in 1..n /\ n + 1 > k /\ n + 1 \in 1..n + 1
        BY <1>1, <1>3, <2>3, <3>1
      <3>3. m.by # e.by /\ m = sent[s][k]
        BY <1>1, <3>1, <3>2
      <3>4. \A i \in 1..n : i > k => sent[s][i].by # m.by
        BY <1>1, <1>3, <3>1
      <3> QED
        BY <1>1, <3>2, <3>3, <3>4 DEF Newest
    <2> QED
      BY <2>1, <2>2, <2>3
  <1>7. Latest' = [Latest EXCEPT ![s] = {m \in @ : m.by # e.by} \cup {e}]
    <2>1. \A t \in SubId \ {s} : Newest(t)' = Newest(t)
      BY <1>1 DEF Newest
    <2> QED
      BY <1>6, <2>1 DEF Latest
  <1>8. \A m \in Latest[s] : m.by = e.by => m.seq < e.seq
    <2>1. e.by = p /\ \A k \in 1..n : sent[s][k].by = p => sent[s][k].seq < e.seq
      BY <1>0, <1>1 DEF OrderInv, Sending
    <2>2. ASSUME NEW m \in Newest(s), m.by = e.by PROVE m.seq < e.seq
      <3>1. PICK k \in DOMAIN sent[s] : m = sent[s][k]
        BY DEF Newest
      <3> QED
        BY <1>1, <2>1, <2>2, <3>1
    <2> QED
      BY <2>2 DEF Latest
  <1>9. Queues!Put(s, e)
    BY <1>1, <1>2, <1>4, <1>5, <1>7, <1>8, QueuesMean
  <1> QED
    BY <1>9

LEMMA QueueTake ==
  ASSUME TypeOK, NEW s \in SubId, Receive(s) PROVE Queues!Take(s)
  <1>1. /\ taken' = [taken EXCEPT ![s] = taken[s] + 1] /\ taken[s] < Len(sent[s])
        /\ sent' = sent /\ channel' = channel
    BY DEF Receive, bus
  <1>2. taken'[s] = taken[s] + 1 /\ \A t \in SubId \ {s} : taken'[t] = taken[t]
    BY <1>1 DEF TypeOK
  <1>3. Queue[s] # <<>> /\ Queue'[s] = Tail(Queue[s])
    <2> DEFINE q == sent[s]
    <2>1. q \in Seq(Event) /\ taken[s] \in Nat
      BY Numbers
    <2>2. /\ SubSeq(q, taken[s] + 1, Len(q)) # <<>>
          /\ Tail(SubSeq(q, taken[s] + 1, Len(q))) = SubSeq(q, taken[s] + 1 + 1, Len(q))
      BY <1>1, <2>1, RestOfTail
    <2> QED
      BY <1>1, <1>2, <2>2 DEF Queue
  <1>4. ASSUME NEW t \in SubId \ {s} PROVE Queue'[t] = Queue[t]
    <2>1. sent'[t] = sent[t] /\ taken'[t] = taken[t]
      BY <1>1, <1>2
    <2> QED
      BY <2>1 DEF Queue
  <1>5. Queue' = [Queue EXCEPT ![s] = Tail(@)]
    BY <1>3, <1>4 DEF Queue
  <1>6. Latest' = Latest
    BY <1>1 DEF Latest, Newest
  <1> QED
    BY <1>1, <1>3, <1>5, <1>6, QueuesMean

LEMMA QueueStep ==
  ASSUME TypeOK, OpenListed, OrderInv, [Next]_vars PROVE [Queues!Next]_(Queues!vars)
  <1>1. ASSUME NEW s \in SubId, NEW types \in SUBSET Type, Subscribe(s, types)
        PROVE  Queues!Open(s)
    BY <1>1, SameTraffic, QueuesMean DEF Subscribe, traffic
  <1>2. ASSUME NEW s \in SubId, Unsubscribe(s) PROVE Queues!End
    <2>1. {s} \in SUBSET {t \in SubId : channel[t] = "open"}
      BY <1>2 DEF Unsubscribe, OpenListed
    <2>2. channel' = [t \in SubId |-> IF t \in {s} THEN "closed" ELSE channel[t]]
      BY <1>2 DEF Unsubscribe, TypeOK
    <2>3. UNCHANGED <<Queue, Latest>>
      BY <1>2, SameTraffic DEF Unsubscribe, traffic
    <2> QED
      BY <2>1, <2>2, <2>3, QueuesMean
  <1>3. CASE Close
    <2>1. listed \in SUBSET {t \in SubId : channel[t] = "open"}
      BY DEF OpenListed
    <2>2. UNCHANGED <<Queue, Latest>>
      BY <1>3, SameTraffic DEF Close, traffic
    <2>3. Queues!End
      BY <1>3, <2>1, <2>2, QueuesMean DEF Close
    <2> QED
      BY <2>3 DEF Queues!Next
  <1>4. CASE UNCHANGED <<sent, taken, channel>>
    BY <1>4, SameTraffic, QueuesMean
  <1>5. \/ UNCHANGED <<sent, taken, channel>>
        \/ Close
        \/ \E s \in SubId : Unsubscribe(s) \/ Receive(s)
        \/ \E s \in SubId, types \in SUBSET Type : Subscribe(s, types)
        \/ \E p \in Publisher, s \in SubId : Send(p, s)
    BY DEF Next, Environment, PublishStep, Publish, Drop, SendOnClosed, GiveUp, Return,
           ContextEnds, vars, bus, traffic
  <1> QED
    BY <1>1, <1>2, <1>3, <1>4, <1>5, QueuePut, QueueTake DEF Queues!Next

\* To its consumer a subscription is a bounded queue of its own: what the bus,
\* the other subscribers and the publishers' interleaving do to it is lose an
\* event, never repeat or reorder those of one publisher, and no event comes
\* before Subscribe or after Unsubscribe or Close.
THEOREM SubscriptionsAreQueues == Spec => ImplementsQueues
  <1>1. Init => Queues!Init
    <2> SUFFICES ASSUME Init PROVE Queues!Init
      OBVIOUS
    <2>1. \A s \in SubId : SubSeq(sent[s], taken[s] + 1, Len(sent[s])) = <<>>
      BY EmptySeq, SubSeqEmpty DEF Init
    <2>2. \A s \in SubId : Newest(s) = {}
      BY EmptySeq DEF Init, Newest
    <2> QED
      BY <2>1, <2>2 DEF Init, Queues!Init
  <1>2. Init => OpenListed
    BY DEF Init, OpenListed
  <1>3. TypeOK /\ OpenListed /\ OrderInv /\ [Next]_vars => [Queues!Next]_(Queues!vars)
    BY QueueStep
  <1> QED
    BY <1>1, <1>2, <1>3, OpenStep, TypeCorrect, OrderInvariant, PTL
    DEF Spec, ImplementsQueues, Queues!Spec
=============================================================================
