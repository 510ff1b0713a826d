------------------------------ MODULE EventBus ------------------------------
(***************************************************************************)
(* The in-process event bus (internal/events): subscribers with a bounded  *)
(* channel each, publishers that send to a snapshot of the subscribers     *)
(* taken under the lock, after the lock has been released.                 *)
(***************************************************************************)
EXTENDS Naturals, Sequences, FiniteSets

CONSTANTS
    Publisher,    \* goroutines that publish
    SubId,        \* subscription ids: bound on calls of Subscribe
    Type,         \* event types
    Buffer,       \* capacity of a channel
    MaxPublished, \* bound on the calls of Publish
    Idle          \* a publisher outside Publish

ASSUME ConstantsAssumption ==
    /\ Buffer \in Nat \ {0} /\ MaxPublished \in Nat

Event == [by : Publisher, seq : 1..MaxPublished, type : Type]

\* A running Publish: its event, its copy of the subscribers, those of the copy
\* still to be sent to.
Call == {c \in [event : Event, subs : SUBSET SubId, todo : SUBSET SubId] : c.todo \subseteq c.subs}

ASSUME IdleAssumption == Idle \notin Call

VARIABLES
    closed,      \* Bus.closed
    listed,      \* ids in Bus.subscribers or Bus.wildcards
    wants,       \* [SubId -> SUBSET Type], the filter; Type for a wildcard
    wildcard,    \* ids in, or once in, Bus.wildcards
    channel,     \* [SubId -> {"none", "open", "closed"}]
    sent,        \* [SubId -> Seq(Event)], all that was put into the channel
    taken,       \* [SubId -> Nat], how many of those the consumer has received
    call,        \* [Publisher -> Call \cup {Idle}]
    published,   \* number of calls of Publish so far
    live,        \* publishers whose context has not ended
    panicked,    \* a send on a closed channel has ended the process
    missed,      \* history: ids that a Publish which returned nil left out
    wasFull      \* history: ids whose channel has been full

bus == <<closed, listed, wants, wildcard, channel>>
traffic == <<sent, taken, wasFull>>
vars == <<bus, traffic, call, published, live, panicked, missed>>

TypeOK ==
    /\ closed \in BOOLEAN /\ panicked \in BOOLEAN
    /\ listed \subseteq SubId /\ wildcard \subseteq SubId
    /\ missed \subseteq SubId /\ wasFull \subseteq SubId
    /\ wants \in [SubId -> SUBSET Type]
    /\ channel \in [SubId -> {"none", "open", "closed"}]
    /\ sent \in [SubId -> Seq(Event)]
    /\ taken \in [SubId -> Nat]
    /\ \A s \in SubId : Len(sent[s]) - taken[s] \in 0..Buffer
    /\ call \in [Publisher -> Call \cup {Idle}]
    /\ published \in 0..MaxPublished
    /\ live \subseteq Publisher

Init ==
    /\ closed = FALSE /\ panicked = FALSE
    /\ listed = {} /\ wildcard = {} /\ missed = {} /\ wasFull = {}
    /\ wants = [s \in SubId |-> {}]
    /\ channel = [s \in SubId |-> "none"]
    /\ sent = [s \in SubId |-> <<>>] /\ taken = [s \in SubId |-> 0]
    /\ call = [p \in Publisher |-> Idle]
    /\ published = 0
    /\ live = Publisher

----------------------------------------------------------------------------
\* A call without types is a wildcard.  A closed bus refuses.
Subscribe(s, types) ==
    /\ ~closed /\ channel[s] = "none"
    /\ listed' = listed \cup {s}
    /\ wants' = [wants EXCEPT ![s] = IF types = {} THEN Type ELSE types]
    /\ wildcard' = IF types = {} THEN wildcard \cup {s} ELSE wildcard
    /\ channel' = [channel EXCEPT ![s] = "open"]
    /\ UNCHANGED <<closed, traffic, call, published, live, panicked, missed>>

Unsubscribe(s) ==
    /\ ~closed /\ s \in listed
    /\ channel' = [channel EXCEPT ![s] = "closed"]
    /\ listed' = listed \ {s}
    /\ UNCHANGED <<closed, wants, wildcard, traffic, call, published, live, panicked, missed>>

Close ==
    /\ ~closed
    /\ closed' = TRUE /\ listed' = {}
    /\ channel' = [s \in SubId |-> IF s \in listed THEN "closed" ELSE channel[s]]
    /\ UNCHANGED <<wants, wildcard, traffic, call, published, live, panicked, missed>>

\* Publish, up to RUnlock: the subscribers of this type are copied.
Publish(p, t) ==
    /\ ~closed /\ call[p] = Idle /\ published < MaxPublished
    /\ published' = published + 1
    /\ LET subs == {s \in listed : t \in wants[s]}
           e == [by |-> p, seq |-> published', type |-> t]
       IN call' = [call EXCEPT ![p] = [event |-> e, subs |-> subs, todo |-> subs]]
    /\ UNCHANGED <<bus, traffic, live, panicked, missed>>

\* Wildcards come first in the copy, each kind in the order of a Go map.
NextSubs(p) ==
    LET first == call[p].todo \cap wildcard
    IN IF first # {} THEN first ELSE call[p].todo

\* The loop of p has reached s, whose channel is in state ch.
Reaches(p, s, ch) == call[p] # Idle /\ s \in NextSubs(p) /\ channel[s] = ch

\* Fault: one event more than the channel holds.
FullLate(s) == Len(sent[s]) - taken[s] > Buffer

Full(s) == Len(sent[s]) - taken[s] = Buffer

\* Fault: a subscriber is not taken off the copy once it was sent to.
ContinueWithSame(p, s) == UNCHANGED call

\* The loop of p goes on to the next subscriber.
Continue(p, s) == call' = [call EXCEPT ![p].todo = @ \ {s}]

Send(p, s) ==
    /\ Reaches(p, s, "open") /\ ~Full(s)
    /\ sent' = [sent EXCEPT ![s] = Append(@, call[p].event)]
    /\ Continue(p, s)
    /\ UNCHANGED <<bus, taken, published, live, panicked, missed>>
    /\ wasFull' = IF Full(s)' THEN wasFull \cup {s} ELSE wasFull

\* Fault: the first subscriber without room ends the loop.
DropEndsLoop(p, s) ==
    /\ Reaches(p, s, "open") /\ Full(s) /\ p \in live
    /\ call' = [call EXCEPT ![p].todo = {}]
    /\ UNCHANGED <<bus, traffic, published, live, panicked, missed>>

\* Fault: the select has no default branch.
DropWhenEnded(p, s) ==
    /\ Reaches(p, s, "open") /\ Full(s) /\ p \notin live
    /\ Continue(p, s)
    /\ UNCHANGED <<bus, traffic, published, live, panicked, missed>>

\* The default branch: no room, and the context has not ended.
Drop(p, s) ==
    /\ Reaches(p, s, "open") /\ Full(s) /\ p \in live
    /\ Continue(p, s)
    /\ UNCHANGED <<bus, traffic, published, live, panicked, missed>>

\* The context has ended: the select may take that branch, and must if it
\* cannot send.
GiveUp(p) ==
    /\ call[p] # Idle /\ call[p].todo # {} /\ p \notin live
    /\ call' = [call EXCEPT ![p] = Idle]
    /\ UNCHANGED <<bus, traffic, published, live, panicked, missed>>

\* The copy still has a subscriber whose channel Unsubscribe or Close closed.
SendOnClosed(p, s) ==
    /\ Reaches(p, s, "closed")
    /\ panicked' = TRUE
    /\ UNCHANGED <<bus, traffic, call, published, live, missed>>

Delivered(p, s) == \E k \in DOMAIN sent[s] : sent[s][k] = call[p].event

Return(p) ==
    /\ call[p] # Idle /\ call[p].todo = {}
    /\ call' = [call EXCEPT ![p] = Idle]
    /\ missed' = missed \cup {s \in call[p].subs : ~Delivered(p, s)}
    /\ UNCHANGED <<bus, traffic, published, live, panicked>>

\* The consumer of a subscription receives from its channel, closed or not.
Receive(s) ==
    /\ taken[s] < Len(sent[s])
    /\ taken' = [taken EXCEPT ![s] = @ + 1]
    /\ UNCHANGED <<bus, sent, wasFull, call, published, live, panicked, missed>>

ContextEnds(p) ==
    /\ p \in live
    /\ live' = live \ {p}
    /\ UNCHANGED <<bus, traffic, call, published, panicked, missed>>

----------------------------------------------------------------------------
PublishStep(p) ==
    /\ ~panicked
    /\ \/ \E s \in SubId : Send(p, s) \/ Drop(p, s) \/ SendOnClosed(p, s)
       \/ GiveUp(p)
       \/ Return(p)

Environment ==
    /\ ~panicked
    /\ \/ Close
       \/ \E s \in SubId : Unsubscribe(s) \/ Receive(s)
       \/ \E s \in SubId, types \in SUBSET Type : Subscribe(s, types)
       \/ \E p \in Publisher : ContextEnds(p)
       \/ \E p \in Publisher, t \in Type : Publish(p, t)

Next == Environment \/ \E p \in Publisher : PublishStep(p)

Spec == Init /\ [][Next]_vars

\* Publishers are goroutines that run; consumers may never receive.
FairSpec == Spec /\ \A p \in Publisher : WF_vars(PublishStep(p))

----------------------------------------------------------------------------
(* Properties *)

\* A subscriber gets the events of one publisher in the order in which they
\* were published, and none of them twice.
PublisherOrder ==
    \A s \in SubId : \A j, k \in DOMAIN sent[s] :
        j < k /\ sent[s][j].by = sent[s][k].by => sent[s][j].seq < sent[s][k].seq

\* Seen from its consumer a subscription is a bounded queue that may lose events
\* but neither repeats nor reorders those of one publisher, and takes no event
\* before Subscribe or after Unsubscribe or Close.
Newest(s) ==
    {sent[s][k] : k \in {k \in DOMAIN sent[s] :
                            \A i \in DOMAIN sent[s] : i > k => sent[s][i].by # sent[s][k].by}}
Queues == INSTANCE LossyQueues WITH
    Reader <- SubId, Message <- Event, Capacity <- Buffer,
    queue <- [s \in SubId |-> SubSeq(sent[s], taken[s] + 1, Len(sent[s]))],
    status <- channel,
    newest <- [s \in SubId |-> Newest(s)]
ImplementsQueues == Queues!Spec

\* A slow consumer costs only itself events (Publish, default branch): whom a
\* successful Publish left out had a full channel at some time.
NothingLostUnlessFull == missed \subseteq wasFull

\* "Do not block the whole system because one consumer is slow" (Publish): a
\* call returns although no consumer ever receives, unless the process died.
PublishReturns == \A p \in Publisher : call[p] # Idle ~> call[p] = Idle \/ panicked

\* Publish says of a closed bus that it returns ErrBusClosed: a call of it
\* ends with a result, whatever other goroutines do to the bus meanwhile.
PublishNeverPanics == ~panicked
=============================================================================
