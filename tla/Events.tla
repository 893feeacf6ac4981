------------------------------- MODULE Events -------------------------------
(***************************************************************************)
(* How events reach their readers: the event bus and its HTTP interface    *)
(* (event.rs), the stream of supervisor events for gRPC clients            *)
(* (SupervisorApi::watch_events in api.rs) and the bridge that forwards    *)
(* supervisor events to JetStream (jetstream_bridge.rs, jetstream.rs).     *)
(*                                                                         *)
(* Every reader holds a receiver of a tokio broadcast channel of fixed     *)
(* capacity: one that falls behind loses the oldest events.  The HTTP      *)
(* clients and the bridge are told how many, a gRPC client only that it    *)
(* lags.  A reader's feed is what has been sent to its channel since it    *)
(* subscribed.  Publishers, readers and the supervisor run concurrently.   *)
(***************************************************************************)
EXTENDS Sequences, Naturals

CONSTANTS
  Sse,        \* clients of /api/v1/events/subscribe
  Watcher,    \* gRPC clients of watch_events
  Bridge,     \* the JetStream bridge
  Publisher,  \* clients of POST /api/v1/events
  Subject,    \* subjects of published events
  Filter,     \* what clients subscribe to
  Matches,    \* pairs of a filter and a subject that it matches for a NATS server
  Transition, \* supervisor events: their type and their execution id or None
  Capacity,   \* capacity of a broadcast channel (256 in the code)
  MaxSent,    \* bound on the events sent
  MaxMillis,  \* bound on the clock
  None        \* no execution id, nothing in flight

ASSUME FiltersMatch == Matches \subseteq Filter \X Subject
ASSUME TransitionsAreTyped ==
  \A t \in Transition : t = [type |-> t.type, exec |-> t.exec]
ASSUME EventsBoundsAreNat ==
  Capacity \in Nat \ {0} /\ MaxSent \in Nat /\ MaxMillis \in Nat

\* A receiver belongs to one client, or to the bridge.
ASSUME ReadersDiffer ==
  Sse \cap Watcher = {} /\ Bridge \notin Sse \cup Watcher

Reader == Sse \cup Watcher \cup {Bridge}

MessageId == {<<t.exec, t.type, m>> : t \in Transition, m \in 0 .. MaxMillis}
InFlight == [at : 1 .. MaxSent, id : MessageId]

ASSUME NoneIsNothing == None \notin InFlight \cup Subject

VARIABLES
  jetstream,  \* the bus is a JetStreamEventBus, not an InMemoryEventBus
  filter,     \* filter[s]: what client s has subscribed to
  state,      \* state[r]: "new", "open" or "gone"
  feed,       \* feed[r]: events sent to r's channel since it subscribed
  read,       \* read[r]: how many of these r has received or lost
  got,        \* got[r]: the positions in its feed of the events r has received
  warned,     \* warned[r]: the numbers of lost events that r was told, added up
  asked,      \* asked[p]: the subject publisher p has a channel for, or None
  sent,       \* events sent so far
  millis,     \* the clock
  flight,     \* what the bridge is publishing: a position and its message id, or None
  stream,     \* what the JetStream stream stores of the bridge's messages, oldest first
  seen,       \* message ids within the duplicate window
  ignored,    \* positions the stream took for duplicates
  failed      \* positions whose publish failed

busVars == <<jetstream, filter, asked>>
readerVars == <<state, feed, read, got, warned>>
bridgeVars == <<flight, stream, seen, ignored, failed>>
vars == <<busVars, readerVars, bridgeVars, sent, millis>>

Init ==
  /\ jetstream \in BOOLEAN
  /\ filter \in [Sse -> Filter]
  /\ state = [r \in Reader |-> "new"]
  /\ feed = [r \in Reader |-> <<>>]
  /\ read = [r \in Reader |-> 0]
  /\ got = [r \in Reader |-> <<>>]
  /\ warned = [r \in Reader |-> 0]
  /\ asked = [p \in Publisher |-> None]
  /\ sent = 0 /\ millis = 0
  /\ flight = None
  /\ stream = <<>> /\ seen = {} /\ ignored = {} /\ failed = {}

(***************************************************************************)
(* Channels.                                                               *)
(***************************************************************************)
\* send: the event goes to the readers that are open now.
Send(event, readers) ==
  feed' = [r \in Reader |->
             IF r \in readers /\ state[r] = "open" THEN Append(feed[r], event) ELSE feed[r]]

\* Subscribing, and dropping the receiver.
Subscribe(r) ==
  /\ state[r] = "new"
  /\ state' = [state EXCEPT ![r] = "open"]
  /\ UNCHANGED <<busVars, bridgeVars, feed, read, got, warned, sent, millis>>

Disconnect(r) ==
  /\ r # Bridge
  /\ state[r] = "open"
  /\ state' = [state EXCEPT ![r] = "gone"]
  /\ UNCHANGED <<busVars, bridgeVars, feed, read, got, warned, sent, millis>>

Oldest(r) == IF Len(feed[r]) > Capacity THEN Len(feed[r]) - Capacity ELSE 0

Lags(r) == read[r] < Oldest(r)

\* recv gives the next event; the bridge takes no other while it publishes one.
Receives(r) ==
  /\ state[r] = "open"
  /\ read[r] < Len(feed[r])
  /\ r = Bridge => flight = None

\* Mutant: the message id does without the execution.
MsgIdOfType(t) == <<t.type, millis>>

\* The message id of a transition: its execution id, its type and the millisecond.
MsgId(t) == <<t.exec, t.type, millis>>

Receive(r) ==
  /\ Receives(r)
  /\ ~Lags(r)
  /\ read' = [read EXCEPT ![r] = @ + 1]
  /\ got' = [got EXCEPT ![r] = Append(@, read[r] + 1)]
  /\ flight' = IF r = Bridge
               THEN [at |-> read[r] + 1, id |-> MsgId(feed[r][read[r] + 1])]
               ELSE flight
  /\ UNCHANGED <<busVars, state, feed, warned, sent, millis, stream, seen, ignored, failed>>

\* Mutant: the reader goes on at the newest event and is told of what left the channel.
LaggedToNewest(r) ==
  /\ Receives(r)
  /\ Lags(r)
  /\ read' = [read EXCEPT ![r] = Len(feed[r])]
  /\ IF r \in Watcher
     THEN state' = [state EXCEPT ![r] = "gone"] /\ UNCHANGED warned
     ELSE warned' = [warned EXCEPT ![r] = @ + Oldest(r) - read[r]] /\ UNCHANGED state
  /\ UNCHANGED <<busVars, bridgeVars, feed, got, sent, millis>>

\* The receiver of a reader that lags goes on at the oldest event there is.  A gRPC stream
\* ends with an error that says so and drops the number; the others are given the number.
Lagged(r) ==
  /\ Receives(r)
  /\ Lags(r)
  /\ read' = [read EXCEPT ![r] = Oldest(r)]
  /\ IF r \in Watcher
     THEN state' = [state EXCEPT ![r] = "gone"] /\ UNCHANGED warned
     ELSE warned' = [warned EXCEPT ![r] = @ + Oldest(r) - read[r]] /\ UNCHANGED state
  /\ UNCHANGED <<busVars, bridgeVars, feed, got, sent, millis>>

(***************************************************************************)
(* The bus.                                                                *)
(***************************************************************************)
\* On the in-memory bus a filter is the name of a channel, and ">" one like any other; a
\* NATS server matches wildcards.
Hears(s, x) == IF jetstream THEN <<filter[s], x>> \in Matches ELSE filter[s] = x

Hearers(x) == {s \in Sse : state[s] = "open" /\ Hears(s, x)}

\* publish is two steps: the channel is found or made, and later the event is sent.
EnsureChannel(p, x) ==
  /\ asked[p] = None
  /\ sent < MaxSent
  /\ asked' = [asked EXCEPT ![p] = x]
  /\ UNCHANGED <<jetstream, filter, readerVars, bridgeVars, sent, millis>>

Publish(p) ==
  /\ asked[p] # None
  /\ jetstream \/ Hearers(asked[p]) # {}
  /\ sent < MaxSent
  /\ sent' = sent + 1
  /\ Send(asked[p], Hearers(asked[p]))
  /\ asked' = [asked EXCEPT ![p] = None]
  /\ UNCHANGED <<jetstream, filter, state, read, got, warned, bridgeVars, millis>>

\* publish errs, and nobody hears the event: in memory because the channel has no receiver,
\* on JetStream at any time.  (Where only the acknowledgement is lost, it errs as well and
\* the event is heard: then what happens is Publish.)
PublishFails(p) ==
  /\ asked[p] # None
  /\ jetstream \/ Hearers(asked[p]) = {}
  /\ asked' = [asked EXCEPT ![p] = None]
  /\ UNCHANGED <<jetstream, filter, readerVars, bridgeVars, sent, millis>>

(***************************************************************************)
(* The supervisor and the bridge.                                          *)
(***************************************************************************)
\* A workflow ends once; nodes start, complete and fail at any time.
Emitted(t) == \E r \in Reader, i \in 1..MaxSent : i \in DOMAIN feed[r] /\ feed[r][i] = t

Emit(t) ==
  /\ sent < MaxSent
  /\ t.exec # None => ~Emitted(t)
  /\ sent' = sent + 1
  /\ Send(t, Watcher \cup {Bridge})
  /\ UNCHANGED <<busVars, state, read, got, warned, bridgeVars, millis>>

Tick ==
  /\ millis < MaxMillis
  /\ millis' = millis + 1
  /\ UNCHANGED <<busVars, readerVars, bridgeVars, sent>>

\* Mutant: a publish that is not acknowledged is tried again under a new id.
PublishRetried ==
  /\ flight # None
  /\ Len(stream) < MaxSent
  /\ stream' = Append(stream, flight.at)
  /\ flight' \in {None, flight}
  /\ UNCHANGED <<seen, ignored, failed, busVars, readerVars, sent, millis>>

\* publish_dedup: the message is stored, or taken for a duplicate, or its publish fails,
\* before it is stored or after; nothing is tried again.
PublishDedup ==
  /\ flight # None
  /\ flight' = None
  /\ \/ /\ flight.id \notin seen
        /\ stream' = Append(stream, flight.at)
        /\ seen' = seen \cup {flight.id}
        /\ UNCHANGED <<ignored, failed>>
     \/ /\ flight.id \in seen
        /\ ignored' = ignored \cup {flight.at}
        /\ UNCHANGED <<stream, seen, failed>>
     \/ /\ failed' = failed \cup {flight.at}
        /\ UNCHANGED <<stream, seen, ignored>>
  /\ UNCHANGED <<busVars, readerVars, sent, millis>>

----------------------------------------------------------------------------

Next ==
  \/ \E r \in Reader : Subscribe(r) \/ Disconnect(r) \/ Receive(r) \/ Lagged(r)
  \/ \E p \in Publisher : (\E x \in Subject : EnsureChannel(p, x)) \/ Publish(p) \/ PublishFails(p)
  \/ \E t \in Transition : Emit(t)
  \/ Tick \/ PublishDedup

Spec == Init /\ [][Next]_vars

----------------------------------------------------------------------------

TypeOK ==
  /\ jetstream \in BOOLEAN
  /\ filter \in [Sse -> Filter]
  /\ state \in [Reader -> {"new", "open", "gone"}]
  /\ feed \in [Reader -> Seq(Subject \cup Transition)]
  /\ read \in [Reader -> Nat]
  /\ got \in [Reader -> Seq(Nat)]
  /\ warned \in [Reader -> Nat]
  /\ asked \in [Publisher -> Subject \cup {None}]
  /\ sent \in Nat /\ millis \in Nat
  /\ flight \in InFlight \cup {None}
  /\ stream \in Seq(Nat) /\ seen \subseteq MessageId
  /\ ignored \subseteq Nat /\ failed \subseteq Nat

\* Events are given to a reader once and in order.  Of those sent to it since it subscribed,
\* up to where it is, an HTTP client and the bridge were given each or it is in the numbers
\* of losses that they were told; a gRPC client was given each without a gap as long as its
\* stream has not ended (subscribe_events, watch_events, spawn_state_bridge around recv).
EveryEventAccounted ==
  \A r \in Reader :
    /\ \A i \in DOMAIN got[r] : i > 1 => got[r][i - 1] < got[r][i]
    /\ r \notin Watcher => Len(got[r]) + warned[r] = read[r]
    /\ r \in Watcher =>
         /\ \A i \in DOMAIN got[r] : got[r][i] = i
         /\ state[r] # "gone" => Len(got[r]) = read[r]

\* Every event the bridge has taken is stored at most once, in the order of the
\* supervisor, or was ignored, or failed, or is being published.
StoredInOrder ==
  /\ \A i \in DOMAIN stream : i > 1 => stream[i - 1] < stream[i]
  /\ \A i \in DOMAIN got[Bridge] :
       \/ \E j \in DOMAIN stream : stream[j] = got[Bridge][i]
       \/ got[Bridge][i] \in ignored \cup failed
       \/ flight # None /\ flight.at = got[Bridge][i]

\* De-duplication never swallows the end of a workflow: such a message's id has the
\* execution in it.  (Of two nodes that complete in one millisecond it does swallow one.)
EndsSurviveDedup == \A i \in ignored : feed[Bridge][i].exec = None

\* "Subject filter (e.g. "agent.spine.>" for wildcard)": what is published is sent to a
\* client that subscribed to a wildcard which matches it.  False of the bus in memory.
WildcardsMatch ==
  [][\A p \in Publisher, s \in Sse :
       ~jetstream /\ asked[p] # None /\ asked'[p] = None
       /\ state[s] = "open" /\ <<filter[s], asked[p]>> \in Matches
         => Len(feed'[s]) > Len(feed[s])]_vars
=============================================================================
