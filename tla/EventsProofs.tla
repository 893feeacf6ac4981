---------------------------- MODULE EventsProofs ----------------------------
(***************************************************************************)
(* Proofs about module Events, for any number of clients, any capacity of  *)
(* the channels and any bounds on the events sent and on the clock.        *)
(***************************************************************************)
EXTENDS Events, TLAPS

Rising(s) == \A i \in DOMAIN s : i > 1 => s[i - 1] < s[i]

\* A reader is somewhere in its feed, and what it was given lies behind it.
ReaderOK(r) ==
  /\ read[r] <= Len(feed[r])
  /\ Len(feed[r]) <= sent
  /\ r \notin Watcher => Len(got[r]) + warned[r] = read[r]
  /\ r \in Watcher =>
       /\ \A i \in DOMAIN got[r] : got[r][i] = i
       /\ state[r] # "gone" => Len(got[r]) = read[r]
  /\ Rising(got[r])
  /\ \A i \in DOMAIN got[r] : got[r][i] \in 1 .. read[r]

\* What the supervisor emits, as the bridge hears it: the end of an execution once.
EndsOnce ==
  /\ feed[Bridge] \in Seq(Transition)
  /\ \A i, j \in DOMAIN feed[Bridge] :
       feed[Bridge][i] = feed[Bridge][j] /\ feed[Bridge][i].exec # None => i = j

\* An id that was made for the transition at position i of the bridge's feed.
IdAt(id, i) ==
  i \in DOMAIN feed[Bridge] /\
  \E m \in 0 .. MaxMillis : id = <<feed[Bridge][i].exec, feed[Bridge][i].type, m>>

\* The message in flight is the last one taken, and comes after all that are stored.
FlightOK ==
  flight # None =>
    /\ flight.at \in 1 .. read[Bridge]
    /\ IdAt(flight.id, flight.at)
    /\ \A j \in DOMAIN stream : stream[j] < flight.at

StreamOK ==
  /\ \A j \in DOMAIN stream : stream[j] \in 1 .. read[Bridge]
  /\ Rising(stream)
  /\ \A id \in seen : \E j \in DOMAIN stream : IdAt(id, stream[j])

\* What has become of the event at position x.
Settled(x) ==
  \/ \E j \in DOMAIN stream : stream[j] = x
  \/ x \in ignored \cup failed
  \/ flight # None /\ flight.at = x

TakenSettled == \A i \in DOMAIN got[Bridge] : Settled(got[Bridge][i])

IgnoredOK == \A i \in ignored : i \in DOMAIN feed[Bridge] /\ feed[Bridge][i].exec = None

EventInv ==
  /\ TypeOK
  /\ sent <= MaxSent /\ millis <= MaxMillis
  /\ \A r \in Reader : ReaderOK(r)
  /\ EndsOnce
  /\ FlightOK
  /\ StreamOK
  /\ TakenSettled
  /\ IgnoredOK
----------------------------------------------------------------------------

\* A sequence that rises still does when something greater than its last element is
\* appended.
LEMMA AppendRises ==
  ASSUME NEW s \in Seq(Nat), Rising(s), NEW x \in Nat, \A i \in DOMAIN s : s[i] < x
  PROVE  /\ Append(s, x) \in Seq(Nat)
         /\ Rising(Append(s, x))
         /\ DOMAIN Append(s, x) = DOMAIN s \cup {Len(s) + 1}
         /\ Append(s, x)[Len(s) + 1] = x
         /\ \A i \in DOMAIN s : Append(s, x)[i] = s[i]
<1> DEFINE t == Append(s, x)
<1> DEFINE n == Len(s)
<1>1. n \in Nat /\ DOMAIN s = 1 .. n
  OBVIOUS
<1>2. t \in Seq(Nat) /\ Len(t) = n + 1 /\ t[n + 1] = x /\ \A i \in 1 .. n : t[i] = s[i]
  OBVIOUS
<1>3. DOMAIN t = (1 .. n) \cup {n + 1}
  BY <1>1, <1>2
<1> HIDE DEF t, n
<1>4. ASSUME NEW i \in DOMAIN t, i > 1 PROVE t[i - 1] < t[i]
  <2>1. CASE i = n + 1
    <3>1. i - 1 = n /\ n \in 1 .. n
      BY <1>1, <1>4, <2>1
    <3> QED
      BY <1>1, <1>2, <2>1, <3>1
  <2>2. CASE i # n + 1
    <3>1. i \in 1 .. n /\ i - 1 \in 1 .. n
      BY <1>1, <1>3, <1>4, <2>2
    <3> QED
      BY <1>1, <1>2, <1>4, <3>1 DEF Rising
  <2> QED
    BY <2>1, <2>2
<1> QED
  BY <1>1, <1>2, <1>3, <1>4 DEF Rising, t, n

\* An event that is sent comes behind what a reader's feed holds already.
LEMMA SendAppends ==
  ASSUME TypeOK, NEW event \in Subject \cup Transition, NEW readers, Send(event, readers)
  PROVE  /\ feed' \in [Reader -> Seq(Subject \cup Transition)]
         /\ \A r \in Reader :
              /\ \/ feed'[r] = feed[r]
                 \/ r \in readers /\ feed'[r] = Append(feed[r], event)
              /\ Len(feed'[r]) \in {Len(feed[r]), Len(feed[r]) + 1}
              /\ \A i \in DOMAIN feed[r] : i \in DOMAIN feed'[r] /\ feed'[r][i] = feed[r][i]
<1>1. feed' = [r \in Reader |->
                 IF r \in readers /\ state[r] = "open" THEN Append(feed[r], event) ELSE feed[r]]
  BY DEF Send
<1>2. ASSUME NEW r \in Reader
      PROVE  /\ feed'[r] \in Seq(Subject \cup Transition)
             /\ feed'[r] = feed[r] \/ (r \in readers /\ feed'[r] = Append(feed[r], event))
             /\ Len(feed'[r]) \in {Len(feed[r]), Len(feed[r]) + 1}
             /\ \A i \in DOMAIN feed[r] : i \in DOMAIN feed'[r] /\ feed'[r][i] = feed[r][i]
  <2>1. feed[r] \in Seq(Subject \cup Transition)
    BY DEF TypeOK
  <2>2. CASE r \in readers /\ state[r] = "open"
    <3>1. feed'[r] = Append(feed[r], event)
      BY <1>1, <2>2
    <3> QED
      BY <2>1, <2>2, <3>1
  <2>3. CASE ~(r \in readers /\ state[r] = "open")
    <3>1. feed'[r] = feed[r]
      BY <1>1, <2>3
    <3> QED
      BY <2>1, <3>1
  <2> QED
    BY <2>2, <2>3
<1> QED
  BY <1>1, <1>2

\* Only transitions are sent to the bridge.
LEMMA BridgeIsNoClient == Bridge \in Reader /\ Bridge \notin Sse /\ Bridge \notin Watcher
BY ReadersDiffer DEF Reader

\* Steps that send nothing and give nothing to anyone.
LEMMA QuietKeeps ==
  ASSUME EventInv, TypeOK', UNCHANGED <<feed, read, got, warned, sent, bridgeVars>>,
         millis' <= MaxMillis, \A r \in Reader : state[r] = "gone" => state'[r] = "gone"
  PROVE  EventInv'
<1>1. /\ UNCHANGED <<feed, read, got, warned, sent>>
      /\ UNCHANGED <<flight, stream, seen, ignored, failed>>
  BY DEF bridgeVars
<1>2. \A r \in Reader : ReaderOK(r)'
  BY <1>1 DEF EventInv, ReaderOK, Rising
<1>3. EndsOnce' /\ FlightOK' /\ StreamOK'
  BY <1>1 DEF EventInv, EndsOnce, FlightOK, StreamOK, IdAt, Rising
<1>4. TakenSettled' /\ IgnoredOK'
  BY <1>1 DEF EventInv, TakenSettled, Settled, IgnoredOK
<1> QED
  BY <1>1, <1>2, <1>3, <1>4 DEF EventInv

\* Steps that send an event; what has been sent stays where it is.
LEMMA SendKeeps ==
  ASSUME EventInv, TypeOK', NEW event \in Subject \cup Transition, NEW readers,
         Send(event, readers), EndsOnce', sent < MaxSent, sent' = sent + 1,
         UNCHANGED <<state, read, got, warned, millis, bridgeVars>>
  PROVE  EventInv'
<1>1. /\ UNCHANGED <<state, read, got, warned, millis>>
      /\ UNCHANGED <<flight, stream, seen, ignored, failed>>
  BY DEF bridgeVars
<1>2. TypeOK /\ sent \in Nat /\ sent' <= MaxSent
  BY EventsBoundsAreNat DEF EventInv, TypeOK
<1>3. \A r \in Reader :
        /\ Len(feed'[r]) \in {Len(feed[r]), Len(feed[r]) + 1}
        /\ \A i \in DOMAIN feed[r] : i \in DOMAIN feed'[r] /\ feed'[r][i] = feed[r][i]
  BY <1>2, SendAppends
<1>4. ASSUME NEW r \in Reader PROVE ReaderOK(r)'
  <2>1. ReaderOK(r) /\ read[r] \in Nat /\ Len(feed[r]) \in Nat
    BY <1>2 DEF EventInv, TypeOK
  <2>2. read[r] <= Len(feed'[r]) /\ Len(feed'[r]) <= sent'
    BY <1>2, <1>3, <2>1 DEF ReaderOK
  <2> QED
    BY <1>1, <2>1, <2>2 DEF ReaderOK, Rising
<1>5. \A id, i : IdAt(id, i) => IdAt(id, i)'
  BY <1>3, BridgeIsNoClient DEF IdAt
<1>6. FlightOK' /\ StreamOK'
  BY <1>1, <1>5 DEF EventInv, FlightOK, StreamOK, Rising
<1>7. TakenSettled'
  BY <1>1 DEF EventInv, TakenSettled, Settled
<1>8. IgnoredOK'
  BY <1>1, <1>3, BridgeIsNoClient DEF EventInv, IgnoredOK
<1> QED
  BY <1>1, <1>2, <1>4, <1>6, <1>7, <1>8 DEF EventInv

\* A client publishes: the bridge hears nothing of it.
LEMMA PublishKeeps ==
  ASSUME EventInv, NEW p \in Publisher, Publish(p)
  PROVE  EventInv'
<1>1. /\ asked[p] # None /\ sent < MaxSent /\ sent' = sent + 1
      /\ Send(asked[p], Hearers(asked[p]))
      /\ asked' = [asked EXCEPT ![p] = None]
      /\ UNCHANGED <<jetstream, filter, state, read, got, warned, bridgeVars, millis>>
  BY DEF Publish
<1>2. TypeOK /\ asked[p] \in Subject \cup Transition
  BY <1>1 DEF EventInv, TypeOK
<1>3. Bridge \notin Hearers(asked[p])
  BY BridgeIsNoClient DEF Hearers
<1>4. feed' \in [Reader -> Seq(Subject \cup Transition)] /\ feed'[Bridge] = feed[Bridge]
  BY <1>1, <1>2, <1>3, SendAppends, BridgeIsNoClient
<1>5. EndsOnce'
  BY <1>4 DEF EventInv, EndsOnce
<1>6. TypeOK'
  BY <1>1, <1>2, <1>4 DEF TypeOK, bridgeVars
<1> QED
  BY <1>1, <1>2, <1>5, <1>6, SendKeeps

\* The supervisor emits: an end that the bridge has heard is not emitted again.
LEMMA EmitKeeps ==
  ASSUME EventInv, NEW t \in Transition, Emit(t)
  PROVE  EventInv'
<1>1. /\ sent < MaxSent /\ sent' = sent + 1
      /\ t.exec # None => ~Emitted(t)
      /\ Send(t, Watcher \cup {Bridge})
      /\ UNCHANGED <<busVars, state, read, got, warned, bridgeVars, millis>>
  BY DEF Emit
<1>2. TypeOK /\ t \in Subject \cup Transition
  BY DEF EventInv
<1>3. /\ feed' \in [Reader -> Seq(Subject \cup Transition)]
      /\ feed'[Bridge] = feed[Bridge] \/ feed'[Bridge] = Append(feed[Bridge], t)
  BY <1>1, <1>2, SendAppends, BridgeIsNoClient
<1>4. TypeOK'
  BY <1>1, <1>2, <1>3, SMTT(30) DEF TypeOK, bridgeVars, busVars
<1>5. EndsOnce'
  <2> DEFINE f == feed[Bridge]
  <2> DEFINE g == feed'[Bridge]
  <2>1. f \in Seq(Transition) /\ Len(f) \in Nat /\ DOMAIN f = 1 .. Len(f)
    BY DEF EventInv, EndsOnce
  <2>2. CASE g = f
    BY <2>2 DEF EventInv, EndsOnce
  <2>3. CASE g = Append(f, t)
    <3>1. /\ g \in Seq(Transition) /\ DOMAIN g = 1 .. Len(f) + 1
          /\ g[Len(f) + 1] = t /\ \A i \in DOMAIN f : g[i] = f[i]
      BY <2>1, <2>3
    <3>2. ASSUME NEW i \in DOMAIN f, t.exec # None PROVE f[i] # t
      <4>1. Len(f) <= sent /\ sent \in Nat
        BY <1>2, BridgeIsNoClient DEF EventInv, ReaderOK, TypeOK
      <4>2. i \in 1 .. MaxSent
        BY <1>1, <2>1, <4>1, EventsBoundsAreNat
      <4> QED
        BY <1>1, <3>2, <4>2, BridgeIsNoClient DEF Emitted
    <3>3. ASSUME NEW i \in DOMAIN g, NEW j \in DOMAIN g, g[i] = g[j], g[i].exec # None
          PROVE  i = j
      <4>1. CASE i \in DOMAIN f /\ j \in DOMAIN f
        BY <3>1, <3>3, <4>1 DEF EventInv, EndsOnce
      <4>2. CASE i \notin DOMAIN f /\ j \in DOMAIN f
        <5>1. i = Len(f) + 1
          BY <2>1, <3>1, <4>2
        <5> QED
          BY <3>1, <3>2, <3>3, <4>2, <5>1
      <4>3. CASE i \in DOMAIN f /\ j \notin DOMAIN f
        <5>1. j = Len(f) + 1
          BY <2>1, <3>1, <4>3
        <5> QED
          BY <3>1, <3>2, <3>3, <4>3, <5>1
      <4>4. CASE i \notin DOMAIN f /\ j \notin DOMAIN f
        BY <2>1, <3>1, <4>4
      <4> QED
        BY <4>1, <4>2, <4>3, <4>4
    <3> QED
      BY <3>1, <3>3 DEF EndsOnce
  <2> QED
    BY <1>3, <2>2, <2>3
<1> QED
  BY <1>1, <1>2, <1>4, <1>5, SendKeeps

\* One more is received and one more is read.
LEMMA OneMoreOfBoth ==
  ASSUME NEW g \in Nat, NEW w \in Nat, NEW a \in Nat, g + w = a
  PROVE  (g + 1) + w = a + 1
OBVIOUS

\* The next position of a feed that has not been read to its end.
LEMMA NextIsThere ==
  ASSUME NEW a \in Nat, NEW n \in Nat, NEW m \in Nat, NEW max \in Nat, a < n, n <= m, m <= max
  PROVE  a + 1 \in Nat /\ a + 1 \in 1 .. n /\ a + 1 \in 1 .. max /\ a + 1 > a
OBVIOUS

\* What is received is the next event, and the bridge takes it in flight.
LEMMA ReceiveKeeps ==
  ASSUME EventInv, NEW r \in Reader, Receive(r)
  PROVE  EventInv'
<1> DEFINE x == read[r] + 1
<1>1. /\ read[r] < Len(feed[r])
      /\ state[r] = "open"
      /\ r = Bridge => flight = None
      /\ read' = [read EXCEPT ![r] = x]
      /\ got' = [got EXCEPT ![r] = Append(@, x)]
      /\ r # Bridge => flight' = flight
      /\ r = Bridge => flight' = [at |-> x, id |-> MsgId(feed[r][x])]
      /\ UNCHANGED <<state, feed, warned, sent, millis, stream, seen, ignored, failed>>
      /\ UNCHANGED <<jetstream, filter, asked>>
  BY DEF Receive, Receives, busVars
<1>2. /\ TypeOK /\ ReaderOK(r) /\ read[r] \in Nat /\ got[r] \in Seq(Nat) /\ warned[r] \in Nat
      /\ sent \in Nat /\ sent <= MaxSent /\ millis \in 0 .. MaxMillis /\ Len(feed[r]) \in Nat
  BY EventsBoundsAreNat DEF EventInv, TypeOK
<1>3. x \in Nat /\ x \in 1 .. Len(feed[r]) /\ x \in 1 .. MaxSent /\ x > read[r]
  <2>1. /\ read[r] \in Nat /\ Len(feed[r]) \in Nat /\ sent \in Nat /\ MaxSent \in Nat
        /\ read[r] < Len(feed[r]) /\ Len(feed[r]) <= sent /\ sent <= MaxSent
    BY <1>1, <1>2, EventsBoundsAreNat DEF ReaderOK
  <2> QED
    BY <2>1, NextIsThere
<1>4. \A i \in DOMAIN got[r] : got[r][i] < x
  BY <1>2, <1>3 DEF ReaderOK
<1> HIDE DEF x
<1>5. /\ read'[r] = x /\ \A q \in Reader \ {r} : read'[q] = read[q]
      /\ got'[r] = Append(got[r], x) /\ \A q \in Reader \ {r} : got'[q] = got[q]
  BY <1>1, <1>2 DEF TypeOK
<1>6. /\ got'[r] \in Seq(Nat) /\ Rising(got'[r])
      /\ DOMAIN got'[r] = DOMAIN got[r] \cup {Len(got[r]) + 1}
      /\ got'[r][Len(got[r]) + 1] = x
      /\ \A i \in DOMAIN got[r] : got'[r][i] = got[r][i]
  BY <1>2, <1>3, <1>4, <1>5, AppendRises DEF ReaderOK
<1>7. ReaderOK(r)'
  <2>1. \A i \in DOMAIN got'[r] : got'[r][i] \in 1 .. x
    <3>1. \A i \in DOMAIN got[r] : got[r][i] \in 1 .. read[r]
      BY <1>2 DEF ReaderOK
    <3>2. 1 .. read[r] \subseteq 1 .. x /\ x \in 1 .. x
      BY <1>2, <1>3
    <3> QED
      BY <1>6, <3>1, <3>2
  <2>2. Len(got[r]) \in Nat /\ Len(got'[r]) = Len(got[r]) + 1
    BY <1>2, <1>3, <1>5
  <2>3. r \notin Watcher => Len(got'[r]) + warned[r] = x
    <3>1. r \notin Watcher => Len(got[r]) + warned[r] = read[r]
      BY <1>2 DEF ReaderOK
    <3> QED
      BY <1>2, <2>2, <3>1, OneMoreOfBoth DEF x
  <2>4. ASSUME r \in Watcher
        PROVE  Len(got'[r]) = x /\ \A i \in DOMAIN got'[r] : got'[r][i] = i
    <3>1. Len(got[r]) = read[r] /\ \A i \in DOMAIN got[r] : got[r][i] = i
      BY <1>1, <1>2, <2>4 DEF ReaderOK
    <3> QED
      BY <1>6, <2>2, <3>1 DEF x
  <2>5. x <= Len(feed[r])
    BY <1>3
  <2> QED
    BY <1>1, <1>2, <1>5, <1>6, <2>1, <2>3, <2>4, <2>5 DEF ReaderOK
<1>8. \A q \in Reader : ReaderOK(q)'
  BY <1>1, <1>5, <1>7 DEF EventInv, ReaderOK, Rising
<1>9. r = Bridge =>
        /\ flight' = [at |-> x, id |-> MsgId(feed[r][x])]
        /\ flight' \in InFlight
        /\ IdAt(flight'.id, x)
  <2> SUFFICES ASSUME r = Bridge
               PROVE  /\ flight' = [at |-> x, id |-> MsgId(feed[r][x])]
                      /\ flight' \in InFlight
                      /\ IdAt(flight'.id, x)
    OBVIOUS
  <2>1. flight' = [at |-> x, id |-> MsgId(feed[r][x])]
    BY <1>1
  <2>2. feed[r][x] \in Transition /\ x \in DOMAIN feed[r]
    BY <1>3 DEF EventInv, EndsOnce
  <2>3. MsgId(feed[r][x]) \in MessageId
    BY <1>2, <2>2 DEF MsgId, MessageId
  <2> QED
    BY <1>2, <1>3, <2>1, <2>2, <2>3 DEF InFlight, IdAt, MsgId
<1>10. TypeOK'
  <2>1. read' \in [Reader -> Nat] /\ got' \in [Reader -> Seq(Nat)]
    BY <1>1, <1>2, <1>3, <1>6, <1>5 DEF TypeOK
  <2>2. flight' \in InFlight \cup {None}
    BY <1>1, <1>2, <1>9 DEF TypeOK
  <2> QED
    BY <1>1, <1>2, <2>1, <2>2 DEF TypeOK
<1>11. EndsOnce' /\ IgnoredOK'
  BY <1>1 DEF EventInv, EndsOnce, IgnoredOK
<1>12. read[Bridge] \in Nat /\ read'[Bridge] \in Nat /\ read[Bridge] <= read'[Bridge]
  <2>1. read[Bridge] \in Nat
    BY <1>2, BridgeIsNoClient DEF TypeOK
  <2>2. CASE r = Bridge
    BY <1>3, <1>5, <2>1, <2>2
  <2>3. CASE r # Bridge
    BY <1>5, <2>1, <2>3, BridgeIsNoClient
  <2> QED
    BY <2>2, <2>3
<1>13. StreamOK'
  <2>1. \A j \in DOMAIN stream : stream[j] \in 1 .. read'[Bridge]
    BY <1>12 DEF EventInv, StreamOK
  <2>2. \A id, i : IdAt(id, i)' <=> IdAt(id, i)
    BY <1>1 DEF IdAt
  <2> QED
    BY <1>1, <2>1, <2>2 DEF EventInv, StreamOK, Rising
<1>14. FlightOK'
  <2>1. \A id, i : IdAt(id, i)' <=> IdAt(id, i)
    BY <1>1 DEF IdAt
  <2>2. CASE r = Bridge
    <3>1. flight'.at = x /\ x \in 1 .. read'[Bridge]
      BY <1>3, <1>5, <1>9, <2>2
    <3>2. \A j \in DOMAIN stream : stream[j] < x
      BY <1>2, <1>3, <2>2 DEF EventInv, StreamOK
    <3> QED
      BY <1>1, <1>9, <2>1, <2>2, <3>1, <3>2 DEF FlightOK
  <2>3. CASE r # Bridge
    <3>1. read'[Bridge] = read[Bridge]
      BY <1>5, <2>3, BridgeIsNoClient
    <3> QED
      BY <1>1, <2>1, <2>3, <3>1 DEF EventInv, FlightOK
  <2> QED
    BY <2>2, <2>3
<1>15. TakenSettled'
  <2>1. CASE r = Bridge
    <3>1. \A i \in DOMAIN got[r] : Settled(got[r][i])'
      BY <1>1, <2>1 DEF EventInv, TakenSettled, Settled
    <3>2. flight' # None /\ flight'.at = x
      BY <1>9, <2>1, NoneIsNothing
    <3>3. \A i \in DOMAIN got'[r] : i \in DOMAIN got[r] \/ got'[r][i] = x
      BY <1>6
    <3> QED
      BY <1>6, <2>1, <3>1, <3>2, <3>3 DEF TakenSettled, Settled
  <2>2. CASE r # Bridge
    <3>1. got'[Bridge] = got[Bridge]
      BY <1>5, <2>2, BridgeIsNoClient
    <3> QED
      BY <1>1, <2>2, <3>1 DEF EventInv, TakenSettled, Settled
  <2> QED
    BY <2>1, <2>2
<1> QED
  BY <1>1, <1>2, <1>8, <1>10, <1>11, <1>13, <1>14, <1>15 DEF EventInv

\* What is skipped is counted.
LEMMA Skipped ==
  ASSUME NEW g \in Nat, NEW w \in Nat, NEW a \in Nat, NEW o \in Nat, NEW n \in Nat,
         g + w = a, a < o, o <= n
  PROVE  w + o - a \in Nat /\ g + (w + o - a) = o
OBVIOUS

\* A reader that lags is told how much it does not get, or its stream ends.
LEMMA LaggedKeeps ==
  ASSUME EventInv, NEW r \in Reader, Lagged(r)
  PROVE  EventInv'
<1> DEFINE o == Oldest(r)
<1>1. /\ read[r] < o
      /\ r = Bridge => flight = None
      /\ read' = [read EXCEPT ![r] = o]
      /\ \/ /\ r \in Watcher
            /\ state' = [state EXCEPT ![r] = "gone"] /\ warned' = warned
         \/ /\ r \notin Watcher
            /\ state' = state /\ warned' = [warned EXCEPT ![r] = @ + o - read[r]]
      /\ UNCHANGED <<jetstream, filter, asked, feed, got, sent, millis>>
      /\ UNCHANGED <<flight, stream, seen, ignored, failed>>
  BY DEF Lagged, Lags, Receives, busVars, bridgeVars
<1>2. /\ TypeOK /\ ReaderOK(r) /\ read[r] \in Nat /\ Len(got[r]) \in Nat /\ warned[r] \in Nat
      /\ Len(feed[r]) \in Nat
  BY DEF EventInv, TypeOK
<1>3. o \in Nat /\ o <= Len(feed[r])
  BY <1>2, EventsBoundsAreNat DEF Oldest
<1>4. r \notin Watcher => Len(got[r]) + warned[r] = read[r]
  BY <1>2 DEF ReaderOK
<1> HIDE DEF o
<1>5. r \notin Watcher =>
        warned[r] + o - read[r] \in Nat /\ Len(got[r]) + (warned[r] + o - read[r]) = o
  BY <1>1, <1>2, <1>3, <1>4, Skipped
<1>6. /\ read'[r] = o
      /\ r \notin Watcher => warned'[r] = warned[r] + o - read[r]
      /\ r \in Watcher => state'[r] = "gone"
      /\ \A q \in Reader \ {r} :
           read'[q] = read[q] /\ warned'[q] = warned[q] /\ state'[q] = state[q]
  <2>1. read'[r] = o /\ \A q \in Reader \ {r} : read'[q] = read[q]
    BY <1>1, <1>2 DEF TypeOK
  <2>2. CASE r \in Watcher
    BY <1>1, <1>2, <2>1, <2>2 DEF TypeOK
  <2>3. CASE r \notin Watcher
    <3>1. state' = state /\ warned' = [warned EXCEPT ![r] = @ + o - read[r]]
      BY <1>1, <2>3
    <3> QED
      BY <1>2, <2>1, <2>3, <3>1 DEF TypeOK
  <2> QED
    BY <2>2, <2>3
<1>7. ReaderOK(r)'
  <2>1. \A i \in DOMAIN got[r] : got[r][i] \in 1 .. o
    BY <1>1, <1>2, <1>3 DEF ReaderOK
  <2>2. r \notin Watcher => Len(got[r]) + warned'[r] = o
    BY <1>5, <1>6
  <2>3. r \in Watcher => state'[r] = "gone" /\ \A i \in DOMAIN got[r] : got[r][i] = i
    BY <1>2, <1>6 DEF ReaderOK
  <2> QED
    BY <1>1, <1>2, <1>3, <1>6, <2>1, <2>2, <2>3 DEF ReaderOK, Rising
<1>8. \A q \in Reader : ReaderOK(q)'
  BY <1>1, <1>6, <1>7 DEF EventInv, ReaderOK, Rising
<1>9. TypeOK'
  <2>1. read' \in [Reader -> Nat]
    BY <1>1, <1>2, <1>3 DEF TypeOK
  <2>2. warned' \in [Reader -> Nat]
    <3>1. CASE r \in Watcher
      BY <1>1, <1>2, <3>1 DEF TypeOK
    <3>2. CASE r \notin Watcher
      <4>1. warned' = [warned EXCEPT ![r] = warned[r] + o - read[r]]
        BY <1>1, <3>2
      <4> QED
        BY <1>2, <1>5, <3>2, <4>1 DEF TypeOK
    <3> QED
      BY <3>1, <3>2
  <2>3. state' \in [Reader -> {"new", "open", "gone"}]
    BY <1>1, <1>2 DEF TypeOK
  <2> QED
    BY <1>1, <1>2, <2>1, <2>2, <2>3 DEF TypeOK
<1>10. EndsOnce' /\ IgnoredOK' /\ TakenSettled'
  BY <1>1 DEF EventInv, EndsOnce, IgnoredOK, TakenSettled, Settled
<1>11. read[Bridge] \in Nat /\ read'[Bridge] \in Nat /\ read[Bridge] <= read'[Bridge]
  BY <1>1, <1>2, <1>3, <1>6, BridgeIsNoClient DEF TypeOK
<1>12. \A id, i : IdAt(id, i)' <=> IdAt(id, i)
  BY <1>1 DEF IdAt
<1>13. StreamOK'
  <2>1. \A j \in DOMAIN stream : stream[j] \in 1 .. read'[Bridge]
    BY <1>11 DEF EventInv, StreamOK
  <2> QED
    BY <1>1, <1>12, <2>1 DEF EventInv, StreamOK, Rising
<1>14. FlightOK'
  <2>1. flight # None => flight.at \in 1 .. read'[Bridge]
    BY <1>11 DEF EventInv, FlightOK
  <2> QED
    BY <1>1, <1>12, <2>1 DEF EventInv, FlightOK
<1> QED
  BY <1>1, <1>8, <1>9, <1>10, <1>13, <1>14 DEF EventInv

\* Two transitions with the same execution and type are the same; so an id that was made
\* for the end of an execution was made for that one.
LEMMA IdTellsEnds ==
  ASSUME EndsOnce, NEW id, NEW i, NEW j, IdAt(id, i), IdAt(id, j),
         feed[Bridge][i].exec # None
  PROVE  i = j
<1> DEFINE f == feed[Bridge]
<1>1. i \in DOMAIN f /\ j \in DOMAIN f /\ f[i] \in Transition /\ f[j] \in Transition
  BY DEF EndsOnce, IdAt
<1>2. f[i].exec = f[j].exec /\ f[i].type = f[j].type
  BY DEF IdAt
<1>3. f[i] = f[j]
  BY <1>1, <1>2, TransitionsAreTyped
<1> QED
  BY <1>1, <1>3 DEF EndsOnce

\* What becomes of the message in flight.
LEMMA DedupKeeps ==
  ASSUME EventInv, PublishDedup
  PROVE  EventInv'
<1> DEFINE x == flight.at
<1>1. /\ flight # None /\ flight' = None
      /\ UNCHANGED <<jetstream, filter, asked, state, feed, read, got, warned, sent, millis>>
  BY DEF PublishDedup, busVars, readerVars
<1>2. /\ TypeOK /\ flight \in InFlight /\ x \in 1 .. read[Bridge] /\ IdAt(flight.id, x)
      /\ \A j \in DOMAIN stream : stream[j] < x
      /\ read[Bridge] \in Nat /\ x \in Nat /\ flight.id \in MessageId
  BY <1>1, BridgeIsNoClient DEF EventInv, FlightOK, TypeOK, InFlight
<1>3. \A r \in Reader : ReaderOK(r)'
  BY <1>1 DEF EventInv, ReaderOK, Rising
<1>4. EndsOnce' /\ FlightOK'
  BY <1>1 DEF EventInv, EndsOnce, FlightOK
<1>5. \A id, i : IdAt(id, i)' <=> IdAt(id, i)
  BY <1>1 DEF IdAt
<1>6. CASE /\ stream' = Append(stream, x)
           /\ seen' = seen \cup {flight.id}
           /\ UNCHANGED <<ignored, failed>>
  <2> HIDE DEF x
  <2>1. /\ stream' \in Seq(Nat) /\ Rising(stream')
        /\ DOMAIN stream' = DOMAIN stream \cup {Len(stream) + 1}
        /\ stream'[Len(stream) + 1] = x
        /\ \A j \in DOMAIN stream : stream'[j] = stream[j]
    BY <1>2, <1>6, AppendRises DEF EventInv, StreamOK, TypeOK
  <2>2. StreamOK'
    <3>1. \A j \in DOMAIN stream' : stream'[j] \in 1 .. read'[Bridge]
      BY <1>1, <1>2, <2>1 DEF EventInv, StreamOK
    <3>2. ASSUME NEW id \in seen' PROVE \E j \in DOMAIN stream' : IdAt(id, stream'[j])
      <4>1. CASE id \in seen
        BY <2>1, <4>1 DEF EventInv, StreamOK
      <4>2. CASE id = flight.id
        BY <1>2, <2>1, <4>2
      <4> QED
        BY <1>6, <4>1, <4>2
    <3>3. \A id \in seen' : \E j \in DOMAIN stream' :
            stream'[j] \in DOMAIN feed'[Bridge] /\
            \E m \in 0 .. MaxMillis :
              id = <<feed'[Bridge][stream'[j]].exec, feed'[Bridge][stream'[j]].type, m>>
      BY <1>1, <3>2 DEF IdAt
    <3> QED
      BY <2>1, <3>1, <3>3 DEF StreamOK, IdAt
  <2>3. TakenSettled'
    BY <1>1, <1>6, <2>1 DEF EventInv, TakenSettled, Settled, x
  <2>4. TypeOK'
    BY <1>1, <1>2, <1>6, <2>1 DEF TypeOK
  <2>5. IgnoredOK'
    BY <1>1, <1>6 DEF EventInv, IgnoredOK
  <2> QED
    BY <1>1, <1>3, <1>4, <2>2, <2>3, <2>4, <2>5 DEF EventInv
<1>7. CASE /\ flight.id \in seen
           /\ ignored' = ignored \cup {x}
           /\ UNCHANGED <<stream, seen, failed>>
  <2>1. PICK j \in DOMAIN stream : IdAt(flight.id, stream[j])
    BY <1>7 DEF EventInv, StreamOK
  <2>2. stream[j] # x
    <3>1. stream[j] < x /\ stream[j] \in Nat
      BY <1>2 DEF EventInv, StreamOK
    <3> QED
      BY <1>2, <3>1
  <2>3. feed[Bridge][x].exec = None
    BY <1>2, <2>1, <2>2, IdTellsEnds DEF EventInv
  <2>4. x \in DOMAIN feed[Bridge]
    BY <1>2 DEF IdAt
  <2>5. IgnoredOK'
    BY <1>1, <1>7, <2>3, <2>4 DEF EventInv, IgnoredOK
  <2>6. StreamOK'
    BY <1>1, <1>5, <1>7 DEF EventInv, StreamOK, Rising
  <2>7. TakenSettled'
    BY <1>1, <1>7 DEF EventInv, TakenSettled, Settled
  <2>8. TypeOK'
    BY <1>1, <1>2, <1>7 DEF TypeOK
  <2> QED
    BY <1>1, <1>3, <1>4, <2>5, <2>6, <2>7, <2>8 DEF EventInv
<1>8. CASE /\ failed' = failed \cup {x}
           /\ UNCHANGED <<stream, seen, ignored>>
  <2>1. IgnoredOK'
    BY <1>1, <1>8 DEF EventInv, IgnoredOK
  <2>2. StreamOK'
    BY <1>1, <1>5, <1>8 DEF EventInv, StreamOK, Rising
  <2>3. TakenSettled'
    BY <1>1, <1>8 DEF EventInv, TakenSettled, Settled
  <2>4. TypeOK'
    BY <1>1, <1>2, <1>8 DEF TypeOK
  <2> QED
    BY <1>1, <1>3, <1>4, <2>1, <2>2, <2>3, <2>4 DEF EventInv
<1> QED
  BY <1>6, <1>7, <1>8 DEF PublishDedup

\* In the beginning nothing has been sent.
LEMMA InitEvents == Init => EventInv
<1> SUFFICES ASSUME Init PROVE EventInv
  OBVIOUS
<1>1. TypeOK
  BY DEF Init, TypeOK
<1>2. \A r \in Reader : ReaderOK(r)
  BY DEF Init, ReaderOK, Rising
<1>3. feed[Bridge] = <<>> /\ got[Bridge] = <<>>
  BY BridgeIsNoClient DEF Init
<1>4. EndsOnce /\ TakenSettled
  BY <1>3 DEF EndsOnce, TakenSettled
<1>5. FlightOK /\ StreamOK /\ IgnoredOK
  BY DEF Init, FlightOK, StreamOK, IgnoredOK, Rising
<1>6. sent <= MaxSent /\ millis <= MaxMillis
  BY EventsBoundsAreNat DEF Init
<1> QED
  BY <1>1, <1>2, <1>4, <1>5, <1>6 DEF EventInv

\* Every step preserves EventInv.
LEMMA StepEvents == EventInv /\ [Next]_vars => EventInv'
<1> SUFFICES ASSUME EventInv, [Next]_vars PROVE EventInv'
  OBVIOUS
<1>1. TypeOK /\ millis \in Nat /\ millis <= MaxMillis
  BY DEF EventInv, TypeOK
<1>2. ASSUME NEW r \in Reader, Subscribe(r) \/ Disconnect(r) PROVE EventInv'
  <2>1. /\ UNCHANGED <<busVars, bridgeVars, feed, read, got, warned, sent, millis>>
        /\ \/ state[r] = "new" /\ state' = [state EXCEPT ![r] = "open"]
           \/ state' = [state EXCEPT ![r] = "gone"]
    BY <1>2 DEF Subscribe, Disconnect
  <2>2. TypeOK'
    BY <1>1, <2>1 DEF TypeOK, busVars, bridgeVars
  <2>3. \A q \in Reader : state[q] = "gone" => state'[q] = "gone"
    BY <1>1, <2>1 DEF TypeOK
  <2> QED
    BY <1>1, <2>1, <2>2, <2>3, QuietKeeps
<1>3. ASSUME NEW r \in Reader, Receive(r) PROVE EventInv'
  BY <1>3, ReceiveKeeps
<1>4. ASSUME NEW r \in Reader, Lagged(r) PROVE EventInv'
  BY <1>4, LaggedKeeps
<1>5. ASSUME NEW p \in Publisher, NEW x \in Subject, EnsureChannel(p, x) PROVE EventInv'
  <2>1. /\ UNCHANGED <<jetstream, filter, readerVars, bridgeVars, sent, millis>>
        /\ asked' = [asked EXCEPT ![p] = x]
    BY <1>5 DEF EnsureChannel
  <2>2. TypeOK'
    BY <1>1, <2>1 DEF TypeOK, readerVars, bridgeVars
  <2> QED
    BY <1>1, <2>1, <2>2, QuietKeeps DEF readerVars
<1>6. ASSUME NEW p \in Publisher, Publish(p) PROVE EventInv'
  BY <1>6, PublishKeeps
<1>7. ASSUME NEW p \in Publisher, PublishFails(p) PROVE EventInv'
  <2>1. /\ UNCHANGED <<jetstream, filter, readerVars, bridgeVars, sent, millis>>
        /\ asked' = [asked EXCEPT ![p] = None]
    BY <1>7 DEF PublishFails
  <2>2. TypeOK'
    BY <1>1, <2>1 DEF TypeOK, readerVars, bridgeVars
  <2> QED
    BY <1>1, <2>1, <2>2, QuietKeeps DEF readerVars
<1>8. ASSUME NEW t \in Transition, Emit(t) PROVE EventInv'
  BY <1>8, EmitKeeps
<1>9. CASE Tick
  <2>1. /\ UNCHANGED <<busVars, readerVars, bridgeVars, sent>>
        /\ millis' \in Nat /\ millis' <= MaxMillis
    BY <1>1, <1>9, EventsBoundsAreNat DEF Tick
  <2>2. TypeOK'
    BY <1>1, <2>1 DEF TypeOK, busVars, readerVars, bridgeVars
  <2> QED
    BY <2>1, <2>2, QuietKeeps DEF readerVars
<1>10. CASE PublishDedup
  BY <1>10, DedupKeeps
<1>11. CASE UNCHANGED vars
  <2>1. UNCHANGED <<busVars, readerVars, bridgeVars, sent, millis>>
    BY <1>11 DEF vars
  <2>2. TypeOK'
    BY <1>1, <2>1 DEF TypeOK, busVars, readerVars, bridgeVars
  <2> QED
    BY <1>1, <2>1, <2>2, QuietKeeps DEF readerVars
<1> QED
  BY <1>2, <1>3, <1>4, <1>5, <1>6, <1>7, <1>8, <1>9, <1>10, <1>11 DEF Next

\* EventInv holds throughout.
THEOREM EventInvariant == Spec => []EventInv
BY InitEvents, StepEvents, PTL DEF Spec

\* Every variable of the event paths keeps its type, whatever the number of clients.
THEOREM TypeCorrect == Spec => []TypeOK
<1>1. EventInv => TypeOK
  BY DEF EventInv
<1> QED
  BY <1>1, EventInvariant, PTL

\* No event is lost silently, given twice or given out of order, however far a reader
\* falls behind and whatever the capacity of the channel: HTTP clients and the bridge are
\* told how many they lost, a gRPC stream that lost any has ended (subscribe_events,
\* watch_events, spawn_state_bridge).
THEOREM EventsAreAccounted == Spec => []EveryEventAccounted
<1>1. EventInv => EveryEventAccounted
  BY DEF EventInv, ReaderOK, Rising, EveryEventAccounted
<1> QED
  BY <1>1, EventInvariant, PTL

\* The stream holds the supervisor's events in their order and each at most once, and of
\* every other one the bridge took it is known what became of it (spawn_state_bridge).
THEOREM BridgeStoresInOrder == Spec => []StoredInOrder
<1>1. EventInv => StoredInOrder
  BY DEF EventInv, StreamOK, Rising, TakenSettled, Settled, StoredInOrder
<1> QED
  BY <1>1, EventInvariant, PTL

\* What de-duplication ignores never names an execution: the end of a workflow is not
\* swallowed (supervisor_msg_id, publish_dedup).
THEOREM EndsAreNotSwallowed == Spec => []EndsSurviveDedup
<1>1. EventInv => EndsSurviveDedup
  BY DEF EventInv, IgnoredOK, EndsSurviveDedup
<1> QED
  BY <1>1, EventInvariant, PTL
=============================================================================
