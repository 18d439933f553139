----------------------------- MODULE CaptionBus -----------------------------
(***************************************************************************)
(* The caption bus (internal/bus) of one session id: its session objects,  *)
(* the subscribers with their bounded channels, the viewer count messages  *)
(* and the race of lockSession with CloseSession.  One critical section of *)
(* session.mu is one action; finding the object under Bus.mu is another,   *)
(* so whoever uses it may find it closed meanwhile.                        *)
(***************************************************************************)
EXTENDS CaptionTrack, FiniteSets

CONSTANTS
  Subscribers,  \* ids of subscriptions; each is used once
  Publishers,   \* goroutines that publish
  Languages,    \* caption tracks
  Published,    \* the captions they may publish
  Buffer,       \* messages a subscriber may lag behind
  HistoryN,     \* finals a subscriber asks for
  Objects,      \* bound: session objects, in the order they are made
  MaxPublished  \* bound: captions published

\* WithSubscriberBuffer and WithHistorySize ignore what is not positive.
BusOptions == {Buffer, HistorySize} \subseteq Nat \ {0}

ASSUME BusAssumption ==
  /\ BusOptions /\ HistoryN \in Nat /\ MaxPublished \in Nat
  /\ Objects \in Nat \ {0} /\ Published \subseteq Captions

None == 0

VARIABLES
  current,  \* the object in Bus.sessions, or None
  made,     \* objects made so far
  closing,  \* the object CloseSession took out and has yet to close
  bus,      \* the objects: closed, tracks, subs, sent (sentViewers), recent
            \* (lastViewers within the interval), timer (viewersTimer set)
  found,    \* the object each process found and has yet to lock
  queue,    \* the channel of each subscriber
  open,     \* subscribers whose channel is open
  home,     \* the object each subscriber is in or was in
  gone,     \* subscribers whose client went away
  published

busVars == <<current, made, closing, bus, found, queue, open, home, gone, published>>

Procs == Publishers \cup Subscribers

History(caps)   == [type |-> "history", captions |-> caps]
Caption(l, c)   == [type |-> "caption", lang |-> l, caption |-> c]
ViewerCount(n)  == [type |-> "viewers", viewers |-> n]
State           == [type |-> "state"]

NewSession == [closed |-> FALSE, tracks |-> [l \in Languages |-> EmptyTrack],
               subs |-> {}, sent |-> 0, recent |-> FALSE, timer |-> FALSE]

BusTypeOK ==
  /\ current \in 0 .. Objects /\ made \in 0 .. Objects /\ closing \in 0 .. Objects
  /\ \A o \in 1 .. Objects : /\ bus[o].subs \subseteq Subscribers
                             /\ bus[o].sent \in 0 .. Cardinality(Subscribers)
  /\ found \in [Procs -> 0 .. Objects]
  /\ \A c \in Subscribers : Len(queue[c]) <= Buffer
  /\ open \subseteq Subscribers /\ gone \subseteq Subscribers
  /\ home \in [Subscribers -> 0 .. Objects]
  /\ published \in 0 .. MaxPublished

Init ==
  /\ current = None /\ made = 0 /\ closing = None
  /\ bus = [o \in 1 .. Objects |-> NewSession]
  /\ found = [p \in Procs |-> None]
  /\ queue = [c \in Subscribers |-> <<>>]
  /\ open = {} /\ home = [c \in Subscribers |-> None] /\ gone = {}
  /\ published = 0

-----------------------------------------------------------------------------
(* Delivery.  The state it changes is a record [s, queue, open]: a session  *)
(* object, the channels, and which are open.                                *)

\* broadcast: a subscriber whose channel is full is removed, never waited for.
Deliver(b, msg, audience) ==
  LET full == {c \in audience : Len(b.queue[c]) >= Buffer} IN
  [b EXCEPT !.s.subs = @ \ full,
            !.open   = @ \ full,
            !.queue  = [c \in Subscribers |->
               IF c \in audience \ full THEN Append(b.queue[c], msg) ELSE b.queue[c]]]
Drops(b, audience) == \E c \in audience : Len(b.queue[c]) >= Buffer

\* sendViewers.  A drop it causes changes the count again: viewersChanged,
\* called from within, then sets the timer, since lastViewers is now.
\* Mutant: it does not.
ResendNever(b) == b.s.timer
Resend(b) == b.s.timer \/ Drops(b, b.s.subs)

SendViewers(b) ==
  LET n == Cardinality(b.s.subs) IN
  IF n = b.s.sent \/ b.s.closed THEN b
  ELSE [Deliver(b, ViewerCount(n), b.s.subs) EXCEPT
          !.s.sent = n, !.s.recent = TRUE, !.s.timer = Resend(b)]

\* viewersChanged.
ViewersChanged(b) ==
  IF b.s.timer \/ b.s.closed THEN b
  ELSE IF b.s.recent THEN [b EXCEPT !.s.timer = TRUE] ELSE SendViewers(b)

Broadcast(b, msg, audience) ==
  LET d == Deliver(b, msg, audience) IN
  IF Drops(b, audience) THEN ViewersChanged(d) ELSE d

\* A critical section of object o.
Holding(o) == [s |-> bus[o], queue |-> queue, open |-> open]
Unlock(o, b) ==
  /\ bus' = [bus EXCEPT ![o] = b.s]
  /\ queue' = b.queue
  /\ open' = b.open

-----------------------------------------------------------------------------
(* lockSession *)

\* The first half: under Bus.mu, the object in the map, made if there is none.
Find(p) ==
  /\ found[p] = None
  /\ p \in Subscribers => home[p] = None /\ p \notin gone
  /\ \/ /\ current # None
        /\ found' = [found EXCEPT ![p] = current]
        /\ UNCHANGED <<current, made>>
     \/ /\ current = None /\ made < Objects
        /\ made' = made + 1 /\ current' = made + 1
        /\ found' = [found EXCEPT ![p] = made + 1]
  /\ UNCHANGED <<closing, bus, queue, open, home, gone, published>>

\* The second: the object may be closed by now, then look again.  Mutant:
\* its user goes on with it.
UsableAlways(o) == TRUE
Usable(o) == ~bus[o].closed

Retry(p) ==
  /\ found[p] # None /\ ~Usable(found[p])
  /\ found' = [found EXCEPT ![p] = None]
  /\ UNCHANGED <<current, made, closing, bus, queue, open, home, gone, published>>

-----------------------------------------------------------------------------
(* Publish, Subscribe and their ends *)

\* Publish of a caption; a late interim is not delivered, nor an unedited
\* final of an edited one.
PublishCaption(p, l, c) ==
  LET o == found[p]
      t == bus[o].tracks[l]
      b == [Holding(o) EXCEPT !.s.tracks[l] = Add(t, c)]
  IN
  /\ p \in Publishers /\ o # None /\ Usable(o)
  /\ published < MaxPublished /\ published' = published + 1
  /\ Unlock(o, IF Dropped(t, c) THEN b ELSE Broadcast(b, Caption(l, c), bus[o].subs))
  /\ found' = [found EXCEPT ![p] = None]
  /\ UNCHANGED <<current, made, closing, home, gone>>

\* Publish of any other message, to every subscriber.
PublishState(p) ==
  LET o == found[p] IN
  /\ p \in Publishers /\ o # None /\ Usable(o)
  /\ published < MaxPublished /\ published' = published + 1
  /\ Unlock(o, Broadcast(Holding(o), State, bus[o].subs))
  /\ found' = [found EXCEPT ![p] = None]
  /\ UNCHANGED <<current, made, closing, home, gone>>

\* session.history: the last finals that are not hidden, and the interim.
HistoryOf(o) ==
  History([l \in Languages |->
    LET t == bus[o].tracks[l] IN
    [finals |-> {c \in {Recent(t, HistoryN)[i] : i \in 1 .. Least(HistoryN, Len(t.ring))} : ~c.hidden},
     interim |-> t.interim]])

\* SubscribeHistory: the history goes first; a client that is gone already
\* is not registered.
Subscribe(c) ==
  LET o == found[c]
      b == [Holding(o) EXCEPT !.queue[c] = <<HistoryOf(o)>>]
  IN
  /\ c \in Subscribers /\ o # None /\ Usable(o)
  /\ Unlock(o, IF c \in gone THEN b
               ELSE ViewersChanged([b EXCEPT !.s.subs = @ \cup {c}, !.open = @ \cup {c}]))
  /\ home' = [home EXCEPT ![c] = o]
  /\ found' = [found EXCEPT ![c] = None]
  /\ UNCHANGED <<current, made, closing, gone, published>>

\* The connection's handler takes a message.
Receive(c) ==
  /\ queue[c] # <<>> /\ c \notin gone
  /\ queue' = [queue EXCEPT ![c] = Tail(@)]
  /\ UNCHANGED <<current, made, closing, bus, found, open, home, gone, published>>

\* The client goes away; the AfterFunc of its context then unregisters it.
GoAway(c) ==
  /\ c \notin gone /\ (home[c] # None \/ found[c] # None)
  /\ gone' = gone \cup {c}
  /\ UNCHANGED <<current, made, closing, bus, found, queue, open, home, published>>

Unregister(c) ==
  LET o == home[c]
      b == [Holding(o) EXCEPT !.s.subs = @ \ {c}, !.open = @ \ {c}]
  IN
  /\ o # None /\ c \in gone /\ c \in bus[o].subs
  /\ Unlock(o, ViewersChanged(b))
  /\ UNCHANGED <<current, made, closing, found, home, gone, published>>

\* The viewers interval passes, and the timer set for its end fires.
Elapse(o) ==
  /\ bus[o].recent
  /\ bus' = [bus EXCEPT ![o].recent = FALSE]
  /\ UNCHANGED <<current, made, closing, found, queue, open, home, gone, published>>

TimerFires(o) ==
  /\ bus[o].timer /\ ~bus[o].recent
  /\ Unlock(o, SendViewers([Holding(o) EXCEPT !.s.timer = FALSE]))
  /\ UNCHANGED <<current, made, closing, found, home, gone, published>>

\* CloseSession: under Bus.mu, then under the object's own lock.
CloseTake ==
  /\ current # None /\ closing = None
  /\ closing' = current /\ current' = None
  /\ UNCHANGED <<made, bus, found, queue, open, home, gone, published>>

CloseObject ==
  LET o == closing IN
  /\ o # None
  /\ bus' = [bus EXCEPT ![o].closed = TRUE, ![o].subs = {}, ![o].timer = FALSE]
  /\ open' = open \ bus[o].subs
  /\ closing' = None
  /\ UNCHANGED <<current, made, found, queue, home, gone, published>>

Quiet ==
  \/ \E p \in Procs : Find(p) \/ Retry(p)
  \/ \E p \in Publishers : PublishState(p)
                           \/ \E l \in Languages, c \in Published : PublishCaption(p, l, c)
  \/ \E c \in Subscribers : Subscribe(c) \/ GoAway(c) \/ Unregister(c)
  \/ \E o \in 1 .. made : Elapse(o) \/ TimerFires(o)
  \/ CloseTake \/ CloseObject

Next == Quiet \/ \E c \in Subscribers : Receive(c)

Spec == Init /\ [][Next]_busVars

-----------------------------------------------------------------------------
(* What holds *)

\* A channel is open exactly while its subscriber is registered, with an object
\* that publishers find or that CloseSession is about to close: it is closed
\* once and never sent to afterwards (session.remove), and nobody waits for
\* captions on a forgotten object (lockSession against CloseSession).
OpenIsRegistered == open = UNION {bus[o].subs : o \in 1 .. Objects}
Reachable ==
  /\ OpenIsRegistered
  /\ \A o \in 1 .. Objects : bus[o].subs # {} => ~bus[o].closed /\ o \in {current, closing}

\* The last viewers message was right, or a trailing one is scheduled: through
\* subscriptions, clients that go away and drops, also those the message
\* itself causes (viewersChanged, sendViewers).
ViewersTold ==
  \A o \in 1 .. Objects :
    bus[o].closed \/ bus[o].timer \/ bus[o].sent = Cardinality(bus[o].subs)

=============================================================================
