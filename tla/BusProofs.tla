------------------------------- MODULE BusProofs -------------------------------
(***************************************************************************)
(* What CaptionBus promises, for any subscribers, publishers, captions and *)
(* session objects and any size of the channels; a viewer page is one of   *)
(* its users.                                                              *)
(***************************************************************************)
EXTENDS CaptionViewer, FiniteSetTheorems, TLAPS

\* A record of these fields; of the tracks nothing is needed here.
IsSession(s) ==
  /\ s = [closed |-> s.closed, tracks |-> s.tracks, subs |-> s.subs, sent |-> s.sent,
          recent |-> s.recent, timer |-> s.timer]
  /\ s.closed \in BOOLEAN /\ s.recent \in BOOLEAN /\ s.timer \in BOOLEAN
  /\ s.subs \subseteq Subscribers
IsSection(b) == b = [s |-> b.s, queue |-> b.queue, open |-> b.open] /\ IsSession(b.s)

BusTypes ==
  /\ made \in 0 .. Objects /\ current \in 0 .. made /\ closing \in 0 .. made
  /\ DOMAIN bus = 1 .. Objects /\ bus = [o \in 1 .. Objects |-> bus[o]]
  /\ \A o \in 1 .. Objects : IsSession(bus[o])
  /\ found \in [Procs -> 0 .. made] /\ home \in [Subscribers -> 0 .. made]
  /\ DOMAIN queue = Subscribers /\ queue = [c \in Subscribers |-> queue[c]]

\* A subscriber is in the object it was registered with, and is registered once.
AtHome ==
  /\ \A o \in 1 .. Objects : \A c \in bus[o].subs : home[c] = o
  /\ \A c \in Subscribers : found[c] # None => home[c] = None

\* An object that was made and is not closed is found, or is about to be closed.
InUse ==
  \A o \in 1 .. made : ~bus[o].closed => o \in {current, closing}

\* The count a session object told, or will tell.
Told(s) == s.closed \/ s.timer \/ s.sent = Cardinality(s.subs)

BusInv == BusTypes /\ AtHome /\ InUse /\ Reachable /\ ViewersTold

\* What a critical section may do to the subscribers of a session object: drop
\* some, from the object and from the open channels.
Drop(b, d) ==
  /\ IsSection(d) /\ d.s.closed = b.s.closed
  /\ d.queue = [c \in Subscribers |-> d.queue[c]]
  /\ \E full \in SUBSET b.s.subs : d.s.subs = b.s.subs \ full /\ d.open = b.open \ full
LEMMA DropNone ==
  ASSUME NEW b, IsSection(b), b.queue = [c \in Subscribers |-> b.queue[c]]
  PROVE  Drop(b, b)
<1>1. {} \in SUBSET b.s.subs /\ b.s.subs = b.s.subs \ {} /\ b.open = b.open \ {} OBVIOUS
<1>2. QED BY <1>1 DEF Drop

LEMMA DropTwice ==
  ASSUME NEW b, NEW d, NEW e, Drop(b, d), Drop(d, e)
  PROVE  Drop(b, e)
<1>1. PICK f \in SUBSET b.s.subs : d.s.subs = b.s.subs \ f /\ d.open = b.open \ f BY DEF Drop
<1>2. PICK g \in SUBSET d.s.subs : e.s.subs = d.s.subs \ g /\ e.open = d.open \ g BY DEF Drop
<1>3. f \cup g \in SUBSET b.s.subs BY <1>1, <1>2
<1>4. e.s.subs = b.s.subs \ (f \cup g) /\ e.open = b.open \ (f \cup g) BY <1>1, <1>2
<1>5. QED BY <1>3, <1>4 DEF Drop

LEMMA DeliverDrops ==
  ASSUME NEW b, IsSection(b), NEW msg
  PROVE  LET d == Deliver(b, msg, b.s.subs) IN
         /\ Drop(b, d) /\ d.s.recent = b.s.recent /\ d.s.timer = b.s.timer /\ d.s.sent = b.s.sent
         /\ ~Drops(b, b.s.subs) => d.s.subs = b.s.subs
<1> DEFINE full == {c \in b.s.subs : Len(b.queue[c]) >= Buffer}
           q == [c \in Subscribers |->
                  IF c \in b.s.subs \ full THEN Append(b.queue[c], msg) ELSE b.queue[c]]
           d == Deliver(b, msg, b.s.subs)
<1>1. d = [b EXCEPT !.s.subs = @ \ full, !.open = @ \ full, !.queue = q] BY DEF Deliver
<1> HIDE DEF d
<1>2. q = [c \in Subscribers |-> q[c]] OBVIOUS
<1>3. ~Drops(b, b.s.subs) => b.s.subs \ full = b.s.subs BY DEF Drops
<1>4. full \in SUBSET b.s.subs OBVIOUS
<1> HIDE DEF full, q
<1>5. d = [s |-> [b.s EXCEPT !.subs = b.s.subs \ full], queue |-> q, open |-> b.open \ full]
  BY <1>1 DEF IsSection
<1>6. /\ IsSession(d.s) /\ d.s.subs = b.s.subs \ full /\ d.s.recent = b.s.recent
      /\ d.s.timer = b.s.timer /\ d.s.sent = b.s.sent /\ d.s.closed = b.s.closed
  BY <1>5 DEF IsSection, IsSession
<1>7. d.queue = q /\ d.open = b.open \ full BY <1>5
<1>8. IsSection(d) BY <1>5, <1>6 DEF IsSection
<1>9. Drop(b, d) BY <1>2, <1>4, <1>6, <1>7, <1>8 DEF Drop
<1>10. QED BY <1>3, <1>6, <1>9 DEF d

\* A field of the session object of a critical section.
LEMMA SectionTimer ==
  ASSUME NEW b, b = [s |-> b.s, queue |-> b.queue, open |-> b.open], NEW v
  PROVE  [b EXCEPT !.s.timer = v]
           = [s |-> [b.s EXCEPT !.timer = v], queue |-> b.queue, open |-> b.open]
<1> DEFINE x == [b.s EXCEPT !.timer = v]
<1>1. [b EXCEPT !.s.timer = v] = [b EXCEPT !.s = x] OBVIOUS
<1> HIDE DEF x
<1>2. [b EXCEPT !.s = x] = [s |-> x, queue |-> b.queue, open |-> b.open] OBVIOUS
<1>3. QED BY <1>1, <1>2 DEF x

\* After sendViewers the count is told, and so it is after viewersChanged.
LEMMA SendTells ==
  ASSUME NEW b, IsSection(b), b.queue = [c \in Subscribers |-> b.queue[c]]
  PROVE  Drop(b, SendViewers(b)) /\ Told(SendViewers(b).s)
<1> DEFINE n == Cardinality(b.s.subs)
           d == Deliver(b, ViewerCount(n), b.s.subs)
           e == [d EXCEPT !.s.sent = n, !.s.recent = TRUE, !.s.timer = Resend(b)]
<1>1. CASE n = b.s.sent \/ b.s.closed
  <2>1. SendViewers(b) = b BY <1>1 DEF SendViewers
  <2>2. QED BY <1>1, <2>1, DropNone DEF Told
<1>2. CASE ~(n = b.s.sent \/ b.s.closed)
  <2>1. SendViewers(b) = e BY <1>2 DEF SendViewers
  <2>2. /\ Drop(b, d) /\ d.s.timer = b.s.timer
        /\ ~Drops(b, b.s.subs) => d.s.subs = b.s.subs
    BY DeliverDrops
  <2>3. n = Cardinality(b.s.subs) OBVIOUS
  <2> HIDE DEF d, n
  <2>4. Resend(b) \in BOOLEAN /\ (Resend(b) <=> b.s.timer \/ Drops(b, b.s.subs))
    BY DEF Resend, IsSection, IsSession, Drops
  <2>5. IsSection(d) BY <2>2 DEF Drop
  <2>6. /\ IsSection(e) /\ e.s.subs = d.s.subs /\ e.s.closed = d.s.closed
        /\ e.s.sent = n /\ e.s.timer = Resend(b) /\ e.queue = d.queue /\ e.open = d.open
    <3> DEFINE v == Resend(b)
               x == [d.s EXCEPT !.sent = n]
               r == TRUE
               y == [x EXCEPT !.recent = r]
               z == [y EXCEPT !.timer = v]
               e1 == [d EXCEPT !.s.sent = n]
               e2 == [e1 EXCEPT !.s.recent = r]
    <3>1. e = [e2 EXCEPT !.s.timer = v] OBVIOUS
    <3>2. e1 = [d EXCEPT !.s = x] OBVIOUS
    <3>3. v \in BOOLEAN /\ r \in BOOLEAN BY <2>4
    <3>4. v = Resend(b) OBVIOUS
    <3> HIDE DEF x, e, e1, v, r
    <3>5. e1 = [s |-> x, queue |-> d.queue, open |-> d.open] BY <2>5, <3>2 DEF IsSection
    <3>6. e2 = [e1 EXCEPT !.s = y] BY <3>5
    <3> HIDE DEF y, e2
    <3>7. e2 = [s |-> y, queue |-> d.queue, open |-> d.open] BY <3>5, <3>6
    <3>8. e = [e2 EXCEPT !.s = z] BY <3>1, <3>7
    <3> HIDE DEF z
    <3>9. e = [s |-> z, queue |-> d.queue, open |-> d.open] BY <3>7, <3>8
    <3>10. IsSession(x) /\ x.subs = d.s.subs /\ x.closed = d.s.closed /\ x.sent = n
      BY <2>5 DEF x, IsSection, IsSession
    <3>11. y = [closed |-> x.closed, tracks |-> x.tracks, subs |-> x.subs, sent |-> x.sent,
                recent |-> r, timer |-> x.timer]
      BY <3>10 DEF y, IsSession
    <3>12. IsSession(y) /\ y.subs = x.subs /\ y.closed = x.closed /\ y.sent = n
      BY <3>3, <3>10, <3>11 DEF IsSession
    <3>13. z = [closed |-> y.closed, tracks |-> y.tracks, subs |-> y.subs, sent |-> y.sent,
                recent |-> y.recent, timer |-> v]
      BY <3>12 DEF z, IsSession
    <3>14. IsSession(z) /\ z.subs = y.subs /\ z.closed = y.closed /\ z.sent = n /\ z.timer = v
      BY <3>3, <3>12, <3>13 DEF IsSession
    <3>15. e.s = z /\ e.queue = d.queue /\ e.open = d.open BY <3>9
    <3>16. IsSection(e) BY <3>9, <3>14, <3>15 DEF IsSection
    <3>17. QED BY <3>4, <3>10, <3>12, <3>14, <3>15, <3>16
  <2> HIDE DEF e
  <2>10. Drop(b, e) BY <2>2, <2>6 DEF Drop
  <2>11. Told(e.s)
    <3>1. CASE Resend(b) BY <2>6, <3>1 DEF Told
    <3>2. CASE ~Resend(b) BY <2>2, <2>3, <2>4, <2>6, <3>2 DEF Told
    <3>3. QED BY <3>1, <3>2
  <2>12. QED BY <2>1, <2>10, <2>11
<1>3. QED BY <1>1, <1>2

LEMMA ChangeTells ==
  ASSUME NEW b, IsSection(b), b.queue = [c \in Subscribers |-> b.queue[c]]
  PROVE  Drop(b, ViewersChanged(b)) /\ Told(ViewersChanged(b).s)
<1>1. CASE b.s.timer \/ b.s.closed
  <2>1. ViewersChanged(b) = b BY <1>1 DEF ViewersChanged
  <2>2. QED BY <1>1, <2>1, DropNone DEF Told
<1>2. CASE ~(b.s.timer \/ b.s.closed) /\ b.s.recent
  <2> DEFINE e == [b EXCEPT !.s.timer = TRUE]
  <2>1. ViewersChanged(b) = e BY <1>2 DEF ViewersChanged
  <2>2. e = [s |-> [b.s EXCEPT !.timer = TRUE], queue |-> b.queue, open |-> b.open]
    BY SectionTimer DEF IsSection
  <2>3. /\ IsSession(e.s) /\ e.s.subs = b.s.subs /\ e.s.closed = b.s.closed /\ e.s.timer
    BY <2>2 DEF IsSection, IsSession
  <2>4. e.queue = b.queue /\ e.open = b.open BY <2>2
  <2>5. IsSection(e) BY <2>2, <2>3 DEF IsSection
  <2> HIDE DEF e
  <2>6. {} \in SUBSET b.s.subs /\ e.s.subs = b.s.subs \ {} /\ e.open = b.open \ {}
    BY <2>3, <2>4
  <2>7. QED BY <2>1, <2>3, <2>4, <2>5, <2>6 DEF Drop, Told
<1>3. CASE ~(b.s.timer \/ b.s.closed) /\ ~b.s.recent
  <2>1. ViewersChanged(b) = SendViewers(b) BY <1>3 DEF ViewersChanged
  <2>2. QED BY <2>1, SendTells
<1>4. QED BY <1>1, <1>2, <1>3

\* A message to every subscriber keeps the count told.
LEMMA BroadcastTells ==
  ASSUME NEW b, IsSection(b), b.queue = [c \in Subscribers |-> b.queue[c]], Told(b.s), NEW msg
  PROVE  Drop(b, Broadcast(b, msg, b.s.subs)) /\ Told(Broadcast(b, msg, b.s.subs).s)
<1> DEFINE d == Deliver(b, msg, b.s.subs)
<1>1. /\ Drop(b, d) /\ d.s.timer = b.s.timer /\ d.s.sent = b.s.sent
      /\ ~Drops(b, b.s.subs) => d.s.subs = b.s.subs
  BY DeliverDrops
<1>2. IsSection(d) /\ d.queue = [c \in Subscribers |-> d.queue[c]] /\ d.s.closed = b.s.closed
  BY <1>1 DEF Drop
<1>3. Broadcast(b, msg, b.s.subs) = IF Drops(b, b.s.subs) THEN ViewersChanged(d) ELSE d
  BY DEF Broadcast
<1> HIDE DEF d
<1>4. CASE Drops(b, b.s.subs)
  <2>1. Drop(d, ViewersChanged(d)) /\ Told(ViewersChanged(d).s) BY <1>2, ChangeTells
  <2>2. Drop(b, ViewersChanged(d)) BY <1>1, <2>1, DropTwice
  <2>3. QED BY <1>3, <1>4, <2>1, <2>2
<1>5. CASE ~Drops(b, b.s.subs)
  <2>1. Told(d.s) BY <1>1, <1>2, <1>5 DEF Told
  <2>2. QED BY <1>1, <1>3, <1>5, <2>1
<1>6. QED BY <1>4, <1>5

-----------------------------------------------------------------------------
(* The inductive invariant. *)

\* A critical section of an object that told its count and dropped some
\* subscribers, after it added one or took one away.
LEMMA SectionKeeps ==
  ASSUME BusInv, NEW o \in 1 .. made, NEW b, NEW d, Drop(b, d), Told(d.s), Unlock(o, d),
         b.s.closed = bus[o].closed, b.s.subs # {} => ~bus[o].closed,
         b.open = (open \ bus[o].subs) \cup b.s.subs,
         b.s.subs \cap (open \ bus[o].subs) = {},
         \A c \in b.s.subs : home'[c] = o,
         \A p \in 1 .. Objects : \A c \in bus[p].subs : p # o => home'[c] = home[c],
         home' \in [Subscribers -> 0 .. made], found' \in [Procs -> 0 .. made],
         \A c \in Subscribers : found'[c] # None => home'[c] = None,
         UNCHANGED <<made, current, closing>>
  PROVE  BusInv'
<1> USE BusAssumption
<1>1. o \in 1 .. Objects BY DEF BusInv, BusTypes
<1>2. DOMAIN bus = 1 .. Objects BY DEF BusInv, BusTypes
<1>3. bus' = [bus EXCEPT ![o] = d.s] /\ queue' = d.queue /\ open' = d.open BY DEF Unlock
<1>4. bus'[o] = d.s /\ \A p \in 1 .. Objects : p # o => bus'[p] = bus[p]
  BY <1>1, <1>2, <1>3
<1>5. bus' = [p \in 1 .. Objects |-> bus'[p]] BY <1>2, <1>3
<1>6. IsSession(d.s) /\ d.s.closed = bus[o].closed /\ d.queue = [c \in Subscribers |-> d.queue[c]]
  BY DEF Drop, IsSection
<1>7. PICK full \in SUBSET b.s.subs : d.s.subs = b.s.subs \ full /\ d.open = b.open \ full
  BY DEF Drop
<1>8. d.s.subs \subseteq b.s.subs BY <1>7
<1>9. BusTypes'
  <2>1. \A p \in 1 .. Objects : IsSession(bus'[p])
    BY <1>4, <1>6 DEF BusInv, BusTypes
  <2>2. DOMAIN bus' = 1 .. Objects BY <1>5
  <2>3. DOMAIN queue' = Subscribers /\ queue' = [c \in Subscribers |-> queue'[c]] BY <1>3, <1>6
  <2>4. QED BY <1>5, <2>1, <2>2, <2>3 DEF BusInv, BusTypes, IsSession
<1>10. AtHome'
  <2>1. \A p \in 1 .. Objects : \A c \in bus'[p].subs : home'[c] = p
    BY <1>4, <1>8 DEF BusInv, AtHome
  <2>2. QED BY <2>1 DEF AtHome
<1>11. InUse'
  <2>1. \A p \in 1 .. Objects : bus'[p].closed = bus[p].closed BY <1>4, <1>6
  <2>2. \A p \in 1 .. made : p \in 1 .. Objects BY DEF BusInv, BusTypes
  <2>3. QED BY <2>1, <2>2 DEF BusInv, InUse
<1>12. Reachable'
  <2>1. open' = (open \ bus[o].subs) \cup d.s.subs BY <1>3, <1>7
  <2>2. open = UNION {bus[p].subs : p \in 1 .. Objects}
    BY DEF BusInv, Reachable, OpenIsRegistered
  <2>3. \A c : c \in open \ bus[o].subs <=> \E p \in 1 .. Objects : p # o /\ c \in bus[p].subs
    BY <1>1, <2>2 DEF BusInv, AtHome
  <2>4. open' = UNION {bus'[p].subs : p \in 1 .. Objects}
    BY <1>1, <1>4, <2>1, <2>3
  <2>5. \A p \in 1 .. Objects : bus'[p].subs # {} => ~bus'[p].closed /\ p \in {current', closing'}
    <3>1. d.s.subs # {} => ~d.s.closed /\ o \in {current, closing}
      BY <1>6, <1>8 DEF BusInv, InUse
    <3>2. QED BY <1>4, <3>1 DEF BusInv, Reachable
  <2>6. QED BY <2>4, <2>5 DEF Reachable, OpenIsRegistered
<1>13. ViewersTold'
  BY <1>4 DEF BusInv, ViewersTold, Told
<1>14. QED BY <1>9, <1>10, <1>11, <1>12, <1>13 DEF BusInv

LEMMA BusInitInv == Init => BusInv
<1> SUFFICES ASSUME Init PROVE BusInv OBVIOUS
<1> USE BusAssumption DEF Init
<1>1. \A o \in 1 .. Objects : bus[o] = NewSession OBVIOUS
<1>2. IsSession(NewSession) /\ NewSession.subs = {} /\ NewSession.sent = 0 BY DEF IsSession, NewSession
<1>3. BusTypes BY <1>1, <1>2 DEF BusTypes, None
<1>4. AtHome BY <1>1, <1>2 DEF AtHome, None, Procs
<1>5. InUse BY DEF InUse
<1>6. Reachable BY <1>1, <1>2 DEF Reachable, OpenIsRegistered
<1>7. ViewersTold BY <1>1, <1>2, FS_EmptySet DEF ViewersTold
<1>8. QED BY <1>3, <1>4, <1>5, <1>6, <1>7 DEF BusInv

\* Finding an object leaves the objects as they are, but for a new one.
LEMMA FindKeeps ==
  ASSUME BusInv, NEW p \in Procs, Find(p) PROVE BusInv'
<1> USE BusAssumption DEF Find
<1>1. BusTypes' BY DEF BusInv, BusTypes
<1>2. AtHome'
  <2>1. found \in [Procs -> 0 .. made] /\ bus' = bus /\ home' = home BY DEF BusInv, BusTypes
  <2>2. \A c \in Subscribers : c # p => found'[c] = found[c] BY <2>1 DEF Procs
  <2>3. QED BY <2>1, <2>2 DEF BusInv, AtHome
<1>3. InUse'
  <2>1. CASE current # None
    <3>1. UNCHANGED <<made, current, closing, bus>> BY <2>1
    <3>2. QED BY <3>1 DEF BusInv, InUse
  <2>2. CASE current = None
    <3>1. made' = made + 1 /\ current' = made + 1 /\ UNCHANGED <<closing, bus>> BY <2>2
    <3>2. made \in Nat BY DEF BusInv, BusTypes
    <3>3. \A o \in 1 .. made : ~bus[o].closed => o = closing
      BY <2>2 DEF BusInv, InUse, None
    <3>4. QED BY <3>1, <3>2, <3>3 DEF InUse
  <2>3. QED BY <2>1, <2>2
<1>4. Reachable'
  <2>1. \A o \in 1 .. Objects : bus[o].subs # {} => o # None BY DEF None
  <2>2. QED BY <2>1 DEF BusInv, Reachable, OpenIsRegistered
<1>5. ViewersTold' BY DEF BusInv, ViewersTold
<1>6. QED BY <1>1, <1>2, <1>3, <1>4, <1>5 DEF BusInv

\* The state of the bus but for who is where.
LEMMA SameObjects ==
  ASSUME BusInv, UNCHANGED <<current, made, closing, bus, open, home>>,
         found' \in [Procs -> 0 .. made],
         \A c \in Subscribers : found'[c] # None => found[c] # None,
         queue' = [c \in Subscribers |-> queue'[c]], DOMAIN queue' = Subscribers
  PROVE  BusInv'
<1>1. BusTypes' BY DEF BusInv, BusTypes
<1>2. AtHome' BY DEF BusInv, AtHome
<1>3. InUse' BY DEF BusInv, InUse
<1>4. Reachable' BY DEF BusInv, Reachable, OpenIsRegistered
<1>5. ViewersTold' BY DEF BusInv, ViewersTold
<1>6. QED BY <1>1, <1>2, <1>3, <1>4, <1>5 DEF BusInv

LEMMA RetryKeeps ==
  ASSUME BusInv, NEW p \in Procs, Retry(p) PROVE BusInv'
<1>1. found' \in [Procs -> 0 .. made] /\ \A c \in Subscribers : found'[c] # None => found[c] # None
  BY BusAssumption DEF Retry, BusInv, BusTypes, Procs, None
<1>2. QED BY <1>1, SameObjects DEF Retry, BusInv, BusTypes

\* What a critical section starts from.
LEMMA HoldingIsSection ==
  ASSUME BusInv, NEW o \in 1 .. made
  PROVE  /\ IsSection(Holding(o)) /\ Holding(o).queue = [c \in Subscribers |-> Holding(o).queue[c]]
         /\ Holding(o).s = bus[o] /\ Holding(o).open = open /\ Holding(o).queue = queue
         /\ bus[o].subs \subseteq open /\ bus[o].subs \subseteq Subscribers
         /\ o \in 1 .. Objects
<1>1. o \in 1 .. Objects BY BusAssumption DEF BusInv, BusTypes
<1>2. IsSession(bus[o]) BY <1>1 DEF BusInv, BusTypes
<1>3. bus[o].subs \subseteq open BY <1>1 DEF BusInv, Reachable, OpenIsRegistered
<1>4. Holding(o) = [s |-> bus[o], queue |-> queue, open |-> open] BY DEF Holding
<1>5. QED BY <1>1, <1>2, <1>3, <1>4 DEF IsSection, IsSession, BusInv, BusTypes

\* A critical section that ends where the subscribers stay who they were.
LEMMA SameSubscribers ==
  ASSUME BusInv, NEW o \in 1 .. made, NEW b, NEW d, Drop(b, d), Told(d.s), Unlock(o, d),
         b.s.closed = bus[o].closed, b.s.subs = bus[o].subs, b.open = open,
         \A p \in 1 .. Objects : \A c \in bus[p].subs : home'[c] = home[c],
         home' \in [Subscribers -> 0 .. made], found' \in [Procs -> 0 .. made],
         \A c \in Subscribers : found'[c] # None => home'[c] = None,
         UNCHANGED <<made, current, closing>>
  PROVE  BusInv'
<1>1. bus[o].subs \subseteq open /\ o \in 1 .. Objects BY HoldingIsSection
<1>2. b.open = (open \ bus[o].subs) \cup b.s.subs /\ b.s.subs \cap (open \ bus[o].subs) = {}
  BY <1>1
<1>3. b.s.subs # {} => ~bus[o].closed BY <1>1 DEF BusInv, Reachable
<1>4. \A c \in b.s.subs : home'[c] = o BY <1>1 DEF BusInv, AtHome
<1>5. QED BY <1>2, <1>3, <1>4, SectionKeeps

LEMMA PublishStateKeeps ==
  ASSUME BusInv, NEW p \in Publishers, PublishState(p) PROVE BusInv'
<1> DEFINE o == found[p]
           b == Holding(o)
           d == Broadcast(b, State, b.s.subs)
<1>1. o \in 1 .. made BY BusAssumption DEF PublishState, BusInv, BusTypes, Procs, None
<1>2. /\ IsSection(b) /\ b.queue = [c \in Subscribers |-> b.queue[c]]
      /\ b.s = bus[o] /\ b.open = open /\ b.queue = queue /\ o \in 1 .. Objects
  BY <1>1, HoldingIsSection
<1>3. Told(b.s) BY <1>2 DEF BusInv, ViewersTold, Told
<1>4. Unlock(o, d) BY <1>2 DEF PublishState
<1>5. found' \in [Procs -> 0 .. made] /\ \A c \in Subscribers : found'[c] # None => home'[c] = None
  BY BusAssumption DEF PublishState, BusInv, BusTypes, AtHome, Procs, None
<1>6. home' = home /\ UNCHANGED <<made, current, closing>> BY DEF PublishState
<1> HIDE DEF o, b
<1>7. Drop(b, d) /\ Told(d.s) BY <1>2, <1>3, BroadcastTells
<1> HIDE DEF d
<1>8. home' \in [Subscribers -> 0 .. made] BY <1>6 DEF BusInv, BusTypes
<1>9. QED BY <1>1, <1>2, <1>4, <1>5, <1>6, <1>7, <1>8, SameSubscribers

\* A caption goes into its track; the subscribers are told of it unless it is
\* late, or an edited line's unedited text.
LEMMA PublishCaptionKeeps ==
  ASSUME BusInv, NEW p \in Publishers, NEW l, NEW c, PublishCaption(p, l, c) PROVE BusInv'
<1> DEFINE o == found[p]
           h == Holding(o)
           x == [h.s EXCEPT !.tracks[l] = Add(bus[o].tracks[l], c)]
           b == [h EXCEPT !.s.tracks[l] = Add(bus[o].tracks[l], c)]
           d == IF Dropped(bus[o].tracks[l], c) THEN b ELSE Broadcast(b, Caption(l, c), b.s.subs)
<1>1. o \in 1 .. made BY BusAssumption DEF PublishCaption, BusInv, BusTypes, Procs, None
<1>2. /\ IsSection(h) /\ h.queue = [e \in Subscribers |-> h.queue[e]]
      /\ h.s = bus[o] /\ h.open = open /\ h.queue = queue /\ o \in 1 .. Objects
  BY <1>1, HoldingIsSection
<1>3. Told(h.s) BY <1>2 DEF BusInv, ViewersTold, Told
<1>4. found' \in [Procs -> 0 .. made] /\ \A e \in Subscribers : found'[e] # None => home'[e] = None
  BY BusAssumption DEF PublishCaption, BusInv, BusTypes, AtHome, Procs, None
<1>5. home' = home /\ UNCHANGED <<made, current, closing>> BY DEF PublishCaption
<1>6. b = [h EXCEPT !.s = x] OBVIOUS
<1>7. x.subs = h.s.subs /\ IsSession(x) /\ x.closed = h.s.closed /\ Told(x)
  <2> DEFINE y == [h.s.tracks EXCEPT ![l] = Add(bus[o].tracks[l], c)]
  <2>1. x = [h.s EXCEPT !.tracks = y] OBVIOUS
  <2> HIDE DEF h, y, x
  <2>2. x = [closed |-> h.s.closed, tracks |-> y, subs |-> h.s.subs, sent |-> h.s.sent,
             recent |-> h.s.recent, timer |-> h.s.timer]
    BY <1>2, <2>1 DEF IsSection, IsSession
  <2>3. x.subs = h.s.subs /\ x.closed = h.s.closed /\ x.sent = h.s.sent /\ x.timer = h.s.timer
    BY <2>2
  <2>4. IsSession(x) BY <1>2, <2>2 DEF IsSection, IsSession
  <2>5. QED BY <1>3, <2>3, <2>4 DEF Told
<1>8. Unlock(o, IF Dropped(bus[o].tracks[l], c) THEN b ELSE Broadcast(b, Caption(l, c), bus[o].subs))
  BY DEF PublishCaption
<1> HIDE DEF o, h, x, b
<1>9. b = [s |-> x, queue |-> h.queue, open |-> h.open] BY <1>2, <1>6 DEF IsSection
<1>10. b.s = x /\ b.queue = h.queue /\ b.open = h.open BY <1>9
<1>11. IsSection(b) /\ b.queue = [e \in Subscribers |-> b.queue[e]] /\ Told(b.s)
  BY <1>2, <1>7, <1>9, <1>10 DEF IsSection
<1>12. Drop(b, b) BY <1>11, DropNone
<1>13. Drop(b, Broadcast(b, Caption(l, c), b.s.subs)) /\ Told(Broadcast(b, Caption(l, c), b.s.subs).s)
  BY <1>11, BroadcastTells
<1>14. Unlock(o, d) BY <1>2, <1>7, <1>8, <1>10
<1>15. Drop(b, d) /\ Told(d.s) BY <1>11, <1>12, <1>13
<1> HIDE DEF d
<1>16. home' \in [Subscribers -> 0 .. made] BY <1>5 DEF BusInv, BusTypes
<1>17. QED BY <1>1, <1>2, <1>4, <1>5, <1>7, <1>10, <1>14, <1>15, <1>16, SameSubscribers

\* A new subscriber is registered nowhere yet.
LEMMA SubscribeKeeps ==
  ASSUME BusInv, NEW c \in Subscribers, Subscribe(c) PROVE BusInv'
<1> DEFINE o == found[c]
           h == Holding(o)
           b == [h EXCEPT !.queue[c] = <<HistoryOf(o)>>]
           x == [h.s EXCEPT !.subs = h.s.subs \cup {c}]
           e == [b EXCEPT !.s.subs = @ \cup {c}, !.open = @ \cup {c}]
<1>1. o \in 1 .. made /\ home[c] = None /\ ~bus[o].closed
  BY BusAssumption DEF Subscribe, Usable, BusInv, BusTypes, AtHome, Procs, None
<1>2. /\ IsSection(h) /\ h.queue = [a \in Subscribers |-> h.queue[a]]
      /\ h.s = bus[o] /\ h.open = open /\ h.queue = queue /\ o \in 1 .. Objects
      /\ bus[o].subs \subseteq open
  BY <1>1, HoldingIsSection
<1>3. Told(h.s) BY <1>2 DEF BusInv, ViewersTold, Told
<1>4. /\ found' \in [Procs -> 0 .. made] /\ home' \in [Subscribers -> 0 .. made]
      /\ home'[c] = o /\ \A a \in Subscribers : a # c => home'[a] = home[a]
  BY <1>1 DEF Subscribe, BusInv, BusTypes, Procs, None
<1>5. \A a \in Subscribers : found'[a] # None => home'[a] = None
  BY <1>1, <1>4 DEF Subscribe, BusInv, BusTypes, AtHome, Procs, None
<1>6. UNCHANGED <<made, current, closing>> BY DEF Subscribe
<1>7. \A q \in 1 .. Objects : c \notin bus[q].subs BY <1>1 DEF BusInv, AtHome, None
<1>8. c \notin open BY <1>7 DEF BusInv, Reachable, OpenIsRegistered
<1>9. \A q \in 1 .. Objects : bus[q].subs \subseteq Subscribers BY DEF BusInv, BusTypes, IsSession
<1>10. \A q \in 1 .. Objects : \A a \in bus[q].subs : home'[a] = home[a] BY <1>4, <1>7, <1>9
<1>11. Unlock(o, IF c \in gone THEN b ELSE ViewersChanged(e)) BY DEF Subscribe
<1>12. e = [[b EXCEPT !.s = x] EXCEPT !.open = open \cup {c}]
  BY <1>2
<1>13. IsSession(x) /\ x.subs = h.s.subs \cup {c} /\ x.closed = h.s.closed
  BY SMTT(30), <1>2 DEF IsSection, IsSession
<1> DEFINE q == [h.queue EXCEPT ![c] = <<HistoryOf(o)>>]
<1>14. q = [a \in Subscribers |-> q[a]] BY <1>2
<1>15. b = [h EXCEPT !.queue = q] OBVIOUS
<1> HIDE DEF o, h, x, b, e, q
<1>16. b = [s |-> h.s, queue |-> q, open |-> open] BY <1>2, <1>15 DEF IsSection
<1>17. e = [s |-> x, queue |-> q, open |-> open \cup {c}] BY <1>12, <1>16
<1>18. b.s = h.s /\ b.queue = q /\ b.open = open BY <1>16
<1>19. e.s = x /\ e.queue = q /\ e.open = open \cup {c} BY <1>17
<1>20. IsSection(b) /\ b.queue = [a \in Subscribers |-> b.queue[a]]
  BY <1>2, <1>14, <1>16, <1>18 DEF IsSection
<1>21. IsSection(e) /\ e.queue = [a \in Subscribers |-> e.queue[a]]
  BY <1>13, <1>14, <1>17, <1>19 DEF IsSection
<1>22. CASE c \in gone
  <2>1. Drop(b, b) /\ Told(b.s) BY <1>3, <1>18, <1>20, DropNone
  <2>2. Unlock(o, b) BY <1>11, <1>22
  <2>3. b.s.subs = bus[o].subs /\ b.s.closed = bus[o].closed /\ b.open = open BY <1>2, <1>18
  <2>4. QED BY <1>1, <1>4, <1>5, <1>6, <1>10, <2>1, <2>2, <2>3, SameSubscribers
<1>23. CASE c \notin gone
  <2> DEFINE d == ViewersChanged(e)
  <2>1. Drop(e, d) /\ Told(d.s) BY <1>21, ChangeTells
  <2>2. Unlock(o, d) BY <1>11, <1>23
  <2> HIDE DEF d
  <2>3. e.s.closed = bus[o].closed /\ e.s.subs = bus[o].subs \cup {c} /\ e.open = open \cup {c}
    BY <1>2, <1>13, <1>19
  <2>4. e.open = (open \ bus[o].subs) \cup e.s.subs /\ e.s.subs \cap (open \ bus[o].subs) = {}
    BY <1>2, <1>8, <2>3
  <2>5. \A a \in e.s.subs : home'[a] = o BY <1>2, <1>4, <1>10, <2>3 DEF BusInv, AtHome
  <2>6. QED BY <1>1, <1>4, <1>5, <1>6, <1>10, <2>1, <2>2, <2>3, <2>4, <2>5, SectionKeeps
<1>24. QED BY <1>22, <1>23

LEMMA UnregisterKeeps ==
  ASSUME BusInv, NEW c \in Subscribers, Unregister(c) PROVE BusInv'
<1> DEFINE o == home[c]
           h == Holding(o)
           x == [h.s EXCEPT !.subs = h.s.subs \ {c}]
           b == [h EXCEPT !.s.subs = @ \ {c}, !.open = @ \ {c}]
           d == ViewersChanged(b)
<1>1. o \in 1 .. made /\ c \in bus[o].subs
  BY BusAssumption DEF Unregister, BusInv, BusTypes, None
<1>2. /\ IsSection(h) /\ h.queue = [a \in Subscribers |-> h.queue[a]]
      /\ h.s = bus[o] /\ h.open = open /\ h.queue = queue /\ o \in 1 .. Objects
      /\ bus[o].subs \subseteq open
  BY <1>1, HoldingIsSection
<1>3. UNCHANGED <<made, current, closing, found, home>> /\ Unlock(o, d) BY DEF Unregister
<1>4. \A a \in bus[o].subs : home[a] = o BY <1>2 DEF BusInv, AtHome
<1>5. b = [[h EXCEPT !.s = x] EXCEPT !.open = open \ {c}] BY <1>2
<1>6. IsSession(x) /\ x.subs = h.s.subs \ {c} /\ x.closed = h.s.closed
  BY SMTT(30), <1>2 DEF IsSection, IsSession
<1> HIDE DEF o, h, x, b
<1>7. b = [s |-> x, queue |-> queue, open |-> open \ {c}] BY <1>2, <1>5 DEF IsSection
<1>8. b.s = x /\ b.queue = queue /\ b.open = open \ {c} BY <1>7
<1>9. IsSection(b) /\ b.queue = [a \in Subscribers |-> b.queue[a]]
  BY <1>2, <1>6, <1>7, <1>8 DEF IsSection
<1>10. Drop(b, d) /\ Told(d.s) BY <1>9, ChangeTells
<1> HIDE DEF d
<1>11. b.s.closed = bus[o].closed /\ b.s.subs = bus[o].subs \ {c} BY <1>2, <1>6, <1>8
<1>12. b.open = (open \ bus[o].subs) \cup b.s.subs /\ b.s.subs \cap (open \ bus[o].subs) = {}
  BY <1>1, <1>2, <1>8, <1>11
<1>13. b.s.subs # {} => ~bus[o].closed BY <1>2, <1>11 DEF BusInv, Reachable
<1>14. /\ home' \in [Subscribers -> 0 .. made] /\ found' \in [Procs -> 0 .. made]
       /\ \A a \in Subscribers : found'[a] # None => home'[a] = None
  BY <1>3 DEF BusInv, BusTypes, AtHome
<1>15. \A a \in b.s.subs : home'[a] = o BY <1>3, <1>4, <1>11
<1>16. \A p \in 1 .. Objects : \A a \in bus[p].subs : p # o => home'[a] = home[a] BY <1>3
<1>17. QED BY <1>1, <1>3, <1>10, <1>11, <1>12, <1>13, <1>14, <1>15, <1>16, SectionKeeps

LEMMA TimerFiresKeeps ==
  ASSUME BusInv, NEW o \in 1 .. made, TimerFires(o) PROVE BusInv'
<1> DEFINE h == Holding(o)
           r == FALSE
           x == [h.s EXCEPT !.timer = r]
           b == [h EXCEPT !.s.timer = r]
           d == SendViewers(b)
<1>1. /\ IsSection(h) /\ h.queue = [a \in Subscribers |-> h.queue[a]]
      /\ h.s = bus[o] /\ h.open = open /\ h.queue = queue /\ o \in 1 .. Objects
  BY HoldingIsSection
<1>2. UNCHANGED <<made, current, closing, found, home>> /\ Unlock(o, d) BY DEF TimerFires
<1>3. b = [h EXCEPT !.s = x] OBVIOUS
<1>4. r \in BOOLEAN OBVIOUS
<1> HIDE DEF h, r, b
<1>5. x = [closed |-> h.s.closed, tracks |-> h.s.tracks, subs |-> h.s.subs, sent |-> h.s.sent,
           recent |-> h.s.recent, timer |-> r]
  BY <1>1 DEF IsSection, IsSession
<1> HIDE DEF x
<1>6. x.subs = h.s.subs /\ x.closed = h.s.closed BY <1>5
<1>7. IsSession(x) BY <1>1, <1>4, <1>5 DEF IsSection, IsSession
<1>8. b = [s |-> x, queue |-> queue, open |-> open] BY <1>1, <1>3 DEF IsSection
<1>9. b.s = x /\ b.queue = queue /\ b.open = open BY <1>8
<1>10. IsSection(b) /\ b.queue = [a \in Subscribers |-> b.queue[a]]
  BY <1>1, <1>7, <1>8, <1>9 DEF IsSection
<1>11. Drop(b, d) /\ Told(d.s) BY <1>10, SendTells
<1> HIDE DEF d
<1>12. b.s.closed = bus[o].closed /\ b.s.subs = bus[o].subs BY <1>1, <1>6, <1>9
<1>13. /\ home' \in [Subscribers -> 0 .. made] /\ found' \in [Procs -> 0 .. made]
       /\ \A a \in Subscribers : found'[a] # None => home'[a] = None
  BY <1>2 DEF BusInv, BusTypes, AtHome
<1>14. \A p \in 1 .. Objects : \A a \in bus[p].subs : home'[a] = home[a] BY <1>2
<1>15. QED BY <1>2, <1>9, <1>11, <1>12, <1>13, <1>14, SameSubscribers

\* The interval passes; nothing but the flag changes.
LEMMA ElapseKeeps ==
  ASSUME BusInv, NEW o \in 1 .. made, Elapse(o) PROVE BusInv'
<1> DEFINE r == FALSE
           x == [bus[o] EXCEPT !.recent = r]
<1>1. o \in 1 .. Objects /\ IsSession(bus[o]) BY BusAssumption DEF BusInv, BusTypes
<1>2. bus' = [bus EXCEPT ![o] = x] BY DEF Elapse
<1>3. r \in BOOLEAN OBVIOUS
<1> HIDE DEF r
<1>4. x = [closed |-> bus[o].closed, tracks |-> bus[o].tracks, subs |-> bus[o].subs,
           sent |-> bus[o].sent, recent |-> r, timer |-> bus[o].timer]
  BY <1>1 DEF IsSession
<1> HIDE DEF x
<1>5. x.subs = bus[o].subs /\ x.closed = bus[o].closed /\ x.sent = bus[o].sent
      /\ x.timer = bus[o].timer
  BY <1>4
<1>6. IsSession(x) BY <1>1, <1>3, <1>4 DEF IsSession
<1>7. UNCHANGED <<current, made, closing, found, queue, open, home>> BY DEF Elapse
<1>8. DOMAIN bus = 1 .. Objects BY DEF BusInv, BusTypes
<1>9. bus' = [p \in 1 .. Objects |-> bus'[p]] /\ DOMAIN bus' = 1 .. Objects BY <1>2, <1>8
<1>10. bus'[o] = x /\ \A p \in 1 .. Objects : p # o => bus'[p] = bus[p] BY <1>1, <1>2, <1>8
<1>11. \A p \in 1 .. Objects :
         /\ IsSession(bus'[p]) /\ bus'[p].subs = bus[p].subs /\ bus'[p].closed = bus[p].closed
         /\ bus'[p].sent = bus[p].sent /\ bus'[p].timer = bus[p].timer
  BY <1>5, <1>6, <1>10 DEF BusInv, BusTypes
<1>12. BusTypes' BY <1>7, <1>9, <1>11 DEF BusInv, BusTypes
<1>13. AtHome' BY <1>7, <1>11 DEF BusInv, AtHome
<1>14. InUse'
  <2>1. \A p \in 1 .. made : p \in 1 .. Objects BY BusAssumption DEF BusInv, BusTypes
  <2>2. QED BY <1>7, <1>11, <2>1 DEF BusInv, InUse
<1>15. Reachable'
  <2>1. UNION {bus'[p].subs : p \in 1 .. Objects} = UNION {bus[p].subs : p \in 1 .. Objects}
    BY <1>11
  <2>2. QED BY <1>7, <1>11, <2>1 DEF BusInv, Reachable, OpenIsRegistered
<1>16. ViewersTold' BY <1>11 DEF BusInv, ViewersTold
<1>17. QED BY <1>12, <1>13, <1>14, <1>15, <1>16 DEF BusInv

LEMMA CloseTakeKeeps == ASSUME BusInv, CloseTake PROVE BusInv'
<1> USE DEF CloseTake
<1>1. BusTypes' BY DEF BusInv, BusTypes, None
<1>2. AtHome' BY DEF BusInv, AtHome
<1>3. InUse'
  <2>1. \A o \in 1 .. made : o # None BY DEF None
  <2>2. QED BY <2>1 DEF BusInv, InUse
<1>4. Reachable'
  <2>1. \A o \in 1 .. Objects : o # None BY DEF None
  <2>2. QED BY <2>1 DEF BusInv, Reachable, OpenIsRegistered
<1>5. ViewersTold' BY DEF BusInv, ViewersTold
<1>6. QED BY <1>1, <1>2, <1>3, <1>4, <1>5 DEF BusInv

\* The channels of a closed object are closed, and no others: who is in another
\* object is not in this one.
LEMMA CloseObjectKeeps == ASSUME BusInv, CloseObject PROVE BusInv'
<1> DEFINE o == closing
           f == FALSE
           t == TRUE
           w == [bus[o] EXCEPT !.closed = t]
           x == [w EXCEPT !.subs = {}]
           y == [x EXCEPT !.timer = f]
<1>1. o \in 1 .. made /\ o \in 1 .. Objects /\ IsSession(bus[o])
  BY BusAssumption DEF CloseObject, BusInv, BusTypes, None
<1>2. bus' = [bus EXCEPT ![o].closed = t, ![o].subs = {}, ![o].timer = f] BY DEF CloseObject
<1>3. DOMAIN bus = 1 .. Objects BY DEF BusInv, BusTypes
<1>4. /\ open' = open \ bus[o].subs /\ closing' = None
      /\ UNCHANGED <<current, made, found, queue, home>>
  BY DEF CloseObject
<1>5. f \in BOOLEAN /\ t \in BOOLEAN /\ (t <=> TRUE) OBVIOUS
<1> DEFINE b1 == [bus EXCEPT ![o].closed = t]
           b2 == [b1 EXCEPT ![o].subs = {}]
<1>6. bus' = [b2 EXCEPT ![o].timer = f] BY <1>2
<1>7. b1 = [bus EXCEPT ![o] = w] OBVIOUS
<1> HIDE DEF o, f, t, w, b1
<1>8. b1[o] = w /\ DOMAIN b1 = 1 .. Objects /\ \A p \in 1 .. Objects : p # o => b1[p] = bus[p]
  BY <1>1, <1>3, <1>7
<1>9. b2 = [b1 EXCEPT ![o] = x] BY <1>8
<1> HIDE DEF x, b2
<1>10. b2[o] = x /\ DOMAIN b2 = 1 .. Objects /\ \A p \in 1 .. Objects : p # o => b2[p] = bus[p]
  BY <1>1, <1>8, <1>9
<1>11. bus' = [b2 EXCEPT ![o] = y] BY <1>6, <1>10
<1> HIDE DEF y
<1>12. bus'[o] = y /\ DOMAIN bus' = 1 .. Objects /\ \A p \in 1 .. Objects : p # o => bus'[p] = bus[p]
  BY <1>1, <1>10, <1>11
<1>13. bus' = [p \in 1 .. Objects |-> bus'[p]] BY <1>10, <1>11
<1>14. y = [closed |-> t, tracks |-> bus[o].tracks, subs |-> {}, sent |-> bus[o].sent,
            recent |-> bus[o].recent, timer |-> f]
  <2>1. w = [closed |-> t, tracks |-> bus[o].tracks, subs |-> bus[o].subs, sent |-> bus[o].sent,
             recent |-> bus[o].recent, timer |-> bus[o].timer]
    BY <1>1 DEF w, IsSession
  <2>2. x = [closed |-> t, tracks |-> bus[o].tracks, subs |-> {}, sent |-> bus[o].sent,
             recent |-> bus[o].recent, timer |-> bus[o].timer]
    BY <2>1 DEF x
  <2>3. QED BY <2>2 DEF y
<1>15. y.closed /\ y.subs = {} BY <1>5, <1>14
<1>16. IsSession(y) BY <1>1, <1>5, <1>14 DEF IsSession
<1>17. BusTypes'
  <2>1. \A p \in 1 .. Objects : IsSession(bus'[p]) BY <1>12, <1>16 DEF BusInv, BusTypes
  <2>2. QED BY <1>4, <1>12, <1>13, <2>1 DEF BusInv, BusTypes, None
<1>18. AtHome' BY <1>4, <1>12, <1>15 DEF BusInv, AtHome
<1>19. InUse'
  <2>1. \A p \in 1 .. made : p \in 1 .. Objects BY BusAssumption DEF BusInv, BusTypes
  <2>2. \A p \in 1 .. made : ~bus'[p].closed => p # o /\ ~bus[p].closed BY <1>12, <1>15, <2>1
  <2>3. QED BY <1>4, <2>2 DEF BusInv, InUse, o
<1>20. Reachable'
  <2>1. open = UNION {bus[p].subs : p \in 1 .. Objects}
    BY DEF BusInv, Reachable, OpenIsRegistered
  <2>2. \A c : c \in open \ bus[o].subs <=> \E p \in 1 .. Objects : p # o /\ c \in bus[p].subs
    BY <1>1, <2>1 DEF BusInv, AtHome
  <2>3. open' = UNION {bus'[p].subs : p \in 1 .. Objects}
    BY <1>1, <1>4, <1>12, <1>15, <2>2
  <2>4. \A p \in 1 .. Objects : bus'[p].subs # {} => ~bus'[p].closed /\ p = current
    BY <1>12, <1>15 DEF BusInv, Reachable, o
  <2>5. QED BY <1>4, <2>3, <2>4 DEF Reachable, OpenIsRegistered
<1>21. ViewersTold' BY <1>12, <1>15 DEF BusInv, ViewersTold
<1>22. QED BY <1>17, <1>18, <1>19, <1>20, <1>21 DEF BusInv

LEMMA BusStepKeeps == BusInv /\ [Next]_busVars => BusInv'
<1> SUFFICES ASSUME BusInv, [Next]_busVars PROVE BusInv' OBVIOUS
<1>1. DOMAIN queue = Subscribers /\ queue = [c \in Subscribers |-> queue[c]]
      /\ found \in [Procs -> 0 .. made]
  BY DEF BusInv, BusTypes
<1>2. CASE UNCHANGED busVars
  <2>1. UNCHANGED <<current, made, closing, bus, found, queue, open, home>> BY <1>2 DEF busVars
  <2>2. QED BY <1>1, <2>1, SameObjects
<1>3. ASSUME NEW c \in Subscribers, GoAway(c) PROVE BusInv'
  <2>1. UNCHANGED <<current, made, closing, bus, found, queue, open, home>> BY <1>3 DEF GoAway
  <2>2. QED BY <1>1, <2>1, SameObjects
<1>4. ASSUME NEW c \in Subscribers, Receive(c) PROVE BusInv'
  <2>1. UNCHANGED <<current, made, closing, bus, found, open, home>> BY <1>4 DEF Receive
  <2>2. queue' = [queue EXCEPT ![c] = Tail(queue[c])] BY <1>4 DEF Receive
  <2>3. DOMAIN queue' = Subscribers /\ queue' = [a \in Subscribers |-> queue'[a]] BY <1>1, <2>2
  <2>4. QED BY <1>1, <2>1, <2>3, SameObjects
<1>5. CASE Next
  BY <1>3, <1>4, <1>5, FindKeeps, RetryKeeps, PublishStateKeeps, PublishCaptionKeeps,
     SubscribeKeeps, UnregisterKeeps, ElapseKeeps, TimerFiresKeeps, CloseTakeKeeps,
     CloseObjectKeeps
  DEF Next, Quiet
<1>6. QED BY <1>2, <1>5

LEMMA BusInvariant == Spec => []BusInv
<1>1. QED BY BusInitInv, BusStepKeeps, PTL DEF Spec

\* A channel is open exactly while its subscriber is registered, in an object
\* that is found or that CloseSession is about to close: it is closed once and
\* never sent to afterwards, and nobody waits on a forgotten object.
THEOREM AlwaysReachable == Spec => []Reachable
<1>1. BusInv => Reachable BY DEF BusInv
<1>2. QED BY <1>1, BusInvariant, PTL

\* The subscribers know how many they are, or the viewers timer is set, through
\* subscriptions, departures and the drops a viewers message itself causes.
THEOREM AlwaysViewersTold == Spec => []ViewersTold
<1>1. BusInv => ViewersTold BY DEF BusInv
<1>2. QED BY <1>1, BusInvariant, PTL

\* A page that reconnects is only a user of the bus: whatever it does, and
\* whatever else goes on behind it, is a step of the bus or none, so what the
\* bus promises holds with the page.
THEOREM ViewerUsesBus == ViewerSpec => Spec
<1>1. ViewerInit => Init BY DEF ViewerInit
<1>2. [ViewerNext]_viewerVars => [Next]_busVars
  <2> SUFFICES ASSUME [ViewerNext]_viewerVars PROVE [Next]_busVars OBVIOUS
  <2>1. CASE UNCHANGED viewerVars BY <2>1 DEF viewerVars
  <2>2. ASSUME NEW c \in Subscribers,
               Connect(c) \/ Subscribed(c) \/ FindAgain(c) \/ Show(c) \/ Lose(c)
        PROVE  Next
    BY <2>2 DEF Next, Quiet, Connect, Subscribed, FindAgain, Show, Lose, Procs
  <2>3. CASE Behind BY <2>3 DEF Behind, Next, Quiet, Procs
  <2>4. QED BY <2>1, <2>2, <2>3 DEF ViewerNext
<1>3. QED BY <1>1, <1>2, PTL DEF ViewerSpec, Spec
=============================================================================
