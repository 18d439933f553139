---------------------------- MODULE IngestSource ----------------------------
(***************************************************************************)
(* The audio source of one session (internal/audio/ingest): the client     *)
(* connections Hub.ServeIngest serves, which replace each other, the       *)
(* session clock, the jitter buffer, and the pump that hands its frames to *)
(* the consumer of Start.  Time is counted in parts of a frame; of the     *)
(* audio only its length and the connection it came from are kept.         *)
(***************************************************************************)
EXTENDS Integers, Sequences, FiniteSets

CONSTANTS
  Conns, NoConn,    \* ingest connections
  Sizes,            \* lengths of a binary message
  FrameDuration, BufferFrames, StallThreshold,
  MaxTime,          \* bound: the wall clock
  MaxAudio,         \* bound: audio received on a connection
  MaxStarts         \* bound: calls of Start

\* withDefaults replaces a buffer or a threshold that is not positive.
IngestOptions == {BufferFrames, StallThreshold} \subseteq Nat \ {0}

ASSUME IngestAssumption ==
  /\ NoConn \notin Conns /\ IsFiniteSet(Conns) /\ Sizes \subseteq Nat \ {0}
  /\ IngestOptions /\ FrameDuration \in Nat \ {0}
  /\ MaxTime \in Nat /\ MaxAudio \in Nat /\ MaxStarts \in Nat

VARIABLES
  now,        \* the wall clock
  conn,       \* each connection: its handler and its audio
  active,     \* Source.conn
  nextT, lastAudio, rem,
  buf, token, \* the jitter buffer and notify
  pump, hand, \* where the pump is, the frame it sends
  ctxDone,    \* the consumer's context is cancelled
  starts, last,   \* calls of Start, the end of the last frame consumed
  inMap, closed,  \* the hub has the source; Source.closed
  origin      \* when the first audio was captured

timeline == <<nextT, lastAudio, rem, origin>>
stream   == <<pump, hand, ctxDone, starts, last>>
vars     == <<now, conn, active, timeline, buf, token, stream, inMap, closed>>

None   == -1
NoRem  == [len |-> 0, from |-> {}]
NewConn == [at |-> "new", kicked |-> FALSE, replaces |-> NoConn, since |-> 0,
            started |-> FALSE, start |-> 0, received |-> 0, ahead |-> FALSE]
Handlers == {"new", "found", "kick", "open", "ending", "left", "gone"}
FrameEnd(f) == f.t + FrameDuration

\* The types of the state; the jitter buffer is bounded, less than a frame
\* remains, and a frame is in the pump's hand exactly while it sends it.
TypeOK ==
  /\ active \in Conns \cup {NoConn} /\ \A c \in Conns : conn[c].at \in Handlers
  /\ nextT \in Nat /\ rem.len \in 0 .. FrameDuration - 1
  /\ Len(buf) <= BufferFrames
  /\ pump \in {"off", "poll", "send", "idle", "wait"} /\ (pump = "send") = (hand # <<>>)
  /\ {token, ctxDone, inMap, closed} \subseteq BOOLEAN

Init ==
  /\ now = 0 /\ conn = [c \in Conns |-> NewConn] /\ active = NoConn
  /\ nextT = 0 /\ lastAudio = None /\ rem = NoRem /\ origin = None
  /\ buf = <<>> /\ token = FALSE
  /\ pump = "off" /\ hand = <<>> /\ ctxDone = FALSE /\ starts = 0 /\ last = None
  /\ inMap = TRUE /\ closed = FALSE

Tick ==
  /\ now < MaxTime /\ now' = now + 1
  /\ UNCHANGED <<conn, active, timeline, buf, token, stream, inMap, closed>>

-----------------------------------------------------------------------------
(* ServeIngest: one handler per connection *)

\* The hello was good; Hub.Source looks the source up.
Lookup(c) ==
  /\ conn[c].at = "new" /\ inMap
  /\ conn' = [conn EXCEPT ![c].at = "found"]
  /\ UNCHANGED <<now, active, timeline, buf, token, stream, inMap, closed>>

\* attach's "a partial frame from the old connection can't be completed".
\* Mutant: its bytes stay.
KeptPartial == rem
PartialAfterAttach == NoRem

\* attach, ErrClosed after Remove.
Attach(c) ==
  /\ conn[c].at = "found"
  /\ IF closed
     THEN /\ conn' = [conn EXCEPT ![c].at = "gone"]
          /\ UNCHANGED <<active, rem>>
     ELSE /\ conn' = [conn EXCEPT ![c].at = IF active = NoConn THEN "open" ELSE "kick",
                                  ![c].replaces = active, ![c].since = now]
          /\ active' = c /\ rem' = PartialAfterAttach
  /\ UNCHANGED <<now, nextT, lastAudio, origin, buf, token, stream, inMap, closed>>

\* close(old.kicked), after attach has released the lock.
Kick(c) ==
  /\ conn[c].at = "kick"
  /\ conn' = [conn EXCEPT ![c].at = "open", ![conn[c].replaces].kicked = TRUE]
  /\ UNCHANGED <<now, active, timeline, buf, token, stream, inMap, closed>>

\* The handler's select: it was replaced or the source is done.  readLoop
\* goes on until the socket is closed.  Mutant: it does not look at kicked.
ToldUnlessReplaced(c) == closed
Told(c) == conn[c].kicked \/ closed
Evict(c) ==
  /\ conn[c].at = "open" /\ Told(c)
  /\ conn' = [conn EXCEPT ![c].at = "ending"]
  /\ UNCHANGED <<now, active, timeline, buf, token, stream, inMap, closed>>

\* The client is gone: readLoop ends, or a level message can't be sent.
Disconnect(c) ==
  /\ conn[c].at = "open"
  /\ \E at \in {"left", "ending"} : conn' = [conn EXCEPT ![c].at = at]
  /\ UNCHANGED <<now, active, timeline, buf, token, stream, inMap, closed>>

\* detach clears the connection if it is still the active one.
Detaches(c) == active = c
Detach(c) ==
  /\ conn[c].at \in {"ending", "left"}
  /\ conn' = [conn EXCEPT ![c].at = "gone"]
  /\ IF Detaches(c) THEN active' = NoConn /\ rem' = NoRem ELSE UNCHANGED <<active, rem>>
  /\ UNCHANGED <<now, nextT, lastAudio, origin, buf, token, stream, inMap, closed>>

-----------------------------------------------------------------------------
(* write *)

Larger(a, b) == IF a > b THEN a ELSE b
Least(a, b)  == IF a < b THEN a ELSE b

\* Round(domain.FrameDuration): half away from zero.
Round(d) == ((2 * d + FrameDuration) \div (2 * FrameDuration)) * FrameDuration

\* The reconnect gap: from the last audio to when the new connection's first
\* audio was captured.  Mutants: to when it arrived; a burst makes it
\* negative.
GapToArrival(n)  == Round(now - lastAudio)
GapUnbounded(n)  == (now - n - lastAudio)
Gap(n) == Round(Larger(0, now - n - lastAudio))

\* The frames that n more make of the remainder, the first of them at t; what
\* remains; the buffer with them, the oldest dropped.
FramesFrom(c, n, t) ==
  [i \in 1 .. ((rem.len + n) \div FrameDuration) |->
     [t |-> t + (i - 1) * FrameDuration,
      from |-> IF i = 1 THEN rem.from \cup {c} ELSE {c}]]
Remainder(c, n) ==
  LET len == (rem.len + n) % FrameDuration
  IN [len |-> len, from |-> IF len = 0 THEN {}
                            ELSE IF rem.len + n < FrameDuration THEN rem.from \cup {c}
                            ELSE {c}]
Buffered(frames) ==
  LET all == buf \o frames
  IN SubSeq(all, 1 + Len(all) - Least(BufferFrames, Len(all)), Len(all))

\* The push's signal.  Mutant: an unbuffered channel.
SignalledIfWaiting == pump = "wait"
Signalled == TRUE

\* A stall re-anchors the connection.
Anchored(received) == now - received

\* Bytes of a replaced connection are ignored.
Accepts(c) == active = c /\ ~closed

\* A client sends ahead of its capture, or not at once (history).
Ahead(c, n) == conn[c].received + n > now - conn[c].since

Write(c, n) ==
  /\ conn[c].at \in {"open", "ending"} /\ Accepts(c)
  /\ conn[c].received + n <= MaxAudio
  /\ LET k     == conn[c]
         begin == IF k.started THEN k.start ELSE now - n
         t     == IF ~k.started /\ lastAudio # None THEN nextT + Gap(n) ELSE nextT
         heard == k.received + n
         stall == now - begin - heard > StallThreshold
         new   == FramesFrom(c, n, t)
     IN
     /\ conn' = [conn EXCEPT ![c] = [k EXCEPT
                   !.started = TRUE, !.received = heard, !.ahead = @ \/ Ahead(c, n),
                   !.since = IF k.started THEN @ ELSE begin,
                   !.start = IF stall THEN Anchored(heard) ELSE begin]]
     /\ nextT' = t + Len(new) * FrameDuration
     /\ buf' = Buffered(new)
     /\ token' = (token \/ (new # <<>> /\ Signalled))
     /\ rem' = Remainder(c, n)
  /\ lastAudio' = now /\ origin' = IF lastAudio = None THEN now - n ELSE origin
  /\ UNCHANGED <<now, active, stream, inMap, closed>>

-----------------------------------------------------------------------------
(* The consumer: Start, pump *)

\* ErrClosed and ErrAlreadyStarted leave everything as it is.
Start ==
  /\ ~closed /\ pump = "off" /\ starts < MaxStarts
  /\ pump' = "poll" /\ ctxDone' = FALSE /\ starts' = starts + 1
  /\ UNCHANGED <<now, conn, active, timeline, buf, token, hand, last, inMap, closed>>

Cancel ==
  /\ pump # "off" /\ ~ctxDone /\ ctxDone' = TRUE
  /\ UNCHANGED <<now, conn, active, timeline, buf, token, pump, hand, starts, last, inMap, closed>>

Poll ==
  /\ pump = "poll"
  /\ IF buf # <<>> THEN /\ hand' = <<Head(buf)>> /\ buf' = Tail(buf) /\ pump' = "send"
     ELSE /\ pump' = IF closed THEN "off" ELSE "idle"
          /\ UNCHANGED <<hand, buf>>
  /\ UNCHANGED <<now, conn, active, timeline, token, ctxDone, starts, last, inMap, closed>>

\* It enters the select only now: a frame may come between.
Park ==
  /\ pump = "idle" /\ pump' = "wait"
  /\ UNCHANGED <<now, conn, active, timeline, buf, token, hand, ctxDone, starts, last, inMap, closed>>

Deliver ==
  /\ pump = "send" /\ pump' = "poll" /\ hand' = <<>> /\ last' = FrameEnd(hand[1])
  /\ UNCHANGED <<now, conn, active, timeline, buf, token, ctxDone, starts, inMap, closed>>

\* notify or done.
Wake ==
  /\ pump = "wait" /\ (token \/ closed)
  /\ pump' = "poll"
  /\ \/ token' = FALSE
     \/ closed /\ UNCHANGED token
  /\ UNCHANGED <<now, conn, active, timeline, buf, hand, ctxDone, starts, last, inMap, closed>>

\* The context is cancelled; the frame in hand is lost.
PumpEnds ==
  /\ pump \in {"send", "wait"} /\ ctxDone
  /\ pump' = "off" /\ hand' = <<>>
  /\ UNCHANGED <<now, conn, active, timeline, buf, token, ctxDone, starts, last, inMap, closed>>

-----------------------------------------------------------------------------
(* Hub.Remove: out of the map, then close *)

Remove ==
  /\ inMap /\ inMap' = FALSE
  /\ UNCHANGED <<now, conn, active, timeline, buf, token, stream, closed>>

Close ==
  /\ ~inMap /\ ~closed /\ closed' = TRUE
  /\ UNCHANGED <<now, conn, active, timeline, buf, token, stream, inMap>>

Serve(c) == Lookup(c) \/ Attach(c) \/ Kick(c) \/ Evict(c) \/ Detach(c)
Pump     == Poll \/ Park \/ Deliver \/ Wake

Next ==
  \/ \E c \in Conns : Serve(c) \/ Disconnect(c) \/ \E n \in Sizes : Write(c, n)
  \/ Tick \/ Start \/ Cancel \/ Pump \/ PumpEnds \/ Remove \/ Close

Spec == Init /\ [][Next]_vars

-----------------------------------------------------------------------------
(* What holds *)

\* The frames consumed, in the pump's hand and in the buffer do not overlap
\* and ascend in T, and so does the next one.
Line == hand \o buf
Ascending ==
  /\ \A i \in 1 .. Len(Line) - 1 : FrameEnd(Line[i]) <= Line[i + 1].t
  /\ Line # <<>> => last <= Line[1].t /\ FrameEnd(Line[Len(Line)]) <= nextT
  /\ last <= nextT

\* A frame holds the audio of one connection, the active one when it was
\* completed.
FramesUnmixed ==
  \A i \in 1 .. Len(buf') : buf'[i].t >= nextT => buf'[i].from = {active}

\* With clients that send in time, T is not ahead of the wall clock by more
\* than the rounding of the gaps so far.
Reconnects == Cardinality({c \in Conns : conn[c].started}) - 1
NeverAhead ==
  lastAudio # None /\ (\A c \in Conns : ~conn[c].ahead)
    => 2 * nextT <= 2 * (now - origin) + Reconnects * FrameDuration

\* The session clock goes neither back nor ahead of time, over every reconnect
\* and every restart of the consumer: it "stays monotonic" and "T keeps
\* tracking wall time" (source.go).
ClockKept == Ascending /\ NeverAhead

\* Over every replacement, stall and reconnect the consumer hears one line of
\* frames on the session clock, each the audio of one connection.
FramesKept == [][ClockKept' /\ FramesUnmixed]_vars

\* A pump that waits while frames are buffered has a notification to wake it,
\* although push only leaves one if none is there and a frame may come between
\* the look at the buffer and the wait (push, pump).
NoLostWakeup == pump = "wait" /\ buf # <<>> => token
=============================================================================
