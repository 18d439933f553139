----------------------------- MODULE IngestProofs -----------------------------
(***************************************************************************)
(* What IngestSource promises, for any connections, sizes of message,      *)
(* length of a frame and of the jitter buffer, and any number of calls of  *)
(* Start; and what IngestClient promises, for any number of reconnects.    *)
(***************************************************************************)
EXTENDS IngestClient, FiniteSetTheorems, TLAPS

ConnRecs ==
  [at : Handlers, kicked : BOOLEAN, replaces : Conns \cup {NoConn}, since : Int,
   started : BOOLEAN, start : Int, received : Nat, ahead : BOOLEAN]
Frames   == [t : Nat, from : SUBSET Conns]
Partials == [len : 0 .. FrameDuration - 1, from : SUBSET Conns]

\* The types the proofs need.
ConnTypes ==
  /\ now \in Nat /\ conn \in [Conns -> ConnRecs] /\ active \in Conns \cup {NoConn}
  /\ rem \in Partials /\ nextT \in Nat /\ lastAudio \in Nat \cup {None} /\ origin \in Int
FrameTypes ==
  /\ buf \in Seq(Frames) /\ Len(buf) <= BufferFrames
  /\ hand \in Seq(Frames) /\ Len(hand) <= 1 /\ last \in Int
FlagTypes ==
  /\ pump \in {"off", "poll", "send", "idle", "wait"} /\ (pump = "send") = (hand # <<>>)
  /\ {token, ctxDone, inMap, closed} \subseteq BOOLEAN

\* NoLostWakeup, from the look at the buffer on.
Woken == pump \in {"idle", "wait"} /\ buf # <<>> => token

\* Every two frames of the line, and every one and the next T.
InLine ==
  /\ \A i, j \in 1 .. Len(buf) : i < j => FrameEnd(buf[i]) <= buf[j].t
  /\ \A i \in 1 .. Len(buf) : FrameEnd(buf[i]) <= nextT /\ last <= buf[i].t
  /\ \A h \in 1 .. Len(hand) :
       /\ last <= hand[h].t /\ FrameEnd(hand[h]) <= nextT
       /\ \A i \in 1 .. Len(buf) : FrameEnd(hand[h]) <= buf[i].t
  /\ last <= nextT

\* What remains is the active connection's.
OwnPartial == rem.from \subseteq {active}

\* A connection that has sent nothing, and one that is not attached.
Fresh ==
  /\ \A c \in Conns : ~conn[c].started => conn[c].received = 0
  /\ \A c \in Conns : conn[c].at \in {"new", "found"} => ~conn[c].started /\ active # c
  /\ lastAudio <= now
  /\ lastAudio = None => nextT = 0 /\ \A c \in Conns : ~conn[c].started
  /\ \A c \in Conns : active = c /\ ~conn[c].started =>
       rem.len = 0 /\ lastAudio <= conn[c].since

\* As long as no client is ahead, T is behind the last audio, and what the
\* active connection has sent fits between its first audio and now.
InTime == \A c \in Conns : ~conn[c].ahead
Slack  == Reconnects * FrameDuration
OnTime ==
  InTime =>
    /\ lastAudio # None => 2 * nextT <= 2 * (lastAudio - origin) + Slack
    /\ \A c \in Conns : active = c /\ conn[c].started =>
         /\ 2 * (nextT + rem.len) <= 2 * ((conn[c].since + conn[c].received) - origin) + Slack
         /\ conn[c].received <= now - conn[c].since

SourceInv ==
  ConnTypes /\ FrameTypes /\ FlagTypes /\ Woken /\ InLine /\ OwnPartial /\ Fresh /\ OnTime

-----------------------------------------------------------------------------
(* Division *)

\* Round is within half a frame.
LEMMA RoundNear ==
  ASSUME NEW d \in Nat
  PROVE  Round(d) \in Nat /\ 2 * Round(d) <= 2 * d + FrameDuration
<1>0. FrameDuration \in Nat \ {0} BY IngestAssumption
<1> DEFINE x == 2 * d + FrameDuration
           m == 2 * FrameDuration
           q == x \div m
<1>1. x \in Nat /\ m \in Nat \ {0} BY <1>0
<1> HIDE DEF x, m
<1>2. q \in Nat /\ m * q <= x BY <1>1
<1> HIDE DEF q
<1>3. Round(d) = q * FrameDuration BY DEF Round, q, x, m
<1>4. q * FrameDuration \in Nat BY <1>0, <1>2
<1>5. m * q = 2 * (q * FrameDuration) BY <1>0, <1>2 DEF m
<1>6. QED BY <1>2, <1>3, <1>4, <1>5 DEF x

\* What the frames of a remainder and a message leave.
LEMMA Divided ==
  ASSUME NEW x \in Nat
  PROVE  /\ x \div FrameDuration \in Nat /\ x % FrameDuration \in 0 .. FrameDuration - 1
         /\ (x \div FrameDuration) * FrameDuration + (x % FrameDuration) = x
<1> DEFINE d == FrameDuration
           q == x \div d
<1>0. d \in Nat \ {0} BY IngestAssumption
<1> HIDE DEF d
<1>1. q \in Nat /\ x % d \in 0 .. d - 1 BY <1>0
<1>2. x - d * q = x % d BY <1>0
<1> HIDE DEF q
<1>3. d * q = q * d
  <2>1. d \in Int /\ q \in Int BY <1>0, <1>1
  <2>2. QED BY <2>1
<1>4. q * d + (x % d) = x BY <1>0, <1>1, <1>2, <1>3
<1>5. QED BY <1>1, <1>4 DEF d, q

\* The frames that a message completes.
LEMMA FramesMade ==
  ASSUME ConnTypes, NEW c \in Conns, NEW n \in Nat \ {0}, NEW t \in Nat
  PROVE  LET new == FramesFrom(c, n, t) IN
         /\ new \in Seq(Frames) /\ Len(new) \in Nat
         /\ Remainder(c, n) \in Partials
         /\ Len(new) * FrameDuration + Remainder(c, n).len = rem.len + n
         /\ \A i \in 1 .. Len(new) : new[i].t = t + (i - 1) * FrameDuration
         /\ \A i \in 1 .. Len(new) : new[i].from \subseteq rem.from \cup {c} /\ c \in new[i].from
         /\ Remainder(c, n).from \subseteq rem.from \cup {c}
<1> DEFINE x   == rem.len + n
           new == FramesFrom(c, n, t)
           len == x \div FrameDuration
<1>0. FrameDuration \in Nat \ {0} BY IngestAssumption
<1>1. rem.len \in 0 .. FrameDuration - 1 /\ rem.from \subseteq Conns
  BY DEF ConnTypes, Partials
<1>2. x \in Nat BY <1>0, <1>1
<1> HIDE DEF x
<1>3. len \in Nat /\ x % FrameDuration \in 0 .. FrameDuration - 1
      /\ len * FrameDuration + (x % FrameDuration) = x
  BY <1>2, Divided
<1>4. new = [i \in 1 .. len |->
               [t |-> t + (i - 1) * FrameDuration,
                from |-> IF i = 1 THEN rem.from \cup {c} ELSE {c}]]
  BY DEF FramesFrom, x
<1> HIDE DEF len
<1>5. \A i \in 1 .. len : t + (i - 1) * FrameDuration \in Nat
  <2> TAKE i \in 1 .. len
  <2>1. i - 1 \in Nat BY <1>3
  <2>2. (i - 1) * FrameDuration \in Nat BY <1>0, <2>1
  <2>3. QED BY <2>2
<1>6. \A i \in 1 .. len : new[i] \in Frames
  BY <1>1, <1>4, <1>5 DEF Frames
<1>7. new \in Seq(Frames) /\ Len(new) = len
  <2>1. new \in [1 .. len -> Frames] BY <1>4, <1>6
  <2>2. QED BY <1>3, <2>1
<1>8. Remainder(c, n) = [len |-> x % FrameDuration,
                         from |-> IF x % FrameDuration = 0 THEN {}
                                  ELSE IF x < FrameDuration THEN rem.from \cup {c} ELSE {c}]
  BY DEF Remainder, x
<1>9. Remainder(c, n) \in Partials BY <1>1, <1>3, <1>8 DEF Partials
<1>10. Len(new) * FrameDuration + Remainder(c, n).len = rem.len + n
  <2>1. Remainder(c, n).len = x % FrameDuration BY <1>8
  <2>2. Len(new) * FrameDuration + (x % FrameDuration) = x BY <1>3, <1>7
  <2>3. x = rem.len + n BY DEF x
  <2>4. QED BY <2>1, <2>2, <2>3
<1>11. \A i \in 1 .. Len(new) : new[i].t = t + (i - 1) * FrameDuration
  <2> TAKE i \in 1 .. Len(new)
  <2>1. i \in 1 .. len BY <1>7
  <2>2. new[i] = [t |-> t + (i - 1) * FrameDuration,
                  from |-> IF i = 1 THEN rem.from \cup {c} ELSE {c}]
    BY <1>4, <2>1
  <2>3. QED BY <2>2
<1>12. \A i \in 1 .. Len(new) : new[i].from \subseteq rem.from \cup {c} /\ c \in new[i].from
  <2> TAKE i \in 1 .. Len(new)
  <2>1. new[i].from = IF i = 1 THEN rem.from \cup {c} ELSE {c}
    <3>1. i \in 1 .. len BY <1>7
    <3>2. new[i] = [t |-> t + (i - 1) * FrameDuration,
                    from |-> IF i = 1 THEN rem.from \cup {c} ELSE {c}]
      BY <1>4, <3>1
    <3>3. QED BY <3>2
  <2>2. QED BY <2>1
<1>13. Remainder(c, n).from \subseteq rem.from \cup {c} BY <1>8
<1> HIDE DEF new
<1>14. QED BY <1>3, <1>7, <1>9, <1>10, <1>11, <1>12, <1>13 DEF new

\* The buffer is the end of what it was and what came.
LEMMA BufferedEnd ==
  ASSUME buf \in Seq(Frames), NEW new \in Seq(Frames)
  PROVE  /\ Buffered(new) \in Seq(Frames) /\ Len(Buffered(new)) <= BufferFrames
         /\ Buffered(new) # <<>> => buf # <<>> \/ new # <<>>
         /\ \E k \in 0 .. Len(buf \o new) :
              /\ Len(Buffered(new)) = Len(buf \o new) - k
              /\ \A i \in 1 .. Len(Buffered(new)) : Buffered(new)[i] = (buf \o new)[i + k]
<1> DEFINE all == buf \o new
           k   == Len(all) - Least(BufferFrames, Len(all))
           b   == SubSeq(all, 1 + Len(all) - Least(BufferFrames, Len(all)), Len(all))
<1>0. BufferFrames \in Nat \ {0} BY IngestAssumption DEF IngestOptions
<1>1. all \in Seq(Frames) /\ Len(all) = Len(buf) + Len(new) /\ Len(all) \in Nat
  BY DEF all
<1>2. Buffered(new) = b BY DEF Buffered
<1> HIDE DEF all
<1>3. k \in 0 .. Len(all) /\ Len(all) - k <= BufferFrames
  <2>1. Least(BufferFrames, Len(all)) \in 0 .. Len(all)
        /\ Least(BufferFrames, Len(all)) <= BufferFrames
    BY <1>0, <1>1 DEF Least
  <2>2. QED BY <1>0, <1>1, <2>1
<1>4. b = SubSeq(all, 1 + k, Len(all)) BY <1>0, <1>1 DEF Least
<1> HIDE DEF k, b
<1>5. b \in Seq(Frames) /\ Len(b) = Len(all) - k BY <1>1, <1>3, <1>4
<1>6. \A i \in 1 .. Len(b) : b[i] = all[i + k] BY <1>1, <1>3, <1>4
<1>7. b # <<>> => buf # <<>> \/ new # <<>>
  <2> SUFFICES ASSUME buf = <<>>, new = <<>> PROVE b = <<>> OBVIOUS
  <2>1. Len(all) = 0 BY <1>1
  <2>2. QED BY <1>1, <1>3, <1>5, <2>1
<1>8. \E j \in 0 .. Len(all) :
        /\ Len(b) = Len(all) - j
        /\ \A i \in 1 .. Len(b) : b[i] = all[i + j]
  BY <1>3, <1>5, <1>6
<1>9. Len(b) <= BufferFrames BY <1>3, <1>5
<1>10. QED BY <1>2, <1>5, <1>7, <1>8, <1>9 DEF all

-----------------------------------------------------------------------------
(* The connections *)

LEMMA SourceInvInit == Init => SourceInv
<1> SUFFICES ASSUME Init PROVE SourceInv OBVIOUS
<1>0. FrameDuration \in Nat \ {0} /\ BufferFrames \in Nat \ {0}
  BY IngestAssumption DEF IngestOptions
<1>1. ConnTypes
  <2>1. NewConn \in ConnRecs BY DEF NewConn, ConnRecs, Handlers
  <2>2. NoRem \in Partials BY <1>0 DEF NoRem, Partials
  <2>3. QED BY <2>1, <2>2 DEF Init, ConnTypes, None
<1>2. FrameTypes BY <1>0 DEF Init, FrameTypes, None
<1>3. FlagTypes BY DEF Init, FlagTypes
<1>4. Woken /\ InLine /\ OwnPartial BY DEF Init, Woken, InLine, OwnPartial, NoRem, None
<1>5. Fresh BY IngestAssumption DEF Init, Fresh, NewConn, NoRem, None
<1>6. OnTime BY IngestAssumption DEF Init, OnTime, NewConn
<1>7. QED BY <1>1, <1>2, <1>3, <1>4, <1>5, <1>6 DEF SourceInv

\* What the clock counts of the connections stays.
ConnsKeep ==
  /\ conn' \in [Conns -> ConnRecs]
  /\ \A c \in Conns :
       /\ conn'[c].started = conn[c].started /\ conn'[c].received = conn[c].received
       /\ conn'[c].since = conn[c].since /\ conn'[c].ahead = conn[c].ahead

\* Handlers that move.
LEMMA ConnGoes ==
  ASSUME SourceInv, ConnsKeep, 
         \A c \in Conns : conn'[c].at \in {"new", "found"} => conn[c].at \in {"new", "found"},
         UNCHANGED <<now, active, timeline, buf, token, stream, inMap, closed>>
  PROVE  SourceInv'
<1> USE DEF SourceInv, ConnsKeep
<1>1. ConnTypes' BY DEF ConnTypes, timeline
<1>2. FrameTypes' /\ FlagTypes' BY DEF FrameTypes, FlagTypes, stream
<1>3. Woken' /\ InLine' BY DEF Woken, InLine, stream, timeline, FrameEnd
<1>4. OwnPartial' BY DEF OwnPartial, timeline
<1>5. Fresh' BY DEF Fresh, timeline
<1>6. OnTime'
  <2>1. {c \in Conns : conn'[c].started} = {c \in Conns : conn[c].started} OBVIOUS
  <2>2. Slack' = Slack BY <2>1 DEF Slack, Reconnects
  <2>3. InTime' => InTime BY DEF InTime
  <2>4. QED BY <2>2, <2>3 DEF OnTime, timeline
<1>7. QED BY <1>1, <1>2, <1>3, <1>4, <1>5, <1>6

\* One handler that moves on, and one that is kicked.
LEMMA HandlerGoes ==
  ASSUME ConnTypes, NEW c \in Conns, NEW h \in Handlers, conn' = [conn EXCEPT ![c].at = h]
  PROVE  ConnsKeep /\ \A d \in Conns : conn'[d].at = IF d = c THEN h ELSE conn[d].at
<1>1. conn \in [Conns -> ConnRecs] BY DEF ConnTypes
<1> DEFINE x == [conn[c] EXCEPT !.at = h]
<1>2. conn' = [conn EXCEPT ![c] = x] OBVIOUS
<1>3. x \in ConnRecs /\ x.at = h /\ x.since = conn[c].since /\ x.started = conn[c].started
      /\ x.received = conn[c].received /\ x.ahead = conn[c].ahead
  <2>1. conn[c] \in ConnRecs BY <1>1
  <2>2. QED BY <2>1 DEF ConnRecs
<1> HIDE DEF x
<1>4. conn' \in [Conns -> ConnRecs] BY <1>1, <1>2, <1>3
<1>5. \A d \in Conns : conn'[d] = IF d = c THEN x ELSE conn[d] BY <1>1, <1>2
<1>6. QED BY <1>3, <1>4, <1>5 DEF ConnsKeep

LEMMA KickGoes ==
  ASSUME ConnTypes, NEW c \in Conns, Kick(c)
  PROVE  ConnsKeep /\ \A d \in Conns : conn'[d].at = IF d = c THEN "open" ELSE conn[d].at
<1>1. conn \in [Conns -> ConnRecs] BY DEF ConnTypes
<1> DEFINE y == [conn EXCEPT ![c].at = "open"]
           r == conn[c].replaces
<1>2. /\ y \in [Conns -> ConnRecs]
      /\ \A d \in Conns :
           /\ y[d].started = conn[d].started /\ y[d].received = conn[d].received
           /\ y[d].since = conn[d].since /\ y[d].ahead = conn[d].ahead
           /\ y[d].at = IF d = c THEN "open" ELSE conn[d].at
  <2> DEFINE x == [conn[c] EXCEPT !.at = "open"]
  <2>1. x \in ConnRecs /\ x.at = "open" /\ x.since = conn[c].since
        /\ x.started = conn[c].started
        /\ x.received = conn[c].received /\ x.ahead = conn[c].ahead
    <3>1. conn[c] \in ConnRecs BY <1>1
    <3>2. QED BY <3>1 DEF ConnRecs, Handlers
  <2>2. y = [conn EXCEPT ![c] = x] OBVIOUS
  <2> HIDE DEF x, y
  <2>3. \A d \in Conns : y[d] = IF d = c THEN x ELSE conn[d] BY <1>1, <2>2
  <2>4. y \in [Conns -> ConnRecs] BY <1>1, <2>1, <2>2
  <2>5. QED BY <2>1, <2>3, <2>4
<1>3. conn' = [y EXCEPT ![r].kicked = TRUE] BY DEF Kick
<1> HIDE DEF y, r
<1>4. CASE r \in Conns
  <2> DEFINE x == [y[r] EXCEPT !.kicked = TRUE]
  <2>1. x \in ConnRecs /\ x.at = y[r].at /\ x.since = y[r].since /\ x.started = y[r].started
        /\ x.received = y[r].received /\ x.ahead = y[r].ahead
    <3>1. y[r] \in ConnRecs BY <1>2, <1>4
    <3>2. QED BY <3>1 DEF ConnRecs
  <2>2. conn' = [y EXCEPT ![r] = x] BY <1>3
  <2> HIDE DEF x
  <2>3. \A d \in Conns : conn'[d] = IF d = r THEN x ELSE y[d] BY <1>2, <2>2
  <2>4. conn' \in [Conns -> ConnRecs] BY <1>2, <1>4, <2>1, <2>2
  <2>5. QED BY <1>2, <2>1, <2>3, <2>4 DEF ConnsKeep
<1>5. CASE r \notin Conns
  <2>1. conn' = y BY <1>2, <1>3, <1>5
  <2>2. QED BY <1>2, <2>1 DEF ConnsKeep
<1>6. QED BY <1>4, <1>5

LEMMA ServeKeeps ==
  ASSUME SourceInv, NEW c \in Conns, Lookup(c) \/ Kick(c) \/ Evict(c) \/ Disconnect(c)
  PROVE  SourceInv'
<1>0. ConnTypes BY DEF SourceInv
<1>1. UNCHANGED <<now, active, timeline, buf, token, stream, inMap, closed>>
  BY DEF Lookup, Kick, Evict, Disconnect
<1>2. ConnsKeep
      /\ \A d \in Conns : conn'[d].at \in {"new", "found"} => conn[d].at \in {"new", "found"}
  <2>1. CASE Lookup(c)
    <3>1. "found" \in Handlers BY DEF Handlers
    <3>2. conn' = [conn EXCEPT ![c].at = "found"] /\ conn[c].at = "new" BY <2>1 DEF Lookup
    <3>3. ConnsKeep /\ \A d \in Conns : conn'[d].at = IF d = c THEN "found" ELSE conn[d].at
      BY ONLY <1>0, <3>1, <3>2, HandlerGoes
    <3>4. QED BY <3>2, <3>3
  <2>2. CASE Kick(c)
    <3>1. ConnsKeep /\ \A d \in Conns : conn'[d].at = IF d = c THEN "open" ELSE conn[d].at
      BY <1>0, <2>2, KickGoes
    <3>2. QED BY <3>1
  <2>3. CASE Evict(c)
    <3>1. "ending" \in Handlers BY DEF Handlers
    <3>2. conn' = [conn EXCEPT ![c].at = "ending"] BY <2>3 DEF Evict
    <3>3. ConnsKeep /\ \A d \in Conns : conn'[d].at = IF d = c THEN "ending" ELSE conn[d].at
      BY ONLY <1>0, <3>1, <3>2, HandlerGoes
    <3>4. QED BY <3>3
  <2>4. CASE Disconnect(c)
    <3>1. PICK h \in {"left", "ending"} : conn' = [conn EXCEPT ![c].at = h]
      BY <2>4 DEF Disconnect
    <3>2. h \in Handlers BY DEF Handlers
    <3>3. ConnsKeep /\ \A d \in Conns : conn'[d].at = IF d = c THEN h ELSE conn[d].at
      BY ONLY <1>0, <3>1, <3>2, HandlerGoes
    <3>4. QED BY <3>3
  <2>5. QED BY <2>1, <2>2, <2>3, <2>4
<1>3. QED BY <1>1, <1>2, ConnGoes

LEMMA AttachKeeps ==
  ASSUME SourceInv, NEW c \in Conns, Attach(c)
  PROVE  SourceInv'
<1>0. ConnTypes BY DEF SourceInv
<1>1. CASE closed
  <2>1. "gone" \in Handlers BY DEF Handlers
  <2>2. conn' = [conn EXCEPT ![c].at = "gone"] BY <1>1 DEF Attach
  <2>3. ConnsKeep /\ \A d \in Conns : conn'[d].at = IF d = c THEN "gone" ELSE conn[d].at
    BY ONLY <1>0, <2>1, <2>2, HandlerGoes
  <2>4. UNCHANGED <<now, active, timeline, buf, token, stream, inMap, closed>>
    BY <1>1 DEF Attach, timeline
  <2>5. QED BY <2>3, <2>4, ConnGoes
<1>2. CASE ~closed
  <2> DEFINE h == IF active = NoConn THEN "open" ELSE "kick"
             x == [conn[c] EXCEPT !.at = h, !.replaces = active, !.since = now]
  <2>1. /\ x \in ConnRecs /\ x.at \notin {"new", "found"} /\ x.since = now
        /\ x.started = conn[c].started /\ x.received = conn[c].received
        /\ x.ahead = conn[c].ahead
    <3>1. conn[c] \in ConnRecs /\ now \in Int /\ active \in Conns \cup {NoConn}
      BY <1>0 DEF ConnTypes
    <3>2. h \in Handlers /\ h \notin {"new", "found"} BY DEF Handlers
    <3> HIDE DEF h
    <3>3. QED BY <3>1, <3>2 DEF ConnRecs
  <2>2. conn' = [conn EXCEPT ![c] = x] /\ active' = c /\ rem' = NoRem /\ conn[c].at = "found"
    BY <1>2 DEF Attach, PartialAfterAttach
  <2> HIDE DEF x
  <2>3. UNCHANGED <<now, nextT, lastAudio, origin, buf, token, stream, inMap, closed>>
    BY DEF Attach
  <2>4. /\ conn' \in [Conns -> ConnRecs]
        /\ \A d \in Conns : conn'[d] = IF d = c THEN x ELSE conn[d]
    BY <1>0, <2>1, <2>2 DEF ConnTypes
  <2>5. \A d \in Conns : /\ conn'[d].started = conn[d].started
                         /\ conn'[d].received = conn[d].received
                         /\ conn'[d].ahead = conn[d].ahead
    BY <2>1, <2>4
  <2>6. ~conn[c].started BY <2>2 DEF SourceInv, Fresh
  <2>7. NoRem \in Partials BY IngestAssumption DEF NoRem, Partials
  <2>8. ConnTypes' BY <1>0, <2>2, <2>3, <2>4, <2>7 DEF ConnTypes
  <2>9. FrameTypes' /\ FlagTypes' BY <2>3 DEF SourceInv, FrameTypes, FlagTypes, stream
  <2>10. Woken' /\ InLine' BY <2>3 DEF SourceInv, Woken, InLine, stream, FrameEnd
  <2>11. OwnPartial' BY <2>2 DEF OwnPartial, NoRem
  <2>12. Fresh'
    <3>1. \A d \in Conns : conn'[d].at \in {"new", "found"} =>
             ~conn'[d].started /\ active' # d
      BY <2>1, <2>2, <2>4, <2>5 DEF SourceInv, Fresh
    <3>2. rem'.len = 0 /\ lastAudio' <= conn'[c].since
      BY <2>1, <2>2, <2>3, <2>4 DEF NoRem, SourceInv, Fresh
    <3>3. \A d \in Conns : active' = d /\ ~conn'[d].started =>
             rem'.len = 0 /\ lastAudio' <= conn'[d].since
      BY <2>2, <3>2
    <3>4. QED BY <2>3, <2>5, <3>1, <3>3 DEF SourceInv, Fresh
  <2>13. OnTime'
    <3>1. {d \in Conns : conn'[d].started} = {d \in Conns : conn[d].started} BY <2>5
    <3>2. Slack' = Slack BY <3>1 DEF Slack, Reconnects
    <3>3. InTime' => InTime BY <2>5 DEF InTime
    <3>4. ~conn'[c].started BY <2>5, <2>6
    <3>5. QED BY <2>2, <2>3, <3>2, <3>3, <3>4 DEF SourceInv, OnTime
  <2>14. QED BY <2>8, <2>9, <2>10, <2>11, <2>12, <2>13 DEF SourceInv
<1>3. QED BY <1>1, <1>2

LEMMA DetachKeeps ==
  ASSUME SourceInv, NEW c \in Conns, Detach(c)
  PROVE  SourceInv'
<1>0. ConnTypes BY DEF SourceInv
<1>1. "gone" \in Handlers BY DEF Handlers
<1>2. conn' = [conn EXCEPT ![c].at = "gone"] BY DEF Detach
<1>3. ConnsKeep /\ \A d \in Conns : conn'[d].at = IF d = c THEN "gone" ELSE conn[d].at
  BY ONLY <1>0, <1>1, <1>2, HandlerGoes
<1>4. UNCHANGED <<now, nextT, lastAudio, origin, buf, token, stream, inMap, closed>>
  BY DEF Detach
<1>5. CASE active # c
  <2>1. UNCHANGED <<now, active, timeline, buf, token, stream, inMap, closed>>
    BY <1>5 DEF Detach, Detaches, timeline
  <2>2. QED BY <1>3, <2>1, ConnGoes
<1>6. CASE active = c
  <2>1. active' = NoConn /\ rem' = NoRem BY <1>6 DEF Detach, Detaches
  <2>2. NoRem \in Partials /\ NoConn \notin Conns BY IngestAssumption DEF NoRem, Partials
  <2>3. ConnTypes' BY <1>0, <1>3, <1>4, <2>1, <2>2 DEF ConnTypes, ConnsKeep
  <2>4. FrameTypes' /\ FlagTypes' BY <1>4 DEF SourceInv, FrameTypes, FlagTypes, stream
  <2>5. Woken' /\ InLine' BY <1>4 DEF SourceInv, Woken, InLine, stream, FrameEnd
  <2>6. OwnPartial' BY <2>1 DEF OwnPartial, NoRem
  <2>7. Fresh' BY <1>3, <1>4, <2>1, <2>2 DEF SourceInv, Fresh, ConnsKeep
  <2>8. OnTime'
    <3>1. {d \in Conns : conn'[d].started} = {d \in Conns : conn[d].started}
      BY <1>3 DEF ConnsKeep
    <3>2. Slack' = Slack BY <3>1 DEF Slack, Reconnects
    <3>3. InTime' => InTime BY <1>3 DEF InTime, ConnsKeep
    <3>4. QED BY <1>4, <2>1, <2>2, <3>2, <3>3 DEF SourceInv, OnTime
  <2>9. QED BY <2>3, <2>4, <2>5, <2>6, <2>7, <2>8 DEF SourceInv
<1>7. QED BY <1>5, <1>6

LEMMA TickKeeps == SourceInv /\ Tick => SourceInv'
<1> SUFFICES ASSUME SourceInv, Tick PROVE SourceInv' OBVIOUS
<1>1. now \in Nat /\ now' = now + 1 BY DEF SourceInv, ConnTypes, Tick
<1>2. UNCHANGED <<conn, active, timeline, buf, token, stream, inMap, closed>> BY DEF Tick
<1>3. ConnTypes' BY <1>1, <1>2 DEF SourceInv, ConnTypes, timeline
<1>4. FrameTypes' /\ FlagTypes' BY <1>2 DEF SourceInv, FrameTypes, FlagTypes, stream
<1>5. Woken' /\ InLine' BY <1>2 DEF SourceInv, Woken, InLine, stream, timeline, FrameEnd
<1>6. OwnPartial' BY <1>2 DEF SourceInv, OwnPartial, timeline
<1>7. Fresh'
  <2>1. lastAudio' <= now' BY <1>1, <1>2 DEF SourceInv, Fresh, ConnTypes, None, timeline
  <2>2. QED BY <1>2, <2>1 DEF SourceInv, Fresh, timeline
<1>8. OnTime'
  <2>1. Slack' = Slack /\ InTime' = InTime BY <1>2 DEF Slack, Reconnects, InTime
  <2>2. ASSUME NEW c \in Conns, conn[c].received <= now - conn[c].since
        PROVE  conn'[c].received <= now' - conn'[c].since
    <3>1. conn[c] \in ConnRecs BY DEF SourceInv, ConnTypes
    <3>2. conn[c].received \in Int /\ conn[c].since \in Int BY <3>1 DEF ConnRecs
    <3>3. QED BY <1>1, <1>2, <2>2, <3>2
  <2>3. QED BY <1>2, <2>1, <2>2 DEF SourceInv, OnTime, timeline
<1>9. QED BY <1>3, <1>4, <1>5, <1>6, <1>7, <1>8 DEF SourceInv

-----------------------------------------------------------------------------
(* Write *)

\* A line of frames, and what push makes of it.
LEMMA PushInLine ==
  ASSUME SourceInv, NEW c \in Conns, NEW n \in Nat \ {0}, NEW t \in Nat, nextT <= t,
         NEW new, new = FramesFrom(c, n, t),
         nextT' = t + Len(new) * FrameDuration, buf' = Buffered(new), UNCHANGED <<hand, last>>
  PROVE  InLine' /\ buf' \in Seq(Frames) /\ Len(buf') <= BufferFrames /\ nextT' \in Nat
<1>0. FrameDuration \in Nat \ {0} BY IngestAssumption
<1>1. /\ new \in Seq(Frames) /\ Len(new) \in Nat
      /\ \A i \in 1 .. Len(new) : new[i].t = t + (i - 1) * FrameDuration
  BY FramesMade DEF SourceInv
<1>2. buf \in Seq(Frames) /\ last \in Int /\ hand \in Seq(Frames) /\ nextT \in Nat
  BY DEF SourceInv, FrameTypes, ConnTypes
<1>3. /\ \A i \in 1 .. Len(buf) : buf[i].t \in Nat
      /\ \A i \in 1 .. Len(new) : new[i].t \in Nat
      /\ \A i \in 1 .. Len(hand) : hand[i].t \in Nat
  <2>1. \A f \in Frames : f.t \in Nat BY DEF Frames
  <2>2. QED BY <1>1, <1>2, <2>1
<1>4. \A a, b \in Nat : a < b => a * FrameDuration + FrameDuration <= b * FrameDuration
  <2> DEFINE F == FrameDuration
  <2>1. F \in Nat BY <1>0
  <2> HIDE DEF F
  <2>2. \A a, b \in Nat : a < b => a * F + F <= b * F BY <2>1
  <2>3. QED BY <2>2 DEF F
<1>5. \A a \in Nat : a * FrameDuration \in Nat BY <1>0
<1> DEFINE all == buf \o new
<1>6. Len(all) = Len(buf) + Len(new) /\ Len(buf) \in Nat BY <1>1, <1>2
<1>7. \A i \in 1 .. Len(all) :
         \/ i \in 1 .. Len(buf) /\ all[i] = buf[i]
         \/ i - Len(buf) \in 1 .. Len(new) /\ all[i] = new[i - Len(buf)]
  BY <1>1, <1>2, <1>6
<1>8. \A i \in 1 .. Len(new) : t <= new[i].t /\ FrameEnd(new[i]) <= nextT'
  <2> TAKE i \in 1 .. Len(new)
  <2>1. i - 1 \in Nat /\ i - 1 < Len(new) BY <1>1
  <2>2. (i - 1) * FrameDuration \in Nat /\ Len(new) * FrameDuration \in Nat
        /\ (i - 1) * FrameDuration + FrameDuration <= Len(new) * FrameDuration
    BY <1>1, <1>4, <1>5, <2>1
  <2> DEFINE a == (i - 1) * FrameDuration
             b == Len(new) * FrameDuration
  <2>3. new[i].t = t + a /\ nextT' = t + b BY <1>1
  <2>4. a \in Nat /\ b \in Nat /\ a + FrameDuration <= b BY <2>2
  <2> HIDE DEF a, b
  <2>5. QED BY <1>0, <2>3, <2>4 DEF FrameEnd
<1>9. nextT' \in Nat /\ t <= nextT'
  <2>1. Len(new) * FrameDuration \in Nat BY <1>1, <1>5
  <2>2. QED BY <2>1
<1>10. \A i, j \in 1 .. Len(new) : i < j => FrameEnd(new[i]) <= new[j].t
  <2> TAKE i, j \in 1 .. Len(new)
  <2> HAVE i < j
  <2>1. i - 1 \in Nat /\ j - 1 \in Nat /\ i - 1 < j - 1 BY <1>1
  <2>2. (i - 1) * FrameDuration \in Nat /\ (j - 1) * FrameDuration \in Nat
        /\ (i - 1) * FrameDuration + FrameDuration <= (j - 1) * FrameDuration
    BY <1>4, <1>5, <2>1
  <2> DEFINE a == (i - 1) * FrameDuration
             b == (j - 1) * FrameDuration
  <2>3. new[i].t = t + a /\ new[j].t = t + b BY <1>1
  <2>4. a \in Nat /\ b \in Nat /\ a + FrameDuration <= b BY <2>2
  <2> HIDE DEF a, b
  <2>5. QED BY <1>0, <2>3, <2>4 DEF FrameEnd
<1>11. \A i \in 1 .. Len(buf) :
         FrameEnd(buf[i]) \in Nat /\ FrameEnd(buf[i]) <= nextT /\ last <= buf[i].t
  BY <1>0, <1>3 DEF SourceInv, InLine, FrameEnd
<1>12. \A i \in 1 .. Len(new) : FrameEnd(new[i]) \in Nat BY <1>0, <1>3 DEF FrameEnd
<1>13. last <= nextT BY DEF SourceInv, InLine
<1>14. \A i, j \in 1 .. Len(all) : i < j => FrameEnd(all[i]) <= all[j].t
  <2> TAKE i, j \in 1 .. Len(all)
  <2> HAVE i < j
  <2>0. Len(buf) \in Nat /\ Len(new) \in Nat /\ i \in Nat /\ j \in Nat BY <1>1, <1>6
  <2>1. CASE j \in 1 .. Len(buf)
    <3>1. i \in 1 .. Len(buf) /\ all[i] = buf[i] /\ all[j] = buf[j] BY <1>7, <2>0, <2>1
    <3>2. QED BY <2>1, <3>1 DEF SourceInv, InLine
  <2>2. CASE i \in 1 .. Len(buf) /\ j \notin 1 .. Len(buf)
    <3>1. all[i] = buf[i] /\ j - Len(buf) \in 1 .. Len(new) /\ all[j] = new[j - Len(buf)]
      BY <1>7, <2>0, <2>2
    <3>2. PICK m \in 1 .. Len(new) : all[j] = new[m] BY <3>1
    <3>3. t <= new[m].t /\ new[m].t \in Nat BY <1>3, <1>8
    <3>4. FrameEnd(buf[i]) <= nextT /\ FrameEnd(buf[i]) \in Nat BY <1>11, <2>2
    <3>5. FrameEnd(buf[i]) <= new[m].t BY <1>2, <3>3, <3>4
    <3>6. QED BY <3>1, <3>2, <3>5
  <2>3. CASE i \notin 1 .. Len(buf) /\ j \notin 1 .. Len(buf)
    <3>1. /\ i - Len(buf) \in 1 .. Len(new) /\ all[i] = new[i - Len(buf)]
          /\ j - Len(buf) \in 1 .. Len(new) /\ all[j] = new[j - Len(buf)]
          /\ i - Len(buf) < j - Len(buf)
      BY <1>7, <2>0, <2>3
    <3>2. QED BY <1>10, <3>1
  <2>4. i \notin 1 .. Len(buf) => j \notin 1 .. Len(buf) BY <2>0
  <2>5. QED BY <2>1, <2>2, <2>3, <2>4
<1>15. \A i \in 1 .. Len(all) : FrameEnd(all[i]) <= nextT' /\ last <= all[i].t
  BY SMTT(30), <1>2, <1>3, <1>7, <1>8, <1>9, <1>11, <1>13
<1>16. \A h \in 1 .. Len(hand) :
          /\ last <= hand[h].t /\ FrameEnd(hand[h]) <= nextT'
          /\ \A i \in 1 .. Len(all) : FrameEnd(hand[h]) <= all[i].t
  <2> TAKE h \in 1 .. Len(hand)
  <2>1. /\ last <= hand[h].t /\ FrameEnd(hand[h]) <= nextT
        /\ \A i \in 1 .. Len(buf) : FrameEnd(hand[h]) <= buf[i].t
    BY DEF SourceInv, InLine
  <2>2. FrameEnd(hand[h]) \in Nat BY <1>0, <1>3 DEF FrameEnd
  <2>3. FrameEnd(hand[h]) <= nextT' BY <1>2, <1>9, <2>1, <2>2
  <2>4. \A i \in 1 .. Len(all) : FrameEnd(hand[h]) <= all[i].t
    <3> TAKE i \in 1 .. Len(all)
    <3>1. CASE i \in 1 .. Len(buf) /\ all[i] = buf[i] BY <2>1, <3>1
    <3>2. CASE i - Len(buf) \in 1 .. Len(new) /\ all[i] = new[i - Len(buf)]
      <4>1. PICK m \in 1 .. Len(new) : all[i] = new[m] BY <3>2
      <4>2. t <= new[m].t /\ new[m].t \in Nat BY <1>3, <1>8
      <4>3. FrameEnd(hand[h]) <= new[m].t BY <1>2, <2>1, <2>2, <4>2
      <4>4. QED BY <4>1, <4>3
    <3>3. QED BY <1>7, <3>1, <3>2
  <2>5. QED BY <2>1, <2>3, <2>4
<1>17. last <= nextT' BY <1>2, <1>9, <1>13
<1> HIDE DEF all
<1>18. PICK k \in 0 .. Len(all) :
          /\ Len(buf') = Len(all) - k
          /\ \A i \in 1 .. Len(buf') : buf'[i] = all[i + k]
  BY ZenonT(40), <1>1, <1>2, <1>6, BufferedEnd DEF all
<1>19. buf' \in Seq(Frames) /\ Len(buf') <= BufferFrames /\ Len(buf') \in Nat
  BY <1>1, <1>2, BufferedEnd
<1>20. \A i \in 1 .. Len(buf') : i + k \in 1 .. Len(all)
  BY <1>1, <1>6, <1>18, <1>19
<1>21. \A i, j \in 1 .. Len(buf') : i < j => FrameEnd(buf'[i]) <= buf'[j].t
  <2> TAKE i, j \in 1 .. Len(buf')
  <2> HAVE i < j
  <2>1. i + k \in 1 .. Len(all) /\ j + k \in 1 .. Len(all) BY <1>20
  <2>2. i + k < j + k BY <1>6, <1>1, <1>18, <1>19
  <2>3. QED BY <1>14, <1>18, <2>1, <2>2
<1>22. \A i \in 1 .. Len(buf') : FrameEnd(buf'[i]) <= nextT' /\ last <= buf'[i].t
  BY <1>15, <1>18, <1>20
<1>23. \A h \in 1 .. Len(hand) :
          /\ last <= hand[h].t /\ FrameEnd(hand[h]) <= nextT'
          /\ \A i \in 1 .. Len(buf') : FrameEnd(hand[h]) <= buf'[i].t
  BY <1>16, <1>18, <1>20
<1>24. InLine' BY <1>17, <1>21, <1>22, <1>23 DEF InLine, FrameEnd
<1>25. QED BY <1>9, <1>19, <1>24

\* Where the frames of a message begin, and the connection after it.
WrittenAt(c, n) ==
  IF ~conn[c].started /\ lastAudio # None THEN nextT + Gap(n) ELSE nextT
LEMMA WriteDoes ==
  ASSUME SourceInv, NEW c \in Conns, NEW n \in Nat \ {0}, Write(c, n)
  PROVE  /\ WrittenAt(c, n) \in Nat /\ nextT <= WrittenAt(c, n)
         /\ nextT' = WrittenAt(c, n)
                     + Len(FramesFrom(c, n, WrittenAt(c, n))) * FrameDuration
         /\ buf' = Buffered(FramesFrom(c, n, WrittenAt(c, n)))
         /\ token' = (token \/ FramesFrom(c, n, WrittenAt(c, n)) # <<>>)
         /\ rem' = Remainder(c, n) /\ lastAudio' = now /\ active = c
         /\ origin' = IF lastAudio = None THEN now - n ELSE origin
         /\ UNCHANGED <<now, active, stream, inMap, closed>>
         /\ conn' \in [Conns -> ConnRecs]
         /\ \A d \in Conns \ {c} : conn'[d] = conn[d]
         /\ conn'[c].started /\ conn'[c].at = conn[c].at
         /\ conn'[c].received = conn[c].received + n
         /\ conn'[c].ahead = (conn[c].ahead \/ Ahead(c, n))
         /\ conn'[c].since = IF conn[c].started THEN conn[c].since ELSE now - n
<1>0. /\ conn \in [Conns -> ConnRecs] /\ now \in Nat /\ nextT \in Nat
      /\ lastAudio \in Nat \cup {None}
  BY DEF SourceInv, ConnTypes
<1>1. conn[c] \in ConnRecs BY <1>0
<1>2. Gap(n) \in Nat
  <2>1. Larger(0, now - n - lastAudio) \in Nat BY <1>0 DEF Larger, None
  <2>2. QED BY <2>1, RoundNear DEF Gap
<1>3. WrittenAt(c, n) \in Nat /\ nextT <= WrittenAt(c, n) BY <1>0, <1>2 DEF WrittenAt
<1> DEFINE k     == conn[c]
           begin == IF k.started THEN k.start ELSE now - n
           heard_ == k.received + n
           stall == now - begin - heard_ > StallThreshold
           x == [k EXCEPT
                   !.started = TRUE, !.received = heard_, !.ahead = @ \/ Ahead(c, n),
                   !.since = IF k.started THEN @ ELSE begin,
                   !.start = IF stall THEN Anchored(heard_) ELSE begin]
<1>4. /\ x \in ConnRecs /\ x.started /\ x.at = conn[c].at /\ x.received = conn[c].received + n
      /\ x.ahead = (conn[c].ahead \/ Ahead(c, n))
      /\ x.since = IF conn[c].started THEN conn[c].since ELSE now - n
  <2>1. heard_ \in Nat /\ begin \in Int BY <1>0, <1>1 DEF ConnRecs
  <2>2. (IF stall THEN Anchored(heard_) ELSE begin) \in Int
    BY <1>0, <2>1 DEF Anchored
  <2>3. Ahead(c, n) \in BOOLEAN BY DEF Ahead
  <2>4. (k.ahead \/ Ahead(c, n)) \in BOOLEAN OBVIOUS
  <2>5. (IF k.started THEN k.since ELSE begin) \in Int BY <1>1, <2>1 DEF ConnRecs
  <2>6. x \in ConnRecs BY <1>1, <2>1, <2>2, <2>4, <2>5 DEF ConnRecs
  <2>7. QED BY <1>1, <2>6 DEF ConnRecs
<1>5. conn' = [conn EXCEPT ![c] = x] BY DEF Write
<1>6. /\ nextT' = WrittenAt(c, n)
                  + Len(FramesFrom(c, n, WrittenAt(c, n))) * FrameDuration
      /\ buf' = Buffered(FramesFrom(c, n, WrittenAt(c, n)))
      /\ token' = (token \/ FramesFrom(c, n, WrittenAt(c, n)) # <<>>)
  BY DEF Write, WrittenAt, Signalled
<1>7. /\ rem' = Remainder(c, n) /\ lastAudio' = now /\ active = c
      /\ origin' = IF lastAudio = None THEN now - n ELSE origin
      /\ UNCHANGED <<now, active, stream, inMap, closed>>
  BY DEF Write, Accepts
<1> HIDE DEF x
<1>8. /\ conn' \in [Conns -> ConnRecs] /\ conn'[c] = x
      /\ \A d \in Conns \ {c} : conn'[d] = conn[d]
  BY <1>0, <1>4, <1>5
<1>9. /\ conn'[c].started /\ conn'[c].at = conn[c].at
      /\ conn'[c].received = conn[c].received + n
      /\ conn'[c].ahead = (conn[c].ahead \/ Ahead(c, n))
      /\ conn'[c].since = IF conn[c].started THEN conn[c].since ELSE now - n
  <2> HIDE DEF k, begin, heard_, stall
  <2>0. conn'[c] = x BY <1>8
  <2>1. conn'[c].started BY <1>4, <2>0
  <2>2. conn'[c].at = conn[c].at BY <1>4, <2>0
  <2>3. conn'[c].received = conn[c].received + n BY <1>4, <2>0
  <2>4. conn'[c].ahead = (conn[c].ahead \/ Ahead(c, n)) BY <1>4, <2>0
  <2>5. conn'[c].since = IF conn[c].started THEN conn[c].since ELSE now - n BY <1>4, <2>0
  <2>6. QED BY <2>1, <2>2, <2>3, <2>4, <2>5
<1> HIDE DEF k, begin, heard_, stall
<1>10. QED BY <1>3, <1>6, <1>7, <1>8, <1>9

\* One more connection that has sent audio: one more gap.
LEMMA SlackGrows ==
  ASSUME NEW c \in Conns, conn'[c].started,
         \A d \in Conns \ {c} : conn'[d].started = conn[d].started
  PROVE  /\ Reconnects \in Int /\ Slack \in Int /\ Slack' \in Int
         /\ conn[c].started => Slack' = Slack
         /\ ~conn[c].started => Slack' = Slack + FrameDuration
         /\ (\A d \in Conns : ~conn[d].started) => Slack' = 0
<1> DEFINE S == {d \in Conns : conn[d].started}
           T == {d \in Conns : conn'[d].started}
           F == FrameDuration
<1>0. F \in Int BY IngestAssumption
<1>1. IsFiniteSet(S) /\ IsFiniteSet(T)
  <2>1. S \subseteq Conns /\ T \subseteq Conns OBVIOUS
  <2>2. QED BY <2>1, IngestAssumption, FS_Subset
<1>2. T = S \cup {c} OBVIOUS
<1>3. Cardinality(S) \in Nat /\ Cardinality(T) \in Nat BY <1>1, FS_CardinalityType
<1>4. c \in S => T = S BY <1>2
<1>5. c \notin S => Cardinality(T) = Cardinality(S) + 1 BY <1>1, <1>2, FS_AddElement
<1>6. c \in S <=> conn[c].started OBVIOUS
<1>7. S = {} => Cardinality(S) = 0 BY FS_EmptySet
<1>8. Slack = (Cardinality(S) - 1) * F /\ Slack' = (Cardinality(T) - 1) * F
      /\ Reconnects = Cardinality(S) - 1
  BY DEF Slack, Reconnects
<1>9. (\A d \in Conns : ~conn[d].started) => S = {} OBVIOUS
<1> HIDE DEF S, T, F
<1>10. Reconnects \in Int /\ Slack \in Int /\ Slack' \in Int BY <1>0, <1>3, <1>8
<1>11. conn[c].started => Slack' = Slack BY <1>4, <1>6, <1>8
<1>12. ASSUME ~conn[c].started PROVE Slack' = Slack + F
  <2>1. Cardinality(T) - 1 = (Cardinality(S) - 1) + 1 BY <1>3, <1>5, <1>6, <1>12
  <2> DEFINE a == Cardinality(S) - 1
  <2>2. a \in Int BY <1>3
  <2>3. Slack = a * F /\ Slack' = (a + 1) * F BY <1>8, <2>1
  <2> HIDE DEF a
  <2>4. QED BY <1>0, <2>2, <2>3
<1>13. ASSUME \A d \in Conns : ~conn[d].started PROVE Slack' = 0
  <2>1. Cardinality(T) - 1 = 0 BY <1>5, <1>6, <1>7, <1>9, <1>13
  <2>2. QED BY <1>0, <1>8, <2>1
<1>14. QED BY <1>10, <1>11, <1>12, <1>13 DEF F

LEMMA WriteKeeps ==
  ASSUME SourceInv, NEW c \in Conns, NEW n \in Nat \ {0}, Write(c, n)
  PROVE  SourceInv' /\ FramesUnmixed
<1> DEFINE t   == WrittenAt(c, n)
           new == FramesFrom(c, n, t)
<1>0. /\ conn \in [Conns -> ConnRecs] /\ now \in Nat /\ nextT \in Nat /\ origin \in Int
      /\ lastAudio \in Nat \cup {None} /\ rem \in Partials /\ buf \in Seq(Frames)
      /\ FrameDuration \in Nat \ {0}
  BY IngestAssumption DEF SourceInv, ConnTypes, FrameTypes
<1>1. /\ t \in Nat /\ nextT <= t
      /\ nextT' = t + Len(new) * FrameDuration /\ buf' = Buffered(new)
      /\ token' = (token \/ new # <<>>)
      /\ rem' = Remainder(c, n) /\ lastAudio' = now /\ active = c
      /\ origin' = IF lastAudio = None THEN now - n ELSE origin
      /\ UNCHANGED <<now, active, stream, inMap, closed>>
  BY WriteDoes
<1>2. /\ conn' \in [Conns -> ConnRecs]
      /\ \A d \in Conns \ {c} : conn'[d] = conn[d]
      /\ conn'[c].started /\ conn'[c].at = conn[c].at
      /\ conn'[c].received = conn[c].received + n
      /\ conn'[c].ahead = (conn[c].ahead \/ Ahead(c, n))
      /\ conn'[c].since = IF conn[c].started THEN conn[c].since ELSE now - n
  BY WriteDoes
<1> HIDE DEF t
<1>3. /\ new \in Seq(Frames) /\ Len(new) \in Nat /\ rem' \in Partials
      /\ Len(new) * FrameDuration + rem'.len = rem.len + n
      /\ \A i \in 1 .. Len(new) : new[i].from \subseteq rem.from \cup {c} /\ c \in new[i].from
      /\ rem'.from \subseteq rem.from \cup {c}
  BY <1>1, FramesMade DEF SourceInv
<1> HIDE DEF new
<1>4. InLine' /\ buf' \in Seq(Frames) /\ Len(buf') <= BufferFrames /\ nextT' \in Nat
  BY <1>1, PushInLine DEF new, stream
<1>5. ConnTypes' BY <1>0, <1>1, <1>2, <1>3, <1>4 DEF ConnTypes
<1>6. FrameTypes' BY <1>1, <1>4 DEF SourceInv, FrameTypes, stream
<1>7. FlagTypes' BY <1>1 DEF SourceInv, FlagTypes, stream
<1>8. Woken'
  <2>1. buf' # <<>> => buf # <<>> \/ new # <<>> BY <1>0, <1>1, <1>3, BufferedEnd
  <2>2. QED BY <1>1, <2>1 DEF SourceInv, Woken, stream
<1>9. OwnPartial' BY <1>1, <1>3 DEF SourceInv, OwnPartial
<1>10. Fresh'
  <2>1. conn[c].at \notin {"new", "found"} BY DEF Write
  <2>2. \A d \in Conns : ~conn'[d].started => conn'[d].received = 0
    BY <1>2 DEF SourceInv, Fresh
  <2>3. \A d \in Conns : conn'[d].at \in {"new", "found"} => ~conn'[d].started /\ active' # d
    BY <1>1, <1>2, <2>1 DEF SourceInv, Fresh
  <2>4. lastAudio' <= now' /\ lastAudio' # None BY <1>0, <1>1 DEF None
  <2>5. QED BY <1>1, <1>2, <2>2, <2>3, <2>4 DEF Fresh
<1>11. OnTime'
  <2> SUFFICES ASSUME InTime'
               PROVE  /\ 2 * nextT' <= 2 * (lastAudio' - origin') + Slack'
                      /\ 2 * (nextT' + rem'.len)
                           <= 2 * ((conn'[c].since + conn'[c].received) - origin') + Slack'
                      /\ conn'[c].received <= now' - conn'[c].since
    BY <1>1 DEF OnTime
  <2>1. /\ Slack \in Int /\ Slack' \in Int
        /\ conn[c].started => Slack' = Slack
        /\ ~conn[c].started => Slack' = Slack + FrameDuration
        /\ (\A d \in Conns : ~conn[d].started) => Slack' = 0
    BY <1>2, SlackGrows
  <2>2. InTime /\ ~Ahead(c, n) BY <1>2 DEF InTime
  <2>3. conn[c].received \in Nat /\ conn[c].since \in Int BY <1>0 DEF ConnRecs
  <2>4. conn[c].received + n <= now - conn[c].since BY <1>0, <2>2, <2>3 DEF Ahead
  <2>5. rem.len \in Nat /\ rem'.len \in Nat BY <1>0, <1>3 DEF Partials
  <2>6. nextT' + rem'.len = t + rem.len + n
    <3> DEFINE a == Len(new) * FrameDuration
    <3>1. a \in Nat BY <1>0, <1>3
    <3>2. nextT' = t + a /\ a + rem'.len = rem.len + n BY <1>1, <1>3
    <3>3. t \in Nat BY <1>1
    <3> HIDE DEF a
    <3>4. QED BY <2>5, <3>1, <3>2, <3>3
  <2>7. CASE conn[c].started
    <3>1. lastAudio # None BY <2>7 DEF SourceInv, Fresh
    <3>2. t = nextT /\ origin' = origin BY <1>1, <2>7, <3>1 DEF t, WrittenAt
    <3>3. 2 * (nextT + rem.len) <= 2 * ((conn[c].since + conn[c].received) - origin) + Slack
      BY <1>1, <2>2, <2>7 DEF SourceInv, OnTime
    <3>4. 2 * (nextT' + rem'.len) <= 2 * ((conn'[c].since + conn'[c].received) - origin') + Slack'
      <4>1. conn'[c].since = conn[c].since /\ conn'[c].received = conn[c].received + n
            /\ Slack' = Slack
        BY <1>2, <2>1, <2>7
      <4>2. 2 * (nextT + rem.len + n) <= 2 * ((conn[c].since + conn[c].received + n) - origin) + Slack
        <5> DEFINE a == nextT + rem.len
                   b == (conn[c].since + conn[c].received) - origin
                   s == Slack
        <5>1. a \in Int /\ b \in Int /\ s \in Int BY SMTT(30), <1>0, <2>1, <2>3, <2>5
        <5>2. nextT + rem.len + n = a + n
              /\ (conn[c].since + conn[c].received + n) - origin = b + n
          BY <1>0, <2>3, <2>5
        <5>3. 2 * a <= 2 * b + s BY <3>3
        <5> HIDE DEF a, b, s
        <5>4. 2 * (a + n) <= 2 * (b + n) + s BY <5>1, <5>3
        <5>5. QED BY <5>2, <5>4 DEF s
      <4>3. QED BY <1>0, <2>3, <2>6, <3>2, <4>1, <4>2
    <3>5. conn'[c].received <= now' - conn'[c].since BY <1>1, <1>2, <2>4, <2>7
    <3>6. 2 * nextT' <= 2 * (lastAudio' - origin') + Slack'
      <4>1. conn'[c].since + conn'[c].received <= now /\ conn'[c].since \in Int
            /\ conn'[c].received \in Int
        BY <1>0, <1>2, <2>3, <2>4, <2>7
      <4>2. lastAudio' = now /\ origin' = origin BY <1>1, <3>2
      <4> DEFINE a == nextT'
                 l == rem'.len
                 b == conn'[c].since + conn'[c].received
                 o == origin'
                 s == Slack'
      <4>3. /\ a \in Int /\ l \in Nat /\ b \in Int /\ o \in Int /\ s \in Int
            /\ b <= now /\ now \in Nat
        BY SMTT(30), <1>0, <1>4, <2>1, <2>5, <4>1, <4>2
      <4>4. 2 * (a + l) <= 2 * (b - o) + s BY <3>4
      <4> HIDE DEF a, l, b, o, s
      <4>5. 2 * a <= 2 * (now - o) + s BY <4>3, <4>4
      <4>6. QED BY <4>2, <4>5 DEF a, o, s
    <3>7. QED BY <3>4, <3>5, <3>6
  <2>8. CASE ~conn[c].started
    <3>1. conn[c].received = 0 /\ rem.len = 0 /\ lastAudio <= conn[c].since
      BY <1>1, <2>8 DEF SourceInv, Fresh
    <3>2. conn'[c].since = now - n /\ conn'[c].received = n
      BY <1>2, <2>8, <3>1
    <3>3. conn'[c].received <= now' - conn'[c].since BY <1>0, <1>1, <3>2
    <3>4. 2 * (nextT' + rem'.len) <= 2 * (now - origin') + Slack'
      <4>1. CASE lastAudio = None
        <5>1. t = nextT /\ nextT = 0 /\ Slack' = 0
          BY <2>1, <4>1 DEF t, WrittenAt, SourceInv, Fresh
        <5>2. QED BY <1>0, <1>1, <2>6, <3>1, <4>1, <5>1
      <4>2. CASE lastAudio # None
        <5>1. t = nextT + Gap(n) BY <2>8, <4>2 DEF t, WrittenAt
        <5>2. now - n - lastAudio \in Nat BY <1>0, <2>3, <2>4, <3>1, <4>2
        <5>3. Larger(0, now - n - lastAudio) = now - n - lastAudio BY <5>2 DEF Larger
        <5>4. Gap(n) \in Nat /\ 2 * Gap(n) <= 2 * (now - n - lastAudio) + FrameDuration
          BY <5>2, <5>3, RoundNear DEF Gap
        <5>5. 2 * nextT <= 2 * (lastAudio - origin) + Slack
          BY <2>2, <4>2 DEF SourceInv, OnTime
        <5>6. origin' = origin /\ Slack' = Slack + FrameDuration BY <1>1, <2>1, <2>8, <4>2
        <5>7. QED BY <1>0, <2>1, <2>6, <3>1, <4>2, <5>1, <5>4, <5>5, <5>6
      <4>3. QED BY <4>1, <4>2
    <3>5. origin' \in Int BY <1>0, <1>1
    <3>6. 2 * nextT' <= 2 * (now - origin') + Slack'
      <4> DEFINE a == nextT'
                 l == rem'.len
                 b == now - origin'
                 s == Slack'
      <4>1. /\ a \in Int /\ l \in Nat /\ b \in Int /\ s \in Int
            /\ 2 * (a + l) <= 2 * b + s
        BY <1>0, <1>4, <2>1, <2>5, <3>4, <3>5
      <4> HIDE DEF a, l, b, s
      <4>2. 2 * a <= 2 * b + s BY <4>1
      <4>3. QED BY <4>2 DEF a, b, s
    <3>7. conn'[c].since + conn'[c].received = now BY <1>0, <3>2
    <3>8. lastAudio' = now BY <1>1
    <3>9. 2 * nextT' <= 2 * (lastAudio' - origin') + Slack' BY <3>6, <3>8
    <3>10. 2 * (nextT' + rem'.len)
             <= 2 * ((conn'[c].since + conn'[c].received) - origin') + Slack'
      <4> DEFINE b == conn'[c].since + conn'[c].received
      <4>1. b = now BY <3>7
      <4> HIDE DEF b
      <4>2. 2 * (nextT' + rem'.len) <= 2 * (b - origin') + Slack' BY <3>4, <4>1
      <4>3. QED BY <4>2 DEF b
    <3>11. QED BY <3>3, <3>9, <3>10
  <2>9. QED BY <2>7, <2>8
<1>12. FramesUnmixed
  <2> SUFFICES ASSUME NEW i \in 1 .. Len(buf'), buf'[i].t >= nextT
               PROVE  buf'[i].from = {active}
    BY DEF FramesUnmixed
  <2>1. Len(buf') \in Nat /\ Len(buf) \in Nat BY <1>0, <1>4
  <2>2. PICK k \in 0 .. Len(buf \o new) :
           /\ Len(buf') = Len(buf \o new) - k
           /\ \A j \in 1 .. Len(buf') : buf'[j] = (buf \o new)[j + k]
    BY ZenonT(40), <1>0, <1>1, <1>3, BufferedEnd
  <2>3. Len(buf \o new) = Len(buf) + Len(new) BY <1>0, <1>3
  <2>4. i + k \in 1 .. Len(buf) + Len(new) /\ buf'[i] = (buf \o new)[i + k]
    BY <1>3, <2>1, <2>2, <2>3
  <2>5. CASE i + k \in 1 .. Len(buf)
    <3>1. buf'[i] = buf[i + k] BY <1>0, <1>3, <2>4, <2>5
    <3>2. FrameEnd(buf[i + k]) <= nextT /\ buf[i + k] \in Frames
      BY <1>0, <2>5 DEF SourceInv, InLine
    <3>3. QED BY <1>0, <3>1, <3>2 DEF FrameEnd, Frames
  <2>6. CASE i + k \notin 1 .. Len(buf)
    <3>1. i + k - Len(buf) \in 1 .. Len(new) /\ buf'[i] = new[i + k - Len(buf)]
      <4>1. i + k - Len(buf) \in 1 .. Len(new) BY <1>3, <2>1, <2>4, <2>6
      <4>2. (buf \o new)[i + k] = new[i + k - Len(buf)] BY <1>0, <1>3, <2>1, <2>4, <2>6
      <4>3. QED BY <2>4, <4>1, <4>2
    <3>2. rem.from \subseteq {c} BY <1>1 DEF SourceInv, OwnPartial
    <3>3. QED BY <1>1, <1>3, <3>1, <3>2
  <2>7. QED BY <2>5, <2>6
<1>13. QED BY <1>4, <1>5, <1>6, <1>7, <1>8, <1>9, <1>10, <1>11, <1>12 DEF SourceInv

-----------------------------------------------------------------------------
(* The consumer and the hub *)

\* Steps that leave the connections and the clock alone.
LEMMA LineKeeps ==
  ASSUME SourceInv, UNCHANGED <<now, conn, active, timeline>>,
         FrameTypes', FlagTypes', Woken', InLine'
  PROVE  SourceInv'
<1>1. ConnTypes' /\ OwnPartial' /\ Fresh'
  BY DEF SourceInv, ConnTypes, OwnPartial, Fresh, timeline
<1>2. OnTime' BY DEF SourceInv, OnTime, InTime, Slack, Reconnects, timeline
<1>3. QED BY <1>1, <1>2 DEF SourceInv

LEMMA PumpKeeps ==
  ASSUME SourceInv, Start \/ Cancel \/ Pump \/ PumpEnds \/ Remove \/ Close
  PROVE  SourceInv'
<1>0. UNCHANGED <<now, conn, active, timeline>>
  BY DEF Start, Cancel, Pump, Poll, Park, Deliver, Wake, PumpEnds, Remove, Close
<1>1. FrameTypes /\ FlagTypes /\ Woken /\ InLine BY DEF SourceInv
<1>2. nextT' = nextT BY <1>0 DEF timeline
<1>3. CASE Start \/ Cancel \/ Park \/ Wake \/ Remove \/ Close
  <2>1. UNCHANGED <<buf, hand, last>> BY <1>3 DEF Start, Cancel, Park, Wake, Remove, Close, stream
  <2>2. FrameTypes' BY <1>1, <2>1 DEF FrameTypes
  <2>3. FlagTypes'
    BY <1>1, <1>3, <2>1 DEF FlagTypes, Start, Cancel, Park, Wake, Remove, Close, stream
  <2>4. Woken' BY <1>1, <1>3, <2>1 DEF Woken, Start, Cancel, Park, Wake, Remove, Close, stream
  <2>5. InLine' BY <1>1, <1>2, <2>1 DEF InLine, FrameEnd
  <2>6. QED BY <1>0, <2>2, <2>3, <2>4, <2>5, LineKeeps
<1>4. CASE PumpEnds
  <2>1. UNCHANGED <<buf, last>> /\ hand' = <<>> BY <1>4 DEF PumpEnds
  <2>2. FrameTypes' BY <1>1, <2>1 DEF FrameTypes
  <2>3. FlagTypes' /\ Woken' BY <1>1, <1>4 DEF FlagTypes, Woken, PumpEnds
  <2>4. InLine' BY <1>1, <1>2, <2>1 DEF InLine, FrameEnd
  <2>5. QED BY <1>0, <2>2, <2>3, <2>4, LineKeeps
<1>5. CASE Deliver
  <2>1. UNCHANGED buf /\ hand' = <<>> /\ last' = FrameEnd(hand[1]) /\ hand # <<>>
    BY <1>1, <1>5 DEF Deliver, FlagTypes
  <2>2. 1 \in 1 .. Len(hand) /\ hand[1] \in Frames BY <1>1, <2>1 DEF FrameTypes
  <2>3. last' \in Int BY <2>1, <2>2, IngestAssumption DEF FrameEnd, Frames
  <2>4. FrameTypes' BY <1>1, <2>1, <2>3 DEF FrameTypes
  <2>5. FlagTypes' /\ Woken' BY <1>1, <1>5 DEF FlagTypes, Woken, Deliver
  <2>6. /\ FrameEnd(hand[1]) <= nextT
        /\ \A i \in 1 .. Len(buf) : FrameEnd(hand[1]) <= buf[i].t
    BY <1>1, <2>2 DEF InLine
  <2>7. InLine' BY <1>1, <1>2, <2>1, <2>6 DEF InLine, FrameEnd
  <2>8. QED BY <1>0, <2>4, <2>5, <2>7, LineKeeps
<1>6. CASE Poll
  <2>1. hand = <<>> /\ UNCHANGED last BY <1>1, <1>6 DEF Poll, FlagTypes
  <2>2. CASE buf = <<>>
    <3>1. UNCHANGED <<buf, hand>> BY <1>6, <2>2 DEF Poll
    <3>2. FrameTypes' BY <1>1, <2>1, <3>1 DEF FrameTypes
    <3>3. FlagTypes' /\ Woken' BY <1>1, <1>6, <2>1, <2>2 DEF FlagTypes, Woken, Poll
    <3>4. InLine' BY <1>1, <1>2, <2>1, <3>1 DEF InLine, FrameEnd
    <3>5. QED BY <1>0, <3>2, <3>3, <3>4, LineKeeps
  <2>3. CASE buf # <<>>
    <3>1. hand' = <<Head(buf)>> /\ buf' = Tail(buf) /\ pump' = "send" /\ UNCHANGED <<token, ctxDone, inMap, closed>>
      BY <1>6, <2>3 DEF Poll
    <3>2. buf \in Seq(Frames) /\ Len(buf) \in Nat /\ Len(buf) <= BufferFrames BY <1>1 DEF FrameTypes
    <3>3. /\ buf' \in Seq(Frames) /\ Len(buf') = Len(buf) - 1 /\ Head(buf) = buf[1]
          /\ \A i \in 1 .. Len(buf') : i + 1 \in 1 .. Len(buf) /\ buf'[i] = buf[i + 1]
          /\ 1 \in 1 .. Len(buf)
      BY <2>3, <3>1, <3>2
    <3>4. hand' \in Seq(Frames) /\ Len(hand') = 1 /\ hand'[1] = buf[1] /\ hand' # <<>>
      BY <3>1, <3>2, <3>3
    <3>5. FrameTypes'
      <4>1. Len(buf') <= BufferFrames BY <3>2, <3>3, IngestAssumption DEF IngestOptions
      <4>2. QED BY <1>1, <2>1, <3>3, <3>4, <4>1 DEF FrameTypes
    <3>6. FlagTypes' /\ Woken' BY <1>1, <3>1, <3>4 DEF FlagTypes, Woken
    <3>7. \A i, j \in 1 .. Len(buf') : i < j => FrameEnd(buf'[i]) <= buf'[j].t
      <4> TAKE i, j \in 1 .. Len(buf')
      <4> HAVE i < j
      <4>1. i + 1 \in 1 .. Len(buf) /\ j + 1 \in 1 .. Len(buf) /\ i + 1 < j + 1
        BY <3>2, <3>3
      <4>2. QED BY <1>1, <3>3, <4>1 DEF InLine
    <3>8. \A i \in 1 .. Len(buf') : 1 < i + 1 BY <3>2, <3>3
    <3>9. \A i \in 1 .. Len(buf') : FrameEnd(buf[1]) <= buf'[i].t
      BY <1>1, <3>3, <3>8 DEF InLine
    <3>10. \A i \in 1 .. Len(buf') : FrameEnd(buf'[i]) <= nextT /\ last <= buf'[i].t
      BY <1>1, <3>3 DEF InLine
    <3>11. last <= buf[1].t /\ FrameEnd(buf[1]) <= nextT /\ last <= nextT
      BY <1>1, <3>3 DEF InLine
    <3>12. \A h \in 1 .. Len(hand') : hand'[h] = buf[1] BY <3>4
    <3>13. InLine' BY <1>2, <2>1, <3>7, <3>9, <3>10, <3>11, <3>12 DEF InLine, FrameEnd
    <3>14. QED BY <1>0, <3>5, <3>6, <3>13, LineKeeps
  <2>4. QED BY <2>2, <2>3
<1>7. QED BY <1>3, <1>4, <1>5, <1>6 DEF Pump

-----------------------------------------------------------------------------
(* IngestSource *)

\* A step of the source, whatever the length of the message it writes.
SourceStep ==
  \/ \E c \in Conns : Serve(c) \/ Disconnect(c) \/ \E n \in Nat \ {0} : Write(c, n)
  \/ Tick \/ Start \/ Cancel \/ Pump \/ PumpEnds \/ Remove \/ Close

LEMMA SourceInvStep == SourceInv /\ SourceStep => SourceInv'
<1> SUFFICES ASSUME SourceInv, SourceStep PROVE SourceInv' OBVIOUS
<1>1. ASSUME NEW c \in Conns, Serve(c) \/ Disconnect(c) PROVE SourceInv'
  BY <1>1, ServeKeeps, AttachKeeps, DetachKeeps DEF Serve
<1>2. ASSUME NEW c \in Conns, NEW n \in Nat \ {0}, Write(c, n) PROVE SourceInv'
  BY <1>2, WriteKeeps
<1>3. CASE Tick BY <1>3, TickKeeps
<1>4. CASE Start \/ Cancel \/ Pump \/ PumpEnds \/ Remove \/ Close BY <1>4, PumpKeeps
<1>5. QED BY <1>1, <1>2, <1>3, <1>4 DEF SourceStep

LEMMA SourceInvNext == SourceInv /\ [Next]_vars => SourceInv'
<1> SUFFICES ASSUME SourceInv, [Next]_vars PROVE SourceInv' OBVIOUS
<1>1. Next => SourceStep
  <2>1. Sizes \subseteq Nat \ {0} BY IngestAssumption
  <2>2. QED BY <2>1 DEF Next, SourceStep
<1>2. CASE UNCHANGED vars
  <2>1. UNCHANGED <<now, conn, active, timeline>> BY <1>2 DEF vars
  <2>2. FrameTypes' BY <1>2 DEF SourceInv, FrameTypes, vars, stream
  <2>3. FlagTypes' BY <1>2 DEF SourceInv, FlagTypes, vars, stream
  <2>4. Woken' BY <1>2 DEF SourceInv, Woken, vars, stream
  <2>5. InLine' BY <1>2 DEF SourceInv, InLine, FrameEnd, vars, stream, timeline
  <2>6. QED BY <2>1, <2>2, <2>3, <2>4, <2>5, LineKeeps
<1>3. QED BY <1>1, <1>2, SourceInvStep

\* What the clock promises, in any state of the invariant.
LEMMA ClockIsKept == SourceInv => ClockKept
<1> SUFFICES ASSUME SourceInv PROVE ClockKept OBVIOUS
<1>0. /\ buf \in Seq(Frames) /\ hand \in Seq(Frames) /\ Len(hand) <= 1
      /\ Len(buf) \in Nat /\ Len(hand) \in Nat
      /\ FrameDuration \in Nat \ {0} /\ nextT \in Nat /\ last \in Int /\ now \in Nat
      /\ lastAudio \in Nat \cup {None} /\ origin \in Int
  BY IngestAssumption DEF SourceInv, FrameTypes, ConnTypes
<1>1. Len(Line) = Len(hand) + Len(buf) /\ Line \in Seq(Frames) BY <1>0 DEF Line
<1>2. \A i \in 1 .. Len(Line) :
         \/ i \in 1 .. Len(hand) /\ Line[i] = hand[i]
         \/ i - Len(hand) \in 1 .. Len(buf) /\ Line[i] = buf[i - Len(hand)]
  BY <1>0, <1>1 DEF Line
<1>3. \A i, j \in 1 .. Len(Line) : i < j => FrameEnd(Line[i]) <= Line[j].t
  <2> TAKE i, j \in 1 .. Len(Line)
  <2> HAVE i < j
  <2>1. CASE i \in 1 .. Len(hand)
    <3>1. j - Len(hand) \in 1 .. Len(buf) /\ Line[j] = buf[j - Len(hand)] /\ Line[i] = hand[i]
      BY <1>0, <1>1, <1>2, <2>1
    <3>2. QED BY <2>1, <3>1 DEF SourceInv, InLine
  <2>2. CASE i \notin 1 .. Len(hand)
    <3>1. /\ i - Len(hand) \in 1 .. Len(buf) /\ Line[i] = buf[i - Len(hand)]
          /\ j - Len(hand) \in 1 .. Len(buf) /\ Line[j] = buf[j - Len(hand)]
          /\ i - Len(hand) < j - Len(hand)
      BY <1>0, <1>1, <1>2, <2>2
    <3>2. QED BY <3>1 DEF SourceInv, InLine
  <2>3. QED BY <2>1, <2>2
<1>4. \A i \in 1 .. Len(Line) : last <= Line[i].t /\ FrameEnd(Line[i]) <= nextT
  BY <1>2 DEF SourceInv, InLine
<1>5. Ascending
  <2>1. \A i \in 1 .. Len(Line) - 1 : i \in 1 .. Len(Line) /\ i + 1 \in 1 .. Len(Line) /\ i < i + 1
    BY <1>0, <1>1
  <2>2. \A i \in 1 .. Len(Line) - 1 : FrameEnd(Line[i]) <= Line[i + 1].t BY <1>3, <2>1
  <2>3. Line # <<>> => 1 \in 1 .. Len(Line) /\ Len(Line) \in 1 .. Len(Line) BY <1>0, <1>1
  <2>4. last <= nextT BY DEF SourceInv, InLine
  <2>5. QED BY <1>4, <2>2, <2>3, <2>4 DEF Ascending
<1>6. NeverAhead
  <2> SUFFICES ASSUME lastAudio # None, \A c \in Conns : ~conn[c].ahead
               PROVE  2 * nextT <= 2 * (now - origin) + Slack
    BY DEF NeverAhead, Slack
  <2>1. 2 * nextT <= 2 * (lastAudio - origin) + Slack BY DEF SourceInv, OnTime, InTime
  <2>2. lastAudio <= now /\ lastAudio \in Int BY <1>0 DEF SourceInv, Fresh
  <2>3. Slack \in Int
    <3>1. {c \in Conns : conn[c].started} \subseteq Conns OBVIOUS
    <3>2. Cardinality({c \in Conns : conn[c].started}) \in Nat
      BY <3>1, IngestAssumption, FS_Subset, FS_CardinalityType
    <3>3. Reconnects \in Int BY <3>2 DEF Reconnects
    <3>4. QED BY <1>0, <3>3 DEF Slack
  <2> HIDE DEF Slack
  <2>4. QED BY <1>0, <2>1, <2>2, <2>3
<1>7. QED BY <1>5, <1>6 DEF ClockKept

\* Only Write adds a frame that begins after the next T.
LEMMA UnmixedStep == SourceInv /\ [Next]_vars => FramesUnmixed
<1> SUFFICES ASSUME SourceInv, [Next]_vars, ~ \E c \in Conns, n \in Sizes : Write(c, n)
             PROVE  FramesUnmixed
  <2>1. Sizes \subseteq Nat \ {0} BY IngestAssumption
  <2>2. QED BY <2>1, WriteKeeps
<1>0. buf \in Seq(Frames) /\ nextT \in Nat /\ FrameDuration \in Nat \ {0}
  BY IngestAssumption DEF SourceInv, FrameTypes, ConnTypes
<1>1. \A i \in 1 .. Len(buf) : buf[i].t < nextT
  <2> TAKE i \in 1 .. Len(buf)
  <2>1. buf[i] \in Frames /\ FrameEnd(buf[i]) <= nextT BY <1>0 DEF SourceInv, InLine
  <2>2. QED BY <1>0, <2>1 DEF Frames, FrameEnd
<1>2. buf' = buf \/ (buf # <<>> /\ buf' = Tail(buf))
  <2>1. CASE UNCHANGED vars BY <2>1 DEF vars
  <2>2. ASSUME NEW c \in Conns, Serve(c) \/ Disconnect(c) PROVE buf' = buf
    BY <2>2 DEF Serve, Lookup, Attach, Kick, Evict, Detach, Disconnect
  <2>3. CASE Tick \/ Start \/ Cancel \/ Park \/ Deliver \/ Wake \/ PumpEnds \/ Remove \/ Close
    BY <2>3 DEF Tick, Start, Cancel, Park, Deliver, Wake, PumpEnds, Remove, Close
  <2>4. CASE Poll BY <2>4 DEF Poll
  <2>5. QED BY <2>1, <2>2, <2>3, <2>4 DEF Next, Pump
<1>3. \A i \in 1 .. Len(buf') : buf'[i].t < nextT
  <2>1. CASE buf' = buf BY <1>1, <2>1
  <2>2. CASE buf # <<>> /\ buf' = Tail(buf)
    <3>1. \A i \in 1 .. Len(buf') : i + 1 \in 1 .. Len(buf) /\ buf'[i] = buf[i + 1]
      BY <1>0, <2>2
    <3>2. QED BY <1>1, <3>1
  <2>3. QED BY <1>2, <2>1, <2>2
<1>4. \A i \in 1 .. Len(buf') : ~(buf'[i].t >= nextT)
  <2> TAKE i \in 1 .. Len(buf')
  <2>1. buf' \in Seq(Frames) BY <1>0, <1>2
  <2>2. buf'[i] \in Frames BY <2>1
  <2>3. buf'[i].t \in Nat BY <2>2 DEF Frames
  <2>4. QED BY <1>0, <1>3, <2>3
<1>5. QED BY <1>4 DEF FramesUnmixed

\* A pump that waits while frames are buffered has a notification to wake it.
THEOREM NoWakeupLost == Spec => []NoLostWakeup
<1>1. SourceInv => NoLostWakeup BY DEF SourceInv, Woken, NoLostWakeup
<1>2. QED BY <1>1, SourceInvInit, SourceInvNext, PTL DEF Spec

\* The consumer hears one line of frames on the session clock, each of one
\* connection, and the clock is never ahead of clients that send in time.
THEOREM FramesAlwaysKept == Spec => FramesKept
<1>1. SourceInv /\ [Next]_vars => ClockKept' /\ FramesUnmixed
  <2>1. SourceInv' => ClockKept' BY ClockIsKept, PTL
  <2>2. QED BY <2>1, SourceInvNext, UnmixedStep
<1>2. QED BY <1>1, SourceInvInit, SourceInvNext, PTL DEF Spec, FramesKept

-----------------------------------------------------------------------------
(* IngestClient *)

\* Messages are the times of their capture.
Rising(s)    == \A i, j \in 1 .. Len(s) : i < j => s[i] < s[j]
Below(s, m)  == \A i \in 1 .. Len(s) : s[i] < m
Before(s, u) == \A i \in 1 .. Len(s), j \in 1 .. Len(u) : s[i] < u[j]

ClientTypes ==
  /\ status \in [Pages -> Statuses] /\ sock \in [Pages -> Conns \cup {NoConn}]
  /\ buffer \in [Pages -> Seq(Nat)] /\ net \in [Conns -> Seq(Nat)] /\ heard \in Seq(Nat)

\* What was heard comes before what is on its way on the active connection, and
\* what is on its way before what the page keeps; nothing is on its way on a
\* connection that is not attached yet.
HeardOrder == Rising(heard) /\ Below(heard, now)
NetOrder ==
  \A c \in Conns :
    /\ Rising(net[c]) /\ Below(net[c], now)
    /\ active = c => Before(heard, net[c])
    /\ net[c] # <<>> => Attached(c)
PageOrder ==
  \A p \in Pages :
    /\ Rising(buffer[p]) /\ Below(buffer[p], now) /\ Before(heard, buffer[p])
    /\ \A c \in Conns : Before(net[c], buffer[p])
    /\ status[p] = "ready" => Attached(sock[p])

ClientInv == SourceInv /\ ClientTypes /\ HeardOrder /\ NetOrder /\ PageOrder

OnePage == \A p, q \in Pages : p = q

\* The end of a sequence keeps its order.
EndOf(u, s) == \E k \in Nat : \A i \in 1 .. Len(u) : i + k \in 1 .. Len(s) /\ u[i] = s[i + k]
LEMMA EndKeeps ==
  ASSUME NEW s \in Seq(Nat), NEW u \in Seq(Nat), EndOf(u, s)
  PROVE  /\ Rising(s) => Rising(u)
         /\ \A m \in Nat : Below(s, m) => Below(u, m)
         /\ \A x \in Seq(Nat) : Before(x, s) => Before(x, u)
         /\ \A x \in Seq(Nat) : Before(s, x) => Before(u, x)
<1>1. PICK k \in Nat : \A i \in 1 .. Len(u) : i + k \in 1 .. Len(s) /\ u[i] = s[i + k]
  BY DEF EndOf
<1>2. Len(u) \in Nat OBVIOUS
<1>3. ASSUME Rising(s) PROVE Rising(u)
  <2> SUFFICES ASSUME NEW i \in 1 .. Len(u), NEW j \in 1 .. Len(u), i < j PROVE u[i] < u[j]
    BY DEF Rising
  <2>1. i + k < j + k BY <1>2
  <2>2. QED BY <1>1, <1>3, <2>1 DEF Rising
<1>4. QED BY <1>1, <1>3 DEF Below, Before

LEMMA TailEnds ==
  ASSUME NEW s \in Seq(Nat), s # <<>>
  PROVE  /\ Tail(s) \in Seq(Nat) /\ EndOf(Tail(s), s) /\ Head(s) = s[1] /\ 1 \in 1 .. Len(s)
         /\ \A i \in 1 .. Len(Tail(s)) : i + 1 \in 1 .. Len(s) /\ Tail(s)[i] = s[i + 1]
<1>1. \A i \in 1 .. Len(Tail(s)) : i + 1 \in 1 .. Len(s) /\ Tail(s)[i] = s[i + 1] OBVIOUS
<1>2. EndOf(Tail(s), s) BY <1>1 DEF EndOf
<1>3. QED BY <1>1, <1>2

\* Messages added to a sequence.
LEMMA JoinKeeps ==
  ASSUME NEW s \in Seq(Nat), NEW u \in Seq(Nat)
  PROVE  /\ s \o u \in Seq(Nat) /\ (s \o u # <<>> => s # <<>> \/ u # <<>>)
         /\ Rising(s) /\ Rising(u) /\ Before(s, u) => Rising(s \o u)
         /\ \A m \in Nat : Below(s, m) /\ Below(u, m) => Below(s \o u, m)
         /\ \A x \in Seq(Nat) : Before(x, s) /\ Before(x, u) => Before(x, s \o u)
         /\ \A x \in Seq(Nat) : Before(s, x) /\ Before(u, x) => Before(s \o u, x)
<1> DEFINE w == s \o u
<1>1. w \in Seq(Nat) /\ Len(w) = Len(s) + Len(u) /\ Len(s) \in Nat /\ Len(u) \in Nat OBVIOUS
<1>2. \A i \in 1 .. Len(w) :
         \/ i \in 1 .. Len(s) /\ w[i] = s[i]
         \/ i - Len(s) \in 1 .. Len(u) /\ w[i] = u[i - Len(s)]
  BY <1>1
<1>3. w # <<>> => s # <<>> \/ u # <<>> BY <1>1
<1> HIDE DEF w
<1>4. ASSUME Rising(s), Rising(u), Before(s, u) PROVE Rising(w)
  <2> SUFFICES ASSUME NEW i \in 1 .. Len(w), NEW j \in 1 .. Len(w), i < j PROVE w[i] < w[j]
    BY DEF Rising
  <2>1. CASE j \in 1 .. Len(s)
    <3>1. i \in 1 .. Len(s) /\ w[i] = s[i] /\ w[j] = s[j] BY <1>1, <1>2, <2>1
    <3>2. QED BY <1>4, <2>1, <3>1 DEF Rising
  <2>2. CASE i \in 1 .. Len(s) /\ j \notin 1 .. Len(s)
    <3>1. w[i] = s[i] /\ j - Len(s) \in 1 .. Len(u) /\ w[j] = u[j - Len(s)]
      BY <1>1, <1>2, <2>2
    <3>2. QED BY <1>4, <2>2, <3>1 DEF Before
  <2>3. CASE i \notin 1 .. Len(s) /\ j \notin 1 .. Len(s)
    <3>1. /\ i - Len(s) \in 1 .. Len(u) /\ w[i] = u[i - Len(s)]
          /\ j - Len(s) \in 1 .. Len(u) /\ w[j] = u[j - Len(s)] /\ i - Len(s) < j - Len(s)
      BY <1>1, <1>2, <2>3
    <3>2. QED BY <1>4, <3>1 DEF Rising
  <2>4. i \notin 1 .. Len(s) => j \notin 1 .. Len(s) BY <1>1
  <2>5. QED BY <2>1, <2>2, <2>3, <2>4
<1>5. \A m \in Nat : Below(s, m) /\ Below(u, m) => Below(w, m) BY <1>2 DEF Below
<1>6. \A x \in Seq(Nat) : Before(x, s) /\ Before(x, u) => Before(x, w) BY <1>2 DEF Before
<1>7. \A x \in Seq(Nat) : Before(s, x) /\ Before(u, x) => Before(w, x) BY <1>2 DEF Before
<1>8. QED BY <1>1, <1>3, <1>4, <1>5, <1>6, <1>7 DEF w

\* One message.
LEMMA OneMessage ==
  ASSUME NEW m \in Nat
  PROVE  /\ <<m>> \in Seq(Nat) /\ Rising(<<m>>)
         /\ \A s \in Seq(Nat) : Append(s, m) = s \o <<m>>
         /\ \A s \in Seq(Nat) : Below(s, m) => Before(s, <<m>>)
         /\ \A s \in Seq(Nat) : (\A i \in 1 .. Len(s) : m < s[i]) => Before(<<m>>, s)
         /\ \A n \in Nat : m < n => Below(<<m>>, n)
<1>1. <<m>> \in Seq(Nat) /\ Len(<<m>>) = 1 /\ <<m>>[1] = m OBVIOUS
<1>2. \A s \in Seq(Nat) : Append(s, m) = s \o <<m>> OBVIOUS
<1>3. \A i \in 1 .. Len(<<m>>) : i = 1 BY <1>1
<1>4. Rising(<<m>>) BY <1>3 DEF Rising
<1>5. QED BY <1>1, <1>2, <1>3, <1>4 DEF Below, Before

\* Nothing is before or below what is empty.
LEMMA NoMessages ==
  /\ <<>> \in Seq(Nat) /\ Rising(<<>>) /\ (\A m : Below(<<>>, m))
  /\ \A s : Before(s, <<>>) /\ Before(<<>>, s)
BY DEF Rising, Below, Before

\* Time goes on.
LEMMA LaterBelow == \A s \in Seq(Nat), m \in Nat : Below(s, m) => Below(s, m + 1)
<1> TAKE s \in Seq(Nat), m \in Nat
<1> HAVE Below(s, m)
<1>1. \A i \in 1 .. Len(s) : s[i] \in Nat OBVIOUS
<1>2. QED BY <1>1 DEF Below

-----------------------------------------------------------------------------
(* The page and the server *)

\* The steps of a page that send nothing.
LEMMA PageKeeps ==
  ASSUME ClientInv, NEW p \in Pages,
         (\E c \in Conns : Dial(p, c)) \/ Replaced(p) \/ Dropped(p) \/ ClosePage(p)
  PROVE  ClientInv'
<1>0. ClientTypes /\ UNCHANGED <<vars, net, heard>>
  BY DEF ClientInv, Dial, Replaced, Dropped, ClosePage
<1>1. /\ UNCHANGED <<now, conn, active, timeline, buf, token, stream, inMap, closed>>
      /\ SourceInv
  BY <1>0 DEF vars, ClientInv
<1>2. SourceInv' BY <1>0, <1>1, SourceInvNext
<1>3. /\ status' \in [Pages -> Statuses] /\ sock' \in [Pages -> Conns \cup {NoConn}]
      /\ \A q \in Pages : status'[q] = "ready" => status[q] = "ready" /\ sock'[q] = sock[q]
  <2>1. CASE \E c \in Conns : Dial(p, c) BY <1>0, <2>1 DEF Dial, ClientTypes
  <2>2. CASE Replaced(p) BY <1>0, <2>2 DEF Replaced, ClientTypes, Statuses
  <2>3. CASE Dropped(p) BY <1>0, <2>3 DEF Dropped, ClientTypes, Statuses
  <2>4. CASE ClosePage(p) BY <1>0, <2>4 DEF ClosePage, ClientTypes, Statuses
  <2>5. QED BY <2>1, <2>2, <2>3, <2>4
<1>4. /\ buffer' \in [Pages -> Seq(Nat)]
      /\ \A q \in Pages : buffer'[q] = buffer[q] \/ buffer'[q] = <<>>
  <2>1. CASE UNCHANGED buffer BY <1>0, <2>1 DEF ClientTypes
  <2>2. CASE buffer' = [buffer EXCEPT ![p] = <<>>]
    BY <1>0, <2>2, NoMessages DEF ClientTypes
  <2>3. QED BY <2>1, <2>2 DEF Dial, Replaced, Dropped, ClosePage
<1>5. ClientTypes' BY <1>0, <1>3, <1>4 DEF ClientTypes
<1>6. HeardOrder' BY <1>0, <1>1 DEF ClientInv, HeardOrder
<1>7. NetOrder' BY <1>0, <1>1 DEF ClientInv, NetOrder, Attached
<1>8. PageOrder'
  <2> SUFFICES ASSUME NEW q \in Pages
               PROVE  /\ Rising(buffer'[q]) /\ Below(buffer'[q], now) /\ Before(heard, buffer'[q])
                      /\ \A c \in Conns : Before(net[c], buffer'[q])
                      /\ status'[q] = "ready" => Attached(sock'[q])
    BY <1>0, <1>1 DEF PageOrder, Attached
  <2>1. status'[q] = "ready" => Attached(sock'[q]) BY <1>3 DEF ClientInv, PageOrder
  <2>2. CASE buffer'[q] = buffer[q] BY <2>1, <2>2 DEF ClientInv, PageOrder
  <2>3. CASE buffer'[q] = <<>> BY <2>1, <2>3, NoMessages
  <2>4. QED BY <1>4, <2>2, <2>3
<1>9. QED BY <1>2, <1>5, <1>6, <1>7, <1>8 DEF ClientInv

\* An attached connection stays so, and only one that is found becomes active.
LEMMA AttachedStays ==
  ASSUME SourceInv, NEW c \in Conns,
         Lookup(c) \/ Attach(c) \/ Kick(c) \/ Evict(c) \/ Detach(c) \/ Disconnect(c)
  PROVE  /\ \A d \in Conns : Attached(d) => Attached(d)'
         /\ active' = active \/ (active' = c /\ ~Attached(c)) \/ active' = NoConn
         /\ now' = now
<1>0. ConnTypes /\ conn \in [Conns -> ConnRecs] BY DEF SourceInv, ConnTypes
<1>1. now' = now /\ (active' = active \/ (active' = c /\ conn[c].at = "found") \/ active' = NoConn)
  BY DEF Lookup, Attach, Kick, Evict, Detach, Disconnect
<1>2. conn[c].at = "found" => ~Attached(c) BY DEF Attached
<1>3. ASSUME Attached(c), ~Evict(c), ~Detach(c), ~Disconnect(c) PROVE FALSE
  BY <1>3 DEF Attached, Lookup, Attach, Kick
<1>4. CASE Evict(c) \/ Detach(c) \/ Disconnect(c)
  <2>1. PICK h \in {"ending", "gone", "left"} : conn' = [conn EXCEPT ![c].at = h]
    BY <1>4 DEF Evict, Detach, Disconnect
  <2>2. h \in Handlers BY DEF Handlers
  <2>3. \A d \in Conns : conn'[d].at = IF d = c THEN h ELSE conn[d].at
    BY ONLY <1>0, <2>1, <2>2, HandlerGoes
  <2>4. QED BY <1>1, <1>2, <2>3 DEF Attached
<1>5. CASE Lookup(c) \/ Attach(c) \/ Kick(c)
  <2>1. \A d \in Conns : d # c => conn'[d].at = conn[d].at
    <3>1. CASE Lookup(c) \/ Attach(c) BY <1>0, <3>1 DEF Lookup, Attach
    <3>2. CASE Kick(c) BY <1>0, <3>2, KickGoes
    <3>3. QED BY <1>5, <3>1, <3>2
  <2>2. ~Attached(c) BY <1>5 DEF Attached, Lookup, Attach, Kick
  <2>3. QED BY <1>1, <1>2, <2>1, <2>2 DEF Attached
<1>6. QED BY <1>4, <1>5

\* Steps of the server and of the network that move no message.
LEMMA ServerKeeps ==
  ASSUME ClientInv, NEW c \in Conns, Cut(c) \/ ServeDialled(c) \/ Noticed(c)
  PROVE  ClientInv'
<1>0. ClientTypes /\ SourceInv /\ UNCHANGED <<status, sock, buffer, net, heard>>
  BY DEF ClientInv, Cut, ServeDialled, Noticed, page, link
<1>1. /\ \A d \in Conns : Attached(d) => Attached(d)'
      /\ active' = active \/ (active' = c /\ ~Attached(c)) \/ active' = NoConn
      /\ now' = now /\ SourceInv'
  <2>1. CASE Cut(c)
    <3>1. UNCHANGED vars BY <2>1 DEF Cut
    <3>2. UNCHANGED <<conn, active, now>> BY <3>1 DEF vars
    <3>3. QED BY <1>0, <3>1, <3>2, SourceInvNext DEF Attached
  <2>2. CASE ServeDialled(c) \/ Noticed(c)
    <3>1. Lookup(c) \/ Attach(c) \/ Kick(c) \/ Evict(c) \/ Detach(c) \/ Disconnect(c)
      BY <2>2 DEF ServeDialled, Noticed
    <3>2. SourceInv' BY <1>0, <3>1, ServeKeeps, AttachKeeps, DetachKeeps
    <3>3. QED BY <1>0, <3>1, <3>2, AttachedStays
  <2>3. QED BY <2>1, <2>2
<1>2. ClientTypes' BY <1>0 DEF ClientTypes
<1>3. HeardOrder' BY <1>0, <1>1 DEF ClientInv, HeardOrder
<1>4. NetOrder'
  <2> SUFFICES ASSUME NEW d \in Conns
               PROVE  /\ Rising(net[d]) /\ Below(net[d], now)
                      /\ active' = d => Before(heard, net[d])
                      /\ net[d] # <<>> => Attached(d)'
    BY <1>0, <1>1 DEF NetOrder
  <2>1. /\ Rising(net[d]) /\ Below(net[d], now) /\ (net[d] # <<>> => Attached(d))
        /\ active = d => Before(heard, net[d])
    BY DEF ClientInv, NetOrder
  <2>2. NoConn \notin Conns BY IngestAssumption
  <2>3. ASSUME active' = d, active # d PROVE Before(heard, net[d])
    BY <1>1, <2>1, <2>2, <2>3, NoMessages
  <2>4. QED BY <1>1, <2>1, <2>3
<1>5. PageOrder'
  <2>1. \A p \in Pages : status[p] = "ready" => sock[p] \in Conns
    BY <1>0 DEF ClientInv, PageOrder, ClientTypes, Attached
  <2>2. \A p \in Pages : status[p] = "ready" => (Attached(sock[p]))'
    BY <1>0, <1>1, <2>1 DEF ClientInv, PageOrder, Attached
  <2>3. QED BY <1>0, <1>1, <2>2 DEF ClientInv, PageOrder
<1>6. QED BY <1>0, <1>1, <1>2, <1>3, <1>4, <1>5 DEF ClientInv

\* What a page sends on its connection.
LEMMA SendKeeps ==
  ASSUME OnePage, ClientInv, NEW p \in Pages, NEW c \in Conns, Attached(c),
         NEW msgs \in Seq(Nat), Rising(msgs), Below(msgs, now'), now' \in Nat, now <= now',
         Before(heard, msgs), \A d \in Conns : Before(net[d], msgs),
         UNCHANGED <<conn, active, heard, sock>>, SourceInv',
         net' = Sent(c, msgs), status' \in [Pages -> Statuses],
         buffer' \in [Pages -> Seq(Nat)], buffer'[p] = <<>>,
         status'[p] = "ready" => Attached(sock[p])
  PROVE  ClientInv'
<1>0. ClientTypes /\ now \in Nat BY DEF ClientInv, SourceInv, ConnTypes
<1>1. \A s \in Seq(Nat) : Below(s, now) => Below(s, now')
  <2> TAKE s \in Seq(Nat)
  <2> HAVE Below(s, now)
  <2>1. \A i \in 1 .. Len(s) : s[i] \in Nat OBVIOUS
  <2>2. QED BY <1>0, <2>1 DEF Below
<1>2. \A d \in Conns :
        /\ net'[d] \in Seq(Nat) /\ Rising(net'[d]) /\ Below(net'[d], now')
        /\ active = d => Before(heard, net'[d])
        /\ net'[d] # <<>> => Attached(d)
  <2> TAKE d \in Conns
  <2>1. /\ net[d] \in Seq(Nat) /\ heard \in Seq(Nat)
        /\ Rising(net[d]) /\ Below(net[d], now') /\ (net[d] # <<>> => Attached(d))
        /\ active = d => Before(heard, net[d])
    BY <1>0, <1>1 DEF ClientInv, NetOrder, ClientTypes
  <2>2. net'[d] = net[d] \/ (d = c /\ net'[d] = net[d] \o msgs)
    BY <1>0 DEF Sent, ClientTypes
  <2>3. CASE net'[d] = net[d] BY <2>1, <2>3
  <2>4. CASE d = c /\ net'[d] = net[d] \o msgs
    <3> DEFINE s == net[d]
    <3>1. s \in Seq(Nat) /\ Rising(s) /\ Below(s, now') /\ Before(s, msgs) BY <2>1
    <3>2. active = d => Before(heard, s) BY <2>1
    <3> HIDE DEF s
    <3>3. s \o msgs \in Seq(Nat) /\ Rising(s \o msgs) /\ Below(s \o msgs, now')
      BY <3>1, JoinKeeps
    <3>4. active = d => Before(heard, s \o msgs) BY <2>1, <3>1, <3>2, JoinKeeps
    <3>5. net'[d] = s \o msgs BY <2>4 DEF s
    <3>6. QED BY <2>4, <3>3, <3>4, <3>5
  <2>5. QED BY <2>2, <2>3, <2>4
<1>3. NetOrder' BY <1>2 DEF NetOrder, Attached
<1>4. net' \in [Conns -> Seq(Nat)] BY <1>0, <1>2 DEF Sent, ClientTypes
<1>5. ClientTypes' BY <1>0, <1>4 DEF ClientTypes
<1>6. HeardOrder' BY <1>0, <1>1 DEF ClientInv, HeardOrder, ClientTypes
<1>7. \A q \in Pages : q = p BY DEF OnePage
<1>8. PageOrder' BY <1>7, NoMessages DEF PageOrder, Attached
<1>9. QED BY <1>3, <1>5, <1>6, <1>8 DEF ClientInv

LEMMA CaptureKeeps ==
  ASSUME OnePage, ClientInv, NEW p \in Pages, Capture(p)
  PROVE  ClientInv'
<1>0. /\ ClientTypes /\ SourceInv /\ now \in Nat /\ now' = now + 1
      /\ UNCHANGED <<conn, active, heard, sock, status>>
  BY DEF ClientInv, SourceInv, ConnTypes, Capture, Tick
<1>1. SourceInv' BY <1>0, TickKeeps DEF Capture
<1>2. /\ <<now>> \in Seq(Nat) /\ Rising(<<now>>) /\ Below(<<now>>, now')
      /\ Before(heard, <<now>>) /\ \A d \in Conns : Before(net[d], <<now>>)
  <2>1. heard \in Seq(Nat) /\ Below(heard, now)
        /\ \A d \in Conns : net[d] \in Seq(Nat) /\ Below(net[d], now)
    BY <1>0 DEF ClientInv, HeardOrder, NetOrder, ClientTypes
  <2>2. now < now' /\ now' \in Nat BY <1>0
  <2>3. <<now>> \in Seq(Nat) /\ Rising(<<now>>) /\ Below(<<now>>, now')
    BY <1>0, <2>2, OneMessage
  <2>4. Before(heard, <<now>>) /\ \A d \in Conns : Before(net[d], <<now>>)
    BY <1>0, <2>1, OneMessage
  <2>5. QED BY <2>3, <2>4
<1>3. CASE status[p] = "ready" /\ buffer[p] = <<>> /\ net' = Sent(sock[p], <<now>>) /\ UNCHANGED buffer
  <2>1. Attached(sock[p]) BY <1>3 DEF ClientInv, PageOrder
  <2>2. sock[p] \in Conns BY <1>0, <2>1 DEF Attached, ClientTypes
  <2>3. now' \in Nat /\ now <= now' BY <1>0
  <2>4. status' \in [Pages -> Statuses] /\ buffer' \in [Pages -> Seq(Nat)] /\ buffer'[p] = <<>>
    BY <1>0, <1>3 DEF ClientTypes
  <2>5. QED BY <1>0, <1>1, <1>2, <1>3, <2>1, <2>2, <2>3, <2>4, SendKeeps
<1>4. CASE UNCHANGED net /\ (UNCHANGED buffer \/ buffer' = [buffer EXCEPT ![p] = Kept(p, now)])
  <2>1. \A s \in Seq(Nat) : Below(s, now) => Below(s, now') BY <1>0, LaterBelow
  <2>2. HeardOrder' BY <1>0, <2>1 DEF ClientInv, HeardOrder, ClientTypes
  <2>3. NetOrder' BY <1>0, <1>4, <2>1 DEF ClientInv, NetOrder, ClientTypes, Attached
  <2>4. \A q \in Pages :
          /\ buffer[q] \in Seq(Nat)
          /\ Rising(buffer[q]) /\ Below(buffer[q], now') /\ Before(heard, buffer[q])
          /\ \A c \in Conns : Before(net[c], buffer[q])
    BY <1>0, <2>1 DEF ClientInv, PageOrder, ClientTypes
  <2>5. /\ Kept(p, now) \in Seq(Nat)
        /\ Rising(Kept(p, now)) /\ Below(Kept(p, now), now') /\ Before(heard, Kept(p, now))
        /\ \A c \in Conns : Before(net[c], Kept(p, now))
    <3> DEFINE all == Append(buffer[p], now)
               k   == Len(all) - Least(MaxBuffered, Len(all))
    <3>1. /\ all \in Seq(Nat) /\ Rising(all) /\ Below(all, now') /\ Before(heard, all)
          /\ \A c \in Conns : Before(net[c], all)
      <4> DEFINE s == buffer[p]
      <4>1. s \in Seq(Nat) /\ Rising(s) /\ Below(s, now) /\ Below(s, now') /\ Before(heard, s)
            /\ \A c \in Conns : Before(net[c], s)
        BY <1>0, <2>4 DEF ClientInv, PageOrder
      <4>2. all = s \o <<now>> BY <1>0, <4>1, OneMessage
      <4>3. heard \in Seq(Nat) /\ (\A c \in Conns : net[c] \in Seq(Nat)) /\ now' \in Nat
        BY <1>0 DEF ClientTypes
      <4> HIDE DEF s, all
      <4>4. Before(s, <<now>>) BY <1>0, <4>1, OneMessage
      <4>5. QED BY <1>2, <4>1, <4>2, <4>3, <4>4, JoinKeeps
    <3> HIDE DEF all
    <3>2. Len(all) \in Nat BY <3>1
    <3>3. k \in 0 .. Len(all)
      <4>1. Least(MaxBuffered, Len(all)) \in 0 .. Len(all)
        BY <3>2, ClientAssumption DEF Least
      <4>2. QED BY <3>2, <4>1
    <3>4. Kept(p, now) = SubSeq(all, 1 + k, Len(all))
      <4>1. Least(MaxBuffered, Len(all)) \in Nat BY <3>2, ClientAssumption DEF Least
      <4>2. 1 + Len(all) - Least(MaxBuffered, Len(all)) = 1 + k BY <3>2, <4>1
      <4>3. QED BY <4>2 DEF Kept, all
    <3> HIDE DEF k
    <3>5. Kept(p, now) \in Seq(Nat) /\ EndOf(Kept(p, now), all)
      <4>1. Kept(p, now) \in Seq(Nat) /\ Len(Kept(p, now)) = Len(all) - k
        BY <3>1, <3>2, <3>3, <3>4
      <4>2. \A i \in 1 .. Len(Kept(p, now)) : i + k \in 1 .. Len(all) /\ Kept(p, now)[i] = all[i + k]
        BY SMTT(30), <3>1, <3>2, <3>3, <3>4, <4>1
      <4>3. k \in Nat BY <3>3
      <4>4. QED BY <4>1, <4>2, <4>3 DEF EndOf
    <3>6. heard \in Seq(Nat) /\ (\A c \in Conns : net[c] \in Seq(Nat)) /\ now' \in Nat
      BY <1>0 DEF ClientTypes
    <3>7. QED BY <3>1, <3>5, <3>6, EndKeeps
  <2>6. buffer' \in [Pages -> Seq(Nat)] /\ \A q \in Pages : buffer'[q] \in {buffer[q], Kept(p, now)}
                                        /\ (q # p => buffer'[q] = buffer[q])
    BY <1>0, <1>4, <2>5 DEF ClientTypes
  <2>7. ClientTypes' BY <1>0, <1>4, <2>6 DEF ClientTypes
  <2>8. \A q \in Pages :
          /\ Rising(buffer'[q]) /\ Below(buffer'[q], now') /\ Before(heard, buffer'[q])
          /\ \A c \in Conns : Before(net[c], buffer'[q])
    BY <2>4, <2>5, <2>6
  <2>9. PageOrder' BY <1>0, <1>4, <2>8 DEF ClientInv, PageOrder, Attached
  <2>10. QED BY <1>1, <2>2, <2>3, <2>7, <2>9 DEF ClientInv
<1>5. QED BY <1>3, <1>4 DEF Capture

LEMMA ReadyKeeps ==
  ASSUME OnePage, ClientInv, NEW p \in Pages, Ready(p)
  PROVE  ClientInv'
<1>0. /\ ClientTypes /\ SourceInv /\ now \in Nat /\ UNCHANGED vars
      /\ UNCHANGED <<conn, active, heard, sock, now>>
  BY DEF ClientInv, SourceInv, ConnTypes, Ready, vars
<1>1. SourceInv' BY <1>0, SourceInvNext
<1>2. Attached(sock[p]) /\ net' = Sent(sock[p], buffer[p]) BY DEF Ready
<1>3. sock[p] \in Conns BY <1>0, <1>2 DEF Attached, ClientTypes
<1>4. /\ status' \in [Pages -> Statuses] /\ buffer' \in [Pages -> Seq(Nat)]
      /\ buffer'[p] = <<>>
  BY <1>0, NoMessages DEF Ready, Flushed, ClientTypes, Statuses
<1>5. /\ buffer[p] \in Seq(Nat) /\ Rising(buffer[p]) /\ Below(buffer[p], now')
      /\ Before(heard, buffer[p]) /\ \A d \in Conns : Before(net[d], buffer[p])
  BY <1>0 DEF ClientInv, PageOrder, ClientTypes
<1>6. now' \in Nat /\ now <= now' BY <1>0
<1>7. QED BY <1>0, <1>1, <1>2, <1>3, <1>4, <1>5, <1>6, SendKeeps

LEMMA ReceiveKeeps ==
  ASSUME ClientInv, NEW c \in Conns, Receive(c)
  PROVE  ClientInv'
<1>0. /\ ClientTypes /\ SourceInv /\ now \in Nat /\ net[c] # <<>>
      /\ net' = [net EXCEPT ![c] = Tail(@)] /\ UNCHANGED <<status, sock, buffer>>
  BY DEF ClientInv, SourceInv, ConnTypes, Receive, page
<1>1. /\ SourceInv' /\ now' = now /\ active' = active
      /\ \A d \in Conns : Attached(d) => Attached(d)'
      /\ heard' = heard \/ (active = c /\ heard' = Append(heard, Head(net[c])))
  <2>1. CASE Write(c, 1) /\ heard' = Append(heard, Head(net[c]))
    <3>1. SourceInv' BY <1>0, <2>1, WriteKeeps
    <3>2. /\ now' = now /\ active' = active /\ active = c
          /\ \A d \in Conns \ {c} : conn'[d] = conn[d]
          /\ conn'[c].at = conn[c].at
      BY <1>0, <2>1, WriteDoes
    <3>3. QED BY <2>1, <3>1, <3>2 DEF Attached
  <2>2. CASE UNCHANGED <<vars, heard>>
    <3>1. UNCHANGED <<now, conn, active, heard>> BY <2>2 DEF vars
    <3>2. SourceInv' BY <1>0, <2>2, SourceInvNext
    <3>3. QED BY <3>1, <3>2 DEF Attached
  <2>3. QED BY <2>1, <2>2 DEF Receive
<1> DEFINE s == net[c]
           m == Head(s)
<1>2. /\ s \in Seq(Nat) /\ s # <<>> /\ Rising(s) /\ Below(s, now)
      /\ (active = c => Before(heard, s)) /\ Attached(c)
      /\ \A p \in Pages : Before(s, buffer[p])
  BY <1>0 DEF ClientInv, NetOrder, PageOrder, ClientTypes
<1>3. /\ net'[c] = Tail(s) /\ (\A d \in Conns \ {c} : net'[d] = net[d])
      /\ net \in [Conns -> Seq(Nat)]
  BY <1>0 DEF ClientTypes
<1> HIDE DEF s
<1>4. /\ Tail(s) \in Seq(Nat) /\ EndOf(Tail(s), s) /\ m = s[1] /\ 1 \in 1 .. Len(s)
      /\ \A i \in 1 .. Len(Tail(s)) : i + 1 \in 1 .. Len(s) /\ Tail(s)[i] = s[i + 1]
  BY <1>2, TailEnds
<1> HIDE DEF m
<1>5. m \in Nat BY <1>2, <1>4
<1>6. /\ heard \in Seq(Nat) /\ \A p \in Pages : buffer[p] \in Seq(Nat)
  BY <1>0 DEF ClientTypes
<1>7. net' \in [Conns -> Seq(Nat)] BY <1>0, <1>3, <1>4 DEF s
<1>8. Rising(Tail(s)) /\ Below(Tail(s), now) /\ \A p \in Pages : Before(Tail(s), buffer[p])
  BY <1>0, <1>2, <1>4, <1>6, EndKeeps
<1>9. active = c => Before(heard, Tail(s)) BY <1>2, <1>4, <1>6, EndKeeps
<1>10. m < now /\ (active = c => Before(heard, <<m>>)) /\ (\A p \in Pages : Before(<<m>>, buffer[p]))
       /\ Before(<<m>>, Tail(s))
  <2>1. Len(<<m>>) = 1 /\ <<m>>[1] = m /\ \A i \in 1 .. Len(<<m>>) : i = 1 OBVIOUS
  <2>2. m < now BY <1>2, <1>4 DEF Below
  <2>3. active = c => Before(heard, <<m>>) BY <1>2, <1>4, <2>1 DEF Before
  <2>4. \A p \in Pages : Before(<<m>>, buffer[p]) BY <1>2, <1>4, <2>1 DEF Before
  <2>5. \A i \in 1 .. Len(Tail(s)) : 1 < i + 1 BY <1>4
  <2>6. \A i \in 1 .. Len(Tail(s)) : m < Tail(s)[i] BY <1>2, <1>4, <2>5 DEF Rising
  <2>7. QED BY <2>1, <2>2, <2>3, <2>4, <2>6 DEF Before
<1>11. /\ heard' \in Seq(Nat) /\ Rising(heard') /\ Below(heard', now)
       /\ active = c => Before(heard', Tail(s))
       /\ \A p \in Pages : Before(heard', buffer[p])
       /\ active # c => heard' = heard
  <2>0. Rising(heard) /\ Below(heard, now) /\ \A p \in Pages : Before(heard, buffer[p])
    BY DEF ClientInv, HeardOrder, PageOrder
  <2>1. CASE heard' = heard BY <1>6, <1>9, <2>0, <2>1
  <2>2. CASE active = c /\ heard' = Append(heard, m)
    <3>1. heard' = heard \o <<m>> /\ <<m>> \in Seq(Nat) /\ Rising(<<m>>) /\ Below(<<m>>, now)
      BY <1>0, <1>5, <1>6, <1>10, <2>2, OneMessage
    <3>2. Before(heard, <<m>>) /\ Before(heard, Tail(s)) BY <1>9, <1>10, <2>2
    <3> DEFINE w == heard \o <<m>>
    <3>3. w \in Seq(Nat) /\ Rising(w) BY <1>6, <2>0, <3>1, <3>2, JoinKeeps
    <3>4. Below(w, now) BY <1>0, <1>6, <2>0, <3>1, JoinKeeps
    <3>5. Before(w, Tail(s)) BY <1>4, <1>6, <1>10, <3>1, <3>2, JoinKeeps
    <3>6. \A p \in Pages : Before(w, buffer[p])
      <4> TAKE p \in Pages
      <4> DEFINE b == buffer[p]
      <4>1. b \in Seq(Nat) /\ Before(heard, b) /\ Before(<<m>>, b) BY <1>6, <1>10, <2>0
      <4> HIDE DEF b
      <4>2. Before(w, b) BY <1>6, <3>1, <4>1, JoinKeeps
      <4>3. QED BY <4>2 DEF b
    <3>7. heard' = w BY <3>1
    <3> HIDE DEF w
    <3>8. QED BY <2>2, <3>3, <3>4, <3>5, <3>6, <3>7
  <2>3. QED BY <1>1, <2>1, <2>2 DEF m, s
<1>12. ClientTypes' BY <1>0, <1>7, <1>11 DEF ClientTypes
<1>13. HeardOrder' BY <1>1, <1>11 DEF HeardOrder
<1>14. NetOrder'
  <2> SUFFICES ASSUME NEW d \in Conns
               PROVE  /\ Rising(net'[d]) /\ Below(net'[d], now)
                      /\ active = d => Before(heard', net'[d])
                      /\ net'[d] # <<>> => Attached(d)'
    BY <1>1 DEF NetOrder
  <2>1. CASE d = c BY <1>1, <1>2, <1>3, <1>8, <1>11, <2>1
  <2>2. CASE d # c
    <3>1. net'[d] = net[d] BY <1>3, <2>2
    <3>2. active = d => heard' = heard BY <1>11, <2>2
    <3>3. QED BY <1>1, <3>1, <3>2 DEF ClientInv, NetOrder
  <2>3. QED BY <2>1, <2>2
<1>15. PageOrder'
  <2> SUFFICES ASSUME NEW p \in Pages
               PROVE  /\ Rising(buffer[p]) /\ Below(buffer[p], now) /\ Before(heard', buffer[p])
                      /\ \A d \in Conns : Before(net'[d], buffer[p])
                      /\ status[p] = "ready" => Attached(sock[p])'
    BY <1>0, <1>1 DEF PageOrder, Attached
  <2>1. \A d \in Conns : Before(net'[d], buffer[p])
    <3> TAKE d \in Conns
    <3>1. CASE d = c BY <1>3, <1>8, <3>1
    <3>2. CASE d # c BY <1>3, <3>2 DEF ClientInv, PageOrder
    <3>3. QED BY <3>1, <3>2
  <2>2. status[p] = "ready" => sock[p] \in Conns /\ Attached(sock[p])
    BY <1>0 DEF ClientInv, PageOrder, ClientTypes, Attached
  <2>3. status[p] = "ready" => Attached(sock[p])'
    BY <1>0, <1>1, <2>2 DEF Attached
  <2>4. QED BY <1>11, <2>1, <2>3 DEF ClientInv, PageOrder
<1>16. QED BY <1>1, <1>12, <1>13, <1>14, <1>15 DEF ClientInv

LEMMA ClientInvInit == ClientInit => ClientInv
<1> SUFFICES ASSUME ClientInit PROVE ClientInv OBVIOUS
<1>1. SourceInv BY SourceInvInit DEF ClientInit
<1>2. ClientTypes BY NoMessages DEF ClientInit, ClientTypes, Statuses
<1>3. HeardOrder /\ NetOrder /\ PageOrder
  BY NoMessages DEF ClientInit, HeardOrder, NetOrder, PageOrder
<1>4. QED BY <1>1, <1>2, <1>3 DEF ClientInv

LEMMA ClientInvNext == OnePage /\ ClientInv /\ [ClientNext]_cvars => ClientInv'
<1> SUFFICES ASSUME OnePage, ClientInv, [ClientNext]_cvars PROVE ClientInv' OBVIOUS
<1>1. CASE UNCHANGED cvars
  <2>1. UNCHANGED <<vars, status, sock, buffer, net, heard>> BY <1>1 DEF cvars, page, link
  <2>2. UNCHANGED <<conn, active, now>> BY <2>1 DEF vars
  <2>3. SourceInv' BY <2>1, SourceInvNext DEF ClientInv
  <2>4. QED BY <2>1, <2>2, <2>3
         DEF ClientInv, ClientTypes, HeardOrder, NetOrder, PageOrder, Attached
<1>2. ASSUME NEW p \in Pages,
             (\E c \in Conns : Dial(p, c)) \/ Capture(p) \/ Ready(p) \/ Replaced(p) \/ Dropped(p)
               \/ ClosePage(p)
      PROVE  ClientInv'
  BY <1>2, PageKeeps, CaptureKeeps, ReadyKeeps
<1>3. ASSUME NEW c \in Conns, Cut(c) \/ Receive(c) \/ ServeDialled(c) \/ Noticed(c)
      PROVE  ClientInv'
  BY <1>3, ServerKeeps, ReceiveKeeps
<1>4. QED BY <1>1, <1>2, <1>3 DEF ClientNext

\* With one page the source hears the audio in the order it was captured, and no
\* message twice, whatever connections it went over.
THEOREM AlwaysHeardInOrder ==
  ASSUME OnePage
  PROVE  ClientSpec => []HeardInOrder
<1>1. ClientInv => HeardInOrder BY DEF ClientInv, HeardOrder, Rising, HeardInOrder
<1>2. ClientInv /\ [ClientNext]_cvars => ClientInv' BY ClientInvNext
<1>3. QED BY <1>1, <1>2, ClientInvInit, PTL DEF ClientSpec
=============================================================================
