---------------------------- MODULE PipelineProofs ----------------------------
(***************************************************************************)
(* What RunPipeline promises, for any restart and fallback policy and any  *)
(* length of the session, number of crashes, failures, errors, pauses and  *)
(* fallbacks.                                                              *)
(***************************************************************************)
EXTENDS RunPipeline, SequenceTheorems, FiniteSetTheorems, TLAPS

-----------------------------------------------------------------------------
(* Streams *)

Prefixes == {"first", "switch", "restart"} \X Nat
StreamSet ==
  [kind : Kinds, prefix : Prefixes, from : Int, attached : BOOLEAN, open : BOOLEAN,
   closed : BOOLEAN, cancelled : BOOLEAN, down : BOOLEAN]

Looping == consume \in {"loop", "probe in loop", "next", "wait", "open"}
Streaming == consume \in {"events", "probe in events", "detach", "down", "check", "name", "attach"}

\* Only consume's own fallback holds consume up, where it asks for one.
StreamTypes ==
  /\ streams \in Seq(StreamSet)
  /\ link \in 0 .. Len(streams) /\ cur \in 1 .. Len(streams)
  /\ (feed = "blocked" => on \in 1 .. Len(streams))
  /\ consume \in Places /\ lastFinal \in Int
  /\ provider \in Kinds /\ loopKind \in Kinds /\ switches \in Nat /\ restarts \in Nat
  /\ fb = [who |-> fb.who, switched |-> fb.switched]
  /\ fb.who = "consume" => Asking

\* Inputs are closed by the end of the source alone, when feed is over.
InputsOpen ==
  /\ sourceEnded \in BOOLEAN
  /\ sourceEnded => feed = "over"
  /\ ~sourceEnded => \A s \in 1 .. Len(streams) : ~streams[s].closed

\* The prefixes that streams with audio have.
Named(s) ==
  \/ streams[s].prefix[1] = "first" /\ s = 1
  \/ streams[s].prefix[1] = "switch" /\ streams[s].prefix[2] <= switches
  \/ streams[s].prefix[1] = "restart" /\ streams[s].prefix[2] <= restarts
AudioNamed == \A s \in 1 .. Len(streams) : streams[s].attached => Named(s)

\* A stream with audio that was named in the present switch.
OfThisSwitch == \E s \in 1 .. Len(streams) : streams[s].attached /\ streams[s].prefix = <<"switch", switches>>

\* The stream that consume has opened and not attached yet has a prefix of its
\* own, or will get one.
Fresh ==
  /\ consume \in {"name", "attach"} => cur > 1 /\ ~streams[cur].attached
  /\ consume = "name" =>
       /\ streams[cur].prefix[1] \in {"switch", "restart"}
       /\ streams[cur].prefix[1] = "switch" => ~OfThisSwitch
  /\ consume = "attach" =>
       /\ Named(cur)
       /\ \A s \in 1 .. Len(streams) : streams[s].attached => streams[s].prefix # streams[cur].prefix

\* Once a stream named in the present switch had audio, consume works on the
\* provider of that switch: the next stream is no other switch's.
SwitchedOnce ==
  OfThisSwitch => /\ Looping => loopKind = provider
                  /\ Streaming => streams[cur].kind = provider

ApartInv ==
  /\ StreamTypes /\ InputsOpen /\ LinkIsCurrent /\ AudioNamed
  /\ Fresh /\ SwitchedOnce /\ PrefixesUnique

-----------------------------------------------------------------------------
(* Lost audio *)

\* A list of gaps has a moment.
InGaps(q, t) == \E n \in 1 .. Len(q) : q[n][1] <= t /\ t < q[n][2]

\* The frames that a provider took, or that are in a stream's input.
Handed == got \cup {q[2] : q \in input}

\* The moments before the clock are accounted for.
Accounted(t) ==
  \/ t \in Handed \cup skipped
  \/ InGaps(noted, t)
  \/ losing /\ t >= lostFrom
  \/ t = end - 1 /\ feed \in {"send", "blocked"}
  \/ ctxDone

LostTypes ==
  /\ noted \in Seq(Int \X Int) /\ end \in Nat /\ offset \in Nat /\ lostFrom \in Int
  /\ hasBase \in BOOLEAN /\ losing \in BOOLEAN

\* A source that starts again is given the time up to its offset as a gap, what
\* is being lost began before the last frame, and feed only has a frame of the
\* source that is on.
LostInv ==
  /\ LostTypes
  /\ IF hasBase THEN offset < end ELSE end <= offset
  /\ feed \in {"send", "blocked"} => hasBase
  /\ losing => lostFrom < end
  /\ \A t \in Nat : t < end \/ t < offset => Accounted(t)


\* A list of gaps with one more has the moments of the one before, and its own.
LEMMA WithGapCovers ==
  ASSUME NEW q \in Seq(Int \X Int), NEW a \in Int, NEW b \in Int
  PROVE  LET p == WithGap(q, a, b) IN
         /\ p \in Seq(Int \X Int)
         /\ \A t \in Int :
              (a <= t /\ t < b) \/ InGaps(q, t) => InGaps(p, t)
<1> DEFINE p == WithGap(q, a, b)
<1>1. CASE b > a
  <2>1. p = Append(q, <<a, b>>) BY <1>1 DEF WithGap
  <2>2. /\ p \in Seq(Int \X Int) /\ Len(p) = Len(q) + 1 /\ p[Len(q) + 1] = <<a, b>>
        /\ \A n \in 1 .. Len(q) : p[n] = q[n]
    BY <2>1
  <2> HIDE DEF p
  <2>3. Len(q) \in Nat /\ Len(q) + 1 \in 1 .. Len(p) /\ \A n \in 1 .. Len(q) : n \in 1 .. Len(p)
    BY <2>2
  <2>4. \A t \in Int : a <= t /\ t < b => InGaps(p, t)
    <3>1. p[Len(q) + 1][1] = a /\ p[Len(q) + 1][2] = b BY <2>2
    <3>2. QED BY <2>3, <3>1 DEF InGaps
  <2>5. \A t \in Int : InGaps(q, t) => InGaps(p, t)
    BY <2>2, <2>3 DEF InGaps
  <2>6. QED BY <2>2, <2>4, <2>5 DEF p
<1>2. CASE ~(b > a)
  <2>1. p = q BY <1>2 DEF WithGap
  <2>2. QED BY <1>2, <2>1
<1>3. QED BY <1>1, <1>2

\* What is in no action of feed or of the fallback leaves the account alone.
LostVars == <<end, offset, hasBase, noted, losing, lostFrom, skipped>>

\* The account is kept when it has the gaps it had, and the frames.
LEMMA AccountKept ==
  ASSUME LostInv, UNCHANGED <<end, offset, hasBase, losing, lostFrom, skipped>>,
         noted' \in Seq(Int \X Int), ctxDone => ctxDone', Handed \subseteq Handed',
         \A t \in Int : InGaps(noted, t)
                          => InGaps(noted', t),
         \/ feed' = feed
         \/ feed \notin {"send", "blocked"} /\ feed' \notin {"send", "blocked"}
  PROVE  LostInv'
<1>1. LostTypes' BY DEF LostInv, LostTypes
<1>2. ASSUME NEW t \in Nat, t < end \/ t < offset PROVE Accounted(t)'
  BY <1>2 DEF LostInv, Accounted
<1>3. QED BY <1>1, <1>2 DEF LostInv

\* What says no word of the account.
LEMMA AccountSame ==
  ASSUME LostInv, UNCHANGED LostVars, ctxDone => ctxDone', Handed' = Handed,
         \/ feed' = feed
         \/ feed \notin {"send", "blocked"} /\ feed' \notin {"send", "blocked"}
  PROVE  LostInv'
BY AccountKept DEF LostVars, LostInv, LostTypes

\* Frames stay handed while nothing is put into an input or taken out of one.
LEMMA HandedSame == ASSUME UNCHANGED <<got, input>> PROVE Handed' = Handed
BY DEF Handed

\* A frame that is heard is in feed's hands or was not wanted, and a jump is a gap.
LEMMA HearKeeps == ASSUME LostInv, NEW jump \in 0 .. 1, Hear(jump) PROVE LostInv'
<1> USE DEF LostInv, LostTypes
<1>1. PICK t \in Nat : t = IF hasBase THEN end + jump ELSE offset OBVIOUS
<1>2. /\ feed = "read" /\ hasBase' = TRUE /\ end' = t + 1
      /\ noted' = IF hasBase THEN WithGap(noted, end, t) ELSE noted
      /\ \/ feed' = "read" /\ skipped' = skipped \cup {t}
         \/ feed' = "send" /\ skipped' = skipped
      /\ UNCHANGED <<offset, losing, lostFrom, got, input, ctxDone>>
  BY <1>1 DEF Hear, streamVars, runVars
<1>same. Handed' = Handed BY <1>2, HandedSame
<1>3. /\ noted' \in Seq(Int \X Int)
      /\ \A u \in Int : (hasBase /\ end <= u /\ u < t) \/ InGaps(noted, u)
                          => InGaps(noted', u)
  <2>1. CASE hasBase BY <1>1, <1>2, <2>1, WithGapCovers
  <2>2. CASE ~hasBase BY <1>2, <2>2
  <2>3. QED BY <2>1, <2>2
<1>4. LostTypes' BY <1>1, <1>2, <1>3
<1>5. (IF hasBase THEN offset < end ELSE end <= offset)' /\ (losing => lostFrom < end)'
  <2>1. t >= end \/ ~hasBase BY <1>1
  <2>2. offset' < end' BY <1>1, <1>2
  <2>3. ASSUME losing PROVE lostFrom < end' 
    BY <1>1, <1>2, <2>3
  <2>4. QED BY <1>2, <2>2, <2>3
<1>6. ASSUME NEW u \in Nat, u < end' \/ u < offset' PROVE Accounted(u)'
  <2>1. u <= t BY <1>1, <1>2, <1>6
  <2>2. CASE u = t BY <1>1, <1>2, <2>2, <1>same DEF Accounted
  <2>3. CASE u < end \/ u < offset
    <3>1. Accounted(u) BY <2>3
    <3>2. ~(feed \in {"send", "blocked"}) BY <1>2
    <3>3. QED BY <1>2, <1>3, <3>1, <3>2, <1>same DEF Accounted
  <2>4. CASE hasBase /\ end <= u /\ u < t BY <1>3, <2>4, <1>same DEF Accounted
  <2>5. QED BY <1>1, <1>2, <2>1, <2>2, <2>3, <2>4
<1>7. QED BY <1>2, <1>4, <1>5, <1>6

\* A frame that finds no stream, or whose stream ended, begins a lost stretch.
LEMMA LoseKeeps == ASSUME LostInv, SendLost \/ SendDown PROVE LostInv'
<1> USE DEF LostInv, LostTypes
<1>1. /\ feed \in {"send", "blocked"} /\ feed' = "read" /\ losing' = TRUE
      /\ lostFrom' = IF losing THEN lostFrom ELSE end - 1
      /\ UNCHANGED <<noted, end, offset, hasBase, skipped, got, input, ctxDone>>
  BY DEF SendLost, SendDown, Lose, streamVars, runVars
<1>same. Handed' = Handed BY <1>1, HandedSame
<1>2. end >= 1 /\ lostFrom' <= end - 1 /\ lostFrom' \in Int BY <1>1
<1>3. LostTypes' BY <1>1, <1>2
<1>4. ASSUME NEW t \in Nat, t < end \/ t < offset PROVE Accounted(t)'
  <2>1. CASE t = end - 1 BY <1>1, <1>2, <2>1, <1>same DEF Accounted
  <2>2. CASE t # end - 1
    <3>1. Accounted(t) BY <1>4
    <3>2. losing /\ t >= lostFrom => losing' /\ t >= lostFrom' BY <1>1
    <3>3. QED BY <1>1, <2>2, <3>1, <3>2, <1>same DEF Accounted
  <2>3. QED BY <2>1, <2>2
<1>5. QED BY <1>1, <1>2, <1>3, <1>4

\* A frame for a stream that is attached ends the stretch as a gap.
LEMMA SendToKeeps == ASSUME LostInv, SendTo PROVE LostInv'
<1> USE DEF LostInv, LostTypes
<1>1. /\ feed = "send" /\ feed' = "blocked" /\ losing' = FALSE
      /\ noted' = IF losing THEN WithGap(noted, lostFrom, end - 1) ELSE noted
      /\ UNCHANGED <<lostFrom, end, offset, hasBase, skipped, got, input, ctxDone>>
  BY DEF SendTo, ResumeAt, streamVars, runVars
<1>same. Handed' = Handed BY <1>1, HandedSame
<1>2. /\ noted' \in Seq(Int \X Int)
      /\ \A t \in Int : (losing /\ lostFrom <= t /\ t < end - 1) \/ InGaps(noted, t)
                          => InGaps(noted', t)
  <2>1. CASE losing
    <3>1. end - 1 \in Int OBVIOUS
    <3>2. QED BY <1>1, <2>1, <3>1, WithGapCovers
  <2>2. CASE ~losing BY <1>1, <2>2
  <2>3. QED BY <2>1, <2>2
<1>3. LostTypes' BY <1>1, <1>2
<1>4. ASSUME NEW t \in Nat, t < end \/ t < offset PROVE Accounted(t)'
  <2>1. t <= end - 1 BY <1>1, <1>4
  <2>2. CASE t = end - 1 BY <1>1, <2>2, <1>same DEF Accounted
  <2>3. CASE t < end - 1
    <3>1. Accounted(t) BY <1>4
    <3>2. QED BY <1>1, <1>2, <2>3, <3>1, <1>same DEF Accounted
  <2>4. QED BY <2>1, <2>2, <2>3
<1>5. QED BY <1>1, <1>3, <1>4

\* A frame that was sent is in the stream's input.
LEMMA SentKeeps == ASSUME LostInv, Sent PROVE LostInv'
<1> USE DEF LostInv, LostTypes
<1>1. /\ feed = "blocked" /\ feed' = "read" /\ Handed' = Handed \cup {end - 1}
      /\ UNCHANGED <<noted, losing, lostFrom, end, offset, hasBase, skipped, ctxDone>>
  <2>1. input' = input \cup {<<on, end - 1>>} /\ got' = got BY DEF Sent
  <2>2. <<on, end - 1>>[2] = end - 1 OBVIOUS
  <2>3. Handed' = Handed \cup {end - 1}
    <3>1. {q[2] : q \in input'} = {q[2] : q \in input} \cup {<<on, end - 1>>[2]} BY <2>1
    <3>2. QED BY <2>1, <2>2, <3>1 DEF Handed
  <2>4. QED BY <2>3 DEF Sent, gapVars, runVars
<1>2. LostTypes' BY <1>1
<1>3. ASSUME NEW t \in Nat, t < end \/ t < offset PROVE Accounted(t)'
  <2>1. Accounted(t) BY <1>3
  <2>2. QED BY <1>1, <2>1 DEF Accounted
<1>4. QED BY <1>1, <1>2, <1>3

\* A frame that a provider takes is one it got.
LEMMA TakesKeeps == ASSUME LostInv, NEW s \in 1 .. Len(streams), StreamTakes(s) PROVE LostInv'
<1>1. UNCHANGED <<end, offset, hasBase, noted, losing, lostFrom, skipped, feed, ctxDone>>
  BY DEF StreamTakes, feedVars, gapVars, runVars
<1>2. Handed \subseteq Handed'
  <2>1. PICK q \in input : input' = input \ {q} /\ got' = got \cup {q[2]}
    BY DEF StreamTakes, Waiting
  <2>2. QED BY <2>1 DEF Handed
<1>3. QED BY <1>1, <1>2, AccountKept DEF LostInv, LostTypes

\* The audio of the time without a source is a gap.
LEMMA SourceStartsKeeps == ASSUME LostInv, NEW lost \in 0 .. 1, SourceStarts(lost) PROVE LostInv'
<1> USE DEF LostInv, LostTypes
<1>1. PICK c \in Nat : c = Clock /\ c >= end /\ c >= offset /\ (c = end \/ c = offset)
  BY DEF Clock, Later
<1>2. /\ feed = "wait" /\ feed' = "read" /\ offset' = c + lost /\ hasBase' = FALSE
      /\ noted' = WithGap(noted, c, c + lost)
      /\ UNCHANGED <<end, losing, lostFrom, skipped, got, input, ctxDone>>
  BY <1>1 DEF SourceStarts, streamVars, runVars
<1>same. Handed' = Handed BY <1>2, HandedSame
<1>3. /\ noted' \in Seq(Int \X Int)
      /\ \A t \in Int : (c <= t /\ t < c + lost) \/ InGaps(noted, t)
                          => InGaps(noted', t)
  <2>1. c \in Int /\ c + lost \in Int BY <1>1
  <2>2. QED BY <1>2, <2>1, WithGapCovers
<1>4. LostTypes'
  <2>1. offset' \in Nat
    <3>1. offset' = c + lost /\ c \in Nat /\ lost \in Nat BY <1>1, <1>2
    <3>2. QED BY ONLY <3>1
  <2>2. hasBase' \in BOOLEAN BY <1>2, Zenon
  <2>3. QED BY <1>2, <1>3, <2>1, <2>2
<1>5. ASSUME NEW t \in Nat, t < end' \/ t < offset' PROVE Accounted(t)'
  <2>1. CASE t < end \/ t < offset
    <3>1. Accounted(t) BY <2>1
    <3>2. QED BY <1>2, <1>3, <3>1, <1>same DEF Accounted
  <2>2. CASE c <= t /\ t < c + lost BY <1>3, <2>2, <1>same DEF Accounted
  <2>3. QED BY <1>1, <1>2, <1>5, <2>1, <2>2
<1>6. end' <= offset' /\ ~hasBase' /\ feed' \notin {"send", "blocked"} BY <1>1, <1>2
<1>7. losing' => lostFrom' < end' BY <1>2
<1>8. QED BY <1>4, <1>5, <1>6, <1>7

\* What a fallback cuts off is one more gap.
LEMMA SwitchKeepsAccount == ASSUME LostInv, Switch, StreamTypes PROVE LostInv'
<1>1. /\ UNCHANGED <<end, offset, hasBase, losing, lostFrom, skipped, feed, got, input, ctxDone>>
      /\ \/ noted' = noted
         \/ noted' = WithGap(noted, Later(lastFinal, streams[link].from), end) /\ link # 0
  BY DEF Switch, feedVars, runVars
<1>same. Handed' = Handed BY <1>1, HandedSame
<1>2. CASE noted' = noted
  <2>1. UNCHANGED LostVars BY <1>1, <1>2 DEF LostVars
  <2>2. (ctxDone => ctxDone') /\ Handed' = Handed /\ feed' = feed BY <1>1, <1>same
  <2>3. QED BY <2>1, <2>2, AccountSame
<1>3. CASE noted' = WithGap(noted, Later(lastFinal, streams[link].from), end) /\ link # 0
  <2>1. Later(lastFinal, streams[link].from) \in Int
    <3>1. link \in 1 .. Len(streams) /\ streams[link] \in StreamSet BY <1>3 DEF StreamTypes
    <3>2. QED BY <3>1 DEF StreamTypes, StreamSet, Later
  <2>2. noted \in Seq(Int \X Int) /\ end \in Int BY DEF LostInv, LostTypes
  <2>3. /\ noted' \in Seq(Int \X Int)
        /\ \A t \in Int : InGaps(noted, t)
                            => InGaps(noted', t)
    BY <1>3, <2>1, <2>2, WithGapCovers
  <2>4. UNCHANGED <<end, offset, hasBase, losing, lostFrom, skipped>> BY <1>1
  <2>5. (ctxDone => ctxDone') /\ Handed \subseteq Handed' /\ feed' = feed BY <1>1, <1>same
  <2>6. QED BY <2>3, <2>4, <2>5, AccountKept
<1>4. QED BY <1>1, <1>2, <1>3

-----------------------------------------------------------------------------
(* The account over the steps of a run *)

\* What says no word of the account.
Silent ==
  /\ UNCHANGED LostVars
  /\ ctxDone' = ctxDone \/ ctxDone'
  /\ UNCHANGED <<got, input>>
  /\ \/ feed' = feed
     \/ feed \notin {"send", "blocked"} /\ feed' \notin {"send", "blocked"}

\* send that is cancelled gives its frame up with the run.
LEMMA SendCancelledKeeps == ASSUME LostInv, SendCancelled PROVE LostInv'
<1>1. /\ feed' = "ending" /\ UNCHANGED <<LostVars, got, input, ctxDone>>
      /\ ctxDone
  BY DEF SendCancelled, LostVars, gapVars, streamVars, runVars
<1>same. Handed' = Handed BY <1>1, HandedSame
<1>2. ctxDone' BY <1>1
<1>3. QED BY <1>1, <1>2, <1>same DEF LostInv, LostTypes, LostVars, Accounted

\* The account is kept by every step.
LEMMA AccountStep == ASSUME LostInv, StreamTypes, [Next]_vars PROVE LostInv'
<1> USE DEF Silent, LostVars, gapVars, streamVars, runVars, feedVars
<1>1. CASE \E jump \in 0 .. 1 : Hear(jump) BY <1>1, HearKeeps
<1>2. CASE SendLost \/ SendDown BY <1>2, LoseKeeps
<1>3. CASE SendTo BY <1>3, SendToKeeps
<1>4. CASE Sent BY <1>4, SentKeeps
<1>5. CASE SendCancelled BY <1>5, SendCancelledKeeps
<1>6. CASE \E lost \in 0 .. 1 : SourceStarts(lost) BY <1>6, SourceStartsKeeps
<1>7. CASE Switch BY <1>7, SwitchKeepsAccount
<1>8. ASSUME \/ EndInput \/ PumpEnds \/ SourceGivesUp \/ (\E healthy \in BOOLEAN : RestartSource(healthy))
             \/ SourceNext \/ SourceExhausted \/ SourceWaitStops \/ SourceStartFails
      PROVE  Silent
  BY <1>8 DEF EndInput, PumpEnds, SourceGivesUp, RestartSource, SourceNext, SourceExhausted,
              SourceWaitStops, SourceStartFails, Leave
<1>9. ASSUME \/ EventsEnd \/ Detach \/ DetachDown
             \/ (\E healthy \in BOOLEAN : Crashed(healthy)) \/ NotCrashed
             \/ (\E hard \in BOOLEAN : LoopAsks(hard)) \/ ProviderNext \/ ProviderExhausted
             \/ WaitElapses \/ WaitKicked \/ WaitStops \/ ConsumeFallsBack \/ ConsumeRefused
      PROVE  Silent
  BY <1>9 DEF EventsEnd, Detach, DetachDown, Crashed, NotCrashed, LoopAsks, ProviderNext,
              ProviderExhausted, WaitElapses, WaitKicked, WaitStops, ConsumeFallsBack, ConsumeRefused
<1>10. ASSUME LoopSwitches \/ Reopen \/ Name \/ Attach \/ Drained PROVE Silent
  BY <1>10 DEF LoopSwitches, Reopen, Opened, OpenFails, Name, Attach, Drained
<1>11. ASSUME Unavailable \/ TooLate \/ Kick PROVE Silent
  BY <1>11 DEF Unavailable, TooLate, Kick
<1>12. ASSUME \/ \E how \in {"failed", "ended"} : SourceEnds(how)
              \/ \E s \in 1 .. Len(streams) : StreamCrashes(s) \/ StreamEnds(s)
              \/ \E e \in 1 .. MaxFrames : Final(e)
              \/ \E hard \in BOOLEAN : StreamError(hard) \/ TranslationFails(hard)
              \/ CooldownOver \/ ProbeAgain
       PROVE  Silent
  BY <1>12 DEF SourceEnds, StreamCrashes, StreamEnds, Final, StreamError, TranslationFails,
               CooldownOver, ProbeAgain
<1>13. ASSUME Pause \/ Resume \/ Stop \/ StopTimeout \/ UNCHANGED vars PROVE Silent
  BY <1>13 DEF Pause, Resume, Stop, StopTimeout, vars
<1>14. Silent => LostInv' BY AccountSame, HandedSame
<1>15. CASE \E s \in 1 .. Len(streams) : StreamTakes(s) BY <1>15, TakesKeeps
<1>16. QED
  BY <1>1, <1>2, <1>3, <1>4, <1>5, <1>6, <1>7, <1>8, <1>9, <1>10, <1>11, <1>12, <1>13, <1>14, <1>15
  DEF Next, Feed, Consume, Fallback, Environment

\* At first no moment has passed.
LEMMA AccountInit == Init => LostInv
<1> SUFFICES ASSUME Init PROVE LostInv OBVIOUS
<1>1. /\ noted = <<>> /\ end = 0 /\ offset = 0 /\ lostFrom = 0 /\ hasBase = FALSE /\ losing = FALSE
      /\ feed = "read"
  BY DEF Init
<1>2. LostTypes
  <2>1. <<>> \in Seq(Int \X Int) OBVIOUS
  <2>2. noted \in Seq(Int \X Int) BY ONLY <1>1, <2>1
  <2>3. end \in Nat /\ offset \in Nat /\ lostFrom \in Int BY ONLY <1>1
  <2>4. hasBase \in BOOLEAN /\ losing \in BOOLEAN BY ONLY <1>1, Zenon
  <2>5. QED BY <2>2, <2>3, <2>4 DEF LostTypes
<1>3. QED BY <1>1, <1>2 DEF LostInv

-----------------------------------------------------------------------------
(* Streams over the steps of a run *)

\* The streams there were, maybe one of them ended or cancelled.
SameStreams ==
  /\ streams' \in Seq(StreamSet) /\ Len(streams') = Len(streams)
  /\ \A s \in 1 .. Len(streams) :
       /\ streams'[s].kind = streams[s].kind /\ streams'[s].prefix = streams[s].prefix
       /\ streams'[s].attached = streams[s].attached /\ streams'[s].closed = streams[s].closed

\* Consume stays where it is, or goes on with what it works on.
GoesOn ==
  \/ consume' = consume
  \/ /\ consume' \in Places /\ consume' \notin {"name", "attach"}
     /\ Looping' => Looping
     /\ Streaming' => Streaming

\* The parts of a stream that is there.
LEMMA StreamAt ==
  ASSUME StreamTypes, NEW s \in 1 .. Len(streams)
  PROVE  /\ streams[s] \in StreamSet /\ streams[s].kind \in Kinds
         /\ streams[s].prefix = <<streams[s].prefix[1], streams[s].prefix[2]>>
         /\ streams[s].prefix[2] \in Nat
<1>1. streams[s] \in StreamSet BY DEF StreamTypes
<1>2. streams[s].kind \in Kinds /\ streams[s].prefix \in Prefixes BY <1>1 DEF StreamSet
<1>3. PICK w \in {"first", "switch", "restart"}, n \in Nat : streams[s].prefix = <<w, n>>
  BY <1>2 DEF Prefixes
<1>4. QED BY <1>1, <1>2, <1>3

\* What leaves the names of the streams alone.
Nameless ==
  /\ SameStreams /\ GoesOn
  /\ link' \in {link, 0}
  /\ UNCHANGED <<cur, feed, on, sourceEnded, provider, loopKind, switches, restarts>>
  /\ lastFinal' \in Int
  /\ fb' = [who |-> fb'.who, switched |-> fb'.switched]
  /\ fb'.who = "consume" => consume' \in {"probe in events", "probe in loop"}

\* The names are kept when the streams are.
LEMMA NamelessKeeps == ASSUME ApartInv, Nameless PROVE ApartInv'
<1> USE DEF ApartInv, Nameless, SameStreams
<1>0. Len(streams) \in Nat /\ DOMAIN streams = 1 .. Len(streams) /\ DOMAIN streams' = 1 .. Len(streams)
  <2>1. streams \in Seq(StreamSet) /\ streams' \in Seq(StreamSet) /\ Len(streams') = Len(streams)
    BY DEF StreamTypes
  <2>2. QED BY ONLY <2>1
<1>1. StreamTypes'
  <2>1. consume' \in Places /\ (fb'.who = "consume" => Asking') BY DEF StreamTypes, GoesOn, Asking
  <2>2. link' \in 0 .. Len(streams') /\ cur' \in 1 .. Len(streams')
    <3>1. link \in 0 .. Len(streams) /\ cur \in 1 .. Len(streams) BY DEF StreamTypes
    <3>2. link' \in {link, 0} /\ cur' = cur /\ Len(streams') = Len(streams) OBVIOUS
    <3>3. QED BY ONLY <1>0, <3>1, <3>2
  <2>3. QED BY <2>1, <2>2 DEF StreamTypes
<1>2. InputsOpen' BY DEF InputsOpen
<1>3. LinkIsCurrent'
  <2>1. CASE link' = 0 BY <2>1 DEF LinkIsCurrent
  <2>2. CASE link' = link /\ link \in 1 .. Len(streams) BY <2>2 DEF LinkIsCurrent
  <2>3. link \in 0 .. Len(streams) /\ link' \in {link, 0} BY DEF StreamTypes
  <2>4. link' = 0 \/ (link' = link /\ link \in 1 .. Len(streams)) BY ONLY <1>0, <2>3
  <2>5. QED BY <2>1, <2>2, <2>4
<1>4. AudioNamed' BY DEF AudioNamed, Named
<1>5. OfThisSwitch' => OfThisSwitch BY DEF OfThisSwitch
<1>6. Fresh' BY <1>5 DEF Fresh, GoesOn, Named, StreamTypes
<1>7. SwitchedOnce' BY <1>5 DEF SwitchedOnce, GoesOn, Looping, Streaming, StreamTypes
<1>8. PrefixesUnique'
  <2>1. \A s \in 1 .. Len(streams) :
           streams'[s].prefix = streams[s].prefix /\ streams'[s].attached = streams[s].attached
    OBVIOUS
  <2>2. PrefixesUnique OBVIOUS
  <2>3. QED BY ONLY <1>0, <2>1, <2>2 DEF PrefixesUnique
<1>9. QED BY <1>1, <1>2, <1>3, <1>4, <1>6, <1>7, <1>8

\* A stream that ends, or is cancelled or down, keeps its name.
LEMMA MarkedKeeps ==
  ASSUME StreamTypes, NEW s \in 1 .. Len(streams),
         \/ streams' = [streams EXCEPT ![s].open = FALSE]
         \/ streams' = [streams EXCEPT ![s].cancelled = TRUE]
         \/ streams' = [streams EXCEPT ![s].down = TRUE]
  PROVE  SameStreams
<1>1. streams \in Seq(StreamSet) /\ streams[s] \in StreamSet BY DEF StreamTypes
<1>2. PICK r \in StreamSet :
        /\ streams' = [streams EXCEPT ![s] = r]
        /\ r.kind = streams[s].kind /\ r.prefix = streams[s].prefix
        /\ r.attached = streams[s].attached /\ r.closed = streams[s].closed
  <2>1. CASE streams' = [streams EXCEPT ![s].open = FALSE]
    <3>1. [streams[s] EXCEPT !.open = FALSE] \in StreamSet BY <1>1 DEF StreamSet
    <3>2. QED BY <1>1, <2>1, <3>1 DEF StreamSet
  <2>2. CASE streams' = [streams EXCEPT ![s].cancelled = TRUE]
    <3>1. [streams[s] EXCEPT !.cancelled = TRUE] \in StreamSet BY <1>1 DEF StreamSet
    <3>2. QED BY <1>1, <2>2, <3>1 DEF StreamSet
  <2>3. CASE streams' = [streams EXCEPT ![s].down = TRUE]
    <3>1. [streams[s] EXCEPT !.down = TRUE] \in StreamSet BY <1>1 DEF StreamSet
    <3>2. QED BY <1>1, <2>3, <3>1 DEF StreamSet
  <2>4. QED BY <2>1, <2>2, <2>3
<1>3. /\ streams' \in Seq(StreamSet) /\ Len(streams') = Len(streams)
      /\ \A q \in 1 .. Len(streams) : streams'[q] = IF q = s THEN r ELSE streams[q]
  BY <1>1, <1>2, ExceptSeq
<1>4. QED BY <1>2, <1>3 DEF SameStreams

\* What feed does to its place, and a source that starts again to the restarts.
FeedMoves ==
  /\ feed # "over" /\ feed' # "over"
  /\ feed' = "blocked" => on' = link /\ link # 0
  /\ UNCHANGED <<streams, link, cur, consume, lastFinal, provider, loopKind, switches, fb, sourceEnded>>
  /\ restarts' \in {restarts, restarts + 1}

\* Names are kept while feed moves.
LEMMA FeedKeeps == ASSUME ApartInv, FeedMoves PROVE ApartInv'
<1> USE DEF ApartInv, FeedMoves
<1>0. Len(streams) \in Nat /\ streams' = streams /\ restarts \in Nat /\ restarts' \in Nat
      /\ restarts <= restarts'
  BY DEF StreamTypes
<1>1. StreamTypes'
  <2>1. feed' = "blocked" => on' \in 1 .. Len(streams) BY <1>0 DEF StreamTypes
  <2>2. QED BY <1>0, <2>1 DEF StreamTypes, Asking
<1>2. InputsOpen' BY DEF InputsOpen
<1>3. \A s \in 1 .. Len(streams) : streams[s] \in StreamSet /\ streams[s].prefix[2] \in Nat
  BY StreamAt
<1>4. \A s \in 1 .. Len(streams) : Named(s) => Named(s)' BY <1>0, <1>3 DEF Named
<1>5. LinkIsCurrent' /\ PrefixesUnique' /\ (OfThisSwitch' => OfThisSwitch)
  BY DEF LinkIsCurrent, PrefixesUnique, OfThisSwitch
<1>6. AudioNamed' /\ Fresh' BY <1>0, <1>4, <1>5 DEF AudioNamed, Fresh, StreamTypes
<1>7. SwitchedOnce' BY <1>5 DEF SwitchedOnce, Looping, Streaming
<1>8. QED BY <1>1, <1>2, <1>5, <1>6, <1>7

\* The end of the source closes the input of the stream that is on.
LEMMA EndInputKeeps == ASSUME ApartInv, EndInput PROVE ApartInv'
<1> USE DEF ApartInv
<1>1. /\ streams' \in Seq(StreamSet) /\ Len(streams') = Len(streams)
      /\ \A s \in 1 .. Len(streams) :
           /\ streams'[s].kind = streams[s].kind /\ streams'[s].prefix = streams[s].prefix
           /\ streams'[s].attached = streams[s].attached
  <2>1. streams \in Seq(StreamSet) BY DEF StreamTypes
  <2>2. CASE link = 0 BY <2>1, <2>2 DEF EndInput
  <2>3. CASE link # 0
    <3>1. link \in 1 .. Len(streams) /\ streams[link] \in StreamSet BY <2>3 DEF StreamTypes
    <3>2. PICK r \in StreamSet :
            /\ streams' = [streams EXCEPT ![link] = r]
            /\ r.kind = streams[link].kind /\ r.prefix = streams[link].prefix
            /\ r.attached = streams[link].attached
      <4>1. [streams[link] EXCEPT !.closed = TRUE] \in StreamSet BY <3>1 DEF StreamSet
      <4>2. streams' = [streams EXCEPT ![link].closed = TRUE] BY <2>3 DEF EndInput
      <4>3. QED BY <2>1, <3>1, <4>1, <4>2 DEF StreamSet
    <3>3. QED BY <2>1, <3>1, <3>2, ExceptSeq
  <2>4. QED BY <2>2, <2>3
<1>2. /\ feed' = "over" /\ sourceEnded' = TRUE
      /\ UNCHANGED <<link, cur, consume, lastFinal, provider, loopKind, switches, restarts, fb>>
  BY DEF EndInput, consumeVars, fbVars, statusVars
<1>3. /\ Len(streams) \in Nat /\ DOMAIN streams = 1 .. Len(streams)
      /\ DOMAIN streams' = 1 .. Len(streams)
  <2>1. streams \in Seq(StreamSet) BY DEF StreamTypes
  <2>2. QED BY ONLY <1>1, <2>1
<1>4. StreamTypes' BY <1>1, <1>2 DEF StreamTypes, Asking
<1>5. InputsOpen' BY <1>2 DEF InputsOpen
<1>6. LinkIsCurrent'
  <2>1. link \in 0 .. Len(streams) BY DEF StreamTypes
  <2>2. link # 0 => link \in 1 .. Len(streams) BY ONLY <1>3, <2>1
  <2>3. QED BY <1>1, <1>2, <2>2 DEF LinkIsCurrent
<1>7. AudioNamed' /\ (OfThisSwitch' => OfThisSwitch) BY <1>1, <1>2 DEF AudioNamed, Named, OfThisSwitch
<1>8. Fresh' /\ SwitchedOnce'
  BY <1>1, <1>2, <1>7 DEF Fresh, SwitchedOnce, Named, Looping, Streaming, StreamTypes
<1>9. PrefixesUnique'
  <2>1. PrefixesUnique OBVIOUS
  <2>2. QED BY ONLY <1>1, <1>3, <2>1 DEF PrefixesUnique
<1>10. QED BY <1>4, <1>5, <1>6, <1>7, <1>8, <1>9

\* A crashed stream is replaced by one of its provider.
LEMMA CrashedKeeps == ASSUME ApartInv, NEW healthy \in BOOLEAN, Crashed(healthy) PROVE ApartInv'
<1> USE DEF ApartInv
<1>1. /\ consume = "check" /\ consume' = "loop" /\ loopKind' = streams[cur].kind
      /\ UNCHANGED <<streams, link, cur, feed, on, sourceEnded, lastFinal, provider, switches, restarts, fb>>
  BY DEF Crashed, streamVars, feedVars
<1>2. streams[cur].kind \in Kinds BY StreamAt DEF StreamTypes
<1>3. StreamTypes' BY <1>1, <1>2 DEF StreamTypes, Asking, Places
<1>4. InputsOpen' /\ LinkIsCurrent' /\ AudioNamed' /\ PrefixesUnique' /\ (OfThisSwitch' => OfThisSwitch)
  BY <1>1 DEF InputsOpen, LinkIsCurrent, AudioNamed, Named, PrefixesUnique, OfThisSwitch
<1>5. Fresh' BY <1>1 DEF Fresh
<1>6. SwitchedOnce' BY <1>1, <1>4 DEF SwitchedOnce, Looping, Streaming
<1>7. QED BY <1>3, <1>4, <1>5, <1>6

\* A stream that was opened has no audio, and no name yet.
OpensOne(why) ==
  /\ streams' = Append(streams, Stream(provider, <<why, 0>>, 0))
  /\ cur' = Len(streams) + 1 /\ consume' = "name"
  /\ UNCHANGED <<link, feed, on, sourceEnded, lastFinal, provider, switches, restarts, fb>>

\* A stream is opened for a switch that no stream with audio is named by.
LEMMA OpenedKeeps ==
  ASSUME ApartInv, ~Asking,
         NEW why \in {"switch", "restart"}, why = "switch" => ~OfThisSwitch,
         OpensOne(why), loopKind' = provider
  PROVE  ApartInv'
<1> USE DEF ApartInv, OpensOne
<1> DEFINE new == Stream(provider, <<why, 0>>, 0)
<1>1. streams \in Seq(StreamSet) /\ Len(streams) \in Nat /\ provider \in Kinds BY DEF StreamTypes
<1>2. new \in StreamSet BY <1>1 DEF Stream, StreamSet, Prefixes
<1>3. new.kind = provider /\ new.prefix = <<why, 0>> /\ ~new.attached /\ ~new.closed BY DEF Stream
<1>4. streams' = Append(streams, new) OBVIOUS
<1> HIDE DEF new
<1>5. /\ streams' \in Seq(StreamSet) /\ Len(streams') = Len(streams) + 1
      /\ \A s \in 1 .. Len(streams) : streams'[s] = streams[s]
      /\ streams'[Len(streams) + 1] = new
  BY ONLY <1>1, <1>2, <1>4, AppendProperties
<1>6. /\ DOMAIN streams = 1 .. Len(streams) /\ DOMAIN streams' = 1 .. Len(streams) + 1
      /\ \A s \in 1 .. Len(streams) + 1 : s = Len(streams) + 1 \/ s \in 1 .. Len(streams)
      /\ Len(streams) + 1 \in 1 .. Len(streams) + 1
      /\ \A s \in 1 .. Len(streams) : s \in 1 .. Len(streams) + 1
  BY ONLY <1>1, <1>5
<1>7. /\ link \in 0 .. Len(streams) /\ (link # 0 => link \in 1 .. Len(streams)) /\ Len(streams) >= 1
      /\ (feed = "blocked" => on \in 1 .. Len(streams))
  <2>1. link \in 0 .. Len(streams) /\ cur \in 1 .. Len(streams) /\ (feed = "blocked" => on \in 1 .. Len(streams))
    BY DEF StreamTypes
  <2>2. QED BY ONLY <1>1, <2>1
<1>8. StreamTypes'
  <2>1. cur' \in 1 .. Len(streams') /\ link' \in 0 .. Len(streams') BY ONLY OpensOne(why), <1>1, <1>5, <1>7 DEF OpensOne
  <2>2. feed' = "blocked" => on' \in 1 .. Len(streams') BY <1>5, <1>6, <1>7
  <2>3. QED BY <1>1, <1>5, <2>1, <2>2 DEF StreamTypes, Asking, Places
<1>9. InputsOpen' BY <1>3, <1>5, <1>6 DEF InputsOpen
<1>10. LinkIsCurrent' BY <1>5, <1>7 DEF LinkIsCurrent
<1>11. AudioNamed' BY <1>3, <1>5, <1>6 DEF AudioNamed, Named
<1>12. OfThisSwitch' => OfThisSwitch BY <1>3, <1>5, <1>6 DEF OfThisSwitch
<1>13. Fresh' 
  <2>1. cur' > 1 BY <1>1, <1>7
  <2>2. QED BY <1>3, <1>5, <1>12, <2>1 DEF Fresh
<1>14. SwitchedOnce' BY <1>3, <1>5, <1>12 DEF SwitchedOnce, Looping, Streaming
<1>15. PrefixesUnique'
  <2>1. PrefixesUnique OBVIOUS
  <2>2. QED BY ONLY <1>3, <1>5, <1>6, <2>1 DEF PrefixesUnique
<1>16. QED BY <1>8, <1>9, <1>10, <1>11, <1>13, <1>14, <1>15

\* The name is the switch's, which no stream with audio has, or one restart more.
LEMMA NameKeeps == ASSUME ApartInv, Name PROVE ApartInv'
<1> USE DEF ApartInv
<1>1. /\ consume = "name" /\ consume' = "attach"
      /\ UNCHANGED <<link, cur, feed, on, sourceEnded, lastFinal, provider, loopKind, switches, fb>>
  BY DEF Name, Goes, feedVars, fbVars
<1>2. PICK p \in Prefixes :
        /\ streams' = [streams EXCEPT ![cur].prefix = p]
        /\ \/ /\ streams[cur].prefix[1] = "switch" /\ p = <<"switch", switches>>
              /\ restarts' = restarts
           \/ p = <<"restart", restarts + 1>> /\ restarts' = restarts + 1
  <2>1. switches \in Nat /\ restarts + 1 \in Nat BY DEF StreamTypes
  <2>2. <<"switch", switches>> \in Prefixes /\ <<"restart", restarts + 1>> \in Prefixes
    BY ONLY <2>1 DEF Prefixes
  <2>3. QED BY <2>2 DEF Name, RestartNumber
<1>3. /\ streams \in Seq(StreamSet) /\ cur \in 1 .. Len(streams) /\ streams[cur] \in StreamSet
      /\ restarts \in Nat /\ restarts' \in Nat /\ restarts <= restarts' /\ switches \in Nat
  BY <1>2, StreamAt DEF StreamTypes
<1>4. PICK r \in StreamSet :
        /\ streams' = [streams EXCEPT ![cur] = r]
        /\ r.kind = streams[cur].kind /\ r.prefix = p
        /\ r.attached = streams[cur].attached /\ r.closed = streams[cur].closed
  <2>1. [streams[cur] EXCEPT !.prefix = p] \in StreamSet BY <1>3 DEF StreamSet
  <2>2. QED BY <1>2, <1>3, <2>1 DEF StreamSet
<1>5. /\ streams' \in Seq(StreamSet) /\ Len(streams') = Len(streams)
      /\ \A q \in 1 .. Len(streams) : streams'[q] = IF q = cur THEN r ELSE streams[q]
  BY <1>3, <1>4, ExceptSeq
<1>6. DOMAIN streams = 1 .. Len(streams) /\ DOMAIN streams' = 1 .. Len(streams)
  BY ONLY <1>3, <1>5
<1>7. ~r.attached /\ cur > 1 BY <1>1, <1>4 DEF Fresh
<1>8. StreamTypes' BY <1>1, <1>3, <1>5 DEF StreamTypes, Asking, Places
<1>9. InputsOpen' BY <1>1, <1>4, <1>5 DEF InputsOpen
<1>10. LinkIsCurrent' BY <1>1, <1>4, <1>5 DEF LinkIsCurrent, StreamTypes
<1>11. \A s \in 1 .. Len(streams) : streams[s].attached => Named(s) /\ s # cur
  BY <1>4, <1>7 DEF AudioNamed
<1>12. AudioNamed'
  <2>1. \A s \in 1 .. Len(streams) : streams[s].prefix[2] \in Nat BY StreamAt
  <2>2. QED BY <1>1, <1>3, <1>5, <1>7, <1>11, <2>1 DEF AudioNamed, Named
<1>13. Fresh'
  <2>1. Named(cur)' BY <1>1, <1>2, <1>3, <1>4, <1>5 DEF Named
  <2>2. ASSUME NEW s \in 1 .. Len(streams), streams[s].attached PROVE streams[s].prefix # p
    <3>1. Named(s) /\ streams[s].prefix[2] \in Nat BY <1>11, <2>2, StreamAt
    <3>2. CASE streams[cur].prefix[1] = "switch" /\ p = <<"switch", switches>>
      BY <1>1, <2>2, <3>2 DEF Fresh, OfThisSwitch
    <3>3. CASE p = <<"restart", restarts + 1>> BY <1>3, <3>1, <3>3 DEF Named
    <3>4. QED BY <1>2, <3>2, <3>3
  <2>3. QED BY <1>1, <1>3, <1>4, <1>5, <1>7, <2>1, <2>2 DEF Fresh
<1>14. OfThisSwitch' => OfThisSwitch BY <1>1, <1>5, <1>7 DEF OfThisSwitch
<1>15. SwitchedOnce' BY <1>1, <1>3, <1>4, <1>5, <1>14 DEF SwitchedOnce, Looping, Streaming
<1>16. PrefixesUnique'
  <2>1. PrefixesUnique OBVIOUS
  <2>2. QED BY ONLY <1>5, <1>6, <1>7, <2>1 DEF PrefixesUnique
<1>17. QED BY <1>8, <1>9, <1>10, <1>12, <1>13, <1>15, <1>16

\* A stream of the provider the run is on is attached, another one is cancelled.
LEMMA AttachKeeps == ASSUME ApartInv, LostTypes, Attach PROVE ApartInv'
<1> USE DEF ApartInv
<1>1. /\ consume = "attach" /\ consume' = "events"
      /\ UNCHANGED <<cur, feed, on, sourceEnded, lastFinal, provider, loopKind, switches, restarts, fb>>
  BY DEF Attach, Goes, feedVars, fbVars, statusVars
<1>2. /\ streams \in Seq(StreamSet) /\ cur \in 1 .. Len(streams) /\ streams[cur] \in StreamSet
      /\ fb = [who |-> fb.who, switched |-> fb.switched] /\ fb.who # "consume" /\ lastFinal \in Int
  BY <1>1, StreamAt DEF StreamTypes, Asking
<1>3. CASE Outdated(cur)
  <2>1. streams' = [streams EXCEPT ![cur].cancelled = TRUE] /\ link' = link BY <1>3 DEF Attach
  <2>2. SameStreams BY <1>2, <2>1, MarkedKeeps
  <2>3. GoesOn BY <1>1 DEF GoesOn, Looping, Streaming, Places
  <2>4. Nameless BY <1>1, <1>2, <2>1, <2>2, <2>3 DEF Nameless
  <2>5. QED BY <2>4, NamelessKeeps
<1>4. CASE ~Outdated(cur)
  <2>1. PICK c \in Int : c = Clock BY DEF LostTypes, Clock, Later
  <2>2. sourceEnded \in BOOLEAN BY DEF InputsOpen
  <2>3. /\ streams' = [streams EXCEPT ![cur].attached = TRUE, ![cur].from = c,
                                      ![cur].closed = sourceEnded]
        /\ link' = cur
    BY <1>4, <2>1 DEF Attach, InputClosed
  <2>4. PICK yes \in BOOLEAN : yes = TRUE /\ yes BY Zenon
  <2>5. PICK r \in StreamSet :
          /\ streams' = [streams EXCEPT ![cur] = r]
          /\ r.kind = streams[cur].kind /\ r.prefix = streams[cur].prefix
          /\ r.attached /\ r.closed = sourceEnded
    <3>1. [streams[cur] EXCEPT !.attached = yes, !.from = c, !.closed = sourceEnded] \in StreamSet
      BY <1>2, <2>1, <2>2, <2>4 DEF StreamSet
    <3>2. streams' = [streams EXCEPT ![cur].attached = yes, ![cur].from = c,
                                     ![cur].closed = sourceEnded]
      BY <2>3, <2>4
    <3>3. QED BY <1>2, <2>4, <3>1, <3>2 DEF StreamSet
  <2>6. /\ streams' \in Seq(StreamSet) /\ Len(streams') = Len(streams)
        /\ \A q \in 1 .. Len(streams) : streams'[q] = IF q = cur THEN r ELSE streams[q]
    BY <1>2, <2>5, ExceptSeq
  <2>7. DOMAIN streams = 1 .. Len(streams) /\ DOMAIN streams' = 1 .. Len(streams)
        /\ cur \in 0 .. Len(streams)
    BY ONLY <1>2, <2>6
  <2>8. streams[cur].kind = provider BY <1>4 DEF Outdated
  <2>9. /\ Named(cur)
        /\ \A s \in 1 .. Len(streams) : streams[s].attached => streams[s].prefix # streams[cur].prefix
    BY <1>1 DEF Fresh
  <2>10. StreamTypes' BY <1>1, <1>2, <2>3, <2>6, <2>7 DEF StreamTypes, Asking, Places
  <2>11. InputsOpen' BY <1>1, <2>5, <2>6 DEF InputsOpen
  <2>12. LinkIsCurrent' BY <1>1, <1>2, <2>3, <2>5, <2>6, <2>8 DEF LinkIsCurrent
  <2>13. AudioNamed' BY <1>1, <2>5, <2>6, <2>9 DEF AudioNamed, Named
  <2>14. Fresh' BY <1>1 DEF Fresh
  <2>15. SwitchedOnce' BY <1>1, <1>2, <2>5, <2>6, <2>8 DEF SwitchedOnce, Looping, Streaming
  <2>16. PrefixesUnique'
    <3>1. PrefixesUnique OBVIOUS
    <3>2. QED BY ONLY <2>5, <2>6, <2>7, <2>9, <3>1 DEF PrefixesUnique
  <2>17. QED BY <2>10, <2>11, <2>12, <2>13, <2>14, <2>15, <2>16
<1>5. QED BY <1>3, <1>4

\* No stream with audio is named by the switch to come.
LEMMA SwitchKeepsApart == ASSUME ApartInv, Switch PROVE ApartInv'
<1> USE DEF ApartInv
<1>1. /\ fb' = [fb EXCEPT !.switched = TRUE] /\ provider' = alternate(provider)
      /\ switches' = switches + 1
      /\ link' = 0 /\ (streams' = streams \/ (link # 0 /\ streams' = Cut(link)))
      /\ UNCHANGED <<consume, cur, feed, on, sourceEnded, lastFinal, loopKind, restarts>>
  BY DEF Switch, feedVars, consumeVars
<1>2. streams \in Seq(StreamSet) /\ link \in 0 .. Len(streams) BY DEF StreamTypes
<1>3. SameStreams
  <2>1. CASE streams' = streams BY <1>2, <2>1 DEF SameStreams
  <2>2. CASE link # 0 /\ streams' = Cut(link)
    <3>1. link \in 1 .. Len(streams) BY ONLY <1>2, <2>2
    <3>2. QED BY <2>2, <3>1, MarkedKeeps DEF Cut
  <2>3. QED BY <1>1, <2>1, <2>2
<1>4. DOMAIN streams = 1 .. Len(streams) /\ DOMAIN streams' = 1 .. Len(streams)
  <2>1. streams' \in Seq(StreamSet) /\ Len(streams') = Len(streams) BY <1>3 DEF SameStreams
  <2>2. QED BY ONLY <1>2, <2>1
<1>5. provider' \in Kinds /\ switches' \in Nat /\ switches \in Nat BY <1>1 DEF StreamTypes, alternate, Kinds
<1>6. StreamTypes'
  <2>1. fb = [who |-> fb.who, switched |-> fb.switched] BY DEF StreamTypes
  <2>2. fb' = [who |-> fb'.who, switched |-> fb'.switched] /\ fb'.who = fb.who BY ONLY <1>1, <2>1
  <2>3. Asking' = Asking BY <1>1 DEF Asking
  <2>4. link' \in 0 .. Len(streams') /\ streams' \in Seq(StreamSet) /\ Len(streams') = Len(streams)
    <3>1. streams' \in Seq(StreamSet) /\ Len(streams') = Len(streams) BY <1>3 DEF SameStreams
    <3>2. QED BY ONLY <1>1, <1>2, <3>1
  <2>5. QED BY <1>1, <1>5, <2>2, <2>3, <2>4 DEF StreamTypes
<1>7. InputsOpen' BY <1>1, <1>3 DEF InputsOpen, SameStreams
<1>8. LinkIsCurrent' BY <1>1 DEF LinkIsCurrent
<1>9. \A s \in 1 .. Len(streams) : streams[s].prefix[2] \in Nat BY StreamAt
<1>10. \A s \in 1 .. Len(streams) : Named(s) => Named(s)'
  BY <1>1, <1>3, <1>5, <1>9 DEF Named, SameStreams
<1>11. AudioNamed' BY <1>3, <1>10 DEF AudioNamed, SameStreams
<1>12. ~OfThisSwitch'
  <2>1. \A s \in 1 .. Len(streams) : streams[s].attached => streams[s].prefix # <<"switch", switches + 1>>
    BY <1>5, <1>9 DEF AudioNamed, Named
  <2>2. QED BY <1>1, <1>3, <2>1 DEF OfThisSwitch, SameStreams
<1>13. Fresh' BY <1>1, <1>3, <1>10, <1>12 DEF Fresh, SameStreams, StreamTypes
<1>14. SwitchedOnce' BY <1>12 DEF SwitchedOnce
<1>15. PrefixesUnique'
  <2>1. PrefixesUnique OBVIOUS
  <2>2. QED BY ONLY <1>3, <1>4, <2>1 DEF PrefixesUnique, SameStreams
<1>16. QED BY <1>6, <1>7, <1>8, <1>11, <1>13, <1>14, <1>15

\* A restart that finds the provider gone over works on the new one.
LEMMA LoopSwitchesKeeps == ASSUME ApartInv, LoopSwitches PROVE ApartInv'
<1>1. /\ consume = "loop" /\ loopKind' = provider /\ provider # loopKind
      /\ UNCHANGED <<link, feed, on, sourceEnded, lastFinal, provider, switches, restarts, fb>>
  BY DEF LoopSwitches, Opened, OpenFails, feedVars, fbVars
<1>2. ~Asking /\ ~OfThisSwitch BY <1>1 DEF ApartInv, Asking, SwitchedOnce, Looping
<1>3. CASE Opened("switch")
  <2>1. OpensOne("switch") BY <1>1, <1>3 DEF OpensOne, Opened
  <2>2. QED BY <1>1, <1>2, <2>1, OpenedKeeps
<1>4. CASE OpenFails /\ consume' = "next"
  <2> USE DEF ApartInv
  <2>1. UNCHANGED <<streams, cur>> BY <1>4 DEF OpenFails
  <2>2. StreamTypes' BY <1>1, <1>2, <1>4, <2>1 DEF StreamTypes, Asking, Places
  <2>3. InputsOpen' /\ LinkIsCurrent' /\ AudioNamed' /\ PrefixesUnique' /\ (OfThisSwitch' => OfThisSwitch)
    BY <1>1, <2>1 DEF InputsOpen, LinkIsCurrent, AudioNamed, Named, PrefixesUnique, OfThisSwitch
  <2>4. Fresh' /\ SwitchedOnce' BY <1>2, <1>4, <2>3 DEF Fresh, SwitchedOnce
  <2>5. QED BY <2>2, <2>3, <2>4
<1>5. QED BY <1>3, <1>4 DEF LoopSwitches

\* A restart of the same provider opens a stream, or tries again.
LEMMA ReopenKeeps == ASSUME ApartInv, Reopen PROVE ApartInv'
<1>1. /\ consume = "open" /\ UNCHANGED loopKind
      /\ UNCHANGED <<link, feed, on, sourceEnded, lastFinal, provider, switches, restarts, fb>>
  BY DEF Reopen, Opened, OpenFails, feedVars, fbVars
<1>2. ~Asking BY <1>1 DEF Asking
<1>3. CASE provider = loopKind /\ Opened("restart")
  <2>1. OpensOne("restart") BY <1>1, <1>3 DEF OpensOne, Opened
  <2>2. QED BY <1>1, <1>2, <1>3, <2>1, OpenedKeeps
<1>4. CASE consume' = "loop" /\ UNCHANGED <<streams, cur>>
  <2>1. SameStreams /\ lastFinal \in Int /\ fb = [who |-> fb.who, switched |-> fb.switched]
        /\ fb.who # "consume"
    BY <1>2, <1>4 DEF SameStreams, ApartInv, StreamTypes
  <2>2. Nameless BY <1>1, <1>4, <2>1 DEF Nameless, GoesOn, Looping, Streaming, Places
  <2>3. QED BY <2>2, NamelessKeeps
<1>5. QED BY <1>3, <1>4 DEF Reopen, OpenFails

\* What goes on as it was.
LEMMA UnchangedStreams ==
  ASSUME ApartInv
  PROVE  /\ streams' = streams => SameStreams
         /\ lastFinal \in Int /\ fb = [who |-> fb.who, switched |-> fb.switched]
         /\ fb.who = "consume" => consume \in {"probe in events", "probe in loop"}
BY DEF ApartInv, StreamTypes, SameStreams, Asking

\* The streams go on without feed and consume.
LEMMA StreamsKeep ==
  ASSUME ApartInv, NEW s \in 1 .. Len(streams), StreamCrashes(s) \/ StreamEnds(s)
  PROVE  ApartInv'
<1>1. streams' = [streams EXCEPT ![s].open = FALSE]
      /\ UNCHANGED <<link, feed, on, sourceEnded, consume, cur, loopKind, lastFinal, provider,
                     switches, restarts, fb>>
  BY DEF StreamCrashes, StreamEnds, feedVars, consumeVars, fbVars, statusVars
<1>2. SameStreams BY <1>1, MarkedKeeps DEF ApartInv
<1>3. Nameless BY <1>1, <1>2, UnchangedStreams DEF Nameless, GoesOn
<1>4. QED BY <1>3, NamelessKeeps

\* detach leaves the stream its name.
LEMMA DetachKeeps == ASSUME ApartInv, Detach \/ DetachDown PROVE ApartInv'
<1>1. /\ \/ streams' = [streams EXCEPT ![cur].cancelled = TRUE]
         \/ streams' = [streams EXCEPT ![cur].down = TRUE]
      /\ link' \in {link, 0}
      /\ \/ consume = "detach" /\ consume' = "down"
         \/ consume = "down" /\ consume' = "check"
      /\ UNCHANGED <<feed, on, sourceEnded, cur, loopKind, lastFinal, provider, switches, restarts, fb>>
  BY DEF Detach, DetachDown, Goes, feedVars, consumeVars, fbVars, statusVars
<1>2. cur \in 1 .. Len(streams) BY DEF ApartInv, StreamTypes
<1>3. SameStreams BY <1>1, <1>2, MarkedKeeps DEF ApartInv
<1>4. GoesOn BY <1>1 DEF GoesOn, Looping, Streaming, Places
<1>5. Nameless BY <1>1, <1>3, <1>4, UnchangedStreams DEF Nameless
<1>6. QED BY <1>5, NamelessKeeps

\* Consume goes from place to place.
Moves ==
  /\ \/ consume = "events" /\ consume' \in {"events", "probe in events", "detach"}
     \/ consume = "check" /\ consume' = "drain"
     \/ consume = "loop" /\ consume' \in {"probe in loop", "next"}
     \/ consume = "next" /\ consume' \in {"wait", "drain"}
     \/ consume = "wait" /\ consume' \in {"open", "drain"}
     \/ consume = "drain" /\ consume' = "over"
     \/ consume = "probe in events" /\ consume' \in {"detach", "events"}
     \/ consume = "probe in loop" /\ consume' \in {"loop", "next"}
  /\ fb'.who = "consume" => fb.who = "consume" /\ ~Asking

\* What decides on a fallback.
Decides ==
  /\ consume' = consume
  /\ fb' = [who |-> fb'.who, switched |-> fb'.switched] 
  /\ fb'.who = "consume" => Asking \/ fb.who = "consume"

\* Places and decisions name no stream.
LEMMA MovesKeep ==
  ASSUME ApartInv,
         UNCHANGED <<streams, link, feed, on, sourceEnded, cur, loopKind, provider, switches, restarts>>,
         lastFinal' \in Int, (Moves /\ (fb' = fb \/ fb' = NoFallback)) \/ Decides
  PROVE  ApartInv'
<1>1. SameStreams BY UnchangedStreams
<1>2. CASE Moves /\ (fb' = fb \/ fb' = NoFallback)
  <2>1. GoesOn BY <1>2 DEF Moves, GoesOn, Looping, Streaming, Places
  <2>2. fb' = [who |-> fb'.who, switched |-> fb'.switched] BY <1>2, UnchangedStreams DEF NoFallback
  <2>3. fb'.who # "consume" BY <1>2, UnchangedStreams DEF Moves, Asking
  <2>4. Nameless BY <1>1, <2>1, <2>2, <2>3 DEF Nameless
  <2>5. QED BY <2>4, NamelessKeeps
<1>3. CASE Decides
  <2>1. Nameless BY <1>1, <1>3, UnchangedStreams DEF Decides, Nameless, GoesOn, Asking
  <2>2. QED BY <2>1, NamelessKeeps
<1>4. QED BY <1>2, <1>3

\* What places and decisions leave alone.
Rest == <<streams, link, feed, on, sourceEnded, cur, loopKind, provider, switches, restarts>>

\* The streams stay apart with every step.
LEMMA ApartStep == ASSUME ApartInv, LostTypes, [Next]_vars PROVE ApartInv'
<1> USE DEF feedVars, streamVars, consumeVars, fbVars, statusVars
<1>1. ASSUME \/ \E jump \in 0 .. 1 : Hear(jump)
             \/ SendLost \/ SendTo \/ Sent \/ SendDown \/ SendCancelled \/ PumpEnds \/ SourceGivesUp
             \/ \E healthy \in BOOLEAN : RestartSource(healthy)
             \/ SourceNext \/ SourceExhausted \/ SourceWaitStops \/ SourceStartFails
             \/ \E lost \in 0 .. 1 : SourceStarts(lost)
      PROVE  FeedMoves
  <2>1. CASE (\E jump \in 0 .. 1 : Hear(jump)) \/ SendLost BY <2>1 DEF FeedMoves, Hear, SendLost
  <2>2. CASE SendTo \/ Sent \/ SendDown \/ SendCancelled
    BY <2>2 DEF FeedMoves, SendTo, Sent, SendDown, SendCancelled
  <2>3. CASE PumpEnds \/ SourceGivesUp \/ SourceExhausted \/ SourceWaitStops
    BY <2>3 DEF FeedMoves, PumpEnds, SourceGivesUp, SourceExhausted, SourceWaitStops, Leave
  <2>4. CASE (\E healthy \in BOOLEAN : RestartSource(healthy)) \/ SourceNext \/ SourceStartFails
    BY <2>4 DEF FeedMoves, RestartSource, SourceNext, SourceStartFails
  <2>5. CASE \E lost \in 0 .. 1 : SourceStarts(lost) BY <2>5 DEF FeedMoves, SourceStarts
  <2>6. QED BY <1>1, <2>1, <2>2, <2>3, <2>4, <2>5
<1>2. CASE EndInput BY <1>2, EndInputKeeps
<1>3. CASE \E healthy \in BOOLEAN : Crashed(healthy) BY <1>3, CrashedKeeps
<1>4. CASE LoopSwitches BY <1>4, LoopSwitchesKeeps
<1>5. CASE Reopen BY <1>5, ReopenKeeps
<1>6. CASE Name BY <1>6, NameKeeps
<1>7. CASE Attach BY <1>7, AttachKeeps
<1>8. CASE Switch BY <1>8, SwitchKeepsApart
<1>9. CASE Detach \/ DetachDown BY <1>9, DetachKeeps
<1>10. CASE \E s \in 1 .. Len(streams) : StreamCrashes(s) \/ StreamEnds(s) BY <1>10, StreamsKeep
<1>11. ASSUME \/ EventsEnd \/ NotCrashed \/ (\E hard \in BOOLEAN : LoopAsks(hard) \/ StreamError(hard))
              \/ ProviderNext \/ ProviderExhausted \/ WaitElapses \/ WaitKicked \/ WaitStops \/ Drained
       PROVE  UNCHANGED <<Rest, lastFinal, fb>> /\ Moves
  <2>1. UNCHANGED <<Rest, lastFinal, fb>>
    BY <1>11 DEF Rest, EventsEnd, NotCrashed, LoopAsks, StreamError, ProviderNext, ProviderExhausted,
                 WaitElapses, WaitKicked, WaitStops, Drained, Goes
  <2>2. /\ \/ consume = "events" /\ consume' \in {"events", "probe in events", "detach"}
           \/ consume = "check" /\ consume' = "drain"
           \/ consume = "loop" /\ consume' \in {"probe in loop", "next"}
           \/ consume = "next" /\ consume' \in {"wait", "drain"}
           \/ consume = "wait" /\ consume' \in {"open", "drain"}
           \/ consume = "drain" /\ consume' = "over"
        /\ ~Asking
    BY <1>11 DEF EventsEnd, NotCrashed, LoopAsks, StreamError, ProviderNext, ProviderExhausted,
                 WaitElapses, WaitKicked, WaitStops, Drained, Goes, Asking
  <2>3. QED BY <2>1, <2>2 DEF Moves
<1>12. ASSUME ConsumeRefused PROVE UNCHANGED <<Rest, lastFinal, fb>> /\ Moves
  BY <1>12 DEF ConsumeRefused, AfterFallback, Rest, Moves, Asking
<1>13. ASSUME Unavailable \/ TooLate \/ Kick
       PROVE  UNCHANGED <<Rest, lastFinal>> /\ fb' = NoFallback /\ (Moves \/ Decides)
  <2>1. UNCHANGED <<Rest, lastFinal>> /\ fb' = NoFallback
        /\ ((fb.who = "consume" /\ (AfterFallback(TRUE) \/ AfterFallback(FALSE))) \/ consume' = consume)
    BY <1>13 DEF Unavailable, TooLate, Kick, Released, Rest
  <2>2. CASE consume' = consume BY <2>1, <2>2 DEF Decides, NoFallback
  <2>3. CASE fb.who = "consume" /\ (AfterFallback(TRUE) \/ AfterFallback(FALSE))
    <3>1. Asking BY <2>3 DEF ApartInv, StreamTypes
    <3>2. \/ consume = "probe in events" /\ consume' \in {"detach", "events"}
          \/ consume = "probe in loop" /\ consume' \in {"loop", "next"}
      BY <2>3, <3>1 DEF AfterFallback, Asking
    <3>3. QED BY <2>1, <3>2 DEF Moves, NoFallback
  <2>4. QED BY <2>1, <2>2, <2>3
<1>14. ASSUME ConsumeFallsBack \/ \E hard \in BOOLEAN : TranslationFails(hard)
       PROVE  UNCHANGED <<Rest, lastFinal>> /\ Decides
  <2>1. UNCHANGED <<Rest, lastFinal, consume>> BY <1>14 DEF ConsumeFallsBack, TranslationFails, Rest
  <2>2. \/ fb' = [who |-> "consume", switched |-> FALSE] /\ Asking
        \/ fb' = [who |-> "translator", switched |-> FALSE]
        \/ fb' = fb
    BY <1>14 DEF ConsumeFallsBack, TranslationFails
  <2>3. fb = [who |-> fb.who, switched |-> fb.switched] BY UnchangedStreams
  <2>4. /\ fb' = [who |-> fb'.who, switched |-> fb'.switched]
        /\ fb'.who = "consume" => Asking \/ fb.who = "consume"
    BY ONLY <2>2, <2>3
  <2>5. QED BY <2>1, <2>4 DEF Decides
<1>15. ASSUME NEW e \in 1 .. MaxFrames, Final(e) PROVE UNCHANGED <<Rest, fb>> /\ lastFinal' \in Int /\ Decides
  <2>1. lastFinal' = Later(lastFinal, e) /\ e \in Int /\ lastFinal \in Int
    BY <1>15, UnchangedStreams, PipelineAssumption DEF Final
  <2>2. lastFinal' \in Int BY ONLY <2>1 DEF Later
  <2>3. UNCHANGED <<Rest, fb, consume>> BY <1>15 DEF Final, Rest
  <2>4. QED BY <2>2, <2>3, UnchangedStreams DEF Decides
<1>16. ASSUME \/ \E how \in {"failed", "ended"} : SourceEnds(how)
              \/ \E s \in 1 .. Len(streams) : StreamTakes(s)
              \/ CooldownOver \/ ProbeAgain \/ Pause \/ Resume \/ Stop \/ StopTimeout
              \/ UNCHANGED vars
       PROVE  UNCHANGED <<Rest, lastFinal>> /\ Decides
  <2>1. UNCHANGED <<Rest, lastFinal, fb, consume>>
    BY <1>16 DEF SourceEnds, StreamTakes, CooldownOver, ProbeAgain, Pause, Resume, Stop, StopTimeout, vars, Rest
  <2>2. QED BY <2>1, UnchangedStreams DEF Decides
<1>17. FeedMoves => ApartInv' BY FeedKeeps
<1>18. ASSUME UNCHANGED Rest, lastFinal' \in Int, (Moves /\ (fb' = fb \/ fb' = NoFallback)) \/ Decides
       PROVE  ApartInv'
  BY <1>18, MovesKeep DEF Rest
<1>19. lastFinal \in Int BY UnchangedStreams
<1>20. QED
  BY <1>1, <1>2, <1>3, <1>4, <1>5, <1>6, <1>7, <1>8, <1>9, <1>10, <1>11, <1>12, <1>13, <1>14, <1>15,
     <1>16, <1>17, <1>18, <1>19
  DEF Next, Feed, Consume, Fallback, Environment

\* The first stream is attached under its own name.
LEMMA ApartInit == Init => ApartInv
<1> SUFFICES ASSUME Init PROVE ApartInv OBVIOUS
<1>1. PICK yes \in BOOLEAN : yes = TRUE /\ yes BY Zenon
<1>2. PICK no \in BOOLEAN : no = FALSE /\ ~no BY Zenon
<1>3. /\ switches \in Nat /\ provider \in Kinds /\ loopKind \in Kinds /\ restarts = 0
      /\ link = 1 /\ cur = 1 /\ feed = "read" /\ consume = "events" /\ lastFinal = 0
      /\ fb = [who |-> "none", switched |-> FALSE] /\ sourceEnded = FALSE
      /\ provider = loopKind
  BY DEF Init, NoFallback, Kinds
<1> DEFINE first == [kind |-> provider, prefix |-> <<"first", 0>>, from |-> 0, attached |-> yes, open |-> yes,
                     closed |-> no, cancelled |-> no, down |-> no]
<1>4. first \in StreamSet
  <2>1. <<"first", 0>> \in Prefixes BY DEF Prefixes
  <2>2. provider \in Kinds BY <1>3
  <2>3. yes \in BOOLEAN /\ no \in BOOLEAN BY <1>1, <1>2
  <2>4. QED BY <2>1, <2>2, <2>3 DEF StreamSet
<1>5. streams = <<first>>
  <2>1. Stream(provider, <<"first", 0>>, 0)
          = [kind |-> provider, prefix |-> <<"first", 0>>, from |-> 0, attached |-> no, open |-> yes,
             closed |-> no, cancelled |-> no, down |-> no]
    <3>1. no = FALSE /\ yes = TRUE BY <1>1, <1>2
    <3>2. QED BY ONLY <3>1, Zenon DEF Stream
  <2>2. streams = <<[Stream(provider, <<"first", 0>>, 0) EXCEPT !.attached = yes]>> BY <1>1 DEF Init
  <2>3. first = [Stream(provider, <<"first", 0>>, 0) EXCEPT !.attached = yes]
    BY ONLY <2>1 DEF first
  <2>4. QED BY ONLY <2>2, <2>3
<1>6. first.kind = provider /\ first.prefix = <<"first", 0>> /\ first.attached /\ ~first.closed
  BY <1>1, <1>2
<1> HIDE DEF first
<1>7. /\ streams \in Seq(StreamSet) /\ Len(streams) = 1 /\ streams[1] = first
      /\ DOMAIN streams = 1 .. 1
  BY ONLY <1>4, <1>5
<1>8. \A s \in 1 .. 1 : s = 1 OBVIOUS
<1>9. StreamTypes
  <2>1. link \in 0 .. Len(streams) /\ cur \in 1 .. Len(streams) BY <1>3, <1>7
  <2>2. fb = [who |-> fb.who, switched |-> fb.switched] /\ fb.who # "consume" BY ONLY <1>3
  <2>3. QED BY <1>3, <1>7, <2>1, <2>2 DEF StreamTypes, Places
<1>10. InputsOpen
  <2>1. sourceEnded \in BOOLEAN /\ ~sourceEnded BY <1>3, Zenon
  <2>2. QED BY <1>6, <1>7, <1>8, <2>1 DEF InputsOpen
<1>11. LinkIsCurrent /\ AudioNamed /\ PrefixesUnique
  BY <1>3, <1>6, <1>7, <1>8 DEF LinkIsCurrent, AudioNamed, Named, PrefixesUnique
<1>12. Fresh BY <1>3 DEF Fresh
<1>13. SwitchedOnce BY <1>3, <1>6, <1>7, <1>8 DEF SwitchedOnce, OfThisSwitch, Looping, Streaming
<1>14. QED BY <1>9, <1>10, <1>11, <1>12, <1>13 DEF ApartInv

-----------------------------------------------------------------------------
(* What is in the inputs *)

\* Frames are put into an input that has room.
InputInv ==
  /\ IsFiniteSet(input)
  /\ \A s \in Int : Cardinality(Waiting(s)) <= InputBuffer

\* A part of the inputs has a number of frames.
LEMMA WaitingFinite ==
  ASSUME NEW Q, IsFiniteSet(Q), NEW s
  PROVE  LET W == {q \in Q : q[1] = s} IN IsFiniteSet(W) /\ Cardinality(W) \in Nat
BY FS_Subset, FS_CardinalityType

\* Sending puts one frame into the input it has looked at.
LEMMA SentFits == ASSUME InputInv, StreamTypes, Sent PROVE InputInv'
<1> USE PipelineAssumption
<1>1. /\ input' = input \cup {<<on, end - 1>>} /\ Cardinality(Waiting(on)) < InputBuffer
      /\ feed = "blocked"
  BY DEF Sent
<1>2. IsFiniteSet(input') BY <1>1, FS_AddElement DEF InputInv
<1>3. ASSUME NEW s \in Int PROVE Cardinality(Waiting(s)') <= InputBuffer
  <2>1. CASE s = on
    <3>1. Waiting(s)' = Waiting(s) \cup {<<on, end - 1>>} BY <1>1, <2>1 DEF Waiting
    <3>2. IsFiniteSet(Waiting(s)) /\ Cardinality(Waiting(s)) \in Nat
      BY WaitingFinite DEF Waiting, InputInv
    <3>3. Cardinality(Waiting(s)') \in {Cardinality(Waiting(s)), Cardinality(Waiting(s)) + 1}
      BY <3>1, <3>2, FS_AddElement
    <3>4. QED BY <1>1, <2>1, <3>2, <3>3
  <2>2. CASE s # on
    <3>1. Waiting(s)' = Waiting(s) BY <1>1, <2>2 DEF Waiting
    <3>2. QED BY <3>1 DEF InputInv
  <2>3. QED BY <2>1, <2>2
<1>4. QED BY <1>2, <1>3 DEF InputInv

\* Taking a frame only makes room.
LEMMA TakesFits == ASSUME InputInv, NEW s \in 1 .. Len(streams), StreamTakes(s) PROVE InputInv'
<1>1. PICK q \in input : input' = input \ {q} BY DEF StreamTakes, Waiting
<1>2. IsFiniteSet(input') BY <1>1, FS_Subset DEF InputInv
<1>3. ASSUME NEW i \in Int PROVE Cardinality(Waiting(i)') <= InputBuffer
  <2>1. Waiting(i)' \subseteq Waiting(i) BY <1>1 DEF Waiting
  <2>2. IsFiniteSet(Waiting(i)) /\ Cardinality(Waiting(i)) \in Nat
    BY WaitingFinite DEF Waiting, InputInv
  <2>3. Cardinality(Waiting(i)') <= Cardinality(Waiting(i)) /\ Cardinality(Waiting(i)') \in Nat
    BY <2>1, <2>2, FS_Subset, FS_CardinalityType
  <2>4. QED BY <2>2, <2>3, PipelineAssumption DEF InputInv
<1>4. QED BY <1>2, <1>3 DEF InputInv

\* Nothing else touches the inputs.
LEMMA InputStep == ASSUME InputInv, StreamTypes, [Next]_vars PROVE InputInv'
<1> USE DEF streamVars
<1>1. CASE Sent BY <1>1, SentFits
<1>2. CASE \E s \in 1 .. Len(streams) : StreamTakes(s) BY <1>2, TakesFits
<1>3. ASSUME input' = input PROVE InputInv' BY <1>3 DEF InputInv, Waiting
<1>4. ASSUME \/ \E jump \in 0 .. 1 : Hear(jump)
             \/ SendLost \/ SendTo \/ SendDown \/ SendCancelled \/ EndInput \/ PumpEnds
             \/ SourceGivesUp \/ (\E healthy \in BOOLEAN : RestartSource(healthy))
             \/ SourceNext \/ SourceExhausted \/ SourceWaitStops \/ SourceStartFails
             \/ \E lost \in 0 .. 1 : SourceStarts(lost)
      PROVE  input' = input
  BY <1>4 DEF Hear, SendLost, SendTo, SendDown, SendCancelled, EndInput, PumpEnds, SourceGivesUp,
              RestartSource, SourceNext, SourceExhausted, SourceWaitStops, SourceStartFails,
              SourceStarts, Leave
<1>5. ASSUME \/ EventsEnd \/ Detach \/ DetachDown
             \/ (\E healthy \in BOOLEAN : Crashed(healthy)) \/ NotCrashed
             \/ (\E hard \in BOOLEAN : LoopAsks(hard)) \/ ProviderNext \/ ProviderExhausted
             \/ WaitElapses \/ WaitKicked \/ WaitStops \/ ConsumeFallsBack \/ ConsumeRefused
      PROVE  input' = input
  BY <1>5 DEF EventsEnd, Detach, DetachDown, Crashed, NotCrashed, LoopAsks, ProviderNext,
              ProviderExhausted, WaitElapses, WaitKicked, WaitStops, ConsumeFallsBack, ConsumeRefused
<1>6. ASSUME LoopSwitches \/ Reopen \/ Name \/ Attach \/ Drained PROVE input' = input
  BY <1>6 DEF LoopSwitches, Reopen, Opened, OpenFails, Name, Attach, Drained
<1>7. ASSUME Unavailable \/ TooLate \/ Switch \/ Kick PROVE input' = input
  BY <1>7 DEF Unavailable, TooLate, Switch, Kick
<1>8. ASSUME \/ \E how \in {"failed", "ended"} : SourceEnds(how)
             \/ \E s \in 1 .. Len(streams) : StreamCrashes(s) \/ StreamEnds(s)
             \/ \E e \in 1 .. MaxFrames : Final(e)
             \/ \E hard \in BOOLEAN : StreamError(hard) \/ TranslationFails(hard)
             \/ CooldownOver \/ ProbeAgain \/ Pause \/ Resume \/ Stop \/ StopTimeout
             \/ UNCHANGED vars
      PROVE  input' = input
  BY <1>8 DEF SourceEnds, StreamCrashes, StreamEnds, Final, StreamError, TranslationFails,
              CooldownOver, ProbeAgain, Pause, Resume, Stop, StopTimeout, vars
<1>9. QED BY <1>1, <1>2, <1>3, <1>4, <1>5, <1>6, <1>7, <1>8 DEF Next, Feed, Consume, Fallback, Environment

\* The inputs are empty at first.
LEMMA InputInit == Init => InputInv
<1> SUFFICES ASSUME Init PROVE InputInv OBVIOUS
<1>1. input = {} BY DEF Init
<1>2. \A s \in Int : Waiting(s) = {} BY <1>1 DEF Waiting
<1>3. QED BY <1>1, <1>2, FS_EmptySet, PipelineAssumption DEF InputInv

-----------------------------------------------------------------------------
(* What always holds *)

\* All three hold in every reachable state.
LEMMA PipelineInvariant == Spec => [](LostInv /\ ApartInv /\ InputInv)
<1> DEFINE I == LostInv /\ ApartInv /\ InputInv
<1>1. Init => I BY AccountInit, ApartInit, InputInit
<1>2. I /\ [Next]_vars => I'
  BY AccountStep, ApartStep, InputStep DEF LostInv, ApartInv
<1>3. QED BY <1>1, <1>2, PTL DEF Spec

\* Audio goes into the open input of a stream of the provider the run is on, and
\* two streams that had audio have different prefixes of segment ids.
THEOREM AlwaysApart == Spec => []StreamsApart
<1>1. ApartInv => StreamsApart
  <2> SUFFICES ASSUME ApartInv PROVE StreamsApart OBVIOUS
  <2>1. InputOpenWhileFed BY DEF ApartInv, StreamTypes, InputsOpen, InputOpenWhileFed
  <2>2. QED BY <2>1 DEF ApartInv, StreamsApart, LinkFits
<1>2. QED BY <1>1, PipelineInvariant, PTL

\* Audio that no provider took is in a gap, or about to be, or in the input of a
\* stream, of which there is never more than the input holds, until the run is
\* cut off.
THEOREM AudioAlwaysAccounted == Spec => []AudioAccounted
<1>1. LostInv /\ InputInv /\ StreamTypes => AudioAccounted
  <2> SUFFICES ASSUME LostInv, InputInv, StreamTypes PROVE AudioAccounted OBVIOUS
  <2>1. noted \in Seq(Int \X Int) /\ end \in Nat BY DEF LostInv, LostTypes
  <2>2. DOMAIN noted = 1 .. Len(noted) BY ONLY <2>1
  <2>3. ASSUME NEW t \in 0 .. end - 1
        PROVE  \/ t \in got \cup skipped
               \/ Noted(t) \/ InInput(t)
               \/ t = end - 1 /\ feed \in {"send", "blocked"}
               \/ ctxDone
    <3>1. t \in Nat /\ t < end BY ONLY <2>1
    <3>2. Accounted(t) BY <3>1 DEF LostInv
    <3>3. t \in Handed => t \in got \/ InInput(t) BY DEF Handed, InInput
    <3>4. InGaps(noted, t) => Noted(t) BY <2>2 DEF InGaps, InGap, Noted
    <3>5. losing /\ t >= lostFrom => Noted(t) BY DEF Noted
    <3>6. QED BY <3>2, <3>3, <3>4, <3>5 DEF Accounted
  <2>4. DOMAIN streams \subseteq Int
    <3>1. streams \in Seq(StreamSet) BY DEF StreamTypes
    <3>2. QED BY ONLY <3>1
  <2>5. \A s \in DOMAIN streams : Cardinality(Waiting(s)) <= InputBuffer BY <2>4 DEF InputInv
  <2>6. QED BY <2>3, <2>5 DEF AudioAccounted, AllAccounted
<1>2. LostInv /\ ApartInv /\ InputInv => AudioAccounted BY <1>1 DEF ApartInv
<1>3. QED BY <1>2, PipelineInvariant, PTL
=============================================================================
