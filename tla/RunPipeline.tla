----------------------------- MODULE RunPipeline -----------------------------
(***************************************************************************)
(* The inside of one running session (internal/session: run.go, restart.go *)
(* and fallback.go): feed takes the source's frames to the attached ASR    *)
(* stream, consume takes the stream's events and replaces a stream that    *)
(* crashed, the translators report failures, and the run may fall back to  *)
(* the other provider from consume or from a translator.  Each step that   *)
(* holds run.mu is an action.  Frame t is the audio from t to t + 1 of the *)
(* session clock.                                                          *)
(***************************************************************************)
EXTENDS Integers, Sequences, FiniteSets

CONSTANTS
  FallbackOn,     \* settings.providers.fallback, for a provider that has another
  MaxAttempts,    \* RestartPolicy.MaxAttempts
  AfterRestarts,  \* FallbackPolicy.AfterRestarts
  InputBuffer,    \* capacity of a stream's input channel: 64, 256 for whisper
  MaxFrames,      \* bound: length of the session clock
  MaxSwitches,    \* bound: fallbacks
  Troubles        \* bound: what may go wrong in one behaviour, which is one of
                  \* these records of "crashes" (streams that end on their own
                  \* and failed opens), "failures" (sources that fail and failed
                  \* restarts of them), "errors" (reported by the stream or a
                  \* translator), "pauses", and the "frames" it lasts

\* withDefaults leaves no attempt count at 0, and caps AfterRestarts.
RestartPolicy  == MaxAttempts \in Nat \ {0}
FallbackPolicy == FallbackOn \in BOOLEAN /\ AfterRestarts \in 1 .. MaxAttempts

ASSUME PipelineAssumption ==
  /\ RestartPolicy /\ FallbackPolicy /\ InputBuffer \in Nat \ {0}
  /\ MaxFrames \in Nat /\ MaxSwitches \in Nat
  /\ Troubles \subseteq [crashes : Nat, failures : Nat, errors : Nat, pauses : Nat,
                         frames : 0 .. MaxFrames]

VARIABLES
  \* the run
  state,       \* "live", "paused" or "stopping", which cancels the source
  ctxDone,     \* ctx is cancelled
  err, fatal,  \* err: "none", "provider", "source", "translation" or "gave up"
  recovering,  \* "none", "provider" or "source"
  restarts,
  \* feed and its source
  feed,        \* "read", "send", "blocked", "next", "wait", "ending" or "over"
  source,      \* its channel: "up", "failed" (closed, Err is set) or "ended"
  srcAttempts,
  end, offset, hasBase,
  on,          \* the stream whose input feed is blocked on
  losing, lostFrom,
  noted, told, \* run.gaps, with those finals reported: the first told
  sourceEnded,
  \* the ASR streams
  streams,     \* all there were
  link,        \* the attached one, or 0
  \* consume
  consume,     \* where it is
  cur,         \* its stream
  loopKind,    \* the provider restartProvider restarts
  provAttempts, lastFinal,
  \* fallback
  provider,
  fb,          \* who decides on a fallback (fbBusy), and how far it is
  switches, cooling, probed, kick,
  input,       \* what is in the streams' input channels, as <<stream, frame>>
  \* what happened, for the properties
  got,         \* frames a provider took
  skipped,     \* frames that came while paused
  crashes, failures, errors, pauses,  \* what may still go wrong
  frames       \* and how long the session clock may run

runVars     == <<state, ctxDone, pauses, frames>>
statusVars  == <<err, fatal, recovering, restarts>>
feedVars    == <<feed, source, srcAttempts, end, offset, hasBase, on, sourceEnded, skipped, failures>>
gapVars     == <<losing, lostFrom, noted, told>>
streamVars  == <<streams, link, input, got, crashes>>
consumeVars == <<consume, cur, loopKind, lastFinal>>
fbVars      == <<provider, fb, switches, cooling, probed, kick, provAttempts>>
vars == <<runVars, statusVars, feedVars, gapVars, streamVars, consumeVars, fbVars, errors>>

Kinds == {"gemini", "local"}
alternate(kind) == IF kind = "gemini" THEN "local" ELSE "gemini"

Stream(kind, prefix, from) ==
  [kind |-> kind, prefix |-> prefix, from |-> from, attached |-> FALSE, open |-> TRUE,
   closed |-> FALSE, cancelled |-> FALSE, down |-> FALSE]
\* next: attempts in a row that are still allowed.
AttemptLeft(n) == n < MaxAttempts

Later(a, b) == IF a > b THEN a ELSE b
SrcCancelled == state = "stopping" \/ ctxDone
NoFallback == [who |-> "none", switched |-> FALSE]

Places == {"events", "probe in events", "detach", "down", "check", "loop", "probe in loop",
           "next", "wait", "open", "name", "attach", "drain", "over"}

TypeOK ==
  /\ state \in {"live", "paused", "stopping"} /\ ctxDone \in BOOLEAN
  /\ err \in {"none", "provider", "source", "translation", "gave up"} /\ fatal \in BOOLEAN
  /\ recovering \in {"none", "provider", "source"} /\ restarts \in Nat
  /\ feed \in {"read", "send", "blocked", "next", "wait", "ending", "over"}
  /\ source \in {"up", "failed", "ended"} /\ srcAttempts \in 0 .. MaxAttempts
  /\ end \in 0 .. MaxFrames /\ offset \in 0 .. MaxFrames /\ hasBase \in BOOLEAN
  /\ losing \in BOOLEAN /\ lostFrom \in 0 .. MaxFrames /\ told \in 0 .. Len(noted)
  /\ sourceEnded \in BOOLEAN
  /\ input \subseteq (1 .. Len(streams)) \X (0 .. MaxFrames)
  /\ link \in 0 .. Len(streams) /\ on \in 0 .. Len(streams) /\ cur \in 1 .. Len(streams)
  /\ consume \in Places /\ loopKind \in Kinds
  /\ provAttempts \in 0 .. MaxAttempts + 1 /\ lastFinal \in 0 .. MaxFrames
  /\ provider \in Kinds /\ fb.who \in {"none", "consume", "translator"}
  /\ switches \in 0 .. MaxSwitches
  /\ cooling \in BOOLEAN /\ probed \in BOOLEAN /\ kick \in BOOLEAN

\* run.start has opened the source and the first stream, maybe after a
\* fallback, and attached it.
Init ==
  /\ \E trouble \in Troubles :
       /\ crashes = trouble.crashes /\ failures = trouble.failures
       /\ errors = trouble.errors /\ pauses = trouble.pauses /\ frames = trouble.frames
  /\ switches \in {0, IF FallbackOn /\ MaxSwitches > 0 THEN 1 ELSE 0}
  /\ provider = IF switches = 0 THEN "gemini" ELSE "local"
  /\ cooling = (switches > 0) /\ probed = FALSE /\ kick = (switches > 0)
  /\ fb = NoFallback /\ provAttempts = 0
  /\ state = "live" /\ ctxDone = FALSE
  /\ err = "none" /\ fatal = FALSE /\ recovering = "none" /\ restarts = 0
  /\ feed = "read" /\ source = "up" /\ srcAttempts = 0
  /\ end = 0 /\ offset = 0 /\ hasBase = FALSE /\ on = 0 /\ sourceEnded = FALSE
  /\ skipped = {}
  /\ losing = FALSE /\ lostFrom = 0 /\ noted = <<>> /\ told = 0
  /\ streams = <<[Stream(provider, <<"first", 0>>, 0) EXCEPT !.attached = TRUE]>> /\ link = 1
  /\ input = {} /\ got = {}
  /\ consume = "events" /\ cur = 1 /\ loopKind = provider /\ lastFinal = 0

-----------------------------------------------------------------------------
(* Gaps *)

\* addGap, on the list of gaps.
WithGap(gaps, from, to) == IF to > from THEN Append(gaps, <<from, to>>) ELSE gaps

\* lose: the start of the stretch that is being lost.
Lose(t) ==
  /\ losing' = TRUE
  /\ lostFrom' = IF losing THEN lostFrom ELSE t
  /\ UNCHANGED <<noted, told>>

\* resume: the stretch ends at t.
ResumeAt(t) ==
  /\ losing' = FALSE
  /\ noted' = IF losing THEN WithGap(noted, lostFrom, t) ELSE noted
  /\ UNCHANGED <<lostFrom, told>>

-----------------------------------------------------------------------------
(* feed: pump and send *)

Clock == Later(end, offset)

\* pump takes a frame; a jump in the source's timeline is a gap, except at
\* the first frame, which sets the base.
Hear(jump) ==
  LET t == IF hasBase THEN end + jump ELSE offset IN
  /\ feed = "read" /\ source = "up" /\ t < frames
  /\ hasBase' = TRUE /\ end' = t + 1
  /\ noted' = IF hasBase THEN WithGap(noted, end, t) ELSE noted
  /\ IF state = "paused" THEN feed' = "read" /\ skipped' = skipped \cup {t}
     ELSE feed' = "send" /\ UNCHANGED skipped
  /\ UNCHANGED <<source, srcAttempts, offset, on, sourceEnded, failures, losing, lostFrom,
                 told, errors, runVars, statusVars, streamVars, consumeVars, fbVars>>

\* send without an attached stream.
SendLost ==
  /\ feed = "send" /\ link = 0
  /\ Lose(end - 1)
  /\ feed' = "read"
  /\ UNCHANGED <<source, srcAttempts, end, offset, hasBase, on, sourceEnded, skipped, failures,
                 errors, runVars, statusVars, streamVars, consumeVars, fbVars>>

SendTo ==
  /\ feed = "send" /\ link # 0
  /\ ResumeAt(end - 1)
  /\ feed' = "blocked" /\ on' = link
  /\ UNCHANGED <<source, srcAttempts, end, offset, hasBase, sourceEnded, skipped, failures,
                 errors, runVars, statusVars, streamVars, consumeVars, fbVars>>

\* The channel is buffered: also a stream that has ended takes the frame.
Waiting(s) == {q \in input : q[1] = s}
Sent ==
  /\ feed = "blocked" /\ Cardinality(Waiting(on)) < InputBuffer
  /\ input' = input \cup {<<on, end - 1>>}
  /\ feed' = "read" /\ on' = 0
  /\ UNCHANGED <<source, srcAttempts, end, offset, hasBase, sourceEnded, skipped, failures,
                 streams, link, got, crashes, errors, runVars, statusVars, gapVars, consumeVars,
                 fbVars>>

\* The stream ended under send.  Mutant: the frame is forgotten.
SendDownForgets ==
  /\ feed = "blocked" /\ streams[on].down
  /\ feed' = "read" /\ on' = 0
  /\ UNCHANGED <<source, srcAttempts, end, offset, hasBase, sourceEnded, skipped, failures,
                 errors, gapVars, runVars, statusVars, streamVars, consumeVars, fbVars>>

SendDown ==
  /\ feed = "blocked" /\ streams[on].down
  /\ Lose(end - 1)
  /\ feed' = "read" /\ on' = 0
  /\ UNCHANGED <<source, srcAttempts, end, offset, hasBase, sourceEnded, skipped, failures,
                 errors, runVars, statusVars, streamVars, consumeVars, fbVars>>

\* send's third case; pump and feed return.
SendCancelled ==
  /\ feed = "blocked" /\ ctxDone
  /\ feed' = "ending" /\ on' = 0
  /\ UNCHANGED <<source, srcAttempts, end, offset, hasBase, sourceEnded, skipped, failures,
                 errors, gapVars, runVars, statusVars, streamVars, consumeVars, fbVars>>

\* endInput, deferred in feed.
EndInput ==
  /\ feed = "ending"
  /\ sourceEnded' = TRUE /\ feed' = "over"
  /\ streams' = IF link = 0 THEN streams ELSE [streams EXCEPT ![link].closed = TRUE]
  /\ UNCHANGED <<source, srcAttempts, end, offset, hasBase, on, skipped, failures, link, input, got,
                 crashes, errors, gapVars, runVars, statusVars, consumeVars, fbVars>>

\* The source's channel closes: the source failed, ended or was cancelled.
SourceEnds(how) ==
  /\ source = "up"
  /\ how = "failed" => failures > 0
  /\ source' = how
  /\ failures' = IF how = "failed" THEN failures - 1 ELSE failures
  /\ UNCHANGED <<feed, srcAttempts, end, offset, hasBase, on, sourceEnded, skipped, gapVars,
                 errors, runVars, statusVars, streamVars, consumeVars, fbVars>>

Leave ==
  /\ feed' = "ending"
  /\ UNCHANGED <<source, srcAttempts, end, offset, hasBase, on, sourceEnded, skipped, failures,
                 errors, gapVars, runVars, streamVars, consumeVars, fbVars>>

\* pump returned.
PumpEnds ==
  /\ feed = "read" /\ (source = "ended" \/ (source = "failed" /\ SrcCancelled))
  /\ Leave
  /\ UNCHANGED statusVars

-----------------------------------------------------------------------------
(* feed: restartSource *)

\* A file is not restarted.
SourceGivesUp ==
  /\ feed = "read" /\ source = "failed" /\ ~SrcCancelled
  /\ Leave
  /\ err' = "gave up" /\ fatal' = TRUE
  /\ UNCHANGED <<recovering, restarts>>

\* Having run for HealthyAfter starts the count over.
RestartSource(healthy) ==
  /\ feed = "read" /\ source = "failed" /\ ~SrcCancelled
  /\ feed' = "next"
  /\ srcAttempts' = IF healthy THEN 0 ELSE srcAttempts
  /\ err' = "source"
  /\ UNCHANGED <<source, end, offset, hasBase, on, sourceEnded, skipped, failures, fatal,
                 recovering, restarts, errors, gapVars, runVars, streamVars, consumeVars, fbVars>>

SourceNext ==
  /\ feed = "next" /\ AttemptLeft(srcAttempts)
  /\ srcAttempts' = srcAttempts + 1
  /\ feed' = "wait" /\ recovering' = "source"
  /\ UNCHANGED <<source, end, offset, hasBase, on, sourceEnded, skipped, failures, err, fatal,
                 restarts, errors, gapVars, runVars, streamVars, consumeVars, fbVars>>

SourceExhausted ==
  /\ feed = "next" /\ ~AttemptLeft(srcAttempts)
  /\ Leave
  /\ err' = "gave up" /\ fatal' = TRUE /\ recovering' = "none"
  /\ UNCHANGED restarts

SourceWaitStops ==
  /\ feed = "wait" /\ SrcCancelled
  /\ Leave
  /\ recovering' = "none"
  /\ UNCHANGED <<err, fatal, restarts>>

SourceStartFails ==
  /\ feed = "wait" /\ failures > 0
  /\ failures' = failures - 1
  /\ feed' = "next" /\ err' = "source"
  /\ UNCHANGED <<source, srcAttempts, end, offset, hasBase, on, sourceEnded, skipped, fatal,
                 recovering, restarts, errors, gapVars, runVars, streamVars, consumeVars, fbVars>>

\* The new timeline starts after the wall time that was lost.
SourceStarts(lost) ==
  /\ feed = "wait" /\ Clock + lost <= frames
  /\ lost = 0 \/ end > 0
  /\ offset' = Clock + lost /\ hasBase' = FALSE
  /\ noted' = WithGap(noted, Clock, Clock + lost)
  /\ feed' = "read" /\ source' = "up"
  /\ restarts' = restarts + 1 /\ recovering' = "none"
  /\ UNCHANGED <<srcAttempts, end, on, sourceEnded, skipped, failures, losing, lostFrom, told,
                 err, fatal, errors, runVars, streamVars, consumeVars, fbVars>>

Feed ==
  \/ \E jump \in 0 .. 1 : Hear(jump)
  \/ SendLost \/ SendTo \/ Sent \/ SendDown \/ SendCancelled \/ EndInput \/ PumpEnds
  \/ SourceGivesUp \/ (\E healthy \in BOOLEAN : RestartSource(healthy))
  \/ SourceNext \/ SourceExhausted \/ SourceWaitStops \/ SourceStartFails
  \/ \E lost \in 0 .. 1 : SourceStarts(lost)

-----------------------------------------------------------------------------
(* The ASR streams: what ASRProvider promises (domain) and its providers do *)

\* A stream's output closes: it gave up, its input was closed and it flushed,
\* or its context was cancelled.
StreamCrashes(s) ==
  /\ streams[s].open /\ crashes > 0
  /\ streams' = [streams EXCEPT ![s].open = FALSE]
  /\ crashes' = crashes - 1
  /\ UNCHANGED <<link, input, got, errors, runVars, statusVars, feedVars, gapVars, consumeVars, fbVars>>

\* It takes the oldest frame of its input.
StreamTakes(s) ==
  \E q \in Waiting(s) :
    /\ streams[s].open /\ \A other \in Waiting(s) : q[2] <= other[2]
    /\ input' = input \ {q} /\ got' = got \cup {q[2]}
    /\ UNCHANGED <<streams, link, crashes, errors, runVars, statusVars, feedVars, gapVars,
                   consumeVars, fbVars>>

\* A closed input is read to its end, a cancelled stream leaves it.
StreamEnds(s) ==
  /\ streams[s].open
  /\ streams[s].cancelled \/ ctxDone \/ (streams[s].closed /\ Waiting(s) = {})
  /\ streams' = [streams EXCEPT ![s].open = FALSE]
  /\ UNCHANGED <<link, input, got, crashes, errors, runVars, statusVars, feedVars, gapVars,
                 consumeVars, fbVars>>

-----------------------------------------------------------------------------
(* consume: events, detach and crashed *)

Goes(place) == consume' = place /\ UNCHANGED <<cur, loopKind, lastFinal>>

\* A final that ends at e, where audio was taken, reports the gaps before it
\* for good (gapBefore).
Reported(e) ==
  LET left == {n \in told + 1 .. Len(noted) : noted[n][2] >= e}
  IN IF left = {} THEN Len(noted) ELSE (CHOOSE n \in left : \A k \in left : n <= k) - 1

Final(e) ==
  /\ consume = "events" /\ streams[cur].open
  /\ e \in streams[cur].from .. end /\ e - 1 \in got
  /\ lastFinal' = Later(lastFinal, e)
  /\ told' = Reported(e)
  /\ UNCHANGED <<consume, cur, loopKind, losing, lostFrom, noted, errors, runVars, statusVars,
                 feedVars, streamVars, fbVars>>

\* The stream reported an error (providerError); hard says that it asks for
\* a fallback: a quota or key failure, or one too many within the window.
StreamError(hard) ==
  /\ consume = "events" /\ streams[cur].open /\ errors > 0
  /\ errors' = errors - 1 /\ err' = "provider"
  /\ Goes(IF hard THEN "probe in events" ELSE "events")
  /\ UNCHANGED <<fatal, recovering, restarts, runVars, feedVars, gapVars, streamVars, fbVars>>

EventsEnd ==
  /\ consume = "events" /\ ~streams[cur].open
  /\ Goes("detach")
  /\ UNCHANGED <<errors, runVars, statusVars, feedVars, gapVars, streamVars, fbVars>>

\* detach: cancelled and not attached any more, then send is told.
Detach ==
  /\ consume = "detach"
  /\ streams' = [streams EXCEPT ![cur].cancelled = TRUE]
  /\ link' = IF link = cur THEN 0 ELSE link
  /\ Goes("down")
  /\ UNCHANGED <<input, got, crashes, errors, runVars, statusVars, feedVars, gapVars, fbVars>>

DetachDown ==
  /\ consume = "down"
  /\ streams' = [streams EXCEPT ![cur].down = TRUE]
  /\ Goes("check")
  /\ UNCHANGED <<link, input, got, crashes, errors, runVars, statusVars, feedVars, gapVars, fbVars>>

crashed == ~sourceEnded /\ ~SrcCancelled

\* crashed, and restartProvider up to its loop: a stream that ran for
\* HealthyAfter starts the count over.
Crashed(healthy) ==
  /\ consume = "check" /\ crashed
  /\ consume' = "loop" /\ loopKind' = streams[cur].kind
  /\ IF provider = loopKind'
     THEN /\ err' = "provider"
          /\ provAttempts' = IF healthy THEN 0 ELSE provAttempts
     ELSE UNCHANGED <<err, provAttempts>>
  /\ UNCHANGED <<cur, lastFinal, provider, fb, switches, cooling, probed, kick, fatal, recovering,
                 restarts, errors, runVars, feedVars, gapVars, streamVars>>

NotCrashed ==
  /\ consume = "check" /\ ~crashed
  /\ Goes("drain")
  /\ UNCHANGED <<errors, runVars, statusVars, feedVars, gapVars, streamVars, fbVars>>

-----------------------------------------------------------------------------
(* consume: restartProvider *)

\* openASR works on the provider of the moment; the stream gets its prefix
\* and is attached later.
Opened(why) ==
  /\ streams' = Append(streams, Stream(provider, <<why, 0>>, 0))
  /\ cur' = Len(streams) + 1
  /\ consume' = "name"
  /\ UNCHANGED <<link, input, got, crashes, lastFinal, err>>
OpenFails ==
  /\ crashes > 0 /\ crashes' = crashes - 1
  /\ err' = "provider"
  /\ UNCHANGED <<streams, link, input, got, cur, lastFinal>>

\* The run fell back: the new provider right away.
LoopSwitches ==
  /\ consume = "loop" /\ provider # loopKind
  /\ loopKind' = provider
  /\ \/ Opened("switch")
     \/ OpenFails /\ consume' = "next"
  /\ UNCHANGED <<fatal, recovering, restarts, errors, runVars, feedVars, gapVars, fbVars>>

\* wantFallback; hard says that the cause is a quota or key failure.
LoopAsks(hard) ==
  /\ consume = "loop" /\ provider = loopKind
  /\ Goes(IF hard \/ provAttempts >= AfterRestarts THEN "probe in loop" ELSE "next")
  /\ UNCHANGED <<errors, runVars, statusVars, feedVars, gapVars, streamVars, fbVars>>

ProviderNext ==
  /\ consume = "next" /\ AttemptLeft(provAttempts)
  /\ provAttempts' = provAttempts + 1
  /\ recovering' = "provider"
  /\ Goes("wait")
  /\ UNCHANGED <<err, fatal, restarts, provider, fb, switches, cooling, probed, kick, errors,
                 runVars, feedVars, gapVars, streamVars>>

ProviderExhausted ==
  /\ consume = "next" /\ ~AttemptLeft(provAttempts)
  /\ provAttempts' = provAttempts + 1
  /\ err' = "gave up" /\ fatal' = TRUE /\ recovering' = "none"
  /\ Goes("drain")
  /\ UNCHANGED <<restarts, provider, fb, switches, cooling, probed, kick, errors, runVars,
                 feedVars, gapVars, streamVars>>

\* wait: the time is up, a fallback woke it, or the run stops or ends.
WaitElapses ==
  /\ consume = "wait"
  /\ Goes("open")
  /\ UNCHANGED <<errors, runVars, statusVars, feedVars, gapVars, streamVars, fbVars>>

WaitKicked ==
  /\ consume = "wait" /\ kick
  /\ kick' = FALSE
  /\ Goes("open")
  /\ UNCHANGED <<provider, fb, switches, cooling, probed, provAttempts, errors, runVars,
                 statusVars, feedVars, gapVars, streamVars>>

WaitStops ==
  /\ consume = "wait" /\ (SrcCancelled \/ sourceEnded)
  /\ recovering' = "none"
  /\ Goes("drain")
  /\ UNCHANGED <<err, fatal, restarts, errors, runVars, feedVars, gapVars, streamVars, fbVars>>

Reopen ==
  /\ consume = "open"
  /\ \/ provider # loopKind /\ consume' = "loop"
        /\ UNCHANGED <<streams, link, input, got, crashes, cur, lastFinal, err>>
     \/ provider = loopKind /\ OpenFails /\ consume' = "loop"
     \/ provider = loopKind /\ Opened("restart")
  /\ UNCHANGED <<loopKind, fatal, recovering, restarts, errors, runVars, feedVars, gapVars, fbVars>>

\* Providers number segments from 1 again: the prefix keeps their ids unique,
\* by the switches, or by the restarts (restarted).  Mutant: by the attempts.
RestartNumberOfAttempt == provAttempts
RestartNumber == restarts + 1

Name ==
  /\ consume = "name"
  /\ IF streams[cur].prefix[1] = "switch"
     THEN /\ streams' = [streams EXCEPT ![cur].prefix = <<"switch", switches>>]
          /\ UNCHANGED <<restarts, recovering>>
     ELSE /\ streams' = [streams EXCEPT ![cur].prefix = <<"restart", RestartNumber>>]
          /\ restarts' = restarts + 1 /\ recovering' = "none"
  /\ Goes("attach")
  /\ UNCHANGED <<link, input, got, crashes, err, fatal, errors, runVars, feedVars, gapVars, fbVars>>

\* attach cancels a stream of the provider the run fell back from meanwhile.
\* Mutant: it does not look.
OutdatedNever(s) == FALSE
Outdated(s) == streams[s].kind # provider

\* The input of a stream attached after the source ended is closed at once.
\* Mutants: it is left open; it is closed as soon as the run is told to stop.
InputClosedNever == FALSE
InputClosedOnStop == SrcCancelled
InputClosed == sourceEnded

Attach ==
  /\ consume = "attach"
  /\ IF Outdated(cur)
     THEN /\ streams' = [streams EXCEPT ![cur].cancelled = TRUE]
          /\ UNCHANGED link
     ELSE /\ streams' = [streams EXCEPT ![cur].attached = TRUE, ![cur].from = Clock,
                                         ![cur].closed = InputClosed]
          /\ link' = cur
  /\ Goes("events")
  /\ UNCHANGED <<input, got, crashes, errors, runVars, statusVars, feedVars, gapVars, fbVars>>

\* The fan-out is closed, which waits for the translators, and the run
\* finished (finish).
Drained ==
  /\ consume = "drain" /\ fb.who # "translator"
  /\ ctxDone' = TRUE
  /\ Goes("over")
  /\ UNCHANGED <<state, pauses, frames, errors, statusVars, feedVars, gapVars, streamVars, fbVars>>

-----------------------------------------------------------------------------
(* fallback, called by consume or by a translator *)

\* The first critical section lets one at a time look for the other provider.
MayFallBack ==
  /\ FallbackOn /\ fb.who = "none" /\ ~sourceEnded /\ state # "stopping"
  /\ ~cooling /\ ~probed /\ switches < MaxSwitches

\* Where consume goes on after its fallback.
AfterFallback(switched) ==
  consume' = CASE consume = "probe in events" /\ switched  -> "detach"
               [] consume = "probe in events" /\ ~switched -> "events"
               [] consume = "probe in loop" /\ switched    -> "loop"
               [] consume = "probe in loop" /\ ~switched   -> "next"

Released(switched) ==
  /\ fb' = NoFallback
  /\ IF fb.who = "consume" THEN AfterFallback(switched) ELSE UNCHANGED consume
  /\ UNCHANGED <<cur, loopKind, lastFinal>>

Asking == consume \in {"probe in events", "probe in loop"}

ConsumeFallsBack ==
  /\ Asking /\ MayFallBack
  /\ fb' = [who |-> "consume", switched |-> FALSE]
  /\ UNCHANGED <<provider, switches, cooling, probed, kick, provAttempts, errors, runVars,
                 statusVars, feedVars, gapVars, streamVars, consumeVars>>

ConsumeRefused ==
  /\ Asking /\ fb.who # "consume" /\ ~MayFallBack
  /\ AfterFallback(FALSE)
  /\ UNCHANGED <<cur, loopKind, lastFinal, errors, runVars, statusVars, feedVars, gapVars,
                 streamVars, fbVars>>

\* A final could not be translated (Failed of newFanout); hard as above.
TranslationFails(hard) ==
  /\ consume # "over" /\ fb.who # "translator" /\ errors > 0
  /\ errors' = errors - 1 /\ err' = "translation"
  /\ fb' = IF hard /\ MayFallBack THEN [who |-> "translator", switched |-> FALSE] ELSE fb
  /\ UNCHANGED <<provider, switches, cooling, probed, kick, provAttempts, fatal, recovering,
                 restarts, runVars, feedVars, gapVars, streamVars, consumeVars>>

Unavailable ==
  /\ fb.who # "none" /\ ~fb.switched
  /\ probed' = TRUE
  /\ Released(FALSE)
  /\ UNCHANGED <<provider, switches, cooling, kick, provAttempts, errors, runVars, statusVars,
                 feedVars, gapVars, streamVars>>

TooLate ==
  /\ fb.who # "none" /\ ~fb.switched /\ sourceEnded
  /\ Released(FALSE)
  /\ UNCHANGED <<provider, switches, cooling, probed, kick, provAttempts, errors, runVars,
                 statusVars, feedVars, gapVars, streamVars>>

\* The old stream is cancelled; what it had not finalized is a gap.
Cut(s) == [streams EXCEPT ![s].cancelled = TRUE]

Switch ==
  /\ fb.who # "none" /\ ~fb.switched /\ ~sourceEnded
  /\ fb' = [fb EXCEPT !.switched = TRUE]
  /\ provider' = alternate(provider) /\ switches' = switches + 1
  /\ cooling' = TRUE /\ probed' = FALSE
  /\ err' = "none" /\ provAttempts' = 0 /\ recovering' = "none"
  /\ IF link = 0 THEN UNCHANGED <<link, streams, noted>>
     ELSE /\ link' = 0
          /\ streams' = Cut(link)
          /\ noted' = WithGap(noted, Later(lastFinal, streams[link].from), end)
  /\ UNCHANGED <<kick, fatal, restarts, losing, lostFrom, told, input, got, crashes, errors, runVars,
                 feedVars, consumeVars>>

Kick ==
  /\ fb.switched
  /\ kick' = TRUE
  /\ Released(TRUE)
  /\ UNCHANGED <<provider, switches, cooling, probed, provAttempts, errors, runVars, statusVars,
                 feedVars, gapVars, streamVars>>

\* Cooldown and ProbeEvery pass.
CooldownOver ==
  /\ cooling /\ cooling' = FALSE
  /\ UNCHANGED <<provider, fb, switches, probed, kick, provAttempts, errors, runVars, statusVars,
                 feedVars, gapVars, streamVars, consumeVars>>
ProbeAgain ==
  /\ probed /\ probed' = FALSE
  /\ UNCHANGED <<provider, fb, switches, cooling, kick, provAttempts, errors, runVars, statusVars,
                 feedVars, gapVars, streamVars, consumeVars>>

Fallback == Unavailable \/ TooLate \/ Switch \/ Kick

Consume ==
  \/ EventsEnd \/ Detach \/ DetachDown
  \/ (\E healthy \in BOOLEAN : Crashed(healthy)) \/ NotCrashed
  \/ LoopSwitches \/ (\E hard \in BOOLEAN : LoopAsks(hard))
  \/ ProviderNext \/ ProviderExhausted \/ WaitElapses \/ WaitKicked \/ WaitStops
  \/ Reopen \/ Name \/ Attach \/ Drained
  \/ ConsumeFallsBack \/ ConsumeRefused

-----------------------------------------------------------------------------
(* What the manager does to the run *)

Pause ==
  /\ state = "live" /\ pauses > 0
  /\ state' = "paused" /\ pauses' = pauses - 1
  /\ UNCHANGED <<ctxDone, frames, errors, statusVars, feedVars, gapVars, streamVars, consumeVars, fbVars>>

Resume ==
  /\ state = "paused"
  /\ state' = "live"
  /\ UNCHANGED <<ctxDone, pauses, frames, errors, statusVars, feedVars, gapVars, streamVars, consumeVars,
                 fbVars>>

\* Stop sets the state and cancels the source.
Stop ==
  /\ state # "stopping"
  /\ state' = "stopping"
  /\ UNCHANGED <<ctxDone, pauses, frames, errors, statusVars, feedVars, gapVars, streamVars, consumeVars,
                 fbVars>>

\* The flush takes longer than StopTimeout.
StopTimeout ==
  /\ state = "stopping" /\ ~ctxDone
  /\ ctxDone' = TRUE
  /\ UNCHANGED <<state, pauses, frames, errors, statusVars, feedVars, gapVars, streamVars, consumeVars,
                 fbVars>>

Environment ==
  \/ \E how \in {"failed", "ended"} : SourceEnds(how)
  \/ \E s \in 1 .. Len(streams) : StreamCrashes(s) \/ StreamTakes(s) \/ StreamEnds(s)
  \/ \E e \in 1 .. MaxFrames : Final(e)
  \/ \E hard \in BOOLEAN : StreamError(hard) \/ TranslationFails(hard)
  \/ CooldownOver \/ ProbeAgain
  \/ Pause \/ Resume \/ Stop \/ StopTimeout

Next == Feed \/ Consume \/ Fallback \/ Environment

Spec == Init /\ [][Next]_vars

\* The goroutines run; a cancelled source closes its channel; a stream takes
\* frames and ends when its input is closed or it is cancelled
\* (domain.ASRProvider), for good, so that fairness to all of them is fairness
\* to each; a probe is bounded by ProbeTimeout.
FairSpec ==
  /\ Spec
  /\ WF_vars(Feed) /\ WF_vars(Consume) /\ WF_vars(Fallback)
  /\ WF_vars(SrcCancelled /\ SourceEnds("ended"))
  /\ WF_vars(\E s \in DOMAIN streams : StreamTakes(s) \/ StreamEnds(s))

\* Troubles worth checking: two crashes or failed opens, a source that fails
\* twice, an error, a pause, in two frames; a crash and an error, for a fallback
\* while a stream is opened.
Trouble(c, f, e, p, t) == [crashes |-> c, failures |-> f, errors |-> e, pauses |-> p, frames |-> t]
FewTroubles ==
  {Trouble(2, 0, 0, 0, 2), Trouble(0, 2, 0, 0, 2), Trouble(0, 0, 1, 0, 2), Trouble(0, 0, 0, 1, 2),
   Trouble(1, 0, 1, 0, 1)}

-----------------------------------------------------------------------------
(* What holds *)

\* Frames go to a stream of the provider the run is on, also when a fallback
\* came while the stream was being opened (attach).
LinkIsCurrent == link # 0 => streams[link].kind = provider

\* The input of a stream is not closed under a send: endInput and attach
\* close it only once feed is over.
InputOpenWhileFed == feed = "blocked" => ~streams[on].closed

\* What feed sends, after it let the lock go, goes into an open input of the
\* right provider, whatever consume, attach and the fallback did meanwhile.
LinkFits == LinkIsCurrent /\ InputOpenWhileFed

\* Two streams that had audio never share a prefix of segment ids, so a
\* restarted provider does not overwrite earlier captions.
PrefixesUnique ==
  \A s, q \in DOMAIN streams :
    s # q /\ streams[s].attached /\ streams[q].attached => streams[s].prefix # streams[q].prefix

\* The streams of a run stay apart over its restarts and its fallback: audio
\* goes to the one that is on, and their captions never take each other's ids.
StreamsApart == LinkFits /\ PrefixesUnique

\* No audio is unaccounted for: every moment of the session clock was taken
\* by a provider, skipped in a pause, is in a gap or in the stretch being
\* lost, in feed's hands, or was put into the input of a stream; and an input
\* never holds more than its capacity, which bounds what a stream that ends
\* leaves behind unsaid.
InGap(n, t) == noted[n][1] <= t /\ t < noted[n][2]
Noted(t) == (\E n \in DOMAIN noted : InGap(n, t)) \/ (losing /\ t >= lostFrom)
InInput(t) == \E q \in input : q[2] = t
AllAccounted ==
  \A t \in 0 .. end - 1 :
    \/ t \in got \cup skipped
    \/ Noted(t) \/ InInput(t)
    \/ t = end - 1 /\ feed \in {"send", "blocked"}
    \/ ctxDone
AudioAccounted ==
  AllAccounted /\ \A s \in DOMAIN streams : Cardinality(Waiting(s)) <= InputBuffer

\* A run that is told to stop ends by itself, without the stop timeout,
\* wherever its restarts and its fallback are.
RunEnds == (state = "stopping") ~> (consume = "over")

(* What the documentation says and does not hold *)

\* "every stretch of audio that never reached the provider ... is logged" as
\* a gap: once a provider took later audio, what none took is in one, unless
\* a stream that is open may still take it.
LostIsReported ==
  \A t, later \in 0 .. end - 1 :
    t < later /\ later \in got =>
      \/ t \in got \cup skipped \/ Noted(t)
      \/ \E s \in DOMAIN streams : streams[s].open /\ <<s, t>> \in input

\* Caption.gapBeforeMs is "Audio lost just before this caption": a moment is
\* lost once.
GapsDisjoint ==
  \A m, n \in DOMAIN noted : \A t \in 0 .. MaxFrames : InGap(m, t) /\ InGap(n, t) => m = n

\* It is audio that was lost, not audio nobody wanted captions of.
PausedIsNotLost == \A n \in DOMAIN noted : \A t \in skipped : ~InGap(n, t)

\* RestartPolicy.Backoff is "the wait before each attempt": only a fallback
\* ends the wait early.
BackoffKept ==
  [][consume = "wait" /\ consume' = "open" /\ kick # kick' => provider # loopKind]_vars

\* RecoveryStatus is "Present while the session restarts a crashed provider
\* stream or a failed audio source".
RecoveryShown == consume = "wait" \/ feed = "wait" => recovering # "none"

\* Giving up ends the run in error "with provider.failed or source.failed".
GiveUpShown == fatal => err = "gave up"

\* "Stopping cancels only the source": the attached stream may flush its last
\* finals.
StopFlushes ==
  [][state = "stopping" /\ ~ctxDone /\ link # 0 /\ streams'[link].cancelled
       => ~streams[link].open]_vars
=============================================================================
