------------------------------ MODULE SrtSource ------------------------------
(***************************************************************************)
(* The SRT listener of a session (audio/ffmpeg/srt.go): a loop that runs   *)
(* ffmpeg (ffmpeg.go) once for each sender, counts the frames' time on     *)
(* over all of them, and ends when the run's context ends, the listener    *)
(* does not open or ffmpeg cannot be started again.  The run starts the    *)
(* source, reads its stream and, when that ends by itself, may start it    *)
(* again (session/restart.go).  Time counts half frames.                   *)
(***************************************************************************)
EXTENDS Integers, Sequences, FiniteSets

CONSTANTS
  QuickFailure,  \* how soon a failure means that the listener did not open
  MaxOpens,      \* bound: runs of ffmpeg
  MaxSrtFrames,  \* bound: frames of one run of ffmpeg
  MaxSrtTime     \* bound: the wall clock

ASSUME SrtAssumption == QuickFailure \in Nat

VARIABLES
  srtClock,   \* the wall clock
  ffmpeg,     \* the process: its place, the frames it gave and whether it failed
  loop,       \* loop: its place and its variables
  frame,      \* T of the frame it hands out, or NoFrame
  running,    \* SRTSource.running
  srtErr,     \* SRTSource.err is set, and why: "none", "listener" or "start"
  stream,     \* the channel the run reads: "none", "open" or "closed"
  ctxOver,    \* the run's context ended
  taken,      \* the end of the last frame the run took of this stream
  refused,    \* history: Start answered "source already started"
  outcomes,   \* history: how the runs of ffmpeg of this stream ended
  ahead,      \* history: a sender's audio came faster than it was spoken
  opens

srtVars == <<srtClock, ffmpeg, loop, frame, running, srtErr, stream, ctxOver, taken, refused,
             outcomes, ahead, opens>>

SrtFrame == 2
NoFrame == -1
NoFfmpeg == [at |-> "none", frames |-> 0, failed |-> FALSE]
NewFfmpeg == [NoFfmpeg EXCEPT !.at = "running"]
NewLoop == [at |-> "read", opened |-> srtClock, got |-> FALSE, offset |-> 0, since |-> 0,
            nextT |-> 0, lastAudio |-> 0, hadAudio |-> FALSE, fails |-> 0, origin |-> 0]

SrtInit ==
  /\ srtClock = 0 /\ ffmpeg = NoFfmpeg
  /\ loop = [at |-> "gone", opened |-> 0, got |-> FALSE, offset |-> 0, since |-> 0,
             nextT |-> 0, lastAudio |-> 0, hadAudio |-> FALSE, fails |-> 0, origin |-> 0]
  /\ frame = NoFrame /\ running = FALSE /\ srtErr = "none" /\ stream = "none"
  /\ ctxOver = FALSE /\ taken = 0 /\ refused = FALSE /\ outcomes = <<>> /\ ahead = FALSE
  /\ opens = 0

\* What the deferred function does, in order.  Mutant: the channel is closed first.
LeavingClosed == <<"close", "unset", "gone">>
Leaving == <<"unset", "close", "gone">>
AfterLeaving(place) == Leaving[1 + CHOOSE i \in 1 .. 2 : Leaving[i] = place]

-----------------------------------------------------------------------------
(* Start, and the context *)

\* exec does not start a command whose context is over.
StartSource ==
  /\ stream # "open" /\ ~ctxOver
  /\ \/ running /\ refused' = TRUE
        /\ UNCHANGED <<ffmpeg, loop, running, srtErr, stream, taken, outcomes, ahead, opens>>
     \/ ~running /\ opens < MaxOpens /\ opens' = opens + 1
        /\ ffmpeg' = NewFfmpeg /\ loop' = NewLoop
        /\ running' = TRUE /\ srtErr' = "none" /\ stream' = "open"
        /\ taken' = 0 /\ outcomes' = <<>> /\ ahead' = FALSE
        /\ UNCHANGED refused
  /\ UNCHANGED <<srtClock, frame, ctxOver>>

CancelSource ==
  /\ ~ctxOver /\ ctxOver' = TRUE
  /\ UNCHANGED <<srtClock, ffmpeg, loop, frame, running, srtErr, stream, taken, refused,
                 outcomes, ahead, opens>>

ClockTicks ==
  /\ srtClock < MaxSrtTime /\ srtClock' = srtClock + 1
  /\ UNCHANGED <<ffmpeg, loop, frame, running, srtErr, stream, ctxOver, taken, refused,
                 outcomes, ahead, opens>>

-----------------------------------------------------------------------------
(* One sender *)

\* The wall time since the last audio of the sender before, in whole frames.
RoundedToFrames(d) == ((d + 1) \div SrtFrame) * SrtFrame
SrtGap == IF loop.hadAudio THEN RoundedToFrames(srtClock - loop.lastAudio) ELSE 0

\* Where the sender's time begins.
Offset == IF loop.got THEN loop.offset ELSE loop.nextT + SrtGap

TakeFrame ==
  /\ loop.at = "read" /\ ffmpeg.at = "running" /\ ffmpeg.frames < MaxSrtFrames
  /\ ffmpeg' = [ffmpeg EXCEPT !.frames = @ + 1]
  /\ frame' = Offset + SrtFrame * ffmpeg.frames
  /\ loop' = [loop EXCEPT !.at = "send", !.got = TRUE, !.offset = Offset, !.hadAudio = TRUE,
                !.nextT = Offset + SrtFrame * ffmpeg'.frames, !.lastAudio = srtClock,
                !.since = IF loop.got THEN @ ELSE srtClock,
                !.origin = IF loop.hadAudio THEN @ ELSE srtClock]
  /\ ahead' = (ahead \/ SrtFrame * ffmpeg.frames > srtClock - loop'.since)
  /\ UNCHANGED <<srtClock, running, srtErr, stream, ctxOver, taken, refused, outcomes, opens>>

\* The run takes it, or its context ended and nobody does.
HandOut ==
  /\ loop.at = "send" /\ frame' = NoFrame /\ loop' = [loop EXCEPT !.at = "read"]
  /\ \/ taken' = frame + SrtFrame
     \/ ctxOver /\ UNCHANGED taken
  /\ UNCHANGED <<srtClock, ffmpeg, running, srtErr, stream, ctxOver, refused, outcomes, ahead,
                 opens>>

\* A failure after the context ended is not one: ffmpeg was killed.
FfmpegEnds ==
  /\ ffmpeg.at = "running"
  /\ \E failed \in BOOLEAN :
       ffmpeg' = [ffmpeg EXCEPT !.at = "ended", !.failed = failed /\ ~ctxOver]
  /\ UNCHANGED <<srtClock, loop, frame, running, srtErr, stream, ctxOver, taken, refused,
                 outcomes, ahead, opens>>

\* Failures in a row.
Outcome ==
  IF loop.got THEN "audio"
  ELSE IF ~ffmpeg.failed THEN "empty"
  ELSE IF srtClock - loop.opened < QuickFailure THEN "quick" ELSE "slow"
FailsAfter(outcome) == IF outcome = "quick" THEN loop.fails + 1 ELSE 0

FramesEnd ==
  /\ loop.at = "read" /\ ffmpeg.at = "ended"
  /\ outcomes' = Append(outcomes, Outcome)
  /\ \/ ctxOver /\ loop' = [loop EXCEPT !.at = Leaving[1]] /\ UNCHANGED srtErr
     \/ ~ctxOver /\ FailsAfter(Outcome) >= 3
        /\ loop' = [loop EXCEPT !.at = Leaving[1]] /\ srtErr' = "listener"
     \/ ~ctxOver /\ FailsAfter(Outcome) < 3
        /\ loop' = [loop EXCEPT !.at = "wait", !.fails = FailsAfter(Outcome)] /\ UNCHANGED srtErr
  /\ UNCHANGED <<srtClock, ffmpeg, frame, running, stream, ctxOver, taken, refused, ahead, opens>>

\* The delay passes, and the listener is opened again.  The start of ffmpeg may
\* fail, of a context that is over or of itself, and is not tried again.
Reopen ==
  /\ loop.at = "wait"
  /\ \/ ~ctxOver /\ opens < MaxOpens /\ opens' = opens + 1
        /\ ffmpeg' = NewFfmpeg /\ UNCHANGED srtErr
        /\ loop' = [loop EXCEPT !.at = "read", !.opened = srtClock, !.got = FALSE, !.offset = 0]
     \/ srtErr' = "start" /\ loop' = [loop EXCEPT !.at = Leaving[1]]
        /\ UNCHANGED <<ffmpeg, opens>>
  /\ UNCHANGED <<srtClock, frame, running, stream, ctxOver, taken, refused, outcomes, ahead>>

WaitCancelled ==
  /\ loop.at = "wait" /\ ctxOver /\ loop' = [loop EXCEPT !.at = Leaving[1]]
  /\ UNCHANGED <<srtClock, ffmpeg, frame, running, srtErr, stream, ctxOver, taken, refused,
                 outcomes, ahead, opens>>

Unset ==
  /\ loop.at = "unset" /\ running' = FALSE /\ loop' = [loop EXCEPT !.at = AfterLeaving("unset")]
  /\ UNCHANGED <<srtClock, ffmpeg, frame, srtErr, stream, ctxOver, taken, refused, outcomes,
                 ahead, opens>>

CloseStream ==
  /\ loop.at = "close" /\ stream' = "closed"
  /\ loop' = [loop EXCEPT !.at = AfterLeaving("close")]
  /\ UNCHANGED <<srtClock, ffmpeg, frame, running, srtErr, ctxOver, taken, refused, outcomes,
                 ahead, opens>>

SrtNext ==
  \/ StartSource \/ CancelSource \/ ClockTicks
  \/ TakeFrame \/ HandOut \/ FfmpegEnds \/ FramesEnd \/ Reopen \/ WaitCancelled
  \/ Unset \/ CloseStream
SrtSpec == SrtInit /\ [][SrtNext]_srtVars

-----------------------------------------------------------------------------
(* What holds *)

\* T ascends from sender to sender, and is not ahead of the wall clock by more
\* than a frame and, for each sender before, a frame and the rounding.
SendersBefore == Cardinality({i \in 1 .. Len(outcomes) : outcomes[i] = "audio"})
SrtClockKept ==
  /\ frame # NoFrame => frame >= taken /\ frame + SrtFrame = loop.nextT
  /\ loop.hadAudio /\ ~ahead =>
       2 * loop.nextT <= 2 * (srtClock - loop.origin) + (2 + 3 * SendersBefore) * SrtFrame

\* Not opened "three times in a row": no audio and no other end came in between.
UnopenedThrice ==
  Len(outcomes) >= 3 /\ \A i \in 0 .. 2 : outcomes[Len(outcomes) - i] = "quick"
LoopEnded == stream # "none" /\ loop.at \in {"unset", "close", "gone"}

\* The source ends for a cause it tells: the listener did not open three times in
\* a row; or, with fewer failures than that, ffmpeg could not be run to open it
\* again, of which one failure is enough; or, with no error, the run ended it.
EndsForCause ==
  /\ srtErr = "listener" => LoopEnded /\ UnopenedThrice
  /\ srtErr = "start" => LoopEnded /\ outcomes # <<>> /\ ~UnopenedThrice
  /\ LoopEnded => srtErr # "none" \/ ctxOver

\* The source outlives its senders: the frame stream goes on with time that
\* keeps to the wall clock, it ends only for a cause it tells, and a run that saw
\* it end can start it again.
SourceGoesOn == SrtClockKept /\ EndsForCause /\ ~refused

(* What the code says and does not hold *)

\* "The source only fails (Err) when ffmpeg can't even open the listener three
\* times in a row": a single start of ffmpeg that fails at a reopen ends it too.
FailsUnopened == srtErr # "none" => UnopenedThrice

\* Err: "nil when its context was cancelled".  The delay may pass as the
\* context ends, and the start that follows fails with the context's error.
CancelIsNoError == srtErr = "start" => ~ctxOver
=============================================================================
