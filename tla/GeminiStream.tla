---------------------------- MODULE GeminiStream ----------------------------
(***************************************************************************)
(* One Gemini recognition stream (provider/gemini/asr_stream.go): a        *)
(* goroutine that feeds audio to the current Live connection, replaces it  *)
(* in a rotation (next, old) and after a loss, and keeps the audio that no *)
(* connection has taken.  Handlers call each other and any send in them    *)
(* may fail, so an operator for a handler is the set of the stream's       *)
(* possible states after it.  Of audio the model keeps the number of its   *)
(* frames, of an utterance whether a line of it is on screen without its   *)
(* final.  Deadlines may pass at any tick.  A batch that comes back from a  *)
(* lost connection is dropped frame by frame here and whole in the code,   *)
(* and the end of ctx, which drops everything, is left out.                *)
(***************************************************************************)
EXTENDS Integers, Sequences

CONSTANTS
  AsrSendEvery,   \* frames of a batch (SendEvery)
  AsrResend,      \* frames of a batch of buffered audio (one second)
  AsrMaxBuffer,   \* MaxBuffer, in frames
  AsrMaxRetries,  \* MaxRetries
  AsrMaxFrames,   \* bound: frames heard
  AsrMaxConns,    \* bound: connections
  AsrMaxFails     \* bound: failed sends, receives and dials

ASSUME AsrAssumption ==
  {AsrSendEvery, AsrResend, AsrMaxBuffer, AsrMaxRetries, AsrMaxFrames, AsrMaxConns, AsrMaxFails} \subseteq Nat

VARIABLE asr

NewConn == [open |-> TRUE, fed |-> FALSE, line |-> FALSE, flushed |-> FALSE, ending |-> FALSE]

NewStream ==
  [conns |-> <<NewConn>>,
   cur |-> 1, next |-> 0, old |-> 0,
   dial |-> "none",     \* "none", "dialing", "opened" or "failed" (unread), or "retry"
   retries |-> 0,
   rotating |-> FALSE,  \* forceAt is set
   batch |-> <<>>, buffered |-> <<>>,
   heard |-> 0, sent |-> <<>>, dropped |-> <<>>,
   ended |-> FALSE, over |-> FALSE, fails |-> AsrMaxFails]

AsrInit == asr = NewStream

\* The results of a handler that goes on from any of some states.
Then(states, Go(_)) == UNION {Go(s) : s \in states}

MayFail(s) == s.fails > 0
Failing(s) == [s EXCEPT !.fails = @ - 1]

-----------------------------------------------------------------------------
(* Connections that go *)

\* flush: the final of the open line.
FlushedLine(s, c) ==
  IF s.conns[c].line
  THEN [s EXCEPT !.conns[c].line = FALSE, !.conns[c].flushed = TRUE]
  ELSE s

CloseConn(s, c) == [s EXCEPT !.conns[c].open = FALSE]

Owned(s) == {s.cur, s.next, s.old} \ {0}

\* finish, and what run's deferred calls close.
Finish(s) ==
  LET flushed == [c \in DOMAIN s.conns |->
        IF c \in {s.cur, s.old} THEN [s.conns[c] EXCEPT !.line = FALSE] ELSE s.conns[c]]
  IN [s EXCEPT !.over = TRUE,
        !.conns = [c \in DOMAIN flushed |->
          IF c \in Owned(s) THEN [flushed[c] EXCEPT !.open = FALSE] ELSE flushed[c]]]

\* retire, of the replaced connection.  Mutant: without its final.
RetireUnflushed(s) == [CloseConn(s, s.old) EXCEPT !.old = 0]
Retire(s) == [CloseConn(FlushedLine(s, s.old), s.old) EXCEPT !.old = 0]

StartDial(s) == IF s.dial = "none" THEN [s EXCEPT !.dial = "dialing"] ELSE s

\* What lost keeps of the audio that was not sent.  Mutant: it forgets the
\* batch of the failed send.
BatchLost(s) == s.buffered
Unsent(s) == s.batch \o s.buffered

\* lost, of the current connection, up to where a rotation's takes over.
Dropped(s) ==
  [FlushedLine(CloseConn(s, s.cur), s.cur) EXCEPT !.cur = 0]

\* lost without a connection that takes over.
LostAlone(s) ==
  LET down == Dropped(s)
      kept == [down EXCEPT !.buffered = Unsent(s), !.batch = <<>>, !.retries = 0]
  IN IF s.ended /\ s.conns[s.cur].ending THEN Finish(down)
     ELSE IF s.ended /\ s.dial \in {"none", "retry"} THEN Finish(kept)
     ELSE StartDial(kept)

-----------------------------------------------------------------------------
(* Audio *)

\* buffer: the oldest goes when it is full.
WithBuffered(s, frames) ==
  LET all == s.buffered \o frames
      excess == IF Len(all) > AsrMaxBuffer THEN Len(all) - AsrMaxBuffer ELSE 0
  IN [s EXCEPT !.buffered = SubSeq(all, excess + 1, Len(all)),
               !.dropped = @ \o SubSeq(all, 1, excess)]

\* attach's loop: all of the buffered audio is sent, or a batch fails, which
\* starts after the first k frames, and the rest waits for the next connection.
Rest(pending, k) == SubSeq(pending, k + AsrResend + 1, Len(pending))

Accepted(s, frames) ==
  [s EXCEPT !.sent = @ \o frames, !.conns[s.cur].fed = @ \/ frames # <<>>]

ResendFails(s, pending, k) ==
  LET upTo == IF k + AsrResend < Len(pending) THEN k + AsrResend ELSE Len(pending)
      some == Accepted(Failing(s), SubSeq(pending, 1, k))
  IN WithBuffered(LostAlone([some EXCEPT !.batch = SubSeq(pending, k + 1, upTo)]), Rest(pending, k))

\* sendStreamEnd, to the current connection, with no other to take over.
EndAlone(s) ==
  IF s.cur = 0 \/ s.conns[s.cur].ending THEN {s}
  ELSE {[s EXCEPT !.conns[s.cur].ending = TRUE]}
       \cup IF MayFail(s) THEN {LostAlone(Failing(s))} ELSE {}

\* attach; it is only called when no rotation's connection waits.
Attach(s, c) ==
  LET pending == s.buffered
      on == [s EXCEPT !.cur = c, !.rotating = FALSE, !.buffered = <<>>]
      fails == {k \in 0 .. Len(pending) - 1 : k % AsrResend = 0}
      whole == Accepted(on, pending)
  IN (IF s.ended THEN EndAlone(whole) ELSE {whole})
     \cup IF MayFail(s) THEN {ResendFails(on, pending, k) : k \in fails} ELSE {}

\* lost, of whichever connection.
LoseConn(s, c) ==
  CASE c = s.old  -> {Retire(s)}
    [] c = s.next -> {[CloseConn(s, c) EXCEPT !.next = 0]}
    [] c = s.cur /\ s.next = 0 -> {LostAlone(s)}
    [] c = s.cur /\ s.next # 0 ->
         Attach([Dropped(s) EXCEPT !.buffered = Unsent(s), !.batch = <<>>, !.next = 0], s.next)
    [] OTHER -> {s}

\* send: the batch, if there is one.
SendBatch(s) ==
  IF s.cur = 0 \/ s.batch = <<>> THEN {s}
  ELSE {[Accepted(s, s.batch) EXCEPT !.batch = <<>>]}
       \cup IF MayFail(s) THEN LoseConn(Failing(s), s.cur) ELSE {}

\* sendStreamEnd, to the replaced connection.
EndOld(s) ==
  {[s EXCEPT !.conns[s.old].ending = TRUE]}
  \cup IF MayFail(s) THEN {Retire(Failing(s))} ELSE {}

-----------------------------------------------------------------------------
(* Rotation *)

Rotate(s) ==
  IF s.ended \/ s.cur = 0 THEN s
  ELSE LET due == [s EXCEPT !.rotating = TRUE] IN IF s.next = 0 THEN StartDial(due) ELSE due

\* The switch of maybeSwitch.  Mutant: a connection that is still draining is
\* forgotten.
RetireBeforeNot(s) == s
RetireBefore(s) == IF s.old # 0 THEN Retire(s) ELSE s
Switch(s) ==
  LET old == s.cur
      next == s.next
      HandOver(q) ==
        IF q.cur # old THEN {q}
        ELSE Then(Attach([RetireBefore([q EXCEPT !.next = 0]) EXCEPT !.old = old], next), EndOld)
  IN Then(SendBatch(s), HandOver)

\* maybeSwitch waits for the end of an utterance, or of RotateGrace.
MaybeSwitch(s) ==
  IF s.over \/ s.cur = 0 \/ s.next = 0 THEN {s}
  ELSE IF s.conns[s.cur].line /\ s.rotating THEN {s} \cup Switch(s)
  ELSE Switch(s)

-----------------------------------------------------------------------------
(* The handlers of run *)

AsrStep(results) == ~asr.over /\ asr' \in results

\* frame.
Frame ==
  LET s == [asr EXCEPT !.heard = @ + 1]
      f == s.heard
      queued == [s EXCEPT !.batch = Append(@, f)]
  IN /\ ~asr.ended /\ asr.heard < AsrMaxFrames
     /\ AsrStep(IF s.cur = 0 THEN {WithBuffered(s, <<f>>)}
                ELSE IF Len(queued.batch) >= AsrSendEvery THEN SendBatch(queued) ELSE {queued})

\* endInput.
NextClosed(s) == IF s.next = 0 THEN s ELSE [CloseConn(s, s.next) EXCEPT !.next = 0]
EndInput ==
  LET s == [NextClosed(asr) EXCEPT !.ended = TRUE, !.rotating = FALSE] IN
  /\ ~asr.ended
  /\ AsrStep(IF s.cur # 0 THEN Then(SendBatch(s), EndAlone)
             ELSE IF s.dial = "none" THEN {Finish(s)} ELSE {s})

\* handle, of what a connection that was fed may say: an interim, a final, the
\* end of a turn, and of a go-away.
GoAway == asr.cur # 0 /\ AsrStep(MaybeSwitch(Rotate(asr)))

Interim(c) ==
  /\ c \in Owned(asr) /\ asr.conns[c].fed
  /\ AsrStep(MaybeSwitch([asr EXCEPT !.conns[c].line = TRUE, !.conns[c].flushed = FALSE]))

\* The final ends the line, if there is one; the one of a line that the safety
\* flush ended is dropped.
FinalText(s, c) == [s EXCEPT !.conns[c].line = FALSE, !.conns[c].flushed = FALSE]
Turn(s, c) ==
  IF c = s.old THEN Retire(s)
  ELSE IF c = s.cur /\ s.conns[c].ending THEN Finish(s) ELSE s

Final(c, turn) ==
  /\ c \in Owned(asr) /\ asr.conns[c].fed
  /\ LET s == FinalText(asr, c) IN AsrStep(MaybeSwitch(IF turn THEN Turn(s, c) ELSE s))
TurnEnds(c) == c \in Owned(asr) /\ asr.conns[c].fed /\ AsrStep(MaybeSwitch(Turn(asr, c)))

\* A connection fails on its own; read reports it.
ConnLost(c) == c \in Owned(asr) /\ MayFail(asr) /\ AsrStep(LoseConn(Failing(asr), c))

\* dialed.
Unwanted(s) == s.ended \/ s.next # 0
Dialed ==
  LET s == [asr EXCEPT !.dial = "none"]
      c == Len(s.conns)
      up == [s EXCEPT !.retries = 0]
  IN /\ asr.dial = "opened"
     /\ AsrStep(IF s.cur = 0 THEN Attach(up, c)
                ELSE IF Unwanted(s) THEN {CloseConn(up, c)}
                ELSE MaybeSwitch([up EXCEPT !.next = c]))

DialFailed ==
  LET s == [asr EXCEPT !.dial = "none", !.retries = @ + 1]
      retrying == [s EXCEPT !.dial = "retry"]
  IN /\ asr.dial = "failed"
     /\ AsrStep({IF s.cur = 0 /\ (s.retries > AsrMaxRetries \/ s.ended) THEN Finish(s)
                 ELSE IF s.cur # 0 /\ s.ended THEN s ELSE retrying})

RetryFires == asr.dial = "retry" /\ AsrStep({[asr EXCEPT !.dial = "dialing"]})

\* onTick: a rotation that is due or has lost its connection, a switch, lines
\* that stood still, an old connection's time, the end.
TickRotates(s) ==
  IF s.cur = 0 \/ s.ended THEN {s}
  ELSE Then(IF ~s.rotating THEN {s, Rotate(s)} ELSE {IF s.next = 0 THEN StartDial(s) ELSE s},
            MaybeSwitch)
TickFlushes(s) ==
  {s} \cup {FlushedLine(s, c) : c \in {s.cur, s.old} \ {0}}
TickRetires(s) == IF s.old = 0 THEN {s} ELSE {s, Retire(s)}
TickEnds(s) == IF s.ended THEN {s, Finish(s)} ELSE {s}
Tick == AsrStep(Then(Then(Then(TickRotates(asr), TickFlushes), TickRetires), TickEnds))

\* The dialler, external: dialCtx.
DialOpens ==
  /\ ~asr.over /\ asr.dial = "dialing" /\ Len(asr.conns) < AsrMaxConns
  /\ asr' = [asr EXCEPT !.dial = "opened",
       !.conns = Append(@, NewConn)]
DialFails ==
  /\ ~asr.over /\ asr.dial = "dialing" /\ MayFail(asr)
  /\ asr' = [Failing(asr) EXCEPT !.dial = "failed"]

AsrNext ==
  \/ Frame \/ EndInput \/ GoAway \/ Tick
  \/ \E c \in DOMAIN asr.conns :
       Interim(c) \/ TurnEnds(c) \/ ConnLost(c) \/ \E turn \in BOOLEAN : Final(c, turn)
  \/ Dialed \/ DialFailed \/ RetryFires \/ DialOpens \/ DialFails

AsrSpec == AsrInit /\ [][AsrNext]_asr

-----------------------------------------------------------------------------
(* What holds *)

\* "Every frame goes to exactly one connection, so nothing is lost or
\* transcribed twice": what connections took, what is batched and what waits
\* is one ascending line, and what is not in it was dropped from a full buffer.
AudioInLine ==
  LET all == asr.sent \o asr.batch \o asr.buffered
      In(f, q) == \E i \in DOMAIN q : q[i] = f
  IN /\ \A i, j \in DOMAIN all : i < j => all[i] < all[j]
     /\ \A f \in 1 .. asr.heard : In(f, all) # In(f, asr.dropped)

\* Every connection that was opened is one the stream still holds, the dialler
\* is handing over, or closed: rotations and losses leave none open.
ConnsOwned ==
  \A c \in DOMAIN asr.conns :
    asr.conns[c].open =>
      c \in Owned(asr) \/ (asr.dial = "opened" /\ c = Len(asr.conns))

\* A line on screen always gets its final: its connection is still listened to,
\* or it was finalized when the connection went.
LinesEnd ==
  \A c \in DOMAIN asr.conns : asr.conns[c].line => ~asr.over /\ c \in {asr.cur, asr.old}

\* Rotation, loss and the end of the input strand nothing, with up to three
\* connections at once.
NoneStranded == ConnsOwned /\ LinesEnd

\* Over rotations, losses and redials a stream keeps what it was given and what
\* it opened: its frames, its connections and its lines.
StreamSound == AudioInLine /\ NoneStranded

(* What the code says and does not hold *)

\* "done: closed when run returns; stops readers and dialers": a connection
\* that was opened as the stream ended is closed.
DialersStopped == asr.over => \A c \in DOMAIN asr.conns : ~asr.conns[c].open
=============================================================================
