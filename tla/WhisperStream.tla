----------------------------- MODULE WhisperStream -----------------------------
(***************************************************************************)
(* One local recognition stream (provider/local/whisper): the segmenter    *)
(* that cuts audio into utterances (vad.go), the queue of chunks and the   *)
(* goroutine that has them transcribed one at a time (provider.go).  A     *)
(* frame is one window of the segmenter, which is speech or not; the       *)
(* levels are left out, so a cut at MaxUtterance may come at any window it *)
(* searches, and the speech in what it carries over is any.                *)
(***************************************************************************)
EXTENDS Integers, Sequences

\* Of VADConfig, in windows.
CONSTANTS
  PreRoll, Pause, SilenceTail, MinSpeech, MaxUtterance, InterimEvery,
  CutSearch,    \* cutSearch
  CutKeep,      \* the end that is not searched
  FinalRetries, \* FinalRetries
  MaxWindows    \* bound: windows heard

ASSUME WhisperAssumption ==
  {PreRoll, Pause, SilenceTail, MinSpeech, MaxUtterance, InterimEvery, CutSearch, CutKeep,
   FinalRetries, MaxWindows} \subseteq Nat

VARIABLES
  seg,          \* the segmenter
  chunks,       \* the queue
  hand,         \* the chunk that is being transcribed, or NoChunk
  transcriber,  \* transcribe: "awake", "asleep" in next, or "ended"
  shown,        \* utterances whose last event is an interim
  settled,      \* the last utterance with a final
  cancelled     \* ctx

whisperVars == <<seg, chunks, hand, transcriber, shown, settled, cancelled>>

NoChunk == [utterance |-> 0, final |-> FALSE, attempt |-> 0]

WhisperInit ==
  /\ seg = [windows |-> 0, input |-> "open", inUtt |-> FALSE, utterance |-> 0, len |-> 0,
            voiced |-> 0, silence |-> 0, voicedEnd |-> 0, lastInterim |-> 0]
  /\ chunks = [finals |-> <<>>, interim |-> 0, closed |-> FALSE, wake |-> FALSE]
  /\ hand = NoChunk /\ transcriber = "awake" /\ shown = {} /\ settled = 0 /\ cancelled = FALSE

Least(m, n) == IF m < n THEN m ELSE n
Most(m, n) == IF m > n THEN m ELSE n

-----------------------------------------------------------------------------
(* The queue *)

PushFinal(q, u) ==
  [q EXCEPT !.finals = Append(@, u), !.interim = IF @ = u THEN 0 ELSE @, !.wake = TRUE]
PushInterim(q, u) == [q EXCEPT !.interim = u, !.wake = TRUE]

-----------------------------------------------------------------------------
(* The segmenter *)

\* keepPreRoll.
PreRolled(s) == [s EXCEPT !.len = Least(@, PreRoll)]

\* commit, of the first windows: what is too short to be speech is dropped.
Committed(s, end) == [s EXCEPT !.len = @ - Least(end, @)]
Kept(s) == s.voiced >= MinSpeech
PushCommitted(s) == IF Kept(s) THEN PushFinal(chunks, s.utterance) ELSE chunks

\* segment's loop, which ends with ctx.
Hears == seg.input = "open" /\ ~cancelled /\ seg.windows < MaxWindows

\* closeWindow outside an utterance.
FirstWindow(speech) ==
  LET s == [seg EXCEPT !.windows = @ + 1, !.len = @ + 1] IN
  /\ Hears /\ ~seg.inUtt
  /\ seg' = IF speech
            THEN [s EXCEPT !.inUtt = TRUE, !.utterance = @ + 1, !.voiced = 1, !.silence = 0,
                           !.voicedEnd = s.len, !.lastInterim = 0]
            ELSE PreRolled(s)
  /\ UNCHANGED chunks

\* closeWindow in one: a pause or the longest utterance ends it, speech may
\* give an interim.
Heard(speech) ==
  LET s == [seg EXCEPT !.windows = @ + 1, !.len = @ + 1]
  IN IF speech THEN [s EXCEPT !.voiced = @ + 1, !.silence = 0, !.voicedEnd = s.len]
     ELSE [s EXCEPT !.silence = @ + 1]

Pauses(s) == s.silence >= Pause
PauseEnds(speech) ==
  LET s == Heard(speech) IN
  /\ Hears /\ seg.inUtt /\ Pauses(s)
  /\ chunks' = PushCommitted(s)
  /\ seg' = PreRolled([Committed(s, Least(s.len, s.voicedEnd + SilenceTail)) EXCEPT !.inUtt = FALSE])

\* cut: at any of the windows searched (counted from 0), with any speech after it.
CutsOf(len) ==
  LET first == Most(1, len - CutSearch)
      last == len - Most(1, CutKeep)
  IN IF last > first THEN first .. last - 1 ELSE {len - 1}
Cut(speech) ==
  LET s == Heard(speech) IN
  /\ Hears /\ seg.inUtt /\ ~Pauses(s) /\ s.len >= MaxUtterance
  /\ chunks' = PushCommitted(s)
  /\ \E at \in CutsOf(s.len) : \E voicedEnd \in 0 .. s.len - at : \E voiced \in 0 .. voicedEnd :
       /\ voicedEnd > 0 => voiced > 0
       /\ seg' = [Committed(s, at) EXCEPT !.utterance = @ + 1, !.voiced = voiced,
                                          !.voicedEnd = voicedEnd, !.lastInterim = 0]

\* Mutant: an interim of an utterance that may turn out to be too short.
InterimAnyway(s) == s.len - s.lastInterim >= InterimEvery
InterimDue(s) == s.voiced >= MinSpeech /\ s.len - s.lastInterim >= InterimEvery
InUtterance(speech) ==
  LET s == Heard(speech)
      interim == speech /\ InterimDue(s)
  IN /\ Hears /\ seg.inUtt /\ ~Pauses(s) /\ s.len < MaxUtterance
     /\ seg' = IF interim THEN [s EXCEPT !.lastInterim = s.len] ELSE s
     /\ chunks' = IF interim THEN PushInterim(chunks, s.utterance) ELSE chunks

\* flush, at a gap in the audio and at its end.
Flushed(s) == [s EXCEPT !.inUtt = FALSE, !.len = 0]
PushFlushed == IF seg.inUtt THEN PushCommitted(seg) ELSE chunks
AudioJumps ==
  /\ Hears /\ (seg.inUtt \/ seg.len > 0)
  /\ seg' = Flushed(seg) /\ chunks' = PushFlushed

InputEnds ==
  /\ seg.input = "open" /\ ~cancelled
  /\ seg' = [Flushed(seg) EXCEPT !.input = "ended"]
  /\ chunks' = [PushFlushed EXCEPT !.closed = TRUE, !.wake = TRUE]
SegmentCancelled ==
  /\ seg.input = "open" /\ cancelled
  /\ seg' = [seg EXCEPT !.input = "ended"]
  /\ chunks' = [chunks EXCEPT !.closed = TRUE, !.wake = TRUE]

SegmentNext ==
  \/ \E speech \in BOOLEAN :
       FirstWindow(speech) \/ PauseEnds(speech) \/ Cut(speech) \/ InUtterance(speech)
  \/ AudioJumps \/ InputEnds \/ SegmentCancelled

-----------------------------------------------------------------------------
(* transcribe and process *)

Chunk(u, final) == [utterance |-> u, final |-> final, attempt |-> 0]
Free == hand = NoChunk /\ transcriber = "awake"
NothingQueued == chunks.finals = <<>> /\ chunks.interim = 0

\* next: finals first, then the interim; with neither it waits for the token,
\* unless the queue is closed.
TakeFinal ==
  /\ Free /\ chunks.finals # <<>>
  /\ hand' = Chunk(Head(chunks.finals), TRUE) /\ chunks' = [chunks EXCEPT !.finals = Tail(@)]
  /\ UNCHANGED <<transcriber, shown, settled>>
TakeInterim ==
  /\ Free /\ chunks.finals = <<>> /\ chunks.interim # 0
  /\ hand' = Chunk(chunks.interim, FALSE) /\ chunks' = [chunks EXCEPT !.interim = 0]
  /\ UNCHANGED <<transcriber, shown, settled>>
FindNothing ==
  /\ Free /\ NothingQueued
  /\ transcriber' = IF chunks.closed THEN "ended" ELSE "asleep"
  /\ UNCHANGED <<chunks, hand, shown, settled>>
WakeUp ==
  /\ transcriber = "asleep" /\ chunks.wake
  /\ transcriber' = "awake" /\ chunks' = [chunks EXCEPT !.wake = FALSE]
  /\ UNCHANGED <<hand, shown, settled>>
EndCancelled ==
  /\ transcriber # "ended" /\ cancelled
  /\ transcriber' = "ended" /\ hand' = NoChunk /\ UNCHANGED <<chunks, shown, settled>>

\* An interim shows a text, or none: an empty or an unchanged one, or the
\* server failed.
InterimDone(text) ==
  /\ hand # NoChunk /\ ~hand.final /\ ~cancelled
  /\ shown' = IF text THEN shown \cup {hand.utterance} ELSE shown
  /\ hand' = NoChunk /\ UNCHANGED <<chunks, transcriber, settled>>

\* The server fails on a final that can be tried again.
FinalFails ==
  /\ hand.final /\ ~cancelled /\ hand.attempt < FinalRetries
  /\ hand' = [hand EXCEPT !.attempt = @ + 1]
  /\ UNCHANGED <<chunks, transcriber, shown, settled>>

\* A final: its text, or the one shown when there is none or the server failed
\* for the last time.  Without either there is nothing to settle.
FinalDone(text) ==
  /\ hand.final /\ ~cancelled
  /\ settled' = IF text \/ hand.utterance \in shown THEN hand.utterance ELSE settled
  /\ shown' = shown \ {hand.utterance}
  /\ hand' = NoChunk /\ UNCHANGED <<chunks, transcriber>>

TranscribeNext ==
  \/ TakeFinal \/ TakeInterim \/ FindNothing \/ WakeUp
  \/ (\E text \in BOOLEAN : InterimDone(text) \/ FinalDone(text))
  \/ FinalFails \/ EndCancelled

CancelStream ==
  /\ ~cancelled /\ cancelled' = TRUE
  /\ UNCHANGED <<seg, chunks, hand, transcriber, shown, settled>>

WhisperNext ==
  \/ SegmentNext /\ UNCHANGED <<hand, transcriber, shown, settled, cancelled>>
  \/ TranscribeNext /\ UNCHANGED <<seg, cancelled>>
  \/ CancelStream

WhisperSpec == WhisperInit /\ [][WhisperNext]_whisperVars

-----------------------------------------------------------------------------
(* What holds *)

\* "The text shown so far becomes final rather than staying interim forever":
\* an utterance with an interim on screen is one that is still spoken and long
\* enough to be kept, or its final is queued or being transcribed.  No interim
\* comes after its final, finals come in the order they were spoken, and the
\* transcriber neither ends nor sleeps, without a token, on what is queued.
InterimsEnd ==
  /\ \A u \in shown :
       \/ cancelled
       \/ seg.inUtt /\ u = seg.utterance /\ Kept(seg)
       \/ \E i \in DOMAIN chunks.finals : chunks.finals[i] = u
       \/ hand.final /\ hand.utterance = u
  /\ \A u \in shown : u > settled
  /\ \A i \in DOMAIN chunks.finals :
       /\ chunks.finals[i] > settled /\ (hand.final => chunks.finals[i] > hand.utterance)
       /\ \A j \in DOMAIN chunks.finals : i < j => chunks.finals[i] < chunks.finals[j]
  /\ ~NothingQueued => transcriber = "awake" \/ chunks.wake \/ cancelled
=============================================================================
