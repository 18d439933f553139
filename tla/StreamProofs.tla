------------------------------ MODULE StreamProofs ------------------------------
(***************************************************************************)
(* What the components promise that speech comes from and captions go to:  *)
(* WhisperStream, for any settings of its segmenter; SrtSource, for any     *)
(* number of senders, frames and restarts and any time; ProviderKey, for    *)
(* any keys, any number of requests and checks, with or without a keychain  *)
(* and a file; GeminiStream, for any sizes of its batches and its buffer    *)
(* and any number of frames, connections and failures; and StreamCaptions,  *)
(* for any plan of runs, captions, URL changes, tests and deletions, any    *)
(* size of the queue and of what a sink remembers, any failures, retries    *)
(* and drain timeouts.                                                      *)
(***************************************************************************)
EXTENDS WhisperStream, SrtSource, ProviderKey, GeminiStream, StreamCaptions, FiniteSetTheorems,
  SequenceTheorems, TLAPS

-----------------------------------------------------------------------------
(* WhisperStream *)

\* Of the segmenter nothing is needed but where its utterance is and how much
\* of it is speech.
IsSegmenter(s) ==
  /\ s = [windows |-> s.windows, input |-> s.input, inUtt |-> s.inUtt, utterance |-> s.utterance,
          len |-> s.len, voiced |-> s.voiced, silence |-> s.silence, voicedEnd |-> s.voicedEnd,
          lastInterim |-> s.lastInterim]
  /\ s.inUtt \in BOOLEAN /\ s.utterance \in Nat /\ s.voiced \in Int

WhisperTypes ==
  /\ IsSegmenter(seg) /\ (seg.inUtt => seg.utterance >= 1)
  /\ chunks \in [finals : Seq(Nat), interim : Nat, closed : BOOLEAN, wake : BOOLEAN]
  /\ hand \in [utterance : Nat, final : BOOLEAN, attempt : Nat]
  /\ (hand.final => hand.utterance >= 1) /\ (hand.utterance = 0 => hand = NoChunk)
  /\ transcriber \in {"awake", "asleep", "ended"}
  /\ shown \subseteq Nat /\ settled \in Nat /\ cancelled \in BOOLEAN

\* An utterance whose final is still to come: one that is spoken and will be
\* kept, or one that is queued or transcribed.
Speaking(u) == seg.inUtt /\ u = seg.utterance /\ Kept(seg)
Awaited(u) ==
  \/ Speaking(u)
  \/ \E i \in 1 .. Len(chunks.finals) : chunks.finals[i] = u
  \/ hand.final /\ hand.utterance = u

\* Where interims are: queued only while the utterance is spoken; what is being
\* transcribed, or on screen, awaits its final.
InterimsAwait ==
  /\ chunks.interim # 0 => Speaking(chunks.interim)
  /\ ~cancelled => \A u \in shown : Awaited(u)
  /\ ~cancelled /\ hand # NoChunk => Awaited(hand.utterance)

\* Finals come in the order of the utterances, none for one that is spoken.
Before(u) == u <= seg.utterance /\ (seg.inUtt => u < seg.utterance)
FinalsInOrder ==
  /\ Before(settled) /\ (hand.final => Before(hand.utterance) /\ hand.utterance > settled)
  /\ \A i \in 1 .. Len(chunks.finals) :
       /\ Before(chunks.finals[i]) /\ chunks.finals[i] > settled
       /\ hand.final => chunks.finals[i] > hand.utterance
       /\ \A j \in 1 .. Len(chunks.finals) : i < j => chunks.finals[i] < chunks.finals[j]
  /\ \A u \in shown : u > settled
  /\ hand # NoChunk => hand.utterance > settled

NotLeft == ~NothingQueued => transcriber = "awake" \/ chunks.wake \/ cancelled

WhisperInv == WhisperTypes /\ InterimsAwait /\ FinalsInOrder /\ NotLeft

\* What Append adds to a queue of finals, and where.
LEMMA AppendAt ==
  ASSUME NEW fs \in Seq(Nat), NEW u \in Nat
  PROVE  /\ Len(Append(fs, u)) = Len(fs) + 1 /\ Append(fs, u)[Len(fs) + 1] = u
         /\ \A i \in 1 .. Len(fs) : Append(fs, u)[i] = fs[i] /\ fs[i] \in Nat
         /\ \A i \in 1 .. Len(fs) + 1 : i = Len(fs) + 1 \/ i \in 1 .. Len(fs)
         /\ \A i \in 1 .. Len(fs) : i \in 1 .. Len(fs) + 1
OBVIOUS

\* No utterance, no chunk and no line at first.
LEMMA WhisperInitInv == WhisperInit => WhisperInv
<1> SUFFICES ASSUME WhisperInit PROVE WhisperInv OBVIOUS
<1> USE DEF WhisperInit
<1>1. WhisperTypes
  <2>1. IsSegmenter(seg) /\ ~seg.inUtt BY DEF IsSegmenter
  <2>2. chunks \in [finals : Seq(Nat), interim : Nat, closed : BOOLEAN, wake : BOOLEAN] OBVIOUS
  <2>3. /\ hand \in [utterance : Nat, final : BOOLEAN, attempt : Nat] /\ ~hand.final
        /\ hand = NoChunk
    BY DEF NoChunk
  <2>4. QED BY <2>1, <2>2, <2>3 DEF WhisperTypes
<1>2. InterimsAwait BY DEF InterimsAwait
<1>3. FinalsInOrder BY DEF FinalsInOrder, Before, NoChunk
<1>4. NotLeft BY DEF NotLeft, NothingQueued
<1>5. QED BY <1>1, <1>2, <1>3, <1>4 DEF WhisperInv

\* What a step of the segmenter does to its utterance and to the queue.
SameUtterance ==
  /\ seg'.inUtt = seg.inUtt /\ seg'.utterance = seg.utterance /\ (Kept(seg) => Kept(seg'))
  /\ chunks'.finals = chunks.finals
  /\ \/ chunks'.interim = chunks.interim
     \/ seg.inUtt /\ chunks'.interim = seg.utterance /\ Kept(seg')
NextUtterance ==
  \/ ~seg'.inUtt /\ seg'.utterance = seg.utterance
  \/ seg'.inUtt /\ seg'.utterance = seg.utterance + 1
FinishedUtterance ==
  /\ seg.inUtt /\ NextUtterance
  /\ \/ /\ chunks'.finals = Append(chunks.finals, seg.utterance)
        /\ chunks'.interim = IF chunks.interim = seg.utterance THEN 0 ELSE chunks.interim
     \/ ~Kept(seg) /\ chunks'.finals = chunks.finals /\ chunks'.interim = chunks.interim
FirstUtterance ==
  ~seg.inUtt /\ NextUtterance /\ chunks'.finals = chunks.finals /\ chunks'.interim = chunks.interim
WhisperWoken ==
  \/ chunks'.wake
  \/ chunks'.wake = chunks.wake /\ chunks'.finals = chunks.finals /\ chunks'.interim = chunks.interim

\* The segmenter keeps it while it goes on with its utterance, ends it into the
\* queue or begins the next.
LEMMA SegmenterKeeps ==
  ASSUME WhisperInv, SameUtterance \/ FinishedUtterance \/ FirstUtterance, WhisperWoken,
         IsSegmenter(seg'),
         chunks' \in [finals : Seq(Nat), interim : Nat, closed : BOOLEAN, wake : BOOLEAN],
         UNCHANGED <<hand, transcriber, shown, settled, cancelled>>
  PROVE  WhisperInv'
<1> DEFINE u == seg.utterance
           fs == chunks.finals
<1>1. u \in Nat /\ seg'.utterance \in Nat /\ fs \in Seq(Nat) BY DEF WhisperInv, WhisperTypes, IsSegmenter
<1>2. seg'.inUtt => seg'.utterance >= 1
  <2>1. seg.inUtt => u >= 1 BY DEF WhisperInv, WhisperTypes
  <2>2. \/ (seg'.inUtt => seg.inUtt) /\ seg'.utterance = u
        \/ seg'.inUtt /\ seg'.utterance = u + 1
        \/ ~seg'.inUtt
    BY DEF SameUtterance, FinishedUtterance, FirstUtterance, NextUtterance
  <2>3. QED BY <1>1, <2>1, <2>2
<1>3. WhisperTypes' BY <1>2 DEF WhisperInv, WhisperTypes, NoChunk
<1>4. \A n \in Nat : Before(n) => Before(n)'
  BY <1>1 DEF Before, SameUtterance, FinishedUtterance, FirstUtterance, NextUtterance
<1>5. \A n \in Nat : Speaking(n) => Speaking(n)' \/ (FinishedUtterance /\ n = u /\ Kept(seg))
  BY DEF Speaking, SameUtterance, FinishedUtterance, FirstUtterance
<1>6. chunks'.finals = fs \/ (chunks'.finals = Append(fs, u) /\ FinishedUtterance)
  BY DEF SameUtterance, FinishedUtterance, FirstUtterance
<1>7. \A n \in Nat : Awaited(n) => Awaited(n)'
  <2> SUFFICES ASSUME NEW n \in Nat, Awaited(n) PROVE Awaited(n)' OBVIOUS
  <2>1. CASE Speaking(n)
    <3>1. CASE Speaking(n)' BY <3>1 DEF Awaited
    <3>2. CASE FinishedUtterance /\ n = u /\ Kept(seg)
      <4>1. chunks'.finals = Append(fs, u) BY <3>2 DEF FinishedUtterance
      <4>2. chunks'.finals[Len(fs) + 1] = u /\ Len(fs) + 1 \in 1 .. Len(chunks'.finals) BY <1>1, <4>1
      <4>3. QED BY <3>2, <4>2 DEF Awaited
    <3>3. QED BY <1>5, <2>1, <3>1, <3>2
  <2>2. ASSUME NEW i \in 1 .. Len(fs), fs[i] = n PROVE Awaited(n)'
    <3>1. chunks'.finals[i] = n /\ i \in 1 .. Len(chunks'.finals) 
      <4>1. CASE chunks'.finals = fs BY <2>2, <4>1
      <4>2. CASE chunks'.finals = Append(fs, u)
        <5>1. Append(fs, u)[i] = fs[i] /\ i \in 1 .. Len(Append(fs, u)) BY ONLY <1>1, <2>2, AppendAt
        <5>2. QED BY <2>2, <4>2, <5>1
      <4>3. QED BY <1>6, <4>1, <4>2
    <3>2. QED BY <3>1 DEF Awaited
  <2>3. CASE hand.final /\ hand.utterance = n BY <2>3 DEF Awaited
  <2>4. QED BY <2>1, <2>2, <2>3 DEF Awaited
<1>8. InterimsAwait'
  <2>1. chunks'.interim # 0 => Speaking(chunks.interim)'
    <3>1. CASE chunks'.interim # chunks.interim
      BY <3>1, <1>1 DEF SameUtterance, FinishedUtterance, FirstUtterance, Speaking
    <3>2. CASE chunks'.interim = chunks.interim
      BY <3>2, <1>1, <1>5 DEF WhisperInv, InterimsAwait, Speaking, FinishedUtterance, SameUtterance, FirstUtterance
    <3>3. QED BY <3>1, <3>2
  <2>2. QED BY <1>7, <2>1 DEF WhisperInv, WhisperTypes, InterimsAwait
<1>9. FinalsInOrder'
  <2>1. Before(settled)' /\ (hand'.final => Before(hand.utterance)' /\ hand'.utterance > settled')
    BY <1>4 DEF WhisperInv, WhisperTypes, FinalsInOrder
  <2>2. ASSUME NEW i \in 1 .. Len(chunks'.finals)
        PROVE  /\ Before(chunks.finals[i])' /\ chunks'.finals[i] > settled'
               /\ hand'.final => chunks'.finals[i] > hand'.utterance
               /\ \A j \in 1 .. Len(chunks'.finals) : i < j => chunks'.finals[i] < chunks'.finals[j]
    <3>1. CASE chunks'.finals = fs
      <4>1. fs[i] \in Nat BY <1>1, <3>1
      <4>2. QED BY <1>4, <3>1, <4>1 DEF WhisperInv, FinalsInOrder, Before
    <3>2. CASE chunks'.finals = Append(fs, u) /\ FinishedUtterance
      <4>1. /\ settled < u /\ (hand.final => hand.utterance < u)
            /\ \A k \in 1 .. Len(fs) : fs[k] < u
        BY <1>1, <3>2 DEF WhisperInv, FinalsInOrder, Before, FinishedUtterance
      <4>2. u <= seg'.utterance /\ (seg'.inUtt => u < seg'.utterance)
        BY <1>1, <3>2 DEF FinishedUtterance, NextUtterance
      <4> DEFINE gs == chunks'.finals
      <4>3. /\ Len(gs) = Len(fs) + 1 /\ gs[Len(fs) + 1] = u
            /\ \A k \in 1 .. Len(fs) : gs[k] = fs[k] /\ fs[k] \in Nat
            /\ \A k \in 1 .. Len(gs) : k = Len(fs) + 1 \/ k \in 1 .. Len(fs)
        <5>1. fs \in Seq(Nat) /\ u \in Nat BY <1>1
        <5>2. gs = Append(fs, u) BY <3>2
        <5> HIDE DEF gs, fs, u
        <5>3. /\ Len(Append(fs, u)) = Len(fs) + 1 /\ Append(fs, u)[Len(fs) + 1] = u
              /\ \A k \in 1 .. Len(fs) : Append(fs, u)[k] = fs[k] /\ fs[k] \in Nat
              /\ \A k \in 1 .. Len(fs) + 1 : k = Len(fs) + 1 \/ k \in 1 .. Len(fs)
          BY ONLY <5>1, AppendAt
        <5>4. QED BY ONLY <5>2, <5>3
      <4>4. CASE i = Len(fs) + 1
        <5>1. gs[i] = u BY <4>3, <4>4
        <5>2. \A j \in 1 .. Len(chunks'.finals) : ~(i < j) BY <1>1, <4>3, <4>4
        <5>3. QED BY <1>1, <4>1, <4>2, <5>1, <5>2 DEF Before, WhisperInv, WhisperTypes
      <4>5. CASE i \in 1 .. Len(fs)
        <5>1. gs[i] = fs[i] /\ fs[i] \in Nat BY <4>3, <4>5
        <5>2. \A j \in 1 .. Len(chunks'.finals) : i < j => fs[i] < chunks'.finals[j]
          <6> SUFFICES ASSUME NEW j \in 1 .. Len(chunks'.finals), i < j
                       PROVE  fs[i] < chunks'.finals[j] OBVIOUS
          <6>1. CASE j = Len(fs) + 1 BY <4>1, <4>3, <4>5, <6>1
          <6>2. CASE j \in 1 .. Len(fs)
            <7>1. gs[j] = fs[j] BY <4>3, <6>2
            <7>2. fs[i] < fs[j] BY <4>5, <6>2 DEF WhisperInv, FinalsInOrder
            <7>3. QED BY <7>1, <7>2
          <6>3. QED BY <4>3, <6>1, <6>2
        <5>3. Before(fs[i]) /\ fs[i] > settled /\ (hand.final => fs[i] > hand.utterance)
          BY <4>5 DEF WhisperInv, FinalsInOrder
        <5>4. Before(chunks.finals[i])' BY <1>4, <5>1, <5>3 DEF Before
        <5>5. gs[i] > settled' /\ (hand'.final => gs[i] > hand'.utterance) BY <5>1, <5>3
        <5>6. \A j \in 1 .. Len(gs) : i < j => gs[i] < gs[j] BY <5>1, <5>2
        <5>7. QED BY <5>4, <5>5, <5>6
      <4>6. QED BY <4>3, <4>4, <4>5
    <3>3. QED BY <1>6, <3>1, <3>2
  <2>3. /\ \A n \in shown' : n > settled'
        /\ hand' # NoChunk => hand'.utterance > settled'
    BY DEF WhisperInv, FinalsInOrder, NoChunk
  <2>4. QED BY <2>1, <2>2, <2>3 DEF FinalsInOrder
<1>10. NotLeft'
  BY DEF WhisperInv, NotLeft, NothingQueued, WhisperWoken
<1>11. QED BY <1>3, <1>8, <1>9, <1>10 DEF WhisperInv

\* The operators of the segmenter keep what is needed of it.
Alike(r, s) == IsSegmenter(s) /\ s.inUtt = r.inUtt /\ s.utterance = r.utterance

\* Trimming to the pre-roll is about samples, not about the utterance.
LEMMA PreRolledAlike == ASSUME NEW s, IsSegmenter(s) PROVE Alike(s, PreRolled(s))
<1> DEFINE n == Least(s.len, PreRoll)
           r == [s EXCEPT !.len = n]
<1>1. PreRolled(s) = r BY DEF PreRolled
<1> HIDE DEF n
<1>2. r = [windows |-> s.windows, input |-> s.input, inUtt |-> s.inUtt, utterance |-> s.utterance,
           len |-> n, voiced |-> s.voiced, silence |-> s.silence, voicedEnd |-> s.voicedEnd,
           lastInterim |-> s.lastInterim]
  BY DEF IsSegmenter
<1> HIDE DEF r
<1>3. r.inUtt = s.inUtt /\ r.utterance = s.utterance /\ r.voiced = s.voiced BY <1>2
<1>4. IsSegmenter(r) BY <1>2, <1>3 DEF IsSegmenter
<1>5. QED BY <1>1, <1>3, <1>4 DEF Alike

\* Taking the committed samples off is about samples, not about the utterance.
LEMMA CommittedAlike ==
  ASSUME NEW s, IsSegmenter(s), NEW end
  PROVE  Alike(s, Committed(s, end))
<1> DEFINE n == s.len - Least(end, s.len)
           r == [s EXCEPT !.len = n]
<1>1. Committed(s, end) = r BY DEF Committed
<1> HIDE DEF n
<1>2. r = [windows |-> s.windows, input |-> s.input, inUtt |-> s.inUtt, utterance |-> s.utterance,
           len |-> n, voiced |-> s.voiced, silence |-> s.silence, voicedEnd |-> s.voicedEnd,
           lastInterim |-> s.lastInterim]
  BY DEF IsSegmenter
<1> HIDE DEF r
<1>3. r.inUtt = s.inUtt /\ r.utterance = s.utterance /\ r.voiced = s.voiced BY <1>2
<1>4. IsSegmenter(r) BY <1>2, <1>3 DEF IsSegmenter
<1>5. QED BY <1>1, <1>3, <1>4 DEF Alike

\* A window adds to the speech of the utterance and takes none away.
LEMMA HeardAlike ==
  ASSUME IsSegmenter(seg), NEW speech \in BOOLEAN
  PROVE  Alike(seg, Heard(speech)) /\ Heard(speech).voiced >= seg.voiced
<1> DEFINE s == [seg EXCEPT !.windows = @ + 1, !.len = @ + 1]
           n == seg.windows + 1
           m == seg.len + 1
<1>0. s = [seg EXCEPT !.windows = n, !.len = m] OBVIOUS
<1>2. Heard(speech) = IF speech THEN [s EXCEPT !.voiced = @ + 1, !.silence = 0, !.voicedEnd = s.len]
                      ELSE [s EXCEPT !.silence = @ + 1]
  BY DEF Heard
<1> HIDE DEF n, m, s
<1>1. s = [windows |-> n, input |-> seg.input, inUtt |-> seg.inUtt, utterance |-> seg.utterance,
           len |-> m, voiced |-> seg.voiced, silence |-> seg.silence, voicedEnd |-> seg.voicedEnd,
           lastInterim |-> seg.lastInterim]
  BY <1>0 DEF IsSegmenter
<1>3. CASE speech
  <2> DEFINE r == [windows |-> n, input |-> seg.input, inUtt |-> seg.inUtt,
                   utterance |-> seg.utterance, len |-> m, voiced |-> seg.voiced + 1,
                   silence |-> 0, voicedEnd |-> m, lastInterim |-> seg.lastInterim]
  <2>1. Heard(speech) = r BY <1>1, <1>2, <1>3
  <2>2. r.inUtt = seg.inUtt /\ r.utterance = seg.utterance /\ r.voiced = seg.voiced + 1 OBVIOUS
  <2>3. IsSegmenter(r) BY <2>2 DEF IsSegmenter
  <2>4. seg.voiced + 1 >= seg.voiced BY DEF IsSegmenter
  <2>5. QED BY <2>1, <2>2, <2>3, <2>4 DEF Alike
<1>4. CASE ~speech
  <2> DEFINE k == seg.silence + 1
             r == [windows |-> n, input |-> seg.input, inUtt |-> seg.inUtt,
                   utterance |-> seg.utterance, len |-> m, voiced |-> seg.voiced,
                   silence |-> k, voicedEnd |-> seg.voicedEnd, lastInterim |-> seg.lastInterim]
  <2>1. Heard(speech) = r BY <1>1, <1>2, <1>4
  <2>2. r.inUtt = seg.inUtt /\ r.utterance = seg.utterance /\ r.voiced = seg.voiced OBVIOUS
  <2>3. IsSegmenter(r) BY <2>2 DEF IsSegmenter
  <2>4. seg.voiced >= seg.voiced BY DEF IsSegmenter
  <2>5. QED BY <2>1, <2>2, <2>3, <2>4 DEF Alike
<1>5. QED BY <1>3, <1>4

Queues == [finals : Seq(Nat), interim : Nat, closed : BOOLEAN, wake : BOOLEAN]

\* A utterance that ends is queued, unless it is too short.
LEMMA PushCommittedQueues ==
  ASSUME WhisperInv, NEW s, IsSegmenter(s), s.utterance = seg.utterance, s.voiced >= seg.voiced
  PROVE  LET q == PushCommitted(s) IN
         /\ q \in Queues
         /\ \/ /\ q.finals = Append(chunks.finals, seg.utterance) /\ q.wake
               /\ q.interim = IF chunks.interim = seg.utterance THEN 0 ELSE chunks.interim
            \/ ~Kept(seg) /\ q = chunks
<1> DEFINE u == seg.utterance
           fs == Append(chunks.finals, u)
           i == IF chunks.interim = u THEN 0 ELSE chunks.interim
           r == TRUE
<1>1. u \in Nat /\ chunks \in Queues BY DEF WhisperInv, WhisperTypes, IsSegmenter, Queues
<1>2. fs \in Seq(Nat) BY <1>1 DEF Queues
<1>3. i \in Nat BY <1>1 DEF Queues
<1>4. r \in BOOLEAN /\ (r <=> TRUE) OBVIOUS
<1>5. CASE Kept(s)
  <2>1. PushCommitted(s) = [chunks EXCEPT !.finals = fs, !.interim = i, !.wake = r]
    BY <1>1, <1>5 DEF PushCommitted, PushFinal, Queues
  <2> HIDE DEF fs, i, r, u
  <2> DEFINE q == [chunks EXCEPT !.finals = fs, !.interim = i, !.wake = r]
  <2>2. q \in Queues /\ q.finals = fs /\ q.interim = i /\ q.wake = r BY <1>1, <1>2, <1>3, <1>4 DEF Queues
  <2> HIDE DEF q
  <2>3. q.wake BY <1>4, <2>2
  <2>4. PushCommitted(s) = q BY <2>1 DEF q
  <2>5. QED BY <2>2, <2>3, <2>4 DEF fs, i, u
<1>6. CASE ~Kept(s)
  <2>1. seg.voiced \in Int /\ s.voiced \in Int /\ MinSpeech \in Int
    BY WhisperAssumption DEF WhisperInv, WhisperTypes, IsSegmenter
  <2>2. ~Kept(seg) BY <1>6, <2>1 DEF Kept
  <2>3. PushCommitted(s) = chunks BY <1>6 DEF PushCommitted
  <2>4. QED BY <1>1, <2>2, <2>3
<1>7. QED BY <1>5, <1>6

\* Each step of the segmenter.
QueuesKept == UNCHANGED <<hand, transcriber, shown, settled, cancelled>>

\* A window in silence queues nothing.
LEMMA SameQueue ==
  ASSUME WhisperInv, chunks' = chunks, IsSegmenter(seg'), QueuesKept,
         ~seg.inUtt /\ NextUtterance
  PROVE  WhisperInv'
<1>1. FirstUtterance /\ WhisperWoken BY DEF FirstUtterance, WhisperWoken
<1>2. chunks' \in Queues BY DEF WhisperInv, WhisperTypes, Queues
<1>3. QED BY <1>1, <1>2, SegmenterKeeps DEF Queues, QueuesKept

\* The first window of speech begins the next utterance.
LEMMA FirstWindowKeeps ==
  ASSUME WhisperInv, NEW speech \in BOOLEAN, FirstWindow(speech), QueuesKept PROVE WhisperInv'
<1> DEFINE n == seg.windows + 1
           m == seg.len + 1
           s == [seg EXCEPT !.windows = n, !.len = m]
           u == seg.utterance + 1
           r == TRUE
           f == [s EXCEPT !.inUtt = r, !.utterance = u, !.voiced = 1, !.silence = 0,
                          !.voicedEnd = s.len, !.lastInterim = 0]
<1>1. ~seg.inUtt /\ chunks' = chunks BY DEF FirstWindow
<1>2. IsSegmenter(seg) BY DEF WhisperInv, WhisperTypes
<1>3. s.utterance = seg.utterance BY <1>2 DEF IsSegmenter
<1>4. seg' = IF speech THEN f ELSE PreRolled(s)
  BY <1>3 DEF FirstWindow
<1>5. r \in BOOLEAN /\ r /\ u \in Nat BY <1>2 DEF IsSegmenter
<1>0. s = [seg EXCEPT !.windows = n, !.len = m] OBVIOUS
<1> HIDE DEF n, m, r, u, s
<1>6. s = [windows |-> n, input |-> seg.input, inUtt |-> seg.inUtt, utterance |-> seg.utterance,
           len |-> m, voiced |-> seg.voiced, silence |-> seg.silence, voicedEnd |-> seg.voicedEnd,
           lastInterim |-> seg.lastInterim]
  BY <1>0, <1>2 DEF IsSegmenter
<1>7. CASE speech
  <2>0. s.len = m BY <1>6
  <2> DEFINE g == [s EXCEPT !.inUtt = r, !.utterance = u, !.voiced = 1, !.silence = 0,
                            !.voicedEnd = m, !.lastInterim = 0]
  <2>6. f = g BY <2>0
  <2> HIDE DEF f
  <2>1. f = [windows |-> n, input |-> seg.input, inUtt |-> r, utterance |-> u,
             len |-> m, voiced |-> 1, silence |-> 0, voicedEnd |-> m, lastInterim |-> 0]
    BY <1>6, <2>6
  <2>2. f.inUtt = r /\ f.utterance = u /\ f.voiced = 1 BY <2>1
  <2>3. IsSegmenter(f) BY <1>5, <2>1, <2>2 DEF IsSegmenter
  <2>4. seg'.inUtt /\ seg'.utterance = seg.utterance + 1 /\ IsSegmenter(seg')
    BY <1>4, <1>5, <1>7, <2>2, <2>3 DEF u
  <2>5. QED BY <1>1, <2>4, SameQueue DEF NextUtterance
<1>8. CASE ~speech
  <2>1. IsSegmenter(s) /\ s.inUtt = seg.inUtt /\ s.utterance = seg.utterance
    BY <1>2, <1>6 DEF IsSegmenter
  <2>2. Alike(s, seg') BY <1>4, <1>8, <2>1, PreRolledAlike
  <2>3. QED BY <1>1, <2>1, <2>2, SameQueue DEF Alike, NextUtterance
<1>9. QED BY <1>7, <1>8

\* What a pause, a cut or a gap in the audio ends.
LEMMA EndKeeps ==
  ASSUME WhisperInv, NEW s, IsSegmenter(s), s.utterance = seg.utterance, s.voiced >= seg.voiced,
         seg.inUtt, chunks' \in Queues, WhisperWoken, QueuesKept, IsSegmenter(seg'), NextUtterance,
         chunks'.finals = PushCommitted(s).finals, chunks'.interim = PushCommitted(s).interim
  PROVE  WhisperInv'
<1>1. FinishedUtterance BY PushCommittedQueues DEF FinishedUtterance
<1>2. QED BY <1>1, SegmenterKeeps DEF Queues, QueuesKept

\* What is queued wakes the transcriber.
LEMMA PushedWakes ==
  ASSUME WhisperInv, NEW s, IsSegmenter(s), s.utterance = seg.utterance, s.voiced >= seg.voiced,
         chunks' = PushCommitted(s)
  PROVE  WhisperWoken /\ chunks' \in Queues
<1>1. chunks'.wake \/ chunks' = chunks BY PushCommittedQueues
<1>2. QED BY <1>1, PushCommittedQueues DEF WhisperWoken

\* A pause ends the utterance.
LEMMA PauseEndsKeeps ==
  ASSUME WhisperInv, NEW speech \in BOOLEAN, PauseEnds(speech), QueuesKept PROVE WhisperInv'
<1> DEFINE s == Heard(speech)
           c == Committed(s, Least(s.len, s.voicedEnd + SilenceTail))
           f == FALSE
           d == [c EXCEPT !.inUtt = f]
<1>1. IsSegmenter(seg) /\ seg.inUtt /\ chunks' = PushCommitted(s)
  BY DEF WhisperInv, WhisperTypes, PauseEnds
<1>2. Alike(seg, s) /\ s.voiced >= seg.voiced BY <1>1, HeardAlike
<1>3. seg' = PreRolled(d) BY DEF PauseEnds
<1>4. f \in BOOLEAN /\ ~f OBVIOUS
<1> HIDE DEF s, f
<1>5. Alike(s, c) BY <1>2, CommittedAlike DEF Alike
<1> HIDE DEF c
<1>6. d = [windows |-> c.windows, input |-> c.input, inUtt |-> f, utterance |-> c.utterance,
           len |-> c.len, voiced |-> c.voiced, silence |-> c.silence, voicedEnd |-> c.voicedEnd,
           lastInterim |-> c.lastInterim]
  BY <1>5 DEF Alike, IsSegmenter
<1> HIDE DEF d
<1>7. d.inUtt = f /\ d.utterance = c.utterance /\ d.voiced = c.voiced BY <1>6
<1>8. IsSegmenter(d) BY <1>4, <1>5, <1>6, <1>7 DEF Alike, IsSegmenter
<1>9. Alike(d, seg') BY <1>3, <1>8, PreRolledAlike
<1>10. IsSegmenter(seg') /\ ~seg'.inUtt /\ seg'.utterance = seg.utterance
  BY <1>2, <1>4, <1>5, <1>7, <1>9 DEF Alike
<1>11. IsSegmenter(s) /\ s.utterance = seg.utterance BY <1>2 DEF Alike
<1>12. QED BY <1>1, <1>2, <1>10, <1>11, EndKeeps, PushedWakes DEF NextUtterance

\* An utterance at its longest is cut, and goes on as the next.
LEMMA CutKeeps ==
  ASSUME WhisperInv, NEW speech \in BOOLEAN, Cut(speech), QueuesKept PROVE WhisperInv'
<1> DEFINE s == Heard(speech)
<1>1. IsSegmenter(seg) /\ seg.inUtt /\ chunks' = PushCommitted(s)
  BY DEF WhisperInv, WhisperTypes, Cut
<1>2. Alike(seg, s) /\ s.voiced >= seg.voiced BY <1>1, HeardAlike
<1>3. PICK at \in CutsOf(s.len) : \E voicedEnd \in 0 .. s.len - at : \E voiced \in 0 .. voicedEnd :
        seg' = [Committed(s, at) EXCEPT !.utterance = @ + 1, !.voiced = voiced,
                                        !.voicedEnd = voicedEnd, !.lastInterim = 0]
  BY DEF Cut
<1> HIDE DEF s
<1>4. PICK voicedEnd \in 0 .. s.len - at : \E voiced \in 0 .. voicedEnd :
        seg' = [Committed(s, at) EXCEPT !.utterance = @ + 1, !.voiced = voiced,
                                        !.voicedEnd = voicedEnd, !.lastInterim = 0]
  BY <1>3
<1>5. PICK voiced \in 0 .. voicedEnd :
        seg' = [Committed(s, at) EXCEPT !.utterance = @ + 1, !.voiced = voiced,
                                        !.voicedEnd = voicedEnd, !.lastInterim = 0]
  BY <1>4
<1> DEFINE c == Committed(s, at)
           u == c.utterance + 1
<1>6. Alike(s, c) BY <1>2, CommittedAlike DEF Alike
<1>7. seg' = [c EXCEPT !.utterance = u, !.voiced = voiced, !.voicedEnd = voicedEnd,
                       !.lastInterim = 0]
  BY <1>5
<1>8. u \in Nat /\ u = seg.utterance + 1 BY <1>2, <1>6 DEF Alike, IsSegmenter
<1> HIDE DEF c, u
<1>9. seg' = [windows |-> c.windows, input |-> c.input, inUtt |-> c.inUtt, utterance |-> u,
              len |-> c.len, voiced |-> voiced, silence |-> c.silence, voicedEnd |-> voicedEnd,
              lastInterim |-> 0]
  BY <1>6, <1>7 DEF Alike, IsSegmenter
<1>10. seg'.inUtt = c.inUtt /\ seg'.utterance = u /\ seg'.voiced = voiced BY <1>9
<1>11. IsSegmenter(seg') BY <1>6, <1>8, <1>9, <1>10 DEF Alike, IsSegmenter
<1>12. c.inUtt BY <1>1, <1>2, <1>6 DEF Alike
<1>13. IsSegmenter(s) /\ s.utterance = seg.utterance BY <1>2 DEF Alike
<1>14. NextUtterance BY <1>8, <1>10, <1>12 DEF NextUtterance
<1>15. QED BY <1>1, <1>2, <1>11, <1>13, <1>14, EndKeeps, PushedWakes

\* Within an utterance an interim is queued when it is due, for that utterance.
LEMMA InUtteranceKeeps ==
  ASSUME WhisperInv, NEW speech \in BOOLEAN, InUtterance(speech), QueuesKept PROVE WhisperInv'
<1> DEFINE s == Heard(speech)
           due == speech /\ InterimDue(s)
           q == PushInterim(chunks, s.utterance)
<1>1. IsSegmenter(seg) /\ seg.inUtt /\ chunks \in Queues
  BY DEF WhisperInv, WhisperTypes, InUtterance, Queues
<1>2. Alike(seg, s) /\ s.voiced >= seg.voiced BY <1>1, HeardAlike
<1>3. /\ seg' = IF due THEN [s EXCEPT !.lastInterim = s.len] ELSE s
      /\ chunks' = IF due THEN q ELSE chunks
  BY DEF InUtterance
<1>4. due => Kept(s) BY DEF InterimDue, Kept
<1>5. /\ seg.voiced \in Int /\ s.voiced \in Int /\ MinSpeech \in Int /\ s.utterance \in Nat
      /\ s.utterance = seg.utterance /\ s.inUtt = seg.inUtt /\ IsSegmenter(s)
  BY <1>1, <1>2, WhisperAssumption DEF Alike, IsSegmenter
<1> HIDE DEF s, due
<1>6. Kept(seg) => Kept(s) BY <1>2, <1>5 DEF Kept
<1>7. CASE ~due
  <2>1. seg' = s /\ chunks' = chunks BY <1>3, <1>7
  <2>2. SameUtterance /\ WhisperWoken BY <1>5, <1>6, <2>1 DEF SameUtterance, WhisperWoken
  <2>3. QED BY <1>1, <1>5, <2>1, <2>2, SegmenterKeeps DEF Queues, QueuesKept
<1>8. CASE due
  <2> DEFINE n == s.len
             r == TRUE
             u == s.utterance
             c == [chunks EXCEPT !.interim = u, !.wake = r]
  <2>1. seg' = [s EXCEPT !.lastInterim = n] /\ chunks' = q BY <1>3, <1>8
  <2>2. q = c BY DEF PushInterim
  <2>3. r /\ r \in BOOLEAN OBVIOUS
  <2> HIDE DEF n, q, r
  <2>4. seg' = [windows |-> s.windows, input |-> s.input, inUtt |-> s.inUtt,
                utterance |-> s.utterance, len |-> s.len, voiced |-> s.voiced,
                silence |-> s.silence, voicedEnd |-> s.voicedEnd, lastInterim |-> n]
    BY <1>5, <2>1 DEF IsSegmenter
  <2>5. seg'.inUtt = s.inUtt /\ seg'.utterance = s.utterance /\ seg'.voiced = s.voiced BY <2>4
  <2>6. IsSegmenter(seg') BY <1>5, <2>4, <2>5 DEF IsSegmenter
  <2>7. Kept(seg') BY <1>4, <1>8, <2>5 DEF Kept
  <2>8. c \in Queues /\ c.finals = chunks.finals /\ c.interim = u /\ c.wake = r
    BY <1>1, <1>5, <2>3 DEF Queues
  <2> HIDE DEF c
  <2>9. chunks'.wake BY <2>1, <2>2, <2>3, <2>8
  <2>10. WhisperWoken BY <2>9 DEF WhisperWoken
  <2>11. SameUtterance
    BY <1>1, <1>5, <2>1, <2>2, <2>5, <2>7, <2>8 DEF SameUtterance
  <2>12. QED BY <2>1, <2>2, <2>6, <2>8, <2>10, <2>11, SegmenterKeeps DEF Queues, QueuesKept
<1>9. QED BY <1>7, <1>8

\* flush, where the input stays open or has ended.
LEMMA FlushKeeps ==
  ASSUME WhisperInv, QueuesKept, NEW input,
         seg' = [Flushed(seg) EXCEPT !.input = input],
         chunks' \in Queues, WhisperWoken,
         chunks'.finals = PushFlushed.finals, chunks'.interim = PushFlushed.interim
  PROVE  WhisperInv'
<1> DEFINE f == FALSE
           s == [seg EXCEPT !.inUtt = f, !.len = 0]
<1>1. IsSegmenter(seg) BY DEF WhisperInv, WhisperTypes
<1>2. f \in BOOLEAN /\ ~f OBVIOUS
<1>3. Flushed(seg) = s BY DEF Flushed
<1>0. s = [seg EXCEPT !.inUtt = f, !.len = 0] OBVIOUS
<1> HIDE DEF f, s
<1>4. s = [windows |-> seg.windows, input |-> seg.input, inUtt |-> f, utterance |-> seg.utterance,
           len |-> 0, voiced |-> seg.voiced, silence |-> seg.silence, voicedEnd |-> seg.voicedEnd,
           lastInterim |-> seg.lastInterim]
  BY ONLY <1>0, <1>1 DEF IsSegmenter
<1>5. seg' = [windows |-> seg.windows, input |-> input, inUtt |-> f, utterance |-> seg.utterance,
              len |-> 0, voiced |-> seg.voiced, silence |-> seg.silence,
              voicedEnd |-> seg.voicedEnd, lastInterim |-> seg.lastInterim]
  BY <1>3, <1>4
<1>6. seg'.inUtt = f /\ seg'.utterance = seg.utterance /\ seg'.voiced = seg.voiced BY <1>5
<1>7. IsSegmenter(seg') BY <1>1, <1>2, <1>5, <1>6 DEF IsSegmenter
<1>8. NextUtterance BY <1>2, <1>6 DEF NextUtterance
<1>9. CASE seg.inUtt
  <2>1. PushFlushed = PushCommitted(seg) BY <1>9 DEF PushFlushed
  <2>2. seg.voiced >= seg.voiced BY <1>1 DEF IsSegmenter
  <2>3. QED BY <1>1, <1>7, <1>8, <1>9, <2>1, <2>2, EndKeeps
<1>10. CASE ~seg.inUtt
  <2>1. PushFlushed = chunks BY <1>10 DEF PushFlushed
  <2>2. FirstUtterance BY <1>8, <1>10, <2>1 DEF FirstUtterance
  <2>3. QED BY <1>7, <2>2, SegmenterKeeps DEF Queues, QueuesKept
<1>11. QED BY <1>9, <1>10

\* A jump in the audio's time ends the utterance.
LEMMA AudioJumpsKeeps == ASSUME WhisperInv, AudioJumps, QueuesKept PROVE WhisperInv'
<1>1. IsSegmenter(seg) /\ chunks \in Queues BY DEF WhisperInv, WhisperTypes, Queues
<1>2. seg' = Flushed(seg) /\ chunks' = PushFlushed BY DEF AudioJumps
<1> DEFINE i == seg.input
           f == FALSE
           s == [seg EXCEPT !.inUtt = f, !.len = 0]
<1>3. Flushed(seg) = s BY DEF Flushed
<1>0. s = [seg EXCEPT !.inUtt = f, !.len = 0] OBVIOUS
<1> HIDE DEF f, s
<1>4. s = [windows |-> seg.windows, input |-> seg.input, inUtt |-> f, utterance |-> seg.utterance,
           len |-> 0, voiced |-> seg.voiced, silence |-> seg.silence, voicedEnd |-> seg.voicedEnd,
           lastInterim |-> seg.lastInterim]
  BY ONLY <1>0, <1>1 DEF IsSegmenter
<1>5. s = [s EXCEPT !.input = i] BY <1>4
<1>6. seg' = [Flushed(seg) EXCEPT !.input = i] BY <1>2, <1>3, <1>5
<1>7. WhisperWoken /\ chunks' \in Queues
  <2>1. CASE seg.inUtt
    <3>1. PushFlushed = PushCommitted(seg) BY <2>1 DEF PushFlushed
    <3>2. seg.voiced >= seg.voiced BY <1>1 DEF IsSegmenter
    <3>3. QED BY <1>1, <1>2, <3>1, <3>2, PushedWakes
  <2>2. CASE ~seg.inUtt
    <3>1. chunks' = chunks BY <1>2, <2>2 DEF PushFlushed
    <3>2. QED BY <1>1, <3>1 DEF WhisperWoken
  <2>3. QED BY <2>1, <2>2
<1> HIDE DEF i
<1>8. QED BY <1>2, <1>6, <1>7, FlushKeeps

\* The end of the audio ends the utterance and closes the queue.
LEMMA InputEndsKeeps == ASSUME WhisperInv, InputEnds, QueuesKept PROVE WhisperInv'
<1> DEFINE r == TRUE
           q == PushFlushed
           c == [q EXCEPT !.closed = r, !.wake = r]
<1>1. IsSegmenter(seg) /\ chunks \in Queues BY DEF WhisperInv, WhisperTypes, Queues
<1>2. q \in Queues
  <2>1. seg.voiced >= seg.voiced BY <1>1 DEF IsSegmenter
  <2>2. PushCommitted(seg) \in Queues BY <1>1, <2>1, PushCommittedQueues
  <2>3. QED BY <1>1, <2>2 DEF PushFlushed
<1>3. chunks' = c /\ seg' = [Flushed(seg) EXCEPT !.input = "ended"] BY DEF InputEnds
<1>4. r /\ r \in BOOLEAN OBVIOUS
<1> HIDE DEF r, q
<1>5. c \in Queues /\ c.finals = q.finals /\ c.interim = q.interim /\ c.wake = r
  BY <1>2, <1>4 DEF Queues
<1> HIDE DEF c
<1>6. chunks'.wake BY <1>3, <1>4, <1>5
<1>7. WhisperWoken BY <1>6 DEF WhisperWoken
<1>8. QED BY <1>3, <1>5, <1>7, FlushKeeps DEF q

\* The end of ctx closes the queue as it is.
LEMMA SegmentCancelledKeeps == ASSUME WhisperInv, SegmentCancelled, QueuesKept PROVE WhisperInv'
<1> DEFINE r == TRUE
           c == [chunks EXCEPT !.closed = r, !.wake = r]
<1>1. IsSegmenter(seg) /\ chunks \in Queues BY DEF WhisperInv, WhisperTypes, Queues
<1>2. chunks' = c /\ seg' = [seg EXCEPT !.input = "ended"] BY DEF SegmentCancelled
<1>3. r /\ r \in BOOLEAN OBVIOUS
<1> HIDE DEF r
<1>4. c \in Queues /\ c.finals = chunks.finals /\ c.interim = chunks.interim /\ c.wake = r
  BY <1>1, <1>3 DEF Queues
<1> HIDE DEF c
<1>5. chunks'.wake BY <1>2, <1>3, <1>4
<1>6. WhisperWoken BY <1>5 DEF WhisperWoken
<1>7. seg' = [windows |-> seg.windows, input |-> "ended", inUtt |-> seg.inUtt,
              utterance |-> seg.utterance, len |-> seg.len, voiced |-> seg.voiced,
              silence |-> seg.silence, voicedEnd |-> seg.voicedEnd,
              lastInterim |-> seg.lastInterim]
  BY <1>1, <1>2 DEF IsSegmenter
<1>8. seg'.inUtt = seg.inUtt /\ seg'.utterance = seg.utterance /\ seg'.voiced = seg.voiced BY <1>7
<1>9. IsSegmenter(seg') BY <1>1, <1>7, <1>8 DEF IsSegmenter
<1>10. SameUtterance BY <1>2, <1>4, <1>8 DEF SameUtterance, Kept
<1>11. QED BY <1>2, <1>4, <1>6, <1>9, <1>10, SegmenterKeeps DEF Queues, QueuesKept

-----------------------------------------------------------------------------
(* The transcriber. *)

\* What is taken from the queue, or ends, changes nothing of the utterances.
TranscriberOnly == UNCHANGED <<seg, cancelled>>

\* The transcriber takes the oldest final, and drops the interim.
LEMMA TakeFinalKeeps == ASSUME WhisperInv, TakeFinal, TranscriberOnly PROVE WhisperInv'
<1> DEFINE fs == chunks.finals
           gs == Tail(chunks.finals)
<1>0. PICK h \in Nat : h = Head(fs)
  BY DEF WhisperInv, WhisperTypes, TakeFinal
<1>1. /\ fs \in Seq(Nat) /\ fs # <<>> /\ chunks \in Queues /\ hand = NoChunk /\ hand' = Chunk(h, TRUE)
      /\ UNCHANGED <<seg, cancelled, transcriber, shown, settled>> /\ transcriber = "awake"
  BY <1>0 DEF WhisperInv, WhisperTypes, Queues, TakeFinal, Free, TranscriberOnly
<1>2. chunks' = [chunks EXCEPT !.finals = gs] BY DEF TakeFinal
<1>3. /\ h = fs[1] /\ h \in Nat /\ gs \in Seq(Nat) /\ Len(gs) = Len(fs) - 1 /\ Len(fs) \in Nat \ {0}
      /\ \A i \in 1 .. Len(gs) : gs[i] = fs[i + 1] /\ i + 1 \in 1 .. Len(fs)
      /\ 1 \in 1 .. Len(fs)
      /\ \A i \in 1 .. Len(fs) : i = 1 \/ (i - 1 \in 1 .. Len(gs) /\ gs[i - 1] = fs[i])
  BY SMTT(30), <1>0, <1>1
<1> HIDE DEF fs, gs
<1>4. chunks' \in Queues /\ chunks'.finals = gs /\ chunks'.interim = chunks.interim
  BY <1>1, <1>2, <1>3 DEF Queues
<1>5. hand' \in [utterance : Nat, final : BOOLEAN, attempt : Nat] /\ hand'.utterance = h /\ hand'.final
  BY <1>1, <1>3 DEF Chunk
<1>6. Before(h) /\ h > settled /\ \A i \in 1 .. Len(fs) : i > 1 => h < fs[i]
  BY <1>3 DEF WhisperInv, FinalsInOrder, fs
<1>7. h >= 1 BY <1>3, <1>6 DEF WhisperInv, WhisperTypes
<1>8. WhisperTypes'
  <2>1. (IsSegmenter(seg) /\ (seg.inUtt => seg.utterance >= 1))'
    BY <1>1 DEF WhisperInv, WhisperTypes, IsSegmenter
  <2>2. (hand.final => hand.utterance >= 1)' /\ (hand.utterance = 0 => hand = NoChunk)'
    BY ONLY <1>3, <1>5, <1>7
  <2>3. chunks' \in [finals : Seq(Nat), interim : Nat, closed : BOOLEAN, wake : BOOLEAN]
    BY <1>4 DEF Queues
  <2>4. transcriber' \in {"awake", "asleep", "ended"} /\ shown' \subseteq Nat /\ settled' \in Nat
        /\ cancelled' \in BOOLEAN
    BY <1>1 DEF WhisperInv, WhisperTypes
  <2>5. QED BY <1>5, <2>1, <2>2, <2>3, <2>4 DEF WhisperTypes
<1>9. ~hand.final BY <1>1 DEF NoChunk
<1>10. \A n \in Nat : Awaited(n) => Awaited(n)'
  <2> SUFFICES ASSUME NEW n \in Nat, Awaited(n) PROVE Awaited(n)' OBVIOUS
  <2>1. CASE Speaking(n) BY <1>1, <2>1 DEF Awaited, Speaking, Kept
  <2>2. ASSUME NEW i \in 1 .. Len(fs), fs[i] = n PROVE Awaited(n)'
    <3>1. CASE i = 1 BY <1>3, <1>5, <2>2, <3>1 DEF Awaited
    <3>2. CASE i # 1 BY <1>3, <1>4, <2>2, <3>2 DEF Awaited
    <3>3. QED BY <3>1, <3>2
  <2>3. QED BY <1>9, <2>1, <2>2 DEF Awaited, fs
<1>11. InterimsAwait'
  <2>1. Awaited(h)' BY <1>5 DEF Awaited
  <2>2. \A n \in shown : n \in Nat BY DEF WhisperInv, WhisperTypes
  <2>3. chunks'.interim # 0 => Speaking(chunks.interim)'
    BY <1>1, <1>4 DEF WhisperInv, InterimsAwait, Speaking, Kept
  <2>4. QED BY <1>1, <1>5, <1>10, <2>1, <2>2, <2>3 DEF WhisperInv, InterimsAwait
<1>12. FinalsInOrder'
  <2>1. \A i \in 1 .. Len(gs) :
          /\ Before(gs[i]) /\ gs[i] > settled /\ gs[i] > h
          /\ \A j \in 1 .. Len(gs) : i < j => gs[i] < gs[j]
    <3> SUFFICES ASSUME NEW i \in 1 .. Len(gs)
                 PROVE  /\ Before(gs[i]) /\ gs[i] > settled /\ gs[i] > h
                        /\ \A j \in 1 .. Len(gs) : i < j => gs[i] < gs[j]
      OBVIOUS
    <3>1. gs[i] = fs[i + 1] /\ i + 1 \in 1 .. Len(fs) /\ i + 1 > 1 BY <1>3
    <3>2. Before(gs[i]) /\ gs[i] > settled
      BY <3>1 DEF WhisperInv, FinalsInOrder, fs
    <3>3. h < gs[i] BY <1>6, <3>1
    <3>4. gs[i] \in Nat BY <1>3
    <3>5. ASSUME NEW j \in 1 .. Len(gs), i < j PROVE gs[i] < gs[j]
      <4>1. gs[j] = fs[j + 1] /\ j + 1 \in 1 .. Len(fs) /\ i + 1 < j + 1 BY <1>3, <3>5
      <4>2. fs[i + 1] < fs[j + 1] BY <3>1, <4>1 DEF WhisperInv, FinalsInOrder, fs
      <4>3. QED BY <3>1, <4>1, <4>2
    <3>6. QED BY <1>3, <3>2, <3>3, <3>4, <3>5
  <2>2. h \in Nat /\ hand' # NoChunk /\ hand'.utterance > settled BY <1>3, <1>5, <1>6 DEF NoChunk
  <2>3. QED BY <1>1, <1>4, <1>5, <1>6, <2>1, <2>2 DEF WhisperInv, FinalsInOrder, Before
<1>13. NotLeft' BY <1>1 DEF NotLeft
<1>14. QED BY <1>8, <1>11, <1>12, <1>13 DEF WhisperInv

\* It takes an interim only with no final queued.
LEMMA TakeInterimKeeps == ASSUME WhisperInv, TakeInterim, TranscriberOnly PROVE WhisperInv'
<1>0. PICK u \in Nat : u = chunks.interim BY DEF WhisperInv, WhisperTypes
<1>1. /\ u # 0 /\ chunks \in Queues /\ hand = NoChunk /\ hand' = Chunk(u, FALSE)
      /\ UNCHANGED <<seg, cancelled, transcriber, shown, settled>> /\ transcriber = "awake"
  BY <1>0 DEF WhisperInv, WhisperTypes, Queues, TakeInterim, Free, TranscriberOnly
<1>2. chunks' = [chunks EXCEPT !.interim = 0] BY DEF TakeInterim
<1>3. u \in Nat /\ Speaking(u) BY <1>0, <1>1 DEF WhisperInv, InterimsAwait
<1>4. chunks' \in Queues /\ chunks'.finals = chunks.finals /\ chunks'.interim = 0
  BY <1>1, <1>2 DEF Queues
<1>5. hand' \in [utterance : Nat, final : BOOLEAN, attempt : Nat] /\ hand'.utterance = u /\ ~hand'.final
  BY <1>1, <1>3 DEF Chunk
<1>6. ~hand.final BY <1>1 DEF NoChunk
<1>7. WhisperTypes' BY <1>1, <1>3, <1>4, <1>5 DEF WhisperInv, WhisperTypes, Queues, NoChunk, IsSegmenter
<1>8. \A n \in Nat : Awaited(n) => Awaited(n)'
  BY <1>1, <1>4, <1>5, <1>6 DEF Awaited, Speaking, Kept
<1>9. Awaited(u)' BY <1>3, <1>8 DEF Awaited
<1>10. InterimsAwait' BY <1>1, <1>4, <1>5, <1>8, <1>9 DEF WhisperInv, WhisperTypes, InterimsAwait
<1>11. u > settled
  BY <1>3 DEF WhisperInv, FinalsInOrder, Before, Speaking
<1>12. FinalsInOrder'
  BY <1>1, <1>4, <1>5, <1>6, <1>11 DEF WhisperInv, FinalsInOrder, Before
<1>13. NotLeft' BY <1>1 DEF NotLeft
<1>14. QED BY <1>7, <1>10, <1>12, <1>13 DEF WhisperInv

\* With nothing queued it sleeps, or ends when the queue is closed.
LEMMA FindNothingKeeps == ASSUME WhisperInv, FindNothing, TranscriberOnly PROVE WhisperInv'
<1> USE DEF FindNothing, TranscriberOnly
<1>1. WhisperTypes' BY DEF WhisperInv, WhisperTypes, IsSegmenter, NoChunk
<1>2. InterimsAwait' BY DEF WhisperInv, InterimsAwait, Awaited, Speaking, Kept, NoChunk
<1>3. FinalsInOrder' BY DEF WhisperInv, FinalsInOrder, Before, NoChunk
<1>4. NotLeft' BY DEF NotLeft, NothingQueued
<1>5. QED BY <1>1, <1>2, <1>3, <1>4 DEF WhisperInv

\* It looks again when it is woken.
LEMMA WakeUpKeeps == ASSUME WhisperInv, WakeUp, TranscriberOnly PROVE WhisperInv'
<1> DEFINE f == FALSE
<1>1. chunks \in Queues /\ f \in BOOLEAN BY DEF WhisperInv, WhisperTypes, Queues
<1>2. /\ chunks' = [chunks EXCEPT !.wake = f] /\ transcriber' = "awake"
      /\ UNCHANGED <<hand, shown, settled, seg, cancelled>>
  BY DEF WakeUp, TranscriberOnly
<1> HIDE DEF f
<1>3. chunks' \in Queues /\ chunks'.finals = chunks.finals /\ chunks'.interim = chunks.interim
  BY <1>1, <1>2 DEF Queues
<1>4. WhisperTypes' BY <1>2, <1>3 DEF WhisperInv, WhisperTypes, Queues, NoChunk
<1>5. InterimsAwait' BY <1>2, <1>3 DEF WhisperInv, InterimsAwait, Awaited, Speaking, Kept, NoChunk
<1>6. FinalsInOrder' BY <1>2, <1>3 DEF WhisperInv, FinalsInOrder, Before, NoChunk
<1>7. NotLeft' BY <1>2 DEF NotLeft
<1>8. QED BY <1>4, <1>5, <1>6, <1>7 DEF WhisperInv

\* It ends as ctx has.
LEMMA EndCancelledKeeps == ASSUME WhisperInv, EndCancelled, TranscriberOnly PROVE WhisperInv'
<1>1. /\ cancelled /\ hand' = NoChunk /\ transcriber' = "ended"
      /\ UNCHANGED <<seg, cancelled, chunks, shown, settled>>
  BY DEF EndCancelled, TranscriberOnly
<1>2. NoChunk \in [utterance : Nat, final : BOOLEAN, attempt : Nat] /\ ~NoChunk.final
  BY DEF NoChunk
<1>3. ~hand'.final /\ hand' = NoChunk' BY <1>1, <1>2 DEF NoChunk
<1>4. WhisperTypes' BY <1>1, <1>2, <1>3 DEF WhisperInv, WhisperTypes
<1>5. InterimsAwait' BY <1>1 DEF WhisperInv, InterimsAwait, Speaking, Kept
<1>6. FinalsInOrder' BY <1>1, <1>3 DEF WhisperInv, FinalsInOrder, Before
<1>7. NotLeft' BY <1>1 DEF NotLeft
<1>8. QED BY <1>4, <1>5, <1>6, <1>7 DEF WhisperInv

\* An interim's line is on screen with its final still to come.
LEMMA InterimDoneKeeps ==
  ASSUME WhisperInv, NEW text \in BOOLEAN, InterimDone(text), TranscriberOnly PROVE WhisperInv'
<1> DEFINE u == hand.utterance
<1>1. /\ hand # NoChunk /\ ~hand.final /\ ~cancelled /\ hand' = NoChunk
      /\ UNCHANGED <<seg, cancelled, chunks, transcriber, settled>>
      /\ shown' \subseteq shown \cup {u}
  BY DEF InterimDone, TranscriberOnly
<1>2. NoChunk \in [utterance : Nat, final : BOOLEAN, attempt : Nat] /\ ~NoChunk.final
  BY DEF NoChunk
<1>3. ~hand'.final /\ hand' = NoChunk' BY <1>1, <1>2 DEF NoChunk
<1>4. u \in Nat BY DEF WhisperInv, WhisperTypes
<1>5. WhisperTypes' BY <1>1, <1>2, <1>3, <1>4 DEF WhisperInv, WhisperTypes
<1>6. \A n \in Nat : Awaited(n) => Awaited(n)' BY <1>1 DEF Awaited, Speaking, Kept
<1>7. Awaited(u) /\ u > settled BY <1>1 DEF WhisperInv, InterimsAwait, FinalsInOrder
<1> HIDE DEF u
<1>8. \A n \in shown' : n \in Nat /\ Awaited(n) /\ n > settled
  BY <1>1, <1>4, <1>7 DEF WhisperInv, WhisperTypes, InterimsAwait, FinalsInOrder
<1>9. chunks'.interim # 0 => Speaking(chunks.interim)'
  BY <1>1 DEF WhisperInv, InterimsAwait, Speaking, Kept
<1>10. InterimsAwait' BY <1>1, <1>3, <1>6, <1>8, <1>9 DEF InterimsAwait
<1>11. FinalsInOrder' BY <1>1, <1>3, <1>8 DEF WhisperInv, FinalsInOrder, Before
<1>12. NotLeft' BY <1>1 DEF WhisperInv, NotLeft, NothingQueued
<1>13. QED BY <1>5, <1>10, <1>11, <1>12 DEF WhisperInv

\* A final that fails is tried again, or ends its line without text.
LEMMA FinalFailsKeeps == ASSUME WhisperInv, FinalFails, TranscriberOnly PROVE WhisperInv'
<1> DEFINE a == hand.attempt + 1
<1>1. /\ hand.final /\ hand' = [hand EXCEPT !.attempt = a]
      /\ UNCHANGED <<seg, cancelled, chunks, transcriber, shown, settled>>
  BY DEF FinalFails, TranscriberOnly
<1>2. hand \in [utterance : Nat, final : BOOLEAN, attempt : Nat] /\ hand.utterance >= 1
  BY <1>1 DEF WhisperInv, WhisperTypes
<1>3. a \in Nat BY <1>2
<1> HIDE DEF a
<1>4. /\ hand' \in [utterance : Nat, final : BOOLEAN, attempt : Nat]
      /\ hand'.utterance = hand.utterance /\ hand'.final = hand.final
  BY <1>1, <1>2, <1>3
<1>5. hand'.final BY <1>1, <1>4
<1>6. hand # NoChunk /\ hand' # NoChunk BY <1>2, <1>4 DEF NoChunk
<1>7. WhisperTypes'
  <2>1. (IsSegmenter(seg) /\ (seg.inUtt => seg.utterance >= 1))'
    BY <1>1 DEF WhisperInv, WhisperTypes, IsSegmenter
  <2>2. (hand.final => hand.utterance >= 1)' /\ (hand.utterance = 0 => hand = NoChunk)'
    BY <1>2, <1>4
  <2>3. QED BY <1>1, <1>4, <2>1, <2>2 DEF WhisperInv, WhisperTypes
<1>8. \A n \in Nat : Awaited(n) => Awaited(n)' BY <1>1, <1>4, <1>5 DEF Awaited, Speaking, Kept
<1>9. InterimsAwait'
  <2>1. chunks'.interim # 0 => Speaking(chunks.interim)'
    BY <1>1 DEF WhisperInv, InterimsAwait, Speaking, Kept
  <2>2. \A n \in shown : n \in Nat BY DEF WhisperInv, WhisperTypes
  <2>3. (~cancelled => \A n \in shown : Awaited(n))'
    BY <1>1, <1>8, <2>2 DEF WhisperInv, InterimsAwait
  <2>4. Awaited(hand.utterance)' BY <1>5 DEF Awaited
  <2>5. QED BY <2>1, <2>3, <2>4 DEF InterimsAwait
<1>10. FinalsInOrder'
  BY <1>1, <1>4, <1>5, <1>6 DEF WhisperInv, FinalsInOrder, Before
<1>11. NotLeft' BY <1>1 DEF WhisperInv, NotLeft, NothingQueued
<1>12. QED BY <1>7, <1>9, <1>10, <1>11 DEF WhisperInv

\* The line on screen ends, and no line on screen is before it.
LEMMA FinalDoneKeeps ==
  ASSUME WhisperInv, NEW text \in BOOLEAN, FinalDone(text), TranscriberOnly PROVE WhisperInv'
<1>0. PICK u \in Nat : u = hand.utterance BY DEF WhisperInv, WhisperTypes
<1>1. /\ hand.final /\ ~cancelled /\ hand' = NoChunk
      /\ UNCHANGED <<seg, cancelled, chunks, transcriber>>
      /\ settled' \in {u, settled} /\ shown' = shown \ {u}
  BY <1>0 DEF FinalDone, TranscriberOnly
<1>2. NoChunk \in [utterance : Nat, final : BOOLEAN, attempt : Nat] /\ ~NoChunk.final
  BY DEF NoChunk
<1>3. ~hand'.final /\ hand' = NoChunk' BY <1>1, <1>2 DEF NoChunk
<1>4. settled \in Nat /\ settled' \in Nat /\ u > settled /\ settled' <= u /\ Before(u) /\ Before(settled)
  BY <1>0, <1>1 DEF WhisperInv, WhisperTypes, FinalsInOrder
<1>5. WhisperTypes' BY <1>1, <1>2, <1>3, <1>4 DEF WhisperInv, WhisperTypes, IsSegmenter
<1>6. \A n \in Nat : Awaited(n) /\ n # u => Awaited(n)'
  BY <1>0, <1>1 DEF Awaited, Speaking, Kept
<1>7. \A n \in shown' : n \in Nat /\ Awaited(n) /\ n # u
  BY <1>1 DEF WhisperInv, WhisperTypes, InterimsAwait
<1>8. \A i \in 1 .. Len(chunks.finals) : chunks.finals[i] > u
  BY <1>0, <1>1 DEF WhisperInv, FinalsInOrder
<1>9. \A n \in Nat : Awaited(n) /\ n # u => n > u
  <2> SUFFICES ASSUME NEW n \in Nat, Awaited(n), n # u PROVE n > u OBVIOUS
  <2>1. CASE Speaking(n) BY <1>4, <2>1 DEF Speaking, Before
  <2>2. CASE \E i \in 1 .. Len(chunks.finals) : chunks.finals[i] = n BY <1>8, <2>2
  <2>3. QED BY <1>0, <2>1, <2>2 DEF Awaited
<1>10. chunks'.interim # 0 => Speaking(chunks.interim)'
  BY <1>1 DEF WhisperInv, InterimsAwait, Speaking, Kept
<1>11. InterimsAwait' BY <1>1, <1>3, <1>6, <1>7, <1>10 DEF InterimsAwait
<1>12. FinalsInOrder'
  <2>1. \A n \in shown' : n > settled'
    <3> SUFFICES ASSUME NEW n \in shown' PROVE n > settled' OBVIOUS
    <3>1. n \in Nat /\ n > u BY <1>7, <1>9
    <3>2. QED BY <1>4, <3>1
  <2>2. Before(settled)' BY <1>1, <1>4 DEF Before
  <2>3. \A i \in 1 .. Len(chunks.finals) : chunks.finals[i] > settled'
    <3> SUFFICES ASSUME NEW i \in 1 .. Len(chunks.finals) PROVE chunks.finals[i] > settled' OBVIOUS
    <3>1. chunks.finals[i] \in Nat /\ chunks.finals[i] > u BY <1>8 DEF WhisperInv, WhisperTypes
    <3>2. QED BY <1>4, <3>1
  <2>4. \A i \in 1 .. Len(chunks.finals) : Before(chunks.finals[i])'
    BY <1>1 DEF WhisperInv, FinalsInOrder, Before
  <2>5. QED BY <1>1, <1>3, <2>1, <2>2, <2>3, <2>4 DEF WhisperInv, FinalsInOrder
<1>13. NotLeft' BY <1>1 DEF WhisperInv, NotLeft, NothingQueued
<1>14. QED BY <1>5, <1>11, <1>12, <1>13 DEF WhisperInv

\* Every step of the segmenter and of the transcriber keeps it.
LEMMA WhisperStepKeeps == WhisperInv /\ [WhisperNext]_whisperVars => WhisperInv'
<1> SUFFICES ASSUME WhisperInv, [WhisperNext]_whisperVars PROVE WhisperInv' OBVIOUS
<1>1. CASE SegmentNext /\ QueuesKept
  BY <1>1, FirstWindowKeeps, PauseEndsKeeps, CutKeeps, InUtteranceKeeps, AudioJumpsKeeps,
     InputEndsKeeps, SegmentCancelledKeeps
  DEF SegmentNext
<1>2. CASE TranscribeNext /\ TranscriberOnly
  BY <1>2, TakeFinalKeeps, TakeInterimKeeps, FindNothingKeeps, WakeUpKeeps, EndCancelledKeeps,
     InterimDoneKeeps, FinalFailsKeeps, FinalDoneKeeps
  DEF TranscribeNext
<1>3. CASE CancelStream
  <2> USE <1>3 DEF CancelStream
  <2>1. WhisperTypes' BY DEF WhisperInv, WhisperTypes, IsSegmenter, NoChunk
  <2>2. InterimsAwait' BY DEF WhisperInv, InterimsAwait, Speaking, Kept
  <2>3. FinalsInOrder' BY DEF WhisperInv, FinalsInOrder, Before, NoChunk
  <2>4. NotLeft' BY DEF NotLeft
  <2>5. QED BY <2>1, <2>2, <2>3, <2>4 DEF WhisperInv
<1>4. CASE UNCHANGED whisperVars
  <2> USE <1>4 DEF whisperVars
  <2>1. WhisperTypes' BY DEF WhisperInv, WhisperTypes, IsSegmenter, NoChunk
  <2>2. InterimsAwait' BY DEF WhisperInv, InterimsAwait, Awaited, Speaking, Kept, NoChunk
  <2>3. FinalsInOrder' BY DEF WhisperInv, FinalsInOrder, Before, NoChunk
  <2>4. NotLeft' BY DEF WhisperInv, NotLeft, NothingQueued
  <2>5. QED BY <2>1, <2>2, <2>3, <2>4 DEF WhisperInv
<1>5. QED BY <1>1, <1>2, <1>3, <1>4 DEF WhisperNext, QueuesKept, TranscriberOnly

\* Every line that was shown while it was spoken gets its final, once and in the
\* order of the utterances, and the transcriber does not stop while there is
\* something to transcribe, for any settings of the segmenter.
THEOREM InterimsAlwaysEnd == WhisperSpec => []InterimsEnd
<1>1. WhisperInv => InterimsEnd
  <2> SUFFICES ASSUME WhisperInv PROVE InterimsEnd OBVIOUS
  <2>1. DOMAIN chunks.finals = 1 .. Len(chunks.finals) BY DEF WhisperInv, WhisperTypes
  <2>2. \A u \in shown :
          \/ cancelled
          \/ seg.inUtt /\ u = seg.utterance /\ Kept(seg)
          \/ \E i \in DOMAIN chunks.finals : chunks.finals[i] = u
          \/ hand.final /\ hand.utterance = u
    BY <2>1 DEF WhisperInv, InterimsAwait, Awaited, Speaking
  <2>3. QED BY <2>1, <2>2 DEF WhisperInv, FinalsInOrder, NotLeft, InterimsEnd
<1>2. QED BY <1>1, WhisperInitInv, WhisperStepKeeps, PTL DEF WhisperSpec

-----------------------------------------------------------------------------
(* SrtSource *)

SrtPlaces == {"read", "send", "wait", "unset", "close", "gone"}
Outcomes == {"audio", "empty", "quick", "slow"}
Ffmpegs == [at : {"none", "running", "ended"}, frames : Nat, failed : BOOLEAN]
Loops == [at : SrtPlaces, opened : Int, got : BOOLEAN, offset : Int, since : Int, nextT : Int,
          lastAudio : Int, hadAudio : BOOLEAN, fails : Int, origin : Int]

SrtTypes ==
  /\ srtClock \in Nat /\ frame \in Int /\ taken \in Int
  /\ ffmpeg \in Ffmpegs
  /\ loop \in Loops
  /\ running \in BOOLEAN /\ refused \in BOOLEAN /\ ctxOver \in BOOLEAN /\ ahead \in BOOLEAN
  /\ outcomes \in Seq(Outcomes)

\* The source is marked as running while its loop is, and the run sees its
\* stream closed only when it can start it again.
Restartable ==
  /\ running <=> loop.at \in {"read", "send", "wait", "unset"}
  /\ stream = "open" <=> loop.at # "gone"
  /\ frame # NoFrame <=> loop.at = "send"
  /\ ~refused

\* As many failures are counted as came in a row, and no more had come.
QuickRow(n) == n <= Len(outcomes) /\ \A i \in 1 .. Len(outcomes) : i > Len(outcomes) - n => outcomes[i] = "quick"
QuickSince(n) == n < Len(outcomes) => outcomes[Len(outcomes) - n] # "quick"
InLoop == loop.at \in {"read", "send", "wait"}
FailsCounted ==
  /\ loop.fails \in 0 .. 2
  /\ InLoop => QuickRow(loop.fails) /\ QuickSince(loop.fails)
  /\ loop.at = "wait" => outcomes # <<>>

\* A loop that goes on has no error, and one that ended has one or was ended.
CauseKept ==
  /\ InLoop => srtErr = "none"
  /\ srtErr = "listener" => QuickRow(3)
  /\ srtErr = "start" => outcomes # <<>> /\ \E n \in 0 .. 2 : QuickSince(n)
  /\ srtErr # "none" => stream # "none"
  /\ ~InLoop /\ stream # "none" => srtErr # "none" \/ ctxOver

\* The frames follow each other.
InLine ==
  /\ 0 <= taken /\ taken <= loop.nextT
  /\ loop.got => loop.hadAudio /\ loop.nextT = loop.offset + 2 * ffmpeg.frames
  /\ ~loop.got => ffmpeg.frames = 0
  /\ ~loop.hadAudio => loop.nextT = 0
  /\ frame # NoFrame => loop.got /\ frame >= taken /\ frame + 2 = loop.nextT
  /\ loop.lastAudio <= srtClock /\ loop.since <= srtClock
  /\ loop.hadAudio => loop.origin <= loop.lastAudio

\* How far the time may be ahead of the wall clock: a frame, and three half frames
\* for each sender that ended.
Now(n) == loop.nextT <= (loop.lastAudio - loop.origin) + 2 + 3 * n
NotAhead ==
  loop.hadAudio /\ ~ahead =>
    IF loop.got /\ loop.at \in {"read", "send"}
    THEN loop.offset <= (loop.since - loop.origin) + 3 * SendersBefore /\ Now(SendersBefore)
    ELSE Now(SendersBefore - 1)

SrtInv == SrtTypes /\ Restartable /\ FailsCounted /\ CauseKept /\ InLine /\ NotAhead

\* How many senders gave audio is a number, and the next one is one more.
LEMMA SendersCount ==
  ASSUME NEW q \in Seq(Outcomes),
         NEW o \in Outcomes
  PROVE  /\ Cardinality({i \in 1 .. Len(q) : q[i] = "audio"}) \in Nat
         /\ Cardinality({i \in 1 .. Len(Append(q, o)) : Append(q, o)[i] = "audio"})
              = IF o = "audio" THEN Cardinality({i \in 1 .. Len(q) : q[i] = "audio"}) + 1
                ELSE Cardinality({i \in 1 .. Len(q) : q[i] = "audio"})
<1> DEFINE A == {i \in 1 .. Len(q) : q[i] = "audio"}
           B == {i \in 1 .. Len(Append(q, o)) : Append(q, o)[i] = "audio"}
<1>1. Len(q) \in Nat /\ Len(q) + 1 \notin A OBVIOUS
<1>2. IsFiniteSet(1 .. Len(q)) BY <1>1, FS_Interval
<1>3. IsFiniteSet(A) BY <1>2, FS_Subset
<1>4. Cardinality(A) \in Nat BY <1>3, FS_CardinalityType
<1>5. CASE o = "audio"
  <2>1. B = A \cup {Len(q) + 1} BY <1>5
  <2>2. Cardinality(B) = Cardinality(A) + 1 BY <1>1, <1>3, <2>1, FS_AddElement
  <2>3. QED BY <1>4, <1>5, <2>2
<1>6. CASE o # "audio"
  <2>1. B = A BY <1>6
  <2>2. QED BY <1>4, <1>6, <2>1
<1>7. QED BY <1>5, <1>6

\* A listener that was never started.
LEMMA SrtInitInv == SrtInit => SrtInv
<1> SUFFICES ASSUME SrtInit PROVE SrtInv OBVIOUS
<1> USE DEF SrtInit
<1>1. SrtTypes
  <2>1. loop \in Loops BY DEF Loops, SrtPlaces
  <2>2. ffmpeg \in Ffmpegs
    BY DEF NoFfmpeg, Ffmpegs
  <2>3. frame \in Int BY DEF NoFrame
  <2>4. outcomes \in Seq(Outcomes) OBVIOUS
  <2>5. srtClock = 0 /\ taken = 0 OBVIOUS
  <2>6. running = FALSE /\ refused = FALSE /\ ctxOver = FALSE /\ ahead = FALSE OBVIOUS
  <2>7. srtClock \in Nat /\ taken \in Int BY ONLY <2>5
  <2>8. running \in BOOLEAN /\ refused \in BOOLEAN /\ ctxOver \in BOOLEAN /\ ahead \in BOOLEAN
    BY ONLY <2>6, Zenon
  <2> HIDE DEF SrtInit
  <2>9. QED BY <2>1, <2>2, <2>3, <2>4, <2>7, <2>8 DEF SrtTypes
<1>2. Restartable BY DEF Restartable
<1>3. FailsCounted BY DEF FailsCounted, InLoop
<1>4. CauseKept BY DEF CauseKept, InLoop
<1>5. InLine BY DEF InLine, NoFfmpeg
<1>6. NotAhead BY DEF NotAhead
<1>7. QED BY <1>1, <1>2, <1>3, <1>4, <1>5, <1>6 DEF SrtInv

\* The fields that a step changes one by one, when only the place does.
LEMMA OnlyPlace ==
  ASSUME loop \in Loops, NEW place \in SrtPlaces, loop' = [loop EXCEPT !.at = place]
  PROVE  /\ loop' \in Loops /\ loop'.at = place
         /\ loop'.opened = loop.opened /\ loop'.got = loop.got /\ loop'.offset = loop.offset
         /\ loop'.since = loop.since /\ loop'.nextT = loop.nextT
         /\ loop'.lastAudio = loop.lastAudio /\ loop'.hadAudio = loop.hadAudio
         /\ loop'.fails = loop.fails /\ loop'.origin = loop.origin
  BY DEF Loops

\* The cause stays while the loop neither ends nor counts.
LEMMA SameCause ==
  ASSUME CauseKept, UNCHANGED <<srtErr, outcomes, stream>>, ctxOver => ctxOver', InLoop' <=> InLoop
  PROVE  CauseKept'
  BY DEF CauseKept, QuickRow, QuickSince

\* A source that starts begins a new time.
LEMMA StartSourceInv == SrtInv /\ StartSource => SrtInv'
<1> SUFFICES ASSUME SrtInv, StartSource PROVE SrtInv' OBVIOUS
<1> USE DEF SrtInv
<1>1. ~running BY DEF StartSource, Restartable
<1>2. /\ ffmpeg' = NewFfmpeg /\ loop' = NewLoop /\ running' = TRUE /\ srtErr' = "none"
      /\ stream' = "open" /\ taken' = 0 /\ outcomes' = <<>> /\ ahead' = FALSE
      /\ UNCHANGED <<refused, srtClock, frame, ctxOver>>
  BY <1>1 DEF StartSource
<1>3. frame = NoFrame BY <1>1 DEF Restartable
<1>4. SrtTypes'
  <2>1. loop' \in Loops BY <1>2 DEF Loops, SrtPlaces, NewLoop, SrtTypes
  <2>2. ffmpeg' \in Ffmpegs
    BY <1>2 DEF NewFfmpeg, NoFfmpeg, Ffmpegs
  <2>3. outcomes' \in Seq(Outcomes) BY <1>2
  <2>4. srtClock' \in Nat /\ frame' \in Int /\ taken' \in Int BY <1>2 DEF SrtTypes
  <2>5. refused' \in BOOLEAN /\ ctxOver' \in BOOLEAN BY <1>2 DEF SrtTypes
  <2>6. running' \in BOOLEAN /\ ahead' \in BOOLEAN BY <1>2, Zenon
  <2>7. QED BY ONLY <2>1, <2>2, <2>3, <2>4, <2>5, <2>6 DEF SrtTypes
<1>5. Restartable' BY <1>2, <1>3 DEF Restartable, NewLoop
<1>6. FailsCounted' /\ CauseKept'
  <2>1. loop'.at = "read" /\ loop'.fails = 0 BY <1>2 DEF NewLoop
  <2>2. Len(outcomes') = 0 BY <1>2
  <2>3. FailsCounted' BY <2>1, <2>2 DEF FailsCounted, QuickRow, QuickSince
  <2>4. CauseKept' BY <1>2, <2>1 DEF CauseKept, InLoop
  <2>5. QED BY <2>3, <2>4
<1>7. InLine'
  <2>1. ffmpeg'.frames = 0 BY <1>2 DEF NewFfmpeg, NoFfmpeg
  <2>2. QED BY <1>2, <1>3, <2>1 DEF InLine, NewLoop, SrtTypes
<1>8. NotAhead' BY <1>2 DEF NotAhead, NewLoop
<1>9. QED BY <1>4, <1>5, <1>6, <1>7, <1>8

\* Neither the context's end nor the clock changes what the loop knows.
LEMMA AroundTheLoopInv == SrtInv /\ (CancelSource \/ ClockTicks) => SrtInv'
<1> SUFFICES ASSUME SrtInv, CancelSource \/ ClockTicks PROVE SrtInv' OBVIOUS
<1> USE DEF SrtInv
<1>1. /\ UNCHANGED <<ffmpeg, loop, frame, running, srtErr, stream, taken, refused, outcomes, ahead>>
      /\ srtClock' \in Nat /\ srtClock <= srtClock' /\ ctxOver' \in BOOLEAN
  <2>1. srtClock \in Nat /\ ctxOver \in BOOLEAN BY DEF SrtTypes
  <2>2. CASE CancelSource BY <2>1, <2>2 DEF CancelSource
  <2>3. CASE ClockTicks BY <2>1, <2>3 DEF ClockTicks
  <2>4. QED BY <2>2, <2>3
<1>2. SrtTypes' BY <1>1 DEF SrtTypes
<1>3. Restartable' BY <1>1 DEF Restartable
<1>4. FailsCounted' BY <1>1 DEF FailsCounted, QuickRow, QuickSince, InLoop
<1>8. CauseKept'
  <2>1. ctxOver => ctxOver' BY DEF CancelSource, ClockTicks
  <2>2. InLoop' <=> InLoop BY <1>1 DEF InLoop
  <2>3. QED BY <1>1, <2>1, <2>2, SameCause
<1>5. InLine' BY <1>1 DEF InLine, SrtTypes, Loops
<1>6. NotAhead' BY <1>1 DEF NotAhead, Now, SendersBefore
<1>7. QED BY <1>2, <1>3, <1>4, <1>5, <1>6, <1>8

\* The gap is whole frames, and rounds up by half a frame at most.
LEMMA GapRounds ==
  ASSUME NEW d \in Nat
  PROVE  RoundedToFrames(d) \in Nat /\ RoundedToFrames(d) <= d + 1
  BY DEF RoundedToFrames, SrtFrame

\* The frame it reads begins where the one before ended, or after the gap.
LEMMA TakeFrameInv == SrtInv /\ TakeFrame => SrtInv'
<1> SUFFICES ASSUME SrtInv, TakeFrame PROVE SrtInv' OBVIOUS
<1> USE DEF SrtInv
<1>1. /\ ffmpeg.frames \in Nat /\ srtClock \in Nat /\ loop \in Loops /\ taken \in Int
      /\ SendersBefore \in Nat
  BY SendersCount DEF SrtTypes, SendersBefore, Ffmpegs, Outcomes
<1>2. loop.at = "read" /\ ffmpeg.at = "running" BY DEF TakeFrame
<1>3. PICK n \in Nat : n = ffmpeg.frames BY <1>1
<1>4. PICK senders \in Nat : senders = SendersBefore BY <1>1
<1>5. PICK off \in Int :
        /\ off = Offset /\ (loop.got => off = loop.offset)
        /\ ~loop.got => off >= loop.nextT
        /\ ~loop.got /\ loop.hadAudio => off <= (loop.nextT + 1) + (srtClock - loop.lastAudio)
        /\ ~loop.got /\ ~loop.hadAudio => off = 0
  <2>1. CASE loop.got BY <1>1, <2>1 DEF Offset, Loops
  <2>2. CASE ~loop.got /\ loop.hadAudio
    <3>1. srtClock - loop.lastAudio \in Nat BY <1>1 DEF InLine, Loops
    <3>2. PICK g \in Nat : g = SrtGap /\ g <= (srtClock - loop.lastAudio) + 1
      BY <2>2, <3>1, GapRounds DEF SrtGap
    <3>3. Offset = loop.nextT + g BY <2>2, <3>2 DEF Offset
    <3>4. QED BY <1>1, <2>2, <3>1, <3>2, <3>3 DEF Loops
  <2>3. CASE ~loop.got /\ ~loop.hadAudio
    <3>1. Offset = loop.nextT + 0 BY <2>3 DEF Offset, SrtGap
    <3>2. QED BY <1>1, <2>3, <3>1 DEF Loops, InLine
  <2>4. QED BY <2>1, <2>2, <2>3
<1>6. PICK next \in Int : next = off + 2 * (n + 1) OBVIOUS
<1>7. PICK since \in Int : since = (IF loop.got THEN loop.since ELSE srtClock) /\ since <= srtClock
  BY <1>1 DEF Loops, InLine
<1>8. PICK origin \in Int :
        origin = (IF loop.hadAudio THEN loop.origin ELSE srtClock) /\ origin <= srtClock
  BY <1>1 DEF Loops, InLine
<1>9. /\ ffmpeg' = [ffmpeg EXCEPT !.frames = n + 1] /\ frame' = off + 2 * n
      /\ UNCHANGED <<srtClock, running, srtErr, stream, ctxOver, taken, refused, outcomes, opens>>
  BY <1>3, <1>5 DEF TakeFrame, SrtFrame
<1>10. ffmpeg'.frames = n + 1 /\ ffmpeg' \in Ffmpegs
  <2>1. ffmpeg \in Ffmpegs /\ n + 1 \in Nat BY <1>3 DEF SrtTypes
  <2>2. QED BY <1>9, <2>1 DEF Ffmpegs
<1>11. /\ loop' \in Loops /\ loop'.at = "send" /\ loop'.got /\ loop'.offset = off
       /\ loop'.hadAudio /\ loop'.nextT = next /\ loop'.lastAudio = srtClock
       /\ loop'.since = since /\ loop'.origin = origin /\ loop'.fails = loop.fails
  <2>1. PICK yes \in BOOLEAN : yes = TRUE /\ yes BY Zenon
  <2>2. loop' = [loop EXCEPT !.at = "send", !.got = yes, !.offset = off, !.hadAudio = yes,
                   !.nextT = next, !.lastAudio = srtClock, !.since = since, !.origin = origin]
    <3>1. loop' = [loop EXCEPT !.at = "send", !.got = TRUE, !.offset = Offset, !.hadAudio = TRUE,
                     !.nextT = Offset + SrtFrame * ffmpeg'.frames, !.lastAudio = srtClock,
                     !.since = IF loop.got THEN loop.since ELSE srtClock,
                     !.origin = IF loop.hadAudio THEN loop.origin ELSE srtClock]
      BY DEF TakeFrame
    <3>2. Offset + SrtFrame * ffmpeg'.frames = next BY <1>5, <1>6, <1>10 DEF SrtFrame
    <3>3. QED BY ONLY <1>5, <1>7, <1>8, <2>1, <3>1, <3>2
  <2>3. loop' = [at |-> "send", opened |-> loop.opened, got |-> yes, offset |-> off,
                 since |-> since, nextT |-> next, lastAudio |-> srtClock, hadAudio |-> yes,
                 fails |-> loop.fails, origin |-> origin]
    BY <1>1, <2>2 DEF Loops
  <2>4. loop.opened \in Int /\ loop.fails \in Int /\ srtClock \in Int BY <1>1 DEF Loops
  <2>5. /\ loop'.at = "send" /\ loop'.got = yes /\ loop'.offset = off
        /\ loop'.hadAudio = yes /\ loop'.nextT = next /\ loop'.lastAudio = srtClock
        /\ loop'.since = since /\ loop'.origin = origin /\ loop'.fails = loop.fails
    BY ONLY <2>3
  <2>6. loop' \in Loops
    BY ONLY <1>5, <1>6, <1>7, <1>8, <2>1, <2>3, <2>4 DEF Loops, SrtPlaces
  <2>7. loop'.got /\ loop'.hadAudio BY ONLY <2>1, <2>5, Zenon
  <2>8. QED BY <2>5, <2>6, <2>7
<1>12. off + 2 * n >= loop.nextT /\ (ahead' <=> ahead \/ 2 * n > srtClock - since)
  <2>1. loop.nextT \in Int /\ loop.offset \in Int BY <1>1 DEF Loops
  <2>2. loop.got => loop.nextT = loop.offset + 2 * n BY <1>3 DEF InLine
  <2>3. off + 2 * n >= loop.nextT BY <1>5, <2>1, <2>2
  <2>4. ahead' = (ahead \/ 2 * n > srtClock - since) BY <1>3, <1>11 DEF TakeFrame, SrtFrame
  <2>5. QED BY <2>3, <2>4
<1>13. 0 <= taken /\ taken <= loop.nextT BY DEF InLine
<1>14. SrtTypes'
  <2>1. frame' \in Int BY <1>9
  <2>2. ahead' \in BOOLEAN BY <1>3, <1>11 DEF TakeFrame, SrtTypes
  <2>3. QED BY <1>1, <1>9, <1>10, <1>11, <2>1, <2>2 DEF SrtTypes
<1>15. Restartable'
  <2>1. frame' # NoFrame
    <3>1. loop.nextT \in Int /\ 0 <= frame' BY <1>1, <1>9, <1>12, <1>13 DEF Loops
    <3>2. QED BY <3>1 DEF NoFrame
  <2>2. QED BY <1>2, <1>9, <1>11, <2>1 DEF Restartable
<1>16. FailsCounted' /\ CauseKept'
  <2>1. InLoop /\ InLoop' BY <1>2, <1>11 DEF InLoop
  <2>2. CauseKept' BY <1>9, <2>1, SameCause
  <2>3. FailsCounted' BY <1>9, <1>11, <2>1 DEF FailsCounted, QuickRow, QuickSince
  <2>4. QED BY <2>2, <2>3
<1>17. InLine'
  <2>1. loop.nextT \in Int BY <1>1 DEF Loops
  <2>2. taken <= next /\ off + 2 * n >= taken /\ (off + 2 * n) + 2 = next
    BY <1>1, <1>6, <1>12, <1>13, <2>1
  <2>3. 0 <= taken' /\ taken' <= loop'.nextT BY <1>9, <1>11, <1>13, <2>2
  <2>4. loop'.nextT = loop'.offset + 2 * ffmpeg'.frames BY <1>6, <1>10, <1>11
  <2>5. frame' >= taken' /\ frame' + 2 = loop'.nextT BY <1>9, <1>11, <2>2
  <2>6. loop'.lastAudio <= srtClock' /\ loop'.since <= srtClock' /\ loop'.origin <= loop'.lastAudio
    BY <1>1, <1>7, <1>8, <1>9, <1>11
  <2>7. QED BY <1>11, <2>3, <2>4, <2>5, <2>6 DEF InLine
<1>18. NotAhead'
  <2>1. SendersBefore' = senders BY <1>4, <1>9 DEF SendersBefore
  <2>2. SUFFICES ASSUME ~ahead'
                 PROVE  off <= (since - origin) + 3 * senders
                        /\ next <= ((srtClock - origin) + 2) + 3 * senders
    BY <1>11, <2>1 DEF NotAhead, Now
  <2>3. ~ahead /\ ~(2 * n > srtClock - since) BY <1>12, <2>2
  <2>4. 2 * n <= srtClock - since BY <1>1, <2>3
  <2>5. /\ loop.offset \in Int /\ loop.since \in Int /\ loop.origin \in Int
        /\ loop.nextT \in Int /\ loop.lastAudio \in Int
    BY <1>1 DEF Loops
  <2>6. off <= (since - origin) + 3 * senders
    <3>1. CASE loop.got
      <4>1. loop.hadAudio BY <3>1 DEF InLine
      <4>2. loop.offset <= (loop.since - loop.origin) + 3 * senders
        BY <1>2, <1>4, <2>3, <3>1, <4>1 DEF NotAhead
      <4>3. off = loop.offset /\ since = loop.since /\ origin = loop.origin
        BY <1>5, <1>7, <1>8, <3>1, <4>1
      <4>4. QED BY <4>2, <4>3
    <3>2. CASE ~loop.got /\ loop.hadAudio
      <4>1. loop.nextT <= ((loop.lastAudio - loop.origin) + 2) + 3 * (senders - 1)
        BY <1>4, <2>3, <3>2 DEF NotAhead, Now
      <4>2. off <= (loop.nextT + 1) + (srtClock - loop.lastAudio) BY <1>5, <3>2
      <4>3. since = srtClock /\ origin = loop.origin BY <1>7, <1>8, <3>2
      <4>4. QED BY <1>1, <2>5, <4>1, <4>2, <4>3
    <3>3. CASE ~loop.got /\ ~loop.hadAudio
      <4>1. off = 0 /\ since = srtClock /\ origin = srtClock BY <1>5, <1>7, <1>8, <3>3
      <4>2. QED BY <1>1, <4>1
    <3>4. QED BY <3>1, <3>2, <3>3
  <2>7. QED BY <1>1, <1>6, <2>4, <2>6
<1>19. QED BY <1>14, <1>15, <1>16, <1>17, <1>18

\* The run has the frame, or nobody does.
LEMMA HandOutInv == SrtInv /\ HandOut => SrtInv'
<1> SUFFICES ASSUME SrtInv, HandOut PROVE SrtInv' OBVIOUS
<1> USE DEF SrtInv
<1>1. loop \in Loops /\ loop.at = "send" /\ loop' = [loop EXCEPT !.at = "read"]
  BY DEF HandOut, SrtTypes
<1>2. /\ loop' \in Loops /\ loop'.at = "read"
      /\ loop'.opened = loop.opened /\ loop'.got = loop.got /\ loop'.offset = loop.offset
      /\ loop'.since = loop.since /\ loop'.nextT = loop.nextT
      /\ loop'.lastAudio = loop.lastAudio /\ loop'.hadAudio = loop.hadAudio
      /\ loop'.fails = loop.fails /\ loop'.origin = loop.origin
  BY <1>1, OnlyPlace DEF SrtPlaces
<1>3. frame' = NoFrame /\ frame # NoFrame
      /\ UNCHANGED <<srtClock, ffmpeg, running, srtErr, stream, ctxOver, refused, outcomes, ahead>>
  BY <1>1 DEF HandOut, Restartable
<1>4. frame \in Int /\ frame + 2 = loop.nextT /\ frame >= taken /\ 0 <= taken /\ taken \in Int
  BY <1>3 DEF InLine, SrtTypes
<1>5. taken' \in Int /\ 0 <= taken' /\ taken' <= loop.nextT
  BY <1>1, <1>4 DEF HandOut, InLine, SrtFrame
<1>6. SrtTypes' BY <1>2, <1>3, <1>5 DEF SrtTypes, NoFrame
<1>7. Restartable' BY <1>1, <1>2, <1>3 DEF Restartable
<1>8. FailsCounted' /\ CauseKept'
  <2>1. InLoop /\ InLoop' BY <1>1, <1>2 DEF InLoop
  <2>2. CauseKept' BY <1>3, <2>1, SameCause
  <2>3. FailsCounted' BY <1>2, <1>3, <2>1 DEF FailsCounted, QuickRow, QuickSince
  <2>4. QED BY <2>2, <2>3
<1>9. InLine' BY <1>2, <1>3, <1>5 DEF InLine
<1>10. NotAhead' BY <1>1, <1>2, <1>3 DEF NotAhead, Now, SendersBefore
<1>11. QED BY <1>6, <1>7, <1>8, <1>9, <1>10

\* The frames of a sender that left are still read.
LEMMA FfmpegEndsInv == SrtInv /\ FfmpegEnds => SrtInv'
<1> SUFFICES ASSUME SrtInv, FfmpegEnds PROVE SrtInv' OBVIOUS
<1> USE DEF SrtInv
<1>1. UNCHANGED <<srtClock, loop, frame, running, srtErr, stream, ctxOver, taken, refused,
                  outcomes, ahead>>
  BY DEF FfmpegEnds
<1>2. ffmpeg'.frames = ffmpeg.frames
      /\ ffmpeg' \in Ffmpegs
  <2>1. PICK f \in BOOLEAN : ffmpeg' = [ffmpeg EXCEPT !.at = "ended", !.failed = f]
    <3>1. PICK failed \in BOOLEAN :
            ffmpeg' = [ffmpeg EXCEPT !.at = "ended", !.failed = failed /\ ~ctxOver]
      BY DEF FfmpegEnds
    <3>2. (failed /\ ~ctxOver) \in BOOLEAN BY Zenon
    <3>3. QED BY <3>1, <3>2, Zenon
  <2>2. ffmpeg \in Ffmpegs BY DEF SrtTypes
  <2>3. QED BY <2>1, <2>2 DEF Ffmpegs
<1>3. SrtTypes' BY <1>1, <1>2 DEF SrtTypes
<1>4. Restartable' BY <1>1 DEF Restartable
<1>5. FailsCounted' /\ CauseKept'
  <2>1. InLoop' <=> InLoop BY <1>1 DEF InLoop
  <2>2. CauseKept' BY <1>1, <2>1, SameCause
  <2>3. FailsCounted' BY <1>1, <2>1 DEF FailsCounted, QuickRow, QuickSince
  <2>4. QED BY <2>2, <2>3
<1>6. InLine' BY <1>1, <1>2 DEF InLine
<1>7. NotAhead' BY <1>1 DEF NotAhead, Now, SendersBefore
<1>8. QED BY <1>3, <1>4, <1>5, <1>6, <1>7

\* A sender that gave audio adds to what the time may be ahead.
LEMMA FramesEndInv == SrtInv /\ FramesEnd => SrtInv'
<1> SUFFICES ASSUME SrtInv, FramesEnd PROVE SrtInv' OBVIOUS
<1> USE DEF SrtInv
<1>1. loop \in Loops /\ loop.at = "read" /\ ffmpeg \in Ffmpegs /\ outcomes \in Seq(Outcomes)
  BY DEF FramesEnd, SrtTypes
<1>2. UNCHANGED <<srtClock, ffmpeg, frame, running, stream, ctxOver, taken, refused, ahead>>
  BY DEF FramesEnd
<1>3. PICK out \in Outcomes : out = Outcome /\ (out = "audio" <=> loop.got)
  BY DEF Outcome, Outcomes
<1>4. outcomes' = Append(outcomes, out) BY <1>3 DEF FramesEnd
<1>5. PICK more \in Nat :
        /\ more = FailsAfter(out)
        /\ more = IF out = "quick" THEN loop.fails + 1 ELSE 0
  BY <1>1 DEF FailsAfter, FailsCounted
<1>6. /\ outcomes' \in Seq(Outcomes) /\ Len(outcomes') = Len(outcomes) + 1
      /\ outcomes'[Len(outcomes) + 1] = out
      /\ \A i \in 1 .. Len(outcomes) : outcomes'[i] = outcomes[i]
      /\ Len(outcomes) \in Nat
  BY <1>1, <1>4
<1>7. QuickRow(more)'
  <2>1. loop.fails \in 0 .. 2 /\ QuickRow(loop.fails) BY <1>1 DEF FailsCounted, InLoop
  <2>2. ASSUME NEW n \in Nat, n = more PROVE QuickRow(n)'
    <3>1. CASE out = "quick"
      <4>1. n = loop.fails + 1 /\ n <= Len(outcomes) + 1
        BY <1>5, <1>6, <2>1, <2>2, <3>1 DEF QuickRow
      <4>2. ASSUME NEW i \in 1 .. Len(outcomes) + 1, i > (Len(outcomes) + 1) - n
            PROVE  outcomes'[i] = "quick"
        <5>1. CASE i = Len(outcomes) + 1 BY <1>6, <3>1, <5>1
        <5>2. CASE i # Len(outcomes) + 1
          <6>1. i \in 1 .. Len(outcomes) /\ i > Len(outcomes) - loop.fails
            BY <1>6, <2>1, <4>1, <4>2, <5>2
          <6>2. outcomes[i] = "quick" BY <2>1, <6>1 DEF QuickRow
          <6>3. QED BY <1>6, <6>1, <6>2
        <5>3. QED BY <5>1, <5>2
      <4>3. QED BY <1>6, <4>1, <4>2 DEF QuickRow
    <3>2. CASE out # "quick" BY <1>5, <1>6, <2>2, <3>2 DEF QuickRow
    <3>3. QED BY <3>1, <3>2
  <2>3. QED BY <1>5, <2>2
<1>8. PICK place \in SrtPlaces, n \in Int :
        /\ loop' = [loop EXCEPT !.at = place, !.fails = n]
        /\ \/ place = "unset" /\ n = loop.fails /\ (ctxOver \/ more >= 3)
              /\ (srtErr' = srtErr \/ more >= 3)
           \/ place = "wait" /\ n = more /\ more < 3 /\ srtErr' = srtErr
  <2>1. CASE ctxOver
    <3>1. loop' = [loop EXCEPT !.at = "unset"] /\ srtErr' = srtErr
      BY <2>1 DEF FramesEnd, Leaving
    <3>2. loop' = [loop EXCEPT !.at = "unset", !.fails = loop.fails] BY <1>1, <3>1 DEF Loops
    <3>3. QED BY <1>1, <2>1, <3>1, <3>2 DEF Loops, SrtPlaces
  <2>2. CASE ~ctxOver /\ more >= 3
    <3>1. loop' = [loop EXCEPT !.at = "unset"]
      BY <1>3, <1>5, <2>2 DEF FramesEnd, Leaving
    <3>2. loop' = [loop EXCEPT !.at = "unset", !.fails = loop.fails] BY <1>1, <3>1 DEF Loops
    <3>3. QED BY <1>1, <2>2, <3>2 DEF Loops, SrtPlaces
  <2>3. CASE ~ctxOver /\ more < 3
    <3>1. loop' = [loop EXCEPT !.at = "wait", !.fails = more] /\ srtErr' = srtErr
      BY <1>3, <1>5, <2>3 DEF FramesEnd
    <3>2. "wait" \in SrtPlaces /\ more \in Int BY <1>5 DEF SrtPlaces
    <3>3. QED BY <2>3, <3>1, <3>2
  <2>4. more >= 3 \/ more < 3 BY <1>5
  <2>5. QED BY <2>1, <2>2, <2>3, <2>4, Zenon
<1>9. /\ loop' \in Loops /\ loop'.at = place /\ loop'.fails = n
      /\ loop'.opened = loop.opened /\ loop'.got = loop.got /\ loop'.offset = loop.offset
      /\ loop'.since = loop.since /\ loop'.nextT = loop.nextT
      /\ loop'.lastAudio = loop.lastAudio /\ loop'.hadAudio = loop.hadAudio
      /\ loop'.origin = loop.origin
  BY <1>1, <1>8 DEF Loops
<1>10. SrtTypes' BY <1>2, <1>6, <1>9 DEF SrtTypes
<1>11. Restartable' BY <1>1, <1>2, <1>8, <1>9 DEF Restartable
<1>12. QuickSince(more)'
  <2>1. loop.fails \in 0 .. 2 /\ QuickSince(loop.fails) BY <1>1 DEF FailsCounted, InLoop
  <2>2. CASE out = "quick"
    <3>1. PICK was \in Nat : was = loop.fails /\ more = was + 1 BY <1>5, <2>1, <2>2
    <3>2. ASSUME was < Len(outcomes) PROVE outcomes'[Len(outcomes) - was] # "quick"
      <4>1. Len(outcomes) - was \in 1 .. Len(outcomes) BY <1>6, <3>1, <3>2
      <4>2. outcomes[Len(outcomes) - was] # "quick" BY <2>1, <3>1, <3>2 DEF QuickSince
      <4>3. QED BY <1>6, <4>1, <4>2
    <3>3. Len(outcomes') - more = Len(outcomes) - was BY <1>6, <3>1
    <3>4. more < Len(outcomes') <=> was < Len(outcomes) BY <1>6, <3>1
    <3>5. QED BY <3>2, <3>3, <3>4 DEF QuickSince
  <2>3. CASE out # "quick"
    <3>1. more = 0 BY <1>5, <2>3
    <3>2. QED BY <1>6, <2>3, <3>1 DEF QuickSince
  <2>4. QED BY <2>2, <2>3
<1>16. FailsCounted' /\ CauseKept'
  <2>1. loop.fails \in 0 .. 2 /\ srtErr = "none" BY <1>1 DEF FailsCounted, CauseKept, InLoop
  <2>2. more <= 3 BY <1>5, <2>1
  <2>3. loop'.fails \in 0 .. 2 BY <1>5, <1>8, <1>9, <2>1
  <2>4. InLoop' => loop'.fails = more /\ srtErr' = "none" BY <1>8, <1>9, <2>1 DEF InLoop
  <2>5. srtErr' # "none" => more = 3 /\ srtErr' = "listener"
    BY <1>3, <1>5, <1>8, <2>1, <2>2 DEF FramesEnd
  <2>6. outcomes' # <<>> BY <1>6
  <2>7. InLoop' => QuickRow(loop.fails)' /\ QuickSince(loop.fails)' BY <1>7, <1>12, <2>4
  <2>8. FailsCounted' BY <2>3, <2>6, <2>7 DEF FailsCounted
  <2>9. srtErr' = "listener" => QuickRow(3)' BY <1>7, <2>5
  <2>10. stream' = "open" BY <1>1, <1>2 DEF Restartable
  <2>11. ~InLoop' => srtErr' # "none" \/ ctxOver'
    <3>1. ctxOver' = ctxOver BY <1>2
    <3>2. ~ctxOver /\ more >= 3 => srtErr' = "listener" BY <1>3, <1>5 DEF FramesEnd
    <3>3. place = "unset" => ctxOver \/ more >= 3 BY <1>8
    <3>4. ~InLoop' => place = "unset" BY <1>8, <1>9 DEF InLoop
    <3>5. QED BY <3>1, <3>2, <3>3, <3>4
  <2>12. QED BY <2>4, <2>5, <2>8, <2>9, <2>10, <2>11 DEF CauseKept
<1>13. InLine' BY <1>2, <1>9 DEF InLine
<1>14. NotAhead'
  <2>1. PICK old \in Nat : old = SendersBefore BY <1>1, SendersCount DEF SendersBefore, Outcomes
  <2>2. PICK new \in Nat : new = SendersBefore' /\ new = IF loop.got THEN old + 1 ELSE old
    <3>1. SendersBefore' = Cardinality({i \in 1 .. Len(Append(outcomes, out)) :
                                          Append(outcomes, out)[i] = "audio"})
      BY <1>4 DEF SendersBefore
    <3>2. SendersBefore' = IF out = "audio" THEN old + 1 ELSE old
      BY <1>1, <1>3, <2>1, <3>1, SendersCount DEF SendersBefore
    <3>3. QED BY <1>3, <2>1, <3>2
  <2>3. SUFFICES ASSUME loop.hadAudio, ~ahead
                 PROVE  loop.nextT <= (loop.lastAudio - loop.origin) + 2 + 3 * (new - 1)
    BY <1>2, <1>8, <1>9, <2>2 DEF NotAhead, Now
  <2>4. loop.nextT \in Int /\ loop.lastAudio \in Int /\ loop.origin \in Int BY <1>1 DEF Loops
  <2>5. loop.got => loop.nextT <= (loop.lastAudio - loop.origin) + 2 + 3 * old
    BY <1>1, <2>1, <2>3 DEF NotAhead, Now
  <2>6. ~loop.got => loop.nextT <= (loop.lastAudio - loop.origin) + 2 + 3 * (old - 1)
    BY <2>1, <2>3 DEF NotAhead, Now
  <2>7. QED BY <2>2, <2>4, <2>5, <2>6
<1>15. QED BY <1>10, <1>11, <1>13, <1>14, <1>16

\* The listener opens again with no frame of the next sender, or it does not.
LEMMA ReopenInv == SrtInv /\ (Reopen \/ WaitCancelled) => SrtInv'
<1> SUFFICES ASSUME SrtInv, Reopen \/ WaitCancelled PROVE SrtInv' OBVIOUS
<1> USE DEF SrtInv
<1>1. /\ loop \in Loops /\ loop.at = "wait" /\ ffmpeg \in Ffmpegs /\ srtClock \in Nat
      /\ UNCHANGED <<srtClock, frame, running, stream, ctxOver, taken, refused, outcomes, ahead>>
  BY DEF Reopen, WaitCancelled, SrtTypes
<1>2. /\ srtErr = "none" /\ stream = "open" /\ outcomes # <<>>
      /\ loop.fails \in 0 .. 2 /\ QuickSince(loop.fails)
  BY <1>1 DEF FailsCounted, CauseKept, InLoop, Restartable
<1>3. CASE /\ loop' = [loop EXCEPT !.at = "read", !.opened = srtClock, !.got = FALSE, !.offset = 0]
           /\ ffmpeg' = NewFfmpeg /\ UNCHANGED srtErr
  <2>1. /\ loop' \in Loops /\ loop'.at = "read" /\ ~loop'.got /\ loop'.fails = loop.fails
        /\ loop'.since = loop.since /\ loop'.nextT = loop.nextT
        /\ loop'.lastAudio = loop.lastAudio /\ loop'.hadAudio = loop.hadAudio
        /\ loop'.origin = loop.origin
    <3>1. PICK no \in BOOLEAN : no = FALSE /\ ~no BY Zenon
    <3>2. loop' = [loop EXCEPT !.at = "read", !.opened = srtClock, !.got = no, !.offset = 0]
      BY ONLY <1>3, <3>1
    <3>3. loop' = [at |-> "read", opened |-> srtClock, got |-> no, offset |-> 0,
                   since |-> loop.since, nextT |-> loop.nextT, lastAudio |-> loop.lastAudio,
                   hadAudio |-> loop.hadAudio, fails |-> loop.fails, origin |-> loop.origin]
      BY <1>1, <3>2 DEF Loops
    <3>4. /\ loop.since \in Int /\ loop.nextT \in Int /\ loop.lastAudio \in Int
          /\ loop.hadAudio \in BOOLEAN /\ loop.fails \in Int /\ loop.origin \in Int
      BY <1>1 DEF Loops
    <3>5. /\ loop'.at = "read" /\ loop'.got = no /\ loop'.fails = loop.fails
          /\ loop'.since = loop.since /\ loop'.nextT = loop.nextT
          /\ loop'.lastAudio = loop.lastAudio /\ loop'.hadAudio = loop.hadAudio
          /\ loop'.origin = loop.origin
      BY ONLY <3>3
    <3>6. loop' \in Loops BY ONLY <1>1, <3>1, <3>3, <3>4 DEF Loops, SrtPlaces
    <3>7. ~loop'.got BY ONLY <3>1, <3>5, Zenon
    <3>8. QED BY <3>5, <3>6, <3>7
  <2>2. ffmpeg' \in Ffmpegs /\ ffmpeg'.frames = 0 BY <1>3 DEF NewFfmpeg, NoFfmpeg, Ffmpegs
  <2>3. SrtTypes' BY <1>1, <2>1, <2>2 DEF SrtTypes
  <2>4. Restartable' BY <1>1, <2>1 DEF Restartable
  <2>5. FailsCounted' /\ CauseKept'
    <3>1. InLoop /\ InLoop' BY <1>1, <2>1 DEF InLoop
    <3>2. CauseKept' BY <1>1, <1>3, <3>1, SameCause
    <3>3. FailsCounted' BY <1>1, <2>1, <3>1 DEF FailsCounted, QuickRow, QuickSince
    <3>4. QED BY <3>2, <3>3
  <2>6. InLine' BY <1>1, <2>1, <2>2 DEF InLine, Restartable
  <2>7. NotAhead' BY <1>1, <2>1 DEF NotAhead, Now, SendersBefore
  <2>8. QED BY <2>3, <2>4, <2>5, <2>6, <2>7
<1>4. CASE /\ loop' = [loop EXCEPT !.at = "unset"] /\ ffmpeg' = ffmpeg
           /\ \/ srtErr' = "start"
              \/ srtErr' = srtErr /\ ctxOver
  <2>1. /\ loop' \in Loops /\ loop'.at = "unset"
        /\ loop'.opened = loop.opened /\ loop'.got = loop.got /\ loop'.offset = loop.offset
        /\ loop'.since = loop.since /\ loop'.nextT = loop.nextT
        /\ loop'.lastAudio = loop.lastAudio /\ loop'.hadAudio = loop.hadAudio
        /\ loop'.fails = loop.fails /\ loop'.origin = loop.origin
    BY <1>1, <1>4, OnlyPlace DEF SrtPlaces
  <2>2. SrtTypes' BY <1>1, <1>4, <2>1 DEF SrtTypes
  <2>3. Restartable' BY <1>1, <2>1 DEF Restartable
  <2>4. FailsCounted' /\ CauseKept'
    <3>1. ~InLoop' BY <2>1 DEF InLoop
    <3>2. FailsCounted' BY <1>2, <2>1, <3>1 DEF FailsCounted
    <3>3. QuickSince(loop.fails)' BY <1>1, <1>2, <2>1 DEF QuickSince
    <3>4. \E n \in 0 .. 2 : QuickSince(n)' BY <1>2, <2>1, <3>3
    <3>5. QED BY <1>1, <1>2, <1>4, <3>1, <3>2, <3>4 DEF CauseKept
  <2>5. InLine' BY <1>1, <1>4, <2>1 DEF InLine
  <2>6. NotAhead' BY <1>1, <2>1 DEF NotAhead, Now, SendersBefore
  <2>7. QED BY <2>2, <2>3, <2>4, <2>5, <2>6
<1>5. CASE Reopen BY <1>3, <1>4, <1>5 DEF Reopen, Leaving
<1>6. CASE WaitCancelled BY <1>4, <1>6 DEF WaitCancelled, Leaving
<1>7. QED BY <1>5, <1>6

\* The source is marked as stopped before its stream is closed.
LEMMA LeavesInOrder == AfterLeaving("unset") = "close" /\ AfterLeaving("close") = "gone"
<1>1. Leaving[1] = "unset" /\ Leaving[2] = "close" /\ Leaving[3] = "gone" BY DEF Leaving
<1>2. (CHOOSE i \in 1 .. 2 : Leaving[i] = "unset") = 1
  <2>1. \A i \in 1 .. 2 : Leaving[i] = "unset" <=> i = 1 BY <1>1
  <2>2. QED BY <2>1
<1>3. (CHOOSE i \in 1 .. 2 : Leaving[i] = "close") = 2
  <2>1. \A i \in 1 .. 2 : Leaving[i] = "close" <=> i = 2 BY <1>1
  <2>2. QED BY <2>1
<1>4. QED BY <1>1, <1>2, <1>3 DEF AfterLeaving

\* So a run that sees the stream closed can start the source again.
LEMMA SrtLeaveInv == SrtInv /\ (Unset \/ CloseStream) => SrtInv'
<1> SUFFICES ASSUME SrtInv, Unset \/ CloseStream PROVE SrtInv' OBVIOUS
<1> USE DEF SrtInv
<1>1. UNCHANGED <<srtClock, ffmpeg, frame, srtErr, ctxOver, taken, refused, outcomes, ahead>>
  BY DEF Unset, CloseStream
<1>2. PICK place \in {"close", "gone"} :
        /\ loop' = [loop EXCEPT !.at = place]
        /\ loop.at \in {"unset", "close"} /\ running' \in BOOLEAN /\ ~running'
        /\ stream' = "open" <=> place = "close"
  <2>1. CASE Unset BY <2>1, LeavesInOrder, Zenon DEF Unset, Restartable
  <2>2. CASE CloseStream BY <2>2, LeavesInOrder DEF CloseStream, Restartable, SrtTypes
  <2>3. QED BY <2>1, <2>2
<1>3. /\ loop' \in Loops /\ loop'.at = place
      /\ loop'.opened = loop.opened /\ loop'.got = loop.got /\ loop'.offset = loop.offset
      /\ loop'.since = loop.since /\ loop'.nextT = loop.nextT
      /\ loop'.lastAudio = loop.lastAudio /\ loop'.hadAudio = loop.hadAudio
      /\ loop'.fails = loop.fails /\ loop'.origin = loop.origin
  BY <1>2, OnlyPlace DEF SrtPlaces, SrtTypes
<1>4. SrtTypes' BY <1>1, <1>2, <1>3 DEF SrtTypes
<1>5. Restartable' BY <1>1, <1>2, <1>3 DEF Restartable
<1>6. FailsCounted' /\ CauseKept'
  <2>1. ~InLoop /\ ~InLoop' BY <1>2, <1>3 DEF InLoop
  <2>2. FailsCounted' BY <1>3, <1>2, <2>1 DEF FailsCounted
  <2>3. stream = "open" /\ stream' # "none" BY <1>2 DEF Restartable, Unset, CloseStream
  <2>4. CauseKept' BY <1>1, <2>1, <2>3 DEF CauseKept, QuickRow, QuickSince
  <2>5. QED BY <2>2, <2>4
<1>7. InLine' BY <1>1, <1>3 DEF InLine
<1>8. NotAhead' BY <1>1, <1>2, <1>3 DEF NotAhead, Now, SendersBefore
<1>9. QED BY <1>4, <1>5, <1>6, <1>7, <1>8

\* What the invariant says of a state.
LEMMA SrtInvShows == SrtInv => SourceGoesOn
<1> SUFFICES ASSUME SrtInv PROVE SourceGoesOn OBVIOUS
<1> USE DEF SrtInv
<1>1. SrtClockKept
  <2>1. frame # NoFrame => frame >= taken /\ frame + SrtFrame = loop.nextT
    BY DEF InLine, SrtFrame
  <2>2. ASSUME loop.hadAudio, ~ahead
        PROVE  2 * loop.nextT <= 2 * (srtClock - loop.origin) + (2 + 3 * SendersBefore) * SrtFrame
    <3>1. PICK senders \in Nat : senders = SendersBefore
      BY SendersCount DEF SrtTypes, SendersBefore, Outcomes
    <3>2. /\ loop.nextT \in Int /\ loop.lastAudio \in Int /\ loop.origin \in Int
          /\ srtClock \in Nat /\ loop.lastAudio <= srtClock
      BY DEF SrtTypes, Loops, InLine
    <3>3. \/ loop.nextT <= (loop.lastAudio - loop.origin) + 2 + 3 * senders
          \/ loop.nextT <= (loop.lastAudio - loop.origin) + 2 + 3 * (senders - 1)
      BY <2>2, <3>1 DEF NotAhead, Now
    <3>4. 2 * loop.nextT <= 2 * (srtClock - loop.origin) + (2 + 3 * senders) * 2
      BY <3>2, <3>3
    <3>5. QED BY <3>1, <3>4 DEF SrtFrame
  <2>3. QED BY <2>1, <2>2 DEF SrtClockKept
<1>2. EndsForCause
  <2>1. PICK n \in Nat : n = Len(outcomes) BY DEF SrtTypes
  <2>2. outcomes # <<>> <=> n > 0 BY <2>1 DEF SrtTypes
  <2>3. srtErr = "listener" => UnopenedThrice
    BY <2>1 DEF CauseKept, QuickRow, UnopenedThrice
  <2>4. ASSUME srtErr = "start", UnopenedThrice PROVE FALSE
    <3>1. PICK k \in 0 .. 2 : QuickSince(k) BY <2>4 DEF CauseKept
    <3>2. n >= 3 /\ outcomes[n - k] = "quick" BY <2>1, <2>4 DEF UnopenedThrice
    <3>3. QED BY <2>1, <3>1, <3>2 DEF QuickSince
  <2>5. LoopEnded <=> stream # "none" /\ ~InLoop
    BY DEF LoopEnded, InLoop, SrtTypes, Loops, SrtPlaces
  <2>6. srtErr # "none" => LoopEnded BY <2>5 DEF CauseKept
  <2>7. srtErr = "start" => outcomes # <<>> BY DEF CauseKept
  <2>8. LoopEnded => srtErr # "none" \/ ctxOver BY <2>5 DEF CauseKept
  <2>9. QED BY <2>3, <2>4, <2>6, <2>7, <2>8 DEF EndsForCause
<1>3. QED BY <1>1, <1>2 DEF SourceGoesOn, Restartable

\* SourceGoesOn (src/internal/audio/ffmpeg/srt.go): over any number of senders,
\* failures and restarts, the frames' time ascends and keeps to the wall clock,
\* the source ends only when it did not open three times in a row, when ffmpeg
\* could not be run to open it again, or when the run ended it, and a run that saw
\* its stream end can start it again.
THEOREM SourceAlwaysGoesOn == SrtSpec => []SourceGoesOn
<1>1. SrtInit => SrtInv BY SrtInitInv
<1>2. SrtInv /\ [SrtNext]_srtVars => SrtInv'
  <2>1. SUFFICES ASSUME SrtInv, [SrtNext]_srtVars PROVE SrtInv' OBVIOUS
  <2>2. CASE SrtNext
    BY <2>1, <2>2, StartSourceInv, AroundTheLoopInv, TakeFrameInv, HandOutInv, FfmpegEndsInv,
       FramesEndInv, ReopenInv, SrtLeaveInv DEF SrtNext
  <2>3. CASE UNCHANGED srtVars
    BY <2>1, <2>3 DEF srtVars, SrtInv, SrtTypes, Restartable, FailsCounted, CauseKept, InLoop,
       QuickRow, QuickSince, InLine, NotAhead, Now, SendersBefore
  <2>4. QED BY <2>1, <2>2, <2>3
<1>3. SrtInv => SourceGoesOn BY SrtInvShows
<1>4. QED BY <1>1, <1>2, <1>3, PTL DEF SrtSpec

-----------------------------------------------------------------------------
(* ProviderKey *)

KeyOps == {"none", "put", "delete", "validate", "resolve"}
ReqPlaces == {"idle", "setKeychain", "dropCopy", "setFile", "deleteKeychain", "deleteFile",
              "forget", "validate", "read", "readFile", "cache", "decide", "wait"}
ReadKeys == ApiKeys \union {NoKey, "error"}
Reqs == [pc : ReqPlaces, op : KeyOps, key : ReadKeys, check : Int, answer : KeyStates]
KeyChecks == [key : ApiKeys, at : {"asking", "reading", "done"}, fresh : KeyStates,
              state : KeyStates]

KeyTypeOK ==
  /\ keychain \in ReadKeys /\ file \in ReadKeys /\ cached \in ReadKeys \union {"none"}
  /\ verdict \in [key : ReadKeys, state : KeyStates]
  /\ req \in [KeyRequests -> Reqs]

ChecksOK ==
  /\ checks \in Seq(KeyChecks) /\ inflight \in 0 .. Len(checks)
  /\ \A c \in 1 .. Len(checks) :
       Said(checks[c].key, checks[c].state) /\ Said(checks[c].key, checks[c].fresh)

\* A request that waits, waits for a check of the key it read, and one on its
\* way has not been told anything.
ReqOK(q, begun) ==
  /\ q.pc = "wait" => q.check \in 1 .. Len(begun) /\ begun[q.check].key = q.key
  /\ q.pc # "idle" => q.answer = "unknown"
  /\ q.key \in ApiKeys => Said(q.key, q.answer)
ReqsOK == \A r \in KeyRequests : ReqOK(req[r], checks)

KeyInv == KeyTypeOK /\ ChecksOK /\ ReqsOK /\ Said(verdict.key, verdict.state)

\* The store, the cached read and one request change; checks are only added.
LEMMA ReqChanges ==
  ASSUME KeyInv, NEW r \in KeyRequests,
         keychain' \in ReadKeys, file' \in ReadKeys, cached' \in ReadKeys \union {"none"},
         verdict' = verdict, ChecksOK',
         \A c \in 1 .. Len(checks) : c \in 1 .. Len(checks') /\ checks'[c].key = checks[c].key,
         req' \in [KeyRequests -> Reqs],
         \A q \in KeyRequests : q # r => req'[q] = req[q],
         ReqOK(req'[r], checks')
  PROVE  KeyInv'
<1>1. KeyTypeOK' BY DEF KeyInv, KeyTypeOK
<1>2. ASSUME NEW q \in KeyRequests PROVE ReqOK(req'[q], checks')
  <2>1. CASE q = r BY <2>1
  <2>2. CASE q # r BY <2>2 DEF KeyInv, ReqsOK, ReqOK
  <2> QED BY <2>1, <2>2
<1> QED BY <1>1, <1>2 DEF KeyInv, ReqsOK

\* On the way to its read a request goes to a place, and may take a key with it.
LEMMA ReqGoes ==
  ASSUME KeyInv, NEW r \in KeyRequests, req[r].pc \notin {"idle", "wait"},
         NEW place \in ReqPlaces \ {"wait"}, NEW key \in ReadKeys,
         \/ To(r, place) /\ key = req[r].key
         \/ req' = [req EXCEPT ![r].pc = place, ![r].key = key]
         \/ req' = [req EXCEPT ![r].key = key, ![r].pc = place],
         keychain' \in ReadKeys, file' \in ReadKeys, cached' \in ReadKeys \union {"none"},
         UNCHANGED <<verdict, checks, inflight>>
  PROVE  KeyInv'
<1>1. req \in [KeyRequests -> Reqs] /\ req[r] \in Reqs BY DEF KeyInv, KeyTypeOK
<1>2. /\ req' \in [KeyRequests -> Reqs] /\ \A q \in KeyRequests : q # r => req'[q] = req[q]
      /\ req'[r].pc = place /\ req'[r].answer = req[r].answer
  BY <1>1 DEF To, Reqs
<1>3. req[r].answer = "unknown" BY DEF KeyInv, ReqsOK, ReqOK
<1>4. ReqOK(req'[r], checks') BY <1>2, <1>3 DEF ReqOK, Said
<1>5. ChecksOK' BY DEF KeyInv, ChecksOK
<1> QED BY <1>2, <1>4, <1>5, ReqChanges DEF KeyInv

\* A request is answered with what is known of its key.
LEMMA ReqAnswered ==
  ASSUME KeyInv, NEW r \in KeyRequests, NEW state \in KeyStates,
         req[r].key \in ApiKeys => Said(req[r].key, state), Answered(r, state),
         UNCHANGED <<keychain, file, cached, verdict>>, ChecksOK',
         \A c \in 1 .. Len(checks) : c \in 1 .. Len(checks') /\ checks'[c].key = checks[c].key
  PROVE  KeyInv'
<1>1. req \in [KeyRequests -> Reqs] /\ req[r] \in Reqs BY DEF KeyInv, KeyTypeOK
<1>2. /\ req' \in [KeyRequests -> Reqs] /\ \A q \in KeyRequests : q # r => req'[q] = req[q]
      /\ req'[r].pc = "idle" /\ req'[r].answer = state /\ req'[r].key = req[r].key
  BY <1>1 DEF Answered, Reqs, ReqPlaces
<1>3. ReqOK(req'[r], checks') BY <1>2 DEF ReqOK
<1>4. keychain' \in ReadKeys /\ file' \in ReadKeys /\ cached' \in ReadKeys \union {"none"}
  BY DEF KeyInv, KeyTypeOK
<1> QED BY <1>2, <1>3, <1>4, ReqChanges

\* A check that is started, or joined, is one of the key.
LEMMA CheckStarted ==
  ASSUME KeyInv, NEW key \in ApiKeys, StartCheck(key)
  PROVE  /\ ChecksOK'
         /\ \A c \in 1 .. Len(checks) : c \in 1 .. Len(checks') /\ checks'[c].key = checks[c].key
         /\ Started(key) \in 1 .. Len(checks') /\ checks'[Started(key)].key = key
<1>1. checks \in Seq(KeyChecks) /\ Len(checks) \in Nat /\ inflight \in 0 .. Len(checks)
  BY DEF KeyInv, ChecksOK
<1>2. CASE Joins(key)
  <2>1. UNCHANGED <<checks, inflight>> /\ Started(key) = inflight
    BY <1>2 DEF StartCheck, Started
  <2>2. inflight # 0 /\ checks[inflight].key = key BY <1>2 DEF Joins
  <2>3. inflight \in 1 .. Len(checks) BY <1>1, <2>2
  <2> QED BY <2>1, <2>2, <2>3 DEF KeyInv, ChecksOK
<1>3. CASE ~Joins(key)
  <2>1. checks' = Append(checks, Check(key)) /\ inflight' = Len(checks) + 1
        /\ Started(key) = Len(checks) + 1
    BY <1>3 DEF StartCheck, Started
  <2>2. Check(key) \in KeyChecks /\ Check(key).key = key
        /\ Check(key).state = "unknown" /\ Check(key).fresh = "unknown"
    BY DEF Check, KeyChecks, KeyStates
  <2> HIDE DEF Check
  <2>3. /\ checks' \in Seq(KeyChecks) /\ Len(checks') = Len(checks) + 1
        /\ checks'[Len(checks) + 1] = Check(key)
        /\ \A c \in 1 .. Len(checks) : checks'[c] = checks[c]
    BY <1>1, <2>1, <2>2
  <2>4. inflight' \in 0 .. Len(checks') BY <1>1, <2>1, <2>3
  <2>5. ASSUME NEW c \in 1 .. Len(checks')
        PROVE  Said(checks'[c].key, checks'[c].state) /\ Said(checks'[c].key, checks'[c].fresh)
    <3>1. CASE c \in 1 .. Len(checks) BY <2>3, <3>1 DEF KeyInv, ChecksOK
    <3>2. CASE c = Len(checks) + 1 BY <2>2, <2>3, <3>2 DEF Said
    <3> QED BY <1>1, <2>3, <3>1, <3>2
  <2>6. ChecksOK' BY <2>3, <2>4, <2>5 DEF ChecksOK
  <2> QED BY <1>1, <2>1, <2>2, <2>3, <2>6
<1> QED BY <1>2, <1>3

\* A step that leaves checks, verdict and requests alone.
LEMMA StoreChanges ==
  ASSUME KeyInv, UNCHANGED <<verdict, checks, inflight, req, keychain, file>>,
         cached' \in ReadKeys \union {"none"}
  PROVE  KeyInv'
BY DEF KeyInv, KeyTypeOK, ChecksOK, ReqsOK, ReqOK, Said

\* Google's answer is about the key that was asked about.
LEMMA AskedTrue ==
  ASSUME KeyInv, NEW c \in 1 .. Len(checks), NEW fresh \in KeyStates, Asked(c, fresh)
  PROVE  KeyInv'
<1> DEFINE f == checks[c]
           kept == fresh = "unverified" /\ verdict.key = f.key /\ verdict.state \in Definite
           state == IF kept THEN verdict.state ELSE fresh
           new == [key |-> f.key, at |-> "reading", fresh |-> fresh, state |-> state]
<1>0. checks \in Seq(KeyChecks) BY DEF KeyInv, ChecksOK
<1>1. checks \in Seq(KeyChecks) /\ Len(checks) \in Nat /\ f \in KeyChecks /\ f.key \in ApiKeys
  <2>1. Len(checks) \in Nat /\ f \in KeyChecks BY <1>0
  <2> QED BY <1>0, <2>1 DEF KeyChecks
<1>2. Said(f.key, fresh)
  <2>1. fresh \in {"unverified", IF f.key \in GoodKeys THEN "valid" ELSE "invalid"}
    BY DEF Asked
  <2>2. \/ fresh = "unverified"
        \/ fresh = "valid" /\ f.key \in GoodKeys
        \/ fresh = "invalid" /\ f.key \notin GoodKeys
    BY <2>1
  <2> QED BY <2>2 DEF Said
<1>3. state \in KeyStates /\ Said(f.key, state)
  BY <1>2 DEF KeyInv, KeyTypeOK, Said
<1>4. /\ verdict' = [key |-> f.key, state |-> state] /\ checks' = [checks EXCEPT ![c] = new]
      /\ inflight' \in {0, inflight} /\ UNCHANGED <<cached, req, keychain, file>>
  BY DEF Asked, KeepStore
<1>5. new \in KeyChecks /\ new.key = f.key /\ new.state = state /\ new.fresh = fresh
  BY <1>1, <1>3 DEF KeyChecks
<1> HIDE DEF new, state
<1>6. /\ checks' \in Seq(KeyChecks) /\ Len(checks') = Len(checks) /\ checks'[c] = new
      /\ \A d \in 1 .. Len(checks) : d # c => checks'[d] = checks[d]
  BY <1>1, <1>4, <1>5
<1>7. ASSUME NEW d \in 1 .. Len(checks')
      PROVE  /\ checks'[d].key = checks[d].key
             /\ Said(checks'[d].key, checks'[d].state) /\ Said(checks'[d].key, checks'[d].fresh)
  <2>1. CASE d = c BY <1>2, <1>3, <1>5, <1>6, <2>1
  <2>2. CASE d # c BY <1>6, <2>2 DEF KeyInv, ChecksOK
  <2> QED BY <2>1, <2>2
<1>8. ChecksOK' BY <1>4, <1>6, <1>7 DEF KeyInv, ChecksOK
<1>9. ReqsOK' BY <1>4, <1>6, <1>7 DEF KeyInv, ReqsOK, ReqOK
<1>10. KeyTypeOK' BY <1>1, <1>3, <1>4 DEF KeyInv, KeyTypeOK, ReadKeys
<1>11. Said(verdict.key, verdict.state)' BY <1>3, <1>4
<1> QED BY <1>8, <1>9, <1>10, <1>11 DEF KeyInv

\* The read at the end of a check changes none of what is known.
LEMMA CheckedKeeps ==
  ASSUME KeyInv, NEW c \in 1 .. Len(checks), Checked(c)
  PROVE  KeyInv'
<1> DEFINE old == checks[c]
           new == [key |-> old.key, at |-> "done", fresh |-> old.fresh, state |-> old.state]
<1>1. checks \in Seq(KeyChecks) /\ Len(checks) \in Nat /\ old \in KeyChecks
  BY DEF KeyInv, ChecksOK
<1>2. /\ cached' \in ReadKeys \union {"none"}
      /\ UNCHANGED <<verdict, inflight, req, keychain, file>>
  BY DEF Checked, Current, KeyInv, KeyTypeOK, ReadKeys, KeepStore
<1>3. /\ checks' = [checks EXCEPT ![c].at = "done"]
  BY DEF Checked
<1>4. /\ checks' \in Seq(KeyChecks) /\ Len(checks') = Len(checks)
      /\ \A d \in 1 .. Len(checks) : /\ checks'[d].key = checks[d].key
                                     /\ checks'[d].state = checks[d].state
                                     /\ checks'[d].fresh = checks[d].fresh
  BY <1>1, <1>3 DEF KeyChecks
<1>5. ChecksOK' BY <1>2, <1>4 DEF KeyInv, ChecksOK
<1>6. ReqsOK' BY <1>2, <1>4 DEF KeyInv, ReqsOK, ReqOK
<1> QED BY <1>2, <1>5, <1>6 DEF KeyInv, KeyTypeOK

\* Every step of a request and of a check keeps it.
LEMMA KeyInvNext == KeyInv /\ [KeyNext]_keyVars => KeyInv'
<1> SUFFICES ASSUME KeyInv, [KeyNext]_keyVars PROVE KeyInv'
  OBVIOUS
<1>0. /\ keychain \in ReadKeys /\ file \in ReadKeys /\ cached \in ReadKeys \union {"none"}
      /\ NoKey \in ReadKeys /\ "error" \in ReadKeys
      /\ \A r \in KeyRequests : req[r] \in Reqs /\ req[r].key \in ReadKeys
      /\ ChecksOK
  BY DEF KeyInv, KeyTypeOK, ReadKeys, Reqs
<1>1. ASSUME NEW r \in KeyRequests, NEW op \in {"put", "delete", "validate", "resolve"},
             NEW key \in ApiKeys \union {NoKey}, Begin(r, op, key)
      PROVE  KeyInv'
  <2> DEFINE place == FirstStep(op)
             new == [pc |-> place, op |-> op, key |-> key, check |-> 0, answer |-> "unknown"]
  <2>1. place \in ReqPlaces \ {"wait"} BY DEF FirstStep, ReqPlaces
  <2>2. new \in Reqs /\ ReqOK(new, checks)
    <3> HIDE DEF place
    <3> QED BY <2>1 DEF Reqs, KeyOps, KeyStates, ReadKeys, ReqOK, Said
  <2>3. req' = [req EXCEPT ![r] = new] BY <1>1 DEF Begin
  <2> HIDE DEF new
  <2>4. /\ req' \in [KeyRequests -> Reqs] /\ req'[r] = new
        /\ \A q \in KeyRequests : q # r => req'[q] = req[q]
    BY <2>2, <2>3 DEF KeyInv, KeyTypeOK
  <2>5. UNCHANGED <<keychain, file, cached, verdict, checks, inflight>> BY <1>1 DEF Begin
  <2>6. ChecksOK' BY <1>0, <2>5 DEF ChecksOK
  <2> QED BY <1>0, <2>2, <2>4, <2>5, <2>6, ReqChanges
<1>2. ASSUME NEW r \in KeyRequests,
             SetKeychain(r) \/ DropCopy(r) \/ SetFile(r) \/ DeleteFile(r) \/ Forget(r) \/ Validate(r)
      PROVE  KeyInv'
  <2>1. req[r].pc \notin {"idle", "wait"}
    BY <1>2 DEF SetKeychain, DropCopy, SetFile, DeleteFile, Forget, Validate, At
  <2>2. UNCHANGED <<verdict, checks, inflight>>
    BY <1>2 DEF SetKeychain, DropCopy, SetFile, DeleteFile, Forget, Validate, KeepSelector
  <2>3. \E place \in ReqPlaces \ {"wait"} : To(r, place)
    BY <1>2 DEF SetKeychain, DropCopy, SetFile, DeleteFile, Forget, Validate, ReqPlaces
  <2>4. /\ keychain' \in {keychain, req[r].key} /\ file' \in {file, NoKey, req[r].key}
        /\ cached' \in {cached, "none"}
    BY <1>2 DEF SetKeychain, DropCopy, SetFile, DeleteFile, Forget, Validate
  <2>5. keychain' \in ReadKeys /\ file' \in ReadKeys /\ cached' \in ReadKeys \union {"none"}
    BY <1>0, <2>4
  <2> QED BY <1>0, <2>1, <2>2, <2>3, <2>5, ReqGoes
<1>3. ASSUME NEW r \in KeyRequests, DeleteKeychain(r) \/ Read(r) \/ ReadFile(r) \/ Cache(r)
      PROVE  KeyInv'
  <2>1. req[r].pc \notin {"idle", "wait"}
    BY <1>3 DEF DeleteKeychain, Read, ReadFile, Cache, At
  <2>2. UNCHANGED <<verdict, checks, inflight>>
    BY <1>3 DEF DeleteKeychain, Read, ReadFile, Cache, KeepSelector
  <2>3. /\ keychain' \in {keychain, NoKey} /\ file' = file /\ cached' \in {cached, req[r].key}
    BY <1>3 DEF DeleteKeychain, Read, ReadFile, Cache
  <2>4. keychain' \in ReadKeys /\ file' \in ReadKeys /\ cached' \in ReadKeys \union {"none"}
    BY <1>0, <2>3
  <2>5. \E place \in ReqPlaces \ {"wait"}, key \in ReadKeys :
          \/ To(r, place) /\ key = req[r].key
          \/ req' = [req EXCEPT ![r].pc = place, ![r].key = key]
          \/ req' = [req EXCEPT ![r].key = key, ![r].pc = place]
    <3>1. CASE DeleteKeychain(r) BY <1>0, <3>1 DEF DeleteKeychain, ReqPlaces
    <3>2. CASE Read(r)
      <4>1. \/ cached # "none" /\ req' = [req EXCEPT ![r].key = cached, ![r].pc = "decide"]
            \/ req' = [req EXCEPT ![r].key = keychain,
                                  ![r].pc = IF keychain = NoKey THEN "readFile" ELSE "cache"]
            \/ To(r, "readFile")
        BY <3>2 DEF Read
      <4>2. CASE cached # "none" /\ req' = [req EXCEPT ![r].key = cached, ![r].pc = "decide"]
        BY <1>0, <4>2 DEF ReqPlaces
      <4>3. CASE req' = [req EXCEPT ![r].key = keychain,
                                    ![r].pc = IF keychain = NoKey THEN "readFile" ELSE "cache"]
        <5>1. (IF keychain = NoKey THEN "readFile" ELSE "cache") \in ReqPlaces \ {"wait"}
          BY DEF ReqPlaces
        <5> QED BY <1>0, <4>3, <5>1
      <4>4. CASE To(r, "readFile") BY <1>0, <4>4 DEF ReqPlaces
      <4> QED BY <4>1, <4>2, <4>3, <4>4
    <3>3. CASE ReadFile(r) BY <1>0, <3>3 DEF ReadFile, ReqPlaces
    <3>4. CASE Cache(r) BY <1>0, <3>4 DEF Cache, ReqPlaces
    <3> QED BY <1>3, <3>1, <3>2, <3>3, <3>4
  <2> QED BY <1>0, <2>1, <2>2, <2>4, <2>5, ReqGoes
<1>4. ASSUME NEW r \in KeyRequests, DecideWithout(r) \/ DecideRecent(r) \/ CheckDone(r) \/ GiveUp(r)
      PROVE  KeyInv'
  <2>1. UNCHANGED <<keychain, file, cached, verdict, checks, inflight>>
    BY <1>4 DEF DecideWithout, DecideRecent, CheckDone, GiveUp, KeepStore
  <2>2. ChecksOK' BY <1>0, <2>1 DEF ChecksOK
  <2>3. \E state \in KeyStates :
          Answered(r, state) /\ (req[r].key \in ApiKeys => Said(req[r].key, state))
    <3>1. CASE DecideWithout(r) \/ GiveUp(r)
      <4>1. \E state \in {"unverified", "none", "unknown"} : Answered(r, state)
        BY <3>1 DEF DecideWithout, GiveUp
      <4> QED BY <4>1 DEF KeyStates, Said
    <3>2. CASE DecideRecent(r)
      BY <3>2 DEF DecideRecent, Known, KeyInv, KeyTypeOK
    <3>3. CASE CheckDone(r)
      <4>1. /\ req[r].check \in 1 .. Len(checks) /\ checks[req[r].check].key = req[r].key
            /\ \E state \in {checks[req[r].check].state, checks[req[r].check].fresh} : Answered(r, state)
        BY <3>3 DEF CheckDone, At, KeyInv, ReqsOK, ReqOK
      <4>2. checks[req[r].check] \in KeyChecks BY <1>0, <4>1 DEF ChecksOK
      <4> QED BY <1>0, <4>1, <4>2 DEF ChecksOK, KeyChecks
    <3> QED BY <1>4, <3>1, <3>2, <3>3
  <2> QED BY <2>1, <2>2, <2>3, ReqAnswered
<1>5. ASSUME NEW r \in KeyRequests, NEW expired \in BOOLEAN, DecideKnown(r, expired)
      PROVE  KeyInv'
  <2>1. /\ UNCHANGED <<keychain, file, cached, verdict>> /\ Answered(r, verdict.state)
        /\ req[r].key \in ApiKeys /\ verdict.key = req[r].key
        /\ StartCheck(req[r].key) \/ UNCHANGED <<checks, inflight>>
    BY <1>5 DEF DecideKnown, Known, KeepStore
  <2>2. ChecksOK' /\ \A c \in 1 .. Len(checks) :
                       c \in 1 .. Len(checks') /\ checks'[c].key = checks[c].key
    <3>1. CASE StartCheck(req[r].key) BY <2>1, <3>1, CheckStarted
    <3>2. CASE UNCHANGED <<checks, inflight>> BY <1>0, <3>2 DEF ChecksOK
    <3> QED BY <2>1, <3>1, <3>2
  <2>3. verdict.state \in KeyStates /\ Said(req[r].key, verdict.state)
    BY <2>1 DEF KeyInv, KeyTypeOK
  <2> QED BY <2>1, <2>2, <2>3, ReqAnswered
<1>6. ASSUME NEW r \in KeyRequests, DecideUnknown(r) PROVE KeyInv'
  <2>1. /\ UNCHANGED <<keychain, file, cached, verdict>> /\ StartCheck(req[r].key)
        /\ req[r].key \in ApiKeys /\ req[r].pc = "decide"
        /\ req' = [req EXCEPT ![r].pc = "wait", ![r].check = Started(req[r].key)]
    BY <1>6 DEF DecideUnknown, KeepStore, At
  <2>2. /\ ChecksOK'
        /\ \A c \in 1 .. Len(checks) : c \in 1 .. Len(checks') /\ checks'[c].key = checks[c].key
        /\ Started(req[r].key) \in 1 .. Len(checks') /\ checks'[Started(req[r].key)].key = req[r].key
    BY <2>1, CheckStarted
  <2> DEFINE mine == Started(req[r].key)
  <2>3. mine \in Int BY <2>2
  <2> HIDE DEF mine
  <2>4. /\ req' \in [KeyRequests -> Reqs] /\ \A q \in KeyRequests : q # r => req'[q] = req[q]
        /\ req'[r].pc = "wait" /\ req'[r].check = mine /\ req'[r].key = req[r].key
        /\ req'[r].answer = req[r].answer
    <3>1. req' = [req EXCEPT ![r].pc = "wait", ![r].check = mine] BY <2>1 DEF mine
    <3> QED BY <1>0, <2>3, <3>1 DEF KeyInv, KeyTypeOK, Reqs, ReqPlaces
  <2>5. req[r].answer = "unknown" BY <2>1 DEF KeyInv, ReqsOK, ReqOK
  <2>6. ReqOK(req'[r], checks') BY <2>2, <2>4, <2>5 DEF ReqOK, Said, mine
  <2> QED BY <1>0, <2>1, <2>2, <2>4, <2>6, ReqChanges
<1>7. CASE KeyTTLPasses BY <1>0, <1>7, StoreChanges DEF KeyTTLPasses
<1>8. ASSUME NEW c \in DOMAIN checks, (\E fresh \in KeyStates : Asked(c, fresh)) \/ Checked(c)
      PROVE  KeyInv'
  <2>1. c \in 1 .. Len(checks) BY <1>0 DEF ChecksOK
  <2> QED BY <1>8, <2>1, AskedTrue, CheckedKeeps
<1>9. CASE UNCHANGED keyVars BY <1>0, <1>9, StoreChanges DEF keyVars
<1> QED
  BY <1>1, <1>2, <1>3, <1>4, <1>5, <1>6, <1>7, <1>8, <1>9 DEF KeyNext

\* Whatever keys are saved, deleted and checked at a time, Google's answer about
\* one is never told of another.
THEOREM VerdictsAlwaysTrue == KeySpec => []VerdictsTrue
<1>1. KeyInit => KeyInv
  <2> SUFFICES ASSUME KeyInit PROVE KeyInv
    OBVIOUS
  <2>1. Idle \in Reqs /\ Idle.pc = "idle" /\ Idle.answer = "unknown"
    BY DEF Idle, Reqs, ReqPlaces, KeyOps, ReadKeys, KeyStates
  <2>2. \A r \in KeyRequests : req[r] = Idle BY DEF KeyInit
  <2>3. ReqsOK BY <2>1, <2>2 DEF ReqsOK, ReqOK, Said
  <2>4. KeyTypeOK BY <2>1 DEF KeyInit, KeyTypeOK, ReadKeys, KeyStates
  <2>5. ChecksOK BY DEF KeyInit, ChecksOK
  <2>6. Said(verdict.key, verdict.state) BY DEF KeyInit, Said
  <2> QED BY <2>3, <2>4, <2>5, <2>6 DEF KeyInv
<1>2. KeyInv => VerdictsTrue
  BY DEF KeyInv, ChecksOK, ReqsOK, ReqOK, VerdictsTrue
<1> QED BY <1>1, <1>2, KeyInvNext, PTL DEF KeySpec

-----------------------------------------------------------------------------
(* GeminiStream *)

AsrConns == [open : BOOLEAN, fed : BOOLEAN, line : BOOLEAN, flushed : BOOLEAN, ending : BOOLEAN]
Streams ==
  [conns : Seq(AsrConns), cur : Nat, next : Nat, old : Nat,
   dial : {"none", "dialing", "opened", "failed", "retry"}, retries : Nat, rotating : BOOLEAN,
   batch : Seq(Nat), buffered : Seq(Nat), heard : Nat, sent : Seq(Nat), dropped : Seq(Nat),
   ended : BOOLEAN, over : BOOLEAN, fails : Int]

\* The frames of some audio, and whether they are in order.
FramesOf(q) == {q[i] : i \in 1 .. Len(q)}
Rising(q) == \A i, j \in 1 .. Len(q) : i < j => q[i] < q[j]

\* All audio of a stream is in its line or was dropped.
AudioLine(s) == s.sent \o s.batch \o s.buffered
AllHeard(line, dropped, heard) ==
  /\ Rising(line) /\ FramesOf(line) \cap FramesOf(dropped) = {}
  /\ FramesOf(line) \cup FramesOf(dropped) = 1 .. heard

\* Of its connections, the ones that are open, that were fed, and that have a
\* line on screen.
Last(s) == Len(s.conns)
Open(s) == {c \in 1 .. Last(s) : s.conns[c].open}
Fed(s) == {c \in 1 .. Last(s) : s.conns[c].fed}
Lit(s) == {c \in 1 .. Last(s) : s.conns[c].line}

\* The connection that the dialler hands over.
HandedOver(s) == IF s.dial = "opened" THEN {Last(s)} ELSE {}

\* Which connection has which part, and that there are no others.
Parted(s) ==
  /\ {s.cur, s.next, s.old} \subseteq 0 .. Last(s)
  /\ s.cur # 0 => s.cur \notin {s.next, s.old}
  /\ s.next # 0 => s.cur # 0 /\ s.next # s.old
  /\ s.next \notin Fed(s)
  /\ HandedOver(s) \cap ({0, s.cur, s.next, s.old} \cup Fed(s)) = {}
  /\ Open(s) \subseteq {s.cur, s.next, s.old} \cup HandedOver(s)
  /\ Lit(s) \subseteq Fed(s) \cap {s.cur, s.old}
  /\ s.over => Lit(s) = {}

\* Audio is batched for a connection and buffered while there is none.
Batched(s) == IF s.cur = 0 THEN s.batch = <<>> ELSE s.buffered = <<>>

AsrSound(s) ==
  /\ s \in Streams /\ Parted(s)
  /\ AllHeard(AudioLine(s), s.dropped, s.heard)
  /\ ~s.over => Batched(s)

\* What parts of a stream a step leaves.
SameConns(r, s) == Last(r) = Last(s) /\ Open(r) = Open(s) /\ Fed(r) = Fed(s) /\ Lit(r) = Lit(s)
SameParts(r, s) == r.cur = s.cur /\ r.next = s.next /\ r.old = s.old
SameMode(r, s) == r.dial = s.dial /\ r.ended = s.ended /\ r.over = s.over
SameAudio(r, s) ==
  /\ r.sent = s.sent /\ r.batch = s.batch /\ r.buffered = s.buffered
  /\ r.dropped = s.dropped /\ r.heard = s.heard

-----------------------------------------------------------------------------
\* Audio after audio.
LEMMA JoinedFrames ==
  ASSUME NEW a \in Seq(Nat), NEW b \in Seq(Nat)
  PROVE  /\ a \o b \in Seq(Nat) /\ FramesOf(a \o b) = FramesOf(a) \cup FramesOf(b)
         /\ Rising(a \o b) <=>
              Rising(a) /\ Rising(b) /\ \A x \in FramesOf(a), y \in FramesOf(b) : x < y
<1>1. PICK c \in Seq(Nat) : c = a \o b BY ConcatProperties
<1>2. /\ Len(a) \in Nat /\ Len(b) \in Nat /\ Len(c) = Len(a) + Len(b)
      /\ \A i \in 1 .. Len(a) : c[i] = a[i] /\ a[i] \in Nat
      /\ \A i \in 1 .. Len(b) : c[Len(a) + i] = b[i] /\ b[i] \in Nat
  BY <1>1, ConcatProperties, ElementOfSeq, LenProperties
<1>3. \A i \in 1 .. Len(c) : i \in 1 .. Len(a) \/ i - Len(a) \in 1 .. Len(b)
  BY <1>2
<1>4. ASSUME NEW i \in 1 .. Len(c), i \notin 1 .. Len(a) PROVE c[i] = b[i - Len(a)]
  <2>1. PICK j \in 1 .. Len(b) : j = i - Len(a) BY <1>3, <1>4
  <2>2. Len(a) + j = i BY <1>2, <2>1
  <2> QED BY <1>2, <2>1, <2>2
<1>5. \A i \in 1 .. Len(b) : Len(a) + i \in 1 .. Len(c) BY <1>2
<1>6. \A i \in 1 .. Len(a) : i \in 1 .. Len(c) BY <1>2
<1>7. FramesOf(c) = FramesOf(a) \cup FramesOf(b)
  <2>1. \A i \in 1 .. Len(c) : c[i] \in FramesOf(a) \cup FramesOf(b)
    BY <1>2, <1>3, <1>4 DEF FramesOf
  <2>2. \A i \in 1 .. Len(a) : a[i] \in FramesOf(c) BY <1>2, <1>6 DEF FramesOf
  <2>3. \A i \in 1 .. Len(b) : b[i] \in FramesOf(c)
    <3> TAKE i \in 1 .. Len(b)
    <3>1. c[Len(a) + i] \in FramesOf(c) BY <1>5 DEF FramesOf
    <3> QED BY <1>2, <3>1
  <2> QED BY ONLY <2>1, <2>2, <2>3 DEF FramesOf
<1>8. ASSUME Rising(c) PROVE Rising(a) /\ Rising(b) /\ \A x \in FramesOf(a), y \in FramesOf(b) : x < y
  <2>1. Rising(a) BY <1>2, <1>6, <1>8 DEF Rising
  <2>2. \A i, j \in 1 .. Len(b) : i < j => Len(a) + i < Len(a) + j BY <1>2
  <2>3. Rising(b) BY <1>2, <1>5, <1>8, <2>2 DEF Rising
  <2>4. \A i \in 1 .. Len(a), j \in 1 .. Len(b) : i < Len(a) + j BY <1>2
  <2>5. \A i \in 1 .. Len(a), j \in 1 .. Len(b) : a[i] < b[j] BY <1>2, <1>5, <1>6, <1>8, <2>4 DEF Rising
  <2> QED BY <2>1, <2>3, <2>5 DEF FramesOf
<1>9. ASSUME Rising(a), Rising(b), \A x \in FramesOf(a), y \in FramesOf(b) : x < y PROVE Rising(c)
  <2> SUFFICES ASSUME NEW i \in 1 .. Len(c), NEW j \in 1 .. Len(c), i < j PROVE c[i] < c[j]
    BY DEF Rising
  <2>1. CASE j \in 1 .. Len(a)
    <3>1. i \in 1 .. Len(a) BY <1>2, <2>1
    <3> QED BY <1>2, <1>9, <2>1, <3>1 DEF Rising
  <2>2. CASE j \notin 1 .. Len(a) /\ i \in 1 .. Len(a)
    <3>1. c[j] \in FramesOf(b) /\ c[i] \in FramesOf(a) BY <1>2, <1>3, <1>4, <2>2 DEF FramesOf
    <3> QED BY <1>9, <3>1
  <2>3. CASE j \notin 1 .. Len(a) /\ i \notin 1 .. Len(a)
    <3>1. i - Len(a) < j - Len(a) BY <1>2
    <3> QED BY <1>3, <1>4, <1>9, <2>3, <3>1 DEF Rising
  <2> QED BY <2>1, <2>2, <2>3
<1> QED BY <1>1, <1>7, <1>8, <1>9

\* Audio that is dropped from within the line.
LEMMA DroppedFrames ==
  ASSUME NEW a \in Seq(Nat), NEW x \in Seq(Nat), NEW b \in Seq(Nat), NEW d \in Seq(Nat), NEW h \in Nat,
         AllHeard(a \o (x \o b), d, h)
  PROVE  AllHeard(a \o b, d \o x, h)
<1>1. /\ x \o b \in Seq(Nat) /\ FramesOf(x \o b) = FramesOf(x) \cup FramesOf(b)
      /\ Rising(x \o b) => Rising(b) /\ \A y \in FramesOf(x), z \in FramesOf(b) : y < z
  BY JoinedFrames
<1>2. PICK q \in Seq(Nat) : q = x \o b BY <1>1
<1>3. /\ FramesOf(a \o q) = FramesOf(a) \cup FramesOf(q)
      /\ Rising(a \o q) => Rising(a) /\ Rising(q) /\ \A y \in FramesOf(a), z \in FramesOf(q) : y < z
  BY JoinedFrames
<1>4. /\ FramesOf(a \o b) = FramesOf(a) \cup FramesOf(b)
      /\ (Rising(a) /\ Rising(b) /\ \A y \in FramesOf(a), z \in FramesOf(b) : y < z) => Rising(a \o b)
  BY JoinedFrames
<1>5. FramesOf(d \o x) = FramesOf(d) \cup FramesOf(x) BY JoinedFrames
<1>6. AllHeard(a \o q, d, h) BY <1>2
<1>7. \A y \in FramesOf(x) : y \in Nat /\ ~(y < y) BY ElementOfSeq DEF FramesOf
<1>8. FramesOf(x) \cap FramesOf(a) = {} /\ FramesOf(x) \cap FramesOf(b) = {}
  BY <1>1, <1>2, <1>3, <1>6, <1>7 DEF AllHeard
<1>9. Rising(a \o b) BY <1>1, <1>2, <1>3, <1>4, <1>6 DEF AllHeard
<1> QED BY <1>1, <1>2, <1>3, <1>4, <1>5, <1>6, <1>8, <1>9 DEF AllHeard

\* Audio that is heard.
LEMMA HeardFrame ==
  ASSUME NEW q \in Seq(Nat), NEW d \in Seq(Nat), NEW h \in Nat, AllHeard(q, d, h)
  PROVE  AllHeard(q \o <<h + 1>>, d, h + 1)
<1>1. PICK n \in Nat : n = h + 1 OBVIOUS
<1>0. <<n>> \in Seq(Nat) OBVIOUS
<1>2. PICK f \in Seq(Nat) : f = <<n>> BY <1>0
<1>3. FramesOf(f) = {n} /\ Rising(f) BY <1>2 DEF FramesOf, Rising
<1>4. /\ FramesOf(q \o f) = FramesOf(q) \cup FramesOf(f)
      /\ (Rising(q) /\ Rising(f) /\ \A y \in FramesOf(q), z \in FramesOf(f) : y < z) => Rising(q \o f)
  BY JoinedFrames
<1>5. \A y \in 1 .. h : y < n BY <1>1
<1>6. n \notin 1 .. h /\ 1 .. n = (1 .. h) \cup {n} BY <1>1
<1>7. Rising(q \o f) BY <1>3, <1>4, <1>5 DEF AllHeard
<1> QED BY <1>1, <1>2, <1>3, <1>4, <1>6, <1>7 DEF AllHeard

-----------------------------------------------------------------------------
\* What happens to one connection.
LEMMA ConnAt ==
  ASSUME NEW s \in Streams, NEW c \in 1 .. Last(s), NEW r \in Streams, NEW conn \in AsrConns,
         r.conns = [s.conns EXCEPT ![c] = conn]
  PROVE  /\ Last(r) = Last(s)
         /\ Open(r) = IF conn.open THEN Open(s) \cup {c} ELSE Open(s) \ {c}
         /\ Fed(r) = IF conn.fed THEN Fed(s) \cup {c} ELSE Fed(s) \ {c}
         /\ Lit(r) = IF conn.line THEN Lit(s) \cup {c} ELSE Lit(s) \ {c}
<1>1. PICK q \in Seq(AsrConns) : q = s.conns BY DEF Streams
<1>2. PICK p \in Seq(AsrConns) : p = r.conns BY DEF Streams
<1>3. Len(p) = Len(q) /\ \A d \in 1 .. Len(q) : p[d] = IF d = c THEN conn ELSE q[d]
  BY <1>1, <1>2 DEF Last
<1> QED BY <1>1, <1>2, <1>3 DEF Last, Open, Fed, Lit

\* A connection is closed.
LEMMA ConnClosed ==
  ASSUME NEW s \in Streams, NEW c \in 1 .. Last(s)
  PROVE  LET r == CloseConn(s, c)
         IN /\ r \in Streams /\ SameParts(r, s) /\ SameMode(r, s) /\ SameAudio(r, s)
            /\ Last(r) = Last(s) /\ Fed(r) = Fed(s) /\ Lit(r) = Lit(s) /\ Open(r) = Open(s) \ {c}
<1>1. PICK q \in Seq(AsrConns) : q = s.conns BY DEF Streams
<1>2. q[c] \in AsrConns BY <1>1, ElementOfSeq DEF Last
<1>3. PICK conn \in AsrConns : conn = [q[c] EXCEPT !.open = FALSE] BY <1>2 DEF AsrConns
<1>4. conn.open = FALSE /\ conn.fed = q[c].fed /\ conn.line = q[c].line BY ONLY <1>2, <1>3 DEF AsrConns
<1>5. PICK p \in Seq(AsrConns) : p = [q EXCEPT ![c] = conn] BY <1>1, ExceptSeq DEF Last
<1>6. CloseConn(s, c) = [s EXCEPT !.conns = p] BY <1>1, <1>3, <1>5 DEF CloseConn, Streams
<1>7. PICK r : r = [s EXCEPT !.conns = p] OBVIOUS
<1>8. r \in Streams /\ r.conns = p /\ SameParts(r, s) /\ SameMode(r, s) /\ SameAudio(r, s)
  BY ONLY s \in Streams, p \in Seq(AsrConns), <1>7 DEF Streams, SameParts, SameMode, SameAudio
<1>9. c \in Fed(s) <=> conn.fed BY <1>1, <1>4 DEF Fed
<1>10. c \in Lit(s) <=> conn.line BY <1>1, <1>4 DEF Lit
<1>11. /\ Last(r) = Last(s) /\ Open(r) = IF conn.open THEN Open(s) \cup {c} ELSE Open(s) \ {c}
       /\ Fed(r) = IF conn.fed THEN Fed(s) \cup {c} ELSE Fed(s) \ {c}
       /\ Lit(r) = IF conn.line THEN Lit(s) \cup {c} ELSE Lit(s) \ {c}
  BY <1>1, <1>5, <1>8, ConnAt
<1> QED BY <1>4, <1>6, <1>7, <1>8, <1>9, <1>10, <1>11

\* The line of a connection gets its final.
LEMMA LineFlushed ==
  ASSUME NEW s \in Streams, NEW c \in 1 .. Last(s)
  PROVE  LET r == FlushedLine(s, c)
         IN /\ r \in Streams /\ SameParts(r, s) /\ SameMode(r, s) /\ SameAudio(r, s)
            /\ Last(r) = Last(s) /\ Fed(r) = Fed(s) /\ Open(r) = Open(s) /\ Lit(r) = Lit(s) \ {c}
<1>1. PICK q \in Seq(AsrConns) : q = s.conns BY DEF Streams
<1>2. q[c] \in AsrConns BY <1>1, ElementOfSeq DEF Last
<1>3. PICK conn \in AsrConns : conn = [q[c] EXCEPT !.line = FALSE, !.flushed = TRUE]
  BY <1>2 DEF AsrConns
<1>4. conn.line = FALSE /\ conn.fed = q[c].fed /\ conn.open = q[c].open BY ONLY <1>2, <1>3 DEF AsrConns
<1>5. PICK p \in Seq(AsrConns) : p = [q EXCEPT ![c] = conn] BY <1>1, ExceptSeq DEF Last
<1>6. CASE q[c].line
  <2>1. FlushedLine(s, c) = [s EXCEPT !.conns = p]
    BY <1>1, <1>3, <1>5, <1>6 DEF FlushedLine, Streams
  <2>2. PICK r : r = [s EXCEPT !.conns = p] OBVIOUS
  <2>3. r \in Streams /\ r.conns = p /\ SameParts(r, s) /\ SameMode(r, s) /\ SameAudio(r, s)
    BY ONLY s \in Streams, p \in Seq(AsrConns), <2>2 DEF Streams, SameParts, SameMode, SameAudio
  <2>4. c \in Fed(s) <=> conn.fed BY <1>1, <1>4 DEF Fed
  <2>5. c \in Open(s) <=> conn.open BY <1>1, <1>4 DEF Open
  <2>6. /\ Last(r) = Last(s) /\ Open(r) = IF conn.open THEN Open(s) \cup {c} ELSE Open(s) \ {c}
        /\ Fed(r) = IF conn.fed THEN Fed(s) \cup {c} ELSE Fed(s) \ {c}
        /\ Lit(r) = IF conn.line THEN Lit(s) \cup {c} ELSE Lit(s) \ {c}
    BY <1>1, <1>5, <2>3, ConnAt
  <2> QED BY <1>4, <2>1, <2>2, <2>3, <2>4, <2>5, <2>6
<1>7. CASE ~q[c].line
  <2>1. FlushedLine(s, c) = s BY <1>1, <1>7 DEF FlushedLine
  <2>2. c \notin Lit(s) BY <1>1, <1>7 DEF Lit
  <2> QED BY <2>1, <2>2 DEF SameParts, SameMode, SameAudio
<1> QED BY <1>6, <1>7

\* A connection that says more, or is told that there is no more.
Lighting(s, c) == [s EXCEPT !.conns[c].line = TRUE, !.conns[c].flushed = FALSE]
Ending(s, c) == [s EXCEPT !.conns[c].ending = TRUE]
\* Neither changes what parts the connections have.
LEMMA Told ==
  ASSUME NEW s \in Streams, NEW c \in 1 .. Last(s), NEW r,
         r \in {Lighting(s, c), FinalText(s, c), Ending(s, c)}
  PROVE  /\ r \in Streams /\ SameParts(r, s) /\ SameMode(r, s) /\ SameAudio(r, s)
         /\ Last(r) = Last(s) /\ Fed(r) = Fed(s) /\ Open(r) = Open(s) /\ Lit(r) \subseteq Lit(s) \cup {c}
         /\ r \in {FinalText(s, c), Ending(s, c)} => Lit(r) \subseteq Lit(s)
<1>1. PICK q \in Seq(AsrConns) : q = s.conns BY DEF Streams
<1>2. q[c] \in AsrConns BY <1>1, ElementOfSeq DEF Last
<1>3. PICK conn \in AsrConns :
        /\ conn.open = q[c].open /\ conn.fed = q[c].fed
        /\ r = [s EXCEPT !.conns = [q EXCEPT ![c] = conn]]
        /\ conn.line => q[c].line \/ r \notin {FinalText(s, c), Ending(s, c)}
  <2>1. CASE r = FinalText(s, c)
    <3>1. PICK conn \in AsrConns : conn = [q[c] EXCEPT !.line = FALSE, !.flushed = FALSE]
      BY <1>2 DEF AsrConns
    <3>2. conn.open = q[c].open /\ conn.fed = q[c].fed /\ ~conn.line BY ONLY <1>2, <3>1 DEF AsrConns
    <3>4. PICK p \in Seq(AsrConns) : p = [q EXCEPT ![c] = conn] BY <1>1, ExceptSeq DEF Last
    <3>5. r = [s EXCEPT !.conns = p]
      <4>1. s.conns = q /\ s = [s EXCEPT !.conns = q] BY <1>1 DEF Streams
      <4>2. r = [s EXCEPT !.conns = [[q EXCEPT ![c].line = FALSE] EXCEPT ![c].flushed = FALSE]]
        <5>1. PICK a : a = [q EXCEPT ![c].line = FALSE] OBVIOUS
        <5>2. PICK b : b = [s EXCEPT !.conns[c].line = FALSE] OBVIOUS
        <5>3. b = [s EXCEPT !.conns = a] /\ b.conns = a BY <1>1, <5>1, <5>2 DEF Streams
        <5>4. r = [b EXCEPT !.conns[c].flushed = FALSE] BY <2>1, <5>2 DEF FinalText, Lighting
        <5>5. r = [b EXCEPT !.conns = [a EXCEPT ![c].flushed = FALSE]] BY <5>3, <5>4
        <5>6. PICK t : t = [a EXCEPT ![c].flushed = FALSE] OBVIOUS
        <5>7. [[s EXCEPT !.conns = a] EXCEPT !.conns = t] = [s EXCEPT !.conns = t]
          BY ONLY s \in Streams DEF Streams
        <5> QED BY <5>1, <5>3, <5>5, <5>6, <5>7
      <4>3. [[q EXCEPT ![c].line = FALSE] EXCEPT ![c].flushed = FALSE] = p
        BY <1>2, <3>1, <3>4 DEF Last
      <4> QED BY <4>2, <4>3
    <3>3. r = [s EXCEPT !.conns = [q EXCEPT ![c] = conn]] BY <3>4, <3>5
    <3> QED BY <3>2, <3>3
  <2>2. CASE r = Ending(s, c)
    <3>1. PICK conn \in AsrConns : conn = [q[c] EXCEPT !.ending = TRUE]
      BY <1>2 DEF AsrConns
    <3>2. conn.open = q[c].open /\ conn.fed = q[c].fed /\ conn.line = q[c].line
      BY ONLY <1>2, <3>1 DEF AsrConns
    <3>3. r = [s EXCEPT !.conns = [q EXCEPT ![c] = conn]] BY <1>1, <2>2, <3>1 DEF Ending, Streams
    <3> QED BY <3>2, <3>3
  <2>3. CASE r = Lighting(s, c) /\ r \notin {FinalText(s, c), Ending(s, c)}
    <3>1. PICK conn \in AsrConns : conn = [q[c] EXCEPT !.line = TRUE, !.flushed = FALSE]
      BY <1>2 DEF AsrConns
    <3>2. conn.open = q[c].open /\ conn.fed = q[c].fed BY ONLY <1>2, <3>1 DEF AsrConns
    <3>4. PICK p \in Seq(AsrConns) : p = [q EXCEPT ![c] = conn] BY <1>1, ExceptSeq DEF Last
    <3>5. r = [s EXCEPT !.conns = p]
      <4>1. s.conns = q /\ s = [s EXCEPT !.conns = q] BY <1>1 DEF Streams
      <4>2. r = [s EXCEPT !.conns = [[q EXCEPT ![c].line = TRUE] EXCEPT ![c].flushed = FALSE]]
        <5>1. PICK a : a = [q EXCEPT ![c].line = TRUE] OBVIOUS
        <5>2. PICK b : b = [s EXCEPT !.conns[c].line = TRUE] OBVIOUS
        <5>3. b = [s EXCEPT !.conns = a] /\ b.conns = a BY <1>1, <5>1, <5>2 DEF Streams
        <5>4. r = [b EXCEPT !.conns[c].flushed = FALSE] BY <2>3, <5>2 DEF FinalText, Lighting
        <5>5. r = [b EXCEPT !.conns = [a EXCEPT ![c].flushed = FALSE]] BY <5>3, <5>4
        <5>6. PICK t : t = [a EXCEPT ![c].flushed = FALSE] OBVIOUS
        <5>7. [[s EXCEPT !.conns = a] EXCEPT !.conns = t] = [s EXCEPT !.conns = t]
          BY ONLY s \in Streams DEF Streams
        <5> QED BY <5>1, <5>3, <5>5, <5>6, <5>7
      <4>3. [[q EXCEPT ![c].line = TRUE] EXCEPT ![c].flushed = FALSE] = p
        BY <1>2, <3>1, <3>4 DEF Last
      <4> QED BY <4>2, <4>3
    <3>3. r = [s EXCEPT !.conns = [q EXCEPT ![c] = conn]] BY <3>4, <3>5
    <3> QED BY <2>3, <3>2, <3>3
  <2> QED BY <2>1, <2>2, <2>3
<1>4. PICK p \in Seq(AsrConns) : p = [q EXCEPT ![c] = conn] BY <1>1, ExceptSeq DEF Last
<1>5. r = [s EXCEPT !.conns = p] BY <1>1, <1>3, <1>4 DEF Streams
<1>6. r \in Streams /\ r.conns = p /\ SameParts(r, s) /\ SameMode(r, s) /\ SameAudio(r, s)
  BY ONLY s \in Streams, p \in Seq(AsrConns), <1>5 DEF Streams, SameParts, SameMode, SameAudio
<1>7. c \in Fed(s) <=> conn.fed BY <1>1, <1>3 DEF Fed
<1>8. c \in Open(s) <=> conn.open BY <1>1, <1>3 DEF Open
<1>9. c \in Lit(s) <=> q[c].line BY <1>1 DEF Lit
<1>10. /\ Last(r) = Last(s) /\ Open(r) = IF conn.open THEN Open(s) \cup {c} ELSE Open(s) \ {c}
       /\ Fed(r) = IF conn.fed THEN Fed(s) \cup {c} ELSE Fed(s) \ {c}
       /\ Lit(r) = IF conn.line THEN Lit(s) \cup {c} ELSE Lit(s) \ {c}
  BY <1>1, <1>4, <1>6, ConnAt
<1> QED BY ZenonT(40), <1>3, <1>6, <1>7, <1>8, <1>9, <1>10

\* The end of the stream.
LEMMA Finished ==
  ASSUME NEW s \in Streams, {s.cur, s.next, s.old} \subseteq 0 .. Last(s)
  PROVE  LET r == Finish(s)
         IN /\ r \in Streams /\ SameParts(r, s) /\ SameAudio(r, s) /\ r.over
            /\ r.dial = s.dial /\ r.ended = s.ended
            /\ Last(r) = Last(s) /\ Fed(r) = Fed(s)
            /\ Lit(r) = Lit(s) \ {s.cur, s.old} /\ Open(r) = Open(s) \ {s.cur, s.next, s.old}
<1>1. PICK q \in Seq(AsrConns) : q = s.conns BY DEF Streams
<1>2. Len(q) \in Nat /\ DOMAIN q = 1 .. Len(q) /\ \A c \in 1 .. Len(q) : q[c] \in AsrConns
  BY ElementOfSeq, LenProperties
<1>3. PICK f : f = [c \in DOMAIN q |->
                      IF c \in {s.cur, s.old} THEN [q[c] EXCEPT !.line = FALSE] ELSE q[c]]
  OBVIOUS
<1>4. \A c \in 1 .. Len(q) :
        /\ f[c] \in AsrConns /\ f[c].open = q[c].open /\ f[c].fed = q[c].fed
        /\ f[c].line <=> q[c].line /\ c \notin {s.cur, s.old}
  BY <1>2, <1>3 DEF AsrConns
<1>5. PICK p : p = [c \in DOMAIN f |-> IF c \in Owned(s) THEN [f[c] EXCEPT !.open = FALSE] ELSE f[c]]
  OBVIOUS
<1>6. DOMAIN f = 1 .. Len(q) /\ DOMAIN p = 1 .. Len(q) BY <1>2, <1>3, <1>5
<1>7. \A c \in 1 .. Len(q) :
        /\ p[c] \in AsrConns /\ p[c].line = f[c].line /\ p[c].fed = f[c].fed
        /\ p[c].open <=> f[c].open /\ c \notin Owned(s)
  BY <1>4, <1>5, <1>6 DEF AsrConns
<1>8. p \in [1 .. Len(q) -> AsrConns] BY <1>5, <1>6, <1>7
<1>9. p \in Seq(AsrConns) /\ Len(p) = Len(q) BY <1>2, <1>8, LenProperties
<1>10. Finish(s) = [s EXCEPT !.over = TRUE, !.conns = p] BY <1>1, <1>3, <1>5 DEF Finish
<1>11. PICK r : r = [s EXCEPT !.over = TRUE, !.conns = p] OBVIOUS
<1>12. /\ r \in Streams /\ r.conns = p /\ r.over /\ SameParts(r, s) /\ SameAudio(r, s)
       /\ r.dial = s.dial /\ r.ended = s.ended
  <2>1. PICK yes \in BOOLEAN : yes = TRUE BY Zenon
  <2>2. r = [s EXCEPT !.over = yes, !.conns = p] BY <1>11, <2>1
  <2>3. /\ r \in Streams /\ r.conns = p /\ r.over = yes /\ SameParts(r, s) /\ SameAudio(r, s)
        /\ r.dial = s.dial /\ r.ended = s.ended
    <3>1. PICK u : u = [s EXCEPT !.over = yes] OBVIOUS
    <3>2. /\ u \in Streams /\ u.over = yes /\ SameParts(u, s) /\ SameAudio(u, s)
          /\ u.dial = s.dial /\ u.ended = s.ended
      BY ONLY s \in Streams, <3>1, yes \in BOOLEAN DEF Streams, SameParts, SameAudio
    <3>3. r = [u EXCEPT !.conns = p] BY <2>2, <3>1
    <3>4. /\ r \in Streams /\ r.conns = p /\ r.over = u.over /\ SameParts(r, u) /\ SameAudio(r, u)
          /\ r.dial = u.dial /\ r.ended = u.ended
      BY ONLY <3>2, <3>3, <1>9 DEF Streams, SameParts, SameAudio
    <3> QED BY <3>2, <3>4 DEF SameParts, SameAudio
  <2> QED BY <2>1, <2>3
<1>13. Last(r) = Last(s) /\ Last(s) = Len(q) BY <1>1, <1>9, <1>12 DEF Last
<1>14. Fed(r) = Fed(s) BY <1>1, <1>4, <1>7, <1>12, <1>13 DEF Fed
<1>15. Lit(r) = Lit(s) \ {s.cur, s.old} BY <1>1, <1>4, <1>7, <1>12, <1>13 DEF Lit
<1>16. Open(r) = Open(s) \ {s.cur, s.next, s.old}
  <2>1. \A c \in 1 .. Len(q) : c \in Owned(s) <=> c \in {s.cur, s.next, s.old}
    BY <1>2 DEF Owned
  <2> QED BY <1>1, <1>4, <1>7, <1>12, <1>13, <2>1 DEF Open
<1> QED BY <1>10, <1>11, <1>12, <1>13, <1>14, <1>15, <1>16

\* A dial that is started, a fault that is counted.
LEMMA Dialing ==
  ASSUME NEW s \in Streams
  PROVE  LET r == StartDial(s)
         IN /\ r \in Streams /\ SameConns(r, s) /\ SameParts(r, s) /\ SameAudio(r, s)
            /\ HandedOver(r) = HandedOver(s) /\ r.ended = s.ended /\ r.over = s.over
<1>1. CASE s.dial = "none"
  <2>1. PICK r : r = [s EXCEPT !.dial = "dialing"] OBVIOUS
  <2>2. r \in Streams /\ r.conns = s.conns /\ SameParts(r, s) /\ SameAudio(r, s)
        /\ r.dial = "dialing" /\ r.ended = s.ended /\ r.over = s.over
    BY ONLY s \in Streams, <2>1 DEF Streams, SameParts, SameAudio
  <2> QED BY <1>1, <2>1, <2>2 DEF StartDial, SameConns, Last, Open, Fed, Lit, HandedOver
<1>2. CASE s.dial # "none" BY <1>2 DEF StartDial, SameConns, SameParts, SameAudio
<1> QED BY <1>1, <1>2

\* A send, a receive or a dial that fails is counted.
LEMMA Fails ==
  ASSUME NEW s \in Streams
  PROVE  LET r == Failing(s)
         IN r \in Streams /\ SameConns(r, s) /\ SameParts(r, s) /\ SameAudio(r, s) /\ SameMode(r, s)
<1>1. PICK n \in Int : n = s.fails - 1 BY DEF Streams
<1>2. PICK r : r = [s EXCEPT !.fails = n] OBVIOUS
<1>3. r \in Streams /\ r.conns = s.conns /\ SameParts(r, s) /\ SameAudio(r, s) /\ SameMode(r, s)
  BY ONLY s \in Streams, <1>2, n \in Int DEF Streams, SameParts, SameAudio, SameMode
<1>4. Failing(s) = r BY <1>1, <1>2 DEF Failing, Streams
<1> QED BY <1>3, <1>4 DEF SameConns, Last, Open, Fed, Lit

\* The connections whose stream goes on with others.
LEMMA Retired ==
  ASSUME NEW s \in Streams, s.old \in 1 .. Last(s)
  PROVE  LET r == Retire(s)
         IN /\ r \in Streams /\ SameMode(r, s) /\ SameAudio(r, s)
            /\ r.cur = s.cur /\ r.next = s.next /\ r.old = 0
            /\ Last(r) = Last(s) /\ Fed(r) = Fed(s)
            /\ Open(r) = Open(s) \ {s.old} /\ Lit(r) = Lit(s) \ {s.old}
<1>1. PICK f \in Streams : f = FlushedLine(s, s.old) BY LineFlushed
<1>2. s.old \in 1 .. Last(f) BY <1>1, LineFlushed
<1>3. PICK g \in Streams : g = CloseConn(f, s.old) BY <1>2, ConnClosed
<1>4. /\ SameParts(g, s) /\ SameMode(g, s) /\ SameAudio(g, s) /\ Last(g) = Last(s) /\ Fed(g) = Fed(s)
      /\ Open(g) = Open(s) \ {s.old} /\ Lit(g) = Lit(s) \ {s.old}
  BY <1>1, <1>2, <1>3, LineFlushed, ConnClosed DEF SameParts, SameMode, SameAudio
<1>5. PICK r : r = [g EXCEPT !.old = 0] OBVIOUS
<1>6. r \in Streams /\ r.conns = g.conns /\ r.cur = g.cur /\ r.next = g.next /\ r.old = 0
      /\ SameMode(r, g) /\ SameAudio(r, g)
  BY ONLY <1>5, g \in Streams DEF Streams, SameMode, SameAudio
<1>7. Retire(s) = r BY <1>1, <1>3, <1>5 DEF Retire
<1> QED BY <1>4, <1>6, <1>7 DEF Last, Open, Fed, Lit, SameParts, SameMode, SameAudio

\* The current connection is closed and its line finished.
LEMMA IsDropped ==
  ASSUME NEW s \in Streams, s.cur \in 1 .. Last(s)
  PROVE  LET r == Dropped(s)
         IN /\ r \in Streams /\ SameMode(r, s) /\ SameAudio(r, s)
            /\ r.cur = 0 /\ r.next = s.next /\ r.old = s.old
            /\ Last(r) = Last(s) /\ Fed(r) = Fed(s)
            /\ Open(r) = Open(s) \ {s.cur} /\ Lit(r) = Lit(s) \ {s.cur}
<1>1. PICK f \in Streams : f = CloseConn(s, s.cur) BY ConnClosed
<1>2. s.cur \in 1 .. Last(f) BY <1>1, ConnClosed
<1>3. PICK g \in Streams : g = FlushedLine(f, s.cur) BY <1>2, LineFlushed
<1>4. /\ SameParts(g, s) /\ SameMode(g, s) /\ SameAudio(g, s) /\ Last(g) = Last(s) /\ Fed(g) = Fed(s)
      /\ Open(g) = Open(s) \ {s.cur} /\ Lit(g) = Lit(s) \ {s.cur}
  BY <1>1, <1>2, <1>3, LineFlushed, ConnClosed DEF SameParts, SameMode, SameAudio
<1>5. PICK r : r = [g EXCEPT !.cur = 0] OBVIOUS
<1>6. r \in Streams /\ r.conns = g.conns /\ r.cur = 0 /\ r.next = g.next /\ r.old = g.old
      /\ SameMode(r, g) /\ SameAudio(r, g)
  BY ONLY <1>5, g \in Streams DEF Streams, SameMode, SameAudio
<1>7. Dropped(s) = r BY <1>1, <1>3, <1>5 DEF Dropped
<1> QED BY <1>4, <1>6, <1>7 DEF Last, Open, Fed, Lit, SameParts, SameMode, SameAudio

-----------------------------------------------------------------------------
\* What has the same connections in the same parts.
LEMMA PartedSame ==
  ASSUME NEW s, NEW r, Parted(s), SameConns(r, s), SameParts(r, s),
         HandedOver(r) = HandedOver(s), r.over = s.over
  PROVE  Parted(r)
BY DEF Parted, SameConns, SameParts

\* The dialler hands over what it did.
LEMMA SameHandedOver == ASSUME NEW s, NEW r, Last(r) = Last(s), r.dial = s.dial PROVE HandedOver(r) = HandedOver(s)
BY DEF HandedOver

\* The end of a sound stream.
LEMMA FinishKeeps ==
  ASSUME NEW s \in Streams, Parted(s)
  PROVE  LET r == Finish(s) IN r \in Streams /\ Parted(r) /\ r.over /\ SameParts(r, s) /\ SameAudio(r, s)
<1>1. {s.cur, s.next, s.old} \subseteq 0 .. Last(s) BY DEF Parted
<1>2. PICK r \in Streams : r = Finish(s) BY <1>1, Finished
<1>3. /\ SameParts(r, s) /\ SameAudio(r, s) /\ r.over
      /\ r.dial = s.dial /\ Last(r) = Last(s) /\ Fed(r) = Fed(s)
      /\ Lit(r) = Lit(s) \ {s.cur, s.old} /\ Open(r) = Open(s) \ {s.cur, s.next, s.old}
  BY <1>1, <1>2, Finished
<1>4. HandedOver(r) = HandedOver(s) BY <1>3, SameHandedOver
<1>5. Lit(r) = {} BY <1>3 DEF Parted
<1>6. Parted(r) BY <1>3, <1>4, <1>5 DEF Parted, SameParts
<1> QED BY <1>2, <1>3, <1>6

\* The audio of a stream, wherever it is.
LEMMA SameLine == ASSUME NEW s, NEW r, SameAudio(r, s) PROVE AudioLine(r) = AudioLine(s)
BY DEF SameAudio, AudioLine

\* Audio regrouped.
LEMMA Regrouped ==
  ASSUME NEW a \in Seq(Nat), NEW b \in Seq(Nat), NEW c \in Seq(Nat)
  PROVE  /\ a \o b \o c = a \o (b \o c) /\ a \o (b \o c) \in Seq(Nat) /\ b \o c \in Seq(Nat)
         /\ a \o <<>> = a /\ <<>> \o a = a /\ <<>> \in Seq(Nat)
<1>1. b \o c \in Seq(Nat) BY ConcatProperties
<1>2. a \o (b \o c) \in Seq(Nat) BY <1>1, ConcatProperties
<1>3. (a \o b) \o c = a \o (b \o c) BY SMTT(30), ConcatAssociative
<1>4. a \o <<>> = a /\ <<>> \o a = a BY ConcatEmptySeq
<1> QED BY <1>1, <1>2, <1>3, <1>4

\* Audio regrouped, for all of it at once.
LEMMA AudioJoins == \A a, b, c \in Seq(Nat) : (a \o b) \o c = a \o (b \o c)
BY SMTT(30), Regrouped

\* The audio of a stream, part by part.
LEMMA LineOf ==
  ASSUME NEW s \in Streams
  PROVE  /\ s.sent \o <<>> = s.sent /\ AudioLine(s) = s.sent \o (s.batch \o s.buffered)
         /\ s.sent \in Seq(Nat) /\ s.batch \in Seq(Nat) /\ s.buffered \in Seq(Nat)
         /\ AudioLine(s) \in Seq(Nat)
<1>1. s.sent \in Seq(Nat) /\ s.batch \in Seq(Nat) /\ s.buffered \in Seq(Nat) BY DEF Streams
<1>2. \A a \in Seq(Nat), b \in Seq(Nat), c \in Seq(Nat) :
        a \o b \o c = a \o (b \o c) /\ a \o <<>> = a /\ a \o (b \o c) \in Seq(Nat)
  BY SMTT(30), Regrouped
<1>3. PICK a : a = s.sent OBVIOUS
<1>4. PICK b : b = s.batch OBVIOUS
<1>5. PICK c : c = s.buffered OBVIOUS
<1>6. a \in Seq(Nat) /\ b \in Seq(Nat) /\ c \in Seq(Nat) BY <1>1, <1>3, <1>4, <1>5
<1>7. a \o b \o c = a \o (b \o c) /\ a \o <<>> = a /\ a \o (b \o c) \in Seq(Nat)
  BY ONLY <1>2, <1>6
<1> QED BY <1>1, <1>3, <1>4, <1>5, <1>7 DEF AudioLine

\* A connection is lost, and none takes over.
LEMMA LostKeeps ==
  ASSUME NEW s \in Streams, Parted(s), s.cur # 0, s.next = 0
  PROVE  LET r == LostAlone(s)
         IN /\ r \in Streams /\ Parted(r) /\ r.cur = 0 /\ r.next = 0 /\ r.old = s.old
            /\ AudioLine(r) = AudioLine(s) /\ r.dropped = s.dropped /\ r.heard = s.heard
            /\ ~r.over => r.batch = <<>>
<1>1. s.cur \in 1 .. Last(s) BY DEF Parted
<1>2. PICK down \in Streams : down = Dropped(s) BY <1>1, IsDropped
<1>3. /\ SameMode(down, s) /\ SameAudio(down, s) /\ down.cur = 0 /\ down.next = 0 /\ down.old = s.old
      /\ Last(down) = Last(s) /\ Fed(down) = Fed(s)
      /\ Open(down) = Open(s) \ {s.cur} /\ Lit(down) = Lit(s) \ {s.cur}
  BY <1>1, <1>2, IsDropped
<1>4. HandedOver(down) = HandedOver(s) BY <1>3, SameHandedOver DEF SameMode
<1>5. Parted(down) BY <1>3, <1>4 DEF Parted, SameMode
<1>6. PICK q \in Seq(Nat) : q = Unsent(s) BY Regrouped DEF Streams, Unsent
<1>7. PICK kept : kept = [down EXCEPT !.buffered = q, !.batch = <<>>, !.retries = 0] OBVIOUS
<1>8. /\ kept \in Streams /\ kept.conns = down.conns /\ SameParts(kept, down) /\ SameMode(kept, down)
      /\ kept.sent = down.sent /\ kept.batch = <<>> /\ kept.buffered = q
      /\ kept.dropped = down.dropped /\ kept.heard = down.heard
  <2>1. PICK e \in Seq(Nat) : e = <<>> BY Regrouped
  <2>2. PICK z \in Nat : z = 0 OBVIOUS
  <2>3. kept = [down EXCEPT !.buffered = q, !.batch = e, !.retries = z] BY <1>7, <2>1, <2>2
  <2>4. /\ kept \in Streams /\ kept.conns = down.conns /\ SameParts(kept, down) /\ SameMode(kept, down)
        /\ kept.sent = down.sent /\ kept.batch = e /\ kept.buffered = q
        /\ kept.dropped = down.dropped /\ kept.heard = down.heard
    BY ONLY <2>3, down \in Streams, q \in Seq(Nat), e \in Seq(Nat), z \in Nat
       DEF Streams, SameParts, SameMode
  <2> QED BY <2>1, <2>4
<1>9. SameConns(kept, down) BY <1>8 DEF SameConns, Last, Open, Fed, Lit
<1>10. Parted(kept)
  <2>1. HandedOver(kept) = HandedOver(down) BY <1>8, <1>9, SameHandedOver DEF SameConns, SameMode
  <2> QED BY <1>5, <1>8, <1>9, <2>1, PartedSame DEF SameMode
<1>11. AudioLine(kept) = AudioLine(s)
  <2>1. AudioLine(kept) = s.sent \o <<>> \o q BY <1>3, <1>8 DEF AudioLine, SameAudio
  <2>2. s.sent \o <<>> = s.sent /\ AudioLine(s) = s.sent \o (s.batch \o s.buffered) BY LineOf
  <2> QED BY <1>6, <2>1, <2>2 DEF Unsent
<1>12. CASE LostAlone(s) = Finish(down)
  <2>1. AudioLine(Finish(down)) = AudioLine(down) BY <1>5, FinishKeeps, SameLine
  <2>2. AudioLine(down) = AudioLine(s) BY <1>3, SameLine
  <2> QED BY <1>3, <1>5, <1>12, <2>1, <2>2, FinishKeeps DEF SameParts, SameAudio
<1>13. CASE LostAlone(s) = Finish(kept)
  <2>1. AudioLine(Finish(kept)) = AudioLine(kept) BY <1>8, <1>10, FinishKeeps, SameLine
  <2> QED BY <1>3, <1>8, <1>10, <1>11, <1>13, <2>1, FinishKeeps DEF SameParts, SameAudio
<1>14. CASE LostAlone(s) = StartDial(kept)
  <2>1. PICK r \in Streams : r = StartDial(kept) BY <1>8, Dialing
  <2>2. /\ SameConns(r, kept) /\ SameParts(r, kept) /\ SameAudio(r, kept)
        /\ HandedOver(r) = HandedOver(kept) /\ r.over = kept.over
    BY <1>8, <2>1, Dialing
  <2>3. Parted(r) BY <1>10, <2>2, PartedSame
  <2>4. AudioLine(r) = AudioLine(kept) BY <2>2, SameLine
  <2> QED BY <1>3, <1>8, <1>11, <1>14, <2>1, <2>2, <2>3, <2>4 DEF SameParts, SameAudio
<1>15. LostAlone(s) \in {Finish(down), Finish(kept), StartDial(kept)}
  BY <1>2, <1>6, <1>7 DEF LostAlone
<1> QED BY <1>12, <1>13, <1>14, <1>15

\* A sound stream without a rotation's connection that loses the one it has.
LEMMA LostSound ==
  ASSUME NEW s, AsrSound(s), s.cur # 0, s.next = 0
  PROVE  LET r == LostAlone(s) IN AsrSound(r) /\ r.cur = 0 /\ r.next = 0 /\ r.old = s.old
BY LostKeeps DEF AsrSound, Batched

\* A fault leaves a stream sound.
LEMMA FailsSound ==
  ASSUME NEW s, AsrSound(s)
  PROVE  LET r == Failing(s)
         IN AsrSound(r) /\ SameConns(r, s) /\ SameParts(r, s) /\ SameMode(r, s) /\ SameAudio(r, s)
<1>1. PICK r \in Streams : r = Failing(s) BY Fails DEF AsrSound
<1>2. SameConns(r, s) /\ SameParts(r, s) /\ SameAudio(r, s) /\ SameMode(r, s)
  BY <1>1, Fails DEF AsrSound
<1>3. HandedOver(r) = HandedOver(s) BY <1>2, SameHandedOver DEF SameConns, SameMode
<1>4. Parted(r) BY <1>2, <1>3, PartedSame DEF AsrSound, SameMode
<1>5. AudioLine(r) = AudioLine(s) BY <1>2, SameLine
<1> QED BY <1>1, <1>2, <1>4, <1>5 DEF AsrSound, SameAudio, SameParts, SameMode, Batched

\* A stream that differs from a sound one in nothing that soundness speaks of.
LEMMA SoundSame ==
  ASSUME NEW s, AsrSound(s), NEW r \in Streams, Last(r) = Last(s), Open(r) = Open(s), Fed(r) = Fed(s),
         Lit(r) \subseteq Lit(s), SameParts(r, s), SameAudio(r, s),
         HandedOver(r) = HandedOver(s), r.over = s.over
  PROVE  AsrSound(r)
<1>1. Parted(r) BY DEF AsrSound, Parted, SameParts
<1>2. AudioLine(r) = AudioLine(s) BY SameLine
<1> QED BY <1>1, <1>2 DEF AsrSound, SameAudio, SameParts, Batched

\* The end of the input is told to the connection, or that is lost.
LEMMA EndSound ==
  ASSUME NEW s, AsrSound(s), s.next = 0, NEW r \in EndAlone(s)
  PROVE  AsrSound(r) /\ r.next = 0 /\ r.cur \in {0, s.cur} /\ r.old = s.old
<1>0. s \in Streams BY DEF AsrSound
<1>1. CASE r = s BY <1>1
<1>2. CASE s.cur # 0 /\ r = [s EXCEPT !.conns[s.cur].ending = TRUE]
  <2>1. s.cur \in 1 .. Last(s) BY <1>2 DEF AsrSound, Parted
  <2>2. PICK c \in 1 .. Last(s) : c = s.cur BY <2>1
  <2>3. r = Ending(s, c) BY <1>2, <2>2 DEF Ending
  <2>4. /\ r \in Streams /\ SameParts(r, s) /\ SameMode(r, s) /\ SameAudio(r, s)
        /\ Last(r) = Last(s) /\ Fed(r) = Fed(s) /\ Open(r) = Open(s) /\ Lit(r) \subseteq Lit(s)
    BY <1>0, <2>3, Told
  <2>5. HandedOver(r) = HandedOver(s) BY <2>4, SameHandedOver DEF SameMode
  <2>6. AsrSound(r) BY <2>4, <2>5, SoundSame DEF SameMode
  <2> QED BY <2>4, <2>6 DEF SameParts
<1>3. CASE s.cur # 0 /\ r = LostAlone(Failing(s))
  <2>1. PICK f : f = Failing(s) OBVIOUS
  <2>2. AsrSound(f) /\ SameParts(f, s) BY <2>1, FailsSound
  <2>3. f.cur # 0 /\ f.next = 0 /\ f.old = s.old BY <1>3, <2>2 DEF SameParts
  <2>4. AsrSound(LostAlone(f)) /\ LostAlone(f).cur = 0 /\ LostAlone(f).next = 0 /\ LostAlone(f).old = f.old
    BY <2>2, <2>3, LostSound
  <2> QED BY <1>3, <2>1, <2>3, <2>4
<1> QED BY <1>1, <1>2, <1>3 DEF EndAlone

-----------------------------------------------------------------------------
\* Audio is buffered, and the oldest of it dropped.
LEMMA Piece ==
  ASSUME NEW q \in Seq(Nat), NEW m \in Nat, NEW j \in Nat, 1 <= m, m <= j + 1, j <= Len(q)
  PROVE  /\ SubSeq(q, m, j) \in Seq(Nat) /\ Len(SubSeq(q, m, j)) = j - m + 1
         /\ \A x \in 1 .. j - m + 1 : SubSeq(q, m, j)[x] = q[m + x - 1]
<1>1. Len(q) \in Nat BY LenProperties
<1>2. \A n \in m .. j : n \in 1 .. Len(q) BY <1>1
<1>3. \A n \in m .. j : q[n] \in Nat BY <1>2, ElementOfSeq
<1>4. SubSeq(q, m, j) \in Seq(Nat)
  BY ONLY <1>3, m \in Nat, j \in Nat, SubSeqProperties
<1>5. PICK a \in Seq(Nat) : a = SubSeq(q, m, j) BY <1>4
<1>6. Len(a) = IF m <= j THEN j - m + 1 ELSE 0 BY <1>3, <1>5, SubSeqProperties
<1>7. \A x \in 1 .. j - m + 1 : a[x] = q[m + x - 1] BY <1>3, <1>5, SubSeqProperties
<1>8. ~(m <= j) => j - m + 1 = 0 OBVIOUS
<1> QED BY <1>5, <1>6, <1>7, <1>8

\* Two pieces that meet are one.
LEMMA Pieces ==
  ASSUME NEW q \in Seq(Nat), NEW m \in Nat, NEW j \in Nat, NEW n \in Nat, NEW k \in Nat,
         1 <= m, m <= n, n = j + 1, j <= k, k <= Len(q)
  PROVE  SubSeq(q, m, j) \o SubSeq(q, n, k) = SubSeq(q, m, k)
<1>0. j <= Len(q) /\ m <= j + 1 /\ 1 <= n /\ n <= k + 1 /\ m <= k + 1 BY LenProperties
<1>1. PICK a : a = SubSeq(q, m, j) OBVIOUS
<1>2. a \in Seq(Nat) /\ Len(a) = j - m + 1 /\ \A x \in 1 .. j - m + 1 : a[x] = q[m + x - 1]
  BY <1>0, <1>1, Piece
<1>3. PICK b : b = SubSeq(q, n, k) OBVIOUS
<1>4. b \in Seq(Nat) /\ Len(b) = k - n + 1 /\ \A x \in 1 .. k - n + 1 : b[x] = q[n + x - 1]
  BY <1>0, <1>3, Piece
<1>5. PICK c : c = SubSeq(q, m, k) OBVIOUS
<1>6. c \in Seq(Nat) /\ Len(c) = k - m + 1 /\ \A x \in 1 .. k - m + 1 : c[x] = q[m + x - 1]
  BY <1>0, <1>5, Piece
<1>7. PICK d : d = a \o b OBVIOUS
<1>8. /\ d \in Seq(Nat) /\ Len(d) = Len(a) + Len(b)
      /\ \A x \in 1 .. Len(a) + Len(b) : d[x] = IF x <= Len(a) THEN a[x] ELSE b[x - Len(a)]
  <2>1. PICK u \in Seq(Nat) : u = a BY <1>2
  <2>2. PICK v \in Seq(Nat) : v = b BY <1>4
  <2>3. /\ u \o v \in Seq(Nat) /\ Len(u \o v) = Len(u) + Len(v)
        /\ \A x \in 1 .. Len(u) + Len(v) : (u \o v)[x] = IF x <= Len(u) THEN u[x] ELSE v[x - Len(u)]
    BY ConcatProperties
  <2> QED BY <1>7, <2>1, <2>2, <2>3
<1>9. Len(d) = Len(c) BY <1>2, <1>4, <1>6, <1>8
<1>10. \A x \in 1 .. Len(d) : d[x] = c[x]
  <2> TAKE x \in 1 .. Len(d)
  <2>1. x \in 1 .. k - m + 1 /\ x \in 1 .. Len(a) + Len(b) BY <1>6, <1>8, <1>9
  <2>2. CASE x <= j - m + 1
    <3>1. x \in 1 .. j - m + 1 BY <2>1, <2>2
    <3>2. d[x] = a[x] BY <1>2, <1>8, <2>1, <2>2
    <3> QED BY <1>2, <1>6, <2>1, <3>1, <3>2
  <2>3. CASE ~(x <= j - m + 1)
    <3>1. PICK y \in 1 .. k - n + 1 : y = x - (j - m + 1) BY <2>1, <2>3
    <3>2. n + y - 1 = m + x - 1 BY <2>1, <3>1
    <3>3. d[x] = b[y] BY <1>2, <1>8, <2>3, <3>1
    <3>4. c[x] = q[n + y - 1] BY <1>6, <2>1, <3>2
    <3> QED BY <1>4, <3>3, <3>4
  <2> QED BY <2>2, <2>3
<1>11. c = d
  <2>1. PICK u \in Seq(Nat) : u = c BY <1>6
  <2>2. PICK v \in Seq(Nat) : v = d BY <1>8
  <2>3. Len(v) = Len(u) /\ \A x \in 1 .. Len(v) : v[x] = u[x] BY <1>9, <1>10, <2>1, <2>2
  <2>4. v = u BY <2>3, SeqEqual
  <2> QED BY <2>1, <2>2, <2>4
<1> QED BY <1>1, <1>3, <1>5, <1>7, <1>11

\* The piece that is all of it.
LEMMA Entire == ASSUME NEW q \in Seq(Nat) PROVE SubSeq(q, 1, Len(q)) = q
<1>1. PICK n \in Nat : n = Len(q) BY LenProperties
<1>2. PICK c : c = SubSeq(q, 1, n) OBVIOUS
<1>3. c \in Seq(Nat) /\ Len(c) = n - 1 + 1 /\ \A x \in 1 .. n - 1 + 1 : c[x] = q[1 + x - 1]
  <2>1. 1 \in Nat /\ 1 <= 1 /\ 1 <= n + 1 /\ n <= Len(q) BY <1>1
  <2> QED BY <1>2, <2>1, Piece
<1>4. Len(c) = n /\ \A x \in 1 .. n : c[x] = q[x] BY SMTT(30), <1>3
<1>5. c = q BY <1>1, <1>3, <1>4, SeqEqual
<1> QED BY <1>1, <1>2, <1>5

\* Audio cut in two.
LEMMA CutInTwo ==
  ASSUME NEW q \in Seq(Nat), NEW n \in 0 .. Len(q)
  PROVE  /\ SubSeq(q, 1, n) \in Seq(Nat) /\ SubSeq(q, n + 1, Len(q)) \in Seq(Nat)
         /\ q = SubSeq(q, 1, n) \o SubSeq(q, n + 1, Len(q))
<1>1. PICK k \in Nat : k = Len(q) BY LenProperties
<1>2. PICK m \in Nat : m = n + 1 BY <1>1
<1>3. n \in Nat /\ n <= k /\ k <= Len(q) /\ 1 \in Nat /\ 1 <= m /\ 1 <= n + 1 /\ m <= k + 1 /\ n <= Len(q)
  BY <1>1, <1>2
<1>4. SubSeq(q, 1, n) \in Seq(Nat) BY <1>3, Piece
<1>5. SubSeq(q, m, k) \in Seq(Nat) BY <1>3, Piece
<1>6. SubSeq(q, 1, n) \o SubSeq(q, m, k) = SubSeq(q, 1, k) BY <1>2, <1>3, Pieces
<1> QED BY <1>1, <1>2, <1>4, <1>5, <1>6, Entire

\* No audio is audio.
LEMMA NoAudio == <<>> \in Seq(Nat)
OBVIOUS

\* The oldest audio is dropped from what waits.
LEMMA BufferedLine ==
  ASSUME NEW e, NEW g, NEW q, NEW x, NEW b, NEW d, NEW k \in Nat,
         {e, g, q, x, b, d} \subseteq Seq(Nat), q = x \o b, AllHeard(e \o (g \o q), d, k)
  PROVE  AllHeard((e \o g) \o b, d \o x, k)
<1>1. e \in Seq(Nat) /\ g \in Seq(Nat) /\ q \in Seq(Nat) OBVIOUS
<1>2. x \in Seq(Nat) /\ b \in Seq(Nat) /\ d \in Seq(Nat) OBVIOUS
<1>3. (e \o g) \o q = e \o (g \o q) BY ONLY <1>1, AudioJoins
<1>4. PICK a : a = e \o g OBVIOUS
<1>5. a \in Seq(Nat) BY ONLY <1>1, <1>4, ConcatProperties
<1>6. AllHeard(a \o (x \o b), d, k) BY <1>3, <1>4
<1>7. AllHeard(a \o b, d \o x, k) BY ONLY <1>2, <1>5, <1>6, k \in Nat, DroppedFrames
<1> QED BY <1>4, <1>7

\* What follows the audio of a stream follows what waits in it.
LEMMA LineAndMore ==
  ASSUME NEW s \in Streams, NEW f, f \in Seq(Nat)
  PROVE  AudioLine(s) \o f = s.sent \o (s.batch \o (s.buffered \o f))
<1>1. PICK u : u = s.sent OBVIOUS
<1>2. PICK v : v = s.batch OBVIOUS
<1>3. PICK y : y = s.buffered OBVIOUS
<1>4. u \in Seq(Nat) /\ v \in Seq(Nat) /\ y \in Seq(Nat) /\ f \in Seq(Nat)
  BY <1>1, <1>2, <1>3 DEF Streams
<1>5. PICK z : z = u \o v OBVIOUS
<1>6. z \in Seq(Nat) BY ONLY <1>4, <1>5, ConcatProperties
<1>7. (z \o y) \o f = z \o (y \o f) BY ONLY <1>4, <1>6, AudioJoins
<1>8. y \o f \in Seq(Nat) BY ONLY <1>4, ConcatProperties
<1>9. (u \o v) \o (y \o f) = u \o (v \o (y \o f)) BY ONLY SMTT(30), <1>4, <1>8, AudioJoins
<1> QED BY <1>1, <1>2, <1>3, <1>5, <1>7, <1>9 DEF AudioLine

\* WithBuffered: all audio is still in line or dropped.
LEMMA BufferKeeps ==
  ASSUME NEW s \in Streams, NEW f \in Seq(Nat), AllHeard(AudioLine(s) \o f, s.dropped, s.heard)
  PROVE  LET w == WithBuffered(s, f)
         IN /\ w \in Streams /\ SameConns(w, s) /\ SameParts(w, s) /\ SameMode(w, s)
            /\ w.batch = s.batch /\ AllHeard(AudioLine(w), w.dropped, w.heard)
<1>0. AsrMaxBuffer \in Nat BY AsrAssumption DEF AsrAssumption
<1>1. s.buffered \in Seq(Nat) /\ s.dropped \in Seq(Nat) /\ s.heard \in Nat
  BY DEF Streams
<1>2. PICK q \in Seq(Nat) : q = s.buffered \o f BY <1>1, ConcatProperties
<1>3. PICK n \in 0 .. Len(q) : n = IF Len(q) > AsrMaxBuffer THEN Len(q) - AsrMaxBuffer ELSE 0
  <2>1. PICK l \in Nat : l = Len(q) BY LenProperties
  <2>2. CASE l > AsrMaxBuffer
    <3>1. l - AsrMaxBuffer \in 0 .. l BY <1>0, <2>2
    <3> QED BY <2>1, <2>2, <3>1
  <2>3. CASE ~(l > AsrMaxBuffer)
    <3>1. 0 \in 0 .. l BY <2>1
    <3> QED BY <2>1, <2>3, <3>1
  <2> QED BY <2>2, <2>3
<1>4. PICK x \in Seq(Nat) : x = SubSeq(q, 1, n) BY CutInTwo
<1>5. PICK b \in Seq(Nat) : b = SubSeq(q, n + 1, Len(q)) /\ q = x \o b BY <1>4, CutInTwo
<1>6. PICK d \in Seq(Nat) : d = s.dropped \o x BY <1>1, ConcatProperties
<1>7. PICK w : w = [s EXCEPT !.buffered = b, !.dropped = d] OBVIOUS
<1>8. /\ w \in Streams /\ w.conns = s.conns /\ SameParts(w, s) /\ SameMode(w, s)
      /\ w.sent = s.sent /\ w.batch = s.batch /\ w.buffered = b /\ w.dropped = d /\ w.heard = s.heard
  BY ONLY <1>7, s \in Streams, b \in Seq(Nat), d \in Seq(Nat) DEF Streams, SameParts, SameMode
<1>9. WithBuffered(s, f) = w
  BY <1>2, <1>3, <1>4, <1>5, <1>6, <1>7 DEF WithBuffered, Streams
<1>10. AllHeard(AudioLine(w), w.dropped, w.heard)
  <2>1. {s.sent, s.batch, q, x, b, s.dropped} \subseteq Seq(Nat) /\ s.heard \in Nat BY DEF Streams
  <2>2. AllHeard(s.sent \o (s.batch \o q), s.dropped, s.heard)
    <3>1. AudioLine(s) \o f = s.sent \o (s.batch \o (s.buffered \o f)) BY LineAndMore
    <3> QED BY <1>2, <3>1
  <2>3. AllHeard((s.sent \o s.batch) \o b, s.dropped \o x, s.heard) BY <1>5, <2>1, <2>2, BufferedLine
  <2> QED BY <1>6, <1>8, <2>3 DEF AudioLine
<1>11. SameConns(w, s) BY <1>8 DEF SameConns, Last, Open, Fed, Lit
<1> QED BY <1>8, <1>9, <1>10, <1>11

\* A connection takes audio.
LEMMA Accepting ==
  ASSUME NEW s \in Streams, s.cur \in 1 .. Last(s), NEW f \in Seq(Nat)
  PROVE  LET r == Accepted(s, f)
         IN /\ r \in Streams /\ SameParts(r, s) /\ SameMode(r, s)
            /\ r.sent = s.sent \o f /\ r.batch = s.batch /\ r.buffered = s.buffered
            /\ r.dropped = s.dropped /\ r.heard = s.heard
            /\ Last(r) = Last(s) /\ Open(r) = Open(s) /\ Lit(r) = Lit(s)
            /\ Fed(s) \subseteq Fed(r) /\ Fed(r) \subseteq Fed(s) \cup {s.cur}
<1>1. PICK q \in Seq(AsrConns) : q = s.conns BY DEF Streams
<1>2. PICK c \in 1 .. Last(s) : c = s.cur OBVIOUS
<1>3. q[c] \in AsrConns BY <1>1, ElementOfSeq DEF Last
<1>4. PICK yes \in BOOLEAN : yes = (q[c].fed \/ f # <<>>) BY Zenon
<1>5. PICK conn \in AsrConns : conn = [q[c] EXCEPT !.fed = yes] BY <1>3 DEF AsrConns
<1>6. conn.open = q[c].open /\ conn.line = q[c].line /\ conn.fed = yes BY ONLY <1>3, <1>5 DEF AsrConns
<1>7. PICK p \in Seq(AsrConns) : p = [q EXCEPT ![c] = conn] BY <1>1, ExceptSeq DEF Last
<1>8. PICK m : m = s.sent \o f OBVIOUS
<1>9. m \in Seq(Nat) BY <1>8, ConcatProperties DEF Streams
<1>10. Accepted(s, f) = [s EXCEPT !.sent = m, !.conns = p]
  BY <1>1, <1>2, <1>4, <1>5, <1>7, <1>8 DEF Accepted, Streams
<1>11. PICK r : r = [s EXCEPT !.sent = m, !.conns = p] OBVIOUS
<1>12. /\ r \in Streams /\ r.conns = p /\ SameParts(r, s) /\ SameMode(r, s)
       /\ r.sent = m /\ r.batch = s.batch /\ r.buffered = s.buffered
       /\ r.dropped = s.dropped /\ r.heard = s.heard
  BY ONLY s \in Streams, p \in Seq(AsrConns), <1>9, <1>11 DEF Streams, SameParts, SameMode
<1>13. c \in Open(s) <=> conn.open BY <1>1, <1>6 DEF Open
<1>14. c \in Lit(s) <=> conn.line BY <1>1, <1>6 DEF Lit
<1>15. c \in Fed(s) => conn.fed BY <1>1, <1>4, <1>6 DEF Fed
<1>16. /\ Last(r) = Last(s) /\ Open(r) = IF conn.open THEN Open(s) \cup {c} ELSE Open(s) \ {c}
       /\ Fed(r) = IF conn.fed THEN Fed(s) \cup {c} ELSE Fed(s) \ {c}
       /\ Lit(r) = IF conn.line THEN Lit(s) \cup {c} ELSE Lit(s) \ {c}
  BY <1>1, <1>7, <1>12, ConnAt
<1>17. Open(r) = Open(s) /\ Lit(r) = Lit(s) BY <1>13, <1>14, <1>16
<1>18. Fed(s) \subseteq Fed(r) /\ Fed(r) \subseteq Fed(s) \cup {s.cur} BY <1>2, <1>15, <1>16
<1> QED BY <1>8, <1>10, <1>11, <1>12, <1>16, <1>17, <1>18

\* A connection with a part in the stream may take audio.
LEMMA AcceptParted ==
  ASSUME NEW s \in Streams, Parted(s), s.cur # 0, NEW r \in Streams, SameParts(r, s), SameMode(r, s),
         Last(r) = Last(s), Open(r) = Open(s), Lit(r) = Lit(s),
         Fed(s) \subseteq Fed(r), Fed(r) \subseteq Fed(s) \cup {s.cur}
  PROVE  Parted(r)
<1>1. HandedOver(r) = HandedOver(s) BY SameHandedOver DEF SameMode
<1> QED BY <1>1 DEF Parted, SameParts, SameMode

\* A stream that takes another connection.
Ready(s, c) ==
  /\ s \in Streams /\ c \in 1 .. Last(s) /\ c \notin Fed(s) /\ c # s.old
  /\ s.next = 0 /\ s.old \in 0 .. Last(s) /\ s.batch = <<>> /\ ~s.over
  /\ AllHeard(AudioLine(s), s.dropped, s.heard)
  /\ HandedOver(s) \cap ({0, c, s.old} \cup Fed(s)) = {}
  /\ Open(s) \subseteq {c, s.old} \cup HandedOver(s)
  /\ Lit(s) \subseteq Fed(s) \cap {s.old}

\* What it does first: the audio is no longer buffered, but in its hands.
Attaching(s, c) == [s EXCEPT !.cur = c, !.rotating = FALSE, !.buffered = <<>>]
\* The connection is the current one then, with nothing batched or buffered.
LEMMA AttachFirst ==
  ASSUME NEW s, NEW c, Ready(s, c)
  PROVE  LET on == Attaching(s, c)
         IN /\ on \in Streams /\ Parted(on) /\ SameMode(on, s) /\ SameConns(on, s)
            /\ on.cur = c /\ on.next = 0 /\ on.old = s.old
            /\ on.sent = s.sent /\ on.batch = <<>> /\ on.buffered = <<>>
            /\ on.dropped = s.dropped /\ on.heard = s.heard
            /\ s.buffered \in Seq(Nat)
<1>1. s \in Streams /\ s.buffered \in Seq(Nat) /\ c \in Nat BY DEF Ready, Streams, Last
<1>2. PICK e \in Seq(Nat) : e = <<>> BY NoAudio
<1>3. PICK no \in BOOLEAN : no = FALSE BY Zenon
<1>4. PICK on : on = [s EXCEPT !.cur = c, !.rotating = no, !.buffered = e] OBVIOUS
<1>5. /\ on \in Streams /\ on.conns = s.conns /\ SameMode(on, s)
      /\ on.cur = c /\ on.next = s.next /\ on.old = s.old
      /\ on.sent = s.sent /\ on.batch = s.batch /\ on.buffered = e
      /\ on.dropped = s.dropped /\ on.heard = s.heard
  BY ONLY <1>1, e \in Seq(Nat), no \in BOOLEAN, <1>4 DEF Streams, SameMode
<1>6. Attaching(s, c) = on BY <1>2, <1>3, <1>4 DEF Attaching
<1>7. SameConns(on, s) BY <1>5 DEF SameConns, Last, Open, Fed, Lit
<1>8. HandedOver(on) = HandedOver(s) BY <1>5, <1>7, SameHandedOver DEF SameConns, SameMode
<1>9. 0 \notin Fed(on) BY DEF Fed
<1>12. c # 0 BY DEF Ready
<1>13. /\ Last(on) = Last(s) /\ Open(on) = Open(s) /\ Fed(on) = Fed(s) /\ Lit(on) = Lit(s)
       /\ ~on.over /\ on.next = 0
  BY <1>5, <1>7 DEF SameConns, SameMode, Ready
<1>10. Parted(on)
  <2>1. {on.cur, on.next, on.old} \subseteq 0 .. Last(on) BY <1>5, <1>13 DEF Ready, Last
  <2>2. on.cur # 0 => on.cur \notin {on.next, on.old} BY <1>5, <1>12, <1>13 DEF Ready
  <2>3. HandedOver(on) \cap ({0, on.cur, on.next, on.old} \cup Fed(on)) = {}
    BY <1>5, <1>8, <1>13 DEF Ready
  <2>4. Open(on) \subseteq {on.cur, on.next, on.old} \cup HandedOver(on) BY <1>5, <1>8, <1>13 DEF Ready
  <2>5. Lit(on) \subseteq Fed(on) \cap {on.cur, on.old} BY <1>5, <1>13 DEF Ready
  <2> QED BY <1>9, <1>13, <2>1, <2>2, <2>3, <2>4, <2>5 DEF Parted
<1> QED BY <1>1, <1>2, <1>5, <1>6, <1>7, <1>10 DEF Ready

\* The audio of a stream with no batch.
LEMMA ReadyLine ==
  ASSUME NEW s \in Streams, s.batch = <<>>
  PROVE  AudioLine(s) = s.sent \o s.buffered
<1>1. s.sent \o <<>> = s.sent BY LineOf
<1> QED BY <1>1 DEF AudioLine

\* The audio that was taken, that was lost and that waits, of a resend that
\* failed, is all of it.
UpTo(p, k) == IF k + AsrResend < Len(p) THEN k + AsrResend ELSE Len(p)
\* The three parts, in order.
LEMMA ResendParts ==
  ASSUME NEW p \in Seq(Nat), NEW k \in 0 .. Len(p) - 1
  PROVE  /\ SubSeq(p, 1, k) \in Seq(Nat) /\ SubSeq(p, k + 1, UpTo(p, k)) \in Seq(Nat) /\ Rest(p, k) \in Seq(Nat)
         /\ SubSeq(p, 1, k) \o (SubSeq(p, k + 1, UpTo(p, k)) \o Rest(p, k)) = p
<1>0. AsrResend \in Nat BY AsrAssumption DEF AsrAssumption
<1>1. PICK n \in Nat : n = Len(p) BY LenProperties
<1>2. k \in Nat /\ k \in 0 .. Len(p) /\ k < n BY <1>1
<1>3. PICK u \in Nat : u = UpTo(p, k)
  <2>1. k + AsrResend \in Nat BY <1>0, <1>2
  <2> QED BY <1>1, <2>1 DEF UpTo
<1>4. k <= u /\ u <= n /\ u <= Len(p) BY <1>0, <1>1, <1>2, <1>3 DEF UpTo
<1>5. PICK m \in Nat : m = k + 1 BY <1>2
<1>6. PICK v \in Nat : v = u + 1 OBVIOUS
<1>7. 1 <= m /\ m <= u + 1 /\ m <= v /\ 1 <= v /\ v <= n + 1 /\ n <= Len(p) BY <1>1, <1>2, <1>4, <1>5, <1>6
<1>8. SubSeq(p, 1, k) \in Seq(Nat) /\ p = SubSeq(p, 1, k) \o SubSeq(p, k + 1, Len(p)) BY <1>2, CutInTwo
<1>9. SubSeq(p, m, u) \in Seq(Nat) BY <1>4, <1>7, Piece
<1>10. SubSeq(p, v, n) \in Seq(Nat) BY <1>7, Piece
<1>11. SubSeq(p, m, u) \o SubSeq(p, v, n) = SubSeq(p, m, n) BY <1>4, <1>6, <1>7, Pieces
<1>12. Rest(p, k) = SubSeq(p, v, n)
  <2>1. CASE k + AsrResend < n BY <1>1, <1>3, <1>6, <2>1 DEF UpTo, Rest
  <2>2. CASE ~(k + AsrResend < n)
    <3>1. PICK w \in Nat : w = k + AsrResend + 1 BY <1>0, <1>2
    <3>2. w > n /\ v > n BY <1>0, <1>1, <1>2, <1>3, <1>6, <2>2, <3>1 DEF UpTo
    <3>3. \A i \in Nat : i > n => SubSeq(p, i, n) = <<>>
      <4> SUFFICES ASSUME NEW i \in Nat, i > n PROVE SubSeq(p, i, n) = <<>> OBVIOUS
      <4>1. \A x \in i .. n : p[x] \in Nat OBVIOUS
      <4>2. SubSeq(p, i, n) \in Seq(Nat) /\ Len(SubSeq(p, i, n)) = 0 BY <4>1, SubSeqProperties
      <4> QED BY <4>2, EmptySeq
    <3> QED BY <1>1, <3>1, <3>2, <3>3 DEF Rest
  <2> QED BY <2>1, <2>2
<1> QED BY <1>1, <1>3, <1>5, <1>8, <1>9, <1>10, <1>11, <1>12

\* A resend that fails.
LEMMA ResendSound ==
  ASSUME NEW s, NEW c, Ready(s, c), NEW k \in 0 .. Len(s.buffered) - 1, NEW r,
         r = ResendFails(Attaching(s, c), s.buffered, k)
  PROVE  AsrSound(r) /\ r.cur = 0 /\ r.next = 0 /\ r.old = s.old
<1>1. PICK on : on = Attaching(s, c) OBVIOUS
<1>2. /\ on \in Streams /\ Parted(on) /\ SameMode(on, s) /\ SameConns(on, s)
      /\ on.cur = c /\ on.next = 0 /\ on.old = s.old
      /\ on.sent = s.sent /\ on.batch = <<>> /\ on.buffered = <<>>
      /\ on.dropped = s.dropped /\ on.heard = s.heard
      /\ s.buffered \in Seq(Nat)
  BY <1>1, AttachFirst
<1>3. PICK p : p = s.buffered OBVIOUS
<1>4. p \in Seq(Nat) BY <1>2, <1>3
<1>5. PICK x : x = SubSeq(p, 1, k) OBVIOUS
<1>6. PICK y : y = SubSeq(p, k + 1, UpTo(p, k)) OBVIOUS
<1>7. PICK z : z = Rest(p, k) OBVIOUS
<1>8. x \in Seq(Nat) /\ y \in Seq(Nat) /\ z \in Seq(Nat) /\ x \o (y \o z) = p
  BY <1>3, <1>4, <1>5, <1>6, <1>7, ResendParts
<1>9. PICK g : g = Failing(on) OBVIOUS
<1>10. g \in Streams /\ SameConns(g, on) /\ SameParts(g, on) /\ SameAudio(g, on) /\ SameMode(g, on)
  BY <1>2, <1>9, Fails
<1>11. g.cur \in 1 .. Last(g) BY <1>2, <1>10 DEF Ready, SameParts, SameConns
<1>12. Parted(g)
  <2>1. HandedOver(g) = HandedOver(on) BY <1>10, SameHandedOver DEF SameConns, SameMode
  <2> QED BY <1>2, <1>10, <2>1, PartedSame DEF SameMode
<1>13. PICK a : a = Accepted(g, x) OBVIOUS
<1>14. /\ a \in Streams /\ SameParts(a, g) /\ SameMode(a, g)
       /\ a.sent = g.sent \o x /\ a.batch = g.batch /\ a.buffered = g.buffered
       /\ a.dropped = g.dropped /\ a.heard = g.heard
       /\ Last(a) = Last(g) /\ Open(a) = Open(g) /\ Lit(a) = Lit(g)
       /\ Fed(g) \subseteq Fed(a) /\ Fed(a) \subseteq Fed(g) \cup {g.cur}
  BY <1>8, <1>10, <1>11, <1>13, Accepting
<1>15. g.cur # 0 BY <1>10, <1>11 DEF Streams, Last
<1>16. Parted(a) BY <1>10, <1>12, <1>14, <1>15, AcceptParted
<1>17. PICK t : t = [a EXCEPT !.batch = y] OBVIOUS
<1>18. /\ t \in Streams /\ t.conns = a.conns /\ SameParts(t, a) /\ SameMode(t, a)
       /\ t.sent = a.sent /\ t.batch = y /\ t.buffered = a.buffered
       /\ t.dropped = a.dropped /\ t.heard = a.heard
  BY ONLY <1>8, <1>14, <1>17 DEF Streams, SameParts, SameMode
<1>19. SameConns(t, a) BY <1>18 DEF SameConns, Last, Open, Fed, Lit
<1>20. Parted(t)
  <2>1. HandedOver(t) = HandedOver(a) BY <1>18, <1>19, SameHandedOver DEF SameConns, SameMode
  <2> QED BY <1>16, <1>18, <1>19, <2>1, PartedSame DEF SameMode
<1>21. t.cur # 0 /\ t.next = 0 /\ t.old = s.old
  BY <1>2, <1>10, <1>14, <1>15, <1>18 DEF SameParts
<1>22. PICK l : l = LostAlone(t) OBVIOUS
<1>23. /\ l \in Streams /\ Parted(l) /\ l.cur = 0 /\ l.next = 0 /\ l.old = t.old
       /\ AudioLine(l) = AudioLine(t) /\ l.dropped = t.dropped /\ l.heard = t.heard
       /\ ~l.over => l.batch = <<>>
  BY <1>18, <1>20, <1>21, <1>22, LostKeeps
<1>24. PICK w : w = WithBuffered(l, z) OBVIOUS
<1>25. l.dropped = s.dropped /\ l.heard = s.heard
  BY <1>2, <1>10, <1>14, <1>18, <1>23 DEF SameAudio
<1>26. AudioLine(l) \o z = AudioLine(s)
  <2>1. AudioLine(l) = ((s.sent \o x) \o y) \o <<>>
    BY <1>2, <1>10, <1>14, <1>18, <1>23 DEF AudioLine, SameAudio
  <2>2. s.sent \in Seq(Nat) BY DEF Ready, Streams
  <2>3. PICK e : e = s.sent OBVIOUS
  <2>4. e \in Seq(Nat) /\ x \in Seq(Nat) /\ y \in Seq(Nat) /\ z \in Seq(Nat) BY <1>8, <2>2, <2>3
  <2>5. PICK u : u = e \o x OBVIOUS
  <2>6. u \in Seq(Nat) BY ONLY <2>4, <2>5, ConcatProperties
  <2>7. PICK v : v = u \o y OBVIOUS
  <2>8. v \in Seq(Nat) BY ONLY <2>4, <2>6, <2>7, ConcatProperties
  <2>9. v \o <<>> = v BY ONLY <2>8, ConcatEmptySeq
  <2>10. (u \o y) \o z = u \o (y \o z) BY ONLY <2>4, <2>6, AudioJoins
  <2>11. PICK q : q = y \o z OBVIOUS
  <2>12. q \in Seq(Nat) BY ONLY <2>4, <2>11, ConcatProperties
  <2>13. (e \o x) \o q = e \o (x \o q) BY ONLY SMTT(30), <2>4, <2>12, AudioJoins
  <2>14. AudioLine(s) = s.sent \o s.buffered BY ReadyLine DEF Ready
  <2> QED BY <1>3, <1>8, <2>1, <2>3, <2>5, <2>7, <2>9, <2>10, <2>11, <2>13, <2>14
<1>27. AllHeard(AudioLine(l) \o z, l.dropped, l.heard) BY <1>25, <1>26 DEF Ready
<1>28. /\ w \in Streams /\ SameConns(w, l) /\ SameParts(w, l) /\ SameMode(w, l)
       /\ w.batch = l.batch /\ AllHeard(AudioLine(w), w.dropped, w.heard)
  BY <1>8, <1>23, <1>24, <1>27, BufferKeeps
<1>29. Parted(w)
  <2>1. HandedOver(w) = HandedOver(l) BY <1>28, SameHandedOver DEF SameConns, SameMode
  <2> QED BY <1>23, <1>28, <2>1, PartedSame DEF SameMode
<1>30. r = w
  <2>1. t = [Accepted(Failing(on), SubSeq(p, 1, k)) EXCEPT !.batch =
               SubSeq(p, k + 1, IF k + AsrResend < Len(p) THEN k + AsrResend ELSE Len(p))]
    BY <1>5, <1>6, <1>9, <1>13, <1>17 DEF UpTo
  <2> QED BY <1>1, <1>3, <1>7, <1>22, <1>24, <2>1 DEF ResendFails
<1> QED BY <1>21, <1>23, <1>28, <1>29, <1>30 DEF AsrSound, Batched, SameParts, SameMode

\* The connection took all of the buffered audio.
LEMMA TookSound ==
  ASSUME NEW s, NEW c, Ready(s, c), NEW r, r = Accepted(Attaching(s, c), s.buffered)
  PROVE  AsrSound(r) /\ r.cur = c /\ r.next = 0 /\ r.old = s.old
<1>1. PICK on : on = Attaching(s, c) OBVIOUS
<1>2. /\ on \in Streams /\ Parted(on) /\ SameMode(on, s) /\ SameConns(on, s)
      /\ on.cur = c /\ on.next = 0 /\ on.old = s.old
      /\ on.sent = s.sent /\ on.batch = <<>> /\ on.buffered = <<>>
      /\ on.dropped = s.dropped /\ on.heard = s.heard
      /\ s.buffered \in Seq(Nat)
  BY <1>1, AttachFirst
<1>3. on.cur \in 1 .. Last(on) BY <1>2 DEF Ready, SameConns
<1>4. /\ r \in Streams /\ SameParts(r, on) /\ SameMode(r, on)
      /\ r.sent = on.sent \o s.buffered /\ r.batch = on.batch /\ r.buffered = on.buffered
      /\ r.dropped = on.dropped /\ r.heard = on.heard
      /\ Last(r) = Last(on) /\ Open(r) = Open(on) /\ Lit(r) = Lit(on)
      /\ Fed(on) \subseteq Fed(r) /\ Fed(r) \subseteq Fed(on) \cup {on.cur}
  BY <1>1, <1>2, <1>3, Accepting
<1>5. on.cur # 0 BY <1>3 DEF Last
<1>6. Parted(r) BY <1>2, <1>4, <1>5, AcceptParted
<1>7. AudioLine(r) = AudioLine(s)
  <2>1. AudioLine(s) = s.sent \o s.buffered BY ReadyLine DEF Ready
  <2>2. PICK q : q = AudioLine(s) OBVIOUS
  <2>3. q \in Seq(Nat) BY <2>2, LineOf DEF Ready
  <2>4. q \o <<>> = q BY <2>3, ConcatEmptySeq
  <2>5. AudioLine(r) = (q \o <<>>) \o <<>> BY <1>2, <1>4, <2>1, <2>2 DEF AudioLine
  <2> QED BY <2>2, <2>4, <2>5
<1> QED BY <1>2, <1>4, <1>5, <1>6, <1>7 DEF AsrSound, Batched, SameParts, Ready

\* attach, of a stream that is ready for it.
LEMMA AttachSound ==
  ASSUME NEW s, NEW c, Ready(s, c), NEW r \in Attach(s, c)
  PROVE  AsrSound(r) /\ r.next = 0 /\ r.cur \in {0, c} /\ r.old = s.old
<1>1. PICK whole : whole = Accepted(Attaching(s, c), s.buffered) OBVIOUS
<1>2. AsrSound(whole) /\ whole.cur = c /\ whole.next = 0 /\ whole.old = s.old BY <1>1, TookSound
<1>3. \/ r = whole \/ r \in EndAlone(whole)
      \/ \E k \in 0 .. Len(s.buffered) - 1 : r = ResendFails(Attaching(s, c), s.buffered, k)
  BY <1>1 DEF Attach, Attaching
<1>4. CASE r = whole BY <1>2, <1>4
<1>5. CASE r \in EndAlone(whole) BY <1>2, <1>5, EndSound
<1>6. CASE \E k \in 0 .. Len(s.buffered) - 1 : r = ResendFails(Attaching(s, c), s.buffered, k)
  <2>1. PICK k \in 0 .. Len(s.buffered) - 1 : r = ResendFails(Attaching(s, c), s.buffered, k) BY <1>6
  <2> QED BY <2>1, ResendSound
<1> QED BY <1>3, <1>4, <1>5, <1>6

\* The replaced connection retires.
LEMMA RetireSound ==
  ASSUME NEW s, AsrSound(s), s.old # 0, NEW r, r = Retire(s)
  PROVE  /\ AsrSound(r) /\ SameMode(r, s) /\ SameAudio(r, s)
         /\ r.cur = s.cur /\ r.next = s.next /\ r.old = 0
         /\ Last(r) = Last(s) /\ Fed(r) = Fed(s)
         /\ Open(r) = Open(s) \ {s.old} /\ Lit(r) = Lit(s) \ {s.old}
<1>1. s \in Streams /\ Parted(s) BY DEF AsrSound
<1>2. s.old \in 1 .. Last(s) BY <1>1 DEF Parted
<1>3. /\ r \in Streams /\ SameMode(r, s) /\ SameAudio(r, s)
      /\ r.cur = s.cur /\ r.next = s.next /\ r.old = 0
      /\ Last(r) = Last(s) /\ Fed(r) = Fed(s)
      /\ Open(r) = Open(s) \ {s.old} /\ Lit(r) = Lit(s) \ {s.old}
  BY <1>1, <1>2, Retired
<1>4. HandedOver(r) = HandedOver(s) BY <1>3, SameHandedOver DEF SameMode
<1>5. Parted(r)
  <2>0. Last(s) \in Nat BY <1>1 DEF Streams, Last
  <2>1. {r.cur, r.next, r.old} \subseteq 0 .. Last(r) BY <1>1, <1>2, <1>3, <2>0 DEF Parted
  <2>2. r.cur # 0 => r.cur \notin {r.next, r.old} BY <1>1, <1>3 DEF Parted
  <2>3. r.next # 0 => r.cur # 0 /\ r.next # r.old BY <1>1, <1>3 DEF Parted
  <2>4. HandedOver(r) \cap ({0, r.cur, r.next, r.old} \cup Fed(r)) = {} BY <1>1, <1>3, <1>4 DEF Parted
  <2>5. Open(r) \subseteq {r.cur, r.next, r.old} \cup HandedOver(r) BY <1>1, <1>3, <1>4 DEF Parted
  <2>6. Lit(r) \subseteq Fed(r) \cap {r.cur, r.old} BY <1>1, <1>3 DEF Parted
  <2> QED BY <1>1, <1>3, <2>1, <2>2, <2>3, <2>4, <2>5, <2>6 DEF Parted, SameMode
<1>6. AudioLine(r) = AudioLine(s) BY <1>3, SameLine
<1> QED BY <1>3, <1>5, <1>6 DEF AsrSound, SameAudio, SameMode, Batched

\* The rotation's connection goes.
LEMMA NextGone ==
  ASSUME NEW s, AsrSound(s), s.next # 0, NEW r, r = [CloseConn(s, s.next) EXCEPT !.next = 0]
  PROVE  /\ AsrSound(r) /\ SameMode(r, s) /\ SameAudio(r, s)
         /\ r.cur = s.cur /\ r.next = 0 /\ r.old = s.old
<1>1. s \in Streams /\ Parted(s) BY DEF AsrSound
<1>2. PICK c \in 1 .. Last(s) : c = s.next BY <1>1 DEF Parted
<1>3. PICK g : g = CloseConn(s, c) OBVIOUS
<1>4. /\ g \in Streams /\ SameParts(g, s) /\ SameMode(g, s) /\ SameAudio(g, s)
      /\ Last(g) = Last(s) /\ Fed(g) = Fed(s) /\ Lit(g) = Lit(s) /\ Open(g) = Open(s) \ {c}
  BY <1>1, <1>3, ConnClosed
<1>5. r = [g EXCEPT !.next = 0] BY <1>2, <1>3
<1>6. r \in Streams /\ r.conns = g.conns /\ r.cur = g.cur /\ r.next = 0 /\ r.old = g.old
      /\ SameMode(r, g) /\ SameAudio(r, g)
  BY ONLY <1>4, <1>5 DEF Streams, SameMode, SameAudio
<1>7. /\ Last(r) = Last(s) /\ Fed(r) = Fed(s) /\ Lit(r) = Lit(s) /\ Open(r) = Open(s) \ {c}
      /\ SameMode(r, s) /\ SameAudio(r, s) /\ r.cur = s.cur /\ r.old = s.old
  BY <1>4, <1>6 DEF Last, Open, Fed, Lit, SameParts, SameMode, SameAudio
<1>8. HandedOver(r) = HandedOver(s) BY <1>7, SameHandedOver DEF SameMode
<1>9. 0 \notin Fed(r) BY DEF Fed
<1>10. Parted(r)
  <2>0. Last(s) \in Nat BY <1>1 DEF Streams, Last
  <2>1. {r.cur, r.next, r.old} \subseteq 0 .. Last(r) BY <1>1, <1>6, <1>7, <2>0 DEF Parted
  <2>2. r.cur # 0 => r.cur \notin {r.next, r.old} BY <1>1, <1>6, <1>7 DEF Parted
  <2>4. HandedOver(r) \cap ({0, r.cur, r.next, r.old} \cup Fed(r)) = {}
    BY <1>1, <1>6, <1>7, <1>8 DEF Parted
  <2>5. Open(r) \subseteq {r.cur, r.next, r.old} \cup HandedOver(r) BY <1>1, <1>2, <1>7, <1>8 DEF Parted
  <2>6. Lit(r) \subseteq Fed(r) \cap {r.cur, r.old} BY <1>1, <1>7 DEF Parted
  <2> QED BY <1>1, <1>6, <1>7, <1>9, <2>1, <2>2, <2>4, <2>5, <2>6 DEF Parted, SameMode
<1>11. AudioLine(r) = AudioLine(s) BY <1>7, SameLine
<1> QED BY <1>6, <1>7, <1>10, <1>11 DEF AsrSound, SameAudio, SameMode, Batched

\* The current connection goes and the rotation's takes over.
TakesOver(s) == [Dropped(s) EXCEPT !.buffered = Unsent(s), !.batch = <<>>, !.next = 0]
\* The stream that it takes over is ready for it.
LEMMA NextReady ==
  ASSUME NEW s, AsrSound(s), ~s.over, s.cur # 0, s.next # 0, NEW d, d = TakesOver(s)
  PROVE  Ready(d, s.next)
<1>1. s \in Streams /\ Parted(s) BY DEF AsrSound
<1>2. s.cur \in 1 .. Last(s) /\ s.next \in 1 .. Last(s) BY <1>1 DEF Parted
<1>3. PICK g : g = Dropped(s) OBVIOUS
<1>4. /\ g \in Streams /\ SameMode(g, s) /\ SameAudio(g, s)
      /\ g.cur = 0 /\ g.next = s.next /\ g.old = s.old
      /\ Last(g) = Last(s) /\ Fed(g) = Fed(s)
      /\ Open(g) = Open(s) \ {s.cur} /\ Lit(g) = Lit(s) \ {s.cur}
  BY <1>1, <1>2, <1>3, IsDropped
<1>5. PICK q \in Seq(Nat) : q = Unsent(s) BY <1>1, Regrouped DEF Streams, Unsent
<1>6. PICK e \in Seq(Nat) : e = <<>> BY NoAudio
<1>7. PICK z \in Nat : z = 0 OBVIOUS
<1>8. d = [g EXCEPT !.buffered = q, !.batch = e, !.next = z] BY <1>3, <1>5, <1>6, <1>7 DEF TakesOver
<1>9. /\ d \in Streams /\ d.conns = g.conns /\ d.next = z /\ d.old = g.old /\ SameMode(d, g)
      /\ d.sent = g.sent /\ d.batch = e /\ d.buffered = q /\ d.dropped = g.dropped /\ d.heard = g.heard
  BY ONLY <1>4, <1>8, q \in Seq(Nat), e \in Seq(Nat), z \in Nat DEF Streams, SameMode
<1>10. /\ Last(d) = Last(s) /\ Fed(d) = Fed(s) /\ Open(d) = Open(s) \ {s.cur} /\ Lit(d) = Lit(s) \ {s.cur}
       /\ SameMode(d, s) /\ d.old = s.old /\ d.next = 0 /\ d.batch = <<>>
       /\ d.sent = s.sent /\ d.buffered = q /\ d.dropped = s.dropped /\ d.heard = s.heard
  BY <1>4, <1>6, <1>7, <1>9 DEF Last, Open, Fed, Lit, SameMode, SameAudio
<1>11. HandedOver(d) = HandedOver(s) BY <1>10, SameHandedOver DEF SameMode
<1>12. AllHeard(AudioLine(d), d.dropped, d.heard)
  <2>1. AudioLine(d) = s.sent \o q BY <1>9, <1>10, ReadyLine
  <2>2. AudioLine(s) = s.sent \o (s.batch \o s.buffered) BY <1>1, LineOf
  <2> QED BY <1>5, <1>10, <2>1, <2>2 DEF Unsent, AsrSound
<1>13. s.next \notin Fed(d) /\ s.next # d.old /\ d.old \in 0 .. Last(d) /\ ~d.over
  BY <1>1, <1>10 DEF Parted, SameMode
<1>14. HandedOver(d) \cap ({0, s.next, d.old} \cup Fed(d)) = {} BY <1>1, <1>10, <1>11 DEF Parted
<1>15. Open(d) \subseteq {s.next, d.old} \cup HandedOver(d) BY <1>1, <1>10, <1>11 DEF Parted
<1>16. Lit(d) \subseteq Fed(d) \cap {d.old} BY <1>1, <1>10 DEF Parted
<1> QED BY <1>2, <1>9, <1>10, <1>12, <1>13, <1>14, <1>15, <1>16 DEF Ready

\* lost.
LEMMA LoseSound ==
  ASSUME NEW s, AsrSound(s), ~s.over, NEW c \in Owned(s), NEW r \in LoseConn(s, c)
  PROVE  /\ AsrSound(r) /\ (s.next = 0 => r.next = 0)
         /\ c = s.cur => r.cur # s.cur
<1>0. s \in Streams /\ Parted(s) BY DEF AsrSound
<1>1. c # 0 BY DEF Owned
<1>2. CASE c = s.old
  <2>3. c # s.cur /\ c # s.next BY <1>0, <1>1, <1>2 DEF Parted
  <2>1. r = Retire(s) BY <1>2, <2>3 DEF LoseConn
  <2>2. AsrSound(r) /\ r.next = s.next BY <1>1, <1>2, <2>1, RetireSound
  <2> QED BY <2>2, <2>3
<1>3. CASE c # s.old /\ c = s.next
  <2>3. c # s.cur BY <1>0, <1>1, <1>3 DEF Parted
  <2>1. r = [CloseConn(s, s.next) EXCEPT !.next = 0] BY <1>3, <2>3 DEF LoseConn
  <2>2. AsrSound(r) /\ r.next = 0 BY <1>1, <1>3, <2>1, NextGone
  <2> QED BY <2>2, <2>3
<1>4. CASE c # s.old /\ c # s.next /\ s.next = 0
  <2>1. c = s.cur BY <1>4 DEF Owned
  <2>2. r = LostAlone(s) BY <1>4, <2>1 DEF LoseConn
  <2> QED BY <1>1, <1>4, <2>1, <2>2, LostSound
<1>5. CASE c # s.old /\ c # s.next /\ s.next # 0
  <2>1. c = s.cur BY <1>5 DEF Owned
  <2>2. r \in Attach(TakesOver(s), s.next) BY <1>5, <2>1 DEF LoseConn, TakesOver
  <2>3. Ready(TakesOver(s), s.next) BY <1>1, <1>5, <2>1, NextReady
  <2>4. AsrSound(r) /\ r.next = 0 /\ r.cur \in {0, s.next} BY <2>2, <2>3, AttachSound
  <2> QED BY <1>1, <1>5, <2>1, <2>4
<1> QED BY <1>2, <1>3, <1>4, <1>5

\* send.
Handed(s) == [Accepted(s, s.batch) EXCEPT !.batch = <<>>]
\* What send hands over when it does not fail.
LEMMA HandedSound ==
  ASSUME NEW s, AsrSound(s), ~s.over, s.cur # 0, NEW r, r = Handed(s)
  PROVE  /\ AsrSound(r) /\ SameParts(r, s) /\ SameMode(r, s) /\ r.batch = <<>>
         /\ Fed(s) \subseteq Fed(r)
<1>1. s \in Streams /\ Parted(s) /\ s.batch \in Seq(Nat) /\ s.buffered = <<>>
  BY DEF AsrSound, Streams, Batched
<1>2. s.cur \in 1 .. Last(s) BY <1>1 DEF Parted
<1>3. PICK a : a = Accepted(s, s.batch) OBVIOUS
<1>4. /\ a \in Streams /\ SameParts(a, s) /\ SameMode(a, s)
      /\ a.sent = s.sent \o s.batch /\ a.batch = s.batch /\ a.buffered = s.buffered
      /\ a.dropped = s.dropped /\ a.heard = s.heard
      /\ Last(a) = Last(s) /\ Open(a) = Open(s) /\ Lit(a) = Lit(s)
      /\ Fed(s) \subseteq Fed(a) /\ Fed(a) \subseteq Fed(s) \cup {s.cur}
  BY <1>1, <1>2, <1>3, Accepting
<1>5. Parted(a) BY <1>1, <1>4, AcceptParted
<1>6. PICK e \in Seq(Nat) : e = <<>> BY NoAudio
<1>7. r = [a EXCEPT !.batch = e] BY <1>3, <1>6 DEF Handed
<1>8. /\ r \in Streams /\ r.conns = a.conns /\ SameParts(r, a) /\ SameMode(r, a)
      /\ r.sent = a.sent /\ r.batch = e /\ r.buffered = a.buffered
      /\ r.dropped = a.dropped /\ r.heard = a.heard
  BY ONLY <1>4, <1>7, e \in Seq(Nat) DEF Streams, SameParts, SameMode
<1>9. SameConns(r, a) BY <1>8 DEF SameConns, Last, Open, Fed, Lit
<1>10. Parted(r)
  <2>1. HandedOver(r) = HandedOver(a) BY <1>8, <1>9, SameHandedOver DEF SameConns, SameMode
  <2> QED BY <1>5, <1>8, <1>9, <2>1, PartedSame DEF SameMode
<1>11. AudioLine(r) = AudioLine(s)
  <2>1. PICK q : q = s.sent \o s.batch OBVIOUS
  <2>2. q \in Seq(Nat) BY <1>1, <2>1, ConcatProperties DEF Streams
  <2>3. q \o <<>> = q BY <2>2, ConcatEmptySeq
  <2> QED BY <1>1, <1>4, <1>6, <1>8, <2>1, <2>3 DEF AudioLine
<1> QED BY <1>1, <1>4, <1>6, <1>8, <1>9, <1>10, <1>11
        DEF AsrSound, Batched, SameParts, SameMode, SameConns

\* send, which may lose the connection.
LEMMA SendSound ==
  ASSUME NEW s, AsrSound(s), ~s.over, NEW r \in SendBatch(s)
  PROVE  /\ AsrSound(r) /\ (s.next = 0 => r.next = 0)
         /\ s.cur # 0 /\ r.cur = s.cur =>
              r.batch = <<>> /\ SameParts(r, s) /\ SameMode(r, s)
<1>1. CASE r = s /\ (s.cur = 0 \/ s.batch = <<>>) BY <1>1 DEF SameParts, SameMode
<1>2. CASE s.cur # 0 /\ r = Handed(s) BY <1>2, HandedSound DEF SameParts
<1>3. CASE s.cur # 0 /\ r \in LoseConn(Failing(s), s.cur)
  <2>1. PICK f : f = Failing(s) OBVIOUS
  <2>2. AsrSound(f) /\ SameParts(f, s) /\ SameMode(f, s) BY <2>1, FailsSound
  <2>3. s.cur \in Owned(f) /\ ~f.over /\ f.cur = s.cur /\ f.next = s.next
    BY <1>3, <2>2 DEF Owned, SameParts, SameMode
  <2>4. AsrSound(r) /\ (f.next = 0 => r.next = 0) /\ r.cur # f.cur BY <1>3, <2>1, <2>2, <2>3, LoseSound
  <2> QED BY <2>3, <2>4
<1> QED BY <1>1, <1>2, <1>3 DEF SendBatch, Handed

\* The end of the input is told to the replaced connection, or that retires.
LEMMA EndOldSound ==
  ASSUME NEW s, AsrSound(s), s.old # 0, NEW r \in EndOld(s)
  PROVE  AsrSound(r)
<1>0. s \in Streams /\ Parted(s) BY DEF AsrSound
<1>1. CASE r = [s EXCEPT !.conns[s.old].ending = TRUE]
  <2>1. PICK c \in 1 .. Last(s) : c = s.old BY <1>0 DEF Parted
  <2>2. r = Ending(s, c) BY <1>1, <2>1 DEF Ending
  <2>3. /\ r \in Streams /\ SameParts(r, s) /\ SameMode(r, s) /\ SameAudio(r, s)
        /\ Last(r) = Last(s) /\ Fed(r) = Fed(s) /\ Open(r) = Open(s) /\ Lit(r) \subseteq Lit(s)
    BY <1>0, <2>2, Told
  <2>4. HandedOver(r) = HandedOver(s) BY <2>3, SameHandedOver DEF SameMode
  <2> QED BY <2>3, <2>4, SoundSame DEF SameMode
<1>2. CASE r = Retire(Failing(s))
  <2>1. PICK f : f = Failing(s) OBVIOUS
  <2>2. AsrSound(f) /\ SameParts(f, s) BY <2>1, FailsSound
  <2> QED BY <1>2, <2>1, <2>2, RetireSound DEF SameParts
<1> QED BY <1>1, <1>2 DEF EndOld

\* A dial that a rotation or a loss starts; the rotation's due.
LEMMA DialSound ==
  ASSUME NEW s, AsrSound(s), NEW r, r = StartDial(s)
  PROVE  AsrSound(r) /\ SameParts(r, s) /\ r.over = s.over
<1>1. s \in Streams BY DEF AsrSound
<1>2. /\ r \in Streams /\ SameConns(r, s) /\ SameParts(r, s) /\ SameAudio(r, s)
      /\ HandedOver(r) = HandedOver(s) /\ r.over = s.over
  BY <1>1, Dialing
<1> QED BY <1>2, SoundSame DEF SameConns

\* A rotation that falls due.
LEMMA RotateSound ==
  ASSUME NEW s, AsrSound(s), NEW r, r = Rotate(s)
  PROVE  AsrSound(r) /\ SameParts(r, s) /\ r.over = s.over
<1>1. s \in Streams BY DEF AsrSound
<1>2. PICK yes \in BOOLEAN : yes = TRUE BY Zenon
<1>3. PICK due : due = [s EXCEPT !.rotating = yes] OBVIOUS
<1>4. /\ due \in Streams /\ due.conns = s.conns /\ SameParts(due, s) /\ SameAudio(due, s)
      /\ SameMode(due, s)
  BY ONLY <1>1, <1>3, yes \in BOOLEAN DEF Streams, SameParts, SameAudio, SameMode
<1>5. SameConns(due, s) BY <1>4 DEF SameConns, Last, Open, Fed, Lit
<1>6. HandedOver(due) = HandedOver(s) BY <1>4, <1>5, SameHandedOver DEF SameConns, SameMode
<1>7. AsrSound(due) BY <1>4, <1>5, <1>6, SoundSame DEF SameConns, SameMode
<1>8. r \in {s, due, StartDial(due)} BY <1>2, <1>3 DEF Rotate
<1>9. AsrSound(StartDial(due)) /\ SameParts(StartDial(due), due) /\ StartDial(due).over = due.over
  BY <1>7, DialSound
<1> QED BY <1>4, <1>7, <1>8, <1>9 DEF SameParts, SameMode

\* maybeSwitch: what it hands over to the rotation's connection.
HandingOver(q, old) == [RetireBefore([q EXCEPT !.next = 0]) EXCEPT !.old = old]
\* The stream that is handed over is ready for the next connection.
LEMMA HandingReady ==
  ASSUME NEW q, AsrSound(q), ~q.over, q.cur # 0, q.next # 0, q.batch = <<>>, NEW x,
         x = HandingOver(q, q.cur)
  PROVE  Ready(x, q.next) /\ x.old = q.cur
<1>1. q \in Streams /\ Parted(q) BY DEF AsrSound
<1>2. q.cur \in 1 .. Last(q) /\ q.next \in 1 .. Last(q) BY <1>1 DEF Parted
<1>3. PICK n : n = [q EXCEPT !.next = 0] OBVIOUS
<1>4. /\ n \in Streams /\ n.conns = q.conns /\ n.cur = q.cur /\ n.next = 0 /\ n.old = q.old
      /\ SameMode(n, q) /\ SameAudio(n, q)
  BY ONLY <1>1, <1>3 DEF Streams, SameMode, SameAudio
<1>5. Last(n) = Last(q) /\ Open(n) = Open(q) /\ Fed(n) = Fed(q) /\ Lit(n) = Lit(q)
  BY <1>4 DEF Last, Open, Fed, Lit
<1>6. PICK b : b = RetireBefore(n) OBVIOUS
<1>7. /\ b \in Streams /\ SameMode(b, n) /\ SameAudio(b, n) /\ b.next = 0
      /\ Last(b) = Last(n) /\ Fed(b) = Fed(n) /\ Open(b) = Open(n) \ {n.old} /\ Lit(b) = Lit(n) \ {n.old}
  <2>1. CASE n.old # 0
    <3>1. n.old \in 1 .. Last(n) BY <1>1, <1>4, <1>5, <2>1 DEF Parted
    <3> QED BY <1>4, <1>6, <2>1, <3>1, Retired DEF RetireBefore
  <2>2. CASE n.old = 0
    <3>1. b = n BY <1>6, <2>2 DEF RetireBefore
    <3>2. 0 \notin Open(n) /\ 0 \notin Lit(n) BY DEF Open, Lit
    <3> QED BY <1>4, <2>2, <3>1, <3>2 DEF SameMode, SameAudio
  <2> QED BY <2>1, <2>2
<1>8. PICK c \in Nat : c = q.cur BY <1>1 DEF Streams
<1>9. x = [b EXCEPT !.old = c] BY <1>3, <1>6, <1>8 DEF HandingOver
<1>10. /\ x \in Streams /\ x.conns = b.conns /\ x.next = b.next /\ x.old = c
       /\ SameMode(x, b) /\ SameAudio(x, b)
  BY ONLY <1>7, <1>9, c \in Nat DEF Streams, SameMode, SameAudio
<1>11. /\ Last(x) = Last(q) /\ Fed(x) = Fed(q) /\ Open(x) = Open(q) \ {q.old} /\ Lit(x) = Lit(q) \ {q.old}
       /\ SameMode(x, q) /\ SameAudio(x, q) /\ x.next = 0 /\ x.old = q.cur
  BY <1>4, <1>5, <1>7, <1>8, <1>10 DEF Last, Open, Fed, Lit, SameMode, SameAudio
<1>12. HandedOver(x) = HandedOver(q) BY <1>11, SameHandedOver DEF SameMode
<1>13. AllHeard(AudioLine(x), x.dropped, x.heard)
  <2>1. AudioLine(x) = AudioLine(q) BY <1>11, SameLine
  <2> QED BY <1>11, <2>1 DEF AsrSound, SameAudio
<1>14. q.next \notin Fed(x) /\ q.next # x.old /\ x.old \in 0 .. Last(x) /\ ~x.over /\ x.batch = <<>>
  BY <1>1, <1>11 DEF Parted, SameMode, SameAudio
<1>15. HandedOver(x) \cap ({0, q.next, x.old} \cup Fed(x)) = {} BY <1>1, <1>11, <1>12 DEF Parted
<1>16. Open(x) \subseteq {q.next, x.old} \cup HandedOver(x) BY <1>1, <1>11, <1>12 DEF Parted
<1>17. Lit(x) \subseteq Fed(x) \cap {x.old} BY <1>1, <1>11 DEF Parted
<1> QED BY <1>2, <1>10, <1>11, <1>13, <1>14, <1>15, <1>16, <1>17 DEF Ready

\* The switch itself.
LEMMA SwitchSound ==
  ASSUME NEW s, AsrSound(s), ~s.over, s.cur # 0, s.next # 0, NEW r \in Switch(s)
  PROVE  AsrSound(r)
<1>1. PICK q \in SendBatch(s) :
        IF q.cur # s.cur THEN r = q
        ELSE r \in Then(Attach(HandingOver(q, s.cur), s.next), EndOld)
  BY DEF Switch, Then, HandingOver
<1>2. /\ AsrSound(q)
      /\ q.cur = s.cur => q.batch = <<>> /\ SameParts(q, s) /\ SameMode(q, s)
  BY SendSound
<1>3. CASE q.cur # s.cur BY <1>1, <1>2, <1>3
<1>4. CASE q.cur = s.cur
  <2>1. ~q.over /\ q.cur # 0 /\ q.next # 0 /\ q.next = s.next /\ q.batch = <<>>
    BY <1>2, <1>4 DEF SameParts, SameMode
  <2>2. PICK x : x = HandingOver(q, q.cur) OBVIOUS
  <2>3. Ready(x, q.next) /\ x.old = q.cur BY <1>2, <2>1, <2>2, HandingReady
  <2>4. PICK a \in Attach(x, q.next) : r \in EndOld(a) BY <1>1, <1>4, <2>1, <2>2 DEF Then
  <2>5. AsrSound(a) /\ a.old = x.old BY <2>3, <2>4, AttachSound
  <2> QED BY <2>1, <2>3, <2>4, <2>5, EndOldSound
<1> QED BY <1>3, <1>4

\* maybeSwitch.
LEMMA MaybeSwitchSound ==
  ASSUME NEW s, AsrSound(s), NEW r \in MaybeSwitch(s)
  PROVE  AsrSound(r)
<1>1. r = s \/ (~s.over /\ s.cur # 0 /\ s.next # 0 /\ r \in Switch(s)) BY DEF MaybeSwitch
<1> QED BY <1>1, SwitchSound

-----------------------------------------------------------------------------
\* finish.
LEMMA FinishSound == ASSUME NEW s, AsrSound(s) PROVE AsrSound(Finish(s))
<1>1. s \in Streams /\ Parted(s) BY DEF AsrSound
<1>2. PICK r : r = Finish(s) OBVIOUS
<1>3. r \in Streams /\ Parted(r) /\ r.over /\ SameParts(r, s) /\ SameAudio(r, s) BY <1>1, <1>2, FinishKeeps
<1>4. AudioLine(r) = AudioLine(s) BY <1>3, SameLine
<1> QED BY <1>2, <1>3, <1>4 DEF AsrSound, SameAudio

\* A step that changes no more than how the stream stands.
LEMMA ModeSound ==
  ASSUME NEW s, AsrSound(s), NEW r \in Streams, r.conns = s.conns, SameParts(r, s), SameAudio(r, s),
         r.over = s.over, (r.dial = "opened") <=> (s.dial = "opened")
  PROVE  AsrSound(r)
<1>1. SameConns(r, s) BY DEF SameConns, Last, Open, Fed, Lit
<1>2. HandedOver(r) = HandedOver(s) BY <1>1 DEF HandedOver, SameConns
<1> QED BY <1>1, <1>2, SoundSame DEF SameConns

\* frame: a frame that is heard is buffered or batched.
FrameHeard(s) == [s EXCEPT !.heard = @ + 1]
FrameQueued(s) == [s EXCEPT !.batch = Append(@, s.heard)]
\* A frame that is heard is in neither yet.
LEMMA HeardIs ==
  ASSUME NEW s, AsrSound(s), NEW t, t = FrameHeard(s)
  PROVE  /\ t \in Streams /\ t.conns = s.conns /\ SameParts(t, s) /\ SameMode(t, s) /\ SameConns(t, s)
         /\ t.sent = s.sent /\ t.batch = s.batch /\ t.buffered = s.buffered /\ t.dropped = s.dropped
         /\ t.heard = s.heard + 1 /\ t.heard \in Nat /\ Parted(t)
         /\ AllHeard(AudioLine(s) \o <<t.heard>>, t.dropped, t.heard) /\ AudioLine(t) = AudioLine(s)
<1>1. s \in Streams /\ Parted(s) BY DEF AsrSound
<1>2. PICK n \in Nat : n = s.heard + 1 BY <1>1 DEF Streams
<1>3. t = [s EXCEPT !.heard = n] BY <1>1, <1>2 DEF FrameHeard, Streams
<1>4. /\ t \in Streams /\ t.conns = s.conns /\ SameParts(t, s) /\ SameMode(t, s)
      /\ t.sent = s.sent /\ t.batch = s.batch /\ t.buffered = s.buffered /\ t.dropped = s.dropped
      /\ t.heard = n
  BY ONLY <1>1, <1>3, n \in Nat DEF Streams, SameParts, SameMode
<1>5. SameConns(t, s) BY <1>4 DEF SameConns, Last, Open, Fed, Lit
<1>6. Parted(t)
  <2>1. HandedOver(t) = HandedOver(s) BY <1>4, <1>5, SameHandedOver DEF SameConns, SameMode
  <2> QED BY <1>1, <1>4, <1>5, <2>1, PartedSame DEF SameMode
<1>7. AllHeard(AudioLine(s) \o <<n>>, s.dropped, n)
  <2>1. PICK q : q = AudioLine(s) OBVIOUS
  <2>2. PICK d : d = s.dropped OBVIOUS
  <2>3. PICK h : h = s.heard OBVIOUS
  <2>4. q \in Seq(Nat) /\ d \in Seq(Nat) /\ h \in Nat /\ AllHeard(q, d, h)
    BY <1>1, <2>1, <2>2, <2>3, LineOf DEF AsrSound, Streams
  <2>5. AllHeard(q \o <<h + 1>>, d, h + 1) BY ONLY <2>4, HeardFrame
  <2> QED BY <1>2, <2>1, <2>2, <2>3, <2>5
<1>8. AudioLine(t) = AudioLine(s) BY <1>4 DEF AudioLine
<1> QED BY <1>2, <1>4, <1>5, <1>6, <1>7, <1>8

\* Without a connection the frame is buffered.
LEMMA BufferedSound ==
  ASSUME NEW s, AsrSound(s), ~s.over, s.cur = 0, NEW r, r = WithBuffered(FrameHeard(s), <<FrameHeard(s).heard>>)
  PROVE  AsrSound(r)
<1>1. PICK t : t = FrameHeard(s) OBVIOUS
<1>2. /\ t \in Streams /\ SameParts(t, s) /\ SameMode(t, s) /\ SameConns(t, s)
      /\ t.batch = s.batch /\ t.heard \in Nat /\ Parted(t)
      /\ AllHeard(AudioLine(s) \o <<t.heard>>, t.dropped, t.heard) /\ AudioLine(t) = AudioLine(s)
  BY <1>1, HeardIs
<1>3. PICK f : f = <<t.heard>> OBVIOUS
<1>4. f \in Seq(Nat) BY <1>2, <1>3
<1>5. AllHeard(AudioLine(t) \o f, t.dropped, t.heard) BY <1>2, <1>3
<1>6. /\ r \in Streams /\ SameConns(r, t) /\ SameParts(r, t) /\ SameMode(r, t)
      /\ r.batch = t.batch /\ AllHeard(AudioLine(r), r.dropped, r.heard)
  BY <1>1, <1>2, <1>3, <1>4, <1>5, BufferKeeps
<1>7. Parted(r)
  <2>1. HandedOver(r) = HandedOver(t) BY <1>6, SameHandedOver DEF SameConns, SameMode
  <2> QED BY <1>2, <1>6, <2>1, PartedSame DEF SameMode
<1> QED BY <1>2, <1>6, <1>7 DEF AsrSound, Batched, SameParts, SameMode

\* With a connection the frame is batched.
LEMMA QueuedSound ==
  ASSUME NEW s, AsrSound(s), ~s.over, s.cur # 0, NEW r, r = FrameQueued(FrameHeard(s))
  PROVE  AsrSound(r) /\ ~r.over
<1>1. PICK t : t = FrameHeard(s) OBVIOUS
<1>2. /\ t \in Streams /\ t.conns = s.conns /\ SameParts(t, s) /\ SameMode(t, s) /\ SameConns(t, s)
      /\ t.sent = s.sent /\ t.batch = s.batch /\ t.buffered = s.buffered /\ t.dropped = s.dropped
      /\ t.heard \in Nat /\ Parted(t)
      /\ AllHeard(AudioLine(s) \o <<t.heard>>, t.dropped, t.heard)
  BY <1>1, HeardIs
<1>3. PICK b : b = Append(t.batch, t.heard) OBVIOUS
<1>4. b \in Seq(Nat) /\ b = t.batch \o <<t.heard>>
  <2>1. PICK q \in Seq(Nat) : q = t.batch BY <1>2 DEF Streams
  <2>2. PICK n \in Nat : n = t.heard BY <1>2
  <2>3. Append(q, n) \in Seq(Nat) /\ Append(q, n) = q \o <<n>> BY AppendIsConcat, AppendProperties
  <2> QED BY <1>3, <2>1, <2>2, <2>3
<1>5. r = [t EXCEPT !.batch = b] BY <1>1, <1>2, <1>3 DEF FrameQueued, Streams
<1>6. /\ r \in Streams /\ r.conns = t.conns /\ SameParts(r, t) /\ SameMode(r, t)
      /\ r.sent = t.sent /\ r.batch = b /\ r.buffered = t.buffered
      /\ r.dropped = t.dropped /\ r.heard = t.heard
  BY ONLY <1>2, <1>4, <1>5 DEF Streams, SameParts, SameMode
<1>7. SameConns(r, t) BY <1>6 DEF SameConns, Last, Open, Fed, Lit
<1>8. Parted(r)
  <2>1. HandedOver(r) = HandedOver(t) BY <1>6, <1>7, SameHandedOver DEF SameConns, SameMode
  <2> QED BY <1>2, <1>6, <1>7, <2>1, PartedSame DEF SameMode
<1>9. s.buffered = <<>> BY DEF AsrSound, Batched
<1>10. AudioLine(r) = AudioLine(s) \o <<t.heard>>
  <2>1. PICK e : e = s.sent OBVIOUS
  <2>2. PICK q : q = s.batch OBVIOUS
  <2>3. PICK f : f = <<t.heard>> OBVIOUS
  <2>4. e \in Seq(Nat) /\ q \in Seq(Nat) /\ f \in Seq(Nat) BY <1>2, <2>1, <2>2, <2>3 DEF AsrSound, Streams
  <2>5. PICK u : u = e \o q OBVIOUS
  <2>6. u \in Seq(Nat) BY ONLY <2>4, <2>5, ConcatProperties
  <2>7. u \o <<>> = u BY ONLY <2>6, ConcatEmptySeq
  <2>8. (e \o q) \o f = e \o (q \o f) BY ONLY <2>4, AudioJoins
  <2>9. u \o f \in Seq(Nat) BY ONLY <2>4, <2>6, ConcatProperties
  <2>10. (u \o f) \o <<>> = u \o f BY ONLY <2>9, ConcatEmptySeq
  <2>11. AudioLine(s) = u BY <1>9, <2>1, <2>2, <2>5, <2>7 DEF AudioLine
  <2>12. AudioLine(r) = (e \o (q \o f)) \o <<>>
    BY <1>2, <1>4, <1>6, <1>9, <2>1, <2>2, <2>3 DEF AudioLine
  <2> QED BY <2>3, <2>5, <2>8, <2>10, <2>11, <2>12
<1> QED BY <1>2, <1>6, <1>8, <1>9, <1>10 DEF AsrSound, Batched, SameParts, SameMode

\* frame, whichever it is.
LEMMA FrameSound == ASSUME AsrSound(asr), Frame, NEW r, r = asr' PROVE AsrSound(r)
<1>1. PICK s : s = asr OBVIOUS
<1>2. AsrSound(s) /\ ~s.over BY <1>1 DEF Frame, AsrStep
<1>3. /\ s.cur = 0 => r = WithBuffered(FrameHeard(s), <<FrameHeard(s).heard>>)
      /\ s.cur # 0 => r = FrameQueued(FrameHeard(s)) \/ r \in SendBatch(FrameQueued(FrameHeard(s)))
  <2>1. PICK t : t = FrameHeard(s) OBVIOUS
  <2>2. t.cur = s.cur BY <1>2, <2>1, HeardIs DEF SameParts
  <2>3. r \in IF t.cur = 0 THEN {WithBuffered(t, <<t.heard>>)}
              ELSE IF Len(FrameQueued(t).batch) >= AsrSendEvery THEN SendBatch(FrameQueued(t)) ELSE {FrameQueued(t)}
    BY <1>1, <2>1 DEF Frame, AsrStep, FrameHeard, FrameQueued
  <2> QED BY <2>1, <2>2, <2>3
<1>4. CASE s.cur = 0 BY <1>2, <1>3, <1>4, BufferedSound
<1>5. CASE s.cur # 0
  <2>1. PICK q : q = FrameQueued(FrameHeard(s)) OBVIOUS
  <2>2. AsrSound(q) /\ ~q.over BY <1>2, <1>5, <2>1, QueuedSound
  <2> QED BY <1>3, <1>5, <2>1, <2>2, SendSound
<1> QED BY <1>4, <1>5

\* endInput.
InputEnded(s) == [NextClosed(s) EXCEPT !.ended = TRUE, !.rotating = FALSE]
\* What endInput does first.
LEMMA InputEndedSound ==
  ASSUME NEW s, AsrSound(s), NEW r, r = InputEnded(s)
  PROVE  AsrSound(r) /\ r.next = 0 /\ r.cur = s.cur /\ r.over = s.over
<1>1. PICK n : n = NextClosed(s) OBVIOUS
<1>2. AsrSound(n) /\ n.next = 0 /\ n.cur = s.cur /\ n.over = s.over
  <2>1. CASE s.next = 0 BY <1>1, <2>1 DEF NextClosed
  <2>2. CASE s.next # 0 BY <1>1, <2>2, NextGone DEF NextClosed, SameMode
  <2> QED BY <2>1, <2>2
<1>3. PICK yes \in BOOLEAN : yes = TRUE BY Zenon
<1>4. PICK no \in BOOLEAN : no = FALSE BY Zenon
<1>5. r = [n EXCEPT !.ended = yes, !.rotating = no] BY <1>1, <1>3, <1>4 DEF InputEnded
<1>6. n \in Streams BY <1>2 DEF AsrSound
<1>7. r \in Streams /\ r.conns = n.conns /\ SameParts(r, n) /\ SameAudio(r, n) /\ r.over = n.over /\ r.dial = n.dial
  BY ONLY <1>5, <1>6, yes \in BOOLEAN, no \in BOOLEAN DEF Streams, SameParts, SameAudio
<1>8. AsrSound(r) BY <1>2, <1>7, ModeSound
<1> QED BY <1>2, <1>7, <1>8 DEF SameParts

\* What endInput does then.
LEMMA EndInputSound == ASSUME AsrSound(asr), EndInput, NEW r, r = asr' PROVE AsrSound(r)
<1>1. PICK s : s = InputEnded(asr) OBVIOUS
<1>2. AsrSound(s) /\ s.next = 0 /\ ~s.over BY <1>1, InputEndedSound DEF EndInput, AsrStep
<1>3. r \in Then(SendBatch(s), EndAlone) \/ r = Finish(s) \/ r = s
  BY <1>1 DEF EndInput, AsrStep, InputEnded
<1>4. CASE r \in Then(SendBatch(s), EndAlone)
  <2>1. PICK q \in SendBatch(s) : r \in EndAlone(q) BY <1>4 DEF Then
  <2>2. AsrSound(q) /\ q.next = 0 BY <1>2, SendSound
  <2> QED BY <2>1, <2>2, EndSound
<1>5. CASE r = Finish(s) BY <1>2, <1>5, FinishSound
<1>6. CASE r = s BY <1>2, <1>6
<1> QED BY <1>3, <1>4, <1>5, <1>6

\* handle.
LEMMA GoAwaySound == ASSUME AsrSound(asr), GoAway, NEW r, r = asr' PROVE AsrSound(r)
<1>1. PICK q : q = Rotate(asr) OBVIOUS
<1>2. AsrSound(q) BY <1>1, RotateSound
<1>3. r \in MaybeSwitch(q) BY <1>1 DEF GoAway, AsrStep
<1> QED BY <1>2, <1>3, MaybeSwitchSound

\* A connection that was fed says something.
LEMMA SaidSound ==
  ASSUME NEW s, AsrSound(s), ~s.over, NEW c \in Owned(s), s.conns[c].fed,
         NEW r, r \in {Lighting(s, c), FinalText(s, c)}
  PROVE  AsrSound(r) /\ SameParts(r, s) /\ r.over = s.over
<1>1. s \in Streams /\ Parted(s) BY DEF AsrSound
<1>2. c \in 1 .. Last(s) BY <1>1 DEF Owned, Parted
<1>3. c \in Fed(s) BY <1>2 DEF Fed
<1>4. c \in {s.cur, s.old} BY <1>1, <1>3 DEF Owned, Parted
<1>5. /\ r \in Streams /\ SameParts(r, s) /\ SameMode(r, s) /\ SameAudio(r, s)
      /\ Last(r) = Last(s) /\ Fed(r) = Fed(s) /\ Open(r) = Open(s) /\ Lit(r) \subseteq Lit(s) \cup {c}
  BY <1>1, <1>2, Told
<1>6. HandedOver(r) = HandedOver(s) BY <1>5, SameHandedOver DEF SameMode
<1>7. Parted(r)
  <2>1. Lit(r) \subseteq Fed(r) \cap {r.cur, r.old} BY <1>1, <1>3, <1>4, <1>5 DEF Parted, SameParts
  <2>2. ~r.over BY <1>5 DEF SameMode
  <2> QED BY <1>1, <1>5, <1>6, <2>1, <2>2 DEF Parted, SameParts
<1>8. AudioLine(r) = AudioLine(s) BY <1>5, SameLine
<1> QED BY <1>5, <1>7, <1>8 DEF AsrSound, SameAudio, SameParts, SameMode, Batched

\* The end of a turn.
LEMMA TurnSound ==
  ASSUME NEW s, AsrSound(s), NEW c, c # 0, NEW r, r = Turn(s, c)
  PROVE  AsrSound(r)
<1>1. CASE c = s.old BY <1>1, RetireSound DEF Turn
<1>2. CASE c # s.old BY <1>2, FinishSound DEF Turn
<1> QED BY <1>1, <1>2

\* An interim.
LEMMA InterimSound == ASSUME AsrSound(asr), NEW c, Interim(c), NEW r, r = asr' PROVE AsrSound(r)
<1>1. PICK q : q = Lighting(asr, c) OBVIOUS
<1>2. AsrSound(q) BY <1>1, SaidSound DEF Interim, AsrStep
<1>3. r \in MaybeSwitch(q) BY <1>1 DEF Interim, AsrStep, Lighting
<1> QED BY <1>2, <1>3, MaybeSwitchSound

\* A final, with the end of its turn or without.
LEMMA FinalSound ==
  ASSUME AsrSound(asr), NEW c, NEW turn \in BOOLEAN, Final(c, turn), NEW r, r = asr'
  PROVE  AsrSound(r)
<1>1. PICK s : s = FinalText(asr, c) OBVIOUS
<1>2. AsrSound(s) BY <1>1, SaidSound DEF Final, AsrStep
<1>3. c # 0 BY DEF Final, Owned
<1>4. PICK q : q = IF turn THEN Turn(s, c) ELSE s OBVIOUS
<1>5. AsrSound(q) BY <1>2, <1>3, <1>4, TurnSound
<1>6. r \in MaybeSwitch(q) BY <1>1, <1>4 DEF Final, AsrStep
<1> QED BY <1>5, <1>6, MaybeSwitchSound

\* The end of a turn alone.
LEMMA TurnEndsSound == ASSUME AsrSound(asr), NEW c, TurnEnds(c), NEW r, r = asr' PROVE AsrSound(r)
<1>1. PICK q : q = Turn(asr, c) OBVIOUS
<1>2. c # 0 BY DEF TurnEnds, Owned
<1>3. AsrSound(q) BY <1>1, <1>2, TurnSound
<1>4. r \in MaybeSwitch(q) BY <1>1 DEF TurnEnds, AsrStep
<1> QED BY <1>3, <1>4, MaybeSwitchSound

\* A connection fails on its own.
LEMMA ConnLostSound == ASSUME AsrSound(asr), NEW c, ConnLost(c), NEW r, r = asr' PROVE AsrSound(r)
<1>1. PICK s : s = asr OBVIOUS
<1>2. PICK f : f = Failing(s) OBVIOUS
<1>3. AsrSound(s) /\ ~s.over /\ c \in Owned(s) /\ r \in LoseConn(f, c)
  BY <1>1, <1>2 DEF ConnLost, AsrStep
<1>4. AsrSound(f) /\ SameParts(f, s) /\ SameMode(f, s) BY <1>2, <1>3, FailsSound
<1>5. c \in Owned(f) /\ ~f.over BY <1>3, <1>4 DEF Owned, SameParts, SameMode
<1> QED BY <1>3, <1>4, <1>5, LoseSound

\* dialed, with a connection: what is left when it is taken from the dialler.
Taken(s) == [[s EXCEPT !.dial = "none"] EXCEPT !.retries = 0]
\* The connection is open and has no part in the stream yet.
LEMMA TakenIs ==
  ASSUME NEW s, AsrSound(s), s.dial = "opened", NEW up, up = Taken(s)
  PROVE  /\ up \in Streams /\ up.conns = s.conns /\ SameParts(up, s) /\ SameAudio(up, s)
         /\ up.ended = s.ended /\ up.over = s.over /\ HandedOver(up) = {} /\ HandedOver(s) = {Last(s)}
         /\ Last(s) \in 1 .. Last(s) /\ Last(s) \notin {s.cur, s.next, s.old} \cup Fed(s) \cup Lit(s)
         /\ Last(up) = Last(s) /\ Fed(up) = Fed(s) /\ Lit(up) = Lit(s) /\ Open(up) = Open(s)
         /\ Open(s) \subseteq {s.cur, s.next, s.old, Last(s)}
<1>1. s \in Streams /\ Parted(s) BY DEF AsrSound
<1>2. HandedOver(s) = {Last(s)} BY DEF HandedOver
<1>3. Last(s) \in Nat BY <1>1 DEF Streams, Last
<1>4. Last(s) \notin {0, s.cur, s.next, s.old} \cup Fed(s) BY <1>1, <1>2 DEF Parted
<1>5. Last(s) \in 1 .. Last(s) BY <1>3, <1>4
<1>6. Last(s) \notin Lit(s) /\ Open(s) \subseteq {s.cur, s.next, s.old, Last(s)} BY <1>1, <1>2, <1>4 DEF Parted
<1>7. PICK d : d = [s EXCEPT !.dial = "none"] OBVIOUS
<1>8. /\ d \in Streams /\ d.conns = s.conns /\ SameParts(d, s) /\ SameAudio(d, s)
      /\ d.ended = s.ended /\ d.over = s.over /\ d.dial = "none"
  BY ONLY <1>1, <1>7 DEF Streams, SameParts, SameAudio
<1>9. up = [d EXCEPT !.retries = 0] BY <1>7 DEF Taken
<1>10. /\ up \in Streams /\ up.conns = d.conns /\ SameParts(up, d) /\ SameAudio(up, d)
       /\ up.ended = d.ended /\ up.over = d.over /\ up.dial = d.dial
  BY ONLY <1>8, <1>9 DEF Streams, SameParts, SameAudio
<1>11. HandedOver(up) = {} BY <1>8, <1>10 DEF HandedOver
<1>12. Last(up) = Last(s) /\ Fed(up) = Fed(s) /\ Lit(up) = Lit(s) /\ Open(up) = Open(s)
  BY <1>8, <1>10 DEF Last, Open, Fed, Lit
<1> QED BY <1>2, <1>4, <1>5, <1>6, <1>8, <1>10, <1>11, <1>12 DEF SameParts, SameAudio

\* A stream without a connection takes it.
LEMMA TakenReady ==
  ASSUME NEW s, AsrSound(s), ~s.over, s.dial = "opened", s.cur = 0, NEW up, up = Taken(s)
  PROVE  Ready(up, Last(s))
<1>1. /\ up \in Streams /\ SameParts(up, s) /\ SameAudio(up, s)
      /\ up.over = s.over /\ HandedOver(up) = {}
      /\ Last(s) \in 1 .. Last(s) /\ Last(s) \notin {s.cur, s.next, s.old} \cup Fed(s) \cup Lit(s)
      /\ Last(up) = Last(s) /\ Fed(up) = Fed(s) /\ Lit(up) = Lit(s) /\ Open(up) = Open(s)
      /\ Open(s) \subseteq {s.cur, s.next, s.old, Last(s)}
  BY TakenIs
<1>2. Parted(s) /\ s.batch = <<>> /\ s.next = 0 BY DEF AsrSound, Batched, Parted
<1>3. AudioLine(up) = AudioLine(s) BY <1>1, SameLine
<1>4. AllHeard(AudioLine(up), up.dropped, up.heard) BY <1>1, <1>3 DEF AsrSound, SameAudio
<1>5. 0 \notin Open(s) /\ 0 \notin Fed(s) BY DEF Open, Fed
<1>6. Open(up) \subseteq {Last(s), up.old} BY <1>1, <1>2, <1>5 DEF SameParts
<1>7. Lit(up) \subseteq Fed(up) \cap {up.old} BY <1>1, <1>2, <1>5 DEF SameParts, Parted
<1>8. up.old \in 0 .. Last(up) /\ up.next = 0 /\ up.batch = <<>> /\ Last(s) # up.old
  BY <1>1, <1>2 DEF SameParts, SameAudio, Parted
<1> QED BY <1>1, <1>4, <1>6, <1>7, <1>8 DEF Ready

\* A stream with one keeps it as the next, or closes it.
LEMMA UnwantedSound ==
  ASSUME NEW s, AsrSound(s), s.dial = "opened", NEW up, up = Taken(s), NEW r,
         \/ r = CloseConn(up, Last(s))
         \/ s.cur # 0 /\ s.next = 0 /\ r = [up EXCEPT !.next = Last(s)]
  PROVE  AsrSound(r)
<1>1. /\ up \in Streams /\ SameParts(up, s) /\ SameAudio(up, s)
      /\ up.over = s.over /\ HandedOver(up) = {}
      /\ Last(s) \in 1 .. Last(s) /\ Last(s) \notin {s.cur, s.next, s.old} \cup Fed(s) \cup Lit(s)
      /\ Last(up) = Last(s) /\ Fed(up) = Fed(s) /\ Lit(up) = Lit(s) /\ Open(up) = Open(s)
      /\ Open(s) \subseteq {s.cur, s.next, s.old, Last(s)}
  BY TakenIs
<1>2. Parted(s) BY DEF AsrSound
<1>3. CASE r = CloseConn(up, Last(s))
  <2>1. PICK c \in 1 .. Last(up) : c = Last(s) BY <1>1
  <2>2. /\ r \in Streams /\ SameParts(r, up) /\ SameMode(r, up) /\ SameAudio(r, up)
        /\ Last(r) = Last(up) /\ Fed(r) = Fed(up) /\ Lit(r) = Lit(up) /\ Open(r) = Open(up) \ {c}
    BY <1>1, <1>3, <2>1, ConnClosed
  <2>3. HandedOver(r) = {} BY <1>1, <2>2, SameHandedOver DEF SameMode
  <2>4. Open(r) \subseteq {s.cur, s.next, s.old} BY <1>1, <2>1, <2>2
  <2>5. Parted(r) BY <1>1, <1>2, <2>2, <2>3, <2>4 DEF Parted, SameParts, SameMode
  <2>6. AudioLine(r) = AudioLine(s) BY <1>1, <2>2, SameLine DEF SameAudio
  <2> QED BY <1>1, <2>2, <2>5, <2>6 DEF AsrSound, SameAudio, SameParts, SameMode, Batched
<1>4. CASE s.cur # 0 /\ s.next = 0 /\ r = [up EXCEPT !.next = Last(s)]
  <2>1. PICK c \in Nat : c = Last(s) BY <1>1
  <2>2. r = [up EXCEPT !.next = c] BY <1>4, <2>1
  <2>3. /\ r \in Streams /\ r.conns = up.conns /\ r.cur = up.cur /\ r.old = up.old /\ r.next = c
        /\ SameMode(r, up) /\ SameAudio(r, up)
    BY ONLY <1>1, <2>2, c \in Nat DEF Streams, SameMode, SameAudio
  <2>4. /\ Last(r) = Last(s) /\ Fed(r) = Fed(s) /\ Lit(r) = Lit(s) /\ Open(r) = Open(s)
        /\ r.cur = s.cur /\ r.old = s.old /\ r.over = s.over
    BY <1>1, <2>3 DEF Last, Fed, Lit, Open, SameParts, SameMode
  <2>5. HandedOver(r) = {} BY <1>1, <2>3, <2>4, SameHandedOver DEF SameMode
  <2>6. {r.cur, r.next, r.old} \subseteq 0 .. Last(r) BY <1>1, <1>2, <2>1, <2>3, <2>4 DEF Parted
  <2>7. Open(r) \subseteq {r.cur, r.next, r.old}
    <3>1. 0 \notin Open(s) BY DEF Open
    <3> QED BY <1>1, <1>4, <2>1, <2>3, <2>4, <3>1
  <2>8. r.cur # 0 => r.cur \notin {r.next, r.old} BY <1>1, <1>2, <2>1, <2>3, <2>4 DEF Parted
  <2>9. r.next # 0 => r.cur # 0 /\ r.next # r.old BY <1>1, <1>4, <2>1, <2>3, <2>4
  <2>10. r.next \notin Fed(r) BY <1>1, <2>1, <2>3, <2>4
  <2>11. Parted(r) BY <1>2, <2>4, <2>5, <2>6, <2>7, <2>8, <2>9, <2>10 DEF Parted
  <2>12. AudioLine(r) = AudioLine(s) BY <1>1, <2>3, SameLine DEF SameAudio
  <2> QED BY <1>1, <2>3, <2>4, <2>11, <2>12 DEF AsrSound, SameAudio, Batched
<1> QED BY <1>3, <1>4

\* dialed, with a connection.
LEMMA DialedSound == ASSUME AsrSound(asr), Dialed, NEW r, r = asr' PROVE AsrSound(r)
<1>1. PICK s : s = asr OBVIOUS
<1>2. PICK up : up = Taken(s) OBVIOUS
<1>3. AsrSound(s) /\ ~s.over /\ s.dial = "opened" BY <1>1 DEF Dialed, AsrStep
<1>4. PICK d : d = [s EXCEPT !.dial = "none"] OBVIOUS
<1>5. d.cur = s.cur /\ d.next = s.next /\ d.ended = s.ended /\ Len(d.conns) = Last(s)
  BY <1>3, <1>4 DEF AsrSound, Streams, Last
<1>6. up = [d EXCEPT !.retries = 0] BY <1>2, <1>4 DEF Taken
<1>7. r \in IF d.cur = 0 THEN Attach(up, Len(d.conns))
            ELSE IF Unwanted(d) THEN {CloseConn(up, Len(d.conns))}
            ELSE MaybeSwitch([up EXCEPT !.next = Len(d.conns)])
  BY <1>1, <1>4, <1>6 DEF Dialed, AsrStep
<1>8. CASE s.cur = 0
  <2>1. r \in Attach(up, Last(s)) BY <1>5, <1>7, <1>8
  <2> QED BY <1>2, <1>3, <1>8, <2>1, TakenReady, AttachSound
<1>9. CASE s.cur # 0 /\ r = CloseConn(up, Last(s)) BY <1>2, <1>3, <1>9, UnwantedSound
<1>10. CASE s.cur # 0 /\ s.next = 0 /\ r \in MaybeSwitch([up EXCEPT !.next = Last(s)])
  <2>1. PICK q : q = [up EXCEPT !.next = Last(s)] OBVIOUS
  <2>2. AsrSound(q) BY <1>2, <1>3, <1>10, <2>1, UnwantedSound
  <2> QED BY <1>10, <2>1, <2>2, MaybeSwitchSound
<1> QED BY <1>5, <1>7, <1>8, <1>9, <1>10 DEF Unwanted

\* dialed, with an error.
LEMMA DialFailedSound == ASSUME AsrSound(asr), DialFailed, NEW r, r = asr' PROVE AsrSound(r)
<1>1. PICK s : s = asr OBVIOUS
<1>2. AsrSound(s) /\ ~s.over /\ s.dial = "failed" /\ s \in Streams
  BY <1>1 DEF DialFailed, AsrStep, AsrSound
<1>3. PICK n \in Nat : n = s.retries + 1 BY <1>2 DEF Streams
<1>4. PICK d : d = [s EXCEPT !.dial = "none", !.retries = n] OBVIOUS
<1>5. /\ d \in Streams /\ d.conns = s.conns /\ SameParts(d, s) /\ SameAudio(d, s)
      /\ d.over = s.over /\ d.dial = "none"
  BY ONLY <1>2, <1>4, n \in Nat DEF Streams, SameParts, SameAudio
<1>6. AsrSound(d) BY <1>2, <1>5, ModeSound
<1>7. PICK t : t = [d EXCEPT !.dial = "retry"] OBVIOUS
<1>8. /\ t \in Streams /\ t.conns = d.conns /\ SameParts(t, d) /\ SameAudio(t, d)
      /\ t.over = d.over /\ t.dial = "retry"
  BY ONLY <1>5, <1>7 DEF Streams, SameParts, SameAudio
<1>9. AsrSound(t) BY <1>5, <1>6, <1>8, ModeSound
<1>10. d = [s EXCEPT !.dial = "none", !.retries = @ + 1] BY <1>2, <1>3, <1>4 DEF Streams
<1>11. r \in {Finish(d), d, t} BY <1>1, <1>7, <1>10 DEF DialFailed, AsrStep
<1> QED BY <1>6, <1>9, <1>11, FinishSound

\* The next try.
LEMMA RetrySound == ASSUME AsrSound(asr), RetryFires, NEW r, r = asr' PROVE AsrSound(r)
<1>1. PICK s : s = asr OBVIOUS
<1>2. AsrSound(s) /\ s \in Streams /\ s.dial = "retry" /\ r = [s EXCEPT !.dial = "dialing"]
  BY <1>1 DEF RetryFires, AsrStep, AsrSound
<1>3. /\ r \in Streams /\ r.conns = s.conns /\ SameParts(r, s) /\ SameAudio(r, s)
      /\ r.over = s.over /\ r.dial = "dialing"
  BY ONLY <1>2 DEF Streams, SameParts, SameAudio
<1> QED BY <1>2, <1>3, ModeSound

\* The dialler: a connection opens, or not.
LEMMA NewConnIs == NewConn \in AsrConns /\ NewConn.open /\ ~NewConn.fed /\ ~NewConn.line
<1>1. PICK yes \in BOOLEAN : yes = TRUE BY Zenon
<1>2. PICK no \in BOOLEAN : no = FALSE BY Zenon
<1>3. PICK conn : conn = [open |-> yes, fed |-> no, line |-> no, flushed |-> no, ending |-> no] OBVIOUS
<1>4. conn \in AsrConns BY <1>3 DEF AsrConns
<1>5. conn.open = yes /\ conn.fed = no /\ conn.line = no BY <1>3
<1>6. NewConn = conn BY <1>1, <1>2, <1>3 DEF NewConn
<1> QED BY <1>1, <1>2, <1>4, <1>5, <1>6

\* A connection opens.
LEMMA DialOpensSound == ASSUME AsrSound(asr), DialOpens, NEW r, r = asr' PROVE AsrSound(r)
<1>1. PICK s : s = asr OBVIOUS
<1>2. AsrSound(s) /\ s \in Streams /\ Parted(s) /\ s.dial = "dialing" /\ ~s.over
      /\ r = [s EXCEPT !.dial = "opened", !.conns = Append(s.conns, NewConn)]
  BY <1>1 DEF DialOpens, AsrSound
<1>3. PICK q \in Seq(AsrConns) : q = s.conns BY <1>2 DEF Streams
<1>4. PICK conn \in AsrConns : conn = NewConn /\ conn.open /\ ~conn.fed /\ ~conn.line BY NewConnIs
<1>5. PICK n \in Nat : n = Len(q) BY LenProperties
<1>6. PICK p : p = Append(q, conn) OBVIOUS
<1>7. p \in Seq(AsrConns) /\ Len(p) = n + 1 /\ p[n + 1] = conn /\ \A i \in 1 .. n : p[i] = q[i]
  BY <1>5, <1>6, AppendProperties
<1>8. PICK u : u = [s EXCEPT !.dial = "opened"] OBVIOUS
<1>9. u \in Streams /\ SameParts(u, s) /\ SameAudio(u, s) /\ u.over = s.over /\ u.dial = "opened"
  BY ONLY <1>2, <1>8 DEF Streams, SameParts, SameAudio
<1>10. r = [u EXCEPT !.conns = p] BY <1>2, <1>3, <1>4, <1>6, <1>8
<1>11. r \in Streams /\ r.conns = p /\ SameParts(r, u) /\ SameAudio(r, u) /\ r.over = u.over /\ r.dial = u.dial
  BY ONLY <1>7, <1>9, <1>10 DEF Streams, SameParts, SameAudio
<1>12. Last(s) = n /\ Last(r) = n + 1 BY <1>3, <1>5, <1>7, <1>11 DEF Last
<1>13. Open(r) = Open(s) \cup {n + 1} BY <1>3, <1>4, <1>7, <1>11, <1>12 DEF Open
<1>14. Fed(r) = Fed(s) BY <1>3, <1>4, <1>7, <1>11, <1>12 DEF Fed
<1>15. Lit(r) = Lit(s) BY <1>3, <1>4, <1>7, <1>11, <1>12 DEF Lit
<1>16. HandedOver(r) = {n + 1} /\ HandedOver(s) = {} BY <1>2, <1>9, <1>11, <1>12 DEF HandedOver
<1>17. r.cur = s.cur /\ r.next = s.next /\ r.old = s.old /\ ~r.over
  BY <1>2, <1>9, <1>11 DEF SameParts
<1>18. Parted(r)
  <2>1. {r.cur, r.next, r.old} \subseteq 0 .. Last(r) BY <1>2, <1>12, <1>17 DEF Parted
  <2>2. HandedOver(r) \cap ({0, r.cur, r.next, r.old} \cup Fed(r)) = {}
    <3>1. n + 1 \notin 0 .. n /\ 0 \in 0 .. n OBVIOUS
    <3>2. Fed(s) \subseteq 0 .. n BY <1>12 DEF Fed
    <3> QED BY <1>2, <1>12, <1>14, <1>16, <1>17, <3>1, <3>2 DEF Parted
  <2>3. Open(r) \subseteq {r.cur, r.next, r.old} \cup HandedOver(r) BY <1>2, <1>13, <1>16, <1>17 DEF Parted
  <2> QED BY <1>2, <1>14, <1>15, <1>17, <2>1, <2>2, <2>3 DEF Parted
<1>19. AudioLine(r) = AudioLine(s) BY <1>9, <1>11, SameLine DEF SameAudio
<1> QED BY <1>2, <1>9, <1>11, <1>17, <1>18, <1>19 DEF AsrSound, SameAudio, Batched

\* A connection does not.
LEMMA DialFailsSound == ASSUME AsrSound(asr), DialFails, NEW r, r = asr' PROVE AsrSound(r)
<1>1. PICK f : f = Failing(asr) OBVIOUS
<1>2. AsrSound(f) /\ f \in Streams /\ f.dial = "dialing"
  BY <1>1, FailsSound DEF DialFails, AsrSound, SameMode
<1>3. r = [f EXCEPT !.dial = "failed"] BY <1>1 DEF DialFails
<1>4. /\ r \in Streams /\ r.conns = f.conns /\ SameParts(r, f) /\ SameAudio(r, f)
      /\ r.over = f.over /\ r.dial = "failed"
  BY ONLY <1>2, <1>3 DEF Streams, SameParts, SameAudio
<1> QED BY <1>2, <1>4, ModeSound

\* onTick.
LEMMA TickSound == ASSUME AsrSound(asr), Tick, NEW r, r = asr' PROVE AsrSound(r)
<1>1. PICK z : z = asr OBVIOUS
<1>2. AsrSound(z) BY <1>1
<1>3. r \in Then(Then(Then(TickRotates(z), TickFlushes), TickRetires), TickEnds)
  BY <1>1 DEF Tick, AsrStep
<1>7. PICK c \in Then(Then(TickRotates(z), TickFlushes), TickRetires) : r \in TickEnds(c)
  BY ONLY <1>3 DEF Then
<1>8. PICK b \in Then(TickRotates(z), TickFlushes) : c \in TickRetires(b) BY ONLY <1>7 DEF Then
<1>9. PICK a \in TickRotates(z) : b \in TickFlushes(a) BY ONLY <1>8 DEF Then
<1>4. AsrSound(a)
  <2>1. CASE a = z BY <1>2, <2>1
  <2>2. CASE a # z
    <3>1. PICK q \in {z, Rotate(z), StartDial(z)} : a \in MaybeSwitch(q)
      BY <1>9, <2>2 DEF TickRotates, Then
    <3>2. AsrSound(q) BY <1>2, <3>1, RotateSound, DialSound
    <3> QED BY <3>1, <3>2, MaybeSwitchSound
  <2> QED BY <2>1, <2>2
<1>5. AsrSound(b)
  <2>1. CASE b = a BY <1>4, <2>1
  <2>2. CASE b # a
    <3>1. PICK d \in {a.cur, a.old} \ {0} : b = FlushedLine(a, d) BY <1>9, <2>2 DEF TickFlushes
    <3>2. a \in Streams /\ d \in 1 .. Last(a) BY <1>4, <3>1 DEF AsrSound, Parted
    <3>3. /\ b \in Streams /\ SameParts(b, a) /\ SameMode(b, a) /\ SameAudio(b, a)
          /\ Last(b) = Last(a) /\ Fed(b) = Fed(a) /\ Open(b) = Open(a) /\ Lit(b) = Lit(a) \ {d}
      BY <3>1, <3>2, LineFlushed
    <3>4. HandedOver(b) = HandedOver(a) BY <3>3, SameHandedOver DEF SameMode
    <3> QED BY <1>4, <3>3, <3>4, SoundSame DEF SameMode
  <2> QED BY <2>1, <2>2
<1>6. AsrSound(c) BY <1>5, <1>8, RetireSound DEF TickRetires
<1> QED BY <1>6, <1>7, FinishSound DEF TickEnds

-----------------------------------------------------------------------------
\* The stream that Stream starts.
LEMMA NewStreamSound == ASSUME NEW s, s = NewStream PROVE AsrSound(s)
<1>1. PICK conn \in AsrConns : conn = NewConn /\ conn.open /\ ~conn.fed /\ ~conn.line BY NewConnIs
<1>2. PICK q : q = <<conn>> OBVIOUS
<1>3. q \in Seq(AsrConns) /\ Len(q) = 1 /\ q[1] = conn BY <1>2
<1>4. PICK e \in Seq(Nat) : e = <<>> BY NoAudio
<1>5. s = [conns |-> q, cur |-> 1, next |-> 0, old |-> 0, dial |-> "none", retries |-> 0, rotating |-> FALSE,
           batch |-> e, buffered |-> e, heard |-> 0, sent |-> e, dropped |-> e,
           ended |-> FALSE, over |-> FALSE, fails |-> AsrMaxFails]
  BY <1>1, <1>2, <1>4 DEF NewStream
<1>6. AsrMaxFails \in Int BY AsrAssumption DEF AsrAssumption
<1>7. s \in Streams BY ONLY <1>3, <1>5, <1>6, e \in Seq(Nat) DEF Streams
<1>8. Last(s) = 1 /\ Open(s) \subseteq {1} /\ Fed(s) = {} /\ Lit(s) = {}
  <2>1. s.conns = q BY <1>5
  <2>2. Last(s) = 1 BY <1>3, <2>1 DEF Last
  <2> QED BY <1>1, <1>3, <2>1, <2>2 DEF Open, Fed, Lit
<1>9. HandedOver(s) = {}
  <2>1. s.dial = "none" BY <1>5
  <2> QED BY <2>1 DEF HandedOver
<1>10. Parted(s)
  <2>1. s.cur = 1 /\ s.next = 0 /\ s.old = 0 BY <1>5
  <2>2. {0, 1} \subseteq 0 .. 1 OBVIOUS
  <2> QED BY <1>8, <1>9, <2>1, <2>2 DEF Parted
<1>11. AllHeard(e, e, 0) BY <1>4 DEF AllHeard, Rising, FramesOf
<1>12. AudioLine(s) = e
  <2>1. e \o e = e BY <1>4, ConcatEmptySeq
  <2> QED BY <1>5, <2>1 DEF AudioLine
<1> QED BY <1>4, <1>5, <1>7, <1>10, <1>11, <1>12 DEF AsrSound, Batched

\* What a sound stream is, as the run says it.
LEMMA SoundHolds == ASSUME AsrSound(asr) PROVE StreamSound
<1>1. PICK s : s = asr OBVIOUS
<1>2. AsrSound(s) /\ s \in Streams /\ Parted(s) BY <1>1 DEF AsrSound
<1>3. DOMAIN s.conns = 1 .. Last(s) BY <1>2 DEF Streams, Last
<1>4. AudioInLine
  <2>1. PICK q : q = AudioLine(s) OBVIOUS
  <2>2. PICK d : d = s.dropped OBVIOUS
  <2>3. q \in Seq(Nat) /\ d \in Seq(Nat) BY <1>2, <2>1, <2>2, LineOf DEF Streams
  <2>4. DOMAIN q = 1 .. Len(q) /\ DOMAIN d = 1 .. Len(d) BY <2>3
  <2>5. AllHeard(q, d, s.heard) BY <1>2, <2>1, <2>2 DEF AsrSound
  <2>6. \A i, j \in DOMAIN q : i < j => q[i] < q[j] BY <2>4, <2>5 DEF AllHeard, Rising
  <2>7. \A f \in 1 .. s.heard : (\E i \in DOMAIN q : q[i] = f) # (\E i \in DOMAIN d : d[i] = f)
    <3> SUFFICES ASSUME NEW f \in 1 .. s.heard
                 PROVE  (\E i \in DOMAIN q : q[i] = f) # (\E i \in DOMAIN d : d[i] = f)
      OBVIOUS
    <3>1. (f \in FramesOf(q) \/ f \in FramesOf(d)) /\ ~(f \in FramesOf(q) /\ f \in FramesOf(d))
      BY <2>5 DEF AllHeard
    <3>2. (f \in FramesOf(q)) <=> (\E i \in DOMAIN q : q[i] = f) BY <2>4 DEF FramesOf
    <3>3. (f \in FramesOf(d)) <=> (\E i \in DOMAIN d : d[i] = f) BY <2>4 DEF FramesOf
    <3> QED BY <3>1, <3>2, <3>3
  <2>8. q = asr.sent \o asr.batch \o asr.buffered /\ d = asr.dropped /\ s.heard = asr.heard
    BY <1>1, <2>1, <2>2 DEF AudioLine
  <2> QED BY ONLY ZenonT(40), <2>6, <2>7, <2>8 DEF AudioInLine
<1>5. ConnsOwned
  <2> SUFFICES ASSUME NEW c \in DOMAIN asr.conns, asr.conns[c].open
               PROVE  c \in Owned(asr) \/ (asr.dial = "opened" /\ c = Len(asr.conns))
    BY DEF ConnsOwned
  <2>1. c \in Open(s) /\ c # 0 BY <1>1, <1>3 DEF Open
  <2> QED BY <1>1, <1>2, <2>1 DEF Parted, Owned, HandedOver, Last
<1>6. LinesEnd
  <2> SUFFICES ASSUME NEW c \in DOMAIN asr.conns, asr.conns[c].line
               PROVE  ~asr.over /\ c \in {asr.cur, asr.old}
    BY DEF LinesEnd
  <2>1. c \in Lit(s) BY <1>1, <1>3 DEF Lit
  <2> QED BY <1>1, <1>2, <2>1 DEF Parted
<1> QED BY <1>4, <1>5, <1>6 DEF StreamSound, NoneStranded

\* Every step keeps a stream sound.
LEMMA AsrNextSound == ASSUME AsrSound(asr), AsrNext, NEW r, r = asr' PROVE AsrSound(r)
<1>1. CASE Frame BY <1>1, FrameSound
<1>2. CASE EndInput BY <1>2, EndInputSound
<1>3. CASE GoAway BY <1>3, GoAwaySound
<1>4. CASE Tick BY <1>4, TickSound
<1>5. ASSUME NEW c \in DOMAIN asr.conns, Interim(c) PROVE AsrSound(r) BY <1>5, InterimSound
<1>6. ASSUME NEW c \in DOMAIN asr.conns, TurnEnds(c) PROVE AsrSound(r) BY <1>6, TurnEndsSound
<1>7. ASSUME NEW c \in DOMAIN asr.conns, ConnLost(c) PROVE AsrSound(r) BY <1>7, ConnLostSound
<1>8. ASSUME NEW c \in DOMAIN asr.conns, NEW turn \in BOOLEAN, Final(c, turn) PROVE AsrSound(r)
  BY <1>8, FinalSound
<1>9. CASE Dialed BY <1>9, DialedSound
<1>10. CASE DialFailed BY <1>10, DialFailedSound
<1>11. CASE RetryFires BY <1>11, RetrySound
<1>12. CASE DialOpens BY <1>12, DialOpensSound
<1>13. CASE DialFails BY <1>13, DialFailsSound
<1> QED BY <1>1, <1>2, <1>3, <1>4, <1>5, <1>6, <1>7, <1>8, <1>9, <1>10, <1>11, <1>12, <1>13 DEF AsrNext

\* However often a recognition stream rotates, loses its connection or dials
\* again, each frame it was given is at one connection, batched, waiting or was
\* dropped from a full buffer, in order; every open connection has a part in the
\* stream; every line on screen is one whose final is still to come.
THEOREM StreamAlwaysSound == AsrSpec => []StreamSound
<1>1. AsrInit => AsrSound(asr) BY NewStreamSound DEF AsrInit
<1>2. AsrSound(asr) /\ [AsrNext]_asr => AsrSound(asr)'
  <2> SUFFICES ASSUME AsrSound(asr), [AsrNext]_asr PROVE AsrSound(asr)' OBVIOUS
  <2>1. PICK r : r = asr' OBVIOUS
  <2>2. AsrSound(r)
    <3>1. CASE AsrNext BY <2>1, <3>1, AsrNextSound
    <3>2. CASE UNCHANGED asr BY <2>1, <3>2
    <3> QED BY <3>1, <3>2
  <2> QED BY <2>1, <2>2
<1>3. AsrSound(asr) => StreamSound BY SoundHolds
<1> QED BY <1>1, <1>2, <1>3, PTL DEF AsrSpec

-----------------------------------------------------------------------------
(* StreamCaptions.  Types *)

SinkResults == {"none", "ok", "rejected", "failed", "no_url"}
SinkRecs ==
  [pc : SinkPlaces, obj : Nat, first : Opt(Urls), url : Opt(Urls), queue : Seq(Nat),
   closing : BOOLEAN, seen : Seq(Runs \X Nat), wake : BOOLEAN, cancelled : BOOLEAN,
   timer : BOOLEAN, item : Nat, seq : Nat, arrived : BOOLEAN, result : SinkResults,
   dropped : Nat, reported : Nat, settled : Nat]
Posts == [by : 0 .. MaxRuns, item : Nat, seq : Nat, obj : Nat]
Objects == forgets + left.forgets + 1

StreamTypes ==
  /\ run \in [Runs -> {"new", "read", "registered", "closed", "live", "over", "ending", "ended"}]
  /\ tookOut \in [Runs -> 0 .. MaxRuns]
  /\ offer \in [Runs -> [sink : 0 .. MaxRuns, caption : Nat]]
  /\ newest \in [Runs -> Nat]
  /\ sinkOf \in 0 .. MaxRuns
  /\ cur \in Nat /\ made \in Nat /\ cur <= made
  /\ seq \in [1 .. Objects -> Nat]
  /\ status \in StatusType
  /\ sink \in [Runs -> SinkRecs]
  /\ accepted \in [Runs -> Seq(Runs \X Nat)]
  /\ received \in Seq(Posts)
  /\ stored \in Opt(Urls) /\ setter \in Opt(Urls) \cup {Off}
  /\ test \in [pc : {"idle", "seq", "post", "status", "nil"}, obj : Nat, seq : Nat, arrived : BOOLEAN,
               result : SinkResults]
  /\ tests \in Nat
  /\ forget \in [pc : {"idle", "close", "drop", "secret"}, sink : 0 .. MaxRuns] /\ forgets \in Nat
  /\ shut \in BOOLEAN
  /\ left \in [runs : Nat, finals : Nat, urls : Nat, tests : Nat, forgets : Nat]

-----------------------------------------------------------------------------
(* The inductive invariant *)

AtRest == {"none", "made", "next", "wait"}
InHand == {"deliver", "post", "record", "backoff"}
HasLeft == {"leave", "settle", "gone"}

\* What a sink has in hand at the places of its loop.
SinkShape(s, n) ==
  /\ s.pc = "none" => s = [NoSink EXCEPT !.first = s.first] /\ n = 0
  /\ s.pc \in AtRest => s.item = 0 /\ s.seq = 0
  /\ s.pc \in InHand => s.item >= 1
  /\ s.pc = "post" => s.seq >= 1
  /\ s.pc = "record" => s.result # "none"
  /\ s.pc = "wait" /\ (s.queue # <<>> \/ s.closing) => s.wake \/ s.cancelled
  /\ s.cancelled \/ s.timer \/ s.pc \in HasLeft => s.closing
  /\ ~s.cancelled /\ s.pc \in HasLeft => s.queue = <<>>
  /\ s.pc \in {"settle", "gone"} => s.dropped = 0

\* Each of the n captions accepted is settled, reported, about to be, queued
\* or in hand.
Tally(s, n) ==
  ~s.cancelled =>
    s.settled + s.reported + s.dropped + Len(s.queue) + (IF s.pc \in InHand THEN 1 ELSE 0) = n

\* The queue ascends, after what is in hand, up to what was accepted last.
QueueOrder(s, n) ==
  /\ Len(s.queue) <= QueueSize
  /\ s.item <= n
  /\ \A i \in 1 .. Len(s.queue) : s.item < s.queue[i] /\ s.queue[i] <= n
  /\ \A i, j \in 1 .. Len(s.queue) : i < j => s.queue[i] < s.queue[j]

SinkSound(s, n) == SinkShape(s, n) /\ Tally(s, n) /\ QueueOrder(s, n)
SinksSound == \A k \in Runs : SinkSound(sink[k], Len(accepted[k]))

\* A registered sink works; one that was taken out is not the registered one.
Works(s) == s.pc # "none" /\ ~s.closing
OutOf(k) == k # 0 => k # sinkOf /\ sink[k].pc # "none"
Registered ==
  /\ sinkOf # 0 => Works(sink[sinkOf])
  /\ OutOf(forget.sink)
  /\ \A r \in Runs :
       /\ OutOf(tookOut[r])
       /\ offer[r].sink # 0 => sink[offer[r].sink].pc # "none"
       /\ run[r] \in {"new", "read"} => sink[r].pc = "none"
       /\ run[r] \in {"registered", "closed"} => sink[r].pc = "made"

\* There are as many state objects as the deletions allow.
Dropping == IF forget.pc \in {"close", "drop"} THEN 1 ELSE 0
ObjectsMade ==
  /\ made + Dropping <= forgets + (IF cur = 0 THEN 0 ELSE 1)
  /\ \A k \in Runs : sink[k].pc # "none" => sink[k].obj \in 1 .. Objects

\* A status that tells of a delivery is a test's or of a sink that goes on.
Quiet == {"none", "idle", "disabled"}
StatusKept ==
  /\ status.state \notin Quiet => tests > 0 \/ \E k \in Runs : sink[k].pc \notin {"none", "gone"}
  /\ test.pc # "idle" => tests > 0

\* Who has a number: what reached YouTube, captions in hand, a test.
Sent == {received[i] : i \in 1 .. Len(received)}
HeldBy(k) == [by |-> k, item |-> sink[k].item, seq |-> sink[k].seq, obj |-> sink[k].obj]
Held == {HeldBy(k) : k \in {r \in Runs : sink[r].seq # 0}}
TestPost == [by |-> 0, item |-> tests, seq |-> test.seq, obj |-> test.obj]
Holders == Sent \cup Held \cup (IF test.pc = "post" THEN {TestPost} ELSE {})

Agree(a, b) == a.obj = b.obj => (a.seq = b.seq <=> a.by = b.by /\ a.item = b.item)
Numbered ==
  /\ \A a \in Holders : a.obj \in 1 .. Objects /\ 1 <= a.seq /\ a.seq <= seq[a.obj]
  /\ \A a, b \in Holders : Agree(a, b)

\* What a sink sent is behind what it has in hand and what waits.
Behind(p, s, n) ==
  /\ 1 <= p.item /\ p.item <= n
  /\ s.item # 0 => p.item <= s.item
  /\ p.item = s.item => s.seq # 0
  /\ \A i \in 1 .. Len(s.queue) : p.item < s.queue[i]
TestAhead == test.pc = "seq" \/ (test.pc = "post" /\ ~test.arrived)
SentBehind ==
  \A i \in 1 .. Len(received) :
    /\ received[i].by # 0 =>
         Behind(received[i], sink[received[i].by], Len(accepted[received[i].by]))
    /\ received[i].by = 0 => received[i].item <= tests /\ (TestAhead => received[i].item < tests)

StreamInv ==
  /\ StreamTypes /\ SinksSound /\ Registered /\ ObjectsMade /\ StatusKept
  /\ Numbered /\ SentBehind /\ SinkOrder

-----------------------------------------------------------------------------
(* One sink *)

\* A sink keeps to its place: registered if it was, there if it was.
SameStand(s, t) ==
  /\ Works(s) => Works(t)
  /\ s.pc = "none" <=> t.pc = "none"
  /\ s.pc = "made" => t.pc = "made"
\* What it sent is as far behind as before.
StaysBehind(s, n, t, m) == \A p \in Posts : Behind(p, s, n) => Behind(p, t, m)

\* Only the place, the flags or the answer change.
SameData(s, t) ==
  /\ t.obj = s.obj /\ t.queue = s.queue /\ t.item = s.item /\ t.seq = s.seq
  /\ t.dropped = s.dropped /\ t.reported = s.reported /\ t.settled = s.settled
LEMMA SameDataKeeps ==
  ASSUME NEW n, NEW s, NEW t, SameData(s, t), QueueOrder(s, n)
  PROVE  QueueOrder(t, n) /\ StaysBehind(s, n, t, n)
BY DEF SameData, QueueOrder, StaysBehind, Behind

\* What the goroutine does to its sink.
SinkSteps(s, t, n) ==
  /\ t \in SinkRecs /\ t.obj = s.obj
  /\ SinkSound(t, n) /\ SameStand(s, t) /\ StaysBehind(s, n, t, n)

LEMMA DrainSteps ==
  ASSUME NEW n \in Nat, NEW s \in SinkRecs, SinkSound(s, n), s.timer
  PROVE  SinkSteps(s, [s EXCEPT !.timer = FALSE, !.cancelled = TRUE], n)
<1> DEFINE t == [s EXCEPT !.timer = FALSE, !.cancelled = TRUE]
<1>1. t \in SinkRecs BY DEF SinkRecs
<1>2. SameData(s, t) /\ t.pc = s.pc /\ t.cancelled /\ t.closing = s.closing /\ t.result = s.result
  BY DEF SinkRecs, SameData
<1>3. SinkShape(t, n)
  <2>1. s.closing /\ s.pc # "none" BY DEF SinkShape, SinkSound, NoSink
  <2>2. QED BY <1>2, <2>1 DEF SinkShape, SinkSound, SameData
<1> HIDE DEF t
<1>4. SinkSteps(s, t, n)
  BY <1>1, <1>2, <1>3, SameDataKeeps DEF SinkSteps, SinkSound, Tally, SameStand, SameData, Works
<1>5. QED BY <1>4 DEF t

LEMMA TakeSteps ==
  ASSUME NEW n \in Nat, NEW s \in SinkRecs, SinkSound(s, n), s.pc = "next"
  PROVE  SinkSteps(s, IF s.queue # <<>>
       THEN [s EXCEPT !.item = Head(s.queue), !.queue = Tail(s.queue),
                      !.pc = IF s.cancelled THEN "leave" ELSE "deliver"]
       ELSE [s EXCEPT !.pc = IF s.closing THEN "leave" ELSE "wait"], n)
<1>1. CASE s.queue = <<>>
  <2> DEFINE t == [s EXCEPT !.pc = IF s.closing THEN "leave" ELSE "wait"]
  <2>1. t \in SinkRecs BY DEF SinkRecs, SinkPlaces
  <2>2. SameData(s, t) /\ t.pc = (IF s.closing THEN "leave" ELSE "wait") /\ t.cancelled = s.cancelled
        /\ t.closing = s.closing
    BY DEF SinkRecs, SameData
  <2>3. SinkShape(t, n) BY <1>1, <2>2 DEF SinkShape, SinkSound, SameData, AtRest, InHand, HasLeft
  <2>4. Tally(t, n) BY <1>1, <2>2 DEF SinkSound, SameData, Tally, InHand
  <2>5. SameStand(s, t) BY <2>2 DEF SameStand, Works, SinkRecs, HasLeft
  <2>6. QED BY <1>1, <2>1, <2>2, <2>3, <2>4, <2>5, SameDataKeeps DEF SinkSteps, SinkSound, SameData
<1>2. CASE s.queue # <<>>
  <2> DEFINE t == [s EXCEPT !.item = Head(s.queue), !.queue = Tail(s.queue),
                            !.pc = IF s.cancelled THEN "leave" ELSE "deliver"]
  <2>1. PICK q \in Seq(Nat) : q = s.queue BY DEF SinkRecs
  <2>2. /\ Head(q) = q[1] /\ q[1] \in Nat /\ Tail(q) \in Seq(Nat) /\ Len(Tail(q)) = Len(q) - 1
        /\ Len(q) \in Nat /\ Len(q) >= 1
        /\ \A i \in 1 .. Len(Tail(q)) : Tail(q)[i] = q[i + 1] /\ i + 1 \in 1 .. Len(q)
    BY <1>2, <2>1
  <2>3. t \in SinkRecs BY <2>1, <2>2 DEF SinkRecs, SinkPlaces
  <2>4. /\ t.obj = s.obj /\ t.queue = Tail(q) /\ t.item = q[1] /\ t.seq = s.seq
        /\ t.dropped = s.dropped /\ t.reported = s.reported /\ t.settled = s.settled
        /\ t.pc = (IF s.cancelled THEN "leave" ELSE "deliver") /\ t.cancelled = s.cancelled
        /\ t.closing = s.closing /\ t.timer = s.timer
    BY <2>1, <2>2 DEF SinkRecs
  <2>5. s.item = 0 /\ s.seq = 0 BY DEF SinkSound, SinkShape, AtRest
  <2>6. /\ Len(q) <= QueueSize
        /\ \A i \in 1 .. Len(q) : 0 < q[i] /\ q[i] <= n
        /\ \A i, j \in 1 .. Len(q) : i < j => q[i] < q[j]
    BY <2>1, <2>5 DEF SinkSound, QueueOrder
  <2>7. SinkShape(t, n) BY <2>2, <2>4, <2>5, <2>6 DEF SinkShape, SinkSound, AtRest, InHand, HasLeft
  <2>8. Tally(t, n)
    <3>1. SUFFICES ASSUME ~s.cancelled
                   PROVE  s.settled + s.reported + s.dropped + (Len(q) - 1) + 1 = n
      BY <2>2, <2>4 DEF Tally, InHand
    <3>2. s.settled + s.reported + s.dropped + Len(q) + 0 = n BY <2>1, <3>1 DEF SinkSound, Tally, InHand
    <3>3. s.settled \in Nat /\ s.reported \in Nat /\ s.dropped \in Nat BY DEF SinkRecs
    <3>4. QED BY <2>2, <3>2, <3>3
  <2>9. QueueOrder(t, n)
    <3>1. \A i \in 1 .. Len(Tail(q)) : q[1] < Tail(q)[i] /\ Tail(q)[i] <= n
      BY ONLY <2>2, <2>6
    <3>2. \A i, j \in 1 .. Len(Tail(q)) : i < j => Tail(q)[i] < Tail(q)[j]
      BY ONLY <2>2, <2>6
    <3>3. Len(Tail(q)) <= QueueSize BY ONLY <2>2, <2>6, StreamAssumption DEF StreamOptions
    <3>4. q[1] <= n BY ONLY <2>2, <2>6
    <3>5. QED BY ONLY <2>4, <3>1, <3>2, <3>3, <3>4 DEF QueueOrder
  <2>10. StaysBehind(s, n, t, n)
    <3> SUFFICES ASSUME NEW p \in Posts, Behind(p, s, n) PROVE Behind(p, t, n) BY DEF StaysBehind
    <3>1. 1 <= p.item /\ p.item <= n /\ \A i \in 1 .. Len(q) : p.item < q[i] BY <2>1 DEF Behind
    <3>2. p.item \in Nat BY DEF Posts
    <3>3. p.item < q[1] BY ONLY <2>2, <3>1
    <3>4. \A i \in 1 .. Len(Tail(q)) : p.item < Tail(q)[i] BY ONLY <2>2, <3>1
    <3>5. QED BY ONLY SMTT(30), <2>2, <2>4, <3>1, <3>2, <3>3, <3>4 DEF Behind
  <2>11. SameStand(s, t) BY <2>4 DEF SameStand, Works, HasLeft, SinkRecs
  <2>12. QED BY <1>2, <2>3, <2>4, <2>7, <2>8, <2>9, <2>10, <2>11 DEF SinkSteps, SinkSound
<1>3. QED BY <1>1, <1>2

\* Steps after which its data is as before, of which that the tally counts.
LEMMA FlagsStep ==
  ASSUME NEW n \in Nat, NEW s \in SinkRecs, SinkSound(s, n), NEW t \in SinkRecs, SameData(s, t),
         SinkShape(t, n), SameStand(s, t), t.cancelled = s.cancelled,
         s.pc \in InHand <=> t.pc \in InHand
  PROVE  SinkSteps(s, t, n)
<1>1. Tally(t, n) BY DEF SinkSound, SameData, Tally
<1>2. QED BY <1>1, SameDataKeeps DEF SinkSteps, SinkSound, SameData

LEMMA WokenSteps ==
  ASSUME NEW n \in Nat, NEW s \in SinkRecs, SinkSound(s, n), s.pc = "wait"
  PROVE  /\ SinkSteps(s, [s EXCEPT !.wake = FALSE, !.pc = "next"], n)
         /\ s.cancelled => SinkSteps(s, [s EXCEPT !.pc = "leave"], n)
<1>1. SinkSteps(s, [s EXCEPT !.wake = FALSE, !.pc = "next"], n)
  <2> DEFINE t == [s EXCEPT !.wake = FALSE, !.pc = "next"]
  <2>1. t \in SinkRecs /\ SameData(s, t) /\ t.pc = "next" /\ t.cancelled = s.cancelled
        /\ t.closing = s.closing /\ t.timer = s.timer
    BY DEF SinkRecs, SameData, SinkPlaces
  <2>2. SinkShape(t, n) BY <2>1 DEF SinkShape, SinkSound, SameData, AtRest, InHand, HasLeft
  <2>3. SameStand(s, t) BY <2>1 DEF SameStand, Works, HasLeft
  <2>4. QED BY <2>1, <2>2, <2>3, FlagsStep DEF InHand
<1>2. ASSUME s.cancelled PROVE SinkSteps(s, [s EXCEPT !.pc = "leave"], n)
  <2> DEFINE t == [s EXCEPT !.pc = "leave"]
  <2>1. t \in SinkRecs /\ SameData(s, t) /\ t.pc = "leave" /\ t.cancelled = s.cancelled
        /\ t.closing = s.closing /\ t.timer = s.timer
    BY DEF SinkRecs, SameData, SinkPlaces
  <2>2. SinkShape(t, n) BY <1>2, <2>1 DEF SinkShape, SinkSound, SameData, AtRest, InHand, HasLeft
  <2>3. SameStand(s, t) BY <1>2, <2>1 DEF SameStand, Works, HasLeft
  <2>4. QED BY <2>1, <2>2, <2>3, FlagsStep DEF InHand
<1>3. QED BY <1>1, <1>2

LEMMA DropStaleSteps ==
  ASSUME NEW n \in Nat, NEW s \in SinkRecs, SinkSound(s, n), s.pc = "deliver"
  PROVE  SinkSteps(s, [s EXCEPT !.dropped = @ + 1, !.pc = "report"], n)
<1> DEFINE t == [s EXCEPT !.dropped = @ + 1, !.pc = "report"]
<1>0. PICK d \in Nat : d = s.dropped + 1 BY DEF SinkRecs
<1>1. /\ t \in SinkRecs /\ t.pc = "report" /\ t.dropped = s.dropped + 1
      /\ t.obj = s.obj /\ t.queue = s.queue /\ t.item = s.item /\ t.seq = s.seq
      /\ t.reported = s.reported /\ t.settled = s.settled
      /\ t.cancelled = s.cancelled /\ t.closing = s.closing /\ t.timer = s.timer
  <2>1. t = [s EXCEPT !.dropped = d, !.pc = "report"] BY <1>0
  <2>2. QED BY <1>0, <2>1 DEF SinkRecs, SinkPlaces
<1> HIDE DEF t
<1>2. SinkShape(t, n) BY <1>1 DEF SinkShape, SinkSound, AtRest, InHand, HasLeft
<1>3. Tally(t, n)
  <2>1. s.settled \in Nat /\ s.reported \in Nat /\ s.dropped \in Nat /\ Len(s.queue) \in Nat BY DEF SinkRecs
  <2>2. QED BY SMTT(30), <1>1, <2>1 DEF SinkSound, Tally, InHand
<1>4. QueueOrder(t, n) /\ StaysBehind(s, n, t, n)
  BY <1>1 DEF SinkSound, QueueOrder, StaysBehind, Behind
<1>5. SameStand(s, t) BY <1>1 DEF SameStand, Works, HasLeft
<1>6. SinkSteps(s, t, n) BY <1>1, <1>2, <1>3, <1>4, <1>5 DEF SinkSteps, SinkSound
<1>7. QED BY <1>6 DEF t

\* Where an attempt goes on; its number is one it had, or a new one.
LEMMA SendSteps ==
  ASSUME NEW n \in Nat, NEW s \in SinkRecs, SinkSound(s, n), s.pc = "deliver",
         NEW m \in Nat, m >= 1
  PROVE  LET t == [s EXCEPT !.seq = m, !.arrived = FALSE] IN
         SinkSteps(s, IF s.cancelled THEN [t EXCEPT !.pc = "report"]
                      ELSE IF s.url # NoUrl THEN [t EXCEPT !.pc = "post"]
                      ELSE [t EXCEPT !.pc = "record", !.result = "no_url"], n)
<1> DEFINE t == [s EXCEPT !.seq = m, !.arrived = FALSE]
           u == IF s.cancelled THEN [t EXCEPT !.pc = "report"]
                ELSE IF s.url # NoUrl THEN [t EXCEPT !.pc = "post"]
                ELSE [t EXCEPT !.pc = "record", !.result = "no_url"]
<1>1. t \in SinkRecs BY DEF SinkRecs
<1>2. u \in SinkRecs
  <2> HIDE DEF t
  <2>1. [t EXCEPT !.pc = "report"] \in SinkRecs BY <1>1 DEF SinkRecs, SinkPlaces
  <2>2. [t EXCEPT !.pc = "post"] \in SinkRecs BY <1>1 DEF SinkRecs, SinkPlaces
  <2>3. [t EXCEPT !.pc = "record", !.result = "no_url"] \in SinkRecs
    BY <1>1 DEF SinkRecs, SinkPlaces, SinkResults
  <2> QED BY <2>1, <2>2, <2>3
<1>3. /\ u.pc = (IF s.cancelled THEN "report" ELSE IF s.url # NoUrl THEN "post" ELSE "record")
      /\ u.obj = s.obj /\ u.queue = s.queue /\ u.item = s.item /\ u.seq = m
      /\ u.reported = s.reported /\ u.settled = s.settled /\ u.dropped = s.dropped
      /\ u.cancelled = s.cancelled /\ u.closing = s.closing /\ u.timer = s.timer
      /\ u.pc = "record" => u.result = "no_url"
  BY <1>1 DEF SinkRecs
<1> HIDE DEF t, u
<1>4. SinkShape(u, n) BY <1>3 DEF SinkShape, SinkSound, AtRest, InHand, HasLeft
<1>5. Tally(u, n) BY <1>3 DEF SinkSound, Tally, InHand
<1>6. QueueOrder(u, n) BY <1>3 DEF SinkSound, QueueOrder
<1>7. StaysBehind(s, n, u, n) BY <1>3 DEF StaysBehind, Behind
<1>8. SameStand(s, u) BY <1>3 DEF SameStand, Works, HasLeft
<1>9. SinkSteps(s, u, n) BY <1>2, <1>3, <1>4, <1>5, <1>6, <1>7, <1>8 DEF SinkSteps, SinkSound
<1>10. QED BY <1>9 DEF t, u

LEMMA AnswerSteps ==
  ASSUME NEW n \in Nat, NEW s \in SinkRecs, SinkSound(s, n), s.pc = "post",
         NEW res \in SinkResults \ {"none"}
  PROVE  SinkSteps(s, IF s.cancelled THEN [s EXCEPT !.pc = "report"]
                      ELSE [s EXCEPT !.pc = "record", !.result = res], n)
<1> DEFINE t == IF s.cancelled THEN [s EXCEPT !.pc = "report"]
                ELSE [s EXCEPT !.pc = "record", !.result = res]
<1>1. /\ t \in SinkRecs /\ SameData(s, t) /\ t.pc = (IF s.cancelled THEN "report" ELSE "record")
      /\ t.cancelled = s.cancelled /\ t.closing = s.closing /\ t.timer = s.timer
      /\ t.pc = "record" => t.result = res
  BY DEF SinkRecs, SameData, SinkPlaces
<1>2. SinkShape(t, n) BY <1>1 DEF SinkShape, SinkSound, SameData, AtRest, InHand, HasLeft
<1>3. Tally(t, n) BY <1>1 DEF SinkSound, SameData, Tally, InHand
<1>4. SameStand(s, t) BY <1>1 DEF SameStand, Works, HasLeft
<1>5. QED BY <1>1, <1>2, <1>3, <1>4, SameDataKeeps DEF SinkSteps, SinkSound, SameData

LEMMA RecordSteps ==
  ASSUME NEW n \in Nat, NEW s \in SinkRecs, SinkSound(s, n), s.pc = "record"
  PROVE  SinkSteps(s, IF s.result = "failed" THEN [s EXCEPT !.pc = "backoff"]
                      ELSE [s EXCEPT !.pc = "report", !.settled = @ + 1], n)
<1> DEFINE t == IF s.result = "failed" THEN [s EXCEPT !.pc = "backoff"]
                ELSE [s EXCEPT !.pc = "report", !.settled = @ + 1]
<1>0. PICK d \in Nat : d = s.settled + 1 BY DEF SinkRecs
<1>1. /\ t \in SinkRecs /\ t.pc = (IF s.result = "failed" THEN "backoff" ELSE "report")
      /\ t.obj = s.obj /\ t.queue = s.queue /\ t.item = s.item /\ t.seq = s.seq
      /\ t.reported = s.reported /\ t.dropped = s.dropped
      /\ t.settled = (IF s.result = "failed" THEN s.settled ELSE s.settled + 1)
      /\ t.cancelled = s.cancelled /\ t.closing = s.closing /\ t.timer = s.timer
  <2>1. t = IF s.result = "failed" THEN [s EXCEPT !.pc = "backoff"]
            ELSE [s EXCEPT !.pc = "report", !.settled = d]
    BY <1>0
  <2>2. QED BY <1>0, <2>1 DEF SinkRecs, SinkPlaces
<1> HIDE DEF t
<1>2. SinkShape(t, n) BY <1>1 DEF SinkShape, SinkSound, AtRest, InHand, HasLeft
<1>3. Tally(t, n)
  <2>1. s.settled \in Nat /\ s.reported \in Nat /\ s.dropped \in Nat /\ Len(s.queue) \in Nat BY DEF SinkRecs
  <2>2. QED BY SMTT(30), <1>1, <2>1 DEF SinkSound, Tally, InHand
<1>4. QueueOrder(t, n) /\ StaysBehind(s, n, t, n)
  BY <1>1 DEF SinkSound, QueueOrder, StaysBehind, Behind
<1>5. SameStand(s, t) BY <1>1 DEF SameStand, Works, HasLeft
<1>6. SinkSteps(s, t, n) BY <1>1, <1>2, <1>3, <1>4, <1>5 DEF SinkSteps, SinkSound
<1>7. QED BY <1>6 DEF t

LEMMA RetrySteps ==
  ASSUME NEW n \in Nat, NEW s \in SinkRecs, SinkSound(s, n), s.pc = "backoff"
  PROVE  /\ SinkSteps(s, [s EXCEPT !.pc = "deliver"], n)
         /\ s.cancelled => SinkSteps(s, [s EXCEPT !.pc = "report"], n)
<1>1. SUFFICES ASSUME NEW at \in {"deliver", "report"}, at = "report" => s.cancelled
               PROVE  SinkSteps(s, [s EXCEPT !.pc = at], n)
  OBVIOUS
<1> DEFINE t == [s EXCEPT !.pc = at]
<1>2. /\ t \in SinkRecs /\ SameData(s, t) /\ t.pc = at
      /\ t.cancelled = s.cancelled /\ t.closing = s.closing /\ t.timer = s.timer
  BY DEF SinkRecs, SameData, SinkPlaces
<1>3. SinkShape(t, n) BY <1>2 DEF SinkShape, SinkSound, SameData, AtRest, InHand, HasLeft
<1>4. Tally(t, n) BY <1>1, <1>2 DEF SinkSound, SameData, Tally, InHand
<1>5. SameStand(s, t) BY <1>2 DEF SameStand, Works, HasLeft
<1>6. QED BY <1>2, <1>3, <1>4, <1>5, SameDataKeeps DEF SinkSteps, SinkSound, SameData

\* A report settles what was dropped and lets go of the item.
LEMMA ReportSteps ==
  ASSUME NEW n \in Nat, NEW s \in SinkRecs, SinkSound(s, n), s.pc \in {"report", "leave"},
         NEW at \in {"next", "settle", "gone"}, at = "next" <=> s.pc = "report"
  PROVE  SinkSteps(s, [Reported(s) EXCEPT !.pc = at], n)
<1> DEFINE u == Reported(s)
           t == [u EXCEPT !.pc = at]
<1>0. PICK d \in Nat : d = s.reported + s.dropped BY DEF SinkRecs
<1>1. u = [s EXCEPT !.reported = d, !.dropped = 0, !.item = 0, !.seq = 0, !.arrived = FALSE, !.result = "none"]
  BY <1>0 DEF Reported
<1> HIDE DEF u
<1>2. /\ u \in SinkRecs
      /\ u.obj = s.obj /\ u.queue = s.queue /\ u.item = 0 /\ u.seq = 0
      /\ u.reported = s.reported + s.dropped /\ u.dropped = 0 /\ u.settled = s.settled
      /\ u.cancelled = s.cancelled /\ u.closing = s.closing /\ u.timer = s.timer
  BY <1>0, <1>1 DEF SinkRecs, SinkResults
<1>3. /\ t \in SinkRecs /\ t.pc = at
      /\ t.obj = s.obj /\ t.queue = s.queue /\ t.item = 0 /\ t.seq = 0
      /\ t.reported = s.reported + s.dropped /\ t.dropped = 0 /\ t.settled = s.settled
      /\ t.cancelled = s.cancelled /\ t.closing = s.closing /\ t.timer = s.timer
  BY <1>2 DEF SinkRecs, SinkPlaces
<1> HIDE DEF t
<1>4. SinkShape(t, n) BY <1>3 DEF SinkShape, SinkSound, AtRest, InHand, HasLeft
<1>5. Tally(t, n)
  <2>1. s.settled \in Nat /\ s.reported \in Nat /\ s.dropped \in Nat /\ Len(s.queue) \in Nat BY DEF SinkRecs
  <2>2. QED BY <1>3, <2>1 DEF SinkSound, Tally, InHand
<1>6. QueueOrder(t, n)
  <2>1. PICK q \in Seq(Nat) : q = s.queue BY DEF SinkRecs
  <2>2. s.item \in Nat BY DEF SinkRecs
  <2>3. \A i \in 1 .. Len(q) : q[i] \in Nat /\ s.item < q[i] /\ q[i] <= n BY <2>1 DEF SinkSound, QueueOrder
  <2>4. \A i \in 1 .. Len(q) : 0 < q[i] /\ q[i] <= n BY ONLY <2>2, <2>3
  <2>5. QED BY <1>3, <2>1, <2>4 DEF SinkSound, QueueOrder
<1>7. StaysBehind(s, n, t, n)
  <2> SUFFICES ASSUME NEW p \in Posts, Behind(p, s, n) PROVE Behind(p, t, n) BY DEF StaysBehind
  <2>1. p.item # 0 BY DEF Behind
  <2>2. QED BY <1>3, <2>1 DEF Behind
<1>8. SameStand(s, t) BY <1>3 DEF SameStand, Works, HasLeft
<1>9. SinkSteps(s, t, n) BY <1>3, <1>4, <1>5, <1>6, <1>7, <1>8 DEF SinkSteps, SinkSound
<1>10. QED BY <1>9 DEF t, u

\* A queued caption is the last accepted; a full queue drops its oldest.
PutIn(q, item) == IF Len(q) >= QueueSize THEN Append(Tail(q), item) ELSE Append(q, item)
Enqueued(s, item, segment) ==
  [s EXCEPT !.seen = LastOf(Append(s.seen, segment), SeenSize), !.queue = PutIn(s.queue, item),
            !.dropped = IF Len(s.queue) >= QueueSize THEN s.dropped + 1 ELSE s.dropped, !.wake = TRUE]

LEMMA PutInQueue ==
  ASSUME NEW q \in Seq(Nat), Len(q) <= QueueSize, NEW n \in Nat, NEW x \in Nat, x = n + 1,
         \A i \in 1 .. Len(q) : q[i] <= n,
         \A i, j \in 1 .. Len(q) : i < j => q[i] < q[j]
  PROVE  /\ PutIn(q, x) \in Seq(Nat) /\ PutIn(q, x) # <<>> /\ Len(PutIn(q, x)) <= QueueSize
         /\ Len(PutIn(q, x)) = (IF Len(q) >= QueueSize THEN Len(q) ELSE Len(q) + 1)
         /\ \A i \in 1 .. Len(PutIn(q, x)) :
              PutIn(q, x)[i] = x \/ \E j \in 1 .. Len(q) : PutIn(q, x)[i] = q[j]
         /\ \A i, j \in 1 .. Len(PutIn(q, x)) : i < j => PutIn(q, x)[i] < PutIn(q, x)[j]
<1>1. QueueSize \in Nat /\ QueueSize >= 1 BY StreamAssumption DEF StreamOptions
<1>2. PICK m \in Nat : m = Len(q) OBVIOUS
<1>3. /\ \A i \in 1 .. m : q[i] \in Nat /\ q[i] <= n
      /\ \A i, j \in 1 .. m : i < j => q[i] < q[j]
  BY <1>2
<1>4. CASE m >= QueueSize
  <2>1. m >= 1 BY <1>1, <1>4
  <2>2. /\ Tail(q) \in Seq(Nat) /\ Len(Tail(q)) = m - 1
        /\ \A i \in 1 .. m - 1 : Tail(q)[i] = q[i + 1] /\ i + 1 \in 1 .. m
    BY ONLY <1>2, <2>1, q \in Seq(Nat)
  <2>3. PICK t \in Seq(Nat) : t = Tail(q) BY <2>2
  <2>4. PICK u : u = PutIn(q, x) /\ u = Append(t, x) BY <1>2, <1>4, <2>3 DEF PutIn
  <2>5. Len(t) = m - 1 /\ \A i \in 1 .. m - 1 : t[i] = q[i + 1] /\ i + 1 \in 1 .. m BY ONLY <2>2, <2>3
  <2>6. u \in Seq(Nat) /\ Len(u) = m /\ u[m] = x /\ \A i \in 1 .. m - 1 : u[i] = t[i]
    BY ONLY <2>1, <2>3, <2>4, <2>5, t \in Seq(Nat), x \in Nat, m \in Nat
  <2>7. \A i \in 1 .. m : i = m \/ i \in 1 .. m - 1 OBVIOUS
  <2>8. \A i \in 1 .. m : (i = m /\ u[i] = x) \/ (i \in 1 .. m - 1 /\ u[i] = q[i + 1] /\ i + 1 \in 1 .. m)
    BY ONLY <2>5, <2>6, <2>7
  <2>9. ASSUME NEW i \in 1 .. m, NEW j \in 1 .. m, i < j PROVE u[i] < u[j]
    <3>1. i \in 1 .. m - 1 /\ u[i] = q[i + 1] /\ i + 1 \in 1 .. m BY <2>8, <2>9
    <3>2. CASE j = m BY <1>3, <2>6, <3>1, <3>2
    <3>3. CASE j # m
      <4>1. u[j] = q[j + 1] /\ j + 1 \in 1 .. m /\ i + 1 < j + 1 BY <2>8, <2>9, <3>3
      <4>2. QED BY <1>3, <3>1, <4>1
    <3>4. QED BY <3>2, <3>3
  <2>10. u # <<>> BY ONLY <2>1, <2>6
  <2>11. \A i \in 1 .. m : u[i] = x \/ \E j \in 1 .. m : u[i] = q[j] BY ONLY <2>8
  <2>12. m <= QueueSize BY <1>2
  <2>13. QED BY ONLY <1>2, <1>4, <2>4, <2>6, <2>9, <2>10, <2>11, <2>12
<1>5. CASE ~(m >= QueueSize)
  <2>1. PICK u : u = PutIn(q, x) /\ u = Append(q, x) BY <1>2, <1>5 DEF PutIn
  <2>2. u \in Seq(Nat) /\ Len(u) = m + 1 /\ u[m + 1] = x /\ \A i \in 1 .. m : u[i] = q[i]
    BY ONLY <1>2, <2>1, q \in Seq(Nat), x \in Nat, m \in Nat
  <2>3. \A i \in 1 .. m + 1 : (i = m + 1 /\ u[i] = x) \/ (i \in 1 .. m /\ u[i] = q[i]) BY <2>2
  <2>4. ASSUME NEW i \in 1 .. m + 1, NEW j \in 1 .. m + 1, i < j PROVE u[i] < u[j]
    <3>1. i \in 1 .. m /\ u[i] = q[i] BY <2>3, <2>4
    <3>2. CASE j = m + 1 BY <1>3, <2>2, <3>1, <3>2
    <3>3. CASE j # m + 1
      <4>1. j \in 1 .. m /\ u[j] = q[j] BY <2>3, <3>3
      <4>2. QED BY <1>3, <2>4, <3>1, <4>1
    <3>4. QED BY <3>2, <3>3
  <2>5. u # <<>> BY ONLY <2>2, m \in Nat
  <2>6. \A i \in 1 .. m + 1 : u[i] = x \/ \E j \in 1 .. m : u[i] = q[j] BY ONLY <2>3
  <2>7. m + 1 <= QueueSize BY <1>1, <1>5
  <2>8. QED BY ONLY <1>2, <1>5, <2>1, <2>2, <2>4, <2>5, <2>6, <2>7
<1>6. QED BY <1>4, <1>5

LEMMA EnqueueSteps ==
  ASSUME NEW n \in Nat, NEW s \in SinkRecs, SinkSound(s, n), s.pc # "none", ~s.closing,
         NEW segment \in Runs \X Nat
  PROVE  LET t == Enqueued(s, n + 1, segment) IN
         /\ t \in SinkRecs /\ SinkSound(t, n + 1) /\ SameStand(s, t) /\ StaysBehind(s, n, t, n + 1)
         /\ t.obj = s.obj /\ t.item = s.item /\ t.seq = s.seq /\ t.pc = s.pc
<1> DEFINE t == Enqueued(s, n + 1, segment)
<1>1. PICK q \in Seq(Nat) : q = s.queue BY DEF SinkRecs
<1>2. PICK x \in Nat : x = n + 1 OBVIOUS
<1>3. /\ Len(q) <= QueueSize /\ \A i \in 1 .. Len(q) : s.item < q[i] /\ q[i] <= n
      /\ \A i, j \in 1 .. Len(q) : i < j => q[i] < q[j]
      /\ s.item \in Nat /\ s.item <= n
  BY <1>1 DEF SinkSound, QueueOrder, SinkRecs
<1>4. PICK u : u = PutIn(q, x) OBVIOUS
<1>5. /\ u \in Seq(Nat) /\ u # <<>> /\ Len(u) <= QueueSize
      /\ Len(u) = (IF Len(q) >= QueueSize THEN Len(q) ELSE Len(q) + 1)
      /\ \A i \in 1 .. Len(u) : u[i] = x \/ \E j \in 1 .. Len(q) : u[i] = q[j]
      /\ \A i, j \in 1 .. Len(u) : i < j => u[i] < u[j]
  <2>1. \A i \in 1 .. Len(q) : q[i] <= n BY <1>3
  <2>2. QED BY ONLY <1>2, <1>3, <1>4, <2>1, PutInQueue, q \in Seq(Nat), n \in Nat, x \in Nat
<1>6. LastOf(Append(s.seen, segment), SeenSize) \in Seq(Runs \X Nat)
  <2>0. s.seen \in Seq(Runs \X Nat) BY DEF SinkRecs
  <2>0a. PICK g \in Seq(Runs \X Nat) : g = s.seen BY <2>0
  <2>1. PICK a \in Seq(Runs \X Nat) : a = Append(s.seen, segment) BY <2>0a, AppendProperties
  <2>2. SeenSize \in Nat BY StreamAssumption
  <2>3. Len(a) > SeenSize => Tail(a) \in Seq(Runs \X Nat)
    <3>1. Len(a) > SeenSize => a # <<>> BY <2>2
    <3>2. QED BY <3>1, HeadTailProperties
  <2>4. QED BY <2>1, <2>3 DEF LastOf
<1>7. PICK v \in Seq(Runs \X Nat) : v = LastOf(Append(s.seen, segment), SeenSize) BY <1>6
<1>8. PICK d \in Nat : d = IF Len(q) >= QueueSize THEN s.dropped + 1 ELSE s.dropped BY DEF SinkRecs
<1>9. t = [s EXCEPT !.seen = v, !.queue = u, !.dropped = d, !.wake = TRUE]
  BY <1>1, <1>2, <1>4, <1>7, <1>8 DEF Enqueued
<1> HIDE DEF t
<1>10. /\ t \in SinkRecs /\ t.obj = s.obj /\ t.item = s.item /\ t.seq = s.seq /\ t.pc = s.pc
       /\ t.queue = u /\ t.dropped = d /\ t.wake /\ t.reported = s.reported /\ t.settled = s.settled
       /\ t.closing = s.closing /\ t.cancelled = s.cancelled /\ t.timer = s.timer /\ t.result = s.result
  BY <1>5, <1>9 DEF SinkRecs
<1>11. SinkShape(t, x)
  <2>1. SinkShape(s, n) BY DEF SinkSound
  <2>2. ~s.cancelled /\ ~s.timer /\ s.pc \notin HasLeft BY <2>1 DEF SinkShape
  <2>3. /\ t.pc = s.pc /\ t.item = s.item /\ t.seq = s.seq /\ t.result = s.result /\ t.wake
        /\ t.cancelled = s.cancelled /\ t.timer = s.timer
    BY <1>10
  <2>4. QED BY ONLY <2>1, <2>2, <2>3, s.pc # "none" DEF SinkShape, HasLeft
<1>12. Tally(t, x)
  <2>1. s.settled \in Nat /\ s.reported \in Nat /\ s.dropped \in Nat /\ Len(q) \in Nat BY DEF SinkRecs
  <2>2. Tally(s, n) BY DEF SinkSound
  <2>3. PICK m \in Nat : m = Len(q) BY <2>1
  <2>4. Len(u) = (IF m >= QueueSize THEN m ELSE m + 1) /\ d = (IF m >= QueueSize THEN s.dropped + 1 ELSE s.dropped)
    BY <1>5, <1>8, <2>3
  <2>5. PICK l \in Nat, f \in Nat : l = Len(u) /\ f = s.dropped BY <1>5, <2>1
  <2>6. l + d = m + f + 1
    <3>1. CASE m >= QueueSize
      <4>1. l = m /\ d = f + 1 BY <2>4, <2>5, <3>1
      <4>2. QED BY ONLY <4>1, m \in Nat, f \in Nat
    <3>2. CASE ~(m >= QueueSize)
      <4>1. l = m + 1 /\ d = f BY <2>4, <2>5, <3>2
      <4>2. QED BY ONLY <4>1, m \in Nat, f \in Nat
    <3>3. QED BY <3>1, <3>2
  <2>7. t.settled = s.settled /\ t.reported = s.reported /\ t.dropped = d /\ Len(t.queue) = l
        /\ t.pc = s.pc /\ t.cancelled = s.cancelled
    BY <1>10, <2>5
  <2>8. Len(s.queue) = m BY <1>1, <2>3
  <2>9. PICK a \in Nat, b \in Nat, c \in Nat :
          a = s.settled /\ b = s.reported /\ c = IF s.pc \in InHand THEN 1 ELSE 0
    BY <2>1
  <2>10. ~s.cancelled => a + b + f + m + c = n BY <2>2, <2>5, <2>8, <2>9 DEF Tally
  <2>11. a + b + f + m + c = n => a + b + d + l + c = n + 1
    BY ONLY <2>6, a \in Nat, b \in Nat, c \in Nat, d \in Nat, l \in Nat, f \in Nat, m \in Nat, n \in Nat
  <2>12. ~s.cancelled => t.settled + t.reported + t.dropped + Len(t.queue) + (IF t.pc \in InHand THEN 1 ELSE 0) = x
    BY <1>2, <2>7, <2>9, <2>10, <2>11
  <2>13. QED BY <2>7, <2>12 DEF Tally
<1>13. QueueOrder(t, x)
  <2>1. \A i \in 1 .. Len(q) : q[i] \in Nat OBVIOUS
  <2>2. ASSUME NEW i \in 1 .. Len(u) PROVE s.item < u[i] /\ u[i] <= x
    <3>1. CASE u[i] = x BY ONLY <1>2, <1>3, <3>1, n \in Nat, x \in Nat
    <3>2. CASE \E j \in 1 .. Len(q) : u[i] = q[j] BY ONLY <1>2, <1>3, <2>1, <3>2, n \in Nat, x \in Nat
    <3>3. QED BY <1>5, <3>1, <3>2
  <2>3. s.item <= x BY ONLY <1>2, <1>3, n \in Nat
  <2>4. QED BY ONLY <1>5, <1>10, <2>2, <2>3 DEF QueueOrder
<1>14. StaysBehind(s, n, t, x)
  <2> SUFFICES ASSUME NEW p \in Posts, Behind(p, s, n) PROVE Behind(p, t, x) BY DEF StaysBehind
  <2>1. 1 <= p.item /\ p.item <= n /\ p.item \in Nat /\ \A i \in 1 .. Len(q) : p.item < q[i]
    BY <1>1 DEF Behind, Posts
  <2>2. ASSUME NEW i \in 1 .. Len(u) PROVE p.item < u[i]
    <3>1. CASE u[i] = x BY ONLY <1>2, <2>1, <3>1, n \in Nat, x \in Nat
    <3>2. CASE \E j \in 1 .. Len(q) : u[i] = q[j] BY ONLY <2>1, <3>2
    <3>3. QED BY <1>5, <3>1, <3>2
  <2>3. p.item <= x BY ONLY <1>2, <2>1, n \in Nat
  <2>4. s.item # 0 => p.item <= s.item BY DEF Behind
  <2>5. p.item = s.item => s.seq # 0 BY DEF Behind
  <2>6. QED BY ONLY <1>10, <2>1, <2>2, <2>3, <2>4, <2>5 DEF Behind
<1>15. SameStand(s, t) BY <1>10 DEF SameStand, Works
<1>16. t \in SinkRecs /\ SinkSound(t, n + 1) /\ SameStand(s, t) /\ StaysBehind(s, n, t, n + 1)
  BY <1>2, <1>10, <1>11, <1>12, <1>13, <1>14, <1>15 DEF SinkSound
<1>17. QED BY <1>10, <1>16 DEF t

\* A closed sink gets a wake-up, a cancelled one needs none.
LEMMA CloseSteps ==
  ASSUME NEW n \in Nat, NEW s \in SinkRecs, SinkSound(s, n), s.pc # "none",
         NEW t \in SinkRecs, SameData(s, t), t.pc = s.pc, t.result = s.result, t.closing,
         t.cancelled \/ (t.wake /\ t.cancelled = s.cancelled)
  PROVE  SinkSound(t, n) /\ StaysBehind(s, n, t, n)
<1>1. SinkShape(t, n) BY DEF SinkShape, SinkSound, SameData, AtRest, HasLeft
<1>2. Tally(t, n) BY DEF SinkSound, SameData, Tally
<1>3. QED BY <1>1, <1>2, SameDataKeeps DEF SinkSound

-----------------------------------------------------------------------------
(* What keeps the parts of the invariant *)

LEMMA SinkTyped == ASSUME StreamTypes, NEW k \in Runs
  PROVE sink[k] \in SinkRecs /\ Len(accepted[k]) \in Nat /\ accepted[k] \in Seq(Runs \X Nat)
BY DEF StreamTypes

LEMMA RegisteredKept ==
  ASSUME StreamTypes, Registered, UNCHANGED <<sinkOf, run, tookOut, offer>>, forget'.sink = forget.sink,
         \A j \in Runs : SameStand(sink[j], sink'[j])
  PROVE  Registered'
<1>1. /\ sinkOf # 0 => sinkOf \in Runs
      /\ forget.sink # 0 => forget.sink \in Runs
      /\ \A r \in Runs : (tookOut[r] # 0 => tookOut[r] \in Runs) /\ (offer[r].sink # 0 => offer[r].sink \in Runs)
  <2>1. \A k \in 0 .. MaxRuns : k # 0 => k \in Runs BY StreamAssumption DEF Runs
  <2>2. sinkOf \in 0 .. MaxRuns /\ forget.sink \in 0 .. MaxRuns BY DEF StreamTypes
  <2>3. \A r \in Runs : tookOut[r] \in 0 .. MaxRuns BY DEF StreamTypes
  <2>4. \A r \in Runs : offer[r].sink \in 0 .. MaxRuns BY DEF StreamTypes
  <2>5. QED BY <2>1, <2>2, <2>3, <2>4
<1>2. \A j \in Runs : (Works(sink[j]) => Works(sink'[j])) /\ (sink[j].pc = "none" <=> sink'[j].pc = "none")
                      /\ (sink[j].pc = "made" => sink'[j].pc = "made")
  BY DEF SameStand
<1>3. (sinkOf # 0 => Works(sink[sinkOf]))' BY <1>1, <1>2 DEF Registered
<1>4. OutOf(forget.sink)' BY <1>1, <1>2 DEF Registered, OutOf
<1>5. ASSUME NEW r \in Runs
      PROVE  /\ OutOf(tookOut[r])'
             /\ (offer[r].sink # 0 => sink[offer[r].sink].pc # "none")'
             /\ (run[r] \in {"new", "read"} => sink[r].pc = "none")'
             /\ (run[r] \in {"registered", "closed"} => sink[r].pc = "made")'
  BY <1>1, <1>2 DEF Registered, OutOf
<1>6. QED BY <1>3, <1>4, <1>5 DEF Registered

\* The state object that is found or made is one of those there may be.
LEMMA StateIsOne ==
  ASSUME StreamTypes, ObjectsMade, StateKept
  PROVE  /\ cur' \in 1 .. Objects /\ made' \in Nat /\ cur' <= made'
         /\ made' + Dropping <= forgets + 1
<1>1. /\ forgets \in Nat /\ left.forgets \in Nat /\ cur \in Nat /\ made \in Nat /\ cur <= made /\ Dropping \in {0, 1}
  BY DEF StreamTypes, Dropping
<1>2. made + Dropping <= forgets + (IF cur = 0 THEN 0 ELSE 1) BY DEF ObjectsMade
<1>3. made' = (IF cur = 0 THEN made + 1 ELSE made) /\ cur' = made' BY DEF StateKept
<1>4. made' >= 1 /\ made' + Dropping <= forgets + 1 /\ made' \in Nat BY <1>1, <1>2, <1>3
<1>5. QED BY <1>1, <1>3, <1>4 DEF Objects

LEMMA ObjectsKept ==
  ASSUME StreamTypes, ObjectsMade, StateKept \/ UNCHANGED <<cur, made>>,
         forgets' = forgets, left'.forgets = left.forgets, Dropping' = Dropping,
         \A j \in Runs : sink'[j].pc # "none" => sink[j].pc # "none" /\ sink'[j].obj = sink[j].obj
  PROVE  /\ ObjectsMade' /\ Objects' = Objects
         /\ cur' \in Nat /\ made' \in Nat /\ cur' <= made'
<1>1. Objects' = Objects BY DEF Objects
<1>2. /\ cur' \in Nat /\ made' \in Nat /\ cur' <= made'
      /\ made' + Dropping <= forgets + (IF cur' = 0 THEN 0 ELSE 1)
  <2>1. CASE StateKept
    <3>1. cur' # 0 BY <2>1, StateIsOne
    <3>2. cur' \in Nat BY <2>1, StateIsOne DEF Objects
    <3>3. QED BY <2>1, <3>1, <3>2, StateIsOne
  <2>2. CASE UNCHANGED <<cur, made>> BY <2>2 DEF ObjectsMade, StreamTypes
  <2>3. QED BY <2>1, <2>2
<1>3. (made + Dropping <= forgets + (IF cur = 0 THEN 0 ELSE 1))' BY <1>2
<1>4. ASSUME NEW k \in Runs, sink'[k].pc # "none" PROVE sink'[k].obj \in 1 .. Objects
  BY <1>4 DEF ObjectsMade
<1>5. QED BY <1>1, <1>2, <1>3, <1>4 DEF ObjectsMade

\* No holder more, and numbers only grow.
LEMMA NumbersKept ==
  ASSUME StreamTypes, Numbered, Holders' \subseteq Holders, Objects' = Objects, seq' = seq
  PROVE  Numbered'
<1>1. \A a \in Holders : a.obj \in 1 .. Objects /\ 1 <= a.seq /\ a.seq <= seq[a.obj] BY DEF Numbered
<1>2. \A a, b \in Holders : Agree(a, b) BY DEF Numbered
<1>3. \A a \in Holders' : a.obj \in 1 .. Objects' /\ 1 <= a.seq /\ a.seq <= seq'[a.obj] BY <1>1
<1>4. \A a, b \in Holders' : Agree(a, b)' BY <1>2 DEF Agree
<1>5. QED BY <1>3, <1>4 DEF Numbered

\* A new holder with the next number of its object.
LEMMA NumberTaken ==
  ASSUME StreamTypes, Numbered, Objects' = Objects, NEW h, Holders' \subseteq Holders \cup {h},
         h.obj \in 1 .. Objects, h.seq = seq[h.obj] + 1, seq' = [seq EXCEPT ![h.obj] = h.seq],
         \A a \in Holders : a.seq \in Nat /\ ~(a.obj = h.obj /\ a.by = h.by /\ a.item = h.item)
  PROVE  Numbered'
<1>1. \A a \in Holders : a.obj \in 1 .. Objects /\ 1 <= a.seq /\ a.seq <= seq[a.obj] BY DEF Numbered
<1>2. \A a, b \in Holders : Agree(a, b) BY DEF Numbered
<1>3. seq \in [1 .. Objects -> Nat] BY DEF StreamTypes
<1>4. \A o \in 1 .. Objects : seq'[o] = IF o = h.obj THEN seq[h.obj] + 1 ELSE seq[o] BY <1>3
<1>5. h.seq = seq'[h.obj] /\ 1 <= h.seq BY <1>3, <1>4
<1>6. \A a \in Holders : a.seq <= seq'[a.obj] /\ (a.obj = h.obj => a.seq < h.seq)
  <2> TAKE a \in Holders
  <2>1. a.obj \in 1 .. Objects /\ a.seq <= seq[a.obj] /\ a.seq \in Nat BY <1>1
  <2>2. seq[a.obj] \in Nat BY <1>3, <2>1
  <2>3. QED BY <1>4, <2>1, <2>2
<1>7. \A a \in Holders' : a.obj \in 1 .. Objects' /\ 1 <= a.seq /\ a.seq <= seq'[a.obj]
  <2> TAKE a \in Holders'
  <2>1. CASE a = h
    <3>1. h.obj \in 1 .. Objects' OBVIOUS
    <3>2. h.seq <= seq'[h.obj] BY <1>3, <1>5
    <3>3. QED BY <1>5, <2>1, <3>1, <3>2
  <2>2. CASE a \in Holders BY <1>1, <1>6, <2>2
  <2>3. QED BY <2>1, <2>2
<1>8. \A a, b \in Holders' : Agree(a, b)'
  <2> SUFFICES ASSUME NEW a \in Holders', NEW b \in Holders' PROVE Agree(a, b) BY DEF Agree
  <2>1. CASE a \in Holders /\ b \in Holders BY <1>2, <2>1
  <2>2. CASE a = h /\ b = h BY <2>2 DEF Agree
  <2>3. CASE a = h /\ b \in Holders
    <3>1. b.obj = h.obj => b.seq # h.seq /\ ~(b.by = h.by /\ b.item = h.item)
      <4>1. h.seq \in Nat BY <1>3
      <4>2. b.seq \in Nat BY <2>3
      <4>3. b.obj = h.obj => b.seq < h.seq BY <1>6, <2>3
      <4>4. b.obj = h.obj => b.seq # h.seq BY <4>1, <4>2, <4>3
      <4>5. QED BY <2>3, <4>4
    <3>2. QED BY <2>3, <3>1 DEF Agree
  <2>4. CASE b = h /\ a \in Holders
    <3>1. a.obj = h.obj => a.seq # h.seq /\ ~(a.by = h.by /\ a.item = h.item)
      <4>1. h.seq \in Nat BY <1>3
      <4>2. a.seq \in Nat BY <2>4
      <4>3. a.obj = h.obj => a.seq < h.seq BY <1>6, <2>4
      <4>4. a.obj = h.obj => a.seq # h.seq BY <4>1, <4>2, <4>3
      <4>5. QED BY <2>4, <4>4
    <3>2. QED BY <2>4, <3>1 DEF Agree
  <2>5. QED BY <2>1, <2>2, <2>3, <2>4
<1>9. QED BY <1>7, <1>8 DEF Numbered

\* Sinks that keep their number, or have none.
SameNumber(k) == sink'[k].seq = 0 \/ (HeldBy(k)' = HeldBy(k) /\ sink[k].seq # 0)
LEMMA HoldersKept ==
  ASSUME received' = received, test' = test, tests' = tests, \A j \in Runs : SameNumber(j)
  PROVE  Holders' \subseteq Holders
<1>1. Sent' = Sent BY DEF Sent
<1>2. Held' \subseteq Held
  <2> SUFFICES ASSUME NEW j \in Runs, sink'[j].seq # 0 PROVE HeldBy(j)' \in Held BY DEF Held
  <2>1. QED BY DEF SameNumber, Held
<1>3. TestPost' = TestPost BY DEF TestPost
<1>4. QED BY <1>1, <1>2, <1>3 DEF Holders

LEMMA BehindKept ==
  ASSUME StreamTypes, SentBehind, received' = received, tests' = tests, test' = test,
         \A j \in Runs : StaysBehind(sink[j], Len(accepted[j]), sink'[j], Len(accepted'[j]))
  PROVE  SentBehind'
<1> SUFFICES ASSUME NEW i \in 1 .. Len(received)
             PROVE  /\ received[i].by # 0 =>
                         Behind(received[i], sink'[received[i].by], Len(accepted'[received[i].by]))
                    /\ received[i].by = 0 => received[i].item <= tests /\ (TestAhead' => received[i].item < tests)
  BY DEF SentBehind
<1>1. received[i] \in Posts BY DEF StreamTypes
<1>2. received[i].by # 0 => received[i].by \in Runs BY <1>1, StreamAssumption DEF Posts, Runs
<1>3. TestAhead' = TestAhead BY DEF TestAhead
<1>4. QED BY <1>1, <1>2, <1>3 DEF SentBehind, StaysBehind

\* A sink that goes on answers for the status.
LEMMA StatusStays ==
  ASSUME StatusKept, tests' = tests, test' = test, status' = status \/ status'.state \in Quiet,
         \A j \in Runs : sink[j].pc \notin {"none", "gone"} => sink'[j].pc \notin {"none", "gone"}
  PROVE  StatusKept'
BY DEF StatusKept

-----------------------------------------------------------------------------
(* The goroutine of a sink *)

\* What a step of it leaves to show: the state object, the numbers, the status.
LEMMA GoesOn ==
  ASSUME StreamInv, NEW k \in Runs, NEW t, SinkOnly(k, t), SinkSteps(sink[k], t, Len(accepted[k])),
         cur' \in Nat, made' \in Nat, cur' <= made', seq' \in [1 .. Objects -> Nat], status' \in StatusType,
         StateKept \/ UNCHANGED <<cur, made>>, Numbered', StatusKept'
  PROVE  StreamInv'
<1> USE DEF StreamInv
<1>1. t \in SinkRecs /\ SameStand(sink[k], t) /\ t.obj = sink[k].obj BY DEF SinkSteps
<1>2. \A j \in Runs : sink'[j] = IF j = k THEN t ELSE sink[j] BY DEF SinkOnly, StreamTypes
<1>3. sink' \in [Runs -> SinkRecs] BY <1>1 DEF SinkOnly, StreamTypes
<1>4. Objects' = Objects BY DEF SinkOnly, Objects, forgetVars
<1>5. StreamTypes' BY <1>3, <1>4 DEF StreamTypes, SinkOnly, runVars, forgetVars, testVars, urlVars
<1>6. SinksSound' BY <1>2 DEF SinksSound, SinkOnly, SinkSteps
<1>7. Registered'
  <2>1. \A j \in Runs : SameStand(sink[j], sink'[j]) BY <1>1, <1>2 DEF SameStand
  <2>2. UNCHANGED <<sinkOf, run, tookOut, offer>> /\ forget'.sink = forget.sink
    BY DEF SinkOnly, runVars, forgetVars
  <2>3. QED BY <2>1, <2>2, RegisteredKept
<1>8. ObjectsMade'
  <2>1. \A j \in Runs : sink'[j].pc # "none" => sink[j].pc # "none" /\ sink'[j].obj = sink[j].obj
    BY <1>1, <1>2 DEF SameStand
  <2>2. forgets' = forgets /\ left'.forgets = left.forgets /\ Dropping' = Dropping
    BY DEF SinkOnly, forgetVars, Dropping
  <2>3. QED BY <2>1, <2>2, ObjectsKept
<1>9. SentBehind'
  <2>1. received' = received /\ tests' = tests /\ test' = test /\ accepted' = accepted
    BY DEF SinkOnly, testVars
  <2>2. \A j \in Runs : StaysBehind(sink[j], Len(accepted[j]), sink'[j], Len(accepted'[j]))
    BY <1>2, <2>1 DEF SinkSteps, StaysBehind
  <2>3. QED BY <2>1, <2>2, BehindKept
<1>10. SinkOrder' BY DEF SinkOrder, SinkOnly
<1>11. QED BY <1>5, <1>6, <1>7, <1>8, <1>9, <1>10

\* So for one that takes no new number and does not touch the status.
Quietly(k, t) ==
  /\ SinkOnly(k, t) /\ SinkSteps(sink[k], t, Len(accepted[k])) /\ UNCHANGED stateVars
  /\ t.seq = 0 \/ (t.seq = sink[k].seq /\ t.item = sink[k].item)
  /\ t.pc # "gone" \/ sink[k].pc = "gone" \/ (sinkOf # 0 /\ sinkOf # k)
LEMMA GoesOnQuietly ==
  ASSUME StreamInv, NEW k \in Runs, NEW t, Quietly(k, t)
  PROVE  StreamInv'
<1> USE DEF StreamInv, Quietly
<1>1. t \in SinkRecs /\ SameStand(sink[k], t) /\ t.obj = sink[k].obj BY DEF SinkSteps
<1>2. \A j \in Runs : sink'[j] = IF j = k THEN t ELSE sink[j] BY DEF SinkOnly, StreamTypes
<1>3. /\ cur' \in Nat /\ made' \in Nat /\ cur' <= made' /\ seq' \in [1 .. Objects -> Nat] /\ status' \in StatusType
      /\ UNCHANGED <<cur, made>> /\ seq' = seq /\ status' = status
  BY DEF stateVars, StreamTypes
<1>4. UNCHANGED <<received, test, tests, sinkOf>> /\ Objects' = Objects
  BY DEF SinkOnly, testVars, Objects, forgetVars
<1>5. Numbered'
  <2>1. ASSUME NEW j \in Runs PROVE SameNumber(j)
    <3>1. CASE j = k BY <1>1, <1>2, <3>1 DEF SameNumber, HeldBy
    <3>2. CASE j # k BY <1>2, <3>2 DEF SameNumber, HeldBy
    <3>3. QED BY <3>1, <3>2
  <2>2. Holders' \subseteq Holders BY <1>4, <2>1, HoldersKept
  <2>3. QED BY <1>3, <1>4, <2>2, NumbersKept
<1>6. StatusKept'
  <2>1. CASE t.pc # "gone" \/ sink[k].pc = "gone"
    <3>1. \A j \in Runs : sink[j].pc \notin {"none", "gone"} => sink'[j].pc \notin {"none", "gone"}
      BY <1>1, <1>2, <2>1 DEF SameStand
    <3>2. QED BY <1>3, <1>4, <3>1, StatusStays
  <2>2. CASE sinkOf # 0 /\ sinkOf # k
    <3>1. sinkOf \in Runs BY <2>2, StreamAssumption DEF StreamTypes, Runs
    <3>2. Works(sink[sinkOf]) BY <2>2 DEF Registered
    <3>3. sink[sinkOf].pc \notin {"none", "gone"}
      BY <3>1, <3>2 DEF Works, SinksSound, SinkSound, SinkShape, HasLeft
    <3>4. sink'[sinkOf].pc \notin {"none", "gone"} BY <1>2, <2>2, <3>1, <3>3
    <3>5. QED BY <1>3, <1>4, <3>1, <3>4 DEF StatusKept
  <2>3. QED BY <2>1, <2>2
<1>7. QED BY <1>3, <1>5, <1>6, GoesOn

\* Each step of the goroutine, and the end of its drain.
LEMMA DrainInv == ASSUME StreamInv, NEW k \in Runs, DrainOver(k) PROVE StreamInv'
<1> DEFINE t == [sink[k] EXCEPT !.timer = FALSE, !.cancelled = TRUE]
<1>1. sink[k] \in SinkRecs /\ Len(accepted[k]) \in Nat BY SinkTyped DEF StreamInv
<1>2. SinkSound(sink[k], Len(accepted[k])) BY DEF StreamInv, SinksSound
<1>3. SinkSteps(sink[k], t, Len(accepted[k])) BY <1>1, <1>2, DrainSteps DEF DrainOver
<1>4. t.seq = sink[k].seq /\ t.item = sink[k].item /\ t.pc = sink[k].pc BY <1>1 DEF SinkRecs
<1>5. SinkOnly(k, t) /\ UNCHANGED stateVars BY DEF DrainOver
<1> HIDE DEF t
<1>6. Quietly(k, t) BY <1>3, <1>4, <1>5 DEF Quietly
<1>7. QED BY <1>6, GoesOnQuietly

LEMMA TakeInv == ASSUME StreamInv, NEW k \in Runs, Take(k) PROVE StreamInv'
<1> DEFINE s == sink[k]
           t == IF s.queue # <<>>
                THEN [s EXCEPT !.item = Head(s.queue), !.queue = Tail(s.queue),
                               !.pc = IF s.cancelled THEN "leave" ELSE "deliver"]
                ELSE [s EXCEPT !.pc = IF s.closing THEN "leave" ELSE "wait"]
<1>1. sink[k] \in SinkRecs /\ Len(accepted[k]) \in Nat BY SinkTyped DEF StreamInv
<1>2. SinkSound(sink[k], Len(accepted[k])) BY DEF StreamInv, SinksSound
<1>3. SinkSteps(sink[k], t, Len(accepted[k])) BY <1>1, <1>2, TakeSteps DEF Take
<1>4. t.seq = 0
  <2>1. s.seq = 0 BY <1>2 DEF SinkSound, SinkShape, AtRest, Take
  <2>2. QED BY <1>1, <2>1 DEF SinkRecs
<1>5. t.pc # "gone" BY <1>1 DEF SinkRecs
<1>6. SinkOnly(k, t) /\ UNCHANGED stateVars BY DEF Take
<1> HIDE DEF t
<1>7. Quietly(k, t) BY <1>3, <1>4, <1>5, <1>6 DEF Quietly
<1>8. QED BY <1>7, GoesOnQuietly

LEMMA WokenInv == ASSUME StreamInv, NEW k \in Runs, Woken(k) PROVE StreamInv'
<1>1. sink[k] \in SinkRecs /\ Len(accepted[k]) \in Nat BY SinkTyped DEF StreamInv
<1>2. SinkSound(sink[k], Len(accepted[k])) BY DEF StreamInv, SinksSound
<1>3. PICK t : Quietly(k, t)
  <2>1. CASE SinkOnly(k, [sink[k] EXCEPT !.wake = FALSE, !.pc = "next"])
    <3> DEFINE t == [sink[k] EXCEPT !.wake = FALSE, !.pc = "next"]
    <3>1. SinkSteps(sink[k], t, Len(accepted[k])) BY <1>1, <1>2, WokenSteps DEF Woken
    <3>2. t.seq = sink[k].seq /\ t.item = sink[k].item /\ t.pc # "gone" BY <1>1 DEF SinkRecs
    <3>3. QED BY <2>1, <3>1, <3>2 DEF Quietly, Woken
  <2>2. CASE sink[k].cancelled /\ SinkOnly(k, [sink[k] EXCEPT !.pc = "leave"])
    <3> DEFINE t == [sink[k] EXCEPT !.pc = "leave"]
    <3>1. SinkSteps(sink[k], t, Len(accepted[k])) BY <1>1, <1>2, <2>2, WokenSteps DEF Woken
    <3>2. t.seq = sink[k].seq /\ t.item = sink[k].item /\ t.pc # "gone" BY <1>1 DEF SinkRecs
    <3>3. QED BY <2>2, <3>1, <3>2 DEF Quietly, Woken
  <2>3. QED BY <2>1, <2>2 DEF Woken
<1>4. QED BY <1>3, GoesOnQuietly

LEMMA DropStaleInv == ASSUME StreamInv, NEW k \in Runs, DropStale(k) PROVE StreamInv'
<1> DEFINE t == [sink[k] EXCEPT !.dropped = @ + 1, !.pc = "report"]
<1>1. sink[k] \in SinkRecs /\ Len(accepted[k]) \in Nat BY SinkTyped DEF StreamInv
<1>2. SinkSound(sink[k], Len(accepted[k])) BY DEF StreamInv, SinksSound
<1>3. SinkSteps(sink[k], t, Len(accepted[k])) BY <1>1, <1>2, DropStaleSteps DEF DropStale
<1>4. t.seq = sink[k].seq /\ t.item = sink[k].item /\ t.pc = "report" BY <1>1 DEF SinkRecs
<1>5. SinkOnly(k, t) /\ UNCHANGED stateVars BY DEF DropStale
<1> HIDE DEF t
<1>6. Quietly(k, t) BY <1>3, <1>4, <1>5 DEF Quietly
<1>7. QED BY <1>6, GoesOnQuietly

LEMMA AnswerInv == ASSUME StreamInv, NEW k \in Runs, Answer(k) PROVE StreamInv'
<1>1. sink[k] \in SinkRecs /\ Len(accepted[k]) \in Nat BY SinkTyped DEF StreamInv
<1>2. SinkSound(sink[k], Len(accepted[k])) BY DEF StreamInv, SinksSound
<1>3. PICK res \in Answers(sink[k].arrived) :
        SinkOnly(k, IF sink[k].cancelled THEN [sink[k] EXCEPT !.pc = "report"]
                    ELSE [sink[k] EXCEPT !.pc = "record", !.result = res])
  BY DEF Answer
<1> DEFINE t == IF sink[k].cancelled THEN [sink[k] EXCEPT !.pc = "report"]
                ELSE [sink[k] EXCEPT !.pc = "record", !.result = res]
<1>4. res \in SinkResults \ {"none"} BY DEF Answers, SinkResults
<1>5. SinkSteps(sink[k], t, Len(accepted[k])) BY <1>1, <1>2, <1>4, AnswerSteps DEF Answer
<1>6. t.seq = sink[k].seq /\ t.item = sink[k].item /\ t.pc # "gone" BY <1>1 DEF SinkRecs
<1>7. SinkOnly(k, t) /\ UNCHANGED stateVars BY <1>3 DEF Answer
<1> HIDE DEF t
<1>8. Quietly(k, t) BY <1>5, <1>6, <1>7 DEF Quietly
<1>9. QED BY <1>8, GoesOnQuietly

LEMMA RetryInv == ASSUME StreamInv, NEW k \in Runs, Retry(k) PROVE StreamInv'
<1>1. sink[k] \in SinkRecs /\ Len(accepted[k]) \in Nat BY SinkTyped DEF StreamInv
<1>2. SinkSound(sink[k], Len(accepted[k])) BY DEF StreamInv, SinksSound
<1>3. PICK at \in {"deliver", "report"} :
        SinkOnly(k, [sink[k] EXCEPT !.pc = at]) /\ (at = "report" => sink[k].cancelled)
  BY DEF Retry
<1> DEFINE t == [sink[k] EXCEPT !.pc = at]
<1>4. SinkSteps(sink[k], t, Len(accepted[k])) BY <1>1, <1>2, <1>3, RetrySteps DEF Retry
<1>5. t.seq = sink[k].seq /\ t.item = sink[k].item /\ t.pc # "gone" BY <1>1 DEF SinkRecs
<1>6. SinkOnly(k, t) /\ UNCHANGED stateVars BY <1>3 DEF Retry
<1> HIDE DEF t
<1>7. Quietly(k, t) BY <1>4, <1>5, <1>6 DEF Quietly
<1>8. QED BY <1>7, GoesOnQuietly

LEMMA ReportedAt ==
  ASSUME NEW s \in SinkRecs, NEW at
  PROVE  [Reported(s) EXCEPT !.pc = at].seq = 0 /\ [Reported(s) EXCEPT !.pc = at].pc = at
<1>1. "pc" \in DOMAIN s /\ "seq" \in DOMAIN s BY DEF SinkRecs
<1>2. QED BY <1>1 DEF Reported

LEMMA ReportInv == ASSUME StreamInv, NEW k \in Runs, Report(k) PROVE StreamInv'
<1> DEFINE t == [Reported(sink[k]) EXCEPT !.pc = "next"]
<1>1. sink[k] \in SinkRecs /\ Len(accepted[k]) \in Nat BY SinkTyped DEF StreamInv
<1>2. SinkSound(sink[k], Len(accepted[k])) BY DEF StreamInv, SinksSound
<1>3. SinkSteps(sink[k], t, Len(accepted[k])) BY <1>1, <1>2, ReportSteps DEF Report
<1>4. t.seq = 0 /\ t.pc = "next" BY <1>1, ReportedAt
<1>5. SinkOnly(k, t) /\ UNCHANGED stateVars BY DEF Report
<1> HIDE DEF t
<1>6. Quietly(k, t) BY <1>3, <1>4, <1>5 DEF Quietly
<1>7. QED BY <1>6, GoesOnQuietly

LEMMA LeaveInv == ASSUME StreamInv, NEW k \in Runs, Leave(k) PROVE StreamInv'
<1>1. sink[k] \in SinkRecs /\ Len(accepted[k]) \in Nat BY SinkTyped DEF StreamInv
<1>2. SinkSound(sink[k], Len(accepted[k])) BY DEF StreamInv, SinksSound
<1>3. PICK at \in {"gone", "settle"} : at = IF sinkOf # 0 THEN "gone" ELSE "settle" OBVIOUS
<1> DEFINE t == [Reported(sink[k]) EXCEPT !.pc = at]
<1>4. SinkSteps(sink[k], t, Len(accepted[k])) BY <1>1, <1>2, ReportSteps DEF Leave
<1>5. t.seq = 0 /\ t.pc = at BY <1>1, ReportedAt
<1>6. SinkOnly(k, t) /\ UNCHANGED stateVars BY <1>3 DEF Leave
<1>7. sinkOf # k
  <2>1. sink[k].closing BY <1>2 DEF SinkSound, SinkShape, HasLeft, Leave
  <2>2. QED BY <2>1, StreamAssumption DEF StreamInv, Registered, Works, Runs
<1> HIDE DEF t
<1>8. Quietly(k, t) BY <1>3, <1>4, <1>5, <1>6, <1>7 DEF Quietly
<1>9. QED BY <1>8, GoesOnQuietly

LEMMA HoldersTyped == ASSUME StreamTypes PROVE Holders \subseteq Posts
<1>1. Sent \subseteq Posts BY DEF StreamTypes, Sent
<1>2. Held \subseteq Posts
  <2> SUFFICES ASSUME NEW j \in Runs PROVE HeldBy(j) \in Posts BY DEF Held
  <2>1. sink[j] \in SinkRecs BY SinkTyped
  <2>2. j \in 0 .. MaxRuns BY StreamAssumption DEF Runs
  <2>3. QED BY <2>1, <2>2 DEF HeldBy, Posts, SinkRecs
<1>3. TestPost \in Posts BY StreamAssumption DEF TestPost, Posts, StreamTypes
<1>4. QED BY <1>1, <1>2, <1>3 DEF Holders

\* A caption without a number has not been sent.
LEMMA NotYetSent ==
  ASSUME StreamInv, NEW k \in Runs, sink[k].seq = 0
  PROVE  \A a \in Holders : ~(a.by = k /\ a.item = sink[k].item)
<1>1. k # 0 BY DEF Runs
<1>2. ASSUME NEW a \in Sent, a.by = k, a.item = sink[k].item PROVE FALSE
  <2>1. PICK i \in 1 .. Len(received) : a = received[i] BY DEF Sent
  <2>2. Behind(a, sink[k], Len(accepted[k])) BY <1>1, <1>2, <2>1 DEF StreamInv, SentBehind
  <2>3. QED BY <1>2, <2>2 DEF Behind
<1>3. ASSUME NEW a \in Held, a.by = k PROVE FALSE BY <1>3 DEF Held, HeldBy
<1>4. TestPost.by # k BY <1>1 DEF TestPost
<1>5. QED BY <1>2, <1>3, <1>4 DEF Holders

LEMMA SendInv == ASSUME StreamInv, NEW k \in Runs, Send(k) PROVE StreamInv'
<1>1. sink[k] \in SinkRecs /\ Len(accepted[k]) \in Nat BY SinkTyped DEF StreamInv
<1>2. SinkSound(sink[k], Len(accepted[k])) BY DEF StreamInv, SinksSound
<1>3. StreamTypes /\ Numbered /\ StatusKept BY DEF StreamInv
<1>4. PICK o \in 1 .. Objects : o = sink[k].obj BY DEF StreamInv, ObjectsMade, Send
<1>5. seq \in [1 .. Objects -> Nat] /\ seq[o] \in Nat BY <1>3 DEF StreamTypes
<1>6. PICK n \in Nat : n = SeqFor(sink[k]) BY <1>1, <1>4, <1>5 DEF SeqFor, SinkRecs
<1>7. n >= 1 BY <1>1, <1>4, <1>5, <1>6 DEF SeqFor, SinkRecs
<1> DEFINE s == sink[k]
           t == [s EXCEPT !.seq = n, !.arrived = FALSE]
           u == IF s.cancelled THEN [t EXCEPT !.pc = "report"]
                ELSE IF s.url # NoUrl THEN [t EXCEPT !.pc = "post"]
                ELSE [t EXCEPT !.pc = "record", !.result = "no_url"]
<1>8. SinkSteps(s, u, Len(accepted[k])) BY <1>1, <1>2, <1>7, SendSteps DEF Send
<1>9. SinkOnly(k, u) /\ UNCHANGED <<cur, made, status>>
      /\ seq' = [seq EXCEPT ![o] = IF n > seq[o] THEN n ELSE seq[o]]
  BY <1>4, <1>5, <1>6 DEF Send
<1>10. u.seq = n /\ u.item = s.item /\ u.obj = s.obj /\ u.pc \notin {"none", "gone"} BY <1>1 DEF SinkRecs
<1> HIDE DEF u
<1>11. \A j \in Runs : sink'[j] = IF j = k THEN u ELSE sink[j] BY <1>3, <1>9 DEF SinkOnly, StreamTypes
<1>12. received' = received /\ test' = test /\ tests' = tests /\ Objects' = Objects
  BY <1>9 DEF SinkOnly, testVars, Objects, forgetVars
<1>13. seq' \in [1 .. Objects -> Nat] BY <1>5, <1>9
<1>14. StatusKept'
  <2>1. \A j \in Runs : sink[j].pc \notin {"none", "gone"} => sink'[j].pc \notin {"none", "gone"}
    BY <1>10, <1>11
  <2>2. QED BY <1>3, <1>9, <1>12, <2>1, StatusStays
<1>15. Numbered'
  <2>1. CASE s.seq # 0
    <3>1. n = s.seq BY <1>6, <2>1 DEF SeqFor
    <3>2. HeldBy(k) \in Holders BY <2>1 DEF Held, Holders
    <3>3. n <= seq[o] BY <1>3, <1>4, <3>1, <3>2 DEF Numbered, HeldBy
    <3>4. seq' = seq BY <1>5, <1>9, <3>3
    <3>5. \A j \in Runs : SameNumber(j) BY <1>10, <1>11, <2>1, <3>1 DEF SameNumber, HeldBy
    <3>6. Holders' \subseteq Holders BY <1>12, <3>5, HoldersKept
    <3>7. QED BY <1>3, <1>12, <3>4, <3>6, NumbersKept
  <2>2. CASE s.seq = 0
    <3>1. n = seq[o] + 1 BY <1>4, <1>6, <2>2 DEF SeqFor
    <3> DEFINE h == [by |-> k, item |-> s.item, seq |-> n, obj |-> s.obj]
    <3>2. h.obj = o /\ h.seq = n /\ h.by = k /\ h.item = s.item BY <1>4
    <3>3. seq' = [seq EXCEPT ![h.obj] = h.seq]
      <4>1. n > seq[o] BY <1>5, <3>1
      <4>2. seq' = [seq EXCEPT ![o] = n] BY <1>9, <4>1
      <4>3. QED BY <3>2, <4>2
    <3>4. Holders' \subseteq Holders \cup {h}
      <4>1. Held' \subseteq Held \cup {h}
        <5> SUFFICES ASSUME NEW j \in Runs, sink'[j].seq # 0 PROVE HeldBy(j)' \in Held \cup {h} BY DEF Held
        <5>1. CASE j = k BY <1>10, <1>11, <5>1 DEF HeldBy
        <5>2. CASE j # k BY <1>11, <5>2 DEF HeldBy, Held
        <5>3. QED BY <5>1, <5>2
      <4>2. Sent' = Sent /\ TestPost' = TestPost BY <1>12 DEF Sent, TestPost
      <4>3. QED BY <1>12, <4>1, <4>2 DEF Holders
    <3>5. \A a \in Holders : a.seq \in Nat /\ ~(a.obj = h.obj /\ a.by = h.by /\ a.item = h.item)
      <4>1. \A a \in Holders : a.seq \in Nat BY <1>3, HoldersTyped DEF Posts
      <4>2. \A a \in Holders : ~(a.by = k /\ a.item = s.item) BY <2>2, NotYetSent
      <4>3. QED BY <3>2, <4>1, <4>2
    <3>6. h.obj \in 1 .. Objects /\ h.seq = seq[h.obj] + 1 BY <1>4, <3>1, <3>2
    <3> HIDE DEF h
    <3>7. QED BY <1>3, <1>12, <3>3, <3>4, <3>5, <3>6, NumberTaken
  <2>3. QED BY <2>1, <2>2
<1>16. cur' \in Nat /\ made' \in Nat /\ cur' <= made' /\ status' \in StatusType /\ UNCHANGED <<cur, made>>
  BY <1>3, <1>9 DEF StreamTypes
<1>17. QED BY <1>8, <1>9, <1>13, <1>14, <1>15, <1>16, GoesOn

\* What SetStatus sets is a status, and a state object is kept.
LEMMA StatusSet ==
  ASSUME StreamTypes, ObjectsMade, NEW st \in StatusType, SetStatus(st)
  PROVE  /\ status' \in StatusType /\ status' = st /\ StateKept
         /\ cur' \in Nat /\ made' \in Nat /\ cur' <= made'
<1>1. StateKept BY DEF SetStatus
<1>2. cur' \in Nat BY <1>1, StateIsOne DEF Objects
<1>3. QED BY <1>1, <1>2, StateIsOne DEF SetStatus

\* A step of the goroutine that takes no number keeps them right.
LEMMA NumbersKeptBy ==
  ASSUME StreamTypes, Numbered, NEW k \in Runs, NEW t, SinkOnly(k, t), t.obj = sink[k].obj, seq' = seq,
         t.seq = 0 \/ (t.seq = sink[k].seq /\ t.item = sink[k].item)
  PROVE  Numbered'
<1>1. \A j \in Runs : sink'[j] = IF j = k THEN t ELSE sink[j] BY DEF SinkOnly, StreamTypes
<1>2. UNCHANGED <<received, test, tests>> /\ Objects' = Objects BY DEF SinkOnly, testVars, Objects, forgetVars
<1>3. ASSUME NEW j \in Runs PROVE SameNumber(j)
  <2>1. CASE j = k BY <1>1, <2>1 DEF SameNumber, HeldBy
  <2>2. CASE j # k BY <1>1, <2>2 DEF SameNumber, HeldBy
  <2>3. QED BY <2>1, <2>2
<1>4. Holders' \subseteq Holders BY <1>2, <1>3, HoldersKept
<1>5. QED BY <1>2, <1>4, NumbersKept

LEMMA DeliveryTyped == \A res \in SinkResults \ {"none"}, retry \in BOOLEAN : DeliveryStatus(res, retry) \in StatusType
BY DEF DeliveryStatus, SinkResults, StatusType

LEMMA RecordInv == ASSUME StreamInv, NEW k \in Runs, Record(k) PROVE StreamInv'
<1>1. sink[k] \in SinkRecs /\ Len(accepted[k]) \in Nat BY SinkTyped DEF StreamInv
<1>2. SinkSound(sink[k], Len(accepted[k])) BY DEF StreamInv, SinksSound
<1>3. StreamTypes /\ ObjectsMade /\ Numbered /\ StatusKept BY DEF StreamInv
<1> DEFINE s == sink[k]
           t == IF s.result = "failed" THEN [s EXCEPT !.pc = "backoff"]
                ELSE [s EXCEPT !.pc = "report", !.settled = @ + 1]
<1>4. SinkSteps(s, t, Len(accepted[k])) BY <1>1, <1>2, RecordSteps DEF Record
<1>5. t.seq = s.seq /\ t.item = s.item /\ t.obj = s.obj /\ t.pc \notin {"none", "gone"} BY <1>1 DEF SinkRecs
<1>6. SinkOnly(k, t) /\ SetStatus(DeliveryStatus(s.result, TRUE)) /\ seq' = seq BY DEF Record
<1> HIDE DEF t
<1>7. DeliveryStatus(s.result, TRUE) \in StatusType
  <2>1. s.result \in SinkResults \ {"none"} BY <1>1, <1>2 DEF SinkRecs, SinkSound, SinkShape, Record
  <2>2. QED BY <2>1, DeliveryTyped
<1>8. /\ status' \in StatusType /\ StateKept
      /\ cur' \in Nat /\ made' \in Nat /\ cur' <= made'
  BY <1>3, <1>6, <1>7, StatusSet
<1>9. Numbered' BY <1>3, <1>5, <1>6, NumbersKeptBy
<1>10. StatusKept'
  <2>1. sink'[k].pc \notin {"none", "gone"} BY <1>3, <1>5, <1>6 DEF SinkOnly, StreamTypes
  <2>2. test' = test /\ tests' = tests BY <1>6 DEF SinkOnly, testVars
  <2>3. QED BY <1>3, <2>1, <2>2 DEF StatusKept
<1>11. seq' \in [1 .. Objects -> Nat] BY <1>3, <1>6 DEF StreamTypes
<1>12. QED BY <1>4, <1>6, <1>8, <1>9, <1>10, <1>11, GoesOn

LEMMA SettleInv == ASSUME StreamInv, NEW k \in Runs, Settle(k) PROVE StreamInv'
<1>1. sink[k] \in SinkRecs /\ Len(accepted[k]) \in Nat BY SinkTyped DEF StreamInv
<1>2. SinkSound(sink[k], Len(accepted[k])) BY DEF StreamInv, SinksSound
<1>3. StreamTypes /\ ObjectsMade /\ Numbered /\ StatusKept BY DEF StreamInv
<1> DEFINE s == sink[k]
           t == [s EXCEPT !.pc = "gone"]
<1>4. SinkSteps(s, t, Len(accepted[k]))
  <2>1. t \in SinkRecs /\ SameData(s, t) /\ t.pc = "gone" /\ t.cancelled = s.cancelled
        /\ t.closing = s.closing /\ t.timer = s.timer
    BY <1>1 DEF SinkRecs, SameData, SinkPlaces
  <2>2. SinkShape(t, Len(accepted[k]))
    BY <1>2, <2>1 DEF Settle, SinkShape, SinkSound, SameData, AtRest, InHand, HasLeft
  <2>3. SameStand(s, t) BY <1>2, <2>1 DEF Settle, SameStand, Works, SinkShape, SinkSound, HasLeft
  <2>4. s.pc \notin InHand /\ t.pc \notin InHand BY <2>1 DEF Settle, InHand
  <2> HIDE DEF t
  <2>5. QED BY <1>1, <1>2, <2>1, <2>2, <2>3, <2>4, FlagsStep
<1>5. t.seq = s.seq /\ t.item = s.item /\ t.obj = s.obj BY <1>1 DEF SinkRecs
<1>6. SinkOnly(k, t) /\ SetStatus(Settled(status)) /\ seq' = seq BY DEF Settle
<1> HIDE DEF t
<1>7. Settled(status) \in StatusType /\ Settled(status).state \in Quiet
  BY <1>3 DEF StreamTypes, Settled, StatusType, Quiet
<1>8. /\ status' \in StatusType /\ status' = Settled(status) /\ StateKept
      /\ cur' \in Nat /\ made' \in Nat /\ cur' <= made'
  BY <1>3, <1>6, <1>7, StatusSet
<1>9. Numbered' BY <1>3, <1>5, <1>6, NumbersKeptBy
<1>10. StatusKept'
  <2>1. test' = test /\ tests' = tests BY <1>6 DEF SinkOnly, testVars
  <2>2. QED BY <1>3, <1>7, <1>8, <2>1 DEF StatusKept
<1>11. seq' \in [1 .. Objects -> Nat] BY <1>3, <1>6 DEF StreamTypes
<1>12. QED BY <1>4, <1>6, <1>8, <1>9, <1>10, <1>11, GoesOn

-----------------------------------------------------------------------------
(* What reaches YouTube *)

\* A post that arrives is one that has its number, and comes last.
LEMMA Arrived ==
  ASSUME StreamTypes, NEW p \in Holders, received' = Append(received, p)
  PROVE  /\ received' \in Seq(Posts) /\ Sent' \subseteq Sent \cup {p}
         /\ \A i \in 1 .. Len(received)' :
              (i \in 1 .. Len(received) /\ received'[i] = received[i]) \/ (i = Len(received) + 1 /\ received'[i] = p)
<1>1. p \in Posts BY HoldersTyped
<1>2. received \in Seq(Posts) BY DEF StreamTypes
<1>3. PICK n \in Nat : n = Len(received) BY <1>2
<1>4. /\ received' \in Seq(Posts) /\ Len(received') = n + 1 /\ received'[n + 1] = p
      /\ \A i \in 1 .. n : received'[i] = received[i]
  BY ONLY <1>1, <1>2, <1>3, received' = Append(received, p)
<1>5. \A i \in 1 .. n + 1 : i \in 1 .. n \/ i = n + 1 OBVIOUS
<1>6. \A i \in 1 .. Len(received)' : (i \in 1 .. n /\ received'[i] = received[i]) \/ (i = n + 1 /\ received'[i] = p)
  BY ONLY <1>4, <1>5
<1>7. Sent' \subseteq Sent \cup {p} BY <1>3, <1>6 DEF Sent
<1>8. QED BY <1>3, <1>4, <1>6, <1>7

LEMMA ArrivedLast ==
  ASSUME StreamTypes, SinkOrder, NEW p \in Holders, received' = Append(received, p),
         \A i \in 1 .. Len(received) : received[i].by = p.by => received[i].item <= p.item
  PROVE  SinkOrder'
<1>1. PICK n \in Nat : n = Len(received) BY DEF StreamTypes
<1>2. \A i \in 1 .. Len(received)' :
        (i \in 1 .. n /\ received'[i] = received[i]) \/ (i = n + 1 /\ received'[i] = p)
  BY <1>1, Arrived
<1>3. p.item \in Nat BY HoldersTyped DEF Posts
<1> SUFFICES ASSUME NEW i \in 1 .. Len(received)', NEW j \in 1 .. Len(received)', i < j,
                    received'[i].by = received'[j].by
             PROVE  received'[i].item <= received'[j].item
  BY DEF SinkOrder
<1>4. i \in 1 .. n /\ received'[i] = received[i]
  <2>1. j <= n + 1 /\ j \in Nat /\ i \in Nat BY ONLY <1>2, n \in Nat, i \in 1 .. Len(received)', j \in 1 .. Len(received)'
  <2>2. i # n + 1 BY <2>1
  <2>3. QED BY <1>2, <2>2
<1>5. CASE j \in 1 .. n /\ received'[j] = received[j] BY <1>1, <1>4, <1>5 DEF SinkOrder
<1>6. CASE received'[j] = p BY <1>1, <1>4, <1>6
<1>7. QED BY <1>2, <1>5, <1>6

LEMMA ArriveInv == ASSUME StreamInv, NEW k \in Runs, Arrive(k) PROVE StreamInv'
<1> DEFINE p == HeldBy(k)
           t == [sink[k] EXCEPT !.arrived = TRUE]
           n == Len(accepted[k])
<1>1. sink[k] \in SinkRecs /\ n \in Nat BY SinkTyped DEF StreamInv
<1>2. SinkSound(sink[k], n) BY DEF StreamInv, SinksSound
<1>3. StreamTypes /\ ObjectsMade /\ Numbered /\ StatusKept /\ Registered /\ SinkOrder /\ SentBehind /\ SinksSound
  BY DEF StreamInv
<1>4. sink[k].item >= 1 /\ sink[k].seq >= 1 /\ sink[k].pc = "post"
  BY <1>2 DEF Arrive, SinkSound, SinkShape, InHand
<1>5. p \in Holders BY <1>1, <1>4 DEF Holders, Held, SinkRecs
<1>6. received' = Append(received, p) /\ sink' = [sink EXCEPT ![k] = t]
      /\ UNCHANGED <<runVars, sinkOf, stateVars, accepted, urlVars, testVars, forgetVars, shut, left>>
  BY <1>3 DEF Arrive, HeldBy, StreamTypes
<1>7. /\ t \in SinkRecs /\ SameData(sink[k], t) /\ t.pc = sink[k].pc /\ t.cancelled = sink[k].cancelled
      /\ t.closing = sink[k].closing /\ t.timer = sink[k].timer
  BY <1>1 DEF SinkRecs, SameData
<1>8. SinkSteps(sink[k], t, n)
  <2>1. SinkShape(t, n)
    BY <1>2, <1>4, <1>7 DEF SinkShape, SinkSound, SameData, AtRest, InHand, HasLeft
  <2>2. SameStand(sink[k], t) BY <1>7 DEF SameStand, Works
  <2> HIDE DEF t, n
  <2>3. QED BY <1>1, <1>2, <1>7, <2>1, <2>2, FlagsStep
<1>9. HeldBy(k)' = HeldBy(k) BY <1>1, <1>3, <1>6 DEF HeldBy, StreamTypes, SinkRecs
<1> HIDE DEF p, t, n
<1>10. \A j \in Runs : sink'[j] = IF j = k THEN t ELSE sink[j] BY <1>3, <1>6 DEF StreamTypes
<1>11. /\ received' \in Seq(Posts) /\ Sent' \subseteq Sent \cup {p}
       /\ \A i \in 1 .. Len(received)' :
            (i \in 1 .. Len(received) /\ received'[i] = received[i]) \/ (i = Len(received) + 1 /\ received'[i] = p)
  BY <1>3, <1>5, <1>6, Arrived
<1>12. Objects' = Objects /\ Dropping' = Dropping BY <1>6 DEF Objects, Dropping, forgetVars
<1>13. StreamTypes'
  <2>1. sink' \in [Runs -> SinkRecs] BY <1>3, <1>6, <1>7 DEF StreamTypes
  <2>2. QED BY <1>3, <1>6, <1>11, <1>12, <2>1 DEF StreamTypes, runVars, forgetVars, testVars, urlVars, stateVars
<1>14. SinksSound' BY <1>3, <1>6, <1>8, <1>10 DEF SinksSound, SinkSteps, n
<1>15. Registered'
  <2>1. \A j \in Runs : SameStand(sink[j], sink'[j]) BY <1>8, <1>10 DEF SinkSteps, SameStand
  <2>2. QED BY <1>3, <1>6, <2>1, RegisteredKept DEF runVars, forgetVars
<1>16. ObjectsMade'
  <2>1. \A j \in Runs : sink'[j].pc # "none" => sink[j].pc # "none" /\ sink'[j].obj = sink[j].obj
    BY <1>7, <1>10 DEF SameData
  <2>2. QED BY <1>3, <1>6, <1>12, <2>1, ObjectsKept DEF stateVars, forgetVars
<1>17. StatusKept'
  <2>1. \A j \in Runs : sink[j].pc \notin {"none", "gone"} => sink'[j].pc \notin {"none", "gone"}
    BY <1>7, <1>10
  <2>2. QED BY <1>3, <1>6, <2>1, StatusStays DEF stateVars, testVars
<1>18. Numbered'
  <2>1. Held' \subseteq Held
    <3> SUFFICES ASSUME NEW j \in Runs, sink'[j].seq # 0 PROVE HeldBy(j)' \in Held BY DEF Held
    <3>1. CASE j = k BY <1>4, <1>7, <1>9, <1>10, <3>1 DEF Held, SameData
    <3>2. CASE j # k BY <1>10, <3>2 DEF Held, HeldBy
    <3>3. QED BY <3>1, <3>2
  <2>2. TestPost' = TestPost /\ test' = test BY <1>6 DEF TestPost, testVars
  <2>3. Holders' \subseteq Holders BY <1>5, <1>11, <2>1, <2>2 DEF Holders
  <2>4. QED BY <1>3, <1>6, <1>12, <2>3, NumbersKept DEF stateVars
<1>19. SentBehind'
  <2>1. \A j \in Runs : StaysBehind(sink[j], Len(accepted[j]), sink'[j], Len(accepted'[j]))
    BY <1>6, <1>8, <1>10 DEF SinkSteps, StaysBehind, n
  <2>2. tests' = tests /\ TestAhead' = TestAhead BY <1>6 DEF testVars, TestAhead
  <2> SUFFICES ASSUME NEW i \in 1 .. Len(received)'
               PROVE  /\ received'[i].by # 0 =>
                           Behind(received'[i], sink'[received'[i].by], Len(accepted'[received'[i].by]))
                      /\ received'[i].by = 0 =>
                           received'[i].item <= tests /\ (TestAhead => received'[i].item < tests)
    BY <2>2 DEF SentBehind
  <2>3. CASE i \in 1 .. Len(received) /\ received'[i] = received[i]
    <3>1. received[i] \in Posts BY SMTT(30), <1>3, <2>3 DEF StreamTypes
    <3>2. received[i].by # 0 => received[i].by \in Runs BY <3>1, StreamAssumption DEF Posts, Runs
    <3>3. QED BY <1>3, <2>1, <2>3, <3>1, <3>2 DEF SentBehind, StaysBehind
  <2>4. CASE received'[i] = p
    <3>1. p.by = k /\ p.item = sink[k].item /\ k # 0 BY DEF p, HeldBy, Runs
    <3>2. Behind(p, t, n)
      <4>1. sink[k].item \in Nat /\ sink[k].seq \in Nat BY <1>1 DEF SinkRecs
      <4>2. t.item = sink[k].item /\ t.seq = sink[k].seq /\ t.queue = sink[k].queue BY <1>7 DEF SameData
      <4>3. QED BY <1>2, <1>4, <3>1, <4>1, <4>2 DEF Behind, SinkSound, QueueOrder
    <3>3. accepted' = accepted BY <1>6
    <3>4. QED BY <1>10, <2>4, <3>1, <3>2, <3>3 DEF n
  <2>5. QED BY <1>11, <2>3, <2>4
<1>20. SinkOrder'
  <2>1. \A i \in 1 .. Len(received) : received[i].by = p.by => received[i].item <= p.item
    <3>1. p.by = k /\ p.item = sink[k].item /\ k # 0 BY DEF p, HeldBy, Runs
    <3>2. sink[k].item # 0 BY <1>4
    <3>3. QED BY <1>3, <3>1, <3>2 DEF SentBehind, Behind
  <2>2. QED BY <1>3, <1>5, <1>6, <2>1, ArrivedLast
<1>21. QED BY <1>13, <1>14, <1>15, <1>16, <1>17, <1>18, <1>19, <1>20 DEF StreamInv

-----------------------------------------------------------------------------
(* The calls of the manager and of admins *)

SinkKeeps(j) ==
  /\ SinkSound(sink[j], Len(accepted[j]))'
  /\ StaysBehind(sink[j], Len(accepted[j]), sink'[j], Len(accepted'[j]))
  /\ SameNumber(j)

LEMMA Untouched ==
  ASSUME StreamInv, NEW j \in Runs, sink'[j] = sink[j], accepted'[j] = accepted[j]
  PROVE  SinkKeeps(j)
BY DEF StreamInv, SinksSound, SinkKeeps, StaysBehind, SameNumber, HeldBy

\* A call that posts nothing leaves to show where the sinks stand.
LEMMA CallKeeps ==
  ASSUME StreamInv, StreamTypes', Registered', ObjectsMade', StatusKept',
         UNCHANGED <<received, test, tests, seq>>, Objects' = Objects, \A j \in Runs : SinkKeeps(j)
  PROVE  StreamInv'
<1>1. SinksSound' BY DEF SinksSound, SinkKeeps
<1>2. SentBehind' BY BehindKept DEF StreamInv, SinkKeeps
<1>3. Numbered'
  <2>1. Holders' \subseteq Holders BY HoldersKept DEF SinkKeeps
  <2>2. QED BY <2>1, NumbersKept DEF StreamInv
<1>4. SinkOrder' BY DEF StreamInv, SinkOrder
<1>5. QED BY <1>1, <1>2, <1>3, <1>4 DEF StreamInv

LEMMA CalledTyped ==
  ASSUME StreamTypes, NEW kind \in {"runs", "finals", "urls", "tests", "forgets"}, Called(kind)
  PROVE  /\ left' \in [runs : Nat, finals : Nat, urls : Nat, tests : Nat, forgets : Nat]
         /\ kind # "forgets" => left'.forgets = left.forgets
         /\ kind = "forgets" => left'.forgets = left.forgets - 1 /\ left.forgets \in Nat
<1>1. left \in [runs : Nat, finals : Nat, urls : Nat, tests : Nat, forgets : Nat] BY DEF StreamTypes
<1>2. left[kind] \in Nat BY <1>1
<1>3. PICK n \in Nat : n = left[kind] - 1 BY <1>2 DEF Called
<1>4. left' = [left EXCEPT ![kind] = n] BY <1>3 DEF Called
<1>5. QED BY <1>1, <1>3, <1>4

\* A sink somebody holds is one of the runs'.
LEMMA HeldIsRun == ASSUME StreamTypes
  PROVE  /\ sinkOf # 0 => sinkOf \in Runs
         /\ forget.sink # 0 => forget.sink \in Runs
         /\ \A r \in Runs : (tookOut[r] # 0 => tookOut[r] \in Runs) /\ (offer[r].sink # 0 => offer[r].sink \in Runs)
<1>1. \A k \in 0 .. MaxRuns : k # 0 => k \in Runs BY StreamAssumption DEF Runs
<1>2. sinkOf \in 0 .. MaxRuns /\ forget.sink \in 0 .. MaxRuns BY DEF StreamTypes
<1>3. \A r \in Runs : tookOut[r] \in 0 .. MaxRuns BY DEF StreamTypes
<1>4. \A r \in Runs : offer[r].sink \in 0 .. MaxRuns BY DEF StreamTypes
<1>5. QED BY <1>1, <1>2, <1>3, <1>4

\* close of a sink that was taken out.
LEMMA ClosesSink ==
  ASSUME StreamInv, NEW k \in 0 .. MaxRuns, OutOf(k), CloseSink(k), accepted' = accepted
  PROVE  /\ sink' \in [Runs -> SinkRecs]
         /\ \A j \in Runs : /\ SinkKeeps(j) /\ sink'[j].pc = sink[j].pc /\ sink'[j].obj = sink[j].obj
                            /\ j = sinkOf => sink'[j] = sink[j]
<1>1. CASE k = 0
  <2>1. sink' = sink BY <1>1 DEF CloseSink
  <2>2. \A j \in Runs : SinkKeeps(j) BY <2>1, Untouched
  <2>3. QED BY <2>1, <2>2 DEF StreamInv, StreamTypes
<1>2. CASE k # 0
  <2>1. k \in Runs BY <1>2, StreamAssumption DEF Runs
  <2> DEFINE t == [sink[k] EXCEPT !.closing = TRUE, !.wake = TRUE, !.timer = TRUE]
             n == Len(accepted[k])
  <2>2. sink[k] \in SinkRecs /\ n \in Nat BY <2>1, SinkTyped DEF StreamInv
  <2>3. /\ t \in SinkRecs /\ SameData(sink[k], t) /\ t.pc = sink[k].pc /\ t.result = sink[k].result
        /\ t.closing /\ t.wake /\ t.cancelled = sink[k].cancelled
    BY <2>2 DEF SinkRecs, SameData
  <2>4. sink' = [sink EXCEPT ![k] = t]
    <3>1. sink \in [Runs -> SinkRecs] BY DEF StreamInv, StreamTypes
    <3>2. QED BY <1>2, <2>1, <2>2, <3>1 DEF CloseSink, Closed, SinkRecs
  <2>5. SinkSound(sink[k], n) /\ sink[k].pc # "none" /\ k # sinkOf
    BY <1>2, <2>1 DEF StreamInv, SinksSound, OutOf
  <2> HIDE DEF t, n
  <2>6. SinkSound(t, n) /\ StaysBehind(sink[k], n, t, n) BY <2>2, <2>3, <2>5, CloseSteps
  <2>7. \A j \in Runs : sink'[j] = IF j = k THEN t ELSE sink[j] BY <2>4 DEF StreamInv, StreamTypes
  <2>8. SinkKeeps(k)
    <3>1. sink'[k] = t /\ t.seq = sink[k].seq /\ t.item = sink[k].item /\ t.obj = sink[k].obj
      BY <2>1, <2>3, <2>7 DEF SameData
    <3>2. QED BY <2>6, <3>1 DEF SinkKeeps, SameNumber, HeldBy, n
  <2>9. \A j \in Runs : j # k => SinkKeeps(j) BY <2>7, Untouched
  <2>10. sink' \in [Runs -> SinkRecs] BY <2>3, <2>4 DEF StreamInv, StreamTypes
  <2>11. QED BY <2>3, <2>5, <2>7, <2>8, <2>9, <2>10 DEF SameData
<1>3. QED BY <1>1, <1>2

\* A call that leaves the sinks alone.
LEMMA SinksAlone ==
  ASSUME StreamInv, sink' = sink, accepted' = accepted
  PROVE  \A j \in Runs : SinkKeeps(j)
BY Untouched

\* What a call leaves to show of who holds which sink.
LEMMA RegisteredBy ==
  ASSUME StreamTypes, Registered, sinkOf' = sinkOf \/ sinkOf' = 0,
         sinkOf' # 0 => Works(sink'[sinkOf']),
         \A j \in Runs : sink[j].pc # "none" => sink'[j].pc # "none",
         forget'.sink = forget.sink \/ OutOf(forget.sink)',
         \A q \in Runs :
           /\ tookOut'[q] = tookOut[q] \/ OutOf(tookOut[q])'
           /\ offer'[q].sink = offer[q].sink \/ (offer'[q].sink # 0 => sink'[offer'[q].sink].pc # "none")
           /\ run'[q] \in {"new", "read"} => sink'[q].pc = "none"
           /\ run'[q] \in {"registered", "closed"} => sink'[q].pc = "made"
  PROVE  Registered'
<1>1. (sinkOf # 0 => Works(sink[sinkOf]))' OBVIOUS
<1>2. OutOf(forget.sink)' BY HeldIsRun DEF Registered, OutOf
<1>3. ASSUME NEW q \in Runs
      PROVE  /\ OutOf(tookOut[q])'
             /\ (offer[q].sink # 0 => sink[offer[q].sink].pc # "none")'
  BY HeldIsRun DEF Registered, OutOf
<1>4. QED BY <1>1, <1>2, <1>3 DEF Registered

LEMMA ReadUrlInv == ASSUME StreamInv, NEW r \in Runs, ReadUrl(r) PROVE StreamInv'
<1> USE DEF StreamInv, ReadUrl
<1> DEFINE t == [sink[r] EXCEPT !.first = stored]
<1>1. sink[r] \in SinkRecs /\ Len(accepted[r]) \in Nat BY SinkTyped
<1>2. SinkSound(sink[r], Len(accepted[r])) BY DEF SinksSound
<1>3. sink[r].pc = "none" BY DEF CanStart, Registered
<1>4. sink[r] = [NoSink EXCEPT !.first = sink[r].first] /\ Len(accepted[r]) = 0
  BY <1>2, <1>3 DEF SinkSound, SinkShape
<1>5. t \in SinkRecs /\ SameData(sink[r], t) /\ t.pc = "none" /\ t.cancelled = sink[r].cancelled /\ t.first = stored
  BY <1>1, <1>3 DEF SinkRecs, SameData, StreamTypes
<1>6. t = [NoSink EXCEPT !.first = stored] BY <1>4 DEF NoSink
<1>7. sink' = [sink EXCEPT ![r] = t] OBVIOUS
<1>8. SinkShape(t, Len(accepted[r]))
  BY <1>4, <1>5, <1>6 DEF SinkShape, NoSink, AtRest, InHand, HasLeft
<1> HIDE DEF t
<1>9. Tally(t, Len(accepted[r])) BY <1>2, <1>3, <1>5 DEF SinkSound, Tally, SameData, InHand
<1>10. QueueOrder(t, Len(accepted[r])) /\ StaysBehind(sink[r], Len(accepted[r]), t, Len(accepted[r]))
  BY <1>1, <1>2, <1>5, SameDataKeeps DEF SinkSound
<1>11. \A j \in Runs : sink'[j] = IF j = r THEN t ELSE sink[j] BY <1>7 DEF StreamTypes
<1>12. \A j \in Runs : SinkKeeps(j)
  <2>1. SinkKeeps(r)
    <3>1. sink'[r] = t /\ t.seq = sink[r].seq /\ t.item = sink[r].item /\ t.obj = sink[r].obj /\ accepted' = accepted
      BY <1>5, <1>11 DEF SameData
    <3>2. QED BY <1>8, <1>9, <1>10, <3>1 DEF SinkKeeps, SameNumber, HeldBy, SinkSound
  <2>2. \A j \in Runs : j # r => SinkKeeps(j) BY <1>11, Untouched
  <2>3. QED BY <2>1, <2>2
<1>13. left' \in [runs : Nat, finals : Nat, urls : Nat, tests : Nat, forgets : Nat] /\ left'.forgets = left.forgets
  BY CalledTyped
<1>14. Objects' = Objects /\ Dropping' = Dropping BY <1>13 DEF Objects, Dropping, forgetVars
<1>15. StreamTypes'
  <2>1. sink' \in [Runs -> SinkRecs] BY <1>5, <1>7 DEF StreamTypes
  <2>2. QED BY <1>13, <1>14, <2>1 DEF StreamTypes, forgetVars, testVars, urlVars, stateVars
<1>16. Registered'
  <2>1. \A j \in Runs : sink'[j].pc = sink[j].pc /\ (j = sinkOf => sink'[j] = sink[j])
    <3>1. sinkOf # r BY <1>3 DEF Registered, Works, Runs
    <3>2. QED BY <1>3, <1>5, <1>11, <3>1
  <2>2. sinkOf' # 0 => Works(sink'[sinkOf']) BY <2>1, HeldIsRun DEF Registered
  <2>3. ASSUME NEW q \in Runs
        PROVE  /\ run'[q] \in {"new", "read"} => sink'[q].pc = "none"
               /\ run'[q] \in {"registered", "closed"} => sink'[q].pc = "made"
    <3>1. run'[q] = IF q = r THEN "read" ELSE run[q] BY DEF StreamTypes
    <3>2. QED BY <1>3, <2>1, <3>1 DEF Registered
  <2>4. QED BY <2>1, <2>2, <2>3, RegisteredBy DEF forgetVars
<1>17. ObjectsMade' BY <1>3, <1>5, <1>11, <1>13, <1>14, ObjectsKept DEF stateVars, forgetVars
<1>18. StatusKept' BY <1>3, <1>11, StatusStays DEF stateVars, testVars
<1>19. QED BY <1>12, <1>14, <1>15, <1>16, <1>17, <1>18, CallKeeps DEF stateVars, testVars

LEMMA StartDisabledInv == ASSUME StreamInv, NEW r \in Runs, StartDisabled(r) PROVE StreamInv'
<1> USE DEF StreamInv, StartDisabled
<1>1. left' \in [runs : Nat, finals : Nat, urls : Nat, tests : Nat, forgets : Nat] /\ left'.forgets = left.forgets
  BY CalledTyped
<1>2. Objects' = Objects /\ Dropping' = Dropping BY <1>1 DEF Objects, Dropping, forgetVars
<1>3. [state |-> "disabled", error |-> "none"] \in StatusType BY DEF StatusType
<1>4. /\ status' \in StatusType /\ status'.state = "disabled" /\ StateKept
      /\ cur' \in Nat /\ made' \in Nat /\ cur' <= made'
  BY <1>3, StatusSet
<1>5. \A q \in Runs : run'[q] = IF q = r THEN "live" ELSE run[q] BY DEF StreamTypes
<1>6. StreamTypes' BY <1>1, <1>2, <1>4 DEF StreamTypes, forgetVars, testVars, urlVars
<1>7. Registered'
  <2>1. sinkOf' # 0 => Works(sink'[sinkOf']) BY DEF Registered
  <2>2. \A q \in Runs : /\ run'[q] \in {"new", "read"} => sink'[q].pc = "none"
                        /\ run'[q] \in {"registered", "closed"} => sink'[q].pc = "made"
    BY <1>5 DEF Registered
  <2>3. QED BY <2>1, <2>2, RegisteredBy DEF forgetVars
<1>8. ObjectsMade' BY <1>1, <1>2, <1>4, ObjectsKept DEF forgetVars
<1>9. StatusKept' BY <1>4, StatusStays DEF testVars, Quiet
<1>10. \A j \in Runs : SinkKeeps(j) BY SinksAlone
<1>11. QED BY <1>2, <1>6, <1>7, <1>8, <1>9, <1>10, CallKeeps DEF testVars

LEMMA RegisterInv == ASSUME StreamInv, NEW r \in Runs, Register(r) PROVE StreamInv'
<1> USE DEF StreamInv, Register
<1>1. sink[r] \in SinkRecs /\ Len(accepted[r]) \in Nat BY SinkTyped
<1>2. SinkSound(sink[r], Len(accepted[r])) BY DEF SinksSound
<1>3. sink[r].pc = "none" BY DEF Registered
<1>4. sink[r] = [NoSink EXCEPT !.first = sink[r].first] /\ Len(accepted[r]) = 0
  BY <1>2, <1>3 DEF SinkSound, SinkShape
<1>5. /\ cur' \in 1 .. Objects /\ made' \in Nat /\ cur' <= made' /\ cur' \in Nat
      /\ cur' # 0
  BY StateIsOne DEF Objects
<1>6. PICK o : o = cur' OBVIOUS
<1> DEFINE t == [sink[r] EXCEPT !.pc = "made", !.obj = o, !.url = sink[r].first, !.wake = TRUE]
<1>7. /\ t \in SinkRecs /\ t.pc = "made" /\ t.obj = o /\ t.queue = <<>> /\ t.item = 0 /\ t.seq = 0
      /\ ~t.closing /\ ~t.cancelled /\ ~t.timer /\ t.dropped = 0 /\ t.reported = 0 /\ t.settled = 0
  <2>1. t \in SinkRecs BY <1>1, <1>5, <1>6 DEF SinkRecs, SinkPlaces
  <2>2. QED BY <1>4, <2>1 DEF NoSink
<1>8. sink' = [sink EXCEPT ![r] = t] BY <1>6 DEF StreamTypes
<1> HIDE DEF t
<1>9. SinkSound(t, Len(accepted[r]))
  BY <1>4, <1>7, StreamAssumption DEF SinkSound, SinkShape, Tally, QueueOrder, AtRest, InHand, HasLeft, StreamOptions
<1>10. StaysBehind(sink[r], Len(accepted[r]), t, Len(accepted[r]))
  BY <1>4 DEF StaysBehind, Behind, Posts
<1>11. \A j \in Runs : sink'[j] = IF j = r THEN t ELSE sink[j] BY <1>8 DEF StreamTypes
<1>12. \A j \in Runs : SinkKeeps(j)
  <2>1. SinkKeeps(r) BY <1>7, <1>9, <1>10, <1>11 DEF SinkKeeps, SameNumber
  <2>2. \A j \in Runs : j # r => SinkKeeps(j) BY <1>11, Untouched
  <2>3. QED BY <2>1, <2>2
<1>13. Objects' = Objects /\ Dropping' = Dropping BY DEF Objects, Dropping, forgetVars
<1>14. r # 0 /\ r \in 0 .. MaxRuns BY StreamAssumption DEF Runs
<1>15. StreamTypes'
  <2>1. sink' \in [Runs -> SinkRecs] BY <1>7, <1>8 DEF StreamTypes
  <2>2. tookOut' \in [Runs -> 0 .. MaxRuns] /\ sinkOf' \in 0 .. MaxRuns BY <1>14 DEF StreamTypes
  <2>3. QED BY <1>5, <1>13, <2>1, <2>2 DEF StreamTypes, forgetVars, testVars, urlVars
<1>16. Registered'
  <2>1. Works(t) BY <1>7 DEF Works
  <2>2. \A j \in Runs : sink[j].pc # "none" => sink'[j].pc # "none" /\ j # r
    BY <1>3, <1>11
  <2>3. OutOf(forget.sink)'
    BY <1>11, <2>2, HeldIsRun DEF Registered, OutOf, forgetVars
  <2>4. ASSUME NEW q \in Runs PROVE OutOf(tookOut[q])'
    <3>1. CASE q = r
      <4>1. tookOut'[r] = sinkOf BY DEF StreamTypes
      <4>2. sinkOf # 0 => sinkOf \in Runs /\ sink[sinkOf].pc # "none" BY HeldIsRun DEF Registered, Works
      <4>3. QED BY <2>2, <3>1, <4>1, <4>2 DEF OutOf
    <3>2. CASE q # r
      <4>1. tookOut'[q] = tookOut[q] BY <3>2 DEF StreamTypes
      <4>2. QED BY <2>2, <4>1, HeldIsRun DEF Registered, OutOf
    <3>3. QED BY <3>1, <3>2
  <2>5. ASSUME NEW q \in Runs PROVE (offer[q].sink # 0 => sink[offer[q].sink].pc # "none")'
    BY <2>2, HeldIsRun DEF Registered
  <2>6. ASSUME NEW q \in Runs
        PROVE  /\ run'[q] \in {"new", "read"} => sink'[q].pc = "none"
               /\ run'[q] \in {"registered", "closed"} => sink'[q].pc = "made"
    <3>1. run'[q] = IF q = r THEN "registered" ELSE run[q] BY DEF StreamTypes
    <3>2. QED BY <1>7, <1>11, <3>1 DEF Registered
  <2>7. (sinkOf # 0 => Works(sink[sinkOf]))' BY <1>11, <2>1
  <2>8. QED BY <2>3, <2>4, <2>5, <2>6, <2>7 DEF Registered
<1>17. ObjectsMade'
  <2>1. (made + Dropping <= forgets + (IF cur = 0 THEN 0 ELSE 1))'
    <3>1. made' + Dropping <= forgets + 1 BY StateIsOne
    <3>2. forgets' = forgets BY DEF forgetVars
    <3>3. QED BY <1>5, <1>13, <3>1, <3>2
  <2>2. \A j \in Runs : sink'[j].pc # "none" => sink'[j].obj \in 1 .. Objects
    BY <1>5, <1>6, <1>7, <1>11 DEF ObjectsMade
  <2>3. QED BY <1>13, <2>1, <2>2 DEF ObjectsMade
<1>18. StatusKept'
  <2>1. \A j \in Runs : sink[j].pc \notin {"none", "gone"} => sink'[j].pc \notin {"none", "gone"}
    BY <1>3, <1>11
  <2>2. QED BY <2>1, StatusStays DEF testVars
<1>19. QED BY <1>12, <1>13, <1>15, <1>16, <1>17, <1>18, CallKeeps DEF testVars

\* Closing what the call took out, and going on.
LEMMA ClosesTaken ==
  ASSUME StreamInv, NEW r \in Runs, CloseSink(tookOut[r]), tookOut' = [tookOut EXCEPT ![r] = 0],
         NEW at \in {"closed", "ended"}, run' = [run EXCEPT ![r] = at],
         at = "closed" => run[r] = "registered",
         UNCHANGED <<offer, newest, sinkOf, stateVars, accepted, received, urlVars,
                     testVars, forgetVars, shut, left>>
  PROVE  StreamInv'
<1> USE DEF StreamInv
<1>1. tookOut[r] \in 0 .. MaxRuns /\ OutOf(tookOut[r]) BY DEF StreamTypes, Registered
<1>2. /\ sink' \in [Runs -> SinkRecs]
      /\ \A j \in Runs : /\ SinkKeeps(j) /\ sink'[j].pc = sink[j].pc /\ sink'[j].obj = sink[j].obj
                         /\ j = sinkOf => sink'[j] = sink[j]
  BY <1>1, ClosesSink
<1>3. Objects' = Objects /\ Dropping' = Dropping BY DEF Objects, Dropping, forgetVars
<1>4. StreamTypes'
  <2>1. tookOut' \in [Runs -> 0 .. MaxRuns] BY StreamAssumption DEF StreamTypes
  <2>2. run' \in [Runs -> {"new", "read", "registered", "closed", "live", "over", "ending", "ended"}]
    BY DEF StreamTypes
  <2>3. QED BY <1>2, <1>3, <2>1, <2>2 DEF StreamTypes, forgetVars, testVars, urlVars, stateVars
<1>5. Registered'
  <2>1. sinkOf' # 0 => Works(sink'[sinkOf']) BY <1>2, HeldIsRun DEF Registered
  <2>2. ASSUME NEW q \in Runs
        PROVE  /\ tookOut'[q] = tookOut[q] \/ OutOf(tookOut[q])'
               /\ run'[q] \in {"new", "read"} => sink'[q].pc = "none"
               /\ run'[q] \in {"registered", "closed"} => sink'[q].pc = "made"
    <3>1. run'[q] = (IF q = r THEN at ELSE run[q]) /\ tookOut'[q] = (IF q = r THEN 0 ELSE tookOut[q])
      BY DEF StreamTypes
    <3>2. QED BY <1>2, <3>1 DEF Registered, OutOf
  <2>3. QED BY <1>2, <2>1, <2>2, RegisteredBy DEF forgetVars
<1>6. ObjectsMade' BY <1>2, <1>3, ObjectsKept DEF stateVars, forgetVars
<1>7. StatusKept' BY <1>2, StatusStays DEF stateVars, testVars
<1>8. QED BY <1>2, <1>3, <1>4, <1>5, <1>6, <1>7, CallKeeps DEF stateVars, testVars

LEMMA CloseOldInv == ASSUME StreamInv, NEW r \in Runs, CloseOld(r) PROVE StreamInv'
BY ClosesTaken DEF CloseOld

LEMMA CloseTakenInv == ASSUME StreamInv, NEW r \in Runs, CloseTaken(r) PROVE StreamInv'
BY ClosesTaken DEF CloseTaken

LEMMA AnnounceInv == ASSUME StreamInv, NEW r \in Runs, Announce(r) PROVE StreamInv'
<1> USE DEF StreamInv, Announce
<1> DEFINE t == [sink[r] EXCEPT !.pc = "next"]
           n == Len(accepted[r])
<1>1. sink[r] \in SinkRecs /\ n \in Nat BY SinkTyped
<1>2. SinkSound(sink[r], n) BY DEF SinksSound
<1>3. sink[r].pc = "made" BY DEF Registered
<1>4. /\ t \in SinkRecs /\ SameData(sink[r], t) /\ t.pc = "next" /\ t.cancelled = sink[r].cancelled
      /\ t.closing = sink[r].closing /\ t.timer = sink[r].timer
  BY <1>1 DEF SinkRecs, SameData, SinkPlaces
<1>5. sink' = [sink EXCEPT ![r] = t] OBVIOUS
<1>6. SinkShape(t, n) BY <1>2, <1>3, <1>4 DEF SinkSound, SinkShape, SameData, AtRest, InHand, HasLeft
<1>7. Tally(t, n) BY <1>2, <1>3, <1>4 DEF SinkSound, Tally, SameData, InHand
<1> HIDE DEF t, n
<1>8. QueueOrder(t, n) /\ StaysBehind(sink[r], n, t, n) BY <1>1, <1>2, <1>4, SameDataKeeps DEF SinkSound
<1>9. \A j \in Runs : sink'[j] = IF j = r THEN t ELSE sink[j] BY <1>5 DEF StreamTypes
<1>10. \A j \in Runs : SinkKeeps(j)
  <2>1. SinkKeeps(r)
    <3>1. sink'[r] = t /\ t.seq = sink[r].seq /\ t.item = sink[r].item /\ t.obj = sink[r].obj /\ accepted' = accepted
      BY <1>4, <1>9 DEF SameData
    <3>2. QED BY <1>6, <1>7, <1>8, <3>1 DEF SinkKeeps, SameNumber, HeldBy, SinkSound, n
  <2>2. \A j \in Runs : j # r => SinkKeeps(j) BY <1>9, Untouched
  <2>3. QED BY <2>1, <2>2
<1>11. PICK st \in StatusType : SetStatus(st)
  <2>1. /\ [state |-> "error", error |-> "no_url"] \in StatusType
        /\ [state |-> "idle", error |-> "none"] \in StatusType
    BY DEF StatusType
  <2>2. QED BY <2>1
<1>12. /\ status' \in StatusType /\ StateKept
       /\ cur' \in Nat /\ made' \in Nat /\ cur' <= made'
  BY <1>11, StatusSet
<1>13. Objects' = Objects /\ Dropping' = Dropping BY DEF Objects, Dropping, forgetVars
<1>14. StreamTypes'
  <2>1. sink' \in [Runs -> SinkRecs] BY <1>4, <1>5 DEF StreamTypes
  <2>2. QED BY <1>12, <1>13, <2>1 DEF StreamTypes, forgetVars, testVars, urlVars
<1>15. Registered'
  <2>1. sinkOf' # 0 => Works(sink'[sinkOf']) BY <1>4, <1>9, HeldIsRun DEF Registered, Works
  <2>2. ASSUME NEW q \in Runs
        PROVE  /\ run'[q] \in {"new", "read"} => sink'[q].pc = "none"
               /\ run'[q] \in {"registered", "closed"} => sink'[q].pc = "made"
    <3>1. run'[q] = IF q = r THEN "live" ELSE run[q] BY DEF StreamTypes
    <3>2. QED BY <1>9, <3>1 DEF Registered
  <2>3. \A j \in Runs : sink[j].pc # "none" => sink'[j].pc # "none" BY <1>4, <1>9
  <2>4. QED BY <2>1, <2>2, <2>3, RegisteredBy DEF forgetVars
<1>16. ObjectsMade'
  <2>1. \A j \in Runs : sink'[j].pc # "none" => sink[j].pc # "none" /\ sink'[j].obj = sink[j].obj
    BY <1>3, <1>4, <1>9 DEF SameData
  <2>2. QED BY <1>12, <1>13, <2>1, ObjectsKept DEF forgetVars
<1>17. StatusKept'
  <2>1. sink'[r].pc \notin {"none", "gone"} BY <1>4, <1>9
  <2>2. QED BY <2>1 DEF StatusKept, testVars
<1>18. QED BY <1>10, <1>13, <1>14, <1>15, <1>16, <1>17, CallKeeps DEF testVars

\* A call of a run that leaves the sinks and the state object alone.
LEMMA RunCallKeeps ==
  ASSUME StreamInv, StreamTypes', Registered', Objects' = Objects,
         UNCHANGED <<stateVars, sink, accepted, received, testVars, forgetVars>>, left'.forgets = left.forgets
  PROVE  StreamInv'
<1> USE DEF StreamInv
<1>1. Dropping' = Dropping BY DEF Dropping, forgetVars
<1>2. ObjectsMade' BY <1>1, ObjectsKept DEF stateVars, forgetVars
<1>3. StatusKept' BY StatusStays DEF stateVars, testVars
<1>4. \A j \in Runs : SinkKeeps(j) BY SinksAlone
<1>5. QED BY <1>2, <1>3, <1>4, CallKeeps DEF stateVars, testVars

LEMMA OfferInv == ASSUME StreamInv, NEW r \in Runs, Offer(r) PROVE StreamInv'
<1> USE DEF StreamInv, Offer
<1>1. left' \in [runs : Nat, finals : Nat, urls : Nat, tests : Nat, forgets : Nat] /\ left'.forgets = left.forgets
  BY CalledTyped
<1>2. Objects' = Objects BY <1>1 DEF Objects, forgetVars
<1>3. PICK c \in 1 .. (newest[r] + 1) :
        /\ newest' = [newest EXCEPT ![r] = IF c > @ THEN c ELSE @]
        /\ offer' = [offer EXCEPT ![r] = IF sinkOf = 0 THEN NoOffer ELSE [sink |-> sinkOf, caption |-> c]]
  OBVIOUS
<1>4. newest[r] \in Nat BY DEF StreamTypes
<1>5. c \in Nat BY <1>3, <1>4
<1>6. newest' \in [Runs -> Nat] BY <1>3, <1>4, <1>5 DEF StreamTypes
<1>7. PICK o \in [sink : 0 .. MaxRuns, caption : Nat] :
        o = (IF sinkOf = 0 THEN NoOffer ELSE [sink |-> sinkOf, caption |-> c])
  BY <1>5, StreamAssumption DEF StreamTypes, NoOffer
<1>8. offer' = [offer EXCEPT ![r] = o] BY <1>3, <1>7
<1>9. StreamTypes'
  BY <1>1, <1>2, <1>6, <1>8 DEF StreamTypes, forgetVars, testVars, urlVars, stateVars
<1>10. Registered'
  <2>1. o.sink # 0 => o.sink = sinkOf BY <1>7 DEF NoOffer
  <2>2. sinkOf # 0 => sink[sinkOf].pc # "none" BY DEF Registered, Works
  <2>3. \A q \in Runs : offer'[q].sink = offer[q].sink \/ (offer'[q].sink # 0 => sink'[offer'[q].sink].pc # "none")
    BY <1>8, <2>1, <2>2 DEF StreamTypes
  <2>4. QED BY <2>3, RegisteredBy DEF Registered, forgetVars
<1>11. QED BY <1>1, <1>2, <1>9, <1>10, RunCallKeeps

LEMMA RunOverInv == ASSUME StreamInv, NEW r \in Runs, RunOver(r) PROVE StreamInv'
<1> USE DEF StreamInv, RunOver
<1>1. Objects' = Objects BY DEF Objects, forgetVars
<1>2. StreamTypes' BY <1>1 DEF StreamTypes, forgetVars, testVars, urlVars, stateVars
<1>3. \A q \in Runs : run'[q] = IF q = r THEN "over" ELSE run[q] BY DEF StreamTypes
<1>4. Registered' BY <1>3, RegisteredBy DEF Registered, forgetVars
<1>5. QED BY <1>1, <1>2, <1>4, RunCallKeeps

LEMMA RunEndedInv == ASSUME StreamInv, NEW r \in Runs, RunEnded(r) PROVE StreamInv'
<1> USE DEF StreamInv, RunEnded
<1>1. Objects' = Objects BY DEF Objects, forgetVars
<1>2. StreamTypes'
  <2>1. tookOut' \in [Runs -> 0 .. MaxRuns] /\ sinkOf' \in 0 .. MaxRuns BY StreamAssumption DEF StreamTypes
  <2>2. QED BY <1>1, <2>1 DEF StreamTypes, forgetVars, testVars, urlVars, stateVars
<1>3. Registered'
  <2>1. sinkOf # 0 => sink[sinkOf].pc # "none" BY DEF Registered, Works
  <2>2. ASSUME NEW q \in Runs
        PROVE  /\ tookOut'[q] = tookOut[q] \/ OutOf(tookOut[q])'
               /\ run'[q] \in {"new", "read"} => sink'[q].pc = "none"
               /\ run'[q] \in {"registered", "closed"} => sink'[q].pc = "made"
    <3>1. run'[q] = (IF q = r THEN "ending" ELSE run[q]) /\ tookOut'[q] = (IF q = r THEN sinkOf ELSE tookOut[q])
      BY DEF StreamTypes
    <3>2. QED BY <2>1, <3>1 DEF Registered, OutOf
  <2>3. QED BY <2>2, RegisteredBy DEF forgetVars
<1>4. QED BY <1>1, <1>2, <1>3, RunCallKeeps

LEMMA EnqueueInv == ASSUME StreamInv, NEW r \in Runs, Enqueue(r) PROVE StreamInv'
<1> USE DEF StreamInv
<1>1. PICK k \in Runs : k = offer[r].sink /\ sink[k].pc # "none" BY HeldIsRun DEF Enqueue, Registered
<1> DEFINE segment == <<r, offer[r].caption>>
           n == Len(accepted[k])
           t == Enqueued(sink[k], n + 1, segment)
<1>2. sink[k] \in SinkRecs /\ n \in Nat /\ accepted[k] \in Seq(Runs \X Nat) BY <1>1, SinkTyped
<1>3. SinkSound(sink[k], n) BY <1>1 DEF SinksSound
<1>4. segment \in Runs \X Nat BY DEF StreamTypes
<1>5. /\ offer' = [offer EXCEPT ![r] = NoOffer]
      /\ UNCHANGED <<run, tookOut, newest, sinkOf, stateVars, received, urlVars,
                     testVars, forgetVars, shut, left>>
  BY DEF Enqueue
<1>6. Objects' = Objects /\ Dropping' = Dropping BY <1>5 DEF Objects, Dropping, forgetVars
<1>7. /\ sink' \in [Runs -> SinkRecs] /\ accepted' \in [Runs -> Seq(Runs \X Nat)]
      /\ \A j \in Runs : /\ SinkKeeps(j) /\ sink'[j].pc = sink[j].pc /\ sink'[j].obj = sink[j].obj
                         /\ sink'[j].closing = sink[j].closing
  <2>1. CASE UNCHANGED <<sink, accepted>>
    <3>1. \A j \in Runs : SinkKeeps(j) BY <2>1, SinksAlone
    <3>2. QED BY <2>1, <3>1 DEF StreamTypes
  <2>2. CASE /\ ~sink[k].closing
             /\ accepted' = [accepted EXCEPT ![k] = Append(@, segment)]
             /\ sink' = Queued(k, n + 1, segment)
    <3>1. /\ t \in SinkRecs /\ SinkSound(t, n + 1) /\ SameStand(sink[k], t) /\ StaysBehind(sink[k], n, t, n + 1)
          /\ t.obj = sink[k].obj /\ t.item = sink[k].item /\ t.seq = sink[k].seq /\ t.pc = sink[k].pc
          /\ t.closing = sink[k].closing
      <4>1. t.closing = sink[k].closing BY <1>2 DEF Enqueued, SinkRecs
      <4> HIDE DEF segment, n
      <4>2. QED BY <1>1, <1>2, <1>3, <1>4, <2>2, <4>1, EnqueueSteps
    <3>2. sink' = [sink EXCEPT ![k] = t] BY <1>1, <1>2, <2>2 DEF Queued, Enqueued, PutIn, SinkRecs, StreamTypes
    <3>3. PICK a \in Seq(Runs \X Nat) : a = Append(accepted[k], segment) /\ Len(a) = n + 1
      <4>1. PICK b \in Seq(Runs \X Nat) : b = accepted[k] BY <1>2
      <4> HIDE DEF segment
      <4>2. Append(b, segment) \in Seq(Runs \X Nat) /\ Len(Append(b, segment)) = Len(b) + 1
        BY <1>4, AppendProperties
      <4>3. QED BY <4>1, <4>2
    <3>4. accepted' = [accepted EXCEPT ![k] = a] BY <2>2, <3>3
    <3> HIDE DEF t, segment, n
    <3>5. \A j \in Runs : /\ sink'[j] = IF j = k THEN t ELSE sink[j]
                          /\ accepted'[j] = IF j = k THEN a ELSE accepted[j]
      BY <3>2, <3>4 DEF StreamTypes
    <3>6. SinkKeeps(k)
      <4>1. sink'[k] = t /\ accepted'[k] = a BY <1>1, <3>5
      <4>2. QED BY <3>1, <3>3, <4>1 DEF SinkKeeps, SameNumber, HeldBy, n
    <3>7. \A j \in Runs : j # k => SinkKeeps(j) BY <3>5, Untouched
    <3>8. sink' \in [Runs -> SinkRecs] /\ accepted' \in [Runs -> Seq(Runs \X Nat)]
      BY <3>1, <3>2, <3>4 DEF StreamTypes
    <3>9. QED BY <3>1, <3>5, <3>6, <3>7, <3>8
  <2>3. QED BY <1>1, <2>1, <2>2 DEF Enqueue
<1> HIDE DEF t, n, segment
<1>8. StreamTypes'
  <2>1. offer' \in [Runs -> [sink : 0 .. MaxRuns, caption : Nat]]
    BY <1>5, StreamAssumption DEF StreamTypes, NoOffer
  <2>2. QED BY <1>5, <1>6, <1>7, <2>1 DEF StreamTypes, forgetVars, testVars, urlVars, stateVars
<1>9. Registered'
  <2>1. sinkOf' # 0 => Works(sink'[sinkOf']) BY <1>5, <1>7, HeldIsRun DEF Registered, Works
  <2>2. \A q \in Runs : offer'[q].sink = offer[q].sink \/ offer'[q].sink = 0
    BY <1>5 DEF StreamTypes, NoOffer
  <2>3. QED BY <1>5, <1>7, <2>1, <2>2, RegisteredBy DEF Registered, forgetVars
<1>10. ObjectsMade' BY <1>5, <1>6, <1>7, ObjectsKept DEF stateVars, forgetVars
<1>11. StatusKept' BY <1>5, <1>7, StatusStays DEF stateVars, testVars
<1>12. QED BY <1>5, <1>6, <1>7, <1>8, <1>9, <1>10, <1>11, CallKeeps DEF stateVars, testVars

LEMMA StoreUrlInv == ASSUME StreamInv, NEW u \in Urls \cup {NoUrl}, StoreUrl(u) PROVE StreamInv'
<1> USE DEF StreamInv, StoreUrl
<1>1. left' \in [runs : Nat, finals : Nat, urls : Nat, tests : Nat, forgets : Nat] /\ left'.forgets = left.forgets
  BY CalledTyped
<1>2. Objects' = Objects BY <1>1 DEF Objects, forgetVars
<1>3. StreamTypes' BY <1>1, <1>2 DEF StreamTypes, forgetVars, testVars, runVars, stateVars, Opt
<1>4. Registered' BY RegisteredBy DEF Registered, forgetVars, runVars
<1>5. QED BY <1>1, <1>2, <1>3, <1>4, RunCallKeeps

LEMMA HandUrlInv == ASSUME StreamInv, HandUrl PROVE StreamInv'
<1> USE DEF StreamInv, HandUrl
<1>1. Objects' = Objects /\ Dropping' = Dropping BY DEF Objects, Dropping, forgetVars
<1>2. /\ sink' \in [Runs -> SinkRecs]
      /\ \A j \in Runs : /\ SinkKeeps(j) /\ sink'[j].pc = sink[j].pc /\ sink'[j].obj = sink[j].obj
                         /\ sink'[j].closing = sink[j].closing
  <2>1. CASE sinkOf = 0
    <3>1. sink' = sink BY <2>1
    <3>2. \A j \in Runs : SinkKeeps(j) BY <3>1, SinksAlone
    <3>3. QED BY <3>1, <3>2 DEF StreamTypes
  <2>2. CASE sinkOf # 0
    <3>1. PICK k \in Runs : k = sinkOf BY <2>2, HeldIsRun
    <3> DEFINE t == [sink[k] EXCEPT !.url = setter, !.wake = TRUE]
               n == Len(accepted[k])
    <3>2. sink[k] \in SinkRecs /\ n \in Nat BY SinkTyped
    <3>3. SinkSound(sink[k], n) BY DEF SinksSound
    <3>4. setter \in Opt(Urls) BY DEF StreamTypes
    <3>5. /\ t \in SinkRecs /\ SameData(sink[k], t) /\ t.pc = sink[k].pc /\ t.cancelled = sink[k].cancelled
          /\ t.closing = sink[k].closing /\ t.timer = sink[k].timer /\ t.result = sink[k].result /\ t.wake
      BY <3>2, <3>4 DEF SinkRecs, SameData
    <3>6. sink' = [sink EXCEPT ![k] = t] BY <2>2, <3>1, <3>2 DEF StreamTypes, SinkRecs
    <3>7. SinkShape(t, n)
      <4>1. sink[k].pc # "none" BY <2>2, <3>1 DEF Registered, Works
      <4>2. QED BY <3>3, <3>5, <4>1 DEF SinkSound, SinkShape, SameData, AtRest, HasLeft
    <3> HIDE DEF t, n
    <3>8. Tally(t, n) BY <3>3, <3>5 DEF SinkSound, SameData, Tally
    <3>9. QueueOrder(t, n) /\ StaysBehind(sink[k], n, t, n) BY <3>2, <3>3, <3>5, SameDataKeeps DEF SinkSound
    <3>10. \A j \in Runs : sink'[j] = IF j = k THEN t ELSE sink[j] BY <3>6 DEF StreamTypes
    <3>11. SinkKeeps(k)
      <4>1. sink'[k] = t /\ t.seq = sink[k].seq /\ t.item = sink[k].item /\ t.obj = sink[k].obj /\ accepted' = accepted
        BY <3>5, <3>10 DEF SameData
      <4>2. QED BY <3>7, <3>8, <3>9, <4>1 DEF SinkKeeps, SameNumber, HeldBy, SinkSound, n
    <3>12. \A j \in Runs : j # k => SinkKeeps(j) BY <3>10, Untouched
    <3>13. sink' \in [Runs -> SinkRecs] BY ZenonT(40), <3>5, <3>6 DEF StreamTypes
    <3>14. QED BY <3>5, <3>10, <3>11, <3>12, <3>13 DEF SameData
  <2>3. QED BY <2>1, <2>2
<1>3. StreamTypes' BY <1>1, <1>2 DEF StreamTypes, forgetVars, testVars, runVars, stateVars
<1>4. Registered'
  <2>1. sinkOf' # 0 => Works(sink'[sinkOf']) BY <1>2, HeldIsRun DEF Registered, Works
  <2>2. QED BY ZenonT(40), <1>2, <2>1, RegisteredBy DEF Registered, forgetVars, runVars
<1>5. ObjectsMade' BY <1>1, <1>2, ObjectsKept DEF stateVars, forgetVars
<1>6. StatusKept' BY <1>2, StatusStays DEF stateVars, testVars
<1>7. QED BY <1>1, <1>2, <1>3, <1>4, <1>5, <1>6, CallKeeps DEF stateVars, testVars

\* What a test caption leaves to show; the sinks are left alone.
LEMMA TestKeeps ==
  ASSUME StreamInv, TestOnly, left'.forgets = left.forgets,
         left' \in [runs : Nat, finals : Nat, urls : Nat, tests : Nat, forgets : Nat],
         seq' \in [1 .. Objects -> Nat], status' \in StatusType, received' \in Seq(Posts),
         test' \in [pc : {"idle", "seq", "post", "status", "nil"}, obj : Nat, seq : Nat, arrived : BOOLEAN,
                    result : SinkResults],
         tests' \in Nat, StateKept \/ UNCHANGED <<cur, made>>,
         Numbered', StatusKept', SentBehind', SinkOrder'
  PROVE  StreamInv'
<1> USE DEF StreamInv, TestOnly
<1>1. Objects' = Objects /\ Dropping' = Dropping BY DEF Objects, Dropping, forgetVars
<1>2. ObjectsMade' /\ cur' \in Nat /\ made' \in Nat /\ cur' <= made' BY <1>1, ObjectsKept DEF forgetVars
<1>3. StreamTypes' BY <1>1, <1>2 DEF StreamTypes, forgetVars, runVars, urlVars
<1>4. SinksSound' BY DEF SinksSound
<1>5. Registered' BY RegisteredBy DEF Registered, forgetVars, runVars
<1>6. QED BY <1>2, <1>3, <1>4, <1>5

\* Without a post that arrives, and with the next test at least as far.
LEMMA TestBehind ==
  ASSUME StreamInv, TestOnly, received' = received, tests' \in Nat,
         (tests' = tests /\ (TestAhead' => TestAhead)) \/ tests' = tests + 1
  PROVE  SentBehind' /\ SinkOrder'
<1> USE DEF StreamInv, TestOnly
<1>1. SinkOrder' BY DEF SinkOrder
<1>2. ASSUME NEW i \in 1 .. Len(received), received[i].by = 0
      PROVE  received[i].item <= tests' /\ (TestAhead' => received[i].item < tests')
  <2>1. received[i].item \in Nat /\ received[i].item <= tests /\ (TestAhead => received[i].item < tests)
    <3>1. received[i] \in Posts BY DEF StreamTypes
    <3>2. QED BY <1>2, <3>1 DEF SentBehind, Posts
  <2>2. tests \in Nat BY DEF StreamTypes
  <2>3. QED BY <2>1, <2>2
<1>3. ASSUME NEW i \in 1 .. Len(received), received[i].by # 0
      PROVE  Behind(received[i], sink'[received[i].by], Len(accepted'[received[i].by]))
  BY <1>3 DEF SentBehind
<1>4. QED BY <1>1, <1>2, <1>3 DEF SentBehind

LEMMA TestReadInv == ASSUME StreamInv, TestRead PROVE StreamInv'
<1> USE DEF StreamInv, TestRead
<1>1. left' \in [runs : Nat, finals : Nat, urls : Nat, tests : Nat, forgets : Nat] /\ left'.forgets = left.forgets
  BY CalledTyped
<1>2. tests' \in Nat /\ tests' = tests + 1 /\ tests' > 0 BY DEF StreamTypes
<1>3. SentBehind' /\ SinkOrder' BY <1>2, TestBehind
<1>4. test' \in [pc : {"idle", "seq", "post", "status", "nil"}, obj : Nat, seq : Nat, arrived : BOOLEAN,
                 result : SinkResults] /\ test'.pc = "seq"
  BY DEF StreamTypes
<1>5. Objects' = Objects BY <1>1 DEF TestOnly, Objects, forgetVars
<1>6. Holders' \subseteq Holders BY <1>4 DEF Holders, Sent, Held, HeldBy, TestOnly
<1>7. Numbered' BY <1>5, <1>6, NumbersKept DEF stateVars
<1>8. StatusKept' BY <1>2 DEF StatusKept
<1>9. QED BY <1>1, <1>2, <1>3, <1>4, <1>7, <1>8, TestKeeps DEF stateVars, StreamTypes

LEMMA TestSeqInv == ASSUME StreamInv, TestSeq PROVE StreamInv'
<1> USE DEF StreamInv, TestSeq
<1>1. left' = left /\ Objects' = Objects BY DEF Objects, forgetVars, TestOnly
<1>2. PICK o : o = cur' OBVIOUS
<1>3. o \in 1 .. Objects /\ o \in Nat BY <1>2, StateIsOne DEF Objects
<1>4. seq \in [1 .. Objects -> Nat] BY DEF StreamTypes
<1>5. PICK m \in Nat : m = seq[o] + 1 BY <1>3, <1>4
<1>6. seq' = [seq EXCEPT ![o] = m] /\ test' = [test EXCEPT !.pc = "post", !.obj = o, !.seq = m]
  BY <1>2, <1>5
<1>7. seq' \in [1 .. Objects -> Nat] BY <1>4, <1>6
<1>8. /\ test' \in [pc : {"idle", "seq", "post", "status", "nil"}, obj : Nat, seq : Nat, arrived : BOOLEAN,
                    result : SinkResults]
      /\ test'.pc = "post" /\ test'.obj = o /\ test'.seq = m
  BY <1>3, <1>6 DEF StreamTypes
<1>9. received' = received /\ tests' = tests OBVIOUS
<1>10. SentBehind' /\ SinkOrder' BY <1>9, TestBehind DEF TestAhead, StreamTypes
<1>11. StatusKept' BY DEF StatusKept, TestOnly
<1>12. Numbered'
  <2> DEFINE h == [by |-> 0, item |-> tests, seq |-> m, obj |-> o]
  <2>1. h.obj = o /\ h.seq = m /\ h.by = 0 /\ h.item = tests OBVIOUS
  <2>2. Holders' \subseteq Holders \cup {h}
    <3>1. TestPost' = h BY <1>8, <1>9 DEF TestPost
    <3>2. Sent' = Sent /\ Held' = Held BY <1>9 DEF Sent, Held, HeldBy, TestOnly
    <3>3. QED BY <3>1, <3>2 DEF Holders
  <2>3. \A a \in Holders : a.seq \in Nat /\ ~(a.obj = h.obj /\ a.by = h.by /\ a.item = h.item)
    <3>1. \A a \in Holders : a.seq \in Nat /\ a.item \in Nat BY HoldersTyped DEF Posts
    <3>2. \A a \in Sent : a.by = 0 => a.item < tests BY DEF Sent, SentBehind, TestAhead
    <3>3. \A a \in Held : a.by # 0 BY DEF Held, HeldBy, Runs
    <3>4. \A a \in Holders : a \in Sent \/ a \in Held BY DEF Holders
    <3>5. tests \in Nat BY DEF StreamTypes
    <3> HIDE DEF h
    <3>6. ASSUME NEW a \in Holders PROVE ~(a.by = 0 /\ a.item = tests)
      BY ONLY <3>1, <3>2, <3>3, <3>4, <3>5, a \in Holders
    <3>7. QED BY <2>1, <3>1, <3>6
  <2> HIDE DEF h
  <2>4. h.obj \in 1 .. Objects /\ h.seq = seq[h.obj] + 1 /\ seq' = [seq EXCEPT ![h.obj] = h.seq]
    BY <1>3, <1>5, <1>6, <2>1
  <2>5. QED BY <1>1, <2>2, <2>3, <2>4, NumberTaken
<1>13. QED BY <1>1, <1>7, <1>8, <1>9, <1>10, <1>11, <1>12, TestKeeps DEF StreamTypes

LEMMA TestArriveInv == ASSUME StreamInv, TestArrive PROVE StreamInv'
<1> USE DEF StreamInv, TestArrive
<1> DEFINE p == TestPost
<1>1. p \in Holders BY DEF Holders
<1>2. received' = Append(received, p) BY DEF TestPost
<1>3. p.by = 0 /\ p.item = tests BY DEF TestPost
<1>4. /\ test' \in [pc : {"idle", "seq", "post", "status", "nil"}, obj : Nat, seq : Nat, arrived : BOOLEAN,
                    result : SinkResults]
      /\ test'.pc = "post" /\ test'.arrived /\ test'.obj = test.obj /\ test'.seq = test.seq
  BY DEF StreamTypes
<1>5. TestPost' = p BY <1>4 DEF TestPost
<1> HIDE DEF p
<1>6. /\ received' \in Seq(Posts) /\ Sent' \subseteq Sent \cup {p}
      /\ \A i \in 1 .. Len(received)' :
           (i \in 1 .. Len(received) /\ received'[i] = received[i]) \/ (i = Len(received) + 1 /\ received'[i] = p)
  BY <1>1, <1>2, Arrived
<1>7. Objects' = Objects BY DEF TestOnly, Objects, forgetVars
<1>8. Holders' \subseteq Holders BY <1>1, <1>5, <1>6 DEF Holders, Held, HeldBy, TestOnly
<1>9. Numbered' BY <1>7, <1>8, NumbersKept DEF stateVars
<1>10. StatusKept' BY DEF StatusKept, TestOnly, stateVars
<1>11. SentBehind'
  <2>1. ~TestAhead' BY <1>4 DEF TestAhead
  <2>2. tests \in Nat BY DEF StreamTypes
  <2>3. sink' = sink /\ accepted' = accepted BY DEF TestOnly
  <2> SUFFICES ASSUME NEW i \in 1 .. Len(received)'
               PROVE  /\ received'[i].by # 0 =>
                           Behind(received'[i], sink[received'[i].by], Len(accepted[received'[i].by]))
                      /\ received'[i].by = 0 => received'[i].item <= tests
    BY <2>1, <2>3 DEF SentBehind
  <2>4. CASE i \in 1 .. Len(received) /\ received'[i] = received[i] BY <2>4 DEF SentBehind
  <2>5. CASE received'[i] = p BY <1>3, <2>2, <2>5
  <2>6. QED BY <1>6, <2>4, <2>5
<1>12. SinkOrder'
  <2>1. \A i \in 1 .. Len(received) : received[i].by = p.by => received[i].item <= p.item
    BY <1>3 DEF SentBehind
  <2>2. QED BY <1>1, <1>2, <2>1, ArrivedLast
<1>13. QED BY <1>4, <1>6, <1>9, <1>10, <1>11, <1>12, TestKeeps DEF stateVars, StreamTypes

LEMMA TestAnswerInv == ASSUME StreamInv, TestAnswer PROVE StreamInv'
<1> USE DEF StreamInv, TestAnswer
<1>1. PICK res \in Answers(test.arrived) :
        SetStatus(DeliveryStatus(res, FALSE)) /\ test' = [test EXCEPT !.pc = "status", !.result = res]
  OBVIOUS
<1>2. res \in SinkResults \ {"none"} BY <1>1 DEF Answers, SinkResults
<1>3. DeliveryStatus(res, FALSE) \in StatusType BY <1>2, DeliveryTyped
<1>4. status' \in StatusType /\ StateKept BY <1>1, <1>3, StatusSet
<1>5. /\ test' \in [pc : {"idle", "seq", "post", "status", "nil"}, obj : Nat, seq : Nat, arrived : BOOLEAN,
                    result : SinkResults]
      /\ test'.pc = "status"
  BY <1>1, <1>2 DEF StreamTypes
<1>6. SentBehind' /\ SinkOrder' BY <1>5, TestBehind DEF TestAhead, StreamTypes
<1>7. Objects' = Objects BY DEF TestOnly, Objects, forgetVars
<1>8. Holders' \subseteq Holders BY <1>5 DEF Holders, Sent, Held, HeldBy, TestOnly
<1>9. Numbered' BY <1>7, <1>8, NumbersKept
<1>10. StatusKept' BY DEF StatusKept
<1>11. QED BY <1>4, <1>5, <1>6, <1>9, <1>10, TestKeeps DEF StreamTypes

LEMMA TestStatusInv == ASSUME StreamInv, TestStatus PROVE StreamInv'
<1> USE DEF StreamInv, TestStatus
<1>1. /\ test' \in [pc : {"idle", "seq", "post", "status", "nil"}, obj : Nat, seq : Nat, arrived : BOOLEAN,
                    result : SinkResults]
      /\ test'.pc \in {"nil", "idle"}
  BY DEF StreamTypes, NoTest, SinkResults
<1>2. SentBehind' /\ SinkOrder' BY <1>1, TestBehind DEF TestAhead, StreamTypes
<1>3. Objects' = Objects BY DEF TestOnly, Objects, forgetVars
<1>4. Holders' \subseteq Holders BY <1>1 DEF Holders, Sent, Held, HeldBy, TestOnly
<1>5. Numbered' BY <1>3, <1>4, NumbersKept DEF stateVars
<1>6. StatusKept' BY DEF StatusKept, TestOnly, stateVars
<1>7. QED BY <1>1, <1>2, <1>5, <1>6, TestKeeps DEF stateVars, StreamTypes

\* A step of Forget that leaves the sinks alone.
LEMMA ForgetKeeps ==
  ASSUME StreamInv, ForgetOnly, StreamTypes', Registered', ObjectsMade', StatusKept', Objects' = Objects,
         sink' = sink, seq' = seq
  PROVE  StreamInv'
<1>1. \A j \in Runs : SinkKeeps(j) BY SinksAlone DEF ForgetOnly
<1>2. QED BY <1>1, CallKeeps DEF ForgetOnly, testVars

LEMMA ForgetTakeInv == ASSUME StreamInv, ForgetTake PROVE StreamInv'
<1> USE DEF StreamInv, ForgetTake, ForgetOnly
<1>1. left' \in [runs : Nat, finals : Nat, urls : Nat, tests : Nat, forgets : Nat]
      /\ left'.forgets = left.forgets - 1 /\ left.forgets \in Nat
  BY CalledTyped
<1>2. forgets \in Nat /\ forgets' = forgets + 1 /\ forgets' \in Nat BY DEF StreamTypes
<1>3. Objects' = Objects BY <1>1, <1>2 DEF Objects
<1>4. Dropping' = 1 /\ Dropping = 0 BY DEF Dropping
<1>5. StreamTypes'
  <2>1. sinkOf' \in 0 .. MaxRuns BY StreamAssumption
  <2>2. forget' \in [pc : {"idle", "close", "drop", "secret"}, sink : 0 .. MaxRuns] BY DEF StreamTypes
  <2>3. shut' \in BOOLEAN BY DEF StreamTypes
  <2>4. UNCHANGED <<run, tookOut, offer, newest, cur, made, seq, status, sink, accepted, received, stored,
                    setter, test, tests>>
    BY DEF runVars, testVars, urlVars, stateVars
  <2>5. QED BY <1>1, <1>2, <1>3, <2>1, <2>2, <2>3, <2>4 DEF StreamTypes
<1>6. Registered'
  <2>1. forget'.sink = sinkOf OBVIOUS
  <2>2. OutOf(forget.sink)' BY <2>1 DEF Registered, OutOf, Works
  <2>3. QED BY <2>2, RegisteredBy DEF Registered, runVars
<1>7. ObjectsMade'
  <2>1. made \in Nat /\ made' = made /\ cur' = cur BY DEF StreamTypes, stateVars
  <2>2. (made + Dropping <= forgets + (IF cur = 0 THEN 0 ELSE 1))'
    <3>1. made + 0 <= forgets + (IF cur = 0 THEN 0 ELSE 1) BY <1>4 DEF ObjectsMade
    <3>2. QED BY <1>2, <1>4, <2>1, <3>1
  <2>3. QED BY <1>3, <2>2 DEF ObjectsMade
<1>8. StatusKept' BY DEF StatusKept, stateVars, testVars
<1>9. QED BY <1>3, <1>5, <1>6, <1>7, <1>8, ForgetKeeps DEF stateVars

LEMMA ForgetCloseInv == ASSUME StreamInv, ForgetClose PROVE StreamInv'
<1> USE DEF StreamInv, ForgetClose, ForgetOnly
<1>1. forget.sink \in 0 .. MaxRuns /\ OutOf(forget.sink) BY DEF StreamTypes, Registered
<1>2. /\ sink' \in [Runs -> SinkRecs]
      /\ \A j \in Runs : /\ SinkKeeps(j) /\ sink'[j].pc = sink[j].pc /\ sink'[j].obj = sink[j].obj
                         /\ j = sinkOf => sink'[j] = sink[j]
  BY <1>1, ClosesSink
<1>3. Objects' = Objects /\ Dropping' = Dropping BY DEF Objects, Dropping
<1>4. StreamTypes'
  <2>1. forget' \in [pc : {"idle", "close", "drop", "secret"}, sink : 0 .. MaxRuns]
    BY StreamAssumption
  <2>2. QED BY <1>2, <1>3, <2>1 DEF StreamTypes, runVars, testVars, urlVars, stateVars
<1>5. Registered'
  <2>1. sinkOf' # 0 => Works(sink'[sinkOf']) BY <1>2, HeldIsRun DEF Registered
  <2>2. OutOf(forget.sink)' BY DEF OutOf
  <2>3. QED BY <1>2, <2>1, <2>2, RegisteredBy DEF Registered, runVars
<1>6. ObjectsMade' BY <1>2, <1>3, ObjectsKept DEF stateVars
<1>7. StatusKept' BY <1>2, StatusStays DEF stateVars, testVars
<1>8. QED BY <1>2, <1>3, <1>4, <1>5, <1>6, <1>7, CallKeeps DEF stateVars, testVars

LEMMA ForgetDropInv == ASSUME StreamInv, ForgetDrop PROVE StreamInv'
<1> USE DEF StreamInv, ForgetDrop, ForgetOnly
<1>1. Objects' = Objects BY DEF Objects
<1>2. forget' \in [pc : {"idle", "close", "drop", "secret"}, sink : 0 .. MaxRuns] /\ forget'.pc = "secret"
      /\ forget'.sink = forget.sink
  BY DEF StreamTypes
<1>3. Dropping' = 0 /\ Dropping = 1 BY <1>2 DEF Dropping
<1>4. StreamTypes'
  <2>1. sinkOf' \in 0 .. MaxRuns BY StreamAssumption
  <2>2. cur' \in Nat /\ cur' <= made' BY DEF StreamTypes
  <2>3. status' \in StatusType BY DEF NoStatus, StatusType
  <2>4. QED BY <1>1, <1>2, <2>1, <2>2, <2>3 DEF StreamTypes, runVars, testVars, urlVars
<1>5. Registered' BY <1>2, RegisteredBy DEF Registered, runVars
<1>6. ObjectsMade'
  <2>1. made \in Nat /\ forgets \in Nat /\ made' = made /\ forgets' = forgets /\ cur' = 0 BY DEF StreamTypes
  <2>2. made + 1 <= forgets + (IF cur = 0 THEN 0 ELSE 1) BY <1>3 DEF ObjectsMade
  <2>3. (made + Dropping <= forgets + (IF cur = 0 THEN 0 ELSE 1))' BY <1>3, <2>1, <2>2
  <2>4. QED BY <1>1, <2>3 DEF ObjectsMade
<1>7. StatusKept' BY DEF StatusKept, NoStatus, Quiet, testVars
<1>8. QED BY <1>1, <1>4, <1>5, <1>6, <1>7, ForgetKeeps

LEMMA ForgetSecretInv == ASSUME StreamInv, ForgetSecret PROVE StreamInv'
<1> USE DEF StreamInv, ForgetSecret, ForgetOnly
<1>1. Objects' = Objects BY DEF Objects
<1>2. forget' \in [pc : {"idle", "close", "drop", "secret"}, sink : 0 .. MaxRuns] /\ forget'.pc = "idle"
      /\ forget'.sink = forget.sink
  BY DEF StreamTypes
<1>3. Dropping' = Dropping BY <1>2 DEF Dropping
<1>4. StreamTypes' BY <1>1, <1>2 DEF StreamTypes, runVars, testVars, stateVars, Opt
<1>5. Registered' BY <1>2, RegisteredBy DEF Registered, runVars
<1>6. ObjectsMade' BY <1>1, <1>3, ObjectsKept DEF stateVars
<1>7. StatusKept' BY DEF StatusKept, stateVars, testVars
<1>8. QED BY <1>1, <1>4, <1>5, <1>6, <1>7, ForgetKeeps DEF stateVars

LEMMA CloseInv == ASSUME StreamInv, Close PROVE StreamInv'
<1> USE DEF StreamInv, Close
<1>1. Objects' = Objects /\ Dropping' = Dropping BY DEF Objects, Dropping, forgetVars
<1>2. ASSUME NEW k \in Runs
      PROVE  sink'[k] \in SinkRecs /\ SinkKeeps(k) /\ sink'[k].pc = sink[k].pc /\ sink'[k].obj = sink[k].obj
  <2>1. sink[k] \in SinkRecs /\ Len(accepted[k]) \in Nat BY SinkTyped
  <2>2. CASE sink[k].pc \in {"none", "gone"}
    <3>1. sink'[k] = sink[k] BY <2>2
    <3>2. QED BY <2>1, <3>1, Untouched
  <2>3. CASE sink[k].pc \notin {"none", "gone"}
    <3> DEFINE t == [sink[k] EXCEPT !.closing = TRUE, !.cancelled = TRUE]
               n == Len(accepted[k])
    <3>1. sink'[k] = t BY <2>3
    <3>2. /\ t \in SinkRecs /\ SameData(sink[k], t) /\ t.pc = sink[k].pc /\ t.result = sink[k].result
          /\ t.closing /\ t.cancelled
      BY <2>1 DEF SinkRecs, SameData
    <3>3. SinkSound(sink[k], n) BY DEF SinksSound
    <3>4. n \in Nat BY <2>1
    <3> HIDE DEF t, n
    <3>5. SinkSound(t, n) /\ StaysBehind(sink[k], n, t, n) BY <2>1, <2>3, <3>2, <3>3, <3>4, CloseSteps
    <3>6. QED BY <3>1, <3>2, <3>5 DEF SinkKeeps, SameNumber, HeldBy, SameData, n
  <2>4. QED BY <2>2, <2>3
<1>3. sink' \in [Runs -> SinkRecs]
  <2>1. DOMAIN sink' = Runs /\ sink' = [k \in Runs |-> sink'[k]] OBVIOUS
  <2>2. QED BY <1>2, <2>1
<1>4. sinkOf' = 0 OBVIOUS
<1>5. StreamTypes'
  <2>1. sinkOf' \in 0 .. MaxRuns BY ONLY <1>4, StreamAssumption
  <2>2. UNCHANGED <<run, tookOut, offer, newest, cur, made, seq, status, accepted, received, stored,
                    setter, test, tests, forget, forgets, left>>
    BY DEF runVars, testVars, urlVars, stateVars, forgetVars
  <2>3. QED BY <1>1, <1>3, <2>1, <2>2 DEF StreamTypes
<1>6. Registered' BY <1>2, <1>4, RegisteredBy DEF Registered, forgetVars, runVars
<1>7. ObjectsMade' BY <1>1, <1>2, ObjectsKept DEF stateVars, forgetVars
<1>8. StatusKept' BY <1>2, StatusStays DEF stateVars, testVars
<1>9. QED BY <1>1, <1>2, <1>5, <1>6, <1>7, <1>8, CallKeeps DEF stateVars, testVars

-----------------------------------------------------------------------------
(* Every step *)

LEMMA StreamInit == ASSUME Init PROVE StreamInv
<1> USE DEF Init
<1>1. left \in [runs : Nat, finals : Nat, urls : Nat, tests : Nat, forgets : Nat] BY StreamAssumption
<1>2. left.forgets \in Nat BY <1>1
<1>3. NoSink \in SinkRecs BY DEF NoSink, SinkRecs, SinkPlaces, SinkResults, Opt
<1>4. StreamTypes
  <2>1. seq \in [1 .. Objects -> Nat] BY <1>2 DEF Objects
  <2>2. 0 \in 0 .. MaxRuns BY StreamAssumption
  <2>3. \A k \in Runs : accepted[k] = <<>> /\ <<>> \in Seq(Runs \X Nat) OBVIOUS
  <2>4. accepted \in [Runs -> Seq(Runs \X Nat)] OBVIOUS
  <2>5. sink \in [Runs -> SinkRecs] BY <1>3
  <2>6. test \in [pc : {"idle", "seq", "post", "status", "nil"}, obj : Nat, seq : Nat, arrived : BOOLEAN,
                  result : SinkResults]
    BY DEF NoTest, SinkResults
  <2>7. received \in Seq(Posts) OBVIOUS
  <2>8. status \in StatusType BY DEF NoStatus, StatusType
  <2>9. /\ run \in [Runs -> {"new", "read", "registered", "closed", "live", "over", "ending", "ended"}]
        /\ tookOut \in [Runs -> 0 .. MaxRuns] /\ newest \in [Runs -> Nat]
        /\ offer \in [Runs -> [sink : 0 .. MaxRuns, caption : Nat]]
    BY <2>2 DEF NoOffer
  <2>10. /\ stored \in Opt(Urls) /\ setter \in Opt(Urls) \cup {Off}
         /\ forget \in [pc : {"idle", "close", "drop", "secret"}, sink : 0 .. MaxRuns] 
    BY <2>2 DEF Opt
  <2>11. /\ tests \in Nat /\ forgets \in Nat /\ cur \in Nat /\ made \in Nat /\ cur <= made
         /\ sinkOf \in 0 .. MaxRuns
    BY <2>2
  <2>12. shut \in BOOLEAN OBVIOUS
  <2>13. QED BY ONLY <1>1, <2>1, <2>4, <2>5, <2>6, <2>7, <2>8, <2>9, <2>10, <2>11, <2>12 DEF StreamTypes
<1>5. SinksSound
  <2> SUFFICES ASSUME NEW k \in Runs PROVE SinkSound(sink[k], Len(accepted[k])) BY DEF SinksSound
  <2>1. sink[k] = NoSink /\ Len(accepted[k]) = 0 OBVIOUS
  <2>2. NoSink = [NoSink EXCEPT !.first = NoSink.first] BY DEF NoSink
  <2>3. SinkShape(NoSink, 0) BY <2>2 DEF SinkShape, NoSink, AtRest, InHand, HasLeft
  <2>4. Tally(NoSink, 0) BY DEF Tally, NoSink, InHand
  <2>5. QueueOrder(NoSink, 0) BY StreamAssumption DEF QueueOrder, NoSink, StreamOptions
  <2>6. QED BY <2>1, <2>3, <2>4, <2>5 DEF SinkSound
<1>6. Registered BY DEF Registered, OutOf, NoOffer, NoSink
<1>7. ObjectsMade BY DEF ObjectsMade, Dropping, NoSink
<1>8. StatusKept BY DEF StatusKept, NoStatus, Quiet, NoTest
<1>9. Numbered
  <2>1. Holders = {} BY DEF Holders, Sent, Held, NoSink, NoTest
  <2>2. QED BY <2>1 DEF Numbered
<1>10. SentBehind /\ SinkOrder BY DEF SentBehind, SinkOrder
<1>11. QED BY <1>4, <1>5, <1>6, <1>7, <1>8, <1>9, <1>10 DEF StreamInv

LEMMA StreamStutters == ASSUME StreamInv, UNCHANGED vars PROVE StreamInv'
<1> USE DEF StreamInv, vars
<1>1. Objects' = Objects /\ Dropping' = Dropping BY DEF Objects, Dropping, forgetVars
<1>2. StreamTypes' BY <1>1 DEF StreamTypes, runVars, testVars, urlVars, stateVars, forgetVars
<1>3. Registered' BY DEF Registered, OutOf, forgetVars, runVars
<1>4. QED BY <1>1, <1>2, <1>3, RunCallKeeps DEF forgetVars

LEMMA ManagerInv == ASSUME StreamInv, NEW r \in Runs, ManagerCalls(r) PROVE StreamInv'
BY ReadUrlInv, StartDisabledInv, RegisterInv, CloseOldInv, AnnounceInv, OfferInv, EnqueueInv, RunOverInv,
   RunEndedInv, CloseTakenInv DEF ManagerCalls

LEMMA RunnerInv == ASSUME StreamInv, NEW k \in Runs, Runner(k) PROVE StreamInv'
BY TakeInv, WokenInv, DropStaleInv, SendInv, AnswerInv, RecordInv, RetryInv, ReportInv, LeaveInv, SettleInv
   DEF Runner

LEMMA AdminInv == ASSUME StreamInv, Admin PROVE StreamInv'
BY StoreUrlInv, HandUrlInv, TestReadInv, TestSeqInv, TestArriveInv, TestAnswerInv, TestStatusInv,
   ForgetTakeInv, ForgetCloseInv, ForgetDropInv, ForgetSecretInv, CloseInv DEF Admin

LEMMA StreamStep == ASSUME StreamInv, [Next]_vars PROVE StreamInv'
BY ManagerInv, RunnerInv, AdminInv, ArriveInv, DrainInv, StreamStutters DEF Next

LEMMA StreamInvMeans == ASSUME StreamInv PROVE CaptionsDelivered
<1> USE DEF StreamInv
<1>1. SeqNamesOne
  <2> SUFFICES ASSUME NEW i \in 1 .. Len(received), NEW j \in 1 .. Len(received)
               PROVE  Agree(received[i], received[j])
    BY DEF SeqNamesOne, Agree
  <2>1. received[i] \in Holders /\ received[j] \in Holders BY DEF Holders, Sent
  <2>2. QED BY <2>1 DEF Numbered
<1>2. DropsReported
  <2> SUFFICES ASSUME NEW k \in Runs, sink[k].pc = "gone", ~sink[k].cancelled
               PROVE  sink[k].settled + sink[k].reported = Len(accepted[k])
    BY DEF DropsReported
  <2>1. sink[k] \in SinkRecs BY SinkTyped
  <2>2. sink[k].settled \in Nat /\ sink[k].reported \in Nat BY <2>1 DEF SinkRecs
  <2>3. sink[k].queue = <<>> /\ sink[k].dropped = 0 /\ sink[k].pc \notin InHand
    BY DEF SinksSound, SinkSound, SinkShape, HasLeft, InHand
  <2>4. sink[k].settled + sink[k].reported + 0 + 0 + 0 = Len(accepted[k])
    BY <2>3 DEF SinksSound, SinkSound, Tally
  <2>5. QED BY <2>2, <2>4
<1>3. StatusSettles
  <2>1. tests = 0 => ~(tests > 0) OBVIOUS
  <2>2. QED BY <2>1 DEF StatusKept, StatusSettles, Quiet
<1>4. NoLostWakeup BY DEF NoLostWakeup, SinksSound, SinkSound, SinkShape
<1>5. QED BY <1>1, <1>2, <1>3, <1>4 DEF CaptionsDelivered, HeardRight, SinksSettle

\* streamcc/sink.go, service.go: in whatever order runs start, end and drain,
\* posts are answered late or never and admins change the URL, test or delete,
\* YouTube gets a run's captions in order under numbers of their own; a sink
\* never sleeps on work, one that ended before its drain timeout has accounted
\* for every caption, and the last one settles the status.
THEOREM CaptionsAlwaysDelivered == Spec => []CaptionsDelivered
<1>1. Init => StreamInv BY StreamInit
<1>2. StreamInv /\ [Next]_vars => StreamInv' BY StreamStep
<1>3. StreamInv => CaptionsDelivered BY StreamInvMeans
<1>4. QED BY <1>1, <1>2, <1>3, PTL DEF Spec

LEMMA StreamInvTypes == ASSUME StreamInv PROVE TypeOK
<1> USE DEF StreamInv
<1>1. made <= forgets + 1
  <2>1. made \in Nat /\ forgets \in Nat BY DEF StreamTypes
  <2>2. QED BY <2>1 DEF ObjectsMade, Dropping
<1>2. cur \in 0 .. made BY DEF StreamTypes
<1>3. ASSUME NEW k \in Runs
      PROVE  /\ sink[k].pc \in SinkPlaces
             /\ Len(sink[k].queue) <= QueueSize
             /\ sink[k].pc = "none" => sinkOf # k /\ \A r \in Runs : offer[r].sink # k /\ tookOut[r] # k
  <2>1. sink[k] \in SinkRecs BY SinkTyped
  <2>2. sink[k].pc \in SinkPlaces BY <2>1 DEF SinkRecs
  <2>3. Len(sink[k].queue) <= QueueSize BY DEF SinksSound, SinkSound, QueueOrder
  <2>4. k # 0 BY DEF Runs
  <2>5. sink[k].pc = "none" => sinkOf # k BY <2>4 DEF Registered, Works
  <2>6. sink[k].pc = "none" => \A r \in Runs : offer[r].sink # k /\ tookOut[r] # k
    BY <2>4 DEF Registered, OutOf
  <2>7. QED BY <2>2, <2>3, <2>5, <2>6
<1>4. QED BY <1>1, <1>2, <1>3 DEF TypeOK, StreamTypes

\* Every variable of the service keeps its type; a queue keeps its bound, and a
\* sink that was not made is neither registered nor in anyone's hands.
THEOREM StreamTypesHold == Spec => []TypeOK
<1>1. Init => StreamInv BY StreamInit
<1>2. StreamInv /\ [Next]_vars => StreamInv' BY StreamStep
<1>3. StreamInv => TypeOK BY StreamInvTypes
<1>4. QED BY <1>1, <1>2, <1>3, PTL DEF Spec
=================================================================================
