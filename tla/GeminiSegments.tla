--------------------------- MODULE GeminiSegments ---------------------------
(***************************************************************************)
(* The segmenter of the Gemini Live recognizer (gemini/asr_segment.go): it  *)
(* is shared by the connection in use and the one before it, and turns each *)
(* server utterance into one segment, or, when its final holds several      *)
(* sentences, into a segment per sentence.  A text is a sequence of words   *)
(* [len, mark, says]: its characters, the mark that ends it, and the        *)
(* language it is a common word of, if any.                                 *)
(***************************************************************************)
EXTENDS Integers, Sequences, FiniteSets, FiniteSetsExt

CONSTANTS
  LiveConns,         \* connections; one is in use, the others still answer
  Transcripts,             \* the texts a transcription may hold
  PinnedLanguage,    \* the session's language, or NoLanguage to detect it
  MinSentenceChars, MaxSegmentChars,
  FirstWordsLag, PerWord,   \* the estimate of a start, in ticks
  MaxAudioClock, MaxSegments  \* bounds

NoLanguage == ""

SegmentLimits == {MinSentenceChars, MaxSegmentChars, FirstWordsLag, PerWord} \subseteq Nat

ASSUME SegmentsAssumption ==
  /\ SegmentLimits /\ {MaxAudioClock, MaxSegments} \subseteq Nat
  /\ PinnedLanguage \in {"en", "es", NoLanguage}

VARIABLES
  segmenter,   \* [seq, prevEnd, lastLang]
  utterance,   \* connection -> [id, text, start, last, code]
  liveConn,    \* the connection in use
  audioClock,  \* the session clock of the audio sent
  audioEnd,    \* connection -> where the audio it heard ends, once it is not in use
  lastFinal,   \* the last final: its text, the id its interims had, its events
  finalIds     \* ids of the finals before it

segmentVars == <<segmenter, utterance, liveConn, audioClock, audioEnd, lastFinal, finalIds>>

NoUtterance == [id |-> 0, text |-> <<>>, start |-> 0, last |-> 0, code |-> NoLanguage]
SegmentsInit ==
  /\ segmenter = [seq |-> 0, prevEnd |-> 0, lastLang |-> NoLanguage]
  /\ utterance = [c \in LiveConns |-> NoUtterance]
  /\ liveConn = (CHOOSE c \in LiveConns : TRUE)
  /\ audioClock = 0 /\ audioEnd = [c \in LiveConns |-> 0]
  /\ lastFinal = [text |-> <<>>, id |-> 0, from |-> 0, events |-> <<>>] /\ finalIds = {}

ClockOf(c) == IF c = liveConn THEN audioClock ELSE audioEnd[c]

-----------------------------------------------------------------------------
(* Texts *)

Chars(text) ==
  LET Upto[i \in 0 .. Len(text)] == IF i = 0 THEN 0 ELSE Upto[i - 1] + text[i].len + 1
  IN Upto[Len(text)] - 1
HeadChars(text, i) == Chars(SubSeq(text, 1, i))

\* splitSentence: the words to split off, or 0.
Split(text) ==
  LET inner     == 1 .. Len(text) - 1
      sentences == {i \in inner : text[i].mark = "." /\ HeadChars(text, i) >= MinSentenceChars}
      fit       == {i \in inner : HeadChars(text, i) + 1 <= MaxSegmentChars}
      clauses   == {i \in fit : text[i].mark = ","}
  IN CASE sentences # {} -> Min(sentences)
       [] sentences = {} /\ Chars(text) > MaxSegmentChars /\ clauses # {} -> Max(clauses)
       [] sentences = {} /\ Chars(text) > MaxSegmentChars /\ clauses = {} /\ fit # {} -> Max(fit)
       [] OTHER -> 0

RECURSIVE Pieces(_)
Pieces(text) ==
  LET n == Split(text)
  IN IF n = 0 THEN <<text>> ELSE <<SubSeq(text, 1, n)>> \o Pieces(SubSeq(text, n + 1, Len(text)))

NormalizeLang(code) == IF code \in {"en", "es"} THEN code ELSE NoLanguage

GuessLanguage(text) ==
  LET n(l) == Cardinality({i \in 1 .. Len(text) : text[i].says = l})
      clearly(l, other) == n(l) > n(other) /\ (n(other) = 0 \/ n(l) - n(other) >= 2)
  IN CASE clearly("en", "es") -> "en" [] clearly("es", "en") -> "es" [] OTHER -> NoLanguage

Language(text, code, lastLang) ==
  LET said == SelectSeq(<<PinnedLanguage, code, GuessLanguage(text), lastLang>>, LAMBDA l : l # NoLanguage)
  IN IF said = <<>> THEN NoLanguage ELSE Head(said)

-----------------------------------------------------------------------------
(* The segmenter *)

\* begin: an utterance takes the next id and an estimate of its start.
Begin(u, text, now) ==
  IF u.id # 0 THEN u
  ELSE LET start == Max({segmenter.prevEnd, now - FirstWordsLag - PerWord * Len(text), 0})
       IN [u EXCEPT !.id = segmenter.seq + 1, !.start = start, !.last = start]
Coded(u, code) == IF NormalizeLang(code) = NoLanguage THEN u ELSE [u EXCEPT !.code = NormalizeLang(code)]

Opened(u) == IF u.id = 0 THEN segmenter.seq + 1 ELSE segmenter.seq

Event(id, text, start, end, lang) ==
  [id |-> id, text |-> text, start |-> start, end |-> Max({start, end}), lang |-> lang]

\* interim: the hypothesis is replaced, if there is one and it is new.
HearInterim(c, text, code) ==
  LET u == Coded(Begin(utterance[c], text, ClockOf(c)), code) IN
  /\ text # <<>> /\ text # utterance[c].text /\ segmenter.seq < MaxSegments
  /\ utterance' = [utterance EXCEPT ![c] = [u EXCEPT !.text = text, !.last = Max({ClockOf(c), u.start})]]
  /\ segmenter' = [segmenter EXCEPT !.seq = Opened(utterance[c])]
  /\ UNCHANGED <<liveConn, audioClock, audioEnd, lastFinal, finalIds>>

\* The first piece keeps the utterance's id, the others take the next ones.
\* Mutant: the ids of the cuts are not counted.
SeqAfterUncounted(u, pieces) == Opened(u)
SeqAfter(u, pieces) == Opened(u) + Len(pieces) - 1
PieceId(u, first, k) == IF k = 1 THEN first ELSE Opened(u) + k - 1

\* The cuts are placed between start and end in proportion to the text.
CutAt(pieces, start, end, k) ==
  LET done[i \in 0 .. Len(pieces)] == IF i = 0 THEN 0 ELSE done[i - 1] + Chars(pieces[i]) + 1
      total == done[Len(pieces)] - 1
  IN IF k = Len(pieces) THEN end ELSE start + ((end - start) * done[k]) \div total

\* finalEvent of each piece; each may set the language of those after it.
Events(u, was, pieces, end) ==
  LET langs[k \in 0 .. Len(pieces)] ==
        IF k = 0 THEN segmenter.lastLang ELSE Language(pieces[k], u.code, langs[k - 1])
  IN [k \in 1 .. Len(pieces) |->
        Event(PieceId(was, u.id, k), pieces[k], CutAt(pieces, u.start, end, k - 1), CutAt(pieces, u.start, end, k),
              langs[k])]

\* final: with the server's text, or that of the last interim; the utterance is over.
HearFinal(c, given, code) ==
  LET was    == utterance[c]
      text   == IF given = <<>> THEN was.text ELSE given
      now    == ClockOf(c)
      coded  == Coded(Begin(was, text, now), code)
      u      == IF coded.code = NoLanguage THEN [coded EXCEPT !.code = GuessLanguage(text)] ELSE coded
      end    == Max({u.start, IF was.id = 0 THEN now ELSE was.last})
      pieces == Pieces(text)
      events == Events(u, was, pieces, end)
  IN /\ text # <<>>
     /\ Opened(was) + Len(pieces) - 1 <= MaxSegments
     /\ utterance' = [utterance EXCEPT ![c] = NoUtterance]
     /\ segmenter' = [seq |-> SeqAfter(was, pieces),
                      prevEnd |-> Max({segmenter.prevEnd} \cup {events[k].end : k \in 1 .. Len(events)}),
                      lastLang |-> IF events[Len(events)].lang = NoLanguage
                                   THEN segmenter.lastLang ELSE events[Len(events)].lang]
     /\ lastFinal' = [text |-> text, id |-> was.id, from |-> u.start, events |-> events]
     /\ finalIds' = finalIds \cup {lastFinal.events[k].id : k \in 1 .. Len(lastFinal.events)}
     /\ UNCHANGED <<liveConn, audioClock, audioEnd>>

\* flush: the interim stands as the final when none came.
FlushUtterance(c) == utterance[c].id # 0 /\ HearFinal(c, <<>>, NoLanguage)

AudioPasses ==
  /\ audioClock < MaxAudioClock /\ audioClock' = audioClock + 1
  /\ UNCHANGED <<segmenter, utterance, liveConn, audioEnd, lastFinal, finalIds>>

\* A rotation: the new connection hears the audio from now on.
SwitchConn(c) ==
  /\ c # liveConn /\ utterance[c].id = 0 /\ liveConn' = c
  /\ audioEnd' = [audioEnd EXCEPT ![liveConn] = audioClock]
  /\ UNCHANGED <<segmenter, utterance, audioClock, lastFinal, finalIds>>

SegmentsNext ==
  \/ AudioPasses
  \/ \E c \in LiveConns :
        \/ SwitchConn(c) \/ FlushUtterance(c)
        \/ \E code \in {"es", "pt"} :
              \/ \E text \in Transcripts : HearInterim(c, text, code)
              \/ \E text \in Transcripts \cup {<<>>} : HearFinal(c, text, code)

SegmentsSpec == SegmentsInit /\ [][SegmentsNext]_segmentVars

-----------------------------------------------------------------------------
(* What holds *)

\* A final comes out whole and in order, its pieces one after the other in
\* time from the utterance's start; the first keeps the id of the interims,
\* and no id is that of an earlier final or of an utterance still open on
\* either connection; what begins next begins after all of it.
SegmentsWhole ==
  LET evs == lastFinal.events
      n   == Len(evs)
      All[k \in 0 .. n] == IF k = 0 THEN <<>> ELSE All[k - 1] \o evs[k].text
      ids == {evs[k].id : k \in 1 .. n}
  IN /\ All[n] = lastFinal.text
     /\ Cardinality(ids) = n /\ ids \cap (finalIds \cup {utterance[c].id : c \in LiveConns}) = {}
     /\ n > 0 => /\ evs[1].start = lastFinal.from
                 /\ lastFinal.id # 0 => evs[1].id = lastFinal.id
     /\ \A k \in 1 .. n : /\ evs[k].start <= evs[k].end /\ evs[k].end <= segmenter.prevEnd
                          /\ k > 1 => evs[k].start = evs[k - 1].end
=============================================================================
