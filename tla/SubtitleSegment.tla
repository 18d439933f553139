---------------------------- MODULE SubtitleSegment ----------------------------
(***************************************************************************)
(* The cues of exported subtitles (subtitle/segment.go): captions are cut  *)
(* into sentences, packed into blocks of lines, and given times.  A word   *)
(* is its length and what it ends with.  Segment has no state: a behaviour *)
(* here writes down a list of captions, in the order of their starts, and  *)
(* the properties are about what Segment makes of each list.  Times are    *)
(* whole milliseconds, which a share of a caption is rounded down to.      *)
(***************************************************************************)
EXTENDS Integers, Sequences
LOCAL INSTANCE SequencesExt

CONSTANTS
  Words,            \* records of len and mark: "none", "clause" (, ; :) or "sentence" (. ! ?)
  MaxCharsPerLine, MaxLines, MinDuration, MaxDuration,
  CaptionTimes,     \* of captions: the gap before, the span, and whether it is hidden
  MaxWords          \* bound: words of the first caption; the second has at most one

VARIABLE captions

SegmentInit == captions = <<>>

-----------------------------------------------------------------------------
(* wrap and fill *)

Chars(words) ==
  LET upTo[i \in 0 .. Len(words)] == IF i = 0 THEN -1 ELSE upTo[i - 1] + 1 + words[i].len
  IN IF words = <<>> THEN 0 ELSE upTo[Len(words)]

\* Mutant: the space before the word is forgotten.
OverfullUnspaced(ln, w, width) == Chars(ln) + w.len > width
Overfull(ln, w, width) == Chars(ln) + 1 + w.len > width

\* The groups with one more word, in the last group or in one of its own.
Grouped(groups, w, anew) ==
  IF groups = <<>> \/ anew THEN Append(groups, <<w>>)
  ELSE Append(Front(groups), Append(Last(groups), w))

Fill(words, width) ==
  LET lines[i \in 0 .. Len(words)] ==
        IF i = 0 THEN <<>>
        ELSE Grouped(lines[i - 1], words[i], i > 1 /\ Overfull(Last(lines[i - 1]), words[i], width))
  IN lines[Len(words)]

FitLines(lines) ==
  Len(lines) <= MaxLines /\ \A i \in DOMAIN lines : Chars(lines[i]) <= MaxCharsPerLine
Fits(words) == FitLines(Fill(words, MaxCharsPerLine))

\* The narrowest width that keeps the number of lines, not below their average.
Narrows(words, width, count) ==
  \A w \in width .. MaxCharsPerLine : Len(Fill(words, w)) = count
Narrowest(words, count) ==
  CHOOSE w \in 1 .. MaxCharsPerLine :
    /\ w = MaxCharsPerLine \/ w >= (Chars(words) + count - 1) \div count
    /\ Narrows(words, w, count)
    /\ w - 1 < (Chars(words) + count - 1) \div count \/ ~Narrows(words, w - 1, count)
WrapFrom(words, greedy) ==
  IF FitLines(greedy) THEN Fill(words, Narrowest(words, Len(greedy))) ELSE greedy
Wrapped(words) == WrapFrom(words, Fill(words, MaxCharsPerLine))

-----------------------------------------------------------------------------
(* sentences, split and pack *)

Sentences(words) ==
  LET out[i \in 0 .. Len(words)] ==
        IF i = 0 THEN <<>>
        ELSE Grouped(out[i - 1], words[i], i > 1 /\ words[i - 1].mark = "sentence")
  IN out[Len(words)]

Prefix(words, k) == SubSeq(words, 1, k)
After(words, k) == SubSeq(words, k + 1, Len(words))

\* How many words of a sentence that does not fit go into the next chunk: as
\* many as fit, or up to a clause mark in its second half.
MostThatFit(words) ==
  CHOOSE k \in 1 .. Len(words) :
    /\ \A j \in 2 .. k : Fits(Prefix(words, j))
    /\ k = Len(words) \/ ~Fits(Prefix(words, k + 1))
ClauseEnds(words, n) ==
  {k \in 1 .. n - 1 :
     words[k].mark = "clause" /\ Chars(Prefix(words, k)) >= Chars(Prefix(words, n)) \div 2}
LastOr(ends, n) == IF ends = {} THEN n ELSE CHOOSE k \in ends : \A j \in ends : j <= k
CutAt(words, n) == IF n = Len(words) THEN n ELSE LastOr(ClauseEnds(words, n), n)

SplitSentence(words) ==
  LET from[i \in 1 .. Len(words) + 1] ==
        IF i > Len(words) THEN <<>>
        ELSE LET k == CutAt(After(words, i - 1), MostThatFit(After(words, i - 1)))
             IN <<SubSeq(words, i, i + k - 1)>> \o from[i + k]
  IN from[1]

Flush(packed) == IF packed.cur = <<>> THEN packed.out ELSE Append(packed.out, packed.cur)
PackChunks(packed, chunks) == [out |-> Flush(packed) \o Front(chunks), cur |-> Last(chunks)]
PackSentence(packed, sentence) ==
  IF Fits(packed.cur \o sentence) THEN [packed EXCEPT !.cur = @ \o sentence]
  ELSE PackChunks(packed, IF Fits(sentence) THEN <<sentence>> ELSE SplitSentence(sentence))

\* The blocks of a caption, each the words of a cue.
PackAll(sentences) ==
  LET packed[i \in 0 .. Len(sentences)] ==
        IF i = 0 THEN [out |-> <<>>, cur |-> <<>>] ELSE PackSentence(packed[i - 1], sentences[i])
  IN Flush(packed[Len(sentences)])
Pack(words) == PackAll(Sentences(words))

-----------------------------------------------------------------------------
(* timed and Segment *)

\* The caption's time, shared between its blocks by length; done is how much of
\* the text comes before each.
CharsBefore(blocks) ==
  LET done[i \in 0 .. Len(blocks)] == IF i = 0 THEN 0 ELSE done[i - 1] + Chars(blocks[i])
  IN done
Shared(caption, blocks, done) ==
  [i \in DOMAIN blocks |->
     [start |-> caption.start + (caption.span * done[i - 1]) \div done[Len(blocks)],
      end |-> caption.start + (caption.span * done[i]) \div done[Len(blocks)],
      words |-> blocks[i]]]
TimedBlocks(caption, blocks) == Shared(caption, blocks, CharsBefore(blocks))
Timed(caption) == TimedBlocks(caption, Pack(caption.words))

AtMost(m, n) == IF m < n THEN m ELSE n
AtLeast(m, n) == IF m > n THEN m ELSE n
OnScreen(cue) == cue.start + AtMost(AtLeast(cue.end - cue.start, MinDuration), MaxDuration)
Clamped(cues, i) ==
  IF i < Len(cues) /\ cues[i + 1].start > cues[i].start
  THEN AtMost(OnScreen(cues[i]), cues[i + 1].start)
  ELSE OnScreen(cues[i])

ClampedCues(cues) ==
  [i \in DOMAIN cues |->
     [start |-> cues[i].start, end |-> Clamped(cues, i), words |-> cues[i].words,
      lines |-> Wrapped(cues[i].words)]]
Segment(list) ==
  ClampedCues(FlattenSeq([k \in DOMAIN list |-> IF list[k].hidden THEN <<>> ELSE Timed(list[k])]))

-----------------------------------------------------------------------------
(* The list of captions *)

AddWord ==
  /\ captions # <<>>
  /\ Len(Last(captions).words) < IF Len(captions) = 1 THEN MaxWords ELSE 1
  /\ \E w \in Words : captions' = [captions EXCEPT ![Len(captions)].words = Append(@, w)]

AddCaption ==
  /\ Len(captions) < 2
  /\ \E t \in CaptionTimes :
       LET from == IF captions = <<>> THEN 0 ELSE Last(captions).start + Last(captions).span
       IN captions' = Append(captions, [start |-> from + t.gap, span |-> t.span,
                                        hidden |-> t.hidden, words |-> <<>>])

SegmentNextList == AddWord \/ AddCaption

-----------------------------------------------------------------------------
(* What holds *)

\* There is a way to break the words into lines that a cue has room for.
CanFit(words) ==
  \E breaks \in SUBSET (1 .. Len(words) - 1) :
    LET ends == SetToSortSeq(breaks \cup {Len(words)}, <)
        from(k) == IF k = 1 THEN 1 ELSE ends[k - 1] + 1
    IN /\ Len(ends) <= MaxLines
       /\ \A k \in DOMAIN ends : Chars(SubSeq(words, from(k), ends[k])) <= MaxCharsPerLine

Within(s, words) == \E j \in 1 .. Len(words) - Len(s) + 1 : SubSeq(words, j, j + Len(s) - 1) = s
Uncut(sentences, cues) ==
  \A s \in DOMAIN sentences :
    CanFit(sentences[s]) => \E i \in DOMAIN cues : Within(sentences[s], cues[i].words)
SoundCue(cue) ==
  /\ FlattenSeq(cue.lines) = cue.words
  /\ Len(cue.words) > 1 => FitLines(cue.lines)
  /\ cue.end - cue.start <= MaxDuration
SaidBy(cues) == FlattenSeq([i \in DOMAIN cues |-> cues[i].words])

\* The cues say what the captions say, in order, once.  Each has room for its
\* lines, unless it is one word that is longer than a line, and is not shown
\* for longer than MaxDuration.  A sentence that has room in a cue is not cut.
\* Cues start in order.
CuesSound ==
  \A cues \in {Segment(captions)} :
    /\ SaidBy(cues) = FlattenSeq([k \in DOMAIN captions |->
                                    IF captions[k].hidden THEN <<>> ELSE captions[k].words])
    /\ \A i \in DOMAIN cues :
         SoundCue(cues[i]) /\ (i < Len(cues) => cues[i].start <= cues[i + 1].start)
    /\ \A k \in DOMAIN captions :
         captions[k].hidden \/ Uncut(Sentences(captions[k].words), cues)

(* What the code says and does not hold *)

\* "Each cue's duration is clamped [...] without running into the next cue":
\* the cues of a caption without a span all start with it, and stay.
CuesApart ==
  \A cues \in {Segment(captions)} :
    \A i \in DOMAIN cues : i < Len(cues) => cues[i].end <= cues[i + 1].start

\* "As evenly as possible": no other break into as many lines has a shorter
\* longest line.  The average counts the spaces that breaks replace.
Narrower(lines, width) == \A l \in DOMAIN lines : Chars(lines[l]) <= width
LinesEven ==
  \A cues \in {Segment(captions)} : \A i \in DOMAIN cues :
    Fits(cues[i].words) =>
      \A width \in 1 .. MaxCharsPerLine :
        \A other \in {Fill(cues[i].words, width)} :
          Len(other) <= Len(cues[i].lines) /\ Narrower(other, width) => Narrower(cues[i].lines, width)
=============================================================================
