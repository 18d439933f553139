---------------------------- MODULE CaptionTrack ----------------------------
(***************************************************************************)
(* One caption track of the bus (internal/bus, type track): the ring of    *)
(* the last finals, the index from segment to ring entry, and the interim. *)
(* Operators on a track record; the modules that own tracks extend it.     *)
(***************************************************************************)
EXTENDS Integers, Sequences

CONSTANTS
  HistorySize,   \* finals kept (Bus.historySize)
  Segments,      \* segment ids, numbered in the order they are spoken
  Texts          \* caption texts

ASSUME TrackAssumption == HistorySize \in Nat \ {0} /\ Segments \subseteq Nat

\* What the bus looks at in a caption; its start grows with its segment.
Captions == [seg : Segments, final : BOOLEAN, text : Texts, edited : BOOLEAN,
             hidden : BOOLEAN]
NoCaption == [seg |-> -1]

Interim(seg, text) == [seg |-> seg, final |-> FALSE, text |-> text,
                       edited |-> FALSE, hidden |-> FALSE]
Final(seg, text)   == [Interim(seg, text) EXCEPT !.final = TRUE]

EmptyTrack == [ring |-> <<>>, next |-> 0, seq |-> 0, final |-> <<>>,
               interim |-> NoCaption]

\* "A final's slot is its seq modulo size", counted from 1 here.
Slot(t, seg) == (t.final[seg] % HistorySize) + 1
Known(t, seg) == seg \in DOMAIN t.final

\* A late interim, or an unedited final that would undo an edit.
UndoesEdit(t, c) == t.ring[Slot(t, c.seg)].edited /\ ~c.edited
Dropped(t, c) == Known(t, c.seg) /\ (c.final => UndoesEdit(t, c))

\* The final of its segment clears the interim, even if it is dropped.
Settle(t, c) ==
  IF t.interim.seg = c.seg THEN [t EXCEPT !.interim = NoCaption] ELSE t

\* The index without the segment of the entry that is overwritten.  Mutant:
\* it stays, and a correction of that segment hits another's slot.
KeepEvicted(t)   == t.final
ForgetEvicted(t) ==
  LET old == t.ring[t.next + 1].seg
      stays == {s \in DOMAIN t.final : s = old => t.final[s] # t.seq - HistorySize}
  IN [s \in stays |-> t.final[s]]

Indexed(index, seg, n) == [s \in DOMAIN index \cup {seg} |-> IF s = seg THEN n ELSE index[s]]

\* The ring grows to the history size, then wraps.
Grows(t) == Len(t.ring) < HistorySize

\* A final of a new segment.
Push(t, c) ==
  IF Grows(t)
  THEN [t EXCEPT !.ring = Append(@, c), !.seq = @ + 1,
                 !.final = Indexed(@, c.seg, t.seq)]
  ELSE [t EXCEPT !.ring[t.next + 1] = c, !.next = (@ + 1) % HistorySize,
                 !.seq = @ + 1,
                 !.final = Indexed(ForgetEvicted(t), c.seg, t.seq)]

\* track.add
Add(t, c) ==
  IF ~c.final THEN IF Dropped(t, c) THEN t ELSE [t EXCEPT !.interim = c]
  ELSE IF Dropped(t, c) THEN Settle(t, c)
  ELSE IF Known(t, c.seg) THEN [Settle(t, c) EXCEPT !.ring[Slot(t, c.seg)] = c]
  ELSE Push(Settle(t, c), c)

\* track.last: up to n most recent finals, oldest first.  Mutant: it reads
\* from the first slot, as if the ring never wrapped.
Least(a, b) == IF a < b THEN a ELSE b
RecentUnwrapped(t, n) ==
  LET m == Least(n, Len(t.ring)) IN [i \in 1 .. m |-> t.ring[Len(t.ring) - m + i]]
Recent(t, n) ==
  LET m     == Least(n, Len(t.ring))
      start == t.next + Len(t.ring) - m
  IN [i \in 1 .. m |-> t.ring[((start + i - 1) % Len(t.ring)) + 1]]
=============================================================================
