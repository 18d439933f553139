--------------------------- MODULE CaptionHistory ---------------------------
(***************************************************************************)
(* What the caption bus promises of one track's history: the last finals,  *)
(* in the order their segments first became final, each replaced in place  *)
(* by a correction, and at most one interim.  No ring, no index.           *)
(***************************************************************************)
EXTENDS Integers, Sequences

CONSTANTS HistorySize, Captions, NoCaption

VARIABLES kept, interim

Holds(seg) == \E i \in 1 .. Len(kept) : kept[i].seg = seg

Init == kept = <<>> /\ interim = NoCaption

\* A late interim, for a segment that is already final, changes nothing.
Speak(c) ==
  /\ ~c.final /\ ~Holds(c.seg)
  /\ interim' = c
  /\ UNCHANGED kept

Settle(c) == interim' = IF interim.seg = c.seg THEN NoCaption ELSE interim

Finish(c) ==
  /\ c.final /\ ~Holds(c.seg)
  /\ LET all == Append(kept, c)
         old == IF Len(kept) = HistorySize THEN 1 ELSE 0
     IN kept' = SubSeq(all, 1 + old, Len(all))
  /\ Settle(c)

\* Only another edit replaces an edit.
Correct(c, i) ==
  /\ c.final /\ kept[i].seg = c.seg
  /\ kept[i].edited => c.edited
  /\ kept' = [kept EXCEPT ![i] = c]
  /\ Settle(c)

Forget == kept' = <<>> /\ interim' = NoCaption

Next ==
  \/ \E c \in Captions : Speak(c) \/ Finish(c)
                         \/ \E i \in 1 .. Len(kept) : Correct(c, i)
  \/ Forget

historyVars == <<kept, interim>>
Spec == Init /\ [][Next]_historyVars
=============================================================================
