---------------------------- MODULE CaptionEdits ----------------------------
(***************************************************************************)
(* How a final caption and an operator's corrections of it reach the live  *)
(* viewers and the store: run.publish (bus, then SaveCaption) against      *)
(* PatchCaption (EditCaption in the store, then the bus), with nothing     *)
(* held in between; the store may refuse a final that was already sent.    *)
(* One track of one session.                                               *)
(***************************************************************************)
EXTENDS CaptionTrack

CONSTANTS
  Editors,    \* concurrent PatchCaption requests
  Lag,        \* how many segments back a provider still corrects
  MaxEvents,  \* bound: captions the provider emits
  MaxEdits,   \* bound: edits
  MaxBoots    \* bound: server restarts

\* The last: what a provider still corrects is in the ring (500 finals).
ASSUME EditsAssumption ==
  /\ MaxEvents \in Nat /\ MaxEdits \in Nat /\ MaxBoots \in Nat
  /\ Lag \in Nat /\ Lag + MaxEdits < HistorySize

VARIABLES
  track,    \* the bus's track
  rows,     \* the captions table: segment -> stored final
  saving,   \* the final run.publish has yet to store, or NoCaption
  unstored,  \* history: segments whose last final, of this server, the store refused
  editing,  \* the edited row each request has yet to publish, or NoCaption
  newest,   \* the last segment that became final
  past,     \* it, at the last server restart
  events, edits, boots

editsVars == <<track, rows, saving, unstored, editing, newest, past, events, edits, boots>>

EditsTypeOK ==
  /\ Len(track.ring) <= HistorySize
  /\ \A i \in 1 .. Len(track.ring) : track.ring[i] \in Captions
  /\ track.next \in 0 .. HistorySize - 1 /\ track.seq \in Nat
  /\ track.interim \in Captions \cup {NoCaption}
  /\ DOMAIN rows \subseteq Segments /\ \A seg \in DOMAIN rows : rows[seg] \in Captions
  /\ saving \in Captions \cup {NoCaption} /\ unstored \subseteq Segments
  /\ editing \in [Editors -> Captions \cup {NoCaption}]
  /\ newest \in Nat /\ past \in Nat
  /\ events \in 0 .. MaxEvents /\ edits \in 0 .. MaxEdits /\ boots \in 0 .. MaxBoots

EditsInit ==
  /\ track = EmptyTrack
  /\ rows = <<>>
  /\ saving = NoCaption /\ unstored = {}
  /\ editing = [a \in Editors |-> NoCaption]
  /\ newest = 0 /\ past = 0
  /\ events = 0 /\ edits = 0 /\ boots = 0

-----------------------------------------------------------------------------
(* The provider's captions *)

Publish(c) == track' = Add(track, c)

\* run.publish: an interim only goes to the bus; a final is then stored.
\* Segments become final in order; of the last ones a provider may emit a
\* final again and interims after it.  The segments of a new run are new.
Emit(c) ==
  /\ saving = NoCaption /\ events < MaxEvents
  /\ c.seg \in newest - Lag .. newest + 1 /\ c.seg > past
  /\ newest' = IF c.final /\ c.seg > newest THEN c.seg ELSE newest
  /\ Publish(c)
  /\ saving' = IF c.final THEN c ELSE NoCaption
  /\ events' = events + 1
  /\ UNCHANGED <<rows, unstored, editing, past, edits, boots>>

\* SaveCaption's upsert: an unedited caption does not overwrite the text and
\* the hidden flag of an edited row.
Upsert(c) ==
  IF c.seg \in DOMAIN rows /\ rows[c.seg].edited
  THEN [c EXCEPT !.text = rows[c.seg].text, !.hidden = rows[c.seg].hidden,
                 !.edited = TRUE]
  ELSE c

Save ==
  /\ saving # NoCaption
  /\ rows' = Indexed(rows, saving.seg, Upsert(saving))
  /\ saving' = NoCaption /\ unstored' = unstored \ {saving.seg}
  /\ UNCHANGED <<track, editing, newest, past, events, edits, boots>>

\* An error is logged, and the run goes on: viewers have had the text.
SaveRejected ==
  /\ saving # NoCaption
  /\ saving' = NoCaption /\ unstored' = unstored \cup {saving.seg}
  /\ UNCHANGED <<track, rows, editing, newest, past, events, edits, boots>>

-----------------------------------------------------------------------------
(* PatchCaption *)

\* EditCaption: corrects or hides a stored final; the others are a 404.
Edit(a, seg, text, hidden) ==
  /\ editing[a] = NoCaption /\ edits < MaxEdits
  /\ seg \in DOMAIN rows
  /\ text # rows[seg].text \/ hidden # rows[seg].hidden
  /\ LET row == [rows[seg] EXCEPT !.text = text, !.hidden = hidden, !.edited = TRUE] IN
     /\ rows' = [rows EXCEPT ![seg] = row]
     /\ editing' = [editing EXCEPT ![a] = row]
  /\ edits' = edits + 1
  /\ UNCHANGED <<track, saving, unstored, newest, past, events, boots>>

\* Mutant: what is broadcast lost its edited flag.
EditPublishUnmarked(a) ==
  /\ editing[a] # NoCaption
  /\ Publish([editing[a] EXCEPT !.edited = FALSE])
  /\ editing' = [editing EXCEPT ![a] = NoCaption]
  /\ UNCHANGED <<rows, saving, unstored, newest, past, events, edits, boots>>

EditPublish(a) ==
  /\ editing[a] # NoCaption
  /\ Publish(editing[a])
  /\ editing' = [editing EXCEPT ![a] = NoCaption]
  /\ UNCHANGED <<rows, saving, unstored, newest, past, events, edits, boots>>

\* The server restarts: the bus is empty, what was under way is lost.
Restart ==
  /\ boots < MaxBoots
  /\ boots' = boots + 1
  /\ past' = newest
  /\ track' = EmptyTrack
  /\ saving' = NoCaption /\ unstored' = {}
  /\ editing' = [a \in Editors |-> NoCaption]
  /\ UNCHANGED <<rows, newest, events, edits>>

EditsNext ==
  \/ \E seg \in Segments, text \in Texts : Emit(Interim(seg, text)) \/ Emit(Final(seg, text))
  \/ Save \/ SaveRejected
  \/ \E a \in Editors :
       \/ \E seg \in Segments, text \in Texts, hidden \in BOOLEAN : Edit(a, seg, text, hidden)
       \/ EditPublish(a)
  \/ Restart

EditsSpec == EditsInit /\ [][EditsNext]_editsVars

-----------------------------------------------------------------------------
(* What holds *)

\* The ring with its index is the history the bus documents (type Bus): it
\* implements History!Spec, whose state only changes when the track does.
History == INSTANCE CaptionHistory
             WITH kept <- Recent(track, HistorySize), interim <- track.interim
HistorySpec == History!Init /\ [][track' # track => [History!Next]_(History!historyVars)]_track

\* Once nothing is under way, viewers see what exports will show: an entry of
\* the ring has a row, with its text and its hidden flag, unless the last final
\* of its segment could not be stored and nobody has edited it since.
AtRest == saving = NoCaption /\ \A a \in Editors : editing[a] = NoCaption
BusShowsStore ==
  AtRest => \A i \in 1 .. Len(track.ring) :
              LET c == track.ring[i] IN
              \/ c.seg \in unstored /\ ~c.edited
              \/ /\ c.seg \in DOMAIN rows
                 /\ c.text = rows[c.seg].text /\ c.hidden = rows[c.seg].hidden

(* What the documentation says and does not hold *)

\* A session is a pipeline to "the caption bus and, for final captions, the
\* database": a final that the bus had may be in no row, or in one of before.
FinalsStored ==
  AtRest => \A i \in 1 .. Len(track.ring) : track.ring[i].seg \in DOMAIN rows
=============================================================================
