---------------------------- MODULE CaptionViewer ----------------------------
(***************************************************************************)
(* A viewer page (web/src/realtime/captions.ts over socket.ts) following   *)
(* one track of the caption bus: what it shows is kept over reconnects and *)
(* merged with the history of each new subscription.  The page's           *)
(* connections are the subscribers of CaptionBus, one after another.       *)
(***************************************************************************)
EXTENDS CaptionBus

SeqExt == INSTANCE SequencesExt

CONSTANTS
  Track,      \* the language it follows
  MaxFinals   \* maxFinalsPerTrack

ASSUME ViewerAssumption == Track \in Languages /\ MaxFinals \in Nat \ {0}

VARIABLES
  sub,    \* the page's connection, or None
  shown   \* what it shows: finals in start order, and the interim

viewerVars == <<busVars, sub, shown>>

EmptyPage == [finals |-> <<>>, interim |-> NoCaption]

\* The types of the state; the page's list is bounded.
ViewerTypeOK ==
  /\ sub \in Subscribers \cup {None}
  /\ Len(shown.finals) <= MaxFinals
  /\ shown.interim # NoCaption => ~shown.interim.final

-----------------------------------------------------------------------------
(* addCaption, applyCaptionMessage *)

Has(finals, seg) == \E i \in 1 .. Len(finals) : finals[i].seg = seg
Without(finals, seg) == SelectSeq(finals, LAMBDA f : f.seg # seg)

\* A caption's start grows with its segment.
Placed(finals, c) ==
  SelectSeq(finals, LAMBDA f : f.seg < c.seg) \o <<c>>
    \o SelectSeq(finals, LAMBDA f : f.seg > c.seg)

Capped(finals) ==
  SubSeq(finals, 1 + Len(finals) - Least(MaxFinals, Len(finals)), Len(finals))

\* A hidden final is removed; any final clears the interim of its segment.
AddCaption(page, c) ==
  IF ~c.final
  THEN IF Has(page.finals, c.seg) THEN page ELSE [page EXCEPT !.interim = c]
  ELSE [finals  |-> IF c.hidden THEN Without(page.finals, c.seg)
                    ELSE IF Has(page.finals, c.seg) THEN Placed(page.finals, c)
                    ELSE Capped(Placed(page.finals, c)),
        interim |-> IF page.interim.seg = c.seg THEN NoCaption ELSE page.interim]

\* history merges into what is shown; of interims only the history's stays.
\* Mutant: the old one stays.
MergeKeepingInterim(page, h) ==
  LET finals == SeqExt!SetToSortSeq(h.finals, LAMBDA a, b : a.seg < b.seg)
      merged == SeqExt!FoldLeft(AddCaption, page, finals)
  IN IF h.interim = NoCaption THEN merged ELSE AddCaption(merged, h.interim)
Merge(page, h) ==
  LET finals == SeqExt!SetToSortSeq(h.finals, LAMBDA a, b : a.seg < b.seg)
      merged == [SeqExt!FoldLeft(AddCaption, page, finals) EXCEPT !.interim = NoCaption]
  IN IF h.interim = NoCaption THEN merged ELSE AddCaption(merged, h.interim)

Applied(page, msg) ==
  CASE msg.type = "history" -> Merge(page, msg.captions[Track])
    [] msg.type = "caption" -> IF msg.lang = Track THEN AddCaption(page, msg.caption) ELSE page
    [] OTHER -> page

-----------------------------------------------------------------------------

ViewerInit == Init /\ sub = None /\ shown = EmptyPage

\* useCaptions opens a connection; the handler subscribes.
Connect(c) ==
  /\ sub = None /\ sub' = c /\ c \in Subscribers /\ home[c] = None /\ found[c] = None
  /\ Find(c) /\ UNCHANGED shown

Subscribed(c) == Subscribe(c) /\ UNCHANGED <<sub, shown>>

\* It found a closed object and looks again.
FindAgain(c) == sub = c /\ home[c] = None /\ (Retry(c) \/ Find(c)) /\ UNCHANGED <<sub, shown>>

\* A message arrives and is applied.
Show(c) ==
  /\ sub = c /\ Receive(c)
  /\ shown' = Applied(shown, Head(queue[c]))
  /\ UNCHANGED sub

\* The connection breaks, or the handler closes it because the bus dropped the
\* subscriber; the page reconnects and keeps what it shows.
Lose(c) ==
  /\ sub = c /\ GoAway(c)
  /\ sub' = None /\ UNCHANGED shown

\* What publishers, other goroutines of the bus and CloseSession do.
Behind ==
  /\ \/ \E p \in Publishers : \/ Find(p) \/ Retry(p) \/ PublishState(p)
                              \/ \E l \in Languages, c \in Published : PublishCaption(p, l, c)
     \/ \E c \in Subscribers : Unregister(c)
     \/ \E o \in 1 .. made : Elapse(o) \/ TimerFires(o)
     \/ CloseTake \/ CloseObject
  /\ UNCHANGED <<sub, shown>>

ViewerNext ==
  \/ \E c \in Subscribers : Connect(c) \/ Subscribed(c) \/ FindAgain(c) \/ Show(c) \/ Lose(c)
  \/ Behind

ViewerSpec == ViewerInit /\ [][ViewerNext]_viewerVars

-----------------------------------------------------------------------------
(* What holds *)

\* The page has applied everything it was sent and is still subscribed.
Synced == sub # None /\ sub \in open /\ queue[sub] = <<>>
OnBus  == bus[home[sub]].tracks[Track]

\* A synced page shows the last finals of the bus that are not hidden, with
\* their last text, and the bus's interim, whatever it missed while it was
\* away or was dropped; but for a line older than all a full page shows.
Full(seg) ==
  Len(shown.finals) = MaxFinals /\ \A i \in 1 .. MaxFinals : shown.finals[i].seg > seg
RecentShown ==
  Synced =>
    LET n == Least(HistoryN, Len(OnBus.ring)) IN
    /\ \A i \in 1 .. n :
         LET c == Recent(OnBus, n)[i] IN
         \/ c.hidden \/ Full(c.seg)
         \/ \E j \in 1 .. Len(shown.finals) : shown.finals[j] = c
    /\ shown.interim = OnBus.interim \/ Has(shown.finals, OnBus.interim.seg)

(* What the documentation says and does not hold *)

\* Hiding a line "removes the line from viewers".
HiddenIsGone ==
  Synced => \A i \in 1 .. Len(OnBus.ring) :
              OnBus.ring[i].hidden => ~Has(shown.finals, OnBus.ring[i].seg)
=============================================================================
