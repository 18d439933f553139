----------------------------- MODULE CaptionPages -----------------------------
(***************************************************************************)
(* Reading a track's captions page by page (store.ListCaptions with its     *)
(* cursor, under GET captions, the exports and the replay page) while       *)
(* captions are saved, final again, hidden and shown, and the session may   *)
(* be deleted.  Each page is one query; nothing is held between pages.      *)
(***************************************************************************)
EXTENDS Integers, Sequences, SequencesExt, FiniteSets

CONSTANTS
  PageSegments,   \* segment ids, numbered in their order
  PageLimit,      \* CaptionQuery.Limit
  MaxPages,       \* useTranscript.maxPages
  StartTimes,     \* start_sec, finer than the float32 of a caption
  MaxPageWrites   \* bound: writes while pages are read

ASSUME PagesAssumption ==
  /\ PageSegments \subseteq Nat /\ StartTimes \subseteq Nat
  /\ PageLimit \in Nat \ {0} /\ MaxPages \in Nat \ {0} /\ MaxPageWrites \in Nat

VARIABLES
  stored,   \* the captions table: segment -> start and whether it is hidden
  gone,     \* the session was deleted
  reader,   \* which reader, where, its cursor and the recording's window
  listed,   \* what it has, in the order it came
  unmoved,  \* segments that kept their row since it began
  writes

pageVars == <<stored, gone, reader, listed, unmoved, writes>>

NoCursor == <<-1, -1>>
Position(seg, row) == <<row.start, seg>>
\* (start_sec, segment_id) > (?, ?), and ORDER BY
After(p, q) == p[1] > q[1] \/ (p[1] = q[1] /\ p[2] > q[2])

Kinds == {"transcript", "export"}

\* Any stored captions; a reader of a recording from some time on.
PagesInit ==
  /\ stored \in UNION {[S -> [start : StartTimes, hidden : BOOLEAN]] : S \in SUBSET PageSegments}
  /\ gone = FALSE
  /\ reader \in [kind : Kinds, at : {"session"}, cursor : {NoCursor}, pages : {0},
                 from : StartTimes, to : {0} \cup StartTimes]
  /\ reader.to = 0 \/ reader.to >= reader.from
  /\ listed = <<>> /\ unmoved = DOMAIN stored /\ writes = 0

-----------------------------------------------------------------------------
(* The reader *)

\* The session is looked up; without it the answer is a 404.
CheckSession ==
  /\ reader.at = "session"
  /\ reader' = [reader EXCEPT !.at = IF gone THEN "refused" ELSE "page"]
  /\ UNCHANGED <<stored, gone, listed, unmoved, writes>>

\* GetSubtitles: once, before the first page.
StartExport == reader.kind = "export" /\ CheckSession
\* useTranscript: each page is a request of its own to ListCaptions.
NextRequest == reader.kind = "transcript" /\ CheckSession

\* recordingWindow: while it is recorded it has no end (0).
InWindow(row) ==
  reader.to > reader.from => row.start >= reader.from /\ row.start < reader.to

\* Mutants: the start of the caption, a float32; the start alone.
CursorRounded(seg, row) == <<2 * (row.start \div 2), seg>>
CursorOf(seg, row) == Position(seg, row)
PastStart(p, cursor) == p[1] > cursor[1]
Past(p, cursor) == After(p, cursor)

\* allCaptions follows the cursors to the end, useTranscript MaxPages of them.
GoesOn(more) == more /\ (reader.kind = "transcript" => reader.pages + 1 < MaxPages)

\* Store.ListCaptions; what is hidden counts for the page but is not shown.
ListPage ==
  LET matches == {seg \in DOMAIN stored : InWindow(stored[seg]) /\ Past(Position(seg, stored[seg]), reader.cursor)}
      order   == SetToSortSeq(matches, LAMBDA a, b : After(Position(b, stored[b]), Position(a, stored[a])))
      page    == IF Len(order) > PageLimit THEN SubSeq(order, 1, PageLimit) ELSE order
      shown   == SelectSeq(page, LAMBDA seg : ~stored[seg].hidden)
      last    == page[Len(page)]
      more    == GoesOn(Len(order) > PageLimit) IN
  /\ reader.at = "page"
  /\ listed' = listed \o [i \in 1 .. Len(shown) |-> Position(shown[i], stored[shown[i]])]
  /\ reader' = [reader EXCEPT !.pages = @ + 1,
                  !.cursor = IF more THEN CursorOf(last, stored[last]) ELSE @,
                  !.at = IF ~more THEN "done" ELSE IF reader.kind = "transcript" THEN "session" ELSE "page"]
  /\ UNCHANGED <<stored, gone, unmoved, writes>>

-----------------------------------------------------------------------------
(* Meanwhile *)

Writes == reader.at \in {"session", "page"} /\ ~gone /\ writes < MaxPageWrites /\ writes' = writes + 1

\* SaveCaption: a new caption, or one that is final again, maybe at another
\* start; an unedited one keeps what an operator hid.
SaveStored(seg, start) ==
  /\ Writes
  /\ LET row == IF seg \in DOMAIN stored THEN [stored[seg] EXCEPT !.start = start]
                ELSE [start |-> start, hidden |-> FALSE] IN
     stored' = [s \in DOMAIN stored \cup {seg} |-> IF s = seg THEN row ELSE stored[s]]
  /\ unmoved' = IF seg \in DOMAIN stored /\ stored'[seg] = stored[seg] THEN unmoved ELSE unmoved \ {seg}
  /\ UNCHANGED <<gone, reader, listed>>

\* PatchCaption hides a caption, or shows it again.
HideStored(seg) ==
  /\ Writes /\ seg \in DOMAIN stored
  /\ stored' = [stored EXCEPT ![seg].hidden = ~@]
  /\ unmoved' = unmoved \ {seg}
  /\ UNCHANGED <<gone, reader, listed>>

\* DeleteSession cascades to its captions.
DeleteStored ==
  /\ Writes /\ gone' = TRUE /\ stored' = <<>>
  /\ UNCHANGED <<reader, listed, unmoved>>

PagesNext ==
  \/ StartExport \/ NextRequest \/ ListPage
  \/ \E seg \in PageSegments : HideStored(seg) \/ \E start \in StartTimes : SaveStored(seg, start)
  \/ DeleteStored

PagesSpec == PagesInit /\ [][PagesNext]_pageVars

-----------------------------------------------------------------------------
(* What holds *)

\* Whatever is written between pages, they are in order and nothing is in
\* two of them unless it moved; and a reader that got to the end of a session
\* that is still there has each caption that stayed as it was, once.
PagesWhole ==
  /\ \A i, j \in 1 .. Len(listed) : i < j => After(listed[j], listed[i])
  /\ \A i, j \in 1 .. Len(listed) : listed[i][2] = listed[j][2] /\ i # j => listed[i][2] \notin unmoved
  /\ reader.at = "done" /\ ~gone /\ reader.pages < MaxPages =>
       \A seg \in unmoved :
         (~stored[seg].hidden /\ InWindow(stored[seg])) = (Position(seg, stored[seg]) \in Range(listed))

\* Does not hold: a settled recording without length has no window, and its
\* replay lists the captions of the whole session.
WindowKept ==
  reader.to # 0 => \A i \in 1 .. Len(listed) : listed[i][1] >= reader.from /\ listed[i][1] < reader.to

\* Does not hold: an export whose session is deleted between two pages is
\* answered with the pages it had.
ExportsAreWhole == reader.kind = "export" /\ reader.at = "done" /\ gone => listed = <<>>
=============================================================================
