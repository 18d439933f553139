---------------------------- MODULE MC_CaptionViewer ----------------------------
(* Small instances of CaptionViewer.                                         *)
EXTENDS CaptionViewer

CONSTANTS t1, t2

TwoTexts       == {t1, t2}
Restored(seg)  == [Final(seg, t2) EXCEPT !.edited = TRUE]
\* What may be published: an interim, both segments' finals, a correction.
Reduced        == {Interim(2, t1), Restored(1)} \cup {Final(s, t1) : s \in Segments}
=============================================================================
