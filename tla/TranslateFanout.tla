--------------------------- MODULE TranslateFanout ---------------------------
(***************************************************************************)
(* The translation fan-out (internal/translate, type Fanout): consume      *)
(* pushes source captions, one goroutine per target language translates    *)
(* them and publishes to that language's track of the bus.  A text is its  *)
(* length; translators answer anything, in any time, or fail.              *)
(***************************************************************************)
EXTENDS CaptionTrack, FiniteSets

CONSTANTS
  Targets,           \* target languages
  Languages,         \* languages a caption may be spoken in
  ContextSentences,  \* previous finals sent along
  Streaming,         \* the translator reports partial output
  MaxPushes          \* bound: captions pushed

\* Duplicate targets are ignored: they are a set.
FanoutOptions == Targets \subseteq Languages /\ ContextSentences \in Nat

ASSUME FanoutAssumption ==
  FanoutOptions /\ Texts \subseteq Nat /\ Streaming \in BOOLEAN /\ MaxPushes \in Nat

VARIABLES
  pushes,   \* source captions so far
  latest,   \* the last one
  spoken,   \* the finals so far, each with its context
  waiting,  \* targets the last one has yet to be pushed to
  history,  \* the last final source sentences
  closing,  \* Close was called
  ctxDone,  \* the run's context is cancelled
  target,   \* the targets' queues: finals, interim, closed
  wake,     \* targets with a token in their wake channel
  at,       \* where each target's goroutine is
  item,     \* the caption it works on
  shown,    \* the interim shown: shownSeg and the length of shownText
  track,    \* the target's track on the bus
  out,      \* the last caption it published
  tried,    \* finals it is done with: translated or failed
  failed    \* segments whose final it reported as failed

sourceVars == <<pushes, latest, spoken, history>>
vars == <<sourceVars, waiting, closing, ctxDone, target, wake, at, item, shown, track, out, tried, failed>>

\* A source caption: its segment, whether it is final, its language.
Source(seg, final, lang, context) ==
  [seg |-> seg, final |-> final, lang |-> lang, context |-> context]
NoItem  == [seg |-> -1]
NoShown == [seg |-> -1, len |-> 0]

\* The types of the state; the context is bounded, an interim slot never
\* holds a final, and only a goroutine in a call has an item (Fanout, target).
TypeOK ==
  /\ waiting \subseteq Targets /\ wake \subseteq Targets
  /\ closing \in BOOLEAN /\ ctxDone \in BOOLEAN
  /\ Len(history) <= ContextSentences
  /\ at \in [Targets -> {"next", "idle", "wait", "call", "done"}]
  /\ \A t \in Targets : /\ target[t].closed \in BOOLEAN
                        /\ at[t] = "call" => item[t] # NoItem
                        /\ target[t].interim # NoItem => ~target[t].interim.final

Init ==
  /\ pushes = 0 /\ latest = NoItem /\ spoken = <<>> /\ waiting = {} /\ history = <<>>
  /\ closing = FALSE /\ ctxDone = FALSE
  /\ target = [t \in Targets |-> [finals |-> <<>>, interim |-> NoItem, closed |-> FALSE]]
  /\ wake = {} /\ at = [t \in Targets |-> "next"]
  /\ item = [t \in Targets |-> NoItem] /\ shown = [t \in Targets |-> NoShown]
  /\ track = [t \in Targets |-> EmptyTrack] /\ out = [t \in Targets |-> NoCaption]
  /\ tried = [t \in Targets |-> <<>>] /\ failed = [t \in Targets |-> {}]

-----------------------------------------------------------------------------
(* consume: Push and Close *)

\* context: the finals before this one; a final joins them.
Remember(c) ==
  IF c.final /\ ContextSentences > 0
  THEN LET all == Append(history, c.seg)
       IN SubSeq(all, 1 + Len(all) - Least(ContextSentences, Len(all)), Len(all))
  ELSE history

\* The captions of an ASR stream: of a segment first its interims, then its
\* final.
Speaking == Len(spoken) + 1

PushCaption(final, lang) ==
  /\ waiting = {} /\ ~closing /\ pushes < MaxPushes /\ Speaking \in Segments
  /\ LET c == Source(Speaking, final, lang, history) IN
     /\ latest' = c /\ pushes' = pushes + 1
     /\ spoken' = IF final THEN Append(spoken, c) ELSE spoken
     /\ history' = Remember(c)
  /\ waiting' = Targets
  /\ UNCHANGED <<closing, ctxDone, target, wake, at, item, shown, track, out, tried, failed>>

\* A final waits behind the others and supersedes the pending interim of its
\* segment.  Mutant: only the newest final waits.
QueuedNewest(q, c) == <<c>>
Queued(q, c) == Append(q, c)
Superseded(interim, c) == IF interim.seg = c.seg THEN NoItem ELSE interim

\* signal puts a token into the wake channel, if there is none.  Mutant: an
\* unbuffered channel, whose token is lost unless the target waits already.
SignalledIfWaiting(t) == IF at[t] = "wait" THEN wake \cup {t} ELSE wake
Signalled(t) == wake \cup {t}

\* target.push
PushTo(t) ==
  LET c == latest IN
  /\ t \in waiting
  /\ waiting' = waiting \ {t}
  /\ target' = IF c.final
               THEN [target EXCEPT ![t].finals = Queued(@, c), ![t].interim = Superseded(@, c)]
               ELSE [target EXCEPT ![t].interim = c]
  /\ wake' = Signalled(t)
  /\ UNCHANGED <<sourceVars, closing, ctxDone, at, item, shown, track, out, tried, failed>>

\* Close, then target.close of each.
Close ==
  /\ waiting = {} /\ ~closing
  /\ closing' = TRUE
  /\ UNCHANGED <<sourceVars, waiting, ctxDone, target, wake, at, item, shown, track, out,
                 tried, failed>>

CloseTarget(t) ==
  /\ closing /\ ~target[t].closed
  /\ target' = [target EXCEPT ![t].closed = TRUE, ![t].interim = NoItem]
  /\ wake' = Signalled(t)
  /\ UNCHANGED <<sourceVars, waiting, closing, ctxDone, at, item, shown, track, out, tried, failed>>

\* The run is aborted.
Cancel ==
  /\ ~ctxDone /\ ctxDone' = TRUE
  /\ UNCHANGED <<sourceVars, waiting, closing, target, wake, at, item, shown, track, out,
                 tried, failed>>

-----------------------------------------------------------------------------
(* A target's goroutine *)

\* next: finals first, then the interim; closed only when nothing is left.
Take(t) ==
  /\ at[t] = "next"
  /\ \/ /\ target[t].finals # <<>>
        /\ item' = [item EXCEPT ![t] = Head(target[t].finals)]
        /\ target' = [target EXCEPT ![t].finals = Tail(@)]
        /\ at' = [at EXCEPT ![t] = "call"]
     \/ /\ target[t].finals = <<>> /\ target[t].interim # NoItem
        /\ item' = [item EXCEPT ![t] = target[t].interim]
        /\ target' = [target EXCEPT ![t].interim = NoItem]
        /\ at' = [at EXCEPT ![t] = "call"]
     \/ /\ target[t].finals = <<>> /\ target[t].interim = NoItem
        /\ at' = [at EXCEPT ![t] = IF target[t].closed THEN "done" ELSE "idle"]
        /\ UNCHANGED <<item, target>>
  /\ UNCHANGED <<sourceVars, waiting, closing, ctxDone, wake, shown, track, out, tried, failed>>

\* It found nothing, and enters the select only now: a push may come between.
Park(t) ==
  /\ at[t] = "idle"
  /\ at' = [at EXCEPT ![t] = "wait"]
  /\ UNCHANGED <<sourceVars, waiting, closing, ctxDone, target, wake, item, shown, track, out,
                 tried, failed>>

WakeUp(t) ==
  /\ at[t] = "wait" /\ t \in wake
  /\ at' = [at EXCEPT ![t] = "next"] /\ wake' = wake \ {t}
  /\ UNCHANGED <<sourceVars, waiting, closing, ctxDone, target, item, shown, track, out, tried, failed>>

\* The context is cancelled; what is queued is lost.
Abort(t) ==
  /\ at[t] \in {"wait", "call"} /\ ctxDone
  /\ at' = [at EXCEPT ![t] = "done"] /\ item' = [item EXCEPT ![t] = NoItem]
  /\ UNCHANGED <<sourceVars, waiting, closing, ctxDone, target, wake, shown, track, out, tried, failed>>

\* emit: nothing when the text is empty.
Emit(t, c, len) ==
  IF len = 0 THEN UNCHANGED <<shown, track, out>>
  ELSE LET cap == IF c.final THEN Final(c.seg, len) ELSE Interim(c.seg, len) IN
       /\ shown' = [shown EXCEPT ![t] = IF c.final THEN NoShown ELSE [seg |-> c.seg, len |-> len]]
       /\ track' = [track EXCEPT ![t] = Add(@, cap)]
       /\ out' = [out EXCEPT ![t] = cap]

\* translate is done with the item.
Settled(t) ==
  /\ at' = [at EXCEPT ![t] = "next"]
  /\ item' = [item EXCEPT ![t] = NoItem]
  /\ tried' = IF item[t].final THEN [tried EXCEPT ![t] = Append(@, item[t])] ELSE tried
  /\ UNCHANGED <<sourceVars, waiting, closing, ctxDone, target, wake>>

\* A caption in the target's own language passes as it is.
PassThrough(t, len) ==
  /\ at[t] = "call" /\ item[t].lang = t
  /\ Emit(t, item[t], len)
  /\ Settled(t) /\ UNCHANGED failed

Translated(t, len) ==
  /\ at[t] = "call" /\ item[t].lang # t
  /\ Emit(t, item[t], len)
  /\ Settled(t) /\ UNCHANGED failed

TranslateFails(t) ==
  /\ at[t] = "call" /\ item[t].lang # t
  /\ failed' = IF item[t].final THEN [failed EXCEPT ![t] = @ \cup {item[t].seg}] ELSE failed
  /\ Settled(t) /\ UNCHANGED <<shown, track, out>>

\* partial: an interim of the final's segment, unless it is shorter than what
\* is shown (the same text again would change nothing).  Mutant: it is not compared.
ShorterNever(t, seg, len) == FALSE
Shorter(t, seg, len) == shown[t].seg = seg /\ len < shown[t].len

Partial(t, len) ==
  /\ Streaming /\ at[t] = "call" /\ item[t].lang # t /\ item[t].final
  /\ len > 0 /\ ~ctxDone /\ ~Shorter(t, item[t].seg, len)
  /\ Emit(t, [item[t] EXCEPT !.final = FALSE], len)
  /\ UNCHANGED <<sourceVars, waiting, closing, ctxDone, target, wake, at, item, tried, failed>>

Loop(t) ==
  \/ Take(t) \/ Park(t) \/ WakeUp(t) \/ Abort(t) \/ TranslateFails(t)
  \/ \E len \in Texts : PassThrough(t, len)
  \/ \E len \in Texts \cup {0} : Translated(t, len)

Producer ==
  \/ \E final \in BOOLEAN, lang \in Languages : PushCaption(final, lang)
  \/ Close
  \/ \E t \in Targets : PushTo(t) \/ CloseTarget(t)

Next ==
  \/ Producer \/ Cancel
  \/ \E t \in Targets : Loop(t) \/ \E len \in Texts : Partial(t, len)

Spec == Init /\ [][Next]_vars

\* The goroutines run, and a translation ends, at the latest at its timeout.
FairSpec ==
  /\ Spec
  /\ \A t \in Targets : WF_vars(Loop(t)) /\ WF_vars(PushTo(t)) /\ WF_vars(CloseTarget(t))

-----------------------------------------------------------------------------
(* What holds *)

\* "Finals are translated in order and never dropped": those it is done with,
\* the one in its hands and those that wait are the ones pushed to it.
InHand(t) == IF at[t] = "call" /\ item[t].final THEN <<item[t]>> ELSE <<>>
PushedTo(t) ==
  IF t \in waiting /\ latest.final THEN SubSeq(spoken, 1, Len(spoken) - 1) ELSE spoken
FinalsInOrder ==
  \A t \in Targets :
    ~ctxDone => PushedTo(t) = tried[t] \o InHand(t) \o target[t].finals

\* A line on a target's track is not taken back: no interim of a segment comes
\* after its final, however late the translator is, and a streamed final is
\* "never shorter than the interim already shown".
FollowsNoFinal(t) ==
  out'[t] # out[t] /\ ~out'[t].final
    => \A i \in 1 .. Len(tried[t]) : tried[t][i].seg # out'[t].seg
OnlyGrows(t) ==
  at[t] = "call" /\ at'[t] = "call" /\ track[t].interim.seg = item[t].seg
    => track'[t].interim.text >= track[t].interim.text
NeverShrinks == \A t \in Targets : FollowsNoFinal(t) /\ OnlyGrows(t)

\* What a viewer of a target's track relies on, with partial output, failures
\* and cancellation at any point: every final comes, in order, and what was
\* shown is not taken back.
TrackKept == [][FinalsInOrder' /\ NeverShrinks]_vars

\* Close waits for every target, and every target ends: no wake-up is lost.
CloseReturns == closing ~> \A t \in Targets : at[t] = "done"

(* What the documentation says and does not hold *)

\* A final that can't be translated: "that line is then missing from the
\* lang track".
FailedLineMissing == \A t \in Targets : track[t].interim.seg \notin failed[t]
=============================================================================
