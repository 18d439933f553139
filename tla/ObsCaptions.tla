----------------------------- MODULE ObsCaptions -----------------------------
(***************************************************************************)
(* Stream captions through OBS (streamcc/obs.go): the sinks of all         *)
(* sessions and the test captions share one connection.  A send holds the  *)
(* lock over the whole item: it waits for the gap, connects if there is no *)
(* connection, asks OBS to show the cue and waits for the answer.  What    *)
(* fails is sent again later, from the first cue not shown.  A connection  *)
(* is dropped when an answer does not come, so it never has two requests.  *)
(***************************************************************************)
EXTENDS Integers, Sequences, FiniteSetsExt

CONSTANTS
  ObsSenders,    \* the sinks and test captions that send
  ObsCues,       \* the cues of each item
  CueSteps,      \* the times there may be between the beginnings of an item's cues
  MinGap, MaxGap,
  MaxObsItems,   \* bound: items of one sender
  MaxSent,       \* bound: captions OBS shows for one item
  MaxObsTime     \* bound: the clock

Nobody == "nobody"

ASSUME ObsAssumption ==
  /\ Nobody \notin ObsSenders /\ CueSteps \subseteq Int
  /\ ObsCues \in Nat \ {0} /\ MinGap \in Nat /\ MaxGap \in Nat /\ MinGap <= MaxGap

VARIABLES
  obsClock,
  sending,   \* the sender that holds obs.mu, or Nobody
  link,      \* obs.conn: "none", "up", or "broken" and not noticed
  nextAt,    \* obs.next: when the next caption may replace the one on screen
  request,   \* OBS's side of the request that waits for an answer
  sender,    \* each sender: where it is, its item and the cues shown of it
  obsShown,  \* history: the cues of each sender's item that OBS showed
  onScreen   \* history: when OBS showed the last caption that it said it shows

obsVars == <<obsClock, sending, link, nextAt, request, sender, obsShown, onScreen>>

NoRequest == [state |-> "none", at |-> 0]
NewItem(n, step) == [at |-> "idle", item |-> n, done |-> 0, step |-> step]
Never == -MaxGap

ObsInit ==
  /\ obsClock = 0 /\ sending = Nobody /\ link = "none" /\ nextAt = 0 /\ request = NoRequest
  /\ sender \in [ObsSenders -> {NewItem(1, step) : step \in CueSteps}]
  /\ obsShown = [s \in ObsSenders |-> <<>>] /\ onScreen = Never

SenderAt(s, place) == sender[s].at = place
SenderGoes(s, place) == sender' = [sender EXCEPT ![s].at = place]

\* The item was sent or failed for good: the sender has the next one.
ItemOver(s) ==
  /\ \E step \in CueSteps : sender' = [sender EXCEPT ![s] = NewItem(@.item + 1, step)]
  /\ obsShown' = [obsShown EXCEPT ![s] = <<>>]

\* A failure that may pass: send returns, and the sender tries again later.
SendLater(s) == SenderGoes(s, "idle") /\ sending' = Nobody /\ UNCHANGED obsShown

-----------------------------------------------------------------------------
(* send *)

SendItem(s) ==
  /\ SenderAt(s, "idle") /\ sending = Nobody /\ sender[s].item <= MaxObsItems
  /\ sending' = s /\ SenderGoes(s, "gap")
  /\ UNCHANGED <<obsClock, link, nextAt, request, obsShown, onScreen>>

\* A retry finds the item too old; a test caption is not sent again.
GiveUpItem(s) ==
  /\ SenderAt(s, "idle") /\ sender[s].item <= MaxObsItems /\ ItemOver(s)
  /\ UNCHANGED <<obsClock, sending, link, nextAt, request, onScreen>>

GapPasses(s) ==
  /\ SenderAt(s, "gap") /\ obsClock >= nextAt /\ SenderGoes(s, "caption")
  /\ UNCHANGED <<obsClock, sending, link, nextAt, request, obsShown, onScreen>>

\* The sink is closed, or the test's request ends, in the gap.
GapCancelled(s) ==
  /\ SenderAt(s, "gap") /\ obsClock < nextAt /\ ItemOver(s) /\ sending' = Nobody
  /\ UNCHANGED <<obsClock, link, nextAt, request, onScreen>>

\* A wrong password fails the item, everything else may pass.
ObsConnect(s) ==
  /\ SenderAt(s, "caption") /\ link = "none"
  /\ \/ link' = "up" /\ UNCHANGED <<sending, sender, obsShown>>
     \/ SendLater(s) /\ UNCHANGED link
     \/ ItemOver(s) /\ sending' = Nobody /\ UNCHANGED link
  /\ UNCHANGED <<obsClock, nextAt, request, onScreen>>

\* The write to a connection that broke may fail, or seem to succeed.
WriteRequest(s) ==
  /\ SenderAt(s, "caption") /\ link # "none" /\ Len(obsShown[s]) < MaxSent
  /\ \/ request' = [NoRequest EXCEPT !.state = IF link = "up" THEN "sent" ELSE "lost"]
        /\ SenderGoes(s, "answer") /\ UNCHANGED <<sending, link, obsShown>>
     \/ link = "broken" /\ link' = "none" /\ SendLater(s) /\ UNCHANGED request
  /\ UNCHANGED <<obsClock, nextAt, onScreen>>

\* How long a cue stays.  Mutant: the last of an item is given no time.
Follows(s) == Min({Max({sender[s].step, MinGap}), MaxGap})
GapIfMore(s) == IF sender[s].done + 1 < ObsCues THEN Follows(s) ELSE 0
GapAfter(s) == IF sender[s].done + 1 < ObsCues THEN Follows(s) ELSE MinGap

\* The sender goes on with the item's next cue.
CueDone(s) ==
  LET from == sender[s] IN
  [at |-> "gap", item |-> from.item, done |-> from.done + 1, step |-> from.step]

AnswerShown(s) ==
  /\ SenderAt(s, "answer") /\ request.state = "shown"
  /\ nextAt' = obsClock + GapAfter(s)
  /\ onScreen' = request.at /\ request' = NoRequest
  /\ \/ sender[s].done + 1 < ObsCues
        /\ sender' = [sender EXCEPT ![s] = CueDone(s)]
        /\ UNCHANGED <<sending, obsShown>>
     \/ sender[s].done + 1 = ObsCues /\ ItemOver(s) /\ sending' = Nobody
  /\ UNCHANGED <<obsClock, link>>

AnswerRefused(s) ==
  /\ SenderAt(s, "answer") /\ request.state = "refused" /\ request' = NoRequest
  /\ ItemOver(s) /\ sending' = Nobody
  /\ UNCHANGED <<obsClock, link, nextAt, onScreen>>

\* No answer in time, the sink is closed, or the connection broke: though an
\* answer may be there too.
NoAnswer(s) ==
  /\ SenderAt(s, "answer") /\ request' = NoRequest /\ link' = "none" /\ SendLater(s)
  /\ UNCHANGED <<obsClock, nextAt, onScreen>>

\* Service.Close, which waits for the lock.
CloseObs ==
  /\ sending = Nobody /\ link # "none" /\ link' = "none"
  /\ UNCHANGED <<obsClock, sending, nextAt, request, sender, obsShown, onScreen>>

-----------------------------------------------------------------------------
(* OBS and the network (external) *)

ObsHandles ==
  /\ request.state = "sent"
  /\ \/ request' = [request EXCEPT !.state = "refused"] /\ UNCHANGED obsShown
     \/ request' = [state |-> "shown", at |-> obsClock]
        /\ obsShown' = [obsShown EXCEPT ![sending] = Append(@, sender[sending].done + 1)]
  /\ UNCHANGED <<obsClock, sending, link, nextAt, sender, onScreen>>

\* The answer already read stays; one on its way is lost.
LinkBreaks ==
  /\ link = "up" /\ link' = "broken"
  /\ \/ UNCHANGED request
     \/ request.state # "none" /\ request' = [state |-> "lost", at |-> request.at]
  /\ UNCHANGED <<obsClock, sending, nextAt, sender, obsShown, onScreen>>

ObsTicks ==
  /\ obsClock < MaxObsTime /\ obsClock' = obsClock + 1
  /\ UNCHANGED <<sending, link, nextAt, request, sender, obsShown, onScreen>>

ObsNext ==
  \/ \E s \in ObsSenders :
       \/ SendItem(s) \/ GiveUpItem(s) \/ GapPasses(s) \/ GapCancelled(s) \/ ObsConnect(s)
       \/ WriteRequest(s) \/ AnswerShown(s) \/ AnswerRefused(s) \/ NoAnswer(s)
  \/ CloseObs \/ ObsHandles \/ LinkBreaks \/ ObsTicks
ObsSpec == ObsInit /\ [][ObsNext]_obsVars

-----------------------------------------------------------------------------
(* What holds *)

\* "each for at least minGap": what OBS shows does not come sooner after the
\* caption before that OBS said it shows, whoever sent that.
GapKept == request.state = "shown" => request.at >= onScreen + MinGap

\* A retry goes on where OBS stopped: the cues counted as shown were, and of
\* the ones OBS showed none was left out or came before an earlier one.
NoneSkipped ==
  \A s \in ObsSenders :
    /\ \A cue \in 1 .. sender[s].done : \E i \in DOMAIN obsShown[s] : obsShown[s][i] = cue
    /\ \A i \in 1 .. Len(obsShown[s]) - 1 : obsShown[s][i + 1] - obsShown[s][i] \in {0, 1}

\* What viewers see through the one OBS that several sessions share.
ShownInTurn == GapKept /\ NoneSkipped

(* What the code says and does not hold *)

\* send: "so a retry doesn't repeat them".  What OBS shows but does not say
\* so in time is shown again.
NoneRepeated == \A s \in ObsSenders : \A i, j \in DOMAIN obsShown[s] : obsShown[s][i] = obsShown[s][j] => i = j
=============================================================================
