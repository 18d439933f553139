----------------------------- MODULE ServiceProofs -----------------------------
(***************************************************************************)
(* What the services around a session promise: AdminEvents, for any number *)
(* of publishers, any size of the channel and any number of changes and    *)
(* connections; AdminLogin, for any number of requests, PINs and times;    *)
(* ObsCaptions, for any number of senders and cues, any gaps and any       *)
(* length of a run; ModelDownloads, for any number of requests, blocks,    *)
(* attempts, downloads and restarts; SecretsFile, for any callers, names,  *)
(* failures, crashes and power losses; TlsCertificates, for any validity   *)
(* of the certificates, any number of refreshes, failures, restarts and    *)
(* versions of the operator's files; Translators, for any calls, models,   *)
(* keys, retries and times; and TranslateFanout, for any targets,          *)
(* languages, captions, texts and failures.                                *)
(***************************************************************************)
EXTENDS AdminEvents, AdminLogin, ObsCaptions, ModelDownloads, SecretsFile, TlsCertificates,
  Translators, TranslateFanout, FiniteSetTheorems, SequenceTheorems, TLAPS

-----------------------------------------------------------------------------
(* AdminEvents and AdminLogin *)

AdminTypeOK ==
  /\ status \in Nat /\ published \in Int /\ snapshot \in Int /\ page \in Int
  /\ read \in [Publishers -> Int]
  /\ events \in Seq(Int)
  /\ subscribed \in BOOLEAN

\* No status is published before it was taken.
TakenBefore == published <= status /\ \A p \in Publishers : read[p] <= status

\* What the page is shown last, once it has read what its channel holds, is not
\* behind what was published last.
LastRead ==
  subscribed =>
    /\ events # <<>> => events[Len(events)] = published
    /\ events = <<>> /\ handler = "writing" => snapshot >= published
    /\ events = <<>> /\ handler = "listening" => page >= published

AdminInv == AdminTypeOK /\ TakenBefore /\ LastRead

\* Publish gives a subscriber the status or removes it.
LEMMA PublishKeeps ==
  ASSUME AdminInv, NEW p \in Publishers, Publish(p)
  PROVE  AdminInv'
<1> USE AdminAssumption DEF AdminAssumption, AdminInv
<1>1. /\ read[p] \in Int /\ read[p] <= status /\ published' = read[p]
      /\ read' = [read EXCEPT ![p] = -1] /\ read[p] # -1
      /\ UNCHANGED <<status, handler, snapshot, page>>
  BY DEF Publish, AdminTypeOK, TakenBefore
<1>2. CASE subscribed /\ Len(events) < EventBuffer
  <2>1. events' = Append(events, read[p]) BY <1>2 DEF Publish
  <2>2. /\ events' \in Seq(Int) /\ events' # <<>> /\ events'[Len(events')] = read[p]
    BY SMTT(30), <1>1, <2>1 DEF AdminTypeOK
  <2>3. subscribed' \in BOOLEAN BY <1>2 DEF Publish, StaysSubscribed
  <2>4. AdminTypeOK' BY <1>1, <2>2, <2>3 DEF AdminTypeOK
  <2>5. LastRead' BY <1>1, <2>2 DEF LastRead
  <2>6. TakenBefore' BY <1>1 DEF TakenBefore, AdminTypeOK
  <2> QED BY <2>4, <2>5, <2>6
<1>3. CASE ~(subscribed /\ Len(events) < EventBuffer)
  <2>1. events' = events /\ subscribed' = FALSE BY <1>3 DEF Publish, StaysSubscribed, AdminTypeOK
  <2>4. subscribed' \in BOOLEAN BY <2>1
  <2>2. AdminTypeOK' BY <1>1, <2>1, <2>4 DEF AdminTypeOK
  <2>3. TakenBefore' BY <1>1 DEF TakenBefore, AdminTypeOK
  <2> QED BY <2>1, <2>2, <2>3 DEF LastRead
<1> QED BY <1>2, <1>3

\* The handler takes the oldest event; the last one leaves the channel empty.
LEMMA WriteEventKeeps ==
  ASSUME AdminInv, WriteEvent
  PROVE  AdminInv'
<1> USE DEF AdminInv
<1>1. /\ events \in Seq(Int) /\ events # <<>> /\ events' = Tail(events) /\ page' = Head(events)
      /\ UNCHANGED <<status, read, published, subscribed, handler, snapshot>>
  BY DEF WriteEvent, AdminTypeOK
<1>2. events' \in Seq(Int) /\ page' \in Int BY <1>1
<1>0. Len(events) \in Nat \ {0} /\ Len(events') = Len(events) - 1 /\ page' = events[1] BY <1>1
<1>3. events' = <<>> => page' = events[Len(events)] BY <1>0
<1>4. events' # <<>> => events'[Len(events')] = events[Len(events)] BY <1>1
<1>5. AdminTypeOK' /\ TakenBefore' BY <1>1, <1>2 DEF AdminTypeOK, TakenBefore
<1>6. LastRead'
  <2>1. SUFFICES ASSUME subscribed PROVE
          /\ events' # <<>> => events'[Len(events')] = published
          /\ events' = <<>> => page' >= published /\ handler # "writing"
    BY <1>1 DEF LastRead
  <2>2. events[Len(events)] = published /\ handler = "listening" BY <1>1, <2>1 DEF LastRead, WriteEvent
  <2> QED BY <1>3, <1>4, <2>2 DEF AdminTypeOK
<1> QED BY <1>5, <1>6

\* Every other step keeps it too.
LEMMA AdminInvNext == AdminInv /\ [AdminNext]_adminVars => AdminInv'
<1> SUFFICES ASSUME AdminInv, [AdminNext]_adminVars PROVE AdminInv'
  OBVIOUS
<1> USE DEF AdminInv, AdminTypeOK, TakenBefore, LastRead
<1>1. CASE StatusChanges BY <1>1 DEF StatusChanges
<1>2. CASE CloseEvents BY <1>2 DEF CloseEvents
<1>3. ASSUME NEW p \in Publishers, ReadStatus(p) PROVE AdminInv'
  BY <1>3 DEF ReadStatus
<1>4. ASSUME NEW p \in Publishers, Publish(p) PROVE AdminInv'
  BY <1>4, PublishKeeps
<1>5. CASE Subscribe BY <1>5 DEF Subscribe
<1>6. CASE TakeSnapshot BY <1>6 DEF TakeSnapshot
<1>7. CASE WriteSnapshot BY <1>7 DEF WriteSnapshot
<1>8. CASE WriteEvent BY <1>8, WriteEventKeeps
<1>9. CASE Leave BY <1>9 DEF Leave
<1>10. CASE UNCHANGED adminVars BY <1>10 DEF adminVars
<1> QED
  BY <1>1, <1>2, <1>3, <1>4, <1>5, <1>6, <1>7, <1>8, <1>9, <1>10 DEF AdminNext

\* A page that stays subscribed and has read everything is not behind, however
\* publications, the snapshot and full channels interleave.
THEOREM PagesKeepUp == AdminSpec => []PageNotBehind
<1>1. AdminInit => AdminInv
  <2>1. AdminInit => subscribed \in BOOLEAN /\ ~subscribed BY DEF AdminInit
  <2>2. AdminInit => TakenBefore BY DEF AdminInit, TakenBefore
  <2> QED BY <2>1, <2>2 DEF AdminInit, AdminInv, AdminTypeOK, LastRead
<1>2. AdminInv => PageNotBehind
  BY DEF AdminInv, AdminTypeOK, LastRead, PageNotBehind
<1> QED BY <1>1, <1>2, AdminInvNext, PTL DEF AdminSpec

-----------------------------------------------------------------------------

Calls == [at : {"none", "hashed", "read", "purge", "create"}, pin : Pins \union {NoPin},
          now : Int, kind : {"setup", "login"}]
Rows == [token : Int, ends : Int]

AuthTypeOK ==
  /\ authClock \in Int /\ tokens \in Int /\ SessionTTL \in Int
  /\ pin \in Pins \union {NoPin}
  /\ call \in [LoginRequests -> Calls]
  /\ logins \subseteq Rows /\ handed \subseteq Rows

\* Nobody gets past its own check before a PIN is stored, and a setup that got
\* there stored its own.
SetupsStored ==
  /\ \A r \in LoginRequests : call[r].at # "none" => call[r].pin # NoPin
  /\ \A r \in LoginRequests : call[r].at \in {"purge", "create"} =>
       pin # NoPin /\ (call[r].kind = "setup" => call[r].pin = pin)
  /\ pin = NoPin => setUp = {}

\* A row goes by logout or once its end has come, which stays so.
RowsKept ==
  /\ logins \subseteq handed
  /\ \A login \in handed : login.ends > authClock => login \in logins

AuthInv == AuthTypeOK /\ SetupsStored /\ OneSetup /\ RowsKept

USE DEF CallAt, CallGoes, Answer, NoCall, Calls

\* The invariant holds at the beginning.
LEMMA AuthInvInit == AuthInit => AuthInv
BY LoginAssumption DEF AuthInit, AuthInv, AuthTypeOK, SetupsStored, OneSetup, RowsKept, Rows

\* Every step of a request, of the clock and every logout keeps it.
LEMMA AuthInvNext == AuthInv /\ [AuthNext]_authVars => AuthInv'
<1> SUFFICES ASSUME AuthInv, [AuthNext]_authVars PROVE AuthInv'
  OBVIOUS
<1> USE LoginAssumption DEF AuthInv
<1>1. ASSUME NEW r \in LoginRequests, BeginSetup(r) PROVE AuthInv'
  <2>1. PICK p \in Pins : call' = [call EXCEPT ![r] =
             [at |-> "hashed", pin |-> p, now |-> 0, kind |-> "setup"]]
    BY <1>1 DEF BeginSetup
  <2>2. AuthTypeOK' BY <1>1, <2>1 DEF BeginSetup, AuthTypeOK
  <2>3. SetupsStored' /\ OneSetup' /\ RowsKept'
    BY <1>1, <2>1 DEF BeginSetup, AuthTypeOK, SetupsStored, OneSetup, RowsKept
  <2> QED BY <2>2, <2>3
<1>2. ASSUME NEW r \in LoginRequests, StorePin(r) PROVE AuthInv'
  <2>1. AuthTypeOK' BY <1>2 DEF StorePin, AuthTypeOK
  <2>2. SetupsStored' BY <1>2 DEF StorePin, FirstPin, AuthTypeOK, SetupsStored
  <2>3. OneSetup' /\ RowsKept'
    BY <1>2 DEF StorePin, FirstPin, SetupsStored, OneSetup, RowsKept
  <2> QED BY <2>1, <2>2, <2>3
<1>3. ASSUME NEW r \in LoginRequests, BeginLogin(r) PROVE AuthInv'
  <2>1. AuthTypeOK' BY <1>3 DEF BeginLogin, AuthTypeOK
  <2>2. SetupsStored' /\ OneSetup' /\ RowsKept'
    BY <1>3 DEF BeginLogin, AuthTypeOK, SetupsStored, OneSetup, RowsKept
  <2> QED BY <2>1, <2>2
<1>4. ASSUME NEW r \in LoginRequests, VerifyPin(r) PROVE AuthInv'
  <2>1. AuthTypeOK' BY <1>4 DEF VerifyPin, AuthTypeOK
  <2>2. SetupsStored' BY <1>4 DEF VerifyPin, AuthTypeOK, SetupsStored
  <2>3. OneSetup' /\ RowsKept' BY <1>4 DEF VerifyPin, OneSetup, RowsKept
  <2> QED BY <2>1, <2>2, <2>3
<1>5. ASSUME NEW r \in LoginRequests, Purge(r) PROVE AuthInv'
  <2>1. AuthTypeOK' BY ZenonT(40), <1>5 DEF Purge, AuthTypeOK
  <2>2. SetupsStored' /\ OneSetup'
    BY <1>5 DEF Purge, AuthTypeOK, SetupsStored, OneSetup
  <2>3. RowsKept'
    BY <1>5 DEF Purge, Expired, AuthTypeOK, Rows, RowsKept
  <2> QED BY <2>1, <2>2, <2>3
<1>6. ASSUME NEW r \in LoginRequests, Create(r) PROVE AuthInv'
  <2>1. AuthTypeOK' BY <1>6 DEF Create, AuthTypeOK, Rows
  <2>2. SetupsStored' /\ OneSetup'
    BY <1>6 DEF Create, AuthTypeOK, SetupsStored, OneSetup
  <2>3. RowsKept'
    BY <1>6 DEF Create, RowsKept
  <2> QED BY <2>1, <2>2, <2>3
<1>7. CASE Logout
  BY <1>7 DEF Logout, AuthTypeOK, SetupsStored, OneSetup, RowsKept
<1>8. CASE AuthTicks
  BY <1>8 DEF AuthTicks, AuthTypeOK, SetupsStored, OneSetup, RowsKept, Rows
<1>9. CASE UNCHANGED authVars
  BY <1>9 DEF authVars, AuthTypeOK, SetupsStored, OneSetup, RowsKept
<1> QED
  BY <1>1, <1>2, <1>3, <1>4, <1>5, <1>6, <1>7, <1>8, <1>9 DEF AuthNext

\* Only one setup is answered as the first, its PIN is the one that logs in, and
\* a cookie works from its answer to its end or its logout: whatever setups and
\* logins cross each other in Setup, Login and newSession.
THEOREM LoginsAlwaysHold == AuthSpec => []LoginsHold
<1>1. AuthInv => LoginsHold
  BY DEF AuthInv, AuthTypeOK, Rows, RowsKept, LoginsHold, CookiesWork, AdminSessionValid
<1> QED BY <1>1, AuthInvInit, AuthInvNext, PTL DEF AuthSpec

-----------------------------------------------------------------------------
(* ObsCaptions *)

Places == {"idle", "gap", "caption", "answer"}
Senders == [at : Places, item : Int, done : Int, step : CueSteps]

ObsTypeOK ==
  /\ obsClock \in Int /\ nextAt \in Int /\ onScreen \in Int
  /\ sending \in ObsSenders \union {Nobody}
  /\ link \in {"none", "up", "broken"}
  /\ request \in [state : {"none", "sent", "lost", "refused", "shown"}, at : Int]
  /\ sender \in [ObsSenders -> Senders]
  /\ obsShown \in [ObsSenders -> Seq(Int)]

\* Only the sender that holds the lock is on its way, and only one that waits
\* for an answer has a request.
OneSends ==
  /\ \A s \in ObsSenders : sender[s].at # "idle" => sending = s
  /\ request.state # "none" => sending \in ObsSenders /\ sender[sending].at = "answer"

\* Nobody asks before nextAt, which leaves the last caption its time.
GapFirst ==
  /\ nextAt >= onScreen + MinGap
  /\ \A s \in ObsSenders : sender[s].at \in {"caption", "answer"} => obsClock >= nextAt
  /\ request.state = "shown" => request.at >= nextAt /\ request.at <= obsClock

\* The last cue OBS showed of an item is the last counted or the one after it,
\* which it is while the answer to it is waited for.
Last(s) == obsShown[s][Len(obsShown[s])]
LastShown ==
  /\ \A s \in ObsSenders :
       IF obsShown[s] = <<>> THEN sender[s].done = 0
       ELSE Last(s) \in {sender[s].done, sender[s].done + 1}
  /\ request.state = "shown" =>
       obsShown[sending] # <<>> /\ Last(sending) = sender[sending].done + 1

ObsInv == ObsTypeOK /\ OneSends /\ GapFirst /\ LastShown /\ NoneSkipped

\* Every gap the code computes is at least minGap.
LEMMA GapLongEnough ==
  ASSUME ObsTypeOK, NEW s \in ObsSenders
  PROVE  GapAfter(s) \in Int /\ GapAfter(s) >= MinGap
<1> DEFINE step == sender[s].step
           longer == Max({step, MinGap})
<1>0. sender[s] \in Senders
  BY DEF ObsTypeOK
<1>1a. MinGap \in Int /\ MaxGap \in Int /\ MinGap <= MaxGap
  BY ObsAssumption DEF ObsAssumption
<1>1b. step \in CueSteps
  BY <1>0 DEF Senders
<1>1. step \in Int /\ MinGap \in Int /\ MaxGap \in Int /\ MinGap <= MaxGap
  BY <1>1a, <1>1b, ObsAssumption DEF ObsAssumption
<1> HIDE DEF step
<1>2. longer \in Int /\ longer >= MinGap
  BY <1>1 DEF Max
<1> HIDE DEF longer
<1>3. Min({longer, MaxGap}) \in Int /\ Min({longer, MaxGap}) >= MinGap
  BY <1>1, <1>2 DEF Min
<1> QED BY <1>1, <1>3 DEF GapAfter, Follows, longer, step

\* The invariant holds at the beginning.
LEMMA ObsInvInit == ObsInit => ObsInv
BY ObsAssumption DEF ObsInit, ObsInv, ObsTypeOK, OneSends, GapFirst, LastShown, NoneSkipped,
  NewItem, NoRequest, Never, Senders, Places

\* The sender on its way is alone, and OBS is asked nothing before it waits.
LEMMA OneOnItsWay ==
  ASSUME ObsInv, NEW s \in ObsSenders, sender[s].at # "idle"
  PROVE  /\ sending = s /\ s # Nobody
         /\ \A q \in ObsSenders : q # s => sender[q].at = "idle"
         /\ sender[s].at # "answer" => request.state = "none"
BY ObsAssumption DEF ObsAssumption, ObsInv, OneSends

\* The next item of a sender begins with nothing shown.
LEMMA ItemOverType ==
  ASSUME ObsTypeOK, NEW s \in ObsSenders, ItemOver(s)
  PROVE  /\ sender' \in [ObsSenders -> Senders] /\ obsShown' \in [ObsSenders -> Seq(Int)]
         /\ sender'[s].at = "idle" /\ sender'[s].done = 0 /\ obsShown'[s] = <<>>
         /\ \A q \in ObsSenders : q # s => sender'[q] = sender[q] /\ obsShown'[q] = obsShown[q]
<1>1. PICK step \in CueSteps : sender' = [sender EXCEPT ![s] =
           [at |-> "idle", item |-> sender[s].item + 1, done |-> 0, step |-> step]]
  BY DEF ItemOver, NewItem
<1> QED BY <1>1 DEF ItemOver, ObsTypeOK, Senders, Places

\* A sender that only goes elsewhere stays with its item.
LEMMA SenderGoesType ==
  ASSUME ObsTypeOK, NEW s \in ObsSenders, NEW place \in Places, SenderGoes(s, place)
  PROVE  /\ sender' \in [ObsSenders -> Senders] /\ sender'[s].at = place
         /\ \A q \in ObsSenders : q # s => sender'[q] = sender[q]
         /\ \A q \in ObsSenders : sender'[q].done = sender[q].done
BY DEF ObsTypeOK, SenderGoes, Senders, Places

\* An item that is over keeps what is known of the other senders' items.
LEMMA ItemOverKeeps ==
  ASSUME ObsInv, NEW s \in ObsSenders, ItemOver(s)
  PROVE  NoneSkipped'
         /\ \A q \in ObsSenders : IF obsShown'[q] = <<>> THEN sender'[q].done = 0
                                  ELSE Last(q)' \in {sender'[q].done, sender'[q].done + 1}
<1>1. ObsTypeOK BY DEF ObsInv
<1>2. \A q \in ObsSenders : q # s => sender'[q] = sender[q] /\ obsShown'[q] = obsShown[q]
  BY <1>1, ItemOverType
<1>3. sender'[s].done = 0 /\ obsShown'[s] = <<>>
  BY <1>1, ItemOverType
<1> QED BY SMTT(30), <1>2, <1>3 DEF ObsInv, NoneSkipped, LastShown, Last

\* Every step of a sender, of OBS and of the network keeps it.
LEMMA ObsInvNext == ObsInv /\ [ObsNext]_obsVars => ObsInv'
<1> SUFFICES ASSUME ObsInv, [ObsNext]_obsVars PROVE ObsInv'
  OBVIOUS
<1> USE ObsAssumption DEF ObsAssumption, ObsInv
<1>1. ASSUME NEW s \in ObsSenders, SendItem(s) PROVE ObsInv'
  <2>0. SenderGoes(s, "gap") /\ "gap" \in Places BY <1>1 DEF SendItem, Places
  <2>1. ObsTypeOK' BY <1>1, <2>0, SenderGoesType DEF SendItem, ObsTypeOK
  <2>2. OneSends' /\ GapFirst'
    BY <1>1 DEF SendItem, SenderAt, SenderGoes, ObsTypeOK, OneSends, GapFirst
  <2>3. LastShown' /\ NoneSkipped'
    BY SMTT(30), <1>1 DEF SendItem, SenderAt, SenderGoes, ObsTypeOK, OneSends, LastShown, Last, NoneSkipped
  <2> QED BY <2>1, <2>2, <2>3
<1>2. ASSUME NEW s \in ObsSenders, GiveUpItem(s) PROVE ObsInv'
  <2> USE ItemOverType DEF GiveUpItem, SenderAt
  <2>1. ObsTypeOK' BY <1>2 DEF ObsTypeOK
  <2>2. OneSends' /\ GapFirst' BY <1>2 DEF ObsTypeOK, OneSends, GapFirst
  <2>3. LastShown' /\ NoneSkipped'
    BY ZenonT(40), <1>2, ItemOverKeeps DEF ObsTypeOK, OneSends, LastShown, Last
  <2> QED BY <2>1, <2>2, <2>3
<1>3. ASSUME NEW s \in ObsSenders, GapPasses(s) PROVE ObsInv'
  <2>0. SenderGoes(s, "caption") /\ "caption" \in Places BY <1>3 DEF GapPasses, Places
  <2>1. ObsTypeOK' BY <1>3, <2>0, SenderGoesType DEF GapPasses, ObsTypeOK
  <2>2. OneSends' /\ GapFirst'
    BY <1>3 DEF GapPasses, SenderAt, SenderGoes, ObsTypeOK, OneSends, GapFirst
  <2>3. LastShown' /\ NoneSkipped'
    BY SMTT(30), <1>3 DEF GapPasses, SenderAt, SenderGoes, ObsTypeOK, OneSends, LastShown, Last, NoneSkipped
  <2> QED BY <2>1, <2>2, <2>3
<1>4. ASSUME NEW s \in ObsSenders, GapCancelled(s) PROVE ObsInv'
  <2> USE ItemOverType, OneOnItsWay DEF GapCancelled, SenderAt
  <2>1. ObsTypeOK' BY <1>4 DEF ObsTypeOK
  <2>0. /\ sender[s].at # "idle" /\ request' = request /\ request.state = "none"
        /\ \A q \in ObsSenders : q # s => sender[q].at = "idle"
    BY <1>4
  <2>2. OneSends' BY SMTT(30), <1>4, <2>0 DEF OneSends
  <2>4. GapFirst' BY <1>4 DEF ObsTypeOK, GapFirst
  <2>3. LastShown' /\ NoneSkipped'
    BY <1>4, ItemOverKeeps DEF LastShown
  <2> QED BY <2>1, <2>2, <2>3, <2>4
<1>5. ASSUME NEW s \in ObsSenders, ObsConnect(s) PROVE ObsInv'
  <2> USE DEF ObsConnect, SenderAt
  <2>1. CASE ItemOver(s) /\ sending' = Nobody /\ UNCHANGED link
    <3> USE ItemOverType, OneOnItsWay
    <3>1. ObsTypeOK' BY <1>5, <2>1 DEF ObsTypeOK
    <3>0. /\ sender[s].at # "idle" /\ request' = request /\ request.state = "none"
          /\ \A q \in ObsSenders : q # s => sender[q].at = "idle"
      BY <1>5
    <3>2. OneSends' BY <2>1, <3>0 DEF OneSends
    <3>3. GapFirst' BY <1>5, <2>1 DEF ObsTypeOK, GapFirst
    <3>4. LastShown' /\ NoneSkipped'
      BY <1>5, <2>1, ItemOverKeeps DEF LastShown
    <3> QED BY <3>1, <3>2, <3>3, <3>4
  <2>2. CASE SendLater(s) /\ UNCHANGED link
    <3> USE <1>5, <2>2, SenderGoesType, OneOnItsWay DEF SendLater
    <3>0. "idle" \in Places BY DEF Places
    <3>1. ObsTypeOK' BY <3>0 DEF ObsTypeOK
    <3>2. OneSends' /\ GapFirst' BY <3>0 DEF ObsTypeOK, OneSends, GapFirst
    <3>3. LastShown' /\ NoneSkipped'
      BY <3>0 DEF LastShown, Last, NoneSkipped
    <3> QED BY <3>1, <3>2, <3>3
  <2>3. CASE link' = "up" /\ UNCHANGED <<sending, sender, obsShown>>
    BY <1>5, <2>3 DEF ObsTypeOK, OneSends, GapFirst, LastShown, Last, NoneSkipped
  <2> QED BY <1>5, <2>1, <2>2, <2>3
<1>6. ASSUME NEW s \in ObsSenders, WriteRequest(s) PROVE ObsInv'
  <2>0. /\ sender[s].at = "caption" /\ sending = s /\ request.state = "none"
        /\ \A q \in ObsSenders : q # s => sender[q].at = "idle"
    BY <1>6, OneOnItsWay DEF WriteRequest, SenderAt
  <2>1. PICK place \in {"answer", "idle"} :
           /\ SenderGoes(s, place) /\ obsShown' = obsShown /\ link' \in {link, "none"}
           /\ \/ place = "idle" /\ sending' = Nobody /\ request' = request
              \/ /\ place = "answer" /\ sending' = sending
                 /\ \E state \in {"sent", "lost"} : request' = [state |-> state, at |-> 0]
    BY <1>6 DEF WriteRequest, SendLater, NoRequest
  <2>2. ObsTypeOK /\ place \in Places BY DEF Places
  <2>3. /\ sender' \in [ObsSenders -> Senders] /\ sender'[s].at = place
        /\ \A q \in ObsSenders : q # s => sender'[q] = sender[q]
        /\ \A q \in ObsSenders : sender'[q].done = sender[q].done
    BY <2>1, <2>2, SenderGoesType
  <2>4. UNCHANGED <<obsClock, nextAt, onScreen>> BY <1>6 DEF WriteRequest
  <2>5. ObsTypeOK' BY <2>1, <2>3, <2>4 DEF ObsTypeOK
  <2>6. OneSends' BY <2>0, <2>1, <2>3 DEF OneSends
  <2>7. GapFirst' BY <2>0, <2>1, <2>3, <2>4 DEF GapFirst
  <2>8. request'.state # "shown" BY <2>0, <2>1
  <2>9. LastShown' BY <2>1, <2>3, <2>8 DEF LastShown, Last
  <2>10. NoneSkipped' BY <2>1, <2>3 DEF NoneSkipped
  <2> QED BY <2>5, <2>6, <2>7, <2>9, <2>10
<1>7. ASSUME NEW s \in ObsSenders, AnswerShown(s) PROVE ObsInv'
  <2>0. /\ GapAfter(s) \in Int /\ GapAfter(s) >= MinGap
        /\ sender[s].at = "answer" /\ sending = s /\ s # Nobody
        /\ \A q \in ObsSenders : q # s => sender[q].at = "idle"
    BY <1>7, GapLongEnough, OneOnItsWay DEF AnswerShown, SenderAt
  <2>1. /\ nextAt' \in Int /\ onScreen' \in Int /\ nextAt' >= onScreen' + MinGap
        /\ request' = [state |-> "none", at |-> 0] /\ obsClock' = obsClock /\ link' = link
    BY <1>7, <2>0 DEF AnswerShown, ObsTypeOK, GapFirst, NoRequest
  <2>2. CASE sender' = [sender EXCEPT ![s] = CueDone(s)]
             /\ UNCHANGED <<sending, obsShown>>
    <3>1. sender[s] \in Senders /\ obsShown[s] \in Seq(Int) BY <2>2 DEF ObsTypeOK
    <3>2. /\ sender' \in [ObsSenders -> Senders]
          /\ sender'[s].at = "gap" /\ sender'[s].done = sender[s].done + 1
          /\ \A q \in ObsSenders : q # s => sender'[q] = sender[q]
      BY <2>2, <3>1 DEF ObsTypeOK, Senders, Places, CueDone
    <3>3. ObsTypeOK' BY <2>1, <2>2, <3>2 DEF ObsTypeOK
    <3>4. OneSends' BY <2>0, <2>1, <2>2, <3>2 DEF OneSends
    <3>5. GapFirst' BY <2>0, <2>1, <2>2, <3>2 DEF GapFirst
    <3>6. obsShown[s] # <<>> /\ Last(s) = sender[s].done + 1
      BY <1>7, <2>0 DEF LastShown, AnswerShown
    <3>7. LastShown'
      BY <2>1, <2>2, <3>2, <3>6 DEF LastShown, Last
    <3>8. Len(obsShown[s]) \in DOMAIN obsShown[s] BY <3>1, <3>6
    <3>9. sender[s].done \in Int BY <3>1 DEF Senders
    <3>10. \A cue \in 1 .. sender[s].done + 1 :
             cue \in 1 .. sender[s].done \/ cue = sender[s].done + 1
      BY <3>9
    <3>11. \A cue \in 1 .. sender[s].done + 1 :
             \E i \in DOMAIN obsShown[s] : obsShown[s][i] = cue
      BY <3>6, <3>8, <3>10 DEF NoneSkipped, Last
    <3>12. NoneSkipped' BY <2>2, <3>2, <3>11 DEF NoneSkipped
    <3> QED BY <3>3, <3>4, <3>5, <3>7, <3>12
  <2>3. CASE ItemOver(s) /\ sending' = Nobody
    <3>1. ObsTypeOK' BY <2>1, <2>3, ItemOverType DEF ObsTypeOK
    <3>0. /\ sender'[s].at = "idle" /\ request'.state = "none"
          /\ \A q \in ObsSenders : q # s => sender'[q] = sender[q]
      BY <2>1, <2>3, ItemOverType
    <3>2. OneSends' BY <2>0, <3>0 DEF OneSends
    <3>3. GapFirst' BY <2>0, <2>1, <2>3, ItemOverType DEF GapFirst
    <3>4. LastShown' /\ NoneSkipped' BY <2>1, <2>3, ItemOverKeeps DEF LastShown
    <3> QED BY <3>1, <3>2, <3>3, <3>4
  <2> QED BY <1>7, <2>2, <2>3 DEF AnswerShown
<1>8. ASSUME NEW s \in ObsSenders, AnswerRefused(s) PROVE ObsInv'
  <2>1. /\ sending' = Nobody /\ request' = [state |-> "none", at |-> 0]
        /\ ItemOver(s) /\ UNCHANGED <<obsClock, link, nextAt, onScreen>>
        /\ \A q \in ObsSenders : q # s => sender[q].at = "idle"
    BY <1>8, OneOnItsWay DEF AnswerRefused, SenderAt, NoRequest
  <2>2. ObsTypeOK' BY <2>1, ItemOverType DEF ObsTypeOK
  <2>0. /\ sender'[s].at = "idle" /\ request'.state = "none"
        /\ \A q \in ObsSenders : q # s => sender'[q] = sender[q]
    BY <2>1, ItemOverType
  <2>3. OneSends' BY <2>0, <2>1 DEF OneSends
  <2>4. GapFirst' BY <2>1, ItemOverType DEF GapFirst
  <2>5. LastShown' /\ NoneSkipped' BY <2>1, ItemOverKeeps DEF LastShown
  <2> QED BY <2>2, <2>3, <2>4, <2>5
<1>9. ASSUME NEW s \in ObsSenders, NoAnswer(s) PROVE ObsInv'
  <2>1. /\ sending' = Nobody /\ request' = [state |-> "none", at |-> 0] /\ link' = "none"
        /\ SenderGoes(s, "idle") /\ UNCHANGED <<obsClock, nextAt, onScreen, obsShown>>
        /\ \A q \in ObsSenders : q # s => sender[q].at = "idle"
    BY <1>9, OneOnItsWay DEF NoAnswer, SendLater, SenderAt, NoRequest
  <2>2. ObsTypeOK /\ "idle" \in Places BY DEF Places
  <2>3. /\ sender' \in [ObsSenders -> Senders] /\ sender'[s].at = "idle"
        /\ \A q \in ObsSenders : q # s => sender'[q] = sender[q]
        /\ \A q \in ObsSenders : sender'[q].done = sender[q].done
    BY <2>1, <2>2, SenderGoesType
  <2>4. ObsTypeOK' BY <2>1, <2>3 DEF ObsTypeOK
  <2>5. OneSends' BY <2>1, <2>3 DEF OneSends
  <2>6. GapFirst' BY <2>1, <2>3 DEF GapFirst
  <2>7. LastShown' /\ NoneSkipped' BY <2>1, <2>3 DEF LastShown, Last, NoneSkipped
  <2> QED BY <2>4, <2>5, <2>6, <2>7
<1>10. CASE ObsHandles
  <2> USE <1>10 DEF ObsHandles
  <2>1. CASE request' = [request EXCEPT !.state = "refused"] /\ UNCHANGED obsShown
    BY SMTT(30), <2>1 DEF ObsTypeOK, OneSends, GapFirst, LastShown, Last, NoneSkipped
  <2>2. CASE /\ request' = [state |-> "shown", at |-> obsClock]
             /\ obsShown' = [obsShown EXCEPT ![sending] = Append(@, sender[sending].done + 1)]
    <3>1. sending \in ObsSenders /\ sender[sending].at = "answer" /\ sender[sending].done \in Int
      BY DEF OneSends, ObsTypeOK, Senders
    <3>2. ObsTypeOK' BY <2>2, <3>1 DEF ObsTypeOK
    <3>3. OneSends' /\ GapFirst' BY <2>2, <3>1 DEF ObsTypeOK, OneSends, GapFirst
    <3>4. /\ obsShown'[sending] = Append(obsShown[sending], sender[sending].done + 1)
          /\ obsShown[sending] \in Seq(Int)
          /\ \A q \in ObsSenders : q # sending => obsShown'[q] = obsShown[q]
      BY <2>2, <3>1 DEF ObsTypeOK
    <3>5. /\ obsShown'[sending] # <<>> /\ Len(obsShown'[sending]) = Len(obsShown[sending]) + 1
          /\ obsShown'[sending][Len(obsShown'[sending])] = sender[sending].done + 1
          /\ \A i \in 1 .. Len(obsShown[sending]) : obsShown'[sending][i] = obsShown[sending][i]
      BY <3>4
    <3>6. LastShown' BY <2>2, <3>1, <3>4, <3>5 DEF LastShown, Last
    <3>7. ASSUME NEW q \in ObsSenders
          PROVE  /\ \A cue \in 1 .. sender'[q].done : \E i \in DOMAIN obsShown'[q] : obsShown'[q][i] = cue
                 /\ \A i \in 1 .. Len(obsShown'[q]) - 1 : obsShown'[q][i + 1] - obsShown'[q][i] \in {0, 1}
      <4>0. sender' = sender BY DEF ObsHandles
      <4>1. CASE q # sending
        <5>1. sender'[q] = sender[q] /\ obsShown'[q] = obsShown[q] BY <3>4, <4>0, <4>1
        <5> QED BY <5>1 DEF NoneSkipped
      <4>2. CASE q = sending
        <5> DEFINE old == obsShown[sending]
                   new == obsShown'[sending]
        <5>1. old \in Seq(Int) /\ new = Append(old, sender[sending].done + 1) BY <3>4
        <5>2. \A cue \in 1 .. sender[sending].done : \E i \in DOMAIN old : old[i] = cue
          BY <3>1 DEF NoneSkipped
        <5>3. \A i \in 1 .. Len(old) - 1 : old[i + 1] - old[i] \in {0, 1}
          BY <3>1 DEF NoneSkipped
        <5>4. old # <<>> => old[Len(old)] \in {sender[sending].done, sender[sending].done + 1}
          BY <3>1 DEF LastShown, Last
        <5>5. DOMAIN old = 1 .. Len(old) /\ DOMAIN new = 1 .. Len(new) /\ Len(old) \in Nat
              /\ Len(new) = Len(old) + 1 /\ new[Len(new)] = sender[sending].done + 1
              /\ \A i \in 1 .. Len(old) : new[i] = old[i]
          BY <3>5, <5>1
        <5> HIDE DEF old, new
        <5>6. \A cue \in 1 .. sender[sending].done : \E i \in DOMAIN new : new[i] = cue
          BY <5>2, <5>5
        <5>7. ASSUME NEW i \in 1 .. Len(new) - 1 PROVE new[i + 1] - new[i] \in {0, 1}
          <6>1. CASE i < Len(old) BY <6>1, <5>3, <5>5
          <6>2. CASE i = Len(old)
            <7>1. old # <<>> BY <6>2, <5>1
            <7> QED BY <6>2, <7>1, <3>1, <5>4, <5>5
          <6> QED BY <6>1, <6>2, <5>5
        <5> QED BY <4>0, <4>2, <5>6, <5>7 DEF new
      <4> QED BY <4>1, <4>2
    <3>8. NoneSkipped' BY <3>7 DEF NoneSkipped
    <3> QED BY <3>2, <3>3, <3>6, <3>8
  <2> QED BY <2>1, <2>2
<1>11. CASE CloseObs \/ LinkBreaks
  <2>1. /\ UNCHANGED <<obsClock, sending, nextAt, sender, obsShown, onScreen>>
        /\ link' \in {"none", "broken"}
        /\ \/ request' = request
           \/ /\ request.state # "none"
              /\ request' = [state |-> "lost", at |-> request.at]
    <3>1. CASE CloseObs BY <3>1 DEF CloseObs, ObsTypeOK
    <3>2. CASE LinkBreaks BY <3>2 DEF LinkBreaks, ObsTypeOK
    <3> QED BY <1>11, <3>1, <3>2
  <2>2. ObsTypeOK' BY <2>1 DEF ObsTypeOK
  <2>3. \/ request' = request
        \/ request.state # "none" /\ request'.state = "lost"
    BY <2>1 DEF ObsTypeOK
  <2>4. OneSends' BY <2>1, <2>3 DEF OneSends
  <2>5. GapFirst' BY <2>1, <2>3 DEF GapFirst
  <2>6. LastShown' /\ NoneSkipped' BY <2>1, <2>3 DEF LastShown, Last, NoneSkipped
  <2> QED BY <2>2, <2>4, <2>5, <2>6
<1>12. CASE ObsTicks
  BY <1>12 DEF ObsTicks, ObsTypeOK, OneSends, GapFirst, LastShown, Last, NoneSkipped
<1>13. CASE UNCHANGED obsVars
  BY <1>13 DEF obsVars, ObsTypeOK, OneSends, GapFirst, LastShown, Last, NoneSkipped
<1> QED
  BY <1>1, <1>2, <1>3, <1>4, <1>5, <1>6, <1>7, <1>8, <1>9, <1>10, <1>11, <1>12, <1>13
  DEF ObsNext

\* Captions that several sessions send through one OBS each stay for minGap, and
\* timeouts, lost connections and retries neither leave a cue out nor go back.
THEOREM AlwaysShownInTurn == ObsSpec => []ShownInTurn
<1>1. ObsInv => ShownInTurn
  BY ObsAssumption DEF ObsInv, ObsTypeOK, GapFirst, ShownInTurn, GapKept
<1> QED BY <1>1, ObsInvInit, ObsInvNext, PTL DEF ObsSpec

-----------------------------------------------------------------------------
(* ModelDownloads *)

Runs == 1 .. MaxFetches
FetchPlaces == {"none", "opening", "requesting", "receiving", "verifying", "renaming", "finishing"}

ModelTypeOK ==
  /\ fetches \in Nat
  /\ part \in [blocks : Int, wrong : BOOLEAN]
  /\ fetch \in [Runs -> [at : FetchPlaces, attempt : Int, failed : BOOLEAN]]

Working(d) == fetch[d].at # "none"
OneWriter == \A d, e \in Runs : Working(d) /\ Working(e) => d = e
JobIsIts == \A d \in Runs : Working(d) => job \in {"downloading", "verifying"}

\* What waits for its name was verified: nobody else writes into it since.
Verified == \A d \in Runs : fetch[d].at = "renaming" => ~part.wrong /\ part.blocks = ModelBlocks

ModelInv == ModelTypeOK /\ OneWriter /\ JobIsIts /\ Verified /\ named # "broken"

\* A step of one goroutine that stays a goroutine, with the job still its own:
\* the others do not work, so nothing of theirs can change.
LEMMA OneGoesOn ==
  ASSUME ModelInv, NEW d \in Runs, Working(d),
         fetch' \in [Runs -> [at : FetchPlaces, attempt : Int, failed : BOOLEAN]],
         \A e \in Runs : e # d => fetch'[e] = fetch[e],
         fetches' = fetches, part' \in [blocks : Int, wrong : BOOLEAN], named' # "broken",
         job' \in {"downloading", "verifying"},
         fetch'[d].at = "renaming" => ~part'.wrong /\ part'.blocks = ModelBlocks
  PROVE  ModelInv'
<1>1. \A e \in Runs : e # d => fetch[e].at = "none"
  BY DEF ModelInv, OneWriter, Working
<1>2. \A e \in Runs : e # d => fetch'[e].at = "none"
  BY <1>1
<1>3. ModelTypeOK' BY DEF ModelInv, ModelTypeOK
<1>4. OneWriter' /\ JobIsIts' BY <1>2 DEF OneWriter, JobIsIts, Working
<1>5. Verified' BY <1>2 DEF Verified
<1> QED BY <1>3, <1>4, <1>5 DEF ModelInv

\* A goroutine that goes to a place, fails or tries again.
LEMMA FetchSteps ==
  ASSUME ModelTypeOK, NEW d \in Runs,
         \/ \E place \in FetchPlaces : FetchTo(d, place)
         \/ Fails(d)
         \/ TryAgain(d)
  PROVE  /\ fetch' \in [Runs -> [at : FetchPlaces, attempt : Int, failed : BOOLEAN]]
         /\ \A e \in Runs : e # d => fetch'[e] = fetch[e]
         /\ \A place \in FetchPlaces : FetchTo(d, place) => fetch'[d].at = place
         /\ Fails(d) \/ TryAgain(d) => fetch'[d].at \in {"finishing", "opening"}
<1> DEFINE Rec == [at : FetchPlaces, attempt : Int, failed : BOOLEAN]
<1>1. fetch \in [Runs -> Rec] /\ fetch[d] \in Rec BY DEF ModelTypeOK
<1>2. ASSUME NEW place \in FetchPlaces, FetchTo(d, place)
      PROVE  fetch' \in [Runs -> Rec] /\ fetch'[d].at = place
             /\ \A e \in Runs : e # d => fetch'[e] = fetch[e]
  BY <1>1, <1>2 DEF FetchTo
<1>3. ASSUME Fails(d)
      PROVE  fetch' \in [Runs -> Rec] /\ fetch'[d].at = "finishing"
             /\ \A e \in Runs : e # d => fetch'[e] = fetch[e]
  BY <1>1, <1>3 DEF Fails, FetchPlaces
<1>4. ASSUME TryAgain(d)
      PROVE  fetch' \in [Runs -> Rec] /\ fetch'[d].at \in {"finishing", "opening"}
             /\ \A e \in Runs : e # d => fetch'[e] = fetch[e]
  <2>1. CASE fetch[d].attempt < MaxAttempts /\ ~shut
    <3>1. fetch' = [fetch EXCEPT ![d].at = "opening", ![d].attempt = @ + 1]
      BY <1>4, <2>1 DEF TryAgain
    <3> QED BY <1>1, <3>1 DEF FetchPlaces
  <2>2. CASE ~(fetch[d].attempt < MaxAttempts /\ ~shut)
    BY <1>3, <1>4, <2>2 DEF TryAgain
  <2> QED BY <2>1, <2>2
<1> QED BY <1>2, <1>3, <1>4

\* Every step of a request, a goroutine or the server keeps it.
LEMMA ModelInvNext == ModelInv /\ [ModelNext]_modelVars => ModelInv'
<1> SUFFICES ASSUME ModelInv, [ModelNext]_modelVars PROVE ModelInv'
  OBVIOUS
<1> USE ModelAssumption DEF ModelAssumption
<1>0. ModelTypeOK BY DEF ModelInv
<1>1. ASSUME NEW r \in Downloaders, FirstCheck(r) \/ DiskCheck(r) PROVE ModelInv'
  BY <1>1 DEF FirstCheck, DiskCheck, ModelInv, ModelTypeOK, OneWriter, JobIsIts, Verified, Working
<1>2. ASSUME NEW r \in Downloaders, StartFetch(r) PROVE ModelInv'
  <2>1. CASE RaceLost
    BY <1>2, <2>1 DEF StartFetch, ModelInv, ModelTypeOK, OneWriter, JobIsIts, Verified, Working
  <2>2. CASE ~RaceLost
    <3> DEFINE new == fetches + 1
    <3>1. /\ new \in Runs /\ fetches' = new /\ job' = "downloading"
          /\ fetch' = [fetch EXCEPT ![new] = [at |-> "opening", attempt |-> 1, failed |-> FALSE]]
          /\ UNCHANGED <<part, named>>
      BY <1>0, <1>2, <2>2 DEF StartFetch, ModelTypeOK, Runs
    <3>2. \A d \in Runs : fetch[d].at = "none"
      BY <2>2 DEF RaceLost, Active, ModelInv, JobIsIts, Working
    <3>3. FALSE \in BOOLEAN OBVIOUS
    <3>4. /\ fetch' \in [Runs -> [at : FetchPlaces, attempt : Int, failed : BOOLEAN]]
          /\ fetch'[new].at = "opening" /\ \A e \in Runs : e # new => fetch'[e].at = "none"
      BY <1>0, <3>1, <3>2, <3>3 DEF ModelTypeOK, FetchPlaces
    <3>5. ModelTypeOK' BY <1>0, <3>1, <3>4 DEF ModelTypeOK
    <3> HIDE DEF new
    <3>6. OneWriter' /\ JobIsIts' BY <3>1, <3>4 DEF OneWriter, JobIsIts, Working
    <3>7. Verified' BY <3>1, <3>4 DEF Verified
    <3> QED BY <3>1, <3>5, <3>6, <3>7 DEF ModelInv
  <2> QED BY <2>1, <2>2
<1>3. ASSUME NEW d \in Runs, Working(d),
             \/ Open(d) \/ AnswerResumes(d) \/ AnswerStartsOver(d) \/ AnswerOffRange(d)
             \/ AnswerRefuses(d) \/ ReceiveTooMuch(d) \/ EndOfAnswer(d) \/ NetworkFails(d)
      PROVE  ModelInv'
  <2>1. job' = job /\ fetches' = fetches /\ named' = named
    BY <1>3 DEF Open, AnswerResumes, AnswerStartsOver, AnswerOffRange, AnswerRefuses,
      ReceiveTooMuch, EndOfAnswer, NetworkFails, KeepRest
  <2>2. part' \in {part, EmptyFile}
    BY <1>3 DEF Open, AnswerResumes, AnswerStartsOver, AnswerOffRange, AnswerRefuses,
      ReceiveTooMuch, EndOfAnswer, NetworkFails
  <2>3. part' \in [blocks : Int, wrong : BOOLEAN]
    <3>1. EmptyFile \in [blocks : Int, wrong : BOOLEAN] BY DEF EmptyFile
    <3> QED BY <1>0, <2>2, <3>1 DEF ModelTypeOK
  <2>4. \/ FetchTo(d, "requesting") \/ FetchTo(d, "receiving") \/ FetchTo(d, "verifying")
        \/ Fails(d) \/ TryAgain(d)
    BY <1>3 DEF Open, AnswerResumes, AnswerStartsOver, AnswerOffRange, AnswerRefuses,
      ReceiveTooMuch, EndOfAnswer, NetworkFails
  <2>5. {"requesting", "receiving", "verifying"} \subseteq FetchPlaces BY DEF FetchPlaces
  <2>6. /\ fetch' \in [Runs -> [at : FetchPlaces, attempt : Int, failed : BOOLEAN]]
        /\ \A e \in Runs : e # d => fetch'[e] = fetch[e]
        /\ fetch'[d].at # "renaming"
    BY <1>0, <2>4, <2>5, FetchSteps
  <2>7. job \in {"downloading", "verifying"} /\ named # "broken"
    BY <1>3 DEF ModelInv, JobIsIts
  <2> QED BY <1>3, <2>1, <2>3, <2>6, <2>7, OneGoesOn
<1>4. ASSUME NEW d \in Runs, NEW wrong \in BOOLEAN, Receive(d, wrong) PROVE ModelInv'
  <2>1. fetch' = fetch /\ named' = named /\ fetches' = fetches /\ fetch[d].at = "receiving"
    BY <1>4 DEF Receive, KeepRest, FetchAt
  <2>2. job' \in {"downloading", "verifying"}
    BY <1>4, <2>1 DEF Receive, ModelInv, JobIsIts, Working
  <2>3. part' = [blocks |-> part.blocks + 1, wrong |-> part.wrong \/ wrong]
    BY <1>4 DEF Receive
  <2>4. (part.wrong \/ wrong) \in BOOLEAN OBVIOUS
  <2>5. part' \in [blocks : Int, wrong : BOOLEAN] BY <1>0, <2>3, <2>4 DEF ModelTypeOK
  <2>6. Working(d) /\ named' # "broken" BY <2>1 DEF Working, ModelInv
  <2> QED BY <1>0, <2>1, <2>2, <2>5, <2>6, OneGoesOn DEF ModelTypeOK
<1>5. ASSUME NEW d \in Runs, Verify(d) PROVE ModelInv'
  <2>1. fetch[d].at = "verifying" /\ named' = named /\ fetches' = fetches
    BY <1>5 DEF Verify, FetchAt, KeepRest
  <2>2. Working(d) /\ job \in {"downloading", "verifying"} /\ named' # "broken"
    BY <2>1 DEF Working, ModelInv, JobIsIts
  <2>3. job' \in {"downloading", "verifying"} BY <1>5, <2>2 DEF Verify
  <2>4. "renaming" \in FetchPlaces BY DEF FetchPlaces
  <2>5. CASE part.wrong \/ part.blocks # ModelBlocks
    <3>1. Fails(d) /\ part' = EmptyFile BY <1>5, <2>5 DEF Verify
    <3>2. part' \in [blocks : Int, wrong : BOOLEAN] BY <3>1 DEF EmptyFile
    <3>3. fetch'[d].at # "renaming" BY <1>0, <3>1, FetchSteps
    <3> QED BY <1>0, <2>1, <2>2, <2>3, <3>1, <3>2, <3>3, FetchSteps, OneGoesOn
  <2>6. CASE ~(part.wrong \/ part.blocks # ModelBlocks)
    <3>1. FetchTo(d, "renaming") /\ part' = part BY <1>5, <2>6 DEF Verify
    <3>2. ~part'.wrong /\ part'.blocks = ModelBlocks BY <2>6, <3>1
    <3> QED BY <1>0, <2>1, <2>2, <2>3, <2>4, <3>1, <3>2, FetchSteps, OneGoesOn DEF ModelTypeOK
  <2> QED BY <2>5, <2>6
<1>6. ASSUME NEW d \in Runs, Rename(d) PROVE ModelInv'
  <2>1. fetch[d].at = "renaming" /\ job' = job /\ fetches' = fetches
    BY <1>6 DEF Rename, FetchAt
  <2>2. /\ Working(d) /\ job' \in {"downloading", "verifying"} /\ named # "broken"
        /\ ~part.wrong /\ part.blocks = ModelBlocks
    BY <2>1 DEF Working, ModelInv, JobIsIts, Verified
  <2>3. named' # "broken" BY <1>6, <2>2 DEF Rename
  <2>4. FetchTo(d, "finishing") \/ Fails(d) BY <1>6 DEF Rename
  <2>5. "finishing" \in FetchPlaces BY DEF FetchPlaces
  <2>6. /\ fetch' \in [Runs -> [at : FetchPlaces, attempt : Int, failed : BOOLEAN]]
        /\ \A e \in Runs : e # d => fetch'[e] = fetch[e]
        /\ fetch'[d].at # "renaming"
    BY <1>0, <2>4, <2>5, FetchSteps
  <2>7. part' \in {part, EmptyFile} BY <1>6 DEF Rename
  <2>8. EmptyFile \in [blocks : Int, wrong : BOOLEAN] BY DEF EmptyFile
  <2>9. part' \in [blocks : Int, wrong : BOOLEAN] BY <1>0, <2>7, <2>8 DEF ModelTypeOK
  <2> QED BY <2>1, <2>2, <2>3, <2>6, <2>9, OneGoesOn
<1>7. ASSUME NEW d \in Runs, FinishFetch(d) PROVE ModelInv'
  <2>1. /\ fetch[d].at = "finishing" /\ FetchTo(d, "none") /\ part' = part /\ named' = named
        /\ fetches' = fetches
    BY <1>7 DEF FinishFetch, FetchAt, KeepRest
  <2>2. "none" \in FetchPlaces BY DEF FetchPlaces
  <2>3. /\ fetch' \in [Runs -> [at : FetchPlaces, attempt : Int, failed : BOOLEAN]]
        /\ \A e \in Runs : e # d => fetch'[e] = fetch[e]
        /\ fetch'[d].at = "none"
    BY <1>0, <2>1, <2>2, FetchSteps
  <2>4. \A e \in Runs : e # d => fetch[e].at = "none"
    BY <2>1 DEF ModelInv, OneWriter, Working
  <2>5. \A e \in Runs : fetch'[e].at = "none" BY <2>3, <2>4
  <2> QED BY <1>0, <2>1, <2>3, <2>5
    DEF ModelInv, ModelTypeOK, OneWriter, JobIsIts, Verified, Working
<1>8. CASE CloseModels
  BY <1>8 DEF CloseModels, ModelInv, ModelTypeOK, OneWriter, JobIsIts, Verified, Working
<1>9. CASE RestartServer
  <2>1. fetch' = [d \in Runs |-> NoFetch] /\ UNCHANGED <<part, named, fetches>>
    BY <1>9 DEF RestartServer, Runs
  <2>2. NoFetch \in [at : FetchPlaces, attempt : Int, failed : BOOLEAN] /\ NoFetch.at = "none"
    BY DEF NoFetch, FetchPlaces
  <2> HIDE DEF NoFetch
  <2>3. /\ fetch' \in [Runs -> [at : FetchPlaces, attempt : Int, failed : BOOLEAN]]
        /\ \A e \in Runs : fetch'[e].at = "none"
    BY <2>1, <2>2
  <2> QED BY <1>0, <2>1, <2>3
    DEF ModelInv, ModelTypeOK, OneWriter, JobIsIts, Verified, Working
<1>10. CASE UNCHANGED modelVars
  BY <1>10 DEF modelVars, ModelInv, ModelTypeOK, OneWriter, JobIsIts, Verified, Working
<1>11. ASSUME NEW d \in Runs,
              \/ Open(d) \/ AnswerResumes(d) \/ AnswerStartsOver(d) \/ AnswerOffRange(d)
              \/ AnswerRefuses(d) \/ ReceiveTooMuch(d) \/ EndOfAnswer(d) \/ NetworkFails(d)
       PROVE  Working(d)
  BY <1>11 DEF Open, AnswerResumes, AnswerStartsOver, AnswerOffRange, AnswerRefuses,
    ReceiveTooMuch, EndOfAnswer, NetworkFails, FetchAt, Working
<1> QED
  BY <1>1, <1>2, <1>3, <1>4, <1>5, <1>6, <1>7, <1>8, <1>9, <1>10, <1>11 DEF ModelNext, Runs

\* Requests, failures, Close and restarts at any time neither set two goroutines
\* on one file nor give a name to a file that was not verified.
THEOREM FetchesVerified == ModelSpec => []VerifiedFetch
<1>1. ModelInit => ModelInv
  <2> SUFFICES ASSUME ModelInit PROVE ModelInv
    OBVIOUS
  <2>1. NoFetch \in [at : FetchPlaces, attempt : Int, failed : BOOLEAN] /\ NoFetch.at = "none"
    BY DEF NoFetch, FetchPlaces
  <2>2. EmptyFile \in [blocks : Int, wrong : BOOLEAN] BY DEF EmptyFile
  <2>3. fetch = [d \in Runs |-> NoFetch] BY DEF ModelInit, Runs
  <2>4. part \in [blocks : Int, wrong : BOOLEAN]
    <3>1. 1 .. ModelBlocks + 1 \subseteq Int BY ModelAssumption DEF ModelAssumption
    <3> QED BY <2>2, <3>1 DEF ModelInit
  <2>5. /\ fetch \in [Runs -> [at : FetchPlaces, attempt : Int, failed : BOOLEAN]]
        /\ \A d \in Runs : fetch[d].at = "none"
    BY <2>1, <2>3
  <2>6. ModelTypeOK /\ named # "broken" BY <2>4, <2>5 DEF ModelInit, ModelTypeOK
  <2> QED BY <2>5, <2>6 DEF ModelInv, OneWriter, JobIsIts, Verified, Working
<1>2. ModelInv => VerifiedFetch
  BY DEF ModelInv, OneWriter, JobIsIts, Working, VerifiedFetch, FetchAt, Active, Runs
<1> QED BY <1>1, <1>2, ModelInvNext, PTL DEF ModelSpec

-----------------------------------------------------------------------------
(* TlsCertificates *)

\* A file seen as version v is that version or a later one now, or is not there.
Since(v, now) == now = 0 \/ now >= v

ProvidedTypeOK ==
  /\ certFile \in Nat /\ keyFile \in Nat /\ version \in Nat
  /\ certRead \in Nat /\ served \in Nat
  /\ stamps[1] \in Nat /\ stamps[2] \in Nat /\ fileStat[1] \in Nat /\ fileStat[2] \in Nat
  /\ loading \in {"no", "statKey", "readCert", "readKey"}

\* No version is later than the latest.
UpTo ==
  /\ certFile <= version /\ keyFile <= version /\ certRead <= version /\ served <= version
  /\ stamps[1] <= version /\ stamps[2] <= version

\* What loadProvided saw in the files, it saw before what it sees now.
Seen ==
  /\ loading # "no" => stamps[1] # 0 /\ Since(stamps[1], certFile)
  /\ loading \in {"readCert", "readKey"} => stamps[2] # 0 /\ Since(stamps[2], keyFile)
  /\ loading = "readKey" => certRead >= stamps[1] /\ Since(certRead, certFile)

\* The stamps kept are of versions no later than the pair that is served, and
\* that is not later than the files.
ServedSince ==
  served # 0 => /\ fileStat[1] # 0 /\ fileStat[2] # 0
                /\ fileStat[1] <= served /\ fileStat[2] <= served
                /\ Since(served, certFile) /\ Since(served, keyFile)

ProvidedInv == ProvidedTypeOK /\ UpTo /\ Seen /\ ServedSince

\* Writes of the operator between any two steps of a load keep it, as the steps do.
LEMMA ProvidedInvNext == ProvidedInv /\ [ProvidedNext]_providedVars => ProvidedInv'
<1> SUFFICES ASSUME ProvidedInv, [ProvidedNext]_providedVars PROVE ProvidedInv'
  OBVIOUS
<1> USE DEF ProvidedInv, ProvidedTypeOK, UpTo, Seen, ServedSince, Since
<1>1. CASE WriteCertFile
  <2>1. certFile' \in Nat /\ version' \in Nat /\ version' >= version
        /\ (certFile' = 0 \/ certFile' >= version) /\ certFile' <= version'
    BY <1>1 DEF WriteCertFile
  <2> QED BY <1>1, <2>1 DEF WriteCertFile
<1>2. CASE WriteKeyFile
  <2>1. keyFile' \in Nat /\ version' \in Nat /\ version' >= version
        /\ (keyFile' = 0 \/ keyFile' >= version) /\ keyFile' <= version'
    BY <1>2 DEF WriteKeyFile
  <2> QED BY <1>2, <2>1 DEF WriteKeyFile
<1>3. CASE StatCert BY <1>3 DEF StatCert, KeepFiles
<1>4. CASE StatKey
  <2>1. stamps' = <<stamps[1], keyFile>> /\ UNCHANGED <<certFile, keyFile, version, certRead, served, fileStat>>
    BY <1>4 DEF StatKey, KeepFiles
  <2>2. loading = "statKey" /\ loading' \in {"no", "readCert"} /\ (loading' = "readCert" => keyFile # 0)
    BY <1>4 DEF StatKey
  <2> QED BY <2>1, <2>2
<1>5. CASE ReadCert BY <1>5 DEF ReadCert, KeepFiles
<1>6. CASE ReadKey
  <2>1. loading = "readKey" /\ loading' = "no"
        /\ UNCHANGED <<certFile, keyFile, version, stamps, certRead>>
    BY <1>6 DEF ReadKey, KeepFiles
  <2>2. CASE keyFile = certRead
    <3>1. served' = certRead /\ fileStat' = stamps BY <1>6, <2>2 DEF ReadKey, StampsKept
    <3> QED BY <2>1, <2>2, <3>1
  <2>3. CASE keyFile # certRead
    <3>1. UNCHANGED <<served, fileStat>> BY <1>6, <2>3 DEF ReadKey
    <3> QED BY <2>1, <3>1
  <2> QED BY <2>2, <2>3
<1>7. CASE UNCHANGED providedVars BY <1>7 DEF providedVars
<1> QED BY <1>1, <1>2, <1>3, <1>4, <1>5, <1>6, <1>7 DEF ProvidedNext

\* No change of the operator's files is missed, wherever it falls in a load.
THEOREM NoReloadMissed == ProvidedSpec => []ReloadMissesNothing
<1>1. ProvidedInit => ProvidedInv
  BY DEF ProvidedInit, NoStamps, ProvidedInv, ProvidedTypeOK, UpTo, Seen, ServedSince, Since
<1>2. ProvidedInv => ReloadMissesNothing
  BY DEF ProvidedInv, ProvidedTypeOK, ServedSince, Since, ReloadMissesNothing
<1> QED BY <1>1, <1>2, ProvidedInvNext, PTL DEF ProvidedSpec

-----------------------------------------------------------------------------
(* The CA and the leaf *)

Stages == {"down", "idle", "leaf"} \union Files
Lans == {"home", "venue"}
Made == 0 .. Len(pairs)
KeyPairs == [made : Int, by : Int, lan : Lans \union {"none"}]
MadeNow(by) == [made |-> time, by |-> by, lan |-> IF by = 0 THEN "none" ELSE lan]

LocalTypeOK ==
  /\ stage \in Stages /\ time \in Int /\ lan \in Lans
  /\ pairs \in Seq(KeyPairs)
  /\ disk \in [Files -> Made] /\ ca \in Made /\ leaf \in Made /\ devices \in Made

\* A CA that devices have, that is not near its end and that was readable is the
\* one on disk and the one in memory, if there is one.
DevicesServed ==
  Relied(devices) =>
    /\ disk["ca.crt"] = devices /\ disk["ca.key"] = devices /\ ca \in {0, devices}
    /\ stage \notin {"ca.key", "ca.crt"}

\* The CA that may be offered is the one a server finds that starts later.
CAOnDisk ==
  /\ ca # 0 /\ ~NearEnd(ca) => disk["ca.crt"] = ca /\ disk["ca.key"] = ca
  /\ stage \in {"ca.key", "ca.crt"} => ca = 0 \/ NearEnd(ca)
  /\ stage = "ca.crt" => disk["ca.key"] = Len(pairs)

\* Once the CA is settled there is one, which is not near its end, and the pair
\* that is being saved was made now.
Refreshing ==
  /\ stage \in {"ca.key", "ca.crt"} => Len(pairs) # 0 /\ pairs[Len(pairs)].made = time
  /\ stage \in {"leaf", "server.key", "server.crt"} => ca # 0 /\ ~NearEnd(ca)
  /\ stage \in {"server.key", "server.crt"} =>
       /\ Len(pairs) # 0 /\ pairs[Len(pairs)].made = time
       /\ pairs[Len(pairs)].by = ca /\ pairs[Len(pairs)].lan = lan
  /\ stage = "idle" => ca # 0 \/ ~Relied(devices)
  /\ current => stage \in {"idle", "leaf"} /\ ca # 0 /\ ~NearEnd(ca) /\ leaf # 0 /\ ~Stale(leaf)

LocalInv == LocalTypeOK /\ DevicesServed /\ CAOnDisk /\ Refreshing

\* A new pair changes none of the ones there were.
LEMMA PairMade ==
  ASSUME LocalTypeOK, NEW by \in Int, pairs' = NewPair(by), time' = time
  PROVE  /\ pairs' \in Seq(KeyPairs)
         /\ Len(pairs') = Len(pairs) + 1 /\ Len(pairs) \in Nat
         /\ \A c \in Made : c # 0 => pairs'[c] = pairs[c]
         /\ pairs'[Len(pairs')] = MadeNow(by)
         /\ Made \subseteq Made'
<1>1. MadeNow(by) \in KeyPairs
  BY DEF LocalTypeOK, KeyPairs, MadeNow
<1>2. /\ pairs' \in Seq(KeyPairs)
      /\ Len(pairs') = Len(pairs) + 1 /\ Len(pairs) \in Nat
      /\ \A c \in 1 .. Len(pairs) : pairs'[c] = pairs[c]
      /\ pairs'[Len(pairs')] = MadeNow(by)
  BY <1>1 DEF LocalTypeOK, NewPair, MadeNow
<1> QED BY <1>2 DEF Made

\* A CA is only made when no device relies on the one there was.
LEMMA RefreshWithKeeps ==
  ASSUME LocalInv, NEW known \in Made, RefreshWith(known),
         ca # 0 => known = ca /\ unread' = unread,
         ca = 0 => /\ known \in {0, Loaded("ca.crt", "ca.key")}
                   /\ unread' = IF known = Loaded("ca.crt", "ca.key") THEN unread \ {known}
                                ELSE unread \cup {Loaded("ca.crt", "ca.key")}
  PROVE  LocalInv'
<1> USE DEF LocalInv
<1>1. /\ stage \in {"down", "idle"} /\ UNCHANGED <<disk, leaf, current, time, lan, devices>>
      /\ \/ /\ known = 0 \/ NearEnd(known)
            /\ pairs' = NewPair(0) /\ ca' = known /\ stage' = "ca.key"
         \/ known # 0 /\ ~NearEnd(known) /\ ca' = known /\ stage' = "leaf" /\ UNCHANGED pairs
  BY DEF RefreshWith, CAWhileSaving, KeepWorld
<1>2. known \in Made OBVIOUS
<1>3. devices # 0 /\ ~NearEnd(devices) /\ devices \notin unread' => known = devices
  <2>1. SUFFICES ASSUME devices # 0, ~NearEnd(devices), devices \notin unread'
                 PROVE  known = devices
    OBVIOUS
  <2>2. CASE ca # 0 BY <2>1, <2>2 DEF DevicesServed, Relied
  <2>3. CASE ca = 0 /\ devices = Loaded("ca.crt", "ca.key") BY <2>1, <2>3
  <2>4. CASE ca = 0 /\ devices # Loaded("ca.crt", "ca.key")
    <3>1. known = Loaded("ca.crt", "ca.key") => known # devices BY <2>4
    <3>2. devices \notin unread BY <2>1, <2>4, <3>1
    <3>3. QED BY <2>1, <2>4, <3>2 DEF DevicesServed, Relied, Loaded
  <2>5. QED BY <2>2, <2>3, <2>4
<1>4. ca # 0 => known = ca OBVIOUS
<1>5. CASE /\ known = 0 \/ NearEnd(known)
           /\ pairs' = NewPair(0) /\ ca' = known /\ stage' = "ca.key"
  <2>1. devices = 0 \/ NearEnd(devices) \/ devices \in unread' BY <1>3, <1>5
  <2>2. /\ pairs' \in Seq(KeyPairs)
        /\ Len(pairs') # 0 /\ pairs'[Len(pairs')].made = time /\ Made \subseteq Made'
        /\ \A c \in Made : c # 0 => pairs'[c] = pairs[c]
    <3>1. 0 \in Int /\ pairs' = NewPair(0) /\ time' = time BY <1>1, <1>5
    <3>2. /\ pairs' \in Seq(KeyPairs) /\ Made \subseteq Made'
          /\ Len(pairs') = Len(pairs) + 1 /\ Len(pairs) \in Nat
          /\ \A c \in Made : c # 0 => pairs'[c] = pairs[c]
          /\ pairs'[Len(pairs')] = MadeNow(0)
      BY <3>1, PairMade
    <3> QED BY <3>2 DEF MadeNow
  <2>3. ~Relied(devices)'
    BY <1>1, <2>1, <2>2 DEF LocalTypeOK, NearEnd, Relied
  <2>4. LocalTypeOK' BY <1>1, <1>2, <1>5, <2>2 DEF LocalTypeOK, Stages, Files
  <2>5. DevicesServed' BY <2>3 DEF DevicesServed
  <2>6. ~current BY <1>4, <1>5 DEF Refreshing
  <2>7. Refreshing' BY <1>1, <1>5, <2>2, <2>6 DEF Refreshing
  <2>8. ca' = 0 \/ NearEnd(ca)' BY <1>1, <1>2, <1>5, <2>2 DEF NearEnd
  <2>9. CAOnDisk' BY <1>5, <2>8 DEF CAOnDisk
  <2> QED BY <2>4, <2>5, <2>7, <2>9
<1>6. CASE known # 0 /\ ~NearEnd(known) /\ ca' = known /\ stage' = "leaf" /\ UNCHANGED pairs
  <2>1. LocalTypeOK' BY <1>1, <1>2, <1>6 DEF LocalTypeOK, Stages, Made
  <2>5. disk["ca.crt"] = known /\ disk["ca.key"] = known
    BY <1>6 DEF Loaded, CAOnDisk
  <2>2. DevicesServed' BY <1>1, <1>3, <1>6, <2>5 DEF DevicesServed, Relied, NearEnd
  <2>3. current => ca # 0 /\ leaf # 0 /\ ~Stale(leaf) BY DEF Refreshing
  <2>4. Refreshing' BY <1>1, <1>4, <1>6, <2>3 DEF Refreshing, NearEnd, Stale
  <2>6. CAOnDisk' BY <1>1, <1>6, <2>5 DEF CAOnDisk
  <2> QED BY <2>1, <2>2, <2>4, <2>6
<1> QED BY <1>1, <1>5, <1>6

\* A refresh, of a server that has its CA, reads it or cannot.
LEMMA RefreshKeeps ==
  ASSUME LocalInv, Refresh
  PROVE  LocalInv'
<1>1. ca \in Made /\ Loaded("ca.crt", "ca.key") \in Made /\ 0 \in Made
  <2>1. disk["ca.crt"] \in Made /\ ca \in Made /\ 0 \in Made
    BY DEF LocalInv, LocalTypeOK, Files, Made
  <2> QED BY <2>1 DEF Loaded
<1>2. CASE ca # 0 /\ RefreshWith(ca) /\ UNCHANGED unread BY <1>1, <1>2, RefreshWithKeeps
<1>3. CASE /\ ca = 0 /\ RefreshWith(Loaded("ca.crt", "ca.key"))
           /\ unread' = unread \ {Loaded("ca.crt", "ca.key")}
  BY <1>1, <1>3, RefreshWithKeeps
<1>4. CASE /\ ca = 0 /\ Loaded("ca.crt", "ca.key") # 0 /\ RefreshWith(0)
           /\ unread' = unread \cup {Loaded("ca.crt", "ca.key")}
  BY <1>1, <1>4, RefreshWithKeeps
<1> QED BY <1>2, <1>3, <1>4 DEF Refresh

\* The leaf is checked, and a new one made when it is stale.
LEMMA CheckLeafKeeps ==
  ASSUME LocalInv, CheckLeaf
  PROVE  LocalInv'
<1> USE DEF LocalInv
<1>0. PICK known \in LeavesKnown :
        /\ stage = "leaf" /\ UNCHANGED <<disk, ca, time, lan, devices, unread>>
        /\ IF Stale(known)
           THEN /\ pairs' = NewPair(ca) /\ stage' = "server.key" /\ UNCHANGED <<leaf, current>>
           ELSE leaf' = known /\ current' = TRUE /\ stage' = "idle" /\ UNCHANGED pairs
  BY DEF CheckLeaf, KeepWorld
<1>1. /\ stage = "leaf" /\ UNCHANGED <<disk, ca, time, lan, devices, unread>>
      /\ \/ /\ Stale(known) /\ pairs' = NewPair(ca) /\ stage' = "server.key"
            /\ UNCHANGED <<leaf, current>>
         \/ ~Stale(known) /\ leaf' = known /\ current' = TRUE /\ stage' = "idle" /\ UNCHANGED pairs
  BY <1>0
<1>2. known \in Made
  <2>1. disk["server.crt"] \in Made /\ leaf \in Made /\ 0 \in Made BY DEF LocalTypeOK, Files, Made
  <2> QED BY <2>1 DEF LeavesKnown, Loaded
<1>3. leaf # 0 => known = leaf BY DEF LeavesKnown
<1>4. ca \in Made /\ ca \in Int /\ ca # 0 /\ ~NearEnd(ca) BY <1>1 DEF LocalTypeOK, Refreshing, Made
<1>5. CASE /\ Stale(known) /\ pairs' = NewPair(ca) /\ stage' = "server.key"
           /\ UNCHANGED <<leaf, current>>
  <2>1. ~current BY <1>3, <1>5 DEF Refreshing
  <2>2. /\ pairs' \in Seq(KeyPairs)
        /\ Len(pairs') # 0 /\ Made \subseteq Made'
        /\ pairs'[Len(pairs')] = [made |-> time, by |-> ca, lan |-> lan]
        /\ \A c \in Made : c # 0 => pairs'[c] = pairs[c]
    BY <1>1, <1>4, <1>5, PairMade DEF MadeNow
  <2>3. LocalTypeOK' BY <1>1, <1>5, <2>2 DEF LocalTypeOK, Stages, Files
  <2>4. Relied(devices)' <=> Relied(devices) BY <1>1, <2>2 DEF LocalTypeOK, NearEnd, Relied
  <2>5. DevicesServed' BY <1>1, <1>5, <2>4 DEF DevicesServed
  <2>6. ~NearEnd(ca)' BY <1>1, <1>4, <2>2 DEF NearEnd
  <2>7. Refreshing' BY <1>1, <1>4, <1>5, <2>1, <2>2, <2>6 DEF Refreshing
  <2>8. CAOnDisk' BY <1>1, <1>4, <1>5 DEF CAOnDisk
  <2> QED BY <2>3, <2>5, <2>7, <2>8
<1>6. CASE ~Stale(known) /\ leaf' = known /\ current' = TRUE /\ stage' = "idle" /\ UNCHANGED pairs
  <2>1. LocalTypeOK' BY <1>1, <1>2, <1>6 DEF LocalTypeOK, Stages, Made
  <2>2. DevicesServed' BY <1>1, <1>6 DEF DevicesServed, Relied, NearEnd
  <2>3. known # 0 BY <1>6 DEF Stale
  <2>4. Refreshing' BY <1>1, <1>4, <1>6, <2>3 DEF Refreshing, Relied, NearEnd, Stale
  <2>5. CAOnDisk' BY <1>1, <1>4, <1>6 DEF CAOnDisk
  <2> QED BY <2>1, <2>2, <2>4, <2>5
<1> QED BY <1>1, <1>5, <1>6

\* Every step of a refresh, and every failure, keeps it.
LEMMA LocalInvNext == LocalInv /\ [LocalNext]_localVars => LocalInv'
<1> SUFFICES ASSUME LocalInv, [LocalNext]_localVars PROVE LocalInv'
  OBVIOUS
<1> USE TlsAssumption DEF TlsAssumption, LocalInv
<1>0. pairs \in Seq(KeyPairs) /\ Len(pairs) \in Nat
  BY DEF LocalTypeOK
<1>1. CASE Refresh BY <1>1, RefreshKeeps
<1>2. CASE CheckLeaf BY <1>2, CheckLeafKeeps
<1>3. CASE SaveCAKey
  <2>1. /\ stage = "ca.key" /\ stage' = "ca.crt" /\ disk' = [disk EXCEPT !["ca.key"] = Len(pairs)]
        /\ UNCHANGED <<pairs, time, lan, devices, ca, leaf, caChanged, unread, current>>
    BY <1>3 DEF SaveCAKey, Write, Newest, KeepWorld
  <2>2. LocalTypeOK' BY <1>0, <2>1 DEF LocalTypeOK, Stages, Files, Made
  <2>3. DevicesServed' BY <2>1 DEF DevicesServed, Relied, NearEnd
  <2>4. Refreshing' BY <2>1 DEF Refreshing, Relied, NearEnd, Stale
  <2>5. ca' = 0 \/ NearEnd(ca)' BY <2>1 DEF CAOnDisk, NearEnd
  <2>6. disk'["ca.key"] = Len(pairs') BY <2>1 DEF LocalTypeOK, Files
  <2>7. CAOnDisk' BY <2>1, <2>5, <2>6 DEF CAOnDisk
  <2> QED BY <2>2, <2>3, <2>4, <2>7
<1>4. CASE SaveCACert
  <2>1. /\ stage = "ca.crt" /\ stage' = "leaf" /\ disk' = [disk EXCEPT !["ca.crt"] = Len(pairs)]
        /\ ca' = Len(pairs) /\ UNCHANGED <<pairs, time, lan, devices, leaf, unread, current>>
    BY <1>4 DEF SaveCACert, Write, Newest, KeepWorld
  <2>2. LocalTypeOK' BY <1>0, <2>1 DEF LocalTypeOK, Stages, Files, Made
  <2>3. DevicesServed' BY <2>1 DEF DevicesServed, Relied, NearEnd
  <2>4. Len(pairs) # 0 /\ pairs[Len(pairs)].made = time /\ time \in Int /\ ~current
    BY <2>1 DEF Refreshing, LocalTypeOK
  <2>5. ~NearEnd(ca)' BY <2>1, <2>4 DEF NearEnd
  <2>6. Refreshing' BY <2>1, <2>4, <2>5 DEF Refreshing
  <2>7. disk'["ca.crt"] = Len(pairs) /\ disk'["ca.key"] = Len(pairs)
    BY <2>1 DEF CAOnDisk, LocalTypeOK, Files
  <2>8. CAOnDisk' BY <2>1, <2>7 DEF CAOnDisk
  <2> QED BY <2>2, <2>3, <2>6, <2>8
<1>5. CASE SaveLeafKey
  <2>1. /\ stage = "server.key" /\ stage' = "server.crt"
        /\ disk' = [disk EXCEPT !["server.key"] = Len(pairs)]
        /\ UNCHANGED <<pairs, time, lan, devices, ca, leaf, caChanged, unread, current>>
    BY <1>5 DEF SaveLeafKey, Write, Newest, KeepWorld
  <2>2. LocalTypeOK' BY <1>0, <2>1 DEF LocalTypeOK, Stages, Files, Made
  <2>3. disk'["ca.crt"] = disk["ca.crt"] /\ disk'["ca.key"] = disk["ca.key"]
    BY <2>1 DEF LocalTypeOK, Files
  <2>4. DevicesServed' BY <2>1, <2>3 DEF DevicesServed, Relied, NearEnd
  <2>5. Refreshing' BY <2>1 DEF Refreshing, Relied, NearEnd, Stale
  <2>6. CAOnDisk' BY <2>1, <2>3 DEF CAOnDisk, NearEnd
  <2> QED BY <2>2, <2>4, <2>5, <2>6
<1>6. CASE SaveLeafCert
  <2>1. /\ stage = "server.crt" /\ stage' = "idle" /\ leaf' = Len(pairs) /\ current' = TRUE
        /\ disk' = [disk EXCEPT !["server.crt"] = Len(pairs)]
        /\ UNCHANGED <<pairs, time, lan, devices, ca, unread>>
    BY <1>6 DEF SaveLeafCert, Write, Newest, KeepWorld
  <2>2. LocalTypeOK' BY <1>0, <2>1 DEF LocalTypeOK, Stages, Files, Made
  <2>3. disk'["ca.crt"] = disk["ca.crt"] /\ disk'["ca.key"] = disk["ca.key"]
    BY <2>1 DEF LocalTypeOK, Files
  <2>4. DevicesServed' BY <2>1, <2>3 DEF DevicesServed, Relied, NearEnd
  <2>5. /\ Len(pairs) # 0 /\ pairs[Len(pairs)].made = time /\ time \in Int
        /\ pairs[Len(pairs)].by = ca /\ pairs[Len(pairs)].lan = lan /\ ca # 0 /\ ~NearEnd(ca)
    BY <2>1 DEF Refreshing, LocalTypeOK
  <2>6. ~Stale(leaf)' BY <2>1, <2>5 DEF Stale
  <2>7. ~NearEnd(ca)' BY <2>1, <2>5 DEF NearEnd
  <2>8. Refreshing' BY <2>1, <2>5, <2>6, <2>7 DEF Refreshing
  <2>9. CAOnDisk' BY <2>1, <2>3 DEF CAOnDisk, NearEnd
  <2> QED BY <2>2, <2>4, <2>8, <2>9
<1>7. CASE RefreshFails
  <2>1. /\ stage \in Files /\ stage' \in {"down", "idle"} /\ (stage' = "idle" => ca' = ca)
        /\ ca' \in {0, ca} /\ UNCHANGED <<pairs, disk, leaf, current, time, lan, devices, unread>>
    BY <1>7 DEF RefreshFails, KeepWorld
  <2>2. LocalTypeOK' BY <1>0, <2>1 DEF LocalTypeOK, Stages, Made
  <2>3. DevicesServed' BY <2>1 DEF DevicesServed, Relied, NearEnd
  <2>4. ~current BY <2>1 DEF Refreshing, Files
  <2>5. stage' = "idle" => (ca' # 0 \/ ~Relied(devices)')
    BY <2>1 DEF Refreshing, DevicesServed, Files, Relied, NearEnd
  <2>6. Refreshing' BY <2>1, <2>4, <2>5 DEF Refreshing
  <2>7. CAOnDisk' BY <2>1 DEF CAOnDisk, NearEnd
  <2> QED BY <2>2, <2>3, <2>6, <2>7
<1>8. CASE ServerDies
  <2>1. /\ stage' = "down" /\ ca' = 0 /\ leaf' = 0 /\ current' = FALSE
        /\ UNCHANGED <<pairs, disk, time, lan, devices, unread>>
    BY <1>8 DEF ServerDies, KeepWorld
  <2>2. LocalTypeOK' BY <1>0, <2>1 DEF LocalTypeOK, Stages, Made
  <2>3. DevicesServed' /\ CAOnDisk' /\ Refreshing'
    BY <2>1 DEF DevicesServed, CAOnDisk, Refreshing, Relied, NearEnd
  <2> QED BY <2>2, <2>3
<1>9. CASE Install
  <2>1. /\ stage = "idle" /\ devices' = ca
        /\ UNCHANGED <<stage, time, lan, pairs, disk, ca, leaf, unread, current>>
    BY <1>9 DEF Install
  <2>2. LocalTypeOK' BY <2>1 DEF LocalTypeOK, Made
  <2>3. DevicesServed' BY <2>1 DEF DevicesServed, CAOnDisk, Relied, NearEnd
  <2>4. Refreshing' BY <2>1 DEF Refreshing, Relied, NearEnd, Stale
  <2>5. CAOnDisk' BY <2>1 DEF CAOnDisk, NearEnd
  <2> QED BY <2>2, <2>3, <2>4, <2>5
<1>10. CASE TimePasses
  <2>1. /\ stage \in {"down", "idle"} /\ time' = time + 1 /\ current' = FALSE
        /\ UNCHANGED <<stage, lan, pairs, disk, ca, leaf, devices, unread>>
    BY <1>10 DEF TimePasses
  <2>2. LocalTypeOK' BY <2>1 DEF LocalTypeOK, Made
  <2>3. ASSUME NEW c \in Made, c # 0, NearEnd(c) PROVE time + 1 >= pairs[c].made + CALife
    <3>1. c \in 1 .. Len(pairs) BY <1>0, <2>3 DEF Made
    <3>2. pairs[c] \in KeyPairs BY <1>0, <3>1
    <3>3. pairs[c].made \in Int BY <3>2 DEF KeyPairs
    <3> QED BY <2>3, <3>3 DEF NearEnd, LocalTypeOK
  <2>7. /\ devices # 0 /\ NearEnd(devices) => NearEnd(devices)'
        /\ ca # 0 /\ NearEnd(ca) => NearEnd(ca)'
    BY <2>1, <2>3 DEF NearEnd, LocalTypeOK
  <2>4. Relied(devices)' => Relied(devices) BY <2>1, <2>7 DEF Relied
  <2>8. DevicesServed' BY <2>1, <2>4 DEF DevicesServed
  <2>5. Refreshing' BY <2>1, <2>4, <2>7 DEF Refreshing
  <2>6. CAOnDisk' BY <2>1, <2>7 DEF CAOnDisk
  <2> QED BY <2>2, <2>5, <2>6, <2>8
<1>11. CASE LanChanges
  <2>1. /\ stage \in {"down", "idle"} /\ lan' \in Lans /\ current' = FALSE
        /\ UNCHANGED <<stage, time, pairs, disk, ca, leaf, devices, unread>>
    BY <1>11 DEF LanChanges, Lans
  <2>2. LocalTypeOK' BY <2>1 DEF LocalTypeOK, Made
  <2>3. DevicesServed' /\ CAOnDisk' /\ Refreshing'
    BY <2>1 DEF DevicesServed, CAOnDisk, Refreshing, Relied, NearEnd
  <2> QED BY <2>2, <2>3
<1>12. CASE UNCHANGED localVars
  BY <1>12 DEF localVars, LocalTypeOK, Made, DevicesServed, CAOnDisk, Refreshing, Relied,
                  NearEnd, Stale
<1> QED
  BY <1>1, <1>2, <1>3, <1>4, <1>5, <1>6, <1>7, <1>8, <1>9, <1>10, <1>11, <1>12 DEF LocalNext

\* TrustKept (src/internal/tlsutil/manager.go): devices keep a CA until it is near
\* its end or a starting server cannot read it, through failed and interrupted
\* refreshes and restarts, and after a good one the served certificate is right.
THEOREM TrustAlwaysKept == LocalSpec => []TrustKept
<1>1. LocalInit => LocalInv
  BY DEF LocalInit, LocalInv, LocalTypeOK, Made, Stages, Files, Lans, DevicesServed, CAOnDisk,
         Refreshing, Relied
<1>2. LocalInv => TrustKept
  BY DEF LocalInv, DevicesServed, Refreshing, TrustKept
<1> QED BY <1>1, <1>2, LocalInvNext, PTL DEF LocalSpec

-----------------------------------------------------------------------------
(* SecretsFile *)

Secrets     == [SecretNames -> Nat]
SaverPlaces == {"idle", "lock", "temp", "write", "sync", "rename"}
Saving(c)   == saver[c].at \in {"temp", "write", "sync", "rename"}

Savers ==
  [at : SaverPlaces, op : {"get", "set", "delete"}, name : SecretNames,
   value : Nat, entries : Secrets, synced : BOOLEAN]

SecretsTypeOK ==
  /\ saver \in [SecretCalls -> Savers]
  /\ kept \in Secrets /\ keptOnce \subseteq Secrets /\ saves \in Nat

\* Who saves has the mutex, and its map is the file's with its own change;
\* it renames only what is synced.
SaversTurn ==
  \A c \in SecretCalls : Saving(c) =>
    /\ secretsMu = {c}
    /\ saver[c].entries = [kept EXCEPT ![saver[c].name] = saver[c].value]
    /\ saver[c].at = "rename" => saver[c].synced

\* What a power loss may bring back is whole, and was stored at one moment.
OlderStored == older \subseteq keptOnce

SecretsInv ==
  SecretsTypeOK /\ SaversTurn /\ OlderStored /\ secretsFile = kept /\ kept \in keptOnce

\* A map of every secret is no torn file: there are names.
LEMMA WholeIsNotTorn == ASSUME NEW m \in Secrets PROVE m # TornSecrets
  <1>1. DOMAIN m = SecretNames /\ DOMAIN TornSecrets = {}
    BY DEF Secrets, TornSecrets
  <1>2. QED
    BY <1>1, SecretsAssumption

\* The invariant holds to begin with.
LEMMA SecretsInvInit == SecretsInit => SecretsInv
  <1> SUFFICES ASSUME SecretsInit PROVE SecretsInv
    OBVIOUS
  <1>1. Empty \in Secrets /\ (CHOOSE n \in SecretNames : TRUE) \in SecretNames
    BY SecretsAssumption DEF Empty, Secrets
  <1>2. QED
    BY <1>1 DEF SecretsInit, SecretsInv, SecretsTypeOK, SaversTurn, Saving,
                OlderStored, Resting, Savers, SaverPlaces

\* A stop drops every save that is under way.
LEMMA StoppedRests ==
  ASSUME SecretsTypeOK, Stopped
  PROVE  /\ \A c \in SecretCalls : ~Saving(c)'
         /\ saves' = saves
         /\ saver' \in [SecretCalls -> Savers]
  <1>1. Empty \in Secrets /\ (CHOOSE n \in SecretNames : TRUE) \in SecretNames
    BY SecretsAssumption DEF Empty, Secrets
  <1>2. QED
    BY <1>1 DEF Stopped, Resting, Saving, Savers, SaverPlaces

\* A caller that goes on changes nothing but its place.
LEMMA SaverGoes ==
  ASSUME SecretsTypeOK, NEW c \in SecretCalls, NEW place \in SaverPlaces, SaveGoes(c, place)
  PROVE  /\ saver' \in [SecretCalls -> Savers]
         /\ \A d \in SecretCalls : d # c => saver'[d] = saver[d]
         /\ saver'[c].at = place /\ saver'[c].synced = saver[c].synced
         /\ saver'[c].name = saver[c].name /\ saver'[c].value = saver[c].value
         /\ saver'[c].entries = saver[c].entries
  BY DEF SecretsTypeOK, Savers, SaveGoes

\* A caller that goes on to its next step, or gives up, keeps the invariant
\* when the file stays and what it saves stays.
LEMMA SaverGoesOn ==
  ASSUME SecretsInv, NEW c \in SecretCalls, KeepDisk, saves' = saves,
         saver' \in [SecretCalls -> Savers],
         \A d \in SecretCalls : d # c => saver'[d] = saver[d],
         saver'[c].name = saver[c].name, saver'[c].value = saver[c].value,
         saver'[c].entries = saver[c].entries,
         saver'[c].at \in {"idle", "lock"} \/ Saving(c),
         saver'[c].at = "rename" => saver'[c].synced,
         secretsMu' = IF saver'[c].at = "idle" THEN secretsMu \ {c} ELSE secretsMu
  PROVE  SecretsInv'
  <1>1. SaversTurn'
    <2> SUFFICES ASSUME NEW d \in SecretCalls, Saving(d)'
                 PROVE  /\ secretsMu' = {d}
                        /\ saver'[d].entries = [kept EXCEPT ![saver'[d].name] = saver'[d].value]
                        /\ saver'[d].at = "rename" => saver'[d].synced
      BY DEF SaversTurn, KeepDisk
    <2>1. CASE d = c
      BY <2>1 DEF SecretsInv, SaversTurn, Saving
    <2>2. CASE d # c
      <3>1. saver'[d] = saver[d] /\ Saving(d) /\ secretsMu = {d}
        BY <2>2 DEF SecretsInv, SaversTurn, Saving
      <3>2. secretsMu' = secretsMu
        BY <2>2, <3>1
      <3>3. QED
        BY <3>1, <3>2 DEF SecretsInv, SaversTurn
    <2>3. QED
      BY <2>1, <2>2
  <1>2. SecretsTypeOK'
    BY DEF SecretsInv, SecretsTypeOK, KeepDisk
  <1>3. QED
    BY <1>1, <1>2 DEF SecretsInv, OlderStored, KeepDisk

\* Each step, a crash or a power loss keeps it.
LEMMA SecretsInvNext == SecretsInv /\ [SecretsNext]_secretVars => SecretsInv'
  <1> SUFFICES ASSUME SecretsInv, [SecretsNext]_secretVars PROVE SecretsInv'
    OBVIOUS
  <1>0. SecretsTypeOK /\ SaversTurn /\ OlderStored
    BY DEF SecretsInv
  <1>1. ASSUME NEW c \in SecretCalls, NEW op \in {"set", "delete"},
               NEW n \in SecretNames, AskSecrets(c, op, n)
        PROVE  SecretsInv'
    <2>1. Empty \in Secrets
      BY DEF Empty, Secrets
    <2>2. saver' \in [SecretCalls -> Savers] /\ saves' \in Nat
      BY <1>0, <1>1, <2>1 DEF AskSecrets, SecretsTypeOK, Savers, SaverPlaces
    <2>3. saver'[c].at = "lock" /\ \A d \in SecretCalls : d # c => saver'[d] = saver[d]
      BY <1>0, <1>1 DEF AskSecrets, SecretsTypeOK
    <2>4. SaversTurn'
      BY <1>0, <1>1, <2>3 DEF AskSecrets, SaversTurn, Saving, KeepDisk
    <2>5. QED
      BY <1>1, <2>2, <2>4 DEF AskSecrets, KeepDisk, SecretsInv, SecretsTypeOK, OlderStored
  <1>2. ASSUME NEW c \in SecretCalls, LoadSecrets(c) PROVE SecretsInv'
    <2>1. CASE SaveGoes(c, "idle") /\ UNCHANGED secretsMu
      <3>1. secretsMu' = secretsMu \ {c}
        BY <1>2, <2>1 DEF LoadSecrets, CanLoad
      <3>2. QED
        BY <1>0, <1>2, <2>1, <3>1, SaverGoes, SaverGoesOn DEF LoadSecrets, SaverPlaces
    <2>2. CASE /\ saver' = [saver EXCEPT ![c].at = "temp",
                     ![c].entries = [secretsFile EXCEPT ![saver[c].name] = saver[c].value]]
               /\ secretsMu' = {c}
      <3>1. \A d \in SecretCalls : ~Saving(d)
        BY <1>0, <1>2 DEF LoadSecrets, CanLoad, SaversTurn
      <3>2. saver[c].name \in SecretNames /\ saver[c].value \in Nat /\ secretsFile \in Secrets
        BY <1>0 DEF SecretsInv, SecretsTypeOK, Savers
      <3>3. PICK m \in Secrets : m = [secretsFile EXCEPT ![saver[c].name] = saver[c].value]
        BY <3>2 DEF Secrets
      <3>4. /\ saver' \in [SecretCalls -> Savers]
            /\ \A d \in SecretCalls : d # c => saver'[d] = saver[d]
            /\ saver'[c].entries = m /\ saver'[c].at = "temp"
            /\ saver'[c].name = saver[c].name /\ saver'[c].value = saver[c].value
        BY ZenonT(40), <1>0, <2>2, <3>3 DEF SecretsTypeOK, Savers, SaverPlaces
      <3>5. SaversTurn'
        BY <1>2, <2>2, <3>1, <3>3, <3>4
        DEF LoadSecrets, SecretsInv, SaversTurn, Saving, KeepDisk
      <3>6. QED
        BY <1>2, <3>4, <3>5 DEF LoadSecrets, KeepDisk, SecretsInv, SecretsTypeOK, OlderStored
    <2>3. QED
      BY <1>2, <2>1, <2>2 DEF LoadSecrets
  <1>3. ASSUME NEW c \in SecretCalls, SaveFails(c) PROVE SecretsInv'
    BY <1>0, <1>3, SaverGoes, SaverGoesOn DEF SaveFails, SaverPlaces
  <1>4. ASSUME NEW c \in SecretCalls, CreateTemp(c) PROVE SecretsInv'
    BY <1>0, <1>4, SaverGoes, SaverGoesOn DEF CreateTemp, SaverPlaces, SecretsAt, Saving
  <1>5. ASSUME NEW c \in SecretCalls, WriteTemp(c) PROVE SecretsInv'
    BY <1>0, <1>5, SaverGoes, SaverGoesOn
    DEF WriteTemp, AfterWrite, SaverPlaces, SecretsAt, Saving
  <1>6. ASSUME NEW c \in SecretCalls, SyncTemp(c) PROVE SecretsInv'
    <2>1. /\ saver' \in [SecretCalls -> Savers]
          /\ \A d \in SecretCalls : d # c => saver'[d] = saver[d]
          /\ saver'[c].name = saver[c].name /\ saver'[c].value = saver[c].value
          /\ saver'[c].entries = saver[c].entries
          /\ saver'[c].at = "rename" /\ saver'[c].synced
      BY <1>0, <1>6 DEF SyncTemp, SecretsTypeOK, Savers, SaverPlaces
    <2>2. QED
      BY <1>6, <2>1, SaverGoesOn DEF SyncTemp, SecretsAt, Saving
  <1>7. ASSUME NEW c \in SecretCalls, RenameTemp(c) PROVE SecretsInv'
    <2>1. /\ SaveGoes(c, "idle") /\ secretsMu' = secretsMu \ {c} /\ saves' = saves
          /\ secretsFile' = saver[c].entries
          /\ kept' = [kept EXCEPT ![saver[c].name] = saver[c].value]
          /\ keptOnce' = keptOnce \cup {kept'}
          /\ saver[c].at = "rename"
          /\ older' = older \cup {secretsFile}
                         \cup (IF saver[c].synced THEN {} ELSE {TornSecrets})
      BY <1>7 DEF RenameTemp, SecretsAt
    <2>2. secretsMu = {c} /\ saver[c].synced /\ kept' = secretsFile' /\ kept' \in Secrets
      BY <1>0, <2>1 DEF SaversTurn, Saving, SecretsTypeOK, Savers
    <2>3. saver' \in [SecretCalls -> Savers] /\ \A d \in SecretCalls : ~Saving(d)'
      <3>1. \A d \in SecretCalls : d # c => ~Saving(d)
        BY <1>0, <2>2 DEF SaversTurn
      <3>2. QED
        BY <1>0, <2>1, <3>1, SaverGoes DEF Saving, SaverPlaces
    <2>4. older' \subseteq keptOnce'
      BY <2>1, <2>2 DEF SecretsInv, OlderStored
    <2>5. QED
      BY <2>1, <2>2, <2>3, <2>4 DEF SecretsInv, SecretsTypeOK, SaversTurn, OlderStored
  <1>8. ASSUME Commit PROVE SecretsInv'
    BY <1>8 DEF Commit, SecretsInv, SecretsTypeOK, SaversTurn, Saving, OlderStored
  <1>9. ASSUME ProcessStops PROVE SecretsInv'
    BY <1>9, StoppedRests DEF ProcessStops, SecretsInv, SecretsTypeOK, SaversTurn, OlderStored
  <1>10. ASSUME PowerLoss PROVE SecretsInv'
    <2>1. secretsFile' \in keptOnce /\ secretsFile' \in Secrets
      BY <1>10 DEF PowerLoss, SecretsInv, SecretsTypeOK, OlderStored
    <2>2. kept' = secretsFile' /\ older' = {} /\ keptOnce' = keptOnce
      BY <1>10, <2>1, WholeIsNotTorn DEF PowerLoss
    <2>3. QED
      BY <1>10, <2>1, <2>2, StoppedRests
      DEF PowerLoss, SecretsInv, SecretsTypeOK, SaversTurn, OlderStored
  <1>11. ASSUME UNCHANGED secretVars PROVE SecretsInv'
    BY <1>11 DEF secretVars, SecretsInv, SecretsTypeOK, SaversTurn, Saving, OlderStored
  <1>12. QED
    BY <1>1, <1>2, <1>3, <1>4, <1>5, <1>6, <1>7, <1>8, <1>9, <1>10, <1>11
    DEF SecretsNext

\* However callers, failures, stops and power losses interleave, the file
\* decrypts and holds what was stored at one moment (fileBackend.update).
THEOREM SecretsAlwaysWhole == SecretsSpec => []SecretsWhole
  <1>1. SecretsInv => SecretsWhole
    BY WholeIsNotTorn DEF SecretsInv, SecretsTypeOK, SecretsWhole
  <1>2. QED
    BY <1>1, SecretsInvInit, SecretsInvNext, PTL DEF SecretsSpec

-----------------------------------------------------------------------------
(* Translators *)

GemmaPlaces == {"idle", "resolve", "warm", "load", "acquire", "post", "backoff", "stream"}
GemmaRecs == [at : GemmaPlaces, model : GemmaModels \cup {NoKey}, tries : Nat, since : Nat]
GeminiRecs == [at : {"idle", "call"}, key : GoogleKeys \cup {NoKey}, since : Nat]

\* A call that goes to a model has one, and a call that was given a key has it.
CallTypes ==
  /\ gemmaModel \in GemmaModels /\ googleKey \in GoogleKeys \cup {NoKey} /\ translateTime \in Nat
  /\ gemmaCached \in [is : GemmaModels \cup {NoKey}, expires : Nat]
  /\ clients \in [is : GoogleKeys \cup {NoKey}, expires : Nat]
  /\ slots \in [GemmaModels -> Nat]
  /\ setAt \in [GemmaModels \cup GoogleKeys -> Nat]
  /\ gemma \in [GemmaCalls -> GemmaRecs] /\ gemini \in [GeminiCalls -> GeminiRecs]
  /\ \A c \in GemmaCalls : gemma[c].at \in {"load", "acquire", "post", "backoff", "stream"} =>
       gemma[c].model \in GemmaModels
  /\ \A c \in GeminiCalls : gemini[c].at = "call" => gemini[c].key \in GoogleKeys

\* The calls that hold a slot are finitely many, and counted.
SlotsCounted ==
  \A m \in GemmaModels :
    /\ IsFiniteSet(Holding(m)) /\ slots[m] = Cardinality(Holding(m)) /\ slots[m] <= Concurrency

\* What is kept was set when it was read; if it is not any more, it was then or
\* later that it was replaced.
KeptIsRecent(entry, now) ==
  entry.is # NoKey /\ entry.is # now => entry.expires <= setAt[entry.is] + ConfigTTL

\* Nothing was set in the future, and no call was answered there.
NothingAhead ==
  /\ \A v \in GemmaModels \cup GoogleKeys : setAt[v] <= translateTime
  /\ \A c \in GemmaCalls : gemma[c].since <= translateTime
  /\ \A c \in GeminiCalls : gemini[c].since <= translateTime
  /\ gemmaCached.expires <= translateTime + ConfigTTL /\ clients.expires <= translateTime + ConfigTTL

CallInv ==
  /\ CallTypes /\ SlotsCounted /\ NothingAhead /\ SettingsFollowed
  /\ KeptIsRecent(gemmaCached, gemmaModel) /\ KeptIsRecent(clients, googleKey)

\* What is assumed of the limits, one by one.
LEMMA Times == ConfigTTL \in Nat /\ ConfigTTL > 0 /\ Concurrency \in Nat /\ Retries \in Nat /\ NoKey \notin GoogleKeys
BY TranslatorAssumption DEF TranslatorAssumption

\* A call that comes to hold a slot of its model, or goes on holding it or not
\* holding one, or gives it back.
Holds(c) == gemma[c].at \in {"post", "backoff", "stream"}

\* Each call changes only what is counted of itself.
LEMMA SlotsStay ==
  ASSUME CallTypes, SlotsCounted, NEW c \in GemmaCalls, NEW g \in GemmaRecs,
         gemma' = [gemma EXCEPT ![c] = g], slots' = slots,
         \A m \in GemmaModels : c \in Holding(m) <=>
           g.model = m /\ g.at \in {"post", "backoff", "stream"}
  PROVE  SlotsCounted'
<1>1. \A d \in GemmaCalls : gemma'[d] = IF d = c THEN g ELSE gemma[d] BY DEF CallTypes
<1>2. \A m \in GemmaModels : Holding(m)' = Holding(m) BY <1>1 DEF Holding
<1> QED BY <1>2 DEF SlotsCounted

\* A slot is taken.
LEMMA SlotTaken ==
  ASSUME CallTypes, SlotsCounted, NEW c \in GemmaCalls, NEW g \in GemmaRecs, NEW m \in GemmaModels,
         gemma' = [gemma EXCEPT ![c] = g], slots' = [slots EXCEPT ![m] = @ + 1],
         slots[m] < Concurrency, gemma[c].at = "acquire", g.model = m, g.at = "post"
  PROVE  SlotsCounted'
<1>1. \A d \in GemmaCalls : gemma'[d] = IF d = c THEN g ELSE gemma[d] BY DEF CallTypes
<1>2. c \notin Holding(m) BY DEF Holding
<1>3. Holding(m)' = Holding(m) \cup {c} BY <1>1 DEF Holding
<1>4. \A k \in GemmaModels : k # m => Holding(k)' = Holding(k) BY <1>1 DEF Holding
<1>5. IsFiniteSet(Holding(m)) /\ slots[m] = Cardinality(Holding(m)) /\ slots[m] \in Nat
  BY DEF SlotsCounted, CallTypes
<1>6. IsFiniteSet(Holding(m)') /\ Cardinality(Holding(m)') = slots[m] + 1
  BY <1>2, <1>3, <1>5, FS_AddElement
<1>7. slots'[m] = slots[m] + 1 /\ \A k \in GemmaModels : k # m => slots'[k] = slots[k] BY DEF CallTypes
<1>8. slots'[m] <= Concurrency BY <1>5, <1>7, Times
<1> QED BY <1>4, <1>6, <1>7, <1>8 DEF SlotsCounted

\* A slot is given back by a call that has it.
LEMMA SlotGivenBack ==
  ASSUME CallTypes, SlotsCounted, NEW c \in GemmaCalls, GemmaReturns(c), Holds(c)
  PROVE  SlotsCounted' /\ slots' \in [GemmaModels -> Nat]
<1>0. PICK m \in GemmaModels : m = gemma[c].model BY DEF CallTypes, Holds
<1>1. /\ \A d \in GemmaCalls : gemma'[d] = IF d = c THEN NoGemma ELSE gemma[d]
      /\ slots' = [slots EXCEPT ![m] = @ - 1] /\ slots[m] > 0
  BY <1>0 DEF CallTypes, GemmaReturns, GemmaGoes, SlotOf
<1>2. c \in Holding(m) BY <1>0 DEF Holding, Holds
<1>3. \A k \in GemmaModels : Holding(k)' = IF k = m THEN Holding(m) \ {c} ELSE Holding(k)
  BY <1>0, <1>1 DEF Holding, NoGemma, Holds
<1>5. IsFiniteSet(Holding(m)) /\ slots[m] = Cardinality(Holding(m)) /\ slots[m] \in Nat /\ slots[m] <= Concurrency
  BY <1>0 DEF SlotsCounted, CallTypes
<1>6. IsFiniteSet(Holding(m)') /\ Cardinality(Holding(m)') = slots[m] - 1
  <2>1. Holding(m)' = Holding(m) \ {c} BY <1>0, <1>3
  <2>2. IsFiniteSet(Holding(m) \ {c}) BY <1>5, FS_RemoveElement
  <2>3. Cardinality(Holding(m) \ {c}) = Cardinality(Holding(m)) - 1 BY <1>2, <1>5, FS_RemoveElement
  <2> QED BY <1>5, <2>1, <2>2, <2>3
<1>7. slots'[m] = slots[m] - 1 /\ \A k \in GemmaModels : k # m => slots'[k] = slots[k] BY <1>0, <1>1 DEF CallTypes
<1>8. slots'[m] <= Concurrency /\ slots'[m] \in Nat BY <1>1, <1>5, <1>7, Times
<1>9. slots' \in [GemmaModels -> Nat]
  <2>1. PICK n \in Nat : n = slots[m] - 1 BY <1>7, <1>8
  <2>2. slots' = [slots EXCEPT ![m] = n] BY <1>1, <2>1
  <2>3. slots \in [GemmaModels -> Nat] BY DEF CallTypes
  <2> QED BY <2>2, <2>3
<1>10. SlotsCounted' BY <1>0, <1>3, <1>6, <1>7, <1>8 DEF SlotsCounted
<1> QED BY <1>9, <1>10

\* What the Gemini calls and the settings are to the Gemma calls, and the other
\* way round: each half changes without the other.
LEMMA OthersKeep ==
  ASSUME CallInv, UNCHANGED <<geminiVars, setAt, translateTime>>,
         CallTypes', SlotsCounted',
         gemmaModel' = gemmaModel,
         \A c \in GemmaCalls : gemma'[c].since <= translateTime,
         gemmaCached'.expires <= translateTime + ConfigTTL,
         KeptIsRecent(gemmaCached, gemmaModel)',
         \A c \in GemmaCalls : gemma'[c].at = "acquire" =>
           gemma'[c] = gemma[c] \/ InUse(gemma'[c].model, gemmaModel, gemma'[c].since)
  PROVE  CallInv'
<1>1. NothingAhead' BY DEF CallInv, NothingAhead, geminiVars
<1>2. SettingsFollowed' BY DEF CallInv, SettingsFollowed, InUse, GemmaAt, geminiVars
<1>3. KeptIsRecent(clients, googleKey)' BY DEF CallInv, KeptIsRecent, geminiVars
<1> QED BY <1>1, <1>2, <1>3 DEF CallInv

\* What is fresh was set within the time that settings are reused.
LEMMA FreshIsInUse ==
  ASSUME CallInv
  PROVE  /\ Fresh(gemmaCached) => gemmaCached.is \in GemmaModels /\ InUse(gemmaCached.is, gemmaModel, translateTime)
         /\ Fresh(clients) => clients.is \in GoogleKeys /\ InUse(clients.is, googleKey, translateTime)
<1>1. \A v \in GemmaModels \cup GoogleKeys : setAt[v] \in Nat BY DEF CallInv, CallTypes
<1>2. /\ translateTime \in Nat /\ gemmaCached.expires \in Nat /\ clients.expires \in Nat
      /\ gemmaCached.is \in GemmaModels \cup {NoKey} /\ clients.is \in GoogleKeys \cup {NoKey}
  BY DEF CallInv, CallTypes
<1>3. KeptIsRecent(gemmaCached, gemmaModel) /\ KeptIsRecent(clients, googleKey) BY DEF CallInv
<1> QED BY <1>1, <1>2, <1>3, Times DEF Fresh, InUse, KeptIsRecent

\* Each step of a call, a change of the settings or of the time keeps the
\* invariant.
LEMMA CallInvNext == ASSUME CallInv, [TranslatorsNext]_translatorVars PROVE CallInv'
<1>0. /\ CallTypes /\ SlotsCounted /\ NothingAhead /\ SettingsFollowed
      /\ KeptIsRecent(gemmaCached, gemmaModel) /\ KeptIsRecent(clients, googleKey)
  BY DEF CallInv
<1>a. NoGemma \in GemmaRecs /\ NoGemma.at = "idle" /\ NoGemma.since = 0
  BY DEF NoGemma, GemmaRecs, GemmaPlaces
<1>1. ASSUME NEW c \in GemmaCalls, NEW g \in GemmaRecs, gemma' = [gemma EXCEPT ![c] = g],
             UNCHANGED <<geminiVars, setAt, translateTime, gemmaModel, gemmaCached>>,
             slots' \in [GemmaModels -> Nat], SlotsCounted',
             g.since = 0, g.at # "acquire", g.at \in {"load", "post", "backoff", "stream"} => g.model \in GemmaModels
      PROVE  CallInv'
  <2>1. /\ gemma' \in [GemmaCalls -> GemmaRecs]
        /\ \A d \in GemmaCalls : gemma'[d] = IF d = c THEN g ELSE gemma[d]
    BY <1>0, <1>1 DEF CallTypes
  <2>2. CallTypes' BY <1>0, <1>1, <2>1 DEF CallTypes, geminiVars
  <2>3. \A d \in GemmaCalls : gemma'[d].since <= translateTime
    BY <1>0, <1>1, <2>1 DEF NothingAhead, CallTypes
  <2>4. KeptIsRecent(gemmaCached, gemmaModel)' BY <1>0, <1>1 DEF KeptIsRecent
  <2>5. gemmaCached'.expires <= translateTime + ConfigTTL BY <1>0, <1>1 DEF NothingAhead
  <2> QED BY <1>1, <2>1, <2>2, <2>3, <2>4, <2>5, OthersKeep
<1>2. ASSUME NEW c \in GemmaCalls, GemmaReturns(c), Holds(c),
             UNCHANGED <<geminiVars, setAt, translateTime, gemmaModel, gemmaCached>>
      PROVE  CallInv'
  <2>1. gemma' = [gemma EXCEPT ![c] = NoGemma] BY <1>2 DEF GemmaReturns, GemmaGoes
  <2> QED BY <1>0, <1>a, <1>1, <1>2, <2>1, SlotGivenBack
<1>3. ASSUME NEW c \in GemmaCalls, NEW place \in GemmaPlaces, GemmaGoes(c, place), slots' = slots,
             UNCHANGED <<geminiVars, setAt, translateTime, gemmaModel, gemmaCached>>,
             place # "acquire", place \in {"post", "backoff", "stream"} <=> Holds(c),
             place # "load"
      PROVE  CallInv'
  <2>1. PICK g \in GemmaRecs :
          /\ gemma' = [gemma EXCEPT ![c] = g] /\ g.at = place /\ g.since = 0
          /\ place # "idle" => g.model = gemma[c].model
    <3>1. CASE place = "idle" BY <1>3, <1>a, <3>1 DEF GemmaGoes
    <3>2. CASE place # "idle"
      <4>1. gemma[c] \in GemmaRecs BY <1>0 DEF CallTypes
      <4>2. PICK g \in GemmaRecs : g = [gemma[c] EXCEPT !.at = place, !.since = 0]
        BY <4>1 DEF GemmaRecs
      <4>3. g.at = place /\ g.since = 0 /\ g.model = gemma[c].model BY ONLY <4>1, <4>2 DEF GemmaRecs
      <4>4. gemma' = [gemma EXCEPT ![c] = g] BY <1>3, <3>2, <4>2 DEF GemmaGoes
      <4> QED BY <4>3, <4>4
    <3> QED BY <3>1, <3>2
  <2>2. Holds(c) => gemma[c].model \in GemmaModels BY <1>0 DEF Holds, CallTypes
  <2>3. \A m \in GemmaModels : c \in Holding(m) <=> g.model = m /\ g.at \in {"post", "backoff", "stream"}
    BY <1>3, <2>1 DEF Holding, Holds
  <2>4. SlotsCounted' BY <1>0, <1>3, <2>1, <2>3, SlotsStay
  <2>5. slots' \in [GemmaModels -> Nat] BY <1>0, <1>3 DEF CallTypes
  <2> QED BY <1>1, <1>3, <2>1, <2>2, <2>4, <2>5
<1>4. ASSUME NEW c \in GemmaCalls, NEW place \in {"resolve", "warm"}, AskGemma(c, place),
             UNCHANGED <<geminiVars, setAt, translateTime>>
      PROVE  CallInv'
  <2>1. PICK g \in GemmaRecs : g = [NoGemma EXCEPT !.at = place] BY DEF NoGemma, GemmaRecs, GemmaPlaces
  <2>2. g.at = place /\ g.since = 0 BY <2>1 DEF NoGemma
  <2>3. gemma' = [gemma EXCEPT ![c] = g] /\ slots' = slots /\ gemma[c].at = "idle"
    BY <1>4, <2>1 DEF AskGemma, GemmaAt
  <2>4. SlotsCounted' BY <1>0, <2>2, <2>3, SlotsStay DEF Holding
  <2>5. slots' \in [GemmaModels -> Nat] BY <1>0, <2>3 DEF CallTypes
  <2> QED BY <1>1, <1>4, <2>2, <2>3, <2>4, <2>5 DEF AskGemma
<1>5. ASSUME NEW c \in GemmaCalls, NEW b \in BOOLEAN, ResolveGemma(c, b),
             UNCHANGED <<geminiVars, setAt, translateTime>>
      PROVE  CallInv'
  <2>1. gemma[c].at \in {"resolve", "warm"} /\ slots' = slots /\ gemmaModel' = gemmaModel
    BY <1>5 DEF ResolveGemma, GemmaAt
  <2>2. CASE GemmaGoes(c, "idle") /\ UNCHANGED gemmaCached
    BY <1>3, <1>5, <2>1, <2>2 DEF Holds, GemmaPlaces
  <2>3. CASE ~(GemmaGoes(c, "idle") /\ UNCHANGED gemmaCached)
    <3>1. PICK m \in GemmaModels :
            /\ gemma' = [gemma EXCEPT ![c] = [at |-> IF GemmaAt(c, "warm") THEN "load" ELSE "acquire",
                                              model |-> m, tries |-> 0, since |-> translateTime]]
            /\ InUse(m, gemmaModel, translateTime)
            /\ \/ gemmaCached' = gemmaCached
               \/ m = gemmaModel /\ gemmaCached' = Resolved(gemmaModel)
      <4>1. CASE Fresh(gemmaCached) BY <1>5, <4>1, FreshIsInUse DEF ResolveGemma
      <4>2. CASE ~Fresh(gemmaCached)
        BY <1>0, <1>5, <2>3, <4>2 DEF ResolveGemma, InUse, CallTypes
      <4> QED BY <4>1, <4>2
    <3>2. PICK g \in GemmaRecs : g = [at |-> IF GemmaAt(c, "warm") THEN "load" ELSE "acquire",
                                      model |-> m, tries |-> 0, since |-> translateTime]
      BY <1>0 DEF GemmaRecs, GemmaPlaces, CallTypes
    <3>3. g.at \in {"load", "acquire"} /\ g.model = m /\ g.since = translateTime BY <3>2
    <3>4. gemma' = [gemma EXCEPT ![c] = g] BY <3>1, <3>2
    <3>5. SlotsCounted' BY <1>0, <2>1, <3>3, <3>4, SlotsStay DEF Holding
    <3>6. /\ gemma' \in [GemmaCalls -> GemmaRecs]
          /\ \A d \in GemmaCalls : gemma'[d] = IF d = c THEN g ELSE gemma[d]
      BY <1>0, <3>4 DEF CallTypes
    <3>7. /\ gemmaCached' \in [is : GemmaModels \cup {NoKey}, expires : Nat]
          /\ gemmaCached'.expires <= translateTime + ConfigTTL
          /\ KeptIsRecent(gemmaCached, gemmaModel)'
      BY <1>0, <1>5, <2>1, <3>1, Times DEF CallTypes, NothingAhead, KeptIsRecent, Resolved
    <3>8. CallTypes' BY <1>0, <1>5, <2>1, <3>3, <3>6, <3>7 DEF CallTypes, geminiVars
    <3>9. \A d \in GemmaCalls : gemma'[d].since <= translateTime
      BY <1>0, <3>3, <3>6 DEF NothingAhead, CallTypes
    <3>10. \A d \in GemmaCalls : gemma'[d].at = "acquire" =>
             gemma'[d] = gemma[d] \/ InUse(gemma'[d].model, gemmaModel, gemma'[d].since)
      BY <3>1, <3>3, <3>6
    <3> QED BY <1>5, <2>1, <3>5, <3>7, <3>8, <3>9, <3>10, OthersKeep
  <2> QED BY <2>2, <2>3
<1>6. ASSUME NEW c \in GemmaCalls, LoadModel(c) \/ StreamGemma(c), UNCHANGED <<geminiVars, setAt, translateTime>>
      PROVE  CallInv'
  <2>1. CASE LoadModel(c) BY <1>3, <1>6, <2>1 DEF LoadModel, GemmaAt, Holds, GemmaPlaces
  <2>2. CASE StreamGemma(c) BY <1>2, <1>6, <2>2 DEF StreamGemma, GemmaAt, Holds
  <2> QED BY <1>6, <2>1, <2>2
<1>7. ASSUME NEW c \in GemmaCalls, NEW b \in BOOLEAN, Acquire(c, b), UNCHANGED <<geminiVars, setAt, translateTime>>
      PROVE  CallInv'
  <2> DEFINE m == gemma[c].model
  <2>1. gemma[c].at = "acquire" /\ m \in GemmaModels BY <1>0, <1>7 DEF Acquire, GemmaAt, CallTypes
  <2>2. CASE GemmaGoes(c, "idle") /\ UNCHANGED slots
    BY <1>3, <1>7, <2>1, <2>2 DEF Acquire, Holds, GemmaPlaces
  <2>3. CASE /\ slots[m] < Concurrency /\ slots' = [slots EXCEPT ![m] = @ + 1]
             /\ GemmaGoes(c, "post")
    <3>1. gemma[c] \in GemmaRecs BY <1>0 DEF CallTypes
    <3>2. PICK g \in GemmaRecs : g = [gemma[c] EXCEPT !.at = "post", !.since = 0]
      BY <3>1 DEF GemmaRecs, GemmaPlaces
    <3>3. g.at = "post" /\ g.since = 0 /\ g.model = m BY ONLY <3>1, <3>2 DEF GemmaRecs, m
    <3>4. gemma' = [gemma EXCEPT ![c] = g] BY <2>3, <3>2 DEF GemmaGoes
    <3>5. SlotsCounted' BY <1>0, <2>1, <2>3, <3>3, <3>4, SlotTaken
    <3>6. slots' \in [GemmaModels -> Nat]
      <4>1. slots \in [GemmaModels -> Nat] BY <1>0 DEF CallTypes
      <4>2. PICK n \in Nat : n = slots[m] + 1 BY <2>1, <4>1
      <4>3. slots' = [slots EXCEPT ![m] = n] BY <2>3, <4>2
      <4> QED BY ONLY <2>1, <4>1, <4>2, <4>3
    <3> QED BY <1>1, <1>7, <2>1, <3>3, <3>4, <3>5, <3>6 DEF Acquire
  <2> QED BY <1>7, <2>2, <2>3 DEF Acquire
<1>8. ASSUME NEW c \in GemmaCalls, NEW answer \in {"ok", "transient", "refused"}, PostGemma(c, answer),
             UNCHANGED <<geminiVars, setAt, translateTime>>
      PROVE  CallInv'
  <2>1. gemma[c].at = "post" /\ Holds(c) /\ UNCHANGED <<gemmaModel, gemmaCached>>
    BY <1>8 DEF PostGemma, GemmaAt, Holds
  <2>2. CASE GemmaGoes(c, "stream") /\ UNCHANGED slots BY <1>3, <1>8, <2>1, <2>2 DEF GemmaPlaces
  <2>3. CASE GemmaReturns(c) BY <1>2, <1>8, <2>1, <2>3
  <2>4. CASE gemma' = [gemma EXCEPT ![c].at = "backoff", ![c].tries = @ + 1] /\ UNCHANGED slots
    <3>1. gemma[c] \in GemmaRecs /\ gemma[c].model \in GemmaModels BY <1>0, <2>1 DEF CallTypes
    <3>2. PICK g \in GemmaRecs : g = [gemma[c] EXCEPT !.at = "backoff", !.tries = @ + 1]
      <4>1. PICK n \in Nat : n = gemma[c].tries + 1 BY <3>1 DEF GemmaRecs
      <4>2. [gemma[c] EXCEPT !.at = "backoff", !.tries = n] \in GemmaRecs
        BY ONLY <3>1, n \in Nat DEF GemmaRecs, GemmaPlaces
      <4> QED BY <4>1, <4>2
    <3>3. g.at = "backoff" /\ g.since = gemma[c].since /\ g.model = gemma[c].model
      BY ONLY <3>1, <3>2 DEF GemmaRecs
    <3>4. gemma' = [gemma EXCEPT ![c] = g] BY <2>4, <3>2
    <3>5. SlotsCounted'
      <4>1. \A m \in GemmaModels :
              c \in Holding(m) <=> g.model = m /\ g.at \in {"post", "backoff", "stream"}
        BY <2>1, <3>3 DEF Holding
      <4> QED BY <1>0, <2>4, <3>4, <4>1, SlotsStay
    <3>6. /\ gemma' \in [GemmaCalls -> GemmaRecs]
          /\ \A d \in GemmaCalls : gemma'[d] = IF d = c THEN g ELSE gemma[d]
      BY <1>0, <3>4 DEF CallTypes
    <3>7. CallTypes' BY <1>0, <1>8, <2>1, <2>4, <3>1, <3>3, <3>6 DEF CallTypes, geminiVars
    <3>8. \A d \in GemmaCalls : gemma'[d].since <= translateTime
      BY <1>0, <3>3, <3>6 DEF NothingAhead
    <3>9. KeptIsRecent(gemmaCached, gemmaModel)' BY <1>0, <1>8, <2>1 DEF KeptIsRecent
    <3>10. gemmaCached'.expires <= translateTime + ConfigTTL BY <1>0, <2>1 DEF NothingAhead
    <3>11. \A d \in GemmaCalls : gemma'[d].at = "acquire" => gemma'[d] = gemma[d] BY <3>3, <3>6
    <3> QED BY <1>8, <2>1, <3>5, <3>7, <3>8, <3>9, <3>10, <3>11, OthersKeep
  <2> QED BY <1>8, <2>2, <2>3, <2>4 DEF PostGemma
<1>9. ASSUME NEW c \in GemmaCalls, NEW b \in BOOLEAN, BackoffGemma(c, b), UNCHANGED <<geminiVars, setAt, translateTime>>
      PROVE  CallInv'
  <2>1. gemma[c].at = "backoff" /\ Holds(c) /\ UNCHANGED <<gemmaModel, gemmaCached>>
    BY <1>9 DEF BackoffGemma, GemmaAt, Holds
  <2>2. CASE GemmaGoes(c, "post") /\ UNCHANGED slots BY <1>3, <1>9, <2>1, <2>2 DEF GemmaPlaces
  <2>3. CASE GemmaReturns(c) BY <1>2, <1>9, <2>1, <2>3
  <2> QED BY <1>9, <2>2, <2>3 DEF BackoffGemma
<1>10. ASSUME NEW m \in GemmaModels, SetModel(m) PROVE CallInv'
  <2>1. /\ gemmaModel' = m /\ m # gemmaModel
        /\ UNCHANGED <<gemmaCached, slots, gemma, googleKey, clients, gemini, translateTime>>
        /\ setAt' \in [GemmaModels \cup GoogleKeys -> Nat]
        /\ \A v \in GemmaModels \cup GoogleKeys :
             setAt'[v] = IF v = gemmaModel THEN translateTime ELSE setAt[v]
    BY <1>0, <1>10 DEF SetModel, CallTypes, geminiVars
  <2>2. CallTypes' BY <1>0, <2>1 DEF CallTypes
  <2>3. SlotsCounted' BY <1>0, <2>1 DEF SlotsCounted, Holding
  <2>4. NothingAhead' BY <1>0, <2>1 DEF NothingAhead, CallTypes
  <2>5. \A v \in GemmaModels \cup GoogleKeys : setAt[v] \in Nat /\ setAt'[v] \in Nat /\ setAt'[v] >= setAt[v]
    BY <1>0, <2>1 DEF NothingAhead, CallTypes
  <2>6. translateTime \in Nat /\ gemmaModel \in GemmaModels BY <1>0 DEF CallTypes
  <2>7. SettingsFollowed'
    <3>1. \A c \in GemmaCalls : gemma[c].since \in Nat /\ gemma[c].since <= translateTime
      BY <1>0 DEF CallTypes, NothingAhead, GemmaRecs
    <3>2. \A c \in GeminiCalls : gemini[c].since \in Nat BY <1>0 DEF CallTypes, GeminiRecs
    <3>3. \A c \in GemmaCalls : GemmaAt(c, "acquire") => gemma[c].model \in GemmaModels
      BY <1>0 DEF CallTypes, GemmaAt
    <3>4. \A c \in GeminiCalls : gemini[c].at = "call" => gemini[c].key \in GoogleKeys BY <1>0 DEF CallTypes
    <3>5. \A c \in GemmaCalls : GemmaAt(c, "acquire")' => InUse(gemma[c].model, gemmaModel, gemma[c].since)'
      BY <1>0, <2>1, <2>5, <2>6, <3>1, <3>3, Times DEF SettingsFollowed, InUse, GemmaAt
    <3>6. \A c \in GeminiCalls : gemini'[c].at = "call" => InUse(gemini[c].key, googleKey, gemini[c].since)'
      BY <1>0, <2>1, <2>5, <3>2, <3>4, Times DEF SettingsFollowed, InUse
    <3> QED BY <3>5, <3>6 DEF SettingsFollowed
  <2>8. /\ KeptIsRecent(gemmaCached, gemmaModel)'
        /\ KeptIsRecent(clients, googleKey)'
    <3>1. /\ gemmaCached.is \in GemmaModels \cup {NoKey} /\ clients.is \in GoogleKeys \cup {NoKey}
          /\ gemmaCached.expires \in Nat /\ clients.expires \in Nat
          /\ gemmaCached.expires <= translateTime + ConfigTTL
      BY <1>0 DEF CallTypes, NothingAhead
    <3> QED BY <1>0, <2>1, <2>5, <2>6, <3>1, Times DEF KeptIsRecent
  <2> QED BY <2>2, <2>3, <2>4, <2>7, <2>8 DEF CallInv
<1>11. ASSUME NEW k \in GoogleKeys \cup {NoKey}, SetKey(k) PROVE CallInv'
  <2>1. /\ googleKey' = k /\ k # googleKey
        /\ UNCHANGED <<gemmaModel, gemmaCached, slots, gemma, clients, gemini, translateTime>>
        /\ setAt' \in [GemmaModels \cup GoogleKeys -> Nat]
        /\ \A v \in GemmaModels \cup GoogleKeys :
             setAt'[v] = IF googleKey # NoKey /\ v = googleKey THEN translateTime ELSE setAt[v]
    BY <1>0, <1>11 DEF SetKey, CallTypes, gemmaVars
  <2>2. CallTypes' BY <1>0, <2>1 DEF CallTypes
  <2>3. SlotsCounted' BY <1>0, <2>1 DEF SlotsCounted, Holding
  <2>4. NothingAhead' BY <1>0, <2>1 DEF NothingAhead, CallTypes
  <2>5. \A v \in GemmaModels \cup GoogleKeys : setAt[v] \in Nat /\ setAt'[v] \in Nat /\ setAt'[v] >= setAt[v]
    BY <1>0, <2>1 DEF NothingAhead, CallTypes
  <2>6. translateTime \in Nat BY <1>0 DEF CallTypes
  <2>7. SettingsFollowed'
    <3>1. \A c \in GemmaCalls : gemma[c].since \in Nat BY <1>0 DEF CallTypes, GemmaRecs
    <3>2. \A c \in GeminiCalls : gemini[c].since \in Nat /\ gemini[c].since <= translateTime
      BY <1>0 DEF CallTypes, GeminiRecs, NothingAhead
    <3>3. \A c \in GemmaCalls : GemmaAt(c, "acquire") => gemma[c].model \in GemmaModels
      BY <1>0 DEF CallTypes, GemmaAt
    <3>4. \A c \in GeminiCalls : gemini[c].at = "call" => gemini[c].key \in GoogleKeys BY <1>0 DEF CallTypes
    <3>5. \A c \in GemmaCalls : GemmaAt(c, "acquire")' => InUse(gemma[c].model, gemmaModel, gemma[c].since)'
      BY <1>0, <2>1, <2>5, <3>1, <3>3, Times DEF SettingsFollowed, InUse, GemmaAt
    <3>6. \A c \in GeminiCalls : gemini'[c].at = "call" => InUse(gemini[c].key, googleKey, gemini[c].since)'
      BY <1>0, <2>1, <2>5, <2>6, <3>2, <3>4, Times DEF SettingsFollowed, InUse
    <3> QED BY <3>5, <3>6 DEF SettingsFollowed
  <2>8. /\ KeptIsRecent(gemmaCached, gemmaModel)'
        /\ KeptIsRecent(clients, googleKey)'
    <3>1. /\ gemmaCached.is \in GemmaModels \cup {NoKey} /\ clients.is \in GoogleKeys \cup {NoKey}
          /\ gemmaCached.expires \in Nat /\ clients.expires \in Nat
          /\ clients.expires <= translateTime + ConfigTTL
      BY <1>0 DEF CallTypes, NothingAhead
    <3> QED BY <1>0, <2>1, <2>5, <2>6, <3>1, Times DEF KeptIsRecent
  <2> QED BY <2>2, <2>3, <2>4, <2>7, <2>8 DEF CallInv
<1>12. ASSUME NEW c \in GeminiCalls, NEW b \in BOOLEAN, ResolveGemini(c, b) PROVE CallInv'
  <2>1. UNCHANGED <<googleKey, gemmaModel, gemmaCached, slots, gemma, setAt, translateTime>>
    BY <1>12 DEF ResolveGemini, gemmaVars
  <2>2. \/ clients' = clients /\ Fresh(clients)
        \/ googleKey # NoKey /\ clients' = Resolved(googleKey)
    BY <1>12 DEF ResolveGemini, Reopen
  <2>3. /\ clients' \in [is : GoogleKeys \cup {NoKey}, expires : Nat] /\ clients'.is \in GoogleKeys
        /\ InUse(clients'.is, googleKey, translateTime) /\ KeptIsRecent(clients', googleKey)
        /\ clients'.expires <= translateTime + ConfigTTL
    BY <1>0, <2>2, FreshIsInUse, Times DEF Resolved, CallTypes, InUse, KeptIsRecent, NothingAhead
  <2>4. PICK g \in GeminiRecs : g = [at |-> "call", key |-> clients'.is, since |-> translateTime]
    BY <1>0, <2>3 DEF GeminiRecs, CallTypes
  <2>5. gemini' = [gemini EXCEPT ![c] = g] BY <1>12, <2>4 DEF ResolveGemini
  <2>6. /\ gemini' \in [GeminiCalls -> GeminiRecs]
        /\ \A d \in GeminiCalls : gemini'[d] = IF d = c THEN g ELSE gemini[d]
    BY <1>0, <2>5 DEF CallTypes
  <2>7. g.at = "call" /\ g.key = clients'.is /\ g.since = translateTime BY <2>4
  <2>8. CallTypes' BY <1>0, <2>1, <2>3, <2>6, <2>7 DEF CallTypes
  <2>9. NothingAhead' BY <1>0, <2>1, <2>3, <2>6, <2>7 DEF NothingAhead, CallTypes
  <2>10. SettingsFollowed' BY <1>0, <2>1, <2>3, <2>6, <2>7 DEF SettingsFollowed, InUse, GemmaAt
  <2>11. SlotsCounted' BY <1>0, <2>1 DEF SlotsCounted, Holding
  <2>12. KeptIsRecent(gemmaCached, gemmaModel)' /\ KeptIsRecent(clients, googleKey)'
    BY <1>0, <2>1, <2>3 DEF KeptIsRecent
  <2> QED BY <2>8, <2>9, <2>10, <2>11, <2>12 DEF CallInv
<1>13. ASSUME NEW c \in GeminiCalls, GeminiReturns(c) PROVE CallInv'
  <2>1. /\ UNCHANGED <<googleKey, clients, gemmaModel, gemmaCached, slots, gemma, setAt, translateTime>>
        /\ gemini' = [gemini EXCEPT ![c] = NoGemini]
    BY <1>13 DEF GeminiReturns, gemmaVars
  <2>2. NoGemini \in GeminiRecs /\ NoGemini.at = "idle" /\ NoGemini.since = 0 BY DEF NoGemini, GeminiRecs
  <2>3. /\ gemini' \in [GeminiCalls -> GeminiRecs]
        /\ \A d \in GeminiCalls : gemini'[d] = IF d = c THEN NoGemini ELSE gemini[d]
    BY <1>0, <2>1, <2>2 DEF CallTypes
  <2>4. CallTypes' BY <1>0, <2>1, <2>2, <2>3 DEF CallTypes
  <2>5. NothingAhead' BY <1>0, <2>1, <2>2, <2>3 DEF NothingAhead, CallTypes
  <2>6. SettingsFollowed' BY <1>0, <2>1, <2>2, <2>3 DEF SettingsFollowed, InUse, GemmaAt
  <2>7. SlotsCounted' BY <1>0, <2>1 DEF SlotsCounted, Holding
  <2>8. KeptIsRecent(gemmaCached, gemmaModel)' /\ KeptIsRecent(clients, googleKey)'
    BY <1>0, <2>1 DEF KeptIsRecent
  <2> QED BY <2>4, <2>5, <2>6, <2>7, <2>8 DEF CallInv
<1>14. CASE TranslateTick \/ UNCHANGED translatorVars
  <2>1. /\ UNCHANGED <<gemmaModel, gemmaCached, slots, gemma, googleKey, clients, gemini, setAt>>
        /\ translateTime' \in Nat /\ translateTime' >= translateTime
    BY <1>0, <1>14 DEF TranslateTick, translatorVars, gemmaVars, geminiVars, CallTypes
  <2>2. CallTypes' BY <1>0, <2>1 DEF CallTypes
  <2>3. NothingAhead'
    <3>1. /\ \A v \in GemmaModels \cup GoogleKeys : setAt[v] \in Nat
          /\ \A c \in GemmaCalls : gemma[c].since \in Nat
          /\ \A c \in GeminiCalls : gemini[c].since \in Nat
          /\ gemmaCached.expires \in Nat /\ clients.expires \in Nat /\ translateTime \in Nat
      BY <1>0 DEF CallTypes, GemmaRecs, GeminiRecs
    <3> QED BY <1>0, <2>1, <3>1, Times DEF NothingAhead
  <2>4. SettingsFollowed' BY <1>0, <2>1 DEF SettingsFollowed, InUse, GemmaAt
  <2>5. SlotsCounted' BY <1>0, <2>1 DEF SlotsCounted, Holding
  <2>6. KeptIsRecent(gemmaCached, gemmaModel)' /\ KeptIsRecent(clients, googleKey)'
    BY <1>0, <2>1 DEF KeptIsRecent
  <2> QED BY <2>2, <2>3, <2>4, <2>5, <2>6 DEF CallInv
<1>15. CASE GemmaNext BY <1>15, <1>4, <1>5, <1>6, <1>7, <1>8, <1>9, <1>10 DEF GemmaNext, GemmaStep
<1>16. CASE GeminiNext BY <1>16, <1>11, <1>12, <1>13 DEF GeminiNext
<1> QED BY <1>14, <1>15, <1>16 DEF TranslatorsNext

\* Whichever calls, settings, keys and failures there are, the slots taken of a
\* model are those of the calls sent to it, and nobody is given a model or a key
\* that was replaced for longer than settings are reused.
THEOREM CallsAlwaysFit == TranslatorsSpec => []CallsFit
<1>1. TranslatorsInit => CallInv
  <2> SUFFICES ASSUME TranslatorsInit PROVE CallInv
    OBVIOUS
  <2>1. /\ NoGemma \in GemmaRecs /\ NoGemma.at = "idle" /\ NoGemma.since = 0
        /\ NoGemini \in GeminiRecs /\ NoGemini.at = "idle" /\ NoGemini.since = 0
    BY DEF NoGemma, NoGemini, GemmaRecs, GeminiRecs, GemmaPlaces
  <2>2. /\ gemma \in [GemmaCalls -> GemmaRecs] /\ \A c \in GemmaCalls : gemma[c] = NoGemma
        /\ gemini \in [GeminiCalls -> GeminiRecs] /\ \A c \in GeminiCalls : gemini[c] = NoGemini
    BY <2>1 DEF TranslatorsInit
  <2>3. /\ Unresolved \in [is : GemmaModels \cup {NoKey}, expires : Nat]
        /\ Unresolved \in [is : GoogleKeys \cup {NoKey}, expires : Nat]
        /\ Unresolved.is = NoKey /\ Unresolved.expires = 0
    BY DEF Unresolved
  <2>4. CallTypes BY <2>1, <2>2, <2>3 DEF CallTypes, TranslatorsInit
  <2>5. \A m \in GemmaModels : Holding(m) = {} BY <2>1, <2>2 DEF Holding
  <2>6. SlotsCounted BY <2>5, FS_EmptySet, Times DEF SlotsCounted, TranslatorsInit
  <2>7. NothingAhead BY <2>1, <2>2, <2>3, Times DEF NothingAhead, TranslatorsInit
  <2>8. SettingsFollowed BY <2>1, <2>2 DEF SettingsFollowed, GemmaAt
  <2>9. KeptIsRecent(gemmaCached, gemmaModel) /\ KeptIsRecent(clients, googleKey)
    BY <2>3 DEF KeptIsRecent, TranslatorsInit
  <2> QED BY <2>4, <2>6, <2>7, <2>8, <2>9 DEF CallInv
<1>2. CallInv => CallsFit BY DEF CallInv, CallsFit, SlotsCounted, SlotsHeld
<1> QED BY <1>1, <1>2, CallInvNext, PTL DEF TranslatorsSpec

-----------------------------------------------------------------------------
(* TranslateFanout *)

Caps == [seg : Nat, final : BOOLEAN, lang : Languages, context : Seq(Nat)]
Spoken == {c \in Caps : c.final}
Unspoken == {c \in Caps : ~c.final}
Queues == [finals : Seq(Spoken), interim : Unspoken \cup {NoItem}, closed : BOOLEAN]
FanPlaces == {"next", "idle", "wait", "call", "done"}

FanTypes ==
  /\ latest \in Caps \cup {NoItem} /\ spoken \in Seq(Spoken) /\ history \in Seq(Nat)
  /\ waiting \subseteq Targets /\ ctxDone \in BOOLEAN
  /\ (waiting # {} => latest \in Caps)
  /\ target \in [Targets -> Queues] /\ at \in [Targets -> FanPlaces]
  /\ item \in [Targets -> Caps \cup {NoItem}]
  /\ tried \in [Targets -> Seq(Spoken)]
  /\ \A t \in Targets : at[t] = "call" => item[t] \in Caps
  /\ DOMAIN shown = Targets /\ DOMAIN track = Targets /\ DOMAIN out = Targets

\* Finals are numbered as they come; a caption on its way to the targets is the
\* last of them, or an interim of the segment after it.
Numbered ==
  /\ \A i \in 1 .. Len(spoken) : spoken[i].seg = i
  /\ waiting # {} =>
       IF latest.final THEN spoken # <<>> /\ latest = spoken[Len(spoken)]
       ELSE latest.seg = Len(spoken) + 1

\* What is pushed to a target is where it can be; only the end of the run loses it.
Accounted(t) ==
  \/ at[t] = "done" /\ ctxDone
  \/ PushedTo(t) = tried[t] \o InHand(t) \o target[t].finals

\* An interim waits only for a segment whose final has yet to be pushed, and is
\* worked on once all earlier finals are done.
InterimsLast(t) ==
  /\ target[t].interim # NoItem => target[t].interim.seg = Len(PushedTo(t)) + 1
  /\ at[t] = "call" => item[t].seg = Len(tried[t]) + 1

\* The track has the finals of segments that are done with, and of the segment
\* that is next what is shown of it.
Fields == {"ring", "next", "seq", "final", "interim"}
TrackFollows(t) ==
  LET n == Len(tried[t]) + 1
      on == track[t].interim
  IN /\ DOMAIN track[t] = Fields
     /\ \A s \in DOMAIN track[t].final : s \in Nat /\ s < n
     /\ on = NoCaption \/ (on.seg \in Nat /\ on.seg <= n /\ on.text \in Nat)
     /\ on.seg = n => shown[t].seg = n /\ shown[t].len = on.text

FanInv ==
  /\ FanTypes /\ Numbered
  /\ \A t \in Targets : Accounted(t) /\ InterimsLast(t) /\ TrackFollows(t)

\* A caption that is appended to a sequence.
LEMMA Appended ==
  ASSUME NEW S, NEW a \in Seq(S), NEW b \in Seq(S), NEW c \in Seq(S), NEW x \in S
  PROVE  /\ a \o b \o Append(c, x) = Append(a \o b \o c, x)
         /\ Append(a, x) \o <<>> \o c = a \o <<x>> \o c
         /\ a \o b \o c \in Seq(S) /\ Append(a, x) \in Seq(S)
         /\ Len(a \o b \o c) = Len(a) + Len(b) + Len(c)
BY SMTT(30)

\* The first of what waits is taken in hand.
LEMMA TakenInHand ==
  ASSUME NEW S, NEW a \in Seq(S), NEW c \in Seq(S), c # <<>>
  PROVE  a \o <<>> \o c = a \o <<Head(c)>> \o Tail(c) /\ Head(c) \in S /\ Tail(c) \in Seq(S)
BY SMTT(30)

\* A sequence without its last.
LEMMA WithoutLast ==
  ASSUME NEW S, NEW a \in Seq(S), NEW x \in S
  PROVE  /\ SubSeq(Append(a, x), 1, Len(Append(a, x)) - 1) = a
         /\ Append(a, x)[Len(Append(a, x))] = x /\ Len(Append(a, x)) = Len(a) + 1
         /\ \A i \in 1 .. Len(a) : Append(a, x)[i] = a[i]
         /\ Append(a, x) # <<>>
BY SMTT(30)

\* It and its last.
LEMMA LastAgain ==
  ASSUME NEW S, NEW a \in Seq(S), a # <<>>
  PROVE  /\ a = Append(SubSeq(a, 1, Len(a) - 1), a[Len(a)])
         /\ SubSeq(a, 1, Len(a) - 1) \in Seq(S) /\ Len(SubSeq(a, 1, Len(a) - 1)) = Len(a) - 1
         /\ a[Len(a)] \in S
<1>1. Len(a) \in Nat /\ Len(a) > 0
  <2>1. Len(a) \in Nat BY LenProperties
  <2>2. Len(a) # 0 BY EmptySeq
  <2> QED BY <2>1, <2>2
<1>a. PICK n \in Int : n = Len(a) - 1 BY <1>1
<1>b. \A i \in 1 .. n : a[i] \in S BY <1>1, <1>a, ElementOfSeq
<1>c. SubSeq(a, 1, n) \in Seq(S)
  <2>1. 1 \in Int OBVIOUS
  <2> QED BY ONLY <1>b, <2>1, n \in Int, SubSeqProperties, Zenon
<1>2. PICK b \in Seq(S) : b = SubSeq(a, 1, n) BY <1>c
<1>3. Len(b) = n /\ \A i \in 1 .. n : b[i] = a[i]
  <2>1. Len(b) = IF 1 <= n THEN n - 1 + 1 ELSE 0 BY <1>b, <1>2, SubSeqProperties
  <2>2. \A i \in 1 .. n - 1 + 1 : b[i] = a[1 + i - 1] BY <1>b, <1>2, SubSeqProperties
  <2>3. n >= 0 /\ n - 1 + 1 = n /\ \A i \in 1 .. n : 1 + i - 1 = i BY <1>1, <1>a
  <2> QED BY <2>1, <2>2, <2>3
<1>4. PICK x \in S : x = a[Len(a)] BY <1>1, ElementOfSeq
<1>5. Append(b, x) \in Seq(S) /\ Len(Append(b, x)) = Len(a) BY <1>1, <1>a, <1>3, AppendProperties
<1>6. \A i \in 1 .. Len(a) : Append(b, x)[i] = a[i] BY <1>1, <1>a, <1>3, <1>4, AppendProperties
<1>7. a = Append(b, x) BY <1>5, <1>6, SeqEqual
<1> QED BY <1>a, <1>2, <1>3, <1>4, <1>7

\* An interim of the segment that is next is shown on the track.
LEMMA InterimAdded ==
  ASSUME NEW b, DOMAIN b = Fields, NEW c, ~c.final, c.seg \notin DOMAIN b.final
  PROVE  Add(b, c).interim = c /\ DOMAIN Add(b, c) = Fields /\ Add(b, c).final = b.final
BY DEF Add, Dropped, Known, Fields

\* A final of the segment that is next clears its interim and is indexed.
LEMMA FinalAdded ==
  ASSUME NEW b, DOMAIN b = Fields, NEW c, c.final, c.seg \notin DOMAIN b.final
  PROVE  /\ DOMAIN Add(b, c) = Fields
         /\ Add(b, c).interim = IF b.interim.seg = c.seg THEN NoCaption ELSE b.interim
         /\ \A s \in DOMAIN Add(b, c).final : s \in DOMAIN b.final \/ s = c.seg
<1>1. PICK d : d = Settle(b, c) OBVIOUS
<1>2. /\ DOMAIN d = Fields /\ d.final = b.final
      /\ d.interim = IF b.interim.seg = c.seg THEN NoCaption ELSE b.interim
  BY <1>1 DEF Settle, Fields
<1>3. Add(b, c) = Push(d, c) BY <1>1 DEF Add, Dropped, Known
<1>4. PICK f : f = ForgetEvicted(d) OBVIOUS
<1>5. \A s \in DOMAIN f : s \in DOMAIN d.final BY <1>4 DEF ForgetEvicted
<1>6. PICK g : g = IF Grows(d) THEN Indexed(d.final, c.seg, d.seq) ELSE Indexed(f, c.seg, d.seq) OBVIOUS
<1>7. \A s \in DOMAIN g : s \in DOMAIN d.final \/ s = c.seg BY <1>5, <1>6 DEF Indexed
<1>8. /\ DOMAIN Push(d, c) = Fields /\ Push(d, c).interim = d.interim /\ Push(d, c).final = g
  <2>1. CASE Grows(d) BY <1>2, <1>6, <2>1 DEF Push, Fields
  <2>2. CASE ~Grows(d) BY <1>2, <1>4, <1>6, <2>2 DEF Push, Fields
  <2> QED BY <2>1, <2>2
<1> QED BY <1>2, <1>3, <1>7, <1>8

\* What is pushed to a target, and its numbers.
LEMMA PushedTyped ==
  ASSUME FanTypes, Numbered, NEW t \in Targets
  PROVE  /\ PushedTo(t) \in Seq(Spoken)
         /\ \A i \in 1 .. Len(PushedTo(t)) : PushedTo(t)[i].seg = i
         /\ t \in waiting /\ ~latest.final => PushedTo(t) = spoken /\ latest.seg = Len(PushedTo(t)) + 1
         /\ t \in waiting /\ latest.final =>
              latest \in Spoken /\ spoken = Append(PushedTo(t), latest) /\ latest.seg = Len(PushedTo(t)) + 1
         /\ t \notin waiting => PushedTo(t) = spoken
<1>0. spoken \in Seq(Spoken) /\ \A i \in 1 .. Len(spoken) : spoken[i].seg = i BY DEF FanTypes, Numbered
<1>1. CASE t \in waiting /\ latest.final
  <2>1. spoken # <<>> /\ latest = spoken[Len(spoken)] BY <1>1 DEF Numbered
  <2>2. PICK a \in Seq(Spoken) : a = SubSeq(spoken, 1, Len(spoken) - 1) BY <1>0, <2>1, LastAgain
  <2>3. spoken = Append(a, latest) /\ latest \in Spoken BY <1>0, <2>1, <2>2, LastAgain
  <2>4. Len(spoken) = Len(a) + 1 /\ (\A i \in 1 .. Len(a) : spoken[i] = a[i]) BY <2>3, WithoutLast
  <2>5. Len(spoken) \in 1 .. Len(spoken) /\ Len(a) \in Nat BY <2>4, LenProperties
  <2>6. latest.seg = Len(a) + 1 BY <1>0, <2>1, <2>4, <2>5
  <2>7. \A i \in 1 .. Len(a) : a[i].seg = i BY <1>0, <2>4, <2>5
  <2>8. PushedTo(t) = a BY <1>1, <2>2 DEF PushedTo
  <2> QED BY <1>1, <2>3, <2>6, <2>7, <2>8
<1>2. CASE ~(t \in waiting /\ latest.final)
  <2>1. PushedTo(t) = spoken BY <1>2 DEF PushedTo
  <2> QED BY <1>0, <1>2, <2>1 DEF Numbered
<1> QED BY <1>1, <1>2

\* What is in hand.
LEMMA HandTyped == ASSUME FanTypes, NEW t \in Targets PROVE InHand(t) \in Seq(Spoken)
<1>1. CASE at[t] = "call" /\ item[t].final
  <2>1. PICK x \in Spoken : x = item[t] BY <1>1 DEF FanTypes, Spoken
  <2>2. <<x>> \in Seq(Spoken) OBVIOUS
  <2> QED BY <1>1, <2>1, <2>2 DEF InHand
<1>2. CASE ~(at[t] = "call" /\ item[t].final)
  <2>1. InHand(t) = <<>> BY <1>2 DEF InHand
  <2> QED BY <2>1, EmptySeq
<1> QED BY <1>1, <1>2

\* A final in hand has the number after those that are done with.
LEMMA HandIsNext ==
  ASSUME FanTypes, Numbered, NEW t \in Targets, Accounted(t)
  PROVE  ~(at[t] = "done" /\ ctxDone) =>
           /\ \A i \in 1 .. Len(tried[t]) : tried[t][i].seg = i
           /\ target[t].finals # <<>> => Head(target[t].finals).seg = Len(tried[t]) + Len(InHand(t)) + 1
           /\ Len(PushedTo(t)) = Len(tried[t]) + Len(InHand(t)) + Len(target[t].finals)
<1> SUFFICES ASSUME ~(at[t] = "done" /\ ctxDone)
             PROVE  /\ \A i \in 1 .. Len(tried[t]) : tried[t][i].seg = i
                    /\ target[t].finals # <<>> => Head(target[t].finals).seg = Len(tried[t]) + Len(InHand(t)) + 1
                    /\ Len(PushedTo(t)) = Len(tried[t]) + Len(InHand(t)) + Len(target[t].finals)
  OBVIOUS
<1>1. PICK a \in Seq(Spoken) : a = tried[t] BY DEF FanTypes
<1>2. PICK h \in Seq(Spoken) : h = InHand(t) BY HandTyped
<1>3. PICK f \in Seq(Spoken) : f = target[t].finals BY DEF FanTypes, Queues
<1>4. PICK p \in Seq(Spoken) : p = PushedTo(t) BY PushedTyped
<1>5. p = a \o h \o f /\ \A i \in 1 .. Len(p) : p[i].seg = i BY <1>1, <1>2, <1>3, <1>4, PushedTyped DEF Accounted
<1>6. Len(p) = Len(a) + Len(h) + Len(f) BY ONLY <1>5, p \in Seq(Spoken), a \in Seq(Spoken), h \in Seq(Spoken), f \in Seq(Spoken)
<1>7. \A i \in 1 .. Len(a) : p[i] = a[i]
  BY ONLY SMTT(30), <1>5, a \in Seq(Spoken), h \in Seq(Spoken), f \in Seq(Spoken)
<1>8. f # <<>> => p[Len(a) + Len(h) + 1] = Head(f) /\ Len(f) > 0
  BY ONLY SMTT(30), <1>5, a \in Seq(Spoken), h \in Seq(Spoken), f \in Seq(Spoken)
<1>9. Len(a) \in Nat /\ Len(h) \in Nat /\ Len(f) \in Nat BY LenProperties
<1>10. \A i \in 1 .. Len(a) : a[i].seg = i
  <2>1. \A i \in 1 .. Len(a) : i \in 1 .. Len(p) BY ONLY <1>6, <1>9
  <2> QED BY ONLY <1>5, <1>7, <2>1
<1>11. f # <<>> => Head(f).seg = Len(a) + Len(h) + 1
  <2>1. Len(f) > 0 => Len(a) + Len(h) + 1 \in 1 .. Len(p) BY ONLY <1>6, <1>9
  <2> QED BY ONLY <1>5, <1>8, <2>1
<1> QED BY <1>1, <1>2, <1>3, <1>4, <1>6, <1>10, <1>11

Fine(t) == Accounted(t) /\ InterimsLast(t) /\ TrackFollows(t)

\* A target of which nothing changes.
LEMMA LeftAlone ==
  ASSUME FanInv, NEW u \in Targets, UNCHANGED <<sourceVars, waiting, ctxDone>>,
         UNCHANGED <<target[u], at[u], item[u], tried[u], shown[u], track[u]>>
  PROVE  Fine(u)'
BY DEF FanInv, Fine, Accounted, InterimsLast, TrackFollows, PushedTo, InHand, sourceVars

\* What one target does is of no other.
LEMMA OneTarget ==
  ASSUME FanInv, NEW t \in Targets, UNCHANGED <<sourceVars, waiting, ctxDone>>,
         \A u \in Targets : u # t =>
           UNCHANGED <<target[u], at[u], item[u], tried[u], shown[u], track[u]>>,
         target' \in [Targets -> Queues], at' \in [Targets -> FanPlaces],
         item' \in [Targets -> Caps \cup {NoItem}], tried' \in [Targets -> Seq(Spoken)],
         at'[t] = "call" => item'[t] \in Caps, Fine(t)',
         DOMAIN shown' = Targets, DOMAIN track' = Targets, DOMAIN out' = Targets
  PROVE  FanInv'
<1>1. \A u \in Targets : Fine(u)' BY LeftAlone
<1>2. FanTypes' BY DEF FanInv, FanTypes, sourceVars
<1>3. Numbered' BY DEF FanInv, Numbered, sourceVars
<1> QED BY <1>1, <1>2, <1>3 DEF FanInv, Fine

\* A step that publishes nothing and does not end an item keeps what is shown.
LEMMA ShownStays ==
  ASSUME FanInv, NEW t \in Targets, UNCHANGED <<tried[t], shown[t], track[t]>>
  PROVE  TrackFollows(t)'
BY DEF FanInv, TrackFollows

\* A target takes its next caption: a final if one waits, else its interim.
LEMMA TakeKeeps == ASSUME FanInv, NEW t \in Targets, Take(t) PROVE FanInv'
<1>1. /\ UNCHANGED <<pushes, latest, spoken, history, waiting, ctxDone, shown, track, out, tried>>
      /\ at[t] = "next" /\ InHand(t) = <<>> /\ UNCHANGED sourceVars
  BY DEF Take, sourceVars, InHand
<1>2. /\ FanTypes /\ Numbered /\ Accounted(t) /\ InterimsLast(t) BY DEF FanInv
<1>3. PICK q \in Queues : q = target[t] BY <1>2 DEF FanTypes
<1>4. PICK a \in Seq(Spoken) : a = tried[t] BY <1>2 DEF FanTypes
<1>5. PushedTo(t) = a \o <<>> \o q.finals /\ q.finals \in Seq(Spoken) /\ PushedTo(t)' = PushedTo(t)
  BY <1>1, <1>2, <1>3, <1>4 DEF Accounted, Queues, PushedTo
<1>6. TrackFollows(t)' BY <1>1, ShownStays
<1>7. CASE q.finals # <<>> /\ item' = [item EXCEPT ![t] = Head(q.finals)]
           /\ target' = [target EXCEPT ![t].finals = Tail(@)] /\ at' = [at EXCEPT ![t] = "call"]
  <2>1. PICK c \in Spoken : c = Head(q.finals) BY <1>5, <1>7, TakenInHand
  <2>2. PICK f \in Seq(Spoken) : f = Tail(q.finals) BY <1>5, <1>7, TakenInHand
  <2>3. PICK r \in Queues : r = [q EXCEPT !.finals = f] BY DEF Queues
  <2>4. r.finals = f /\ r.interim = q.interim BY ONLY <2>3, q \in Queues DEF Queues
  <2>5. target' = [target EXCEPT ![t] = r] BY <1>3, <1>7, <2>2, <2>3
  <2>6. c \in Caps /\ c.final BY DEF Spoken
  <2>7. /\ target' \in [Targets -> Queues] /\ target'[t] = r /\ at' \in [Targets -> FanPlaces]
        /\ item' \in [Targets -> Caps \cup {NoItem}] /\ item'[t] = c /\ at'[t] = "call"
        /\ \A u \in Targets : u # t => UNCHANGED <<target[u], at[u], item[u]>>
    <3>1. item' = [item EXCEPT ![t] = c] /\ at' = [at EXCEPT ![t] = "call"] BY <1>7, <2>1
    <3>2. target \in [Targets -> Queues] /\ at \in [Targets -> FanPlaces]
          /\ item \in [Targets -> Caps \cup {NoItem}]
      BY <1>2 DEF FanTypes
    <3>3. "call" \in FanPlaces BY DEF FanPlaces
    <3> QED BY <2>5, <2>6, <3>1, <3>2, <3>3
  <2>8. a \o <<>> \o q.finals = a \o <<c>> \o f BY <1>5, <1>7, <2>1, <2>2, TakenInHand
  <2>9. InHand(t)' = <<c>> BY <2>6, <2>7 DEF InHand
  <2>10. Accounted(t)' BY <1>1, <1>4, <1>5, <2>4, <2>7, <2>8, <2>9 DEF Accounted
  <2>11. c.seg = Len(a) + 1
    <3>1. c.seg = Len(a) + Len(<<>>) + 1 BY <1>1, <1>2, <1>3, <1>4, <1>7, <2>1, HandIsNext
    <3> QED BY <3>1, LenProperties
  <2>12. InterimsLast(t)' BY <1>1, <1>2, <1>3, <1>4, <1>5, <2>4, <2>7, <2>11 DEF InterimsLast
  <2> QED BY <1>1, <1>2, <1>6, <2>6, <2>7, <2>10, <2>12, OneTarget DEF Fine, FanTypes
<1>8. CASE q.finals = <<>> /\ q.interim # NoItem /\ item' = [item EXCEPT ![t] = q.interim]
           /\ target' = [target EXCEPT ![t].interim = NoItem] /\ at' = [at EXCEPT ![t] = "call"]
  <2>1. PICK c \in Unspoken : c = q.interim BY <1>8 DEF Queues
  <2>3. PICK r \in Queues : r = [q EXCEPT !.interim = NoItem] BY DEF Queues
  <2>4. r.finals = q.finals /\ r.interim = NoItem BY ONLY <2>3, q \in Queues DEF Queues
  <2>5. target' = [target EXCEPT ![t] = r] BY <1>3, <1>8, <2>3
  <2>6. c \in Caps /\ ~c.final BY DEF Unspoken
  <2>7. /\ target' \in [Targets -> Queues] /\ target'[t] = r /\ at' \in [Targets -> FanPlaces]
        /\ item' \in [Targets -> Caps \cup {NoItem}] /\ item'[t] = c /\ at'[t] = "call"
        /\ \A u \in Targets : u # t => UNCHANGED <<target[u], at[u], item[u]>>
    <3>1. item' = [item EXCEPT ![t] = c] /\ at' = [at EXCEPT ![t] = "call"] BY <1>8, <2>1
    <3>2. target \in [Targets -> Queues] /\ at \in [Targets -> FanPlaces]
          /\ item \in [Targets -> Caps \cup {NoItem}]
      BY <1>2 DEF FanTypes
    <3>3. "call" \in FanPlaces BY DEF FanPlaces
    <3> QED BY <2>5, <2>6, <3>1, <3>2, <3>3
  <2>9. InHand(t)' = <<>> BY <2>6, <2>7 DEF InHand
  <2>10. Accounted(t)' BY <1>1, <1>4, <1>5, <2>4, <2>7, <2>9 DEF Accounted
  <2>11. c.seg = Len(a) + 1
    <3>1. c.seg = Len(PushedTo(t)) + 1 BY <1>2, <1>3, <1>8, <2>1 DEF InterimsLast
    <3>2. PushedTo(t) = a BY <1>5, <1>8
    <3> QED BY <3>1, <3>2
  <2>12. InterimsLast(t)' BY <1>1, <1>4, <2>4, <2>7, <2>11 DEF InterimsLast
  <2> QED BY <1>1, <1>2, <1>6, <2>6, <2>7, <2>10, <2>12, OneTarget DEF Fine, FanTypes
<1>9. CASE /\ at' = [at EXCEPT ![t] = IF target[t].closed THEN "done" ELSE "idle"]
           /\ UNCHANGED <<item, target>>
  <2>1. /\ at' \in [Targets -> FanPlaces] /\ at'[t] \in {"done", "idle"}
        /\ \A u \in Targets : u # t => UNCHANGED <<target[u], at[u], item[u]>>
    BY <1>2, <1>9 DEF FanTypes, FanPlaces
  <2>2. InHand(t)' = <<>> BY <2>1 DEF InHand
  <2>3. Accounted(t)' BY <1>1, <1>3, <1>4, <1>5, <1>9, <2>2 DEF Accounted
  <2>4. InterimsLast(t)' BY <1>2, <1>5, <1>9, <2>1 DEF InterimsLast
  <2> QED BY <1>1, <1>2, <1>6, <1>9, <2>1, <2>3, <2>4, OneTarget DEF Fine, FanTypes
<1> QED BY <1>3, <1>7, <1>8, <1>9 DEF Take

\* A goroutine that goes elsewhere with nothing in hand.
LEMMA GoesElsewhere ==
  ASSUME FanInv, NEW t \in Targets, NEW place \in FanPlaces, place # "call",
         at' = [at EXCEPT ![t] = place], item' = item \/ item' = [item EXCEPT ![t] = NoItem],
         at[t] # "call" \/ (ctxDone /\ place = "done"), at[t] # "done",
         UNCHANGED <<sourceVars, waiting, ctxDone, target, shown, track, out, tried>>
  PROVE  FanInv'
<1>1. FanTypes /\ Accounted(t) /\ InterimsLast(t) BY DEF FanInv
<1>2. /\ at' \in [Targets -> FanPlaces] /\ at'[t] = place
      /\ item' \in [Targets -> Caps \cup {NoItem}]
      /\ \A u \in Targets : u # t => UNCHANGED <<at[u], item[u]>>
  BY <1>1 DEF FanTypes
<1>3. PushedTo(t)' = PushedTo(t) BY DEF PushedTo, sourceVars
<1>4. Accounted(t)'
  <2>1. CASE ctxDone /\ place = "done" BY <1>2, <2>1 DEF Accounted
  <2>2. CASE at[t] # "call"
    <3>1. InHand(t) = <<>> /\ InHand(t)' = <<>> BY <1>2, <2>2 DEF InHand
    <3> QED BY <1>1, <1>3, <3>1 DEF Accounted
  <2> QED BY <2>1, <2>2
<1>5. InterimsLast(t)' BY <1>1, <1>2, <1>3 DEF InterimsLast
<1>6. TrackFollows(t)' BY ShownStays
<1> QED BY <1>1, <1>2, <1>4, <1>5, <1>6, OneTarget DEF Fine, FanTypes

\* What is added is of the caption.
LEMMA CaptionOf ==
  ASSUME NEW seg, NEW len
  PROVE  /\ ~Interim(seg, len).final /\ Interim(seg, len).seg = seg /\ Interim(seg, len).text = len
         /\ Final(seg, len).final /\ Final(seg, len).seg = seg
<1>1. ~Interim(seg, len).final /\ Interim(seg, len).seg = seg /\ Interim(seg, len).text = len
  BY DEF Interim
<1>2. PICK r : r = Interim(seg, len) OBVIOUS
<1>3. DOMAIN r = {"seg", "final", "text", "edited", "hidden"} /\ r.seg = seg BY <1>2 DEF Interim
<1>4. PICK yes \in BOOLEAN : yes = TRUE BY Zenon
<1>5. Final(seg, len) = [r EXCEPT !.final = yes] BY <1>2, <1>4, Zenon DEF Final
<1>6. [r EXCEPT !.final = yes].final = yes /\ [r EXCEPT !.final = yes].seg = seg BY ONLY <1>3
<1>7. Final(seg, len).final BY <1>4, <1>5, <1>6, Zenon
<1>8. Final(seg, len).seg = seg BY <1>5, <1>6, Zenon
<1> QED BY <1>1, <1>7, <1>8

\* What is emitted of the item in hand, or of an interim of it.
LEMMA Emitted ==
  ASSUME FanInv, NEW t \in Targets, at[t] = "call", NEW c, c.seg = item[t].seg, NEW len \in Nat,
         Emit(t, c, len)
  PROVE  /\ \A u \in Targets : u # t => UNCHANGED <<shown[u], track[u], out[u]>>
         /\ DOMAIN shown' = Targets /\ DOMAIN track' = Targets /\ DOMAIN out' = Targets
         /\ DOMAIN track'[t] = Fields
         /\ \A s \in DOMAIN track'[t].final :
              s \in Nat /\ (s < Len(tried[t]) + 1 \/ (c.final /\ s = Len(tried[t]) + 1))
         /\ \/ track'[t].interim = NoCaption
            \/ track'[t].interim.seg \in Nat /\ track'[t].interim.seg <= Len(tried[t]) + 1
               /\ track'[t].interim.text \in Nat
         /\ ~c.final /\ track'[t].interim.seg = Len(tried[t]) + 1 =>
              shown'[t].seg = Len(tried[t]) + 1 /\ shown'[t].len = track'[t].interim.text
         /\ ~c.final /\ len # 0 => track'[t].interim.text = len
         /\ out'[t] # out[t] => out'[t].seg = item[t].seg
<1>1. /\ DOMAIN shown = Targets /\ DOMAIN track = Targets /\ DOMAIN out = Targets
      /\ TrackFollows(t) /\ item[t].seg = Len(tried[t]) + 1 /\ tried[t] \in Seq(Spoken)
  BY DEF FanInv, FanTypes, InterimsLast
<1>2. PICK n \in Nat : n = Len(tried[t]) + 1 BY <1>1, LenProperties
<1>3. PICK b : b = track[t] OBVIOUS
<1>4. /\ DOMAIN b = Fields /\ (\A s \in DOMAIN b.final : s \in Nat /\ s < n) /\ c.seg = n
      /\ b.interim = NoCaption \/ (b.interim.seg \in Nat /\ b.interim.seg <= n /\ b.interim.text \in Nat)
      /\ b.interim.seg = n => shown[t].seg = n /\ shown[t].len = b.interim.text
  BY <1>1, <1>2, <1>3 DEF TrackFollows
<1>5. c.seg \notin DOMAIN b.final BY <1>2, <1>4
<1>6. CASE len = 0
  <2>1. UNCHANGED <<shown, track, out>> BY <1>6 DEF Emit
  <2>2. \A s \in DOMAIN b.final : s \in Nat /\ (s < n \/ (c.final /\ s = n)) BY <1>4
  <2> QED BY <1>1, <1>2, <1>3, <1>4, <1>6, <2>1, <2>2
<1>7. CASE len # 0 /\ c.final
  <2>1. PICK cap : cap = Final(c.seg, len) OBVIOUS
  <2>2. cap.final /\ cap.seg = n BY <1>4, <2>1, CaptionOf
  <2>3. PICK d : d = Add(b, cap) OBVIOUS
  <2>4. /\ DOMAIN d = Fields /\ d.interim = IF b.interim.seg = n THEN NoCaption ELSE b.interim
        /\ \A s \in DOMAIN d.final : s \in DOMAIN b.final \/ s = n
    BY <1>4, <1>5, <2>2, <2>3, FinalAdded
  <2>5. /\ shown' = [shown EXCEPT ![t] = NoShown] /\ track' = [track EXCEPT ![t] = d]
        /\ out' = [out EXCEPT ![t] = cap]
    BY <1>3, <1>7, <2>1, <2>3 DEF Emit
  <2>6. track'[t] = d /\ out'[t] = cap BY <1>1, <2>5
  <2>7. \A u \in Targets : u # t => UNCHANGED <<shown[u], track[u], out[u]>> BY <1>1, <2>5
  <2>8. DOMAIN shown' = Targets /\ DOMAIN track' = Targets /\ DOMAIN out' = Targets BY <1>1, <2>5
  <2> QED BY <1>1, <1>2, <1>4, <1>7, <2>2, <2>4, <2>6, <2>7, <2>8
<1>8. CASE len # 0 /\ ~c.final
  <2>1. PICK cap : cap = Interim(c.seg, len) OBVIOUS
  <2>2. ~cap.final /\ cap.seg = n /\ cap.text = len BY <1>4, <2>1, CaptionOf
  <2>3. PICK d : d = Add(b, cap) OBVIOUS
  <2>4. DOMAIN d = Fields /\ d.interim = cap /\ d.final = b.final
    BY <1>4, <1>5, <2>2, <2>3, InterimAdded
  <2>5. /\ shown' = [shown EXCEPT ![t] = [seg |-> c.seg, len |-> len]]
        /\ track' = [track EXCEPT ![t] = d] /\ out' = [out EXCEPT ![t] = cap]
    BY <1>3, <1>8, <2>1, <2>3 DEF Emit
  <2>6. track'[t] = d /\ out'[t] = cap /\ shown'[t].seg = n /\ shown'[t].len = len BY <1>1, <1>4, <2>5
  <2>7. \A u \in Targets : u # t => UNCHANGED <<shown[u], track[u], out[u]>> BY <1>1, <2>5
  <2>8. DOMAIN shown' = Targets /\ DOMAIN track' = Targets /\ DOMAIN out' = Targets BY <1>1, <2>5
  <2> QED BY <1>1, <1>2, <1>4, <1>8, <2>2, <2>4, <2>6, <2>7, <2>8
<1> QED BY <1>6, <1>7, <1>8

\* An item is done with.
LEMMA SettledKeeps ==
  ASSUME FanInv, NEW t \in Targets, at[t] = "call", NEW len \in Nat, Emit(t, item[t], len), Settled(t)
  PROVE  FanInv'
<1>1. /\ FanTypes /\ Numbered /\ Accounted(t) /\ item[t] \in Caps /\ tried[t] \in Seq(Spoken)
      /\ item[t].final \in BOOLEAN /\ item[t].seg = Len(tried[t]) + 1
  BY DEF FanInv, FanTypes, Caps, InterimsLast
<1>2. /\ at' = [at EXCEPT ![t] = "next"] /\ item' = [item EXCEPT ![t] = NoItem]
      /\ UNCHANGED <<sourceVars, waiting, ctxDone, target>>
  BY DEF Settled
<1>3. /\ at' \in [Targets -> FanPlaces] /\ at'[t] = "next" /\ item' \in [Targets -> Caps \cup {NoItem}]
      /\ \A u \in Targets : u # t => UNCHANGED <<at[u], item[u]>>
  BY <1>1, <1>2 DEF FanTypes, FanPlaces
<1>4. PushedTo(t)' = PushedTo(t) BY <1>2 DEF PushedTo, sourceVars
<1>5. PICK a \in Seq(Spoken) : a = tried[t] BY <1>1
<1>6. PICK f \in Seq(Spoken) : f = target[t].finals BY <1>1 DEF FanTypes, Queues
<1>7. InHand(t)' = <<>> BY <1>3 DEF InHand
<1>8. PICK b \in Seq(Spoken) :
        /\ tried' = [tried EXCEPT ![t] = b] /\ a \o InHand(t) \o f = b \o <<>> \o f
        /\ Len(b) = IF item[t].final THEN Len(a) + 1 ELSE Len(a)
  <2>1. CASE item[t].final
    <3>1. PICK c \in Spoken : c = item[t] BY <1>1, <2>1 DEF Spoken
    <3>2. tried' = [tried EXCEPT ![t] = Append(a, c)] BY <1>5, <2>1, <3>1 DEF Settled
    <3>3. InHand(t) = <<c>> BY <2>1, <3>1 DEF InHand
    <3>4. Append(a, c) \in Seq(Spoken) /\ a \o <<c>> \o f = Append(a, c) \o <<>> \o f
      BY EmptySeq, Appended
    <3>5. Len(Append(a, c)) = Len(a) + 1 BY AppendProperties
    <3> QED BY <2>1, <3>2, <3>3, <3>4, <3>5
  <2>2. CASE ~item[t].final
    <3>1. tried' = tried /\ InHand(t) = <<>> BY <2>2 DEF Settled, InHand
    <3>2. tried' = [tried EXCEPT ![t] = a] BY <1>1, <1>5, <3>1 DEF FanTypes
    <3> QED BY <2>2, <3>1, <3>2
  <2> QED BY <2>1, <2>2
<1>9. /\ tried' \in [Targets -> Seq(Spoken)] /\ tried'[t] = b
      /\ \A u \in Targets : u # t => UNCHANGED tried[u]
  BY <1>1, <1>8 DEF FanTypes
<1>10. Accounted(t)' BY <1>1, <1>2, <1>4, <1>5, <1>6, <1>7, <1>8, <1>9 DEF Accounted
<1>11. InterimsLast(t)' BY <1>2, <1>3, <1>4 DEF FanInv, InterimsLast
<1>12. /\ \A u \in Targets : u # t => UNCHANGED <<shown[u], track[u], out[u]>>
       /\ DOMAIN shown' = Targets /\ DOMAIN track' = Targets /\ DOMAIN out' = Targets
  BY Emitted
<1>13. TrackFollows(t)'
  <2>1. Len(a) \in Nat /\ Len(b) \in Nat BY LenProperties
  <2>2. CASE item[t].final
    <3>1. /\ DOMAIN track'[t] = Fields
          /\ \A s \in DOMAIN track'[t].final : s \in Nat /\ (s < Len(a) + 1 \/ s = Len(a) + 1)
          /\ \/ track'[t].interim = NoCaption
             \/ track'[t].interim.seg \in Nat /\ track'[t].interim.seg <= Len(a) + 1
                /\ track'[t].interim.text \in Nat
      BY <1>5, Emitted
    <3>2. NoCaption.seg # Len(b) + 1 BY <2>1 DEF NoCaption
    <3>3. \A s \in DOMAIN track'[t].final : s \in Nat /\ s < Len(b) + 1
      <4>1. Len(b) = Len(a) + 1 BY <1>8, <2>2
      <4>2. \A s \in Nat : s < Len(a) + 1 \/ s = Len(a) + 1 => s < Len(b) + 1 BY ONLY <2>1, <4>1
      <4> QED BY ONLY <3>1, <4>2
    <3> QED BY <1>8, <1>9, <2>1, <2>2, <3>1, <3>2, <3>3 DEF TrackFollows
  <2>3. CASE ~item[t].final
    <3> QED BY <1>5, <1>8, <1>9, <2>3, Emitted DEF TrackFollows
  <2> QED BY <2>2, <2>3
<1> QED BY <1>1, <1>2, <1>3, <1>9, <1>10, <1>11, <1>12, <1>13, OneTarget DEF Fine, FanTypes

\* Partial output is shown as an interim of the final in hand.
LEMMA PartialKeeps ==
  ASSUME FanInv, NEW t \in Targets, NEW len \in Nat, Partial(t, len)
  PROVE  FanInv'
<1>1. /\ at[t] = "call" /\ UNCHANGED <<sourceVars, waiting, ctxDone, target, at, item, tried>>
  BY DEF Partial
<1>2. FanTypes /\ Accounted(t) /\ InterimsLast(t) /\ item[t] \in Caps BY <1>1 DEF FanInv, FanTypes
<1>3. PICK c \in Caps : c = [item[t] EXCEPT !.final = FALSE] BY <1>2 DEF Caps
<1>4. c.seg = item[t].seg /\ ~c.final BY <1>2, <1>3 DEF Caps
<1>5. Emit(t, c, len) BY <1>3 DEF Partial
<1>6. /\ \A u \in Targets : u # t => UNCHANGED <<shown[u], track[u], out[u]>>
      /\ DOMAIN shown' = Targets /\ DOMAIN track' = Targets /\ DOMAIN out' = Targets
  BY <1>1, <1>4, <1>5, Emitted
<1>7. TrackFollows(t)' BY <1>1, <1>4, <1>5, Emitted DEF TrackFollows
<1>8. Accounted(t)' BY <1>1, <1>2 DEF Accounted, InHand, PushedTo, sourceVars
<1>9. InterimsLast(t)' BY <1>1, <1>2 DEF InterimsLast, PushedTo, sourceVars
<1> QED BY <1>1, <1>2, <1>6, <1>7, <1>8, <1>9, OneTarget DEF Fine, FanTypes

\* The caption is pushed to one target.
LEMMA PushToKeeps == ASSUME FanInv, NEW t \in Targets, PushTo(t) PROVE FanInv'
<1>1. /\ UNCHANGED <<pushes, latest, spoken, history, ctxDone, shown, track, out, tried, at, item>>
      /\ t \in waiting /\ waiting' = waiting \ {t} /\ latest \in Caps /\ UNCHANGED sourceVars
  BY DEF PushTo, sourceVars, FanInv, FanTypes
<1>2. FanTypes /\ Numbered /\ Accounted(t) /\ InterimsLast(t) /\ TrackFollows(t) BY DEF FanInv
<1>3. PICK q \in Queues : q = target[t] BY <1>2 DEF FanTypes
<1>4. PICK p \in Seq(Spoken) : p = PushedTo(t) BY <1>2, PushedTyped
<1>5. Len(p) \in Nat BY LenProperties
<1>6. PICK r \in Queues :
        /\ target' = [target EXCEPT ![t] = r]
        /\ ~(at[t] = "done" /\ ctxDone) => PushedTo(t)' = tried[t] \o InHand(t) \o r.finals
        /\ r.interim # NoItem => r.interim.seg = Len(PushedTo(t)') + 1
  <2>1. CASE latest.final
    <3>1. latest \in Spoken /\ spoken = Append(p, latest) /\ latest.seg = Len(p) + 1
      BY <1>1, <1>2, <1>4, <2>1, PushedTyped
    <3>2. PICK f \in Seq(Spoken) : f = q.finals BY DEF Queues
    <3>3. PICK g \in Seq(Spoken) : g = Append(f, latest) BY <3>1, AppendProperties
    <3>4. PICK i \in Unspoken \cup {NoItem} : i = Superseded(q.interim, latest) BY DEF Superseded, Queues
    <3>5. PICK r \in Queues : r = [q EXCEPT !.finals = g, !.interim = i] BY DEF Queues
    <3>6. r.finals = g /\ r.interim = i BY ONLY <3>5, q \in Queues DEF Queues
    <3>7. target' = [target EXCEPT ![t] = r]
      <4>1. target' = [target EXCEPT ![t].finals = Queued(@, latest), ![t].interim = Superseded(@, latest)]
        BY <2>1 DEF PushTo
      <4>2. [q EXCEPT !.finals = Queued(@, latest), !.interim = Superseded(@, latest)] = r
        BY <3>2, <3>3, <3>4, <3>5 DEF Queued
      <4> QED BY <1>2, <1>3, <4>1, <4>2 DEF FanTypes
    <3>8. PushedTo(t)' = Append(p, latest) BY <1>1, <3>1 DEF PushedTo
    <3>9. i # NoItem => i.seg = Len(p) + 2
      <4>1. i # NoItem => i = q.interim /\ q.interim.seg # latest.seg BY <3>4 DEF Superseded
      <4> QED BY <1>2, <1>3, <1>4, <3>1, <4>1 DEF InterimsLast
    <3>10. Len(Append(p, latest)) = Len(p) + 1 BY <3>1, AppendProperties
    <3>11. ~(at[t] = "done" /\ ctxDone) => Append(p, latest) = tried[t] \o InHand(t) \o g
      <4>1. PICK a \in Seq(Spoken) : a = tried[t] BY <1>2 DEF FanTypes
      <4>2. PICK h \in Seq(Spoken) : h = InHand(t) BY <1>2, HandTyped
      <4>3. a \o h \o Append(f, latest) = Append(a \o h \o f, latest) BY SMTT(30), <3>1, Appended
      <4>4. ~(at[t] = "done" /\ ctxDone) => p = a \o h \o f
        BY <1>2, <1>3, <1>4, <3>2, <4>1, <4>2 DEF Accounted
      <4> QED BY <3>3, <4>1, <4>2, <4>3, <4>4
    <3>12. Len(PushedTo(t)') + 1 = Len(p) + 2 BY <1>5, <3>8, <3>10
    <3> QED BY <3>6, <3>7, <3>8, <3>9, <3>11, <3>12
  <2>2. CASE ~latest.final
    <3>1. PushedTo(t)' = p /\ latest.seg = Len(p) + 1 /\ latest \in Unspoken
      BY <1>1, <1>2, <1>4, <2>2, PushedTyped DEF PushedTo, Unspoken
    <3>2. PICK r \in Queues : r = [q EXCEPT !.interim = latest] BY <3>1 DEF Queues
    <3>3. r.finals = q.finals /\ r.interim = latest BY ONLY <3>2, q \in Queues DEF Queues
    <3>4. target' = [target EXCEPT ![t] = r]
      <4>1. target' = [target EXCEPT ![t].interim = latest] BY <2>2 DEF PushTo
      <4> QED BY <1>3, <3>2, <4>1
    <3> QED BY <1>2, <1>3, <1>4, <3>1, <3>3, <3>4 DEF Accounted
  <2> QED BY <2>1, <2>2
<1>7. /\ target' \in [Targets -> Queues] /\ target'[t] = r
      /\ \A u \in Targets : u # t => target'[u] = target[u]
  BY <1>2, <1>6 DEF FanTypes
<1>8. InHand(t)' = InHand(t) BY <1>1 DEF InHand
<1>9. Fine(t)'
  <2>1. Accounted(t)' BY <1>1, <1>6, <1>7, <1>8 DEF Accounted
  <2>2. InterimsLast(t)' BY <1>1, <1>2, <1>6, <1>7 DEF InterimsLast
  <2>3. TrackFollows(t)' BY <1>1, ShownStays
  <2> QED BY <2>1, <2>2, <2>3 DEF Fine
<1>10. \A u \in Targets : u # t => Fine(u)'
  <2> SUFFICES ASSUME NEW u \in Targets, u # t PROVE Fine(u)'
    OBVIOUS
  <2>1. PushedTo(u)' = PushedTo(u) BY <1>1 DEF PushedTo
  <2>2. Accounted(u)' BY <1>1, <1>7, <2>1 DEF FanInv, Accounted, InHand
  <2>3. InterimsLast(u)' BY <1>1, <1>7, <2>1 DEF FanInv, InterimsLast
  <2>4. TrackFollows(u)' BY <1>1, ShownStays
  <2> QED BY <2>2, <2>3, <2>4 DEF Fine
<1>11. FanTypes' BY <1>1, <1>2, <1>7 DEF FanTypes
<1>12. Numbered' BY <1>1, <1>2 DEF Numbered
<1> QED BY <1>9, <1>10, <1>11, <1>12 DEF FanInv, Fine

\* A caption of the stream comes, when all targets have the one before.
LEMMA PushCaptionKeeps ==
  ASSUME FanInv, NEW final \in BOOLEAN, NEW lang \in Languages, PushCaption(final, lang)
  PROVE  FanInv'
<1>1. FanTypes /\ Numbered BY DEF FanInv
<1>2. waiting = {} /\ waiting' = Targets /\ UNCHANGED <<ctxDone, target, at, item, shown, track, out, tried>>
  BY DEF PushCaption
<1>3. Len(spoken) \in Nat /\ spoken \in Seq(Spoken) BY <1>1, LenProperties DEF FanTypes
<1>4. PICK c \in Caps : /\ c = Source(Speaking, final, lang, history)
                        /\ c.seg = Len(spoken) + 1 /\ c.final = final
  <2>1. PICK n \in Nat : n = Len(spoken) + 1 BY <1>3
  <2>2. PICK h \in Seq(Nat) : h = history BY <1>1 DEF FanTypes
  <2>3. PICK c \in Caps : c = [seg |-> n, final |-> final, lang |-> lang, context |-> h] BY DEF Caps
  <2>4. c.seg = n /\ c.final = final BY ONLY <2>3
  <2>5. c = Source(Speaking, final, lang, history) BY <2>1, <2>2, <2>3 DEF Source, Speaking
  <2> QED BY <2>1, <2>4, <2>5
<1>5. /\ latest' = c /\ history' = Remember(c)
      /\ spoken' = IF final THEN Append(spoken, c) ELSE spoken
  BY <1>4 DEF PushCaption
<1>6. history' \in Seq(Nat)
  <2>1. CASE final /\ ContextSentences > 0
    <3>1. PICK all \in Seq(Nat) : all = Append(history, c.seg)
      <4>1. PICK h \in Seq(Nat) : h = history BY <1>1 DEF FanTypes
      <4>2. PICK x \in Nat : x = c.seg BY <1>3, <1>4
      <4>3. Append(h, x) \in Seq(Nat) BY AppendProperties
      <4> QED BY <4>1, <4>2, <4>3
    <3>2. PICK n \in Nat : n = Len(all) BY LenProperties
    <3>3. PICK m \in Int : m = 1 + n - Least(ContextSentences, n) /\ m >= 1
      <4>1. ContextSentences \in Nat BY FanoutAssumption DEF FanoutAssumption, FanoutOptions
      <4>2. PICK k \in Nat : k = Least(ContextSentences, n) /\ k <= n BY <4>1 DEF Least
      <4>3. 1 + (n - k) \in Int /\ 1 + (n - k) >= 1 BY <4>2
      <4> QED BY <4>2, <4>3
    <3>4. \A i \in m .. n : all[i] \in Nat BY <3>2, <3>3, ElementOfSeq
    <3>5. SubSeq(all, m, n) \in Seq(Nat) BY ONLY <3>4, m \in Int, n \in Nat, SubSeqProperties
    <3> QED BY <1>4, <1>5, <2>1, <3>1, <3>2, <3>3, <3>5 DEF Remember
  <2>2. CASE ~(final /\ ContextSentences > 0) BY <1>1, <1>4, <1>5, <2>2 DEF Remember, FanTypes
  <2> QED BY <2>1, <2>2
<1>7. spoken' \in Seq(Spoken)
  <2>1. CASE final BY <1>3, <1>4, <1>5, <2>1, AppendProperties DEF Spoken
  <2>2. CASE ~final BY <1>3, <1>5, <2>2
  <2> QED BY <2>1, <2>2
<1>8. FanTypes' BY <1>1, <1>2, <1>5, <1>6, <1>7 DEF FanTypes
<1>9. Numbered'
  <2>1. CASE final
    <3>1. c \in Spoken BY <1>4, <2>1 DEF Spoken
    <3>2. spoken' = Append(spoken, c) BY <1>5, <2>1
    <3>3. /\ Len(spoken') = Len(spoken) + 1 /\ spoken'[Len(spoken')] = c /\ spoken' # <<>>
          /\ \A i \in 1 .. Len(spoken) : spoken'[i] = spoken[i]
      BY <1>3, <3>1, <3>2, WithoutLast
    <3>4. \A i \in 1 .. Len(spoken') : i \in 1 .. Len(spoken) \/ i = Len(spoken') BY ONLY <1>3, <3>3
    <3>5. \A i \in 1 .. Len(spoken') : spoken'[i].seg = i
      BY <1>1, <1>4, <3>3, <3>4 DEF Numbered
    <3> QED BY <1>4, <1>5, <2>1, <3>3, <3>5 DEF Numbered
  <2>2. CASE ~final BY <1>1, <1>4, <1>5, <2>2 DEF Numbered
  <2> QED BY <2>1, <2>2
<1>10. \A t \in Targets : PushedTo(t)' = PushedTo(t)
  <2> SUFFICES ASSUME NEW t \in Targets PROVE PushedTo(t)' = PushedTo(t)
    OBVIOUS
  <2>1. PushedTo(t) = spoken BY <1>2 DEF PushedTo
  <2>2. CASE final
    <3>1. c \in Spoken BY <1>4, <2>2 DEF Spoken
    <3>2. SubSeq(Append(spoken, c), 1, Len(Append(spoken, c)) - 1) = spoken BY <1>3, <3>1, WithoutLast
    <3> QED BY <1>2, <1>4, <1>5, <2>1, <2>2, <3>2 DEF PushedTo
  <2>3. CASE ~final BY <1>2, <1>4, <1>5, <2>1, <2>3 DEF PushedTo
  <2> QED BY <2>2, <2>3
<1>11. \A t \in Targets : Fine(t)'
  <2> SUFFICES ASSUME NEW t \in Targets PROVE Fine(t)'
    OBVIOUS
  <2>1. Accounted(t)' BY <1>2, <1>10 DEF FanInv, Accounted, InHand
  <2>2. InterimsLast(t)' BY <1>2, <1>10 DEF FanInv, InterimsLast
  <2>3. TrackFollows(t)' BY <1>2, ShownStays
  <2> QED BY <2>1, <2>2, <2>3 DEF Fine
<1> QED BY <1>8, <1>9, <1>11 DEF FanInv, Fine

\* A target is closed.
LEMMA CloseTargetKeeps == ASSUME FanInv, NEW t \in Targets, CloseTarget(t) PROVE FanInv'
<1>1. /\ UNCHANGED <<sourceVars, waiting, ctxDone, at, item, shown, track, out, tried>>
      /\ target' = [target EXCEPT ![t].closed = TRUE, ![t].interim = NoItem]
  BY DEF CloseTarget
<1>2. FanTypes /\ Accounted(t) /\ InterimsLast(t) BY DEF FanInv
<1>3. PICK q \in Queues : q = target[t] BY <1>2 DEF FanTypes
<1>4. PICK yes \in BOOLEAN : yes = TRUE BY Zenon
<1>5. PICK r \in Queues : r = [q EXCEPT !.closed = yes, !.interim = NoItem] BY DEF Queues
<1>6. r.finals = q.finals /\ r.interim = NoItem BY ONLY <1>5, q \in Queues DEF Queues
<1>7. target' = [target EXCEPT ![t] = r]
  <2>1. target' = [target EXCEPT ![t].closed = yes, ![t].interim = NoItem] BY <1>1, <1>4, Zenon
  <2> QED BY <1>2, <1>3, <1>5, <2>1 DEF FanTypes
<1>8. /\ target' \in [Targets -> Queues] /\ target'[t] = r
      /\ \A u \in Targets : u # t => target'[u] = target[u]
  BY <1>2, <1>7 DEF FanTypes
<1>9. Accounted(t)' BY <1>1, <1>2, <1>3, <1>6, <1>8 DEF Accounted, InHand, PushedTo, sourceVars
<1>10. InterimsLast(t)' BY <1>1, <1>2, <1>6, <1>8 DEF InterimsLast, PushedTo, sourceVars
<1>11. TrackFollows(t)' BY <1>1, ShownStays
<1> QED BY <1>1, <1>2, <1>8, <1>9, <1>10, <1>11, OneTarget DEF Fine, FanTypes

\* The run is cancelled, or the fan-out closed.
LEMMA CancelKeeps == ASSUME FanInv, Cancel \/ Close PROVE FanInv'
<1>1. /\ UNCHANGED <<pushes, latest, spoken, history, waiting, target, at, item, shown, track, out, tried>>
      /\ ctxDone' \in BOOLEAN /\ (ctxDone => ctxDone')
  BY DEF Cancel, Close, sourceVars, FanInv, FanTypes
<1>2. FanTypes' /\ Numbered' BY <1>1 DEF FanInv, FanTypes, Numbered
<1>3. \A t \in Targets : Accounted(t)' /\ InterimsLast(t)' /\ TrackFollows(t)'
  BY <1>1 DEF FanInv, Accounted, InterimsLast, TrackFollows, InHand, PushedTo
<1> QED BY <1>2, <1>3 DEF FanInv

\* Each step of the fan-out keeps the invariant.
LEMMA FanInvNext == ASSUME FanInv, [Next]_vars PROVE FanInv'
<1>1. \A len \in Texts \cup {0} : len \in Nat BY FanoutAssumption DEF FanoutAssumption
<1>2. ASSUME NEW t \in Targets, Park(t) \/ WakeUp(t) \/ Abort(t) PROVE FanInv'
  <2>1. CASE Park(t) BY <2>1, GoesElsewhere DEF Park, FanPlaces, sourceVars
  <2>2. CASE WakeUp(t) BY <2>2, GoesElsewhere DEF WakeUp, FanPlaces, sourceVars
  <2>3. CASE Abort(t) BY <2>3, GoesElsewhere DEF Abort, FanPlaces, sourceVars
  <2> QED BY <1>2, <2>1, <2>2, <2>3
<1>3. ASSUME NEW t \in Targets, NEW len \in Texts \cup {0}, PassThrough(t, len) \/ Translated(t, len) PROVE FanInv'
  BY <1>1, <1>3, SettledKeeps DEF PassThrough, Translated
<1>4. ASSUME NEW t \in Targets, TranslateFails(t) PROVE FanInv'
  <2>1. Emit(t, item[t], 0) BY <1>4 DEF TranslateFails, Emit
  <2> QED BY <1>4, <2>1, SettledKeeps DEF TranslateFails
<1>5. ASSUME NEW t \in Targets, Loop(t) PROVE FanInv'
  BY <1>2, <1>3, <1>4, <1>5, TakeKeeps DEF Loop
<1>6. ASSUME NEW t \in Targets, NEW len \in Texts, Partial(t, len) PROVE FanInv'
  BY <1>1, <1>6, PartialKeeps
<1>7. CASE Producer BY <1>7, PushCaptionKeeps, PushToKeeps, CloseTargetKeeps, CancelKeeps DEF Producer
<1>8. CASE UNCHANGED vars
  <2>1. UNCHANGED <<pushes, latest, spoken, history, waiting, ctxDone, target, at, item, shown, track, out, tried>>
    BY <1>8 DEF vars, sourceVars
  <2> QED BY <2>1 DEF FanInv, FanTypes, Numbered, Accounted, InterimsLast, TrackFollows, InHand, PushedTo
<1> QED BY <1>5, <1>6, <1>7, <1>8, CancelKeeps DEF Next

\* No step takes back what a target's track shows.
LEMMA NothingShrinks == ASSUME FanInv, [Next]_vars PROVE NeverShrinks
<1>0. \A len \in Texts \cup {0} : len \in Nat BY FanoutAssumption DEF FanoutAssumption
<1>1. ASSUME NEW u \in Targets, UNCHANGED <<out[u], track[u]>> PROVE FollowsNoFinal(u) /\ OnlyGrows(u)
  <2>1. FollowsNoFinal(u) BY <1>1 DEF FollowsNoFinal
  <2>2. OnlyGrows(u)
    <3> SUFFICES ASSUME at[u] = "call", track[u].interim.seg = item[u].seg
                 PROVE  track[u].interim.text >= track[u].interim.text
      BY <1>1 DEF OnlyGrows
    <3>1. item[u].seg = Len(tried[u]) + 1 /\ Len(tried[u]) \in Nat
      BY LenProperties DEF FanInv, InterimsLast, FanTypes
    <3>2. NoCaption.seg # item[u].seg BY <3>1 DEF NoCaption
    <3>3. track[u].interim.text \in Nat BY <3>2 DEF FanInv, TrackFollows
    <3> QED BY <3>3
  <2> QED BY <2>1, <2>2
<1>2. ASSUME NEW t \in Targets, at[t] = "call", NEW c, c.seg = item[t].seg, NEW len \in Nat, Emit(t, c, len),
             at'[t] # "call" \/ (~c.final /\ len # 0 /\ ~Shorter(t, item[t].seg, len))
      PROVE  NeverShrinks
  <2>1. /\ \A u \in Targets : u # t => UNCHANGED <<out[u], track[u]>>
        /\ out'[t] # out[t] => out'[t].seg = item[t].seg
        /\ ~c.final /\ len # 0 => track'[t].interim.text = len
    BY <1>2, Emitted
  <2>2. /\ item[t].seg = Len(tried[t]) + 1 /\ Len(tried[t]) \in Nat
        /\ \A i \in 1 .. Len(tried[t]) : tried[t][i].seg = i
    BY <1>2, LenProperties, HandIsNext DEF FanInv, InterimsLast, FanTypes
  <2>3. FollowsNoFinal(t)
    <3>1. \A i \in 1 .. Len(tried[t]) : tried[t][i].seg # item[t].seg BY ONLY <2>2
    <3> QED BY <2>1, <3>1 DEF FollowsNoFinal
  <2>4. OnlyGrows(t)
    <3> SUFFICES ASSUME at'[t] = "call", track[t].interim.seg = item[t].seg
                 PROVE  track'[t].interim.text >= track[t].interim.text
      BY DEF OnlyGrows
    <3>1. track'[t].interim.text = len /\ ~Shorter(t, item[t].seg, len) BY <1>2, <2>1
    <3>2. NoCaption.seg # item[t].seg BY <2>2 DEF NoCaption
    <3>3. shown[t].seg = item[t].seg /\ shown[t].len = track[t].interim.text /\ shown[t].len \in Nat
      BY <2>2, <3>2 DEF FanInv, TrackFollows
    <3> QED BY <3>1, <3>3 DEF Shorter
  <2> QED BY <1>1, <2>1, <2>3, <2>4 DEF NeverShrinks
<1>3. ASSUME NEW t \in Targets, NEW len \in Texts \cup {0}, PassThrough(t, len) \/ Translated(t, len) PROVE NeverShrinks
  <2>1. at[t] = "call" /\ at' = [at EXCEPT ![t] = "next"] /\ Emit(t, item[t], len)
    BY <1>3 DEF PassThrough, Translated, Settled
  <2>2. at'[t] = "next" BY <2>1 DEF FanInv, FanTypes
  <2> QED BY <1>0, <1>2, <2>1, <2>2
<1>4. ASSUME NEW t \in Targets, NEW len \in Texts, Partial(t, len) PROVE NeverShrinks
  <2>1. item[t] \in Caps BY <1>4 DEF Partial, FanInv, FanTypes
  <2>2. PICK c \in Caps : c = [item[t] EXCEPT !.final = FALSE] BY <2>1 DEF Caps
  <2>3. c.seg = item[t].seg /\ ~c.final BY <2>1, <2>2 DEF Caps
  <2>4. at[t] = "call" /\ Emit(t, c, len) /\ len # 0 /\ ~Shorter(t, item[t].seg, len) /\ len \in Nat
    BY <1>0, <1>4, <2>2 DEF Partial
  <2> QED BY <1>2, <2>3, <2>4
<1>5. CASE UNCHANGED <<out, track>> BY <1>1, <1>5 DEF NeverShrinks
<1>6. ASSUME NEW t \in Targets, Loop(t) PROVE NeverShrinks
  BY <1>3, <1>5, <1>6 DEF Loop, Take, Park, WakeUp, Abort, TranslateFails
<1>7. CASE Producer \/ Cancel \/ UNCHANGED vars
  BY <1>5, <1>7 DEF Producer, PushCaption, Close, PushTo, CloseTarget, Cancel, vars
<1> QED BY <1>4, <1>6, <1>7 DEF Next

\* What a viewer of a target's track relies on, for any targets, languages and
\* captions, with partial output, failures and cancellation at any point.
THEOREM TrackAlwaysKept == Spec => TrackKept
<1>1. Init => FanInv
  <2> SUFFICES ASSUME Init PROVE FanInv
    OBVIOUS
  <2>1. /\ spoken = <<>> /\ waiting = {} /\ history = <<>> /\ latest = NoItem /\ ctxDone = FALSE
        /\ target = [t \in Targets |-> [finals |-> <<>>, interim |-> NoItem, closed |-> FALSE]]
        /\ at = [t \in Targets |-> "next"] /\ item = [t \in Targets |-> NoItem]
        /\ shown = [t \in Targets |-> NoShown] /\ track = [t \in Targets |-> EmptyTrack]
        /\ out = [t \in Targets |-> NoCaption] /\ tried = [t \in Targets |-> <<>>]
    BY DEF Init
  <2>2. PICK e \in Seq(Spoken) : e = <<>> BY EmptySeq
  <2>3. PICK q \in Queues : q = [finals |-> <<>>, interim |-> NoItem, closed |-> FALSE]
    <3>1. PICK no \in BOOLEAN : no = FALSE BY Zenon
    <3>2. PICK q \in Queues : q = [finals |-> e, interim |-> NoItem, closed |-> no] BY DEF Queues
    <3> QED BY <2>2, <3>1, <3>2, Zenon
  <2>4. q.finals = <<>> /\ q.interim = NoItem BY <2>3
  <2>5. FanTypes
    <3>1. target \in [Targets -> Queues] BY <2>1, <2>3, Zenon
    <3>2. tried \in [Targets -> Seq(Spoken)] BY <2>1, <2>2
    <3>3. history \in Seq(Nat) BY <2>1, EmptySeq
    <3>4. spoken \in Seq(Spoken) BY <2>1, <2>2
    <3> QED BY <2>1, <3>1, <3>2, <3>3, <3>4 DEF FanTypes, FanPlaces
  <2>6. Len(<<>>) = 0 /\ Len(e) = 0 BY <2>2, LenProperties
  <2>7. Numbered BY <2>1, <2>6 DEF Numbered
  <2>8. ASSUME NEW t \in Targets PROVE Accounted(t) /\ InterimsLast(t) /\ TrackFollows(t)
    <3>1. target[t].finals = <<>> /\ target[t].interim = NoItem
      <4>1. target[t] = q BY <2>1, <2>3, Zenon
      <4> QED BY <2>4, <4>1
    <3>2. PushedTo(t) = <<>> /\ InHand(t) = <<>> /\ tried[t] = <<>> BY <2>1 DEF PushedTo, InHand
    <3>3. <<>> \o <<>> \o <<>> = <<>> OBVIOUS
    <3>4. Accounted(t) BY <3>1, <3>2, <3>3 DEF Accounted
    <3>5. InterimsLast(t) BY <2>1, <3>1 DEF InterimsLast
    <3>6. TrackFollows(t)
      <4>1. track[t] = EmptyTrack BY <2>1
      <4>2. DOMAIN EmptyTrack = Fields /\ EmptyTrack.interim = NoCaption /\ EmptyTrack.final = <<>>
        BY DEF EmptyTrack, Fields
      <4>3. DOMAIN <<>> = {} OBVIOUS
      <4>4. NoCaption.seg # 1 BY DEF NoCaption
      <4> QED BY <2>6, <3>2, <4>1, <4>2, <4>3, <4>4 DEF TrackFollows
    <3> QED BY <3>4, <3>5, <3>6
  <2> QED BY <2>5, <2>7, <2>8 DEF FanInv
<1>2. ASSUME FanInv, FanInv', [Next]_vars PROVE [FinalsInOrder' /\ NeverShrinks]_vars
  <2>1. FinalsInOrder' BY <1>2 DEF FanInv, FinalsInOrder, Accounted
  <2> QED BY <1>2, <2>1, NothingShrinks
<1> QED BY <1>1, <1>2, FanInvNext, PTL DEF Spec, TrackKept
=============================================================================
