------------------------------ MODULE AdminEvents ------------------------------
(***************************************************************************)
(* The admin event stream: the manager's publishers (session/manager.go),  *)
(* the hub that fans events out (session/events.go) and the handler of     *)
(* /ws/admin (session/adminws.go), for one session and one page, which     *)
(* connects again whenever its connection ends.  A status is the number of *)
(* the state change it shows.                                              *)
(***************************************************************************)
EXTENDS Integers, Sequences

CONSTANTS
  Publishers,   \* goroutines that publish: requests, the ticker, ends of runs
  EventBuffer,  \* eventBuffer
  MaxChanges,   \* bound: changes of the status
  MaxPages      \* bound: connections

ASSUME AdminAssumption == EventBuffer \in Nat \ {0}

VARIABLES
  status,     \* what Manager.status answers
  read,       \* the status a publisher has read and not yet published, or -1
  published,  \* the status of the last Publish
  events,     \* the subscriber's channel
  subscribed, \* it is in Events.subs; once it is not, the channel is closed
  hubClosed,  \* Events.closed
  handler,    \* where AdminHandler is: "none", "subscribed", "writing" or "listening"
  snapshot,   \* what Snapshot answered
  page,       \* the status the page shows
  pages

adminVars == <<status, read, published, events, subscribed, hubClosed, handler, snapshot, page, pages>>

AdminInit ==
  /\ status = 0 /\ published = 0 /\ read = [p \in Publishers |-> -1]
  /\ events = <<>> /\ subscribed = FALSE /\ hubClosed = FALSE
  /\ handler = "none" /\ snapshot = 0 /\ page = 0 /\ pages = 0

-----------------------------------------------------------------------------
(* changed, publishStatus and tick: the status is read, then published *)

StatusChanges ==
  /\ status < MaxChanges /\ status' = status + 1
  /\ UNCHANGED <<read, published, events, subscribed, hubClosed, handler, snapshot, page, pages>>

ReadStatus(p) ==
  /\ read[p] = -1 /\ read' = [read EXCEPT ![p] = status]
  /\ UNCHANGED <<status, published, events, subscribed, hubClosed, handler, snapshot, page, pages>>

\* What a full channel means for its subscriber: it is removed.  Mutant: it
\* only misses the event.
StaysThoughFull == subscribed
StaysSubscribed == subscribed /\ Len(events) < EventBuffer

Publish(p) ==
  /\ read[p] # -1
  /\ read' = [read EXCEPT ![p] = -1] /\ published' = read[p]
  /\ events' = IF subscribed /\ Len(events) < EventBuffer THEN Append(events, read[p]) ELSE events
  /\ subscribed' = StaysSubscribed
  /\ UNCHANGED <<status, hubClosed, handler, snapshot, page, pages>>

CloseEvents ==
  /\ ~hubClosed /\ hubClosed' = TRUE /\ subscribed' = FALSE
  /\ UNCHANGED <<status, read, published, events, handler, snapshot, page, pages>>

-----------------------------------------------------------------------------
(* AdminHandler *)

Subscribe ==
  /\ handler = "none" /\ pages < MaxPages
  /\ pages' = pages + 1 /\ handler' = "subscribed"
  /\ events' = <<>> /\ subscribed' = ~hubClosed
  /\ UNCHANGED <<status, read, published, hubClosed, snapshot, page>>

TakeSnapshot ==
  /\ handler = "subscribed" /\ handler' = "writing" /\ snapshot' = status
  /\ UNCHANGED <<status, read, published, events, subscribed, hubClosed, page, pages>>

WriteSnapshot ==
  /\ handler = "writing" /\ handler' = "listening" /\ page' = snapshot
  /\ UNCHANGED <<status, read, published, events, subscribed, hubClosed, snapshot, pages>>

WriteEvent ==
  /\ handler = "listening" /\ events # <<>>
  /\ page' = Head(events) /\ events' = Tail(events)
  /\ UNCHANGED <<status, read, published, subscribed, hubClosed, handler, snapshot, pages>>

\* The end of the connection: the channel was closed and is drained ("resubscribe"),
\* or the snapshot, a write or a ping fails, or the page leaves.
Leave ==
  /\ handler # "none" /\ handler' = "none" /\ subscribed' = FALSE
  /\ UNCHANGED <<status, read, published, events, hubClosed, snapshot, page, pages>>

AdminNext ==
  \/ StatusChanges \/ CloseEvents
  \/ \E p \in Publishers : ReadStatus(p) \/ Publish(p)
  \/ Subscribe \/ TakeSnapshot \/ WriteSnapshot \/ WriteEvent \/ Leave

AdminSpec == AdminInit /\ [][AdminNext]_adminVars

-----------------------------------------------------------------------------
(* What holds *)

\* "Subscribe before the snapshot so no change falls in between", and a
\* subscriber that falls behind is dropped to get a fresh snapshot: a page that
\* has nothing more to read and stays subscribed is not behind what was
\* published last.
PageNotBehind ==
  handler = "listening" /\ subscribed /\ events = <<>> => page >= published

(* What the code says and does not hold *)

\* The ticker publishes "so the dashboard sees levels, viewers and latency
\* move": statuses are published in the order they were taken.  Nothing orders
\* the read of a status and its publication, so a page may be left with the
\* status from before the last change.
NeverBack == [][published' >= published]_adminVars
=============================================================================
