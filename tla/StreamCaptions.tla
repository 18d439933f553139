------------------------------ MODULE StreamCaptions ------------------------------
(***************************************************************************)
(* internal/streamcc: the service that posts a session's final captions of *)
(* one track to the live stream (YouTube's ingestion URL), and its sinks.  *)
(*                                                                         *)
(* One session and its successive runs.  Run r has sink r, a goroutine     *)
(* with a bounded queue that outlives its run while it drains.  The        *)
(* session manager calls RunStarted and RunEnded; RunStarted of a run may  *)
(* come before RunEnded of the run before it (SessionManager shows that).  *)
(* Admins change the URL, send a test caption and delete the session       *)
(* meanwhile.                                                              *)
(*                                                                         *)
(* What is abstracted: a caption is its number in its run; whether it has  *)
(* become stale, and how long backoff and drain take, are choices; a post  *)
(* may reach YouTube at any time before its answer, and every answer may   *)
(* be a failure.  The OBS target, the cue layout and the clock offset are  *)
(* left out.                                                               *)
(***************************************************************************)
EXTENDS Naturals, Sequences

CONSTANTS
  Urls,           \* ingestion URLs an admin may set
  NoUrl,          \* no URL is stored
  MaxRuns,        \* bound: runs of the session under any plan
  Plans,          \* bounds: how many runs, finals published (repeated ones
                  \* included), URL changes, test captions and deletions there may be
  QueueSize,      \* Options.QueueSize
  SeenSize,       \* seenSegments
  MaxReceived     \* bound: posts that reach YouTube

StreamOptions == QueueSize \in Nat \ {0}

ASSUME StreamAssumption ==
  /\ StreamOptions /\ NoUrl \notin Urls
  /\ {MaxRuns, SeenSize} \subseteq Nat \ {0}
  /\ MaxReceived \in Nat
  /\ Plans \subseteq [runs : 1..MaxRuns, finals : Nat, urls : Nat, tests : Nat, forgets : Nat]

VARIABLES
  run,       \* where each run is: RunStarted's steps, live, RunEnded's steps
  tookOut,   \* the sink a call of a run took out and still has to close
  offer,     \* the sink and caption a publisher has in hand between offer and enqueue
  newest,    \* highest caption number of each run
  sinkOf,    \* sessionState.sink; 0 is nil
  cur,       \* the session's state object; 0 when there is none
  made,      \* state objects made so far
  seq,       \* sessionState.seq of each object
  status,    \* sessionState.status of the current object
  sink,      \* the sinks and their goroutines
  accepted,  \* captions each sink has queued so far, in order
  received,  \* posts that reached YouTube, in order of arrival
  stored,    \* the URL in the secret store
  setter,    \* SetYouTubeURL / DeleteYouTubeURL between store and hand-over
  test,      \* SendTest
  tests,     \* test captions so far
  forget,    \* Forget
  forgets,   \* deletions so far
  shut,      \* Close was called
  left       \* what of the chosen plan is still to come

runVars == <<run, tookOut, offer, newest>>
stateVars == <<cur, made, seq, status>>
urlVars == <<stored, setter>>
testVars == <<test, tests>>
forgetVars == <<forget, forgets>>
vars == <<runVars, sinkOf, stateVars, sink, accepted, received, urlVars, testVars, forgetVars, shut, left>>

Runs == 1..MaxRuns
NoStatus == [state |-> "none", error |-> "none"]
NoSink == [pc |-> "none", obj |-> 0, first |-> NoUrl, url |-> NoUrl, queue |-> <<>>,
           closing |-> FALSE, seen |-> <<>>, wake |-> FALSE, cancelled |-> FALSE,
           timer |-> FALSE, item |-> 0, seq |-> 0, arrived |-> FALSE,
           result |-> "none", dropped |-> 0, reported |-> 0, settled |-> 0]
NoTest == [pc |-> "idle", obj |-> 0, seq |-> 0, arrived |-> FALSE, result |-> "none"]
NoOffer == [sink |-> 0, caption |-> 0]
Off == "off"

Elements(s) == {s[i] : i \in 1..Len(s)}

Init ==
  /\ left \in Plans
  /\ run = [r \in Runs |-> "new"]
  /\ tookOut = [r \in Runs |-> 0]
  /\ offer = [r \in Runs |-> NoOffer]
  /\ newest = [r \in Runs |-> 0]
  /\ sinkOf = 0
  /\ cur = 0 /\ made = 0
  /\ seq = [o \in 1..(left.forgets + 1) |-> 0]
  /\ status = NoStatus
  /\ sink = [k \in Runs |-> NoSink]
  /\ accepted = [k \in Runs |-> <<>>]
  /\ received = <<>>
  /\ stored \in Urls \cup {NoUrl}
  /\ setter = Off
  /\ test = NoTest /\ tests = 0
  /\ forget = [pc |-> "idle", sink |-> 0] /\ forgets = 0
  /\ shut = FALSE

\* One of a kind of call comes from outside.
Called(kind) == left[kind] > 0 /\ left' = [left EXCEPT ![kind] = @ - 1]

----------------------------------------------------------------------------
\* state(id): the session's state object, made when there is none.
StateKept ==
  /\ made' = IF cur = 0 THEN made + 1 ELSE made
  /\ cur' = made'

\* setStatus: it finds or makes the state object too.
SetStatus(s) == StateKept /\ status' = s

\* sink.close with a drain: no more captions, wake the goroutine, start the timer.
Closed(k) == [sink EXCEPT ![k].closing = TRUE, ![k].wake = TRUE, ![k].timer = TRUE]
CloseSink(k) == sink' = IF k = 0 THEN sink ELSE Closed(k)

----------------------------------------------------------------------------
\* RunStarted, when stream captions are enabled: the URL is read first, with
\* no lock held.
CanStart(r) ==
  /\ run[r] = "new" /\ ~shut
  /\ r > 1 => run[r - 1] \in {"over", "ending", "ended"}

ReadUrl(r) ==
  /\ CanStart(r) /\ Called("runs")
  /\ run' = [run EXCEPT ![r] = "read"]
  /\ sink' = [sink EXCEPT ![r].first = stored]
  /\ UNCHANGED <<tookOut, offer, newest, sinkOf, stateVars, accepted, received,
                 urlVars, testVars, forgetVars, shut>>

\* RunStarted of a session whose stream captions are off.
StartDisabled(r) ==
  /\ CanStart(r) /\ Called("runs")
  /\ run' = [run EXCEPT ![r] = "live"]
  /\ SetStatus([state |-> "disabled", error |-> "none"])
  /\ UNCHANGED <<tookOut, offer, newest, sinkOf, seq, sink, accepted, received,
                 urlVars, testVars, forgetVars, shut>>

Register(r) ==
  /\ run[r] = "read"
  /\ StateKept
  /\ sink' = [sink EXCEPT ![r] = [@ EXCEPT !.pc = "made", !.obj = cur', !.url = sink[r].first, !.wake = TRUE]]
  /\ tookOut' = [tookOut EXCEPT ![r] = sinkOf]
  /\ sinkOf' = r
  /\ run' = [run EXCEPT ![r] = "registered"]
  /\ UNCHANGED <<offer, newest, seq, status, accepted, received, urlVars,
                 testVars, forgetVars, shut, left>>

CloseOld(r) ==
  /\ run[r] = "registered"
  /\ CloseSink(tookOut[r])
  /\ tookOut' = [tookOut EXCEPT ![r] = 0]
  /\ run' = [run EXCEPT ![r] = "closed"]
  /\ UNCHANGED <<offer, newest, sinkOf, stateVars, accepted, received, urlVars,
                 testVars, forgetVars, shut, left>>

\* The end of RunStarted: the status, then the goroutine.
Announce(r) ==
  /\ run[r] = "closed"
  /\ SetStatus(IF sink[r].first = NoUrl THEN [state |-> "error", error |-> "no_url"]
                                        ELSE [state |-> "idle", error |-> "none"])
  /\ sink' = [sink EXCEPT ![r].pc = "next"]
  /\ run' = [run EXCEPT ![r] = "live"]
  /\ UNCHANGED <<tookOut, offer, newest, sinkOf, seq, accepted, received, urlVars,
                 testVars, forgetVars, shut, left>>

\* tap.Publish and offer: a final of the sink's track, the first time or
\* again.  The sink is looked up under the service's lock and used after it.
Offer(r) ==
  /\ run[r] = "live" /\ offer[r] = NoOffer /\ Called("finals")
  /\ \E c \in 1..(newest[r] + 1) :
       /\ newest' = [newest EXCEPT ![r] = IF c > @ THEN c ELSE @]
       /\ offer' = [offer EXCEPT ![r] = IF sinkOf = 0 THEN NoOffer
                                        ELSE [sink |-> sinkOf, caption |-> c]]
  /\ UNCHANGED <<run, tookOut, sinkOf, stateVars, sink, accepted, received, urlVars,
                 testVars, forgetVars, shut>>

LastOf(s, n) == IF Len(s) > n THEN Tail(s) ELSE s

\* Mutants: a lost caption that is not counted, a queued caption that wakes
\* nobody.
QueuedUncounted(k, item, segment) ==
  [sink EXCEPT ![k].seen = LastOf(Append(@, segment), SeenSize),
               ![k].queue = IF Len(@) >= QueueSize THEN Append(Tail(@), item) ELSE Append(@, item),
               ![k].wake = TRUE]
QueuedSilent(k, item, segment) ==
  [sink EXCEPT ![k].seen = LastOf(Append(@, segment), SeenSize),
               ![k].queue = IF Len(@) >= QueueSize THEN Append(Tail(@), item) ELSE Append(@, item),
               ![k].dropped = IF Len(sink[k].queue) >= QueueSize THEN @ + 1 ELSE @]

\* sink.enqueue: never blocks; a full queue loses its oldest item.
Queued(k, item, segment) ==
  [sink EXCEPT ![k].seen = LastOf(Append(@, segment), SeenSize),
               ![k].queue = IF Len(@) >= QueueSize THEN Append(Tail(@), item) ELSE Append(@, item),
               ![k].dropped = IF Len(sink[k].queue) >= QueueSize THEN @ + 1 ELSE @,
               ![k].wake = TRUE]

Enqueue(r) ==
  LET k == offer[r].sink
      segment == <<r, offer[r].caption>>
  IN
  /\ k # 0
  /\ offer' = [offer EXCEPT ![r] = NoOffer]
  /\ IF sink[k].closing \/ segment \in Elements(sink[k].seen)
     THEN UNCHANGED <<sink, accepted>>
     ELSE /\ accepted' = [accepted EXCEPT ![k] = Append(@, segment)]
          /\ sink' = Queued(k, Len(accepted[k]) + 1, segment)
  /\ UNCHANGED <<run, tookOut, newest, sinkOf, stateVars, received, urlVars,
                 testVars, forgetVars, shut, left>>

\* The run's pipeline has ended (or never came up): it will call RunEnded.
RunOver(r) ==
  /\ run[r] = "live" /\ offer[r] = NoOffer
  /\ run' = [run EXCEPT ![r] = "over"]
  /\ UNCHANGED <<tookOut, offer, newest, sinkOf, stateVars, sink, accepted, received,
                 urlVars, testVars, forgetVars, shut, left>>

\* RunEnded takes whatever sink is registered, then closes it.
RunEnded(r) ==
  /\ run[r] = "over"
  /\ tookOut' = [tookOut EXCEPT ![r] = sinkOf]
  /\ sinkOf' = 0
  /\ run' = [run EXCEPT ![r] = "ending"]
  /\ UNCHANGED <<offer, newest, stateVars, sink, accepted, received, urlVars,
                 testVars, forgetVars, shut, left>>

CloseTaken(r) ==
  /\ run[r] = "ending"
  /\ CloseSink(tookOut[r])
  /\ tookOut' = [tookOut EXCEPT ![r] = 0]
  /\ run' = [run EXCEPT ![r] = "ended"]
  /\ UNCHANGED <<offer, newest, sinkOf, stateVars, accepted, received, urlVars,
                 testVars, forgetVars, shut, left>>

----------------------------------------------------------------------------
\* The sink's goroutine.
SinkOnly(k, s) ==
  /\ sink' = [sink EXCEPT ![k] = s]
  /\ UNCHANGED <<runVars, sinkOf, accepted, received, urlVars, testVars, forgetVars, shut, left>>

\* time.AfterFunc(drain, k.cancel)
DrainOver(k) ==
  /\ sink[k].timer
  /\ SinkOnly(k, [sink[k] EXCEPT !.timer = FALSE, !.cancelled = TRUE])
  /\ UNCHANGED stateVars

\* next: the queue first, then closing, then wait; run looks at the context.
Take(k) ==
  LET s == sink[k] IN
  /\ s.pc = "next"
  /\ SinkOnly(k,
       IF s.queue # <<>>
       THEN [s EXCEPT !.item = Head(s.queue), !.queue = Tail(s.queue),
                      !.pc = IF s.cancelled THEN "leave" ELSE "deliver"]
       ELSE [s EXCEPT !.pc = IF s.closing THEN "leave" ELSE "wait"])
  /\ UNCHANGED stateVars

Woken(k) ==
  /\ sink[k].pc = "wait"
  /\ \/ sink[k].wake /\ SinkOnly(k, [sink[k] EXCEPT !.wake = FALSE, !.pc = "next"])
     \/ sink[k].cancelled /\ SinkOnly(k, [sink[k] EXCEPT !.pc = "leave"])
  /\ UNCHANGED stateVars

\* The top of deliver's loop: a stale item is dropped; the first attempt
\* takes a seq; send reads the URL and posts.
DropStale(k) ==
  /\ sink[k].pc = "deliver"
  /\ SinkOnly(k, [sink[k] EXCEPT !.dropped = @ + 1, !.pc = "report"])
  /\ UNCHANGED stateVars

\* Mutant: every attempt takes a seq of its own.
SeqAnew(s) == seq[s.obj] + 1

\* The seq of a caption: a retry keeps the one it has.
SeqFor(s) == IF s.seq = 0 THEN seq[s.obj] + 1 ELSE s.seq

Send(k) ==
  LET s == sink[k]
      n == SeqFor(s)
      t == [s EXCEPT !.seq = n, !.arrived = FALSE]
  IN
  /\ s.pc = "deliver"
  /\ seq' = [seq EXCEPT ![s.obj] = IF n > @ THEN n ELSE @]
  /\ SinkOnly(k,
       IF s.cancelled THEN [t EXCEPT !.pc = "report"]
       ELSE IF s.url # NoUrl THEN [t EXCEPT !.pc = "post"]
       ELSE [t EXCEPT !.pc = "record", !.result = "no_url"])
  /\ UNCHANGED <<cur, made, status>>

\* The post reaches YouTube.
Arrive(k) ==
  /\ sink[k].pc = "post" /\ ~sink[k].arrived /\ Len(received) < MaxReceived
  /\ received' = Append(received, [by |-> k, item |-> sink[k].item, seq |-> sink[k].seq, obj |-> sink[k].obj])
  /\ sink' = [sink EXCEPT ![k].arrived = TRUE]
  /\ UNCHANGED <<runVars, sinkOf, stateVars, accepted, urlVars, testVars, forgetVars, shut, left>>

\* The answer: only a post that arrived can be accepted or rejected; any may
\* fail (an HTTP 5xx, a timeout, a lost answer).
Answers(arrived) == IF arrived THEN {"ok", "rejected", "failed"} ELSE {"failed"}

Answer(k) ==
  /\ sink[k].pc = "post"
  /\ \E res \in Answers(sink[k].arrived) :
       SinkOnly(k, IF sink[k].cancelled THEN [sink[k] EXCEPT !.pc = "report"]
                   ELSE [sink[k] EXCEPT !.pc = "record", !.result = res])
  /\ UNCHANGED stateVars

\* recordDelivery: what one attempt does to the status.
DeliveryStatus(res, retry) ==
  CASE res = "ok" -> [state |-> "ok", error |-> "none"]
    [] res = "failed" /\ retry -> [state |-> "retrying", error |-> "failed"]
    [] OTHER -> [state |-> "error", error |-> res]

Record(k) ==
  LET s == sink[k] IN
  /\ s.pc = "record"
  /\ SetStatus(DeliveryStatus(s.result, TRUE))
  /\ SinkOnly(k, IF s.result = "failed" THEN [s EXCEPT !.pc = "backoff"]
                 ELSE [s EXCEPT !.pc = "report", !.settled = @ + 1])
  /\ UNCHANGED seq

\* The wait between two attempts.
Retry(k) ==
  /\ sink[k].pc = "backoff"
  /\ \/ SinkOnly(k, [sink[k] EXCEPT !.pc = "deliver"])
     \/ sink[k].cancelled /\ SinkOnly(k, [sink[k] EXCEPT !.pc = "report"])
  /\ UNCHANGED stateVars

\* reportDropped after each item.
Reported(s) == [s EXCEPT !.reported = @ + s.dropped, !.dropped = 0, !.item = 0, !.seq = 0,
                         !.arrived = FALSE, !.result = "none"]

Report(k) ==
  /\ sink[k].pc = "report"
  /\ SinkOnly(k, [Reported(sink[k]) EXCEPT !.pc = "next"])
  /\ UNCHANGED stateVars

\* run returns: the last report, the deferred cancel, then sinkDone looks
\* whether a new run has started ...
Leave(k) ==
  /\ sink[k].pc = "leave"
  /\ SinkOnly(k, [Reported(sink[k]) EXCEPT !.pc = IF sinkOf # 0 THEN "gone" ELSE "settle"])
  /\ UNCHANGED stateVars

\* ... and settles the status if not.
Settled(s) == IF s.state = "disabled" THEN s ELSE [state |-> "idle", error |-> "none"]

Settle(k) ==
  /\ sink[k].pc = "settle"
  /\ SetStatus(Settled(status))
  /\ SinkOnly(k, [sink[k] EXCEPT !.pc = "gone"])
  /\ UNCHANGED seq

----------------------------------------------------------------------------
\* SetYouTubeURL and DeleteYouTubeURL: the secret first, then the running sink.
StoreUrl(u) ==
  /\ setter = Off /\ Called("urls")
  /\ u = NoUrl => stored # NoUrl
  /\ stored' = u /\ setter' = u
  /\ UNCHANGED <<runVars, sinkOf, stateVars, sink, accepted, received, testVars, forgetVars, shut>>

HandUrl ==
  /\ setter # Off
  /\ sink' = IF sinkOf = 0 THEN sink ELSE [sink EXCEPT ![sinkOf].url = setter, ![sinkOf].wake = TRUE]
  /\ setter' = Off
  /\ UNCHANGED <<runVars, sinkOf, stateVars, accepted, received, stored, testVars,
                 forgetVars, shut, left>>

\* SendTest: the URL, a seq, the post, the status, and the answer to the admin.
TestOnly == UNCHANGED <<runVars, sinkOf, sink, accepted, urlVars, forgetVars, shut>>

TestRead ==
  /\ test.pc = "idle" /\ Called("tests") /\ stored # NoUrl
  /\ test' = [test EXCEPT !.pc = "seq"] /\ tests' = tests + 1
  /\ TestOnly /\ UNCHANGED <<stateVars, received>>

TestSeq ==
  /\ test.pc = "seq"
  /\ StateKept
  /\ seq' = [seq EXCEPT ![cur'] = @ + 1]
  /\ test' = [test EXCEPT !.pc = "post", !.obj = cur', !.seq = seq[cur'] + 1]
  /\ TestOnly /\ UNCHANGED <<status, received, tests, left>>

TestArrive ==
  /\ test.pc = "post" /\ ~test.arrived /\ Len(received) < MaxReceived
  /\ received' = Append(received, [by |-> 0, item |-> tests, seq |-> test.seq, obj |-> test.obj])
  /\ test' = [test EXCEPT !.arrived = TRUE]
  /\ TestOnly /\ UNCHANGED <<stateVars, tests, left>>

TestAnswer ==
  /\ test.pc = "post"
  /\ \E res \in Answers(test.arrived) :
       /\ SetStatus(DeliveryStatus(res, FALSE))
       /\ test' = [test EXCEPT !.pc = "status", !.result = res]
  /\ TestOnly /\ UNCHANGED <<seq, received, tests, left>>

\* "return *s.Status(sess.Id), nil"
TestStatus ==
  /\ test.pc = "status"
  /\ test' = IF status = NoStatus THEN [test EXCEPT !.pc = "nil"] ELSE NoTest
  /\ TestOnly /\ UNCHANGED <<stateVars, received, tests, left>>

\* Forget, of a session whose run the manager has let go: RunEnded, the
\* state object, the secret.
ForgetOnly == UNCHANGED <<runVars, accepted, received, testVars, shut>>

ForgetTake ==
  /\ forget.pc = "idle" /\ Called("forgets")
  /\ \A r \in Runs : run[r] \in {"new", "over", "ending", "ended"}
  /\ forget' = [pc |-> "close", sink |-> sinkOf] /\ forgets' = forgets + 1
  /\ sinkOf' = 0
  /\ ForgetOnly /\ UNCHANGED <<stateVars, sink, urlVars>>

ForgetClose ==
  /\ forget.pc = "close"
  /\ CloseSink(forget.sink)
  /\ forget' = [pc |-> "drop", sink |-> 0]
  /\ ForgetOnly /\ UNCHANGED <<sinkOf, stateVars, urlVars, forgets, left>>

ForgetDrop ==
  /\ forget.pc = "drop"
  /\ cur' = 0 /\ status' = NoStatus
  /\ forget' = [forget EXCEPT !.pc = "secret"]
  /\ sinkOf' = 0
  /\ ForgetOnly /\ UNCHANGED <<made, seq, sink, urlVars, forgets, left>>

ForgetSecret ==
  /\ forget.pc = "secret"
  /\ stored' = NoUrl
  /\ forget' = [forget EXCEPT !.pc = "idle"]
  /\ ForgetOnly /\ UNCHANGED <<sinkOf, stateVars, sink, setter, forgets, left>>

\* Close, after the manager has closed: every sink is cancelled.
Close ==
  /\ ~shut /\ \A r \in Runs : run[r] \in {"new", "ended"}
  /\ shut' = TRUE
  /\ sinkOf' = 0
  /\ sink' = [k \in Runs |-> IF sink[k].pc \in {"none", "gone"} THEN sink[k]
                             ELSE [sink[k] EXCEPT !.closing = TRUE, !.cancelled = TRUE]]
  /\ UNCHANGED <<runVars, stateVars, accepted, received, urlVars, testVars, forgetVars, left>>

----------------------------------------------------------------------------
ManagerCalls(r) ==
  \/ ReadUrl(r) \/ StartDisabled(r) \/ Register(r) \/ CloseOld(r) \/ Announce(r)
  \/ Offer(r) \/ Enqueue(r) \/ RunOver(r) \/ RunEnded(r) \/ CloseTaken(r)

\* What the goroutine of sink k does, and what it waits for.
Runner(k) ==
  \/ Take(k) \/ Woken(k) \/ DropStale(k) \/ Send(k) \/ Answer(k)
  \/ Record(k) \/ Retry(k) \/ Report(k) \/ Leave(k) \/ Settle(k)

Admin ==
  \/ \E u \in Urls \cup {NoUrl} : StoreUrl(u)
  \/ HandUrl
  \/ TestRead \/ TestSeq \/ TestArrive \/ TestAnswer \/ TestStatus
  \/ ForgetTake \/ ForgetClose \/ ForgetDrop \/ ForgetSecret
  \/ Close

Next ==
  \/ \E r \in Runs : ManagerCalls(r)
  \/ \E k \in Runs : Runner(k) \/ Arrive(k) \/ DrainOver(k)
  \/ Admin

Spec == Init /\ [][Next]_vars

\* Plans worth checking: a full queue and a URL change; two sinks draining side
\* by side; a test caption, a deletion, or both, at any point of a run.
Plan(r, f, u, t, d) == [runs |-> r, finals |-> f, urls |-> u, tests |-> t, forgets |-> d]
FewPlans == {Plan(1, 3, 1, 0, 0), Plan(2, 1, 0, 0, 0), Plan(1, 2, 0, 1, 0), Plan(1, 1, 0, 1, 1)}

----------------------------------------------------------------------------
Opt(S) == S \cup {NoUrl}
SinkPlaces == {"none", "made", "next", "wait", "deliver", "post", "record", "backoff",
               "report", "leave", "settle", "gone"}
StatusType == [state : {"none", "idle", "disabled", "ok", "retrying", "error"},
               error : {"none", "no_url", "rejected", "failed"}]

\* Types; a sink that does not exist is not registered or offered to, and the
\* queue of a sink keeps to its bound.
TypeOK ==
  /\ run \in [Runs -> {"new", "read", "registered", "closed", "live", "over", "ending", "ended"}]
  /\ status \in StatusType
  /\ stored \in Opt(Urls) /\ setter \in Opt(Urls) \cup {Off}
  /\ cur \in 0..made /\ made <= forgets + 1
  /\ \A k \in Runs :
       /\ sink[k].pc \in SinkPlaces
       /\ Len(sink[k].queue) <= QueueSize
       /\ sink[k].pc = "none" => sinkOf # k /\ \A r \in Runs : offer[r].sink # k /\ tookOut[r] # k

\* Under one state of the session a seq belongs to one caption, which keeps it
\* through every retry.
SeqNamesOne ==
  \A i, j \in 1..Len(received) :
    received[i].obj = received[j].obj =>
      (received[i].seq = received[j].seq <=>
         received[i].by = received[j].by /\ received[i].item = received[j].item)

SinkOrder ==
  \A i, j \in 1..Len(received) :
    i < j /\ received[i].by = received[j].by => received[i].item <= received[j].item

\* YouTube gets one run's captions in the order they were published, whatever
\* was dropped or retried, and can tell a repeat from a new caption (sink.go:
\* "in order, from a bounded queue", "Retries reuse the seq").
HeardRight == SinkOrder /\ SeqNamesOne

\* Every caption a sink accepted was answered for good or counted in a report.
DropsReported ==
  \A k \in Runs :
    sink[k].pc = "gone" /\ ~sink[k].cancelled =>
      sink[k].settled + sink[k].reported = Len(accepted[k])

\* Once no run is on and every sink has gone, no delivery state is left over.
StatusSettles ==
  (/\ \A r \in Runs : run[r] \in {"new", "ended"}
   /\ \A k \in Runs : sink[k].pc \in {"none", "gone"}
   /\ tests = 0)
  => status.state \in {"none", "idle", "disabled"}

\* A sink's goroutine never sleeps on work: with a caption queued, or the sink
\* closed, its wake-up is still to be taken, whoever sent it (a publisher, an
\* admin changing the URL, the end of the run) and whatever it was doing then.
NoLostWakeup ==
  \A k \in Runs :
    sink[k].pc = "wait" /\ (sink[k].queue # <<>> \/ sink[k].closing) =>
      sink[k].wake \/ sink[k].cancelled

\* A sink never sleeps on work, one that ended before its drain timeout has
\* accounted for every caption to the admins, and the last one settles the
\* status, in whatever order runs start, end and drain ("sinkDone settles the status once a sink has stopped").
SinksSettle == DropsReported /\ StatusSettles /\ NoLostWakeup

\* What a sink accepts is sent in order under numbers YouTube can rely on, or
\* reported, and nothing of it is left waiting.
CaptionsDelivered == HeardRight /\ SinksSettle

\* service.go: "last seq used; YouTube wants it increasing".
SeqIncreasing ==
  \A i, j \in 1..Len(received) :
    i < j /\ received[i].obj = received[j].obj => received[i].seq <= received[j].seq

\* service.go: "stores the session's caption ingestion URL (CC-2) and hands it
\* to the running sink": with no change under way, the sink of a started run
\* has the stored URL.
UrlHanded ==
  setter = Off /\ forgets = 0 /\ sinkOf # 0 /\ run[sinkOf] = "live" => sink[sinkOf].url = stored

\* service.go: "settles the status once a sink has stopped, unless a new run
\* has started meanwhile".
SettlesOwn == [][\A k \in Runs : sink[k].pc = "settle" /\ sink'[k].pc = "gone" => sinkOf = 0]_vars

\* service.go: "Forget drops what the service keeps about a deleted session".
\* Once a session is forgotten and nothing starts it or tests it again, the
\* service keeps nothing of it.
ForgottenStays ==
  (/\ forgets > 0 /\ forget.pc = "idle" /\ tests = 0
   /\ \A r \in Runs : run[r] \in {"new", "ended"})
  => cur = 0

\* service.go, SendTest: "returns the resulting status".
TestReturns == test.pc # "nil"
=============================================================================
