------------------------------ MODULE AppServer ------------------------------
(***************************************************************************)
(* The server process from its start to its end (app.New, Run,              *)
(* ServeListeners and Close): HTTP and maybe HTTPS are served by a           *)
(* goroutine each until a signal or a failure, both are shut down, and then *)
(* the services are closed, the store last.                                 *)
(***************************************************************************)
EXTENDS Integers, Sequences, FiniteSets

CONSTANTS MaxRequests  \* bound: requests under way at once

ASSUME AppAssumption == MaxRequests \in Nat

Servers == {"http", "https"}
Services == <<"models", "manager", "cc", "rec", "hub", "store">>

VARIABLES
  appAt,      \* where ServeListeners, and then Close, is
  listening,  \* servers whose listener is open
  serving,    \* servers whose goroutine runs
  errc,       \* what those that ended sent
  requests,   \* server -> requests under way
  pending,    \* goroutines ServeListeners has yet to hear of
  first,      \* the error it will return
  stopped,    \* the context is done
  late,       \* ShutdownTimeout is over
  toShut,     \* servers that were not shut down yet
  renewing,   \* the goroutine that renews the certificate runs
  httpsPort,  \* tls.HTTPSPort is set
  open,       \* services not closed yet
  failed      \* a listener failed: "unseen", or "seen" when that ended the select

appVars == <<appAt, listening, serving, errc, requests, pending, first, stopped, late, toShut,
             renewing, httpsPort, open, failed>>

AppInit ==
  /\ appAt = "new" /\ listening = {} /\ serving = {} /\ errc = <<>>
  /\ requests = [s \in Servers |-> 0] /\ pending = 0 /\ first = "none"
  /\ stopped = FALSE /\ late = FALSE /\ toShut = <<>> /\ renewing = FALSE /\ httpsPort = FALSE
  /\ open = <<>> /\ failed = "no"

Goroutines == <<listening, serving, errc, requests>>
Progress == <<appAt, pending, first, toShut, renewing, httpsPort, open>>
Main == <<Progress, failed>>

\* New: a bad certificate or database ends it with nothing open; a bad
\* secret store closes the database; what comes after does not fail.
\* Mutant: the database stays open.
AfterBadSecretsOpen == open
AfterBadSecrets == <<>>
New ==
  /\ \/ /\ appAt = "new"
        /\ \/ appAt' = "secrets" /\ open' = <<"store">>
           \/ appAt' = "refused" /\ UNCHANGED open
     \/ /\ appAt = "secrets"
        /\ \/ appAt' = "listen" /\ open' = Services
           \/ appAt' = "refused" /\ open' = AfterBadSecrets
  /\ UNCHANGED <<Goroutines, pending, first, stopped, late, toShut, renewing, httpsPort, failed>>

\* Run: without TLS, or with its default port taken, only HTTP is served.
Listen ==
  /\ appAt = "listen"
  /\ \/ \E on \in {<<"http">>, <<"http", "https">>} :
          LET s == {on[i] : i \in 1 .. Len(on)} IN
          /\ listening' = s /\ serving' = s /\ pending' = Len(on) /\ toShut' = on
          /\ renewing' = TRUE /\ httpsPort' = ("https" \in s)
          /\ appAt' = "select" /\ UNCHANGED first
     \/ \* The HTTP port or an explicit HTTPS port is taken: nothing stays open.
        /\ appAt' = "close" /\ first' = "failure"
        /\ UNCHANGED <<listening, serving, pending, toShut, renewing, httpsPort>>
  /\ UNCHANGED <<errc, requests, stopped, late, open, failed>>

-----------------------------------------------------------------------------
(* Around it *)

Signal ==
  /\ appAt \notin {"new", "secrets", "refused", "listen"} /\ ~stopped /\ stopped' = TRUE
  /\ UNCHANGED <<Goroutines, Main, late>>

Request(s) ==
  /\ s \in listening /\ requests[s] < MaxRequests
  /\ requests' = [requests EXCEPT ![s] = @ + 1]
  /\ UNCHANGED <<listening, serving, errc, Main, stopped, late>>

RequestEnds(s) ==
  /\ requests[s] > 0 /\ requests' = [requests EXCEPT ![s] = @ - 1]
  /\ UNCHANGED <<listening, serving, errc, Main, stopped, late>>

\* Serve returns and its goroutine sends why: its listener failed, or it was
\* shut down.  errc has room for all.
ServeReturns(s) ==
  /\ s \in serving /\ serving' = serving \ {s} /\ listening' = listening \ {s}
  /\ errc' = Append(errc, IF s \in listening THEN "failure" ELSE "closed")
  /\ failed' = IF s \in listening /\ failed = "no" THEN "unseen" ELSE failed
  /\ UNCHANGED <<requests, Progress, stopped, late>>

ShutdownTimesOut ==
  /\ appAt \in {"shutdown", "wait"} /\ ~late /\ late' = TRUE
  /\ UNCHANGED <<Goroutines, Main, stopped>>

RenewEnds ==
  /\ renewing /\ stopped /\ renewing' = FALSE
  /\ UNCHANGED <<Goroutines, appAt, pending, first, toShut, httpsPort, open, failed, stopped, late>>

-----------------------------------------------------------------------------
(* ServeListeners *)

\* Mutant: the failed one is waited for, too.
AfterFailureAll(n) == n
AfterFailure(n) == n - 1

Select ==
  /\ appAt = "select" /\ appAt' = "shutdown"
  /\ \/ /\ errc # <<>> /\ first' = Head(errc) /\ errc' = Tail(errc)
        /\ pending' = AfterFailure(pending) /\ failed' = "seen"
     \/ stopped /\ UNCHANGED <<first, errc, pending, failed>>
  /\ UNCHANGED <<listening, serving, requests, toShut, renewing, httpsPort, open, stopped, late>>

\* Shutdown closes the listener and then waits for its requests, or gives up.
Shutdown ==
  /\ appAt = "shutdown"
  /\ IF toShut = <<>> THEN appAt' = "collect" /\ UNCHANGED listening
     ELSE appAt' = "wait" /\ listening' = listening \ {Head(toShut)}
  /\ UNCHANGED <<serving, errc, requests, pending, first, toShut, renewing, httpsPort, open, failed, stopped, late>>

\* Mutant: the other is left when one does not shut down in time.
RestIfInTime(gaveUp) == IF gaveUp THEN <<>> ELSE Tail(toShut)
Rest(gaveUp) == Tail(toShut)

ShutdownReturns ==
  LET gaveUp == requests[Head(toShut)] > 0 IN
  /\ appAt = "wait" /\ (gaveUp => late)
  /\ first' = IF gaveUp /\ first = "none" THEN "timeout" ELSE first
  /\ appAt' = "shutdown" /\ toShut' = Rest(gaveUp)
  /\ UNCHANGED <<Goroutines, pending, renewing, httpsPort, open, failed, stopped, late>>

Collect ==
  /\ appAt = "collect"
  /\ IF pending = 0 THEN appAt' = "defers" /\ stopped' = TRUE /\ UNCHANGED <<errc, pending, first>>
     ELSE /\ errc # <<>> /\ errc' = Tail(errc) /\ pending' = pending - 1
          /\ first' = IF first = "none" THEN Head(errc) ELSE first
          /\ UNCHANGED <<appAt, stopped>>
  /\ UNCHANGED <<listening, serving, requests, toShut, renewing, httpsPort, open, failed, late>>

\* The deferred calls: stop, renew.Wait, SetHTTPSPort(0).
ServeListenersReturns ==
  /\ appAt = "defers" /\ ~renewing /\ appAt' = "close"
  /\ httpsPort' = FALSE
  /\ first' = IF first = "closed" THEN "none" ELSE first
  /\ UNCHANGED <<Goroutines, pending, toShut, renewing, open, failed, stopped, late>>

\* Close: one service after the other.
Close ==
  /\ appAt = "close" /\ open # <<>> /\ open' = Tail(open)
  /\ UNCHANGED <<Goroutines, appAt, pending, first, toShut, renewing, httpsPort, failed, stopped, late>>

AppNext ==
  \/ New \/ Listen \/ Signal \/ ShutdownTimesOut \/ RenewEnds
  \/ \E s \in Servers : Request(s) \/ RequestEnds(s) \/ ServeReturns(s)
  \/ Select \/ Shutdown \/ ShutdownReturns \/ Collect \/ ServeListenersReturns \/ Close

AppSpec == AppInit /\ [][AppNext]_appVars

-----------------------------------------------------------------------------
(* What holds *)

\* When it collects, ServeListeners waits for as many results as will come
\* and nobody listens, so it returns; then no goroutine of it is left, no
\* result is unread and no HTTPS port is told; the failure that ended it is
\* returned, and no error means all requests were answered.  A New that
\* fails leaves nothing open.
ServeEnds ==
  /\ appAt = "refused" => open = <<>>
  /\ appAt = "collect" => pending = Cardinality(serving) + Len(errc) /\ listening = {}
  /\ appAt = "close" =>
       /\ serving = {} /\ listening = {} /\ errc = <<>> /\ ~renewing /\ ~httpsPort
       /\ failed = "seen" => first = "failure"
       /\ first = "none" => \A s \in Servers : requests[s] = 0

\* Does not hold: after ShutdownTimeout requests go on while the services
\* under them are closed.
NoneUnderClose == \A s \in Servers : requests[s] > 0 => open # <<>>

\* Does not hold: of a signal and a failure of HTTPS, the signal may be seen
\* first, and HTTP's end hides the failure.
FailuresTold == appAt = "close" /\ failed # "no" => first # "none"
=============================================================================
