--------------------------- MODULE ServerMetrics ----------------------------
(***************************************************************************)
(* The metrics (internal/metrics and the observe middleware of internal/    *)
(* app): requests and sessions update counters, histograms and the count of *)
(* open WebSockets, each under its own mutex, while a scrape writes the     *)
(* families one after the other and reads the services for the gauges.      *)
(***************************************************************************)
EXTENDS Integers, Sequences, FiniteSets

CONSTANTS
  HttpRequests,   \* ids of requests; each is made once
  ScrapeCalls,    \* ids of scrapes; each is made once
  Families,       \* those of AllFamilies that are registered (bound: some of them)
  BucketBounds,   \* of both histograms, ascending
  Durations,      \* what may be observed
  MaxObserved     \* bound: latencies and errors of sessions

Buckets == 1 .. Len(BucketBounds) + 1  \* the last one is +Inf

\* NewApp, in the order of registration; "from" is the source of a gauge.
AllFamilies == <<
  [name |-> "sessions",   kind |-> "gauge",     from |-> "sessions"],
  [name |-> "viewers",    kind |-> "gauge",     from |-> "sessions"],
  [name |-> "ws_clients", kind |-> "gauge",     from |-> "itself"],
  [name |-> "latency",    kind |-> "histogram", from |-> "itself"],
  [name |-> "errors",     kind |-> "counter",   from |-> "itself"],
  [name |-> "bytes",      kind |-> "gauge",     from |-> "recordings"],
  [name |-> "recordings", kind |-> "gauge",     from |-> "recordings"],
  [name |-> "free_bytes", kind |-> "gauge",     from |-> "recordings"],
  [name |-> "requests",   kind |-> "counter",   from |-> "itself"],
  [name |-> "duration",   kind |-> "histogram", from |-> "itself"]>>

ASSUME MetricsAssumption ==
  /\ MaxObserved \in Nat /\ Durations \subseteq Nat
  /\ IsFiniteSet(HttpRequests)
  /\ BucketBounds \in Seq(Nat)
  /\ \A i, j \in 1 .. Len(BucketBounds) : i < j => BucketBounds[i] < BucketBounds[j]
  /\ Len(Families) \in Nat
  /\ \A i \in 1 .. Len(Families) : Families[i] \in {AllFamilies[j] : j \in 1 .. Len(AllFamilies)}

VARIABLES
  counters,    \* counter family -> value of its series
  histograms,  \* histogram family -> [counts, sum, count]
  observed,    \* histogram family -> what was observed, in order
  wsOpen,      \* open WebSockets as App.ws counts them
  request,     \* request -> [at, upgraded]
  scraper      \* scrape -> [at, family, out, failed, after]

metricsVars == <<counters, histograms, observed, wsOpen, request, scraper>>

NoValues == [counts |-> [i \in Buckets |-> 0], sum |-> 0, count |-> 0]
NotScraping == [at |-> "idle", family |-> 1, out |-> <<>>, failed |-> FALSE, after |-> {}]
MetricsInit ==
  /\ counters = [f \in {"errors", "requests"} |-> 0]
  /\ histograms = [f \in {"latency", "duration"} |-> NoValues]
  /\ observed = [f \in {"latency", "duration"} |-> <<>>]
  /\ wsOpen = 0
  /\ request = [r \in HttpRequests |-> [at |-> "new", upgraded |-> FALSE]]
  /\ scraper = [s \in ScrapeCalls |-> NotScraping]

-----------------------------------------------------------------------------
(* What is counted *)

Inc(f) == counters' = [counters EXCEPT ![f] = @ + 1]

\* The first bucket whose bound is at least v.
\* Mutant: the first whose bound is above it.
BucketOfAbove(v) == Cardinality({i \in 1 .. Len(BucketBounds) : BucketBounds[i] <= v}) + 1
BucketOf(v) == Cardinality({i \in 1 .. Len(BucketBounds) : BucketBounds[i] < v}) + 1

Counted(counts, v) == [counts EXCEPT ![BucketOf(v)] = @ + 1]
Observe(f, v) ==
  /\ histograms' = [histograms EXCEPT ![f] = [counts |-> Counted(@.counts, v), sum |-> @.sum + v,
                                              count |-> @.count + 1]]
  /\ observed' = [observed EXCEPT ![f] = Append(@, v)]

CaptionLatency(v) ==
  /\ histograms["latency"].count < MaxObserved /\ Observe("latency", v)
  /\ UNCHANGED <<counters, wsOpen, request, scraper>>
SessionError ==
  /\ counters["errors"] < MaxObserved /\ Inc("errors")
  /\ UNCHANGED <<histograms, observed, wsOpen, request, scraper>>

RequestAt(r, at) == request[r].at = at
RequestGoes(r, at) == request' = [request EXCEPT ![r].at = at]

\* App.WSOpened, and the function it returns, which runs once.
WSOpened == wsOpen' = wsOpen + 1
WSClosed == wsOpen' = wsOpen - 1

\* observe: the handler runs; a 101 on a WebSocket path counts it open.
StartRequest(r) ==
  /\ RequestAt(r, "new") /\ RequestGoes(r, "handler")
  /\ UNCHANGED <<counters, histograms, observed, wsOpen, scraper>>
WriteHeader101(r) ==
  /\ RequestAt(r, "handler") /\ ~request[r].upgraded
  /\ request' = [request EXCEPT ![r].upgraded = TRUE] /\ WSOpened
  /\ UNCHANGED <<counters, histograms, observed, scraper>>

\* The handler returns, or panics: then only the deferred closeWS runs.
HandlerReturns(r) ==
  /\ RequestAt(r, "handler")
  /\ RequestGoes(r, "count") \/ RequestGoes(r, "panicked")
  /\ UNCHANGED <<counters, histograms, observed, wsOpen, scraper>>

\* Request: counted, and timed unless it is a WebSocket.
CountRequest(r) ==
  /\ RequestAt(r, "count") /\ Inc("requests")
  /\ RequestGoes(r, IF request[r].upgraded THEN "counted" ELSE "time")
  /\ UNCHANGED <<histograms, observed, wsOpen, scraper>>
TimeRequest(r, v) ==
  /\ RequestAt(r, "time") /\ Observe("duration", v) /\ RequestGoes(r, "counted")
  /\ UNCHANGED <<counters, wsOpen, scraper>>
CloseWS(r) ==
  /\ \/ RequestAt(r, "counted") /\ RequestGoes(r, "done")
     \/ RequestAt(r, "panicked") /\ RequestGoes(r, "aborted")
  /\ IF request[r].upgraded THEN WSClosed ELSE UNCHANGED wsOpen
  /\ UNCHANGED <<counters, histograms, observed, scraper>>

-----------------------------------------------------------------------------
(* Scrapes *)

ScrapeAt(s, at) == scraper[s].at = at
KeepCounts == UNCHANGED <<counters, histograms, observed, wsOpen, request>>

\* /metrics is for admins, and not found with --metrics off.
RefuseScrape(s) ==
  /\ ScrapeAt(s, "idle")
  /\ scraper' = [scraper EXCEPT ![s].at = "refused"]
  /\ KeepCounts

\* Handler, Write: the families are cloned; they are all there from NewApp.
\* Bound: one scrape at a time (they share nothing but what they read).
StartScrape(s) ==
  /\ ScrapeAt(s, "idle") /\ \A t \in ScrapeCalls : ~ScrapeAt(t, "write")
  /\ scraper' = [scraper EXCEPT ![s] = [@ EXCEPT !.at = "write", !.after = {t \in ScrapeCalls : ScrapeAt(t, "served")}]]
  /\ KeepCounts

\* The buckets are written cumulative, from counts that are not.
Cumulative(h) ==
  LET upto[i \in 0 .. Len(BucketBounds) + 1] == IF i = 0 THEN 0 ELSE upto[i - 1] + h.counts[i]
  IN [le |-> [i \in Buckets |-> upto[i]], sum |-> h.sum, count |-> h.count]

Sample(f) ==
  CASE f.kind = "counter"   -> counters[f.name]
    [] f.kind = "histogram" -> Cumulative(histograms[f.name])
    [] f.kind = "gauge"     -> IF f.name = "ws_clients" THEN wsOpen ELSE 0
MayFail(f) == f.kind = "gauge" /\ f.from # "itself"

\* What was written so far, and one more family.
Written(out, f) == [name \in DOMAIN out \cup {f.name} |-> IF name = f.name THEN Sample(f) ELSE out[name]]

\* A failing gauge is told when the others are written.
\* Mutant: the first one that fails ends the scrape.
NextFamilyOnError(s, fails) == IF fails THEN Len(Families) + 1 ELSE scraper[s].family + 1
NextFamily(s, fails) == scraper[s].family + 1

WriteFamily(s) ==
  /\ ScrapeAt(s, "write") /\ scraper[s].family <= Len(Families)
  /\ LET f == Families[scraper[s].family] IN
     \E fails \in {FALSE, MayFail(f)} :
        scraper' = [scraper EXCEPT ![s].out = IF fails THEN @ ELSE Written(@, f),
                                   ![s].failed = @ \/ fails, ![s].family = NextFamily(s, fails)]
  /\ KeepCounts

\* Flush: the client may be gone. Either error goes to onError.
ServeScrape(s) ==
  /\ ScrapeAt(s, "write") /\ scraper[s].family > Len(Families)
  /\ \E at \in {"served", "lost"} : scraper' = [scraper EXCEPT ![s].at = at]
  /\ KeepCounts

MetricsNext ==
  \/ SessionError
  \/ \E v \in Durations : CaptionLatency(v)
  \/ \E r \in HttpRequests :
        \/ StartRequest(r) \/ WriteHeader101(r) \/ HandlerReturns(r) \/ CountRequest(r) \/ CloseWS(r)
        \/ \E v \in Durations : TimeRequest(r, v)
  \/ \E s \in ScrapeCalls : RefuseScrape(s) \/ StartScrape(s) \/ WriteFamily(s) \/ ServeScrape(s)

MetricsSpec == MetricsInit /\ [][MetricsNext]_metricsVars

-----------------------------------------------------------------------------
(* What holds *)

\* What a scrape served names every family whose source answered, with the
\* failures of the others told; its buckets never fall, end in the count,
\* and are what the observations say; and nothing in it is less than in a
\* scrape served before it began.
FamilyNames == {Families[i].name : i \in 1 .. Len(Families)}
Failing == {Families[i].name : i \in {j \in 1 .. Len(Families) : MayFail(Families[j])}}
ScrapesTrue ==
  /\ \A h \in DOMAIN observed :
        LET sample == Cumulative(histograms[h])
            n      == Len(BucketBounds)
        IN /\ sample.le[n + 1] = sample.count /\ sample.count = Len(observed[h])
           /\ \A i \in 1 .. n :
                sample.le[i] = Cardinality({k \in 1 .. Len(observed[h]) : observed[h][k] <= BucketBounds[i]})
  /\ \A s \in ScrapeCalls : ScrapeAt(s, "served") =>
        /\ \A f \in FamilyNames \ DOMAIN scraper[s].out : f \in Failing /\ scraper[s].failed
        /\ \A t \in scraper[s].after :
              /\ \A c \in DOMAIN counters \cap FamilyNames : scraper[t].out[c] <= scraper[s].out[c]
              /\ \A h \in DOMAIN observed \cap FamilyNames : \A i \in Buckets :
                    scraper[t].out[h].le[i] <= scraper[s].out[h].le[i]

\* App.ws is the number of upgraded requests whose handler's deferred call
\* has yet to run, panicked or not, and a request that did not panic is
\* counted once, and timed unless it was a WebSocket.
RequestsCounted ==
  LET counted == {r \in HttpRequests : request[r].at \in {"time", "counted", "done"}}
      timed   == {r \in counted : ~request[r].upgraded /\ ~RequestAt(r, "time")}
      over    == {r \in HttpRequests : request[r].at \in {"done", "aborted"}}
  IN /\ wsOpen = Cardinality({r \in HttpRequests : request[r].upgraded} \ over)
     /\ counters["requests"] = Cardinality(counted)
     /\ histograms["duration"].count = Cardinality(timed)

MetricsTrue == ScrapesTrue /\ RequestsCounted
=============================================================================
