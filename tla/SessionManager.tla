--------------------------- MODULE SessionManager ---------------------------
(***************************************************************************)
(* The session manager of internal/session: how concurrent API requests    *)
(* (start, pause, resume, stop, delete) and the goroutine of each run      *)
(* drive a session through idle -> starting -> live <-> paused ->          *)
(* stopping -> idle, or error.                                             *)
(*                                                                         *)
(* One action is one critical section of Manager.mu, or one call into the  *)
(* store, the ingest hub, the caption sink or the bus, with the private    *)
(* work around it: the goroutines interleave at every lock and call.       *)
(* Reading a status and publishing it (changed, publishStatus) is one      *)
(* step.  The pipeline of a run is abstracted to Hear, Caption and         *)
(* PipelineEnds; module RunPipeline details it.                            *)
(***************************************************************************)
EXTENDS Integers

CONSTANTS
  Sessions,   \* session ids
  Clients,    \* concurrent API requests
  Options,    \* the services the manager is built with: "captions" (the
              \* caption store), "ingest" (browser audio; otherwise every
              \* start brings its source), "streamCaptions"; and "viewers"
              \* if some watch the sessions
  MaxRuns,    \* bound: runs started in one behaviour
  MaxAudio,   \* bound: seconds of audio of one run
  MaxBoots    \* bound: times the server process shuts down or ends

ASSUME ManagerAssumption ==
  /\ Options \subseteq {"captions", "ingest", "streamCaptions", "viewers"}
  /\ MaxRuns \in Nat /\ MaxAudio \in Nat /\ MaxBoots \in Nat
  /\ \A s \in Sessions : <<"close", s>> \notin Clients

Runs  == 1 .. MaxRuns
NoRun == 0

\* The goroutine Manager.Close starts to stop one session.
Closer(s) == <<"close", s>>
Closers   == {Closer(s) : s \in Sessions}
Procs     == Clients \cup Closers

Absent == -1   \* a session with no entry in Manager.clocks

VARIABLES
  \* Manager, guarded by Manager.mu
  runs,      \* the registered run of each session, or NoRun
  failed,    \* sessions whose last start or run failed
  clocks,    \* session clock at the end of the last run, or Absent
  closed,
  \* one run, by its number
  st,        \* run.st
  own,       \* run.id, the session it belongs to
  task,      \* where its consume goroutine is
  fatal,     \* runs whose error ended them (run.fatal)
  ctx,       \* "live", "srcDone" (source stopped) or "done" (cancelled)
  done,      \* runs whose done channel is closed
  offset,    \* where the run starts on the session clock
  end,       \* the session clock at the end of its audio so far
  source,    \* the ingest source it reads, named after the run that first
             \* took it from the hub; NoRun for a source of its own
  \* store
  stored,    \* sessions with a row
  saved,     \* end of the last stored caption of each run, 0 for none
  blind,     \* sessions whose stored captions could not be read once (history)
  orphan,    \* runs registered while their session's row was gone (history)
  \* the other services
  hub,       \* the ingest hub's source of each session, or NoRun
  shut,      \* ingest sources that were removed
  sink,      \* the run whose caption sink is on, or NoRun
  wire,      \* the last state message viewers got
  \* API requests
  req,       \* where each is, for which session, with which run
  boots

mgrVars  == <<runs, failed, clocks, closed>>
runVars  == <<st, own, task, fatal, ctx, done, offset, end, source>>
dataVars == <<stored, saved, blind, orphan>>
svcVars  == <<hub, shut, sink, wire>>
vars     == <<mgrVars, runVars, dataVars, svcVars, req, boots>>

States == {"unused", "starting", "live", "paused", "stopping"}
Tasks  == {"none", "flow", "finish", "finished", "release", "sink",
           "publish", "close", "over"}
PCs    == {"idle", "start.lock", "start.changed", "start.launch",
           "start.hook", "start.source", "start.golive", "start.announce",
           "start.fail", "start.unregister", "start.failed",
           "stop.lookup", "stop.lock", "stop.idle", "stop.signal",
           "stop.wait", "stop.drain",
           "delete.forget", "delete.release", "delete.row", "delete.sink"}

Requests == [at : PCs, s : Sessions \cup {NoRun}, r : Runs \cup {NoRun}]
Idle     == [at |-> "idle", s |-> NoRun, r |-> NoRun]

TypeOK ==
  /\ runs \in [Sessions -> Runs \cup {NoRun}]
  /\ failed \subseteq Sessions
  /\ clocks \in [Sessions -> Nat \cup {Absent}]
  /\ closed \in BOOLEAN
  /\ st \in [Runs -> States]
  /\ own \in [Runs -> Sessions \cup {NoRun}]
  /\ task \in [Runs -> Tasks]
  /\ fatal \subseteq Runs
  /\ ctx \in [Runs -> {"live", "srcDone", "done"}]
  /\ done \subseteq Runs
  /\ offset \in [Runs -> Nat]
  /\ end \in [Runs -> Nat]
  /\ source \in [Runs -> Runs \cup {NoRun}]
  /\ stored \subseteq Sessions
  /\ saved \in [Runs -> Nat]
  /\ blind \subseteq Sessions
  /\ orphan \subseteq Runs
  /\ hub \in [Sessions -> Runs \cup {NoRun}]
  /\ shut \subseteq Runs
  /\ sink \in [Sessions -> Runs \cup {NoRun}]
  /\ wire \in [Sessions -> (States \ {"unused"}) \cup {"idle", "error"}]
  /\ req \in [Procs -> Requests]
  /\ boots \in 0 .. MaxBoots

Init ==
  /\ runs = [s \in Sessions |-> NoRun]
  /\ failed = {}
  /\ clocks = [s \in Sessions |-> Absent]
  /\ closed = FALSE
  /\ st = [r \in Runs |-> "unused"]
  /\ own = [r \in Runs |-> NoRun]
  /\ task = [r \in Runs |-> "none"]
  /\ fatal = {}
  /\ ctx = [r \in Runs |-> "live"]
  /\ done = {}
  /\ offset = [r \in Runs |-> 0]
  /\ end = [r \in Runs |-> 0]
  /\ source = [r \in Runs |-> NoRun]
  /\ stored = Sessions
  /\ saved = [r \in Runs |-> 0]
  /\ blind = {}
  /\ orphan = {}
  /\ hub = [s \in Sessions |-> NoRun]
  /\ shut = {}
  /\ sink = [s \in Sessions |-> NoRun]
  /\ wire = [s \in Sessions |-> "idle"]
  /\ req = [p \in Procs |-> Idle]
  /\ boots = 0

-----------------------------------------------------------------------------
(* Helpers *)

Goto(p, label)     == req' = [req EXCEPT ![p].at = label]
GotoWith(p, label, r) == req' = [req EXCEPT ![p].at = label, ![p].r = r]
Leave(p)           == req' = [req EXCEPT ![p] = Idle]

\* Manager.status: the registered run's state, else error or idle.
Status(s) ==
  IF runs[s] # NoRun THEN st[runs[s]]
  ELSE IF s \in failed THEN "error" ELSE "idle"

\* A state message on the caption bus.
Publish(s, state) ==
  wire' = IF "viewers" \in Options THEN [wire EXCEPT ![s] = state] ELSE wire

\* The run a new start takes: the lowest unused number.
Fresh(r) ==
  /\ st[r] = "unused"
  /\ \A q \in Runs : st[q] = "unused" => r <= q

\* Start may make a new run.  Mutants: a run that is stopping no longer
\* counts; Close does not keep new runs out.
CanStartWhileStopping(s) ==
  ~closed /\ (runs[s] # NoRun => st[runs[s]] = "stopping")
CanStartAfterClose(s) == runs[s] = NoRun
CanStart(s) == ~closed /\ runs[s] = NoRun

\* failed without the session.
Cleared(s) == failed \ {s}

\* run.goLive.  Mutant: it does not look whether Stop came first.
LiveAlways(state)        == "live"
LiveUnlessStopped(state) == IF state = "starting" THEN "live" ELSE state

\* Where the session's last run ended: its clock, or after a restart the end
\* of the last stored caption.
Ends(s) == {saved[r] : r \in {q \in Runs : own[q] = s}} \cup {0}
Past(s) ==
  IF clocks[s] # Absent THEN {clocks[s]}
  ELSE {t \in Ends(s) : \A u \in Ends(s) : u <= t}

\* clockOrigin: the next whole second, one second after what came before.
\* Mutant: right at the end.
OriginAtEnd(t) == t
Origin(t) == IF t = 0 THEN 0 ELSE t + 1

\* StreamCaptions.RunStarted replaces the session's sink; RunEnded and Forget
\* take it away.
SetSink(s, r) ==
  sink' = IF "streamCaptions" \in Options THEN [sink EXCEPT ![s] = r] ELSE sink

\* Hub.Remove: the session's ingest source ends and is forgotten.
ReleaseIngest(s) ==
  /\ shut' = IF hub[s] = NoRun THEN shut ELSE shut \cup {hub[s]}
  /\ hub' = [hub EXCEPT ![s] = NoRun]

-----------------------------------------------------------------------------
(* Start *)

\* GetSession of Start, Stop and DeleteSession; a missing row is a 404.
Lookup(p, s, label) ==
  /\ req[p].at = "idle" /\ p \in Clients
  /\ s \in stored
  /\ label \in {"start.lock", "stop.lock", "delete.forget"}
  /\ req' = [req EXCEPT ![p] = [at |-> label, s |-> s, r |-> NoRun]]
  /\ UNCHANGED <<mgrVars, runVars, dataVars, svcVars, boots>>

\* ErrState: closed, or running (a paused run resumes if no source is given).
StartRefused(p) ==
  /\ req[p].at = "start.lock"
  /\ ~CanStart(req[p].s)
  /\ Leave(p)
  /\ UNCHANGED <<mgrVars, runVars, dataVars, svcVars, boots>>

Resume(p) ==
  LET s == req[p].s IN
  /\ req[p].at = "start.lock" /\ ~closed
  /\ runs[s] # NoRun /\ st[runs[s]] = "paused"
  /\ st' = [st EXCEPT ![runs[s]] = "live"]
  /\ Publish(s, "live")
  /\ Leave(p)
  /\ UNCHANGED <<mgrVars, own, task, fatal, ctx, done, offset, end, source,
                 dataVars, hub, shut, sink, boots>>

Register(p, r) ==
  LET s == req[p].s IN
  /\ req[p].at = "start.lock" /\ CanStart(s)
  /\ Fresh(r)
  /\ runs' = [runs EXCEPT ![s] = r]
  /\ failed' = Cleared(s)
  /\ st' = [st EXCEPT ![r] = "starting"]
  /\ own' = [own EXCEPT ![r] = s]
  /\ GotoWith(p, "start.changed", r)
  /\ orphan' = IF s \in stored THEN orphan ELSE orphan \cup {r}
  /\ UNCHANGED <<clocks, closed, task, fatal, ctx, done, offset, end, source,
                 stored, saved, blind, svcVars, boots>>

\* Manager.changed after registering and after going live.
AnnounceStarting(p) ==
  /\ req[p].at = "start.changed"
  /\ Publish(req[p].s, st[req[p].r])
  /\ Goto(p, "start.launch")
  /\ UNCHANGED <<mgrVars, runVars, dataVars, hub, shut, sink, boots>>

AnnounceLive(p) ==
  /\ req[p].at = "start.announce"
  /\ Publish(req[p].s, st[req[p].r])
  /\ Leave(p)
  /\ UNCHANGED <<mgrVars, runVars, dataVars, hub, shut, sink, boots>>

\* launch: the session's provider is missing.
LaunchNoProvider(p) ==
  /\ req[p].at = "start.launch"
  /\ Goto(p, "start.fail")
  /\ UNCHANGED <<mgrVars, runVars, dataVars, svcVars, boots>>

\* launch: place the run on the session clock; if the store cannot be read
\* (readFails) it starts at 0.
Place(s, r, readFails) ==
  /\ readFails => clocks[s] = Absent
  /\ \E past \in Past(s) :
       LET o == IF readFails THEN 0 ELSE Origin(past) IN
       /\ readFails => past # 0
       /\ offset' = [offset EXCEPT ![r] = o]
       /\ end' = [end EXCEPT ![r] = o]
  /\ blind' = IF readFails THEN blind \cup {s} ELSE blind

\* launch: the run reads the source the caller gave, or the session's ingest
\* source, which Hub.Source makes on first use.
Launch(p, readFails, given) ==
  LET s == req[p].s
      r == req[p].r
      src == IF hub[s] = NoRun THEN r ELSE hub[s]
  IN
  /\ req[p].at = "start.launch" /\ (given \/ "ingest" \in Options)
  /\ Place(s, r, readFails)
  /\ hub' = IF given THEN hub ELSE [hub EXCEPT ![s] = src]
  /\ source' = IF given THEN source ELSE [source EXCEPT ![r] = src]
  /\ Goto(p, "start.hook")
  /\ UNCHANGED <<mgrVars, st, own, task, fatal, ctx, done, stored, saved,
                 orphan, shut, sink, wire, boots>>

LaunchHook(p) ==
  /\ req[p].at = "start.hook"
  /\ SetSink(req[p].s, req[p].r)
  /\ Goto(p, "start.source")
  /\ UNCHANGED <<mgrVars, runVars, dataVars, hub, shut, wire, boots>>

\* run.start: the source and the ASR stream open and the goroutines run.
LaunchPipeline(p) ==
  /\ req[p].at = "start.source"
  /\ source[req[p].r] \notin shut
  /\ task' = [task EXCEPT ![req[p].r] = "flow"]
  /\ Goto(p, "start.golive")
  /\ UNCHANGED <<mgrVars, st, own, fatal, ctx, done, offset, end, source,
                 dataVars, svcVars, boots>>

\* run.start: the source or the provider refuses; run.abort closes done.
LaunchAborts(p) ==
  /\ req[p].at = "start.source"
  /\ ctx' = [ctx EXCEPT ![req[p].r] = "done"]
  /\ done' = done \cup {req[p].r}
  /\ Goto(p, "start.fail")
  /\ UNCHANGED <<mgrVars, st, own, task, fatal, offset, end, source, dataVars,
                 svcVars, boots>>

GoLive(p) ==
  /\ req[p].at = "start.golive"
  /\ st' = [st EXCEPT ![req[p].r] = LiveUnlessStopped(@)]
  /\ Goto(p, "start.announce")
  /\ UNCHANGED <<mgrVars, own, task, fatal, ctx, done, offset, end, source,
                 dataVars, svcVars, boots>>

\* The error path of Start.
FailHook(p) ==
  /\ req[p].at = "start.fail"
  /\ SetSink(req[p].s, NoRun)
  /\ Goto(p, "start.unregister")
  /\ UNCHANGED <<mgrVars, runVars, dataVars, hub, shut, wire, boots>>

FailUnregister(p) ==
  /\ req[p].at = "start.unregister"
  /\ runs' = [runs EXCEPT ![req[p].s] = NoRun]
  /\ failed' = failed \cup {req[p].s}
  /\ Goto(p, "start.failed")
  /\ UNCHANGED <<clocks, closed, runVars, dataVars, svcVars, boots>>

FailPublish(p) ==
  /\ req[p].at = "start.failed"
  /\ ctx' = [ctx EXCEPT ![req[p].r] = "done"]
  /\ Publish(req[p].s, Status(req[p].s))
  /\ Leave(p)
  /\ UNCHANGED <<mgrVars, st, own, task, fatal, done, offset, end, source,
                 dataVars, hub, shut, sink, boots>>

-----------------------------------------------------------------------------
(* Pause and Stop *)

Pause(s) ==
  /\ s \in stored
  /\ runs[s] # NoRun /\ st[runs[s]] = "live"
  /\ st' = [st EXCEPT ![runs[s]] = "paused"]
  /\ Publish(s, "paused")
  /\ UNCHANGED <<mgrVars, own, task, fatal, ctx, done, offset, end, source,
                 dataVars, hub, shut, sink, req, boots>>

\* A goroutine of Close begins its Stop; a missing row ends it at once.
CloserLookup(p) ==
  /\ req[p].at = "stop.lookup" /\ req[p].s \in stored
  /\ Goto(p, "stop.lock")
  /\ UNCHANGED <<mgrVars, runVars, dataVars, svcVars, boots>>

CloserGone(p) ==
  /\ req[p].at = "stop.lookup" /\ req[p].s \notin stored
  /\ Leave(p)
  /\ UNCHANGED <<mgrVars, runVars, dataVars, svcVars, boots>>

StopIdle(p) ==
  /\ req[p].at = "stop.lock" /\ runs[req[p].s] = NoRun
  /\ failed' = Cleared(req[p].s)
  /\ Goto(p, "stop.idle")
  /\ UNCHANGED <<runs, clocks, closed, runVars, dataVars, svcVars,
                 boots>>

StopIdlePublish(p) ==
  /\ req[p].at = "stop.idle"
  /\ Publish(req[p].s, Status(req[p].s))
  /\ Leave(p)
  /\ UNCHANGED <<mgrVars, runVars, dataVars, hub, shut, sink, boots>>

\* The first Stop moves the run to stopping; later ones only wait with it.
StopLock(p) ==
  LET r == runs[req[p].s] IN
  /\ req[p].at = "stop.lock" /\ r # NoRun
  /\ st[r] # "stopping"
  /\ st' = [st EXCEPT ![r] = "stopping"]
  /\ GotoWith(p, "stop.signal", r)
  /\ UNCHANGED <<mgrVars, own, task, fatal, ctx, done, offset, end, source,
                 dataVars, svcVars, boots>>

StopJoin(p) ==
  LET r == runs[req[p].s] IN
  /\ req[p].at = "stop.lock" /\ r # NoRun
  /\ st[r] = "stopping"
  /\ GotoWith(p, "stop.wait", r)
  /\ UNCHANGED <<mgrVars, runVars, dataVars, svcVars, boots>>

\* changed, then stopSource.
StopSignal(p) ==
  /\ req[p].at = "stop.signal"
  /\ Publish(req[p].s, st[req[p].r])
  /\ ctx' = [ctx EXCEPT ![req[p].r] = IF @ = "live" THEN "srcDone" ELSE @]
  /\ Goto(p, "stop.wait")
  /\ UNCHANGED <<mgrVars, st, own, task, fatal, done, offset, end, source,
                 dataVars, hub, shut, sink, boots>>

StopDone(p) ==
  /\ req[p].at \in {"stop.wait", "stop.drain"}
  /\ req[p].r \in done
  /\ Leave(p)
  /\ UNCHANGED <<mgrVars, runVars, dataVars, svcVars, boots>>

\* StopTimeout: cancel the run and wait for it, however long that takes.
StopTimesOut(p) ==
  /\ req[p].at = "stop.wait" /\ req[p].r \notin done
  /\ ctx' = [ctx EXCEPT ![req[p].r] = "done"]
  /\ Goto(p, "stop.drain")
  /\ UNCHANGED <<mgrVars, st, own, task, fatal, done, offset, end, source,
                 dataVars, svcVars, boots>>

\* The request's context ends; Close waits with context.Background.
StopAbandoned(p) ==
  /\ req[p].at = "stop.wait" /\ p \in Clients
  /\ Leave(p)
  /\ UNCHANGED <<mgrVars, runVars, dataVars, svcVars, boots>>

-----------------------------------------------------------------------------
(* Delete, create and shutdown *)

\* Manager.Forget, refused while the session runs.
DeleteRefused(p) ==
  /\ req[p].at = "delete.forget" /\ runs[req[p].s] # NoRun
  /\ Leave(p)
  /\ UNCHANGED <<mgrVars, runVars, dataVars, svcVars, boots>>

DeleteForget(p) ==
  LET s == req[p].s IN
  /\ req[p].at = "delete.forget" /\ runs[s] = NoRun
  /\ failed' = Cleared(s)
  /\ clocks' = [clocks EXCEPT ![s] = Absent]
  /\ Goto(p, "delete.release")
  /\ UNCHANGED <<runs, closed, runVars, dataVars, svcVars, boots>>

DeleteRelease(p) ==
  /\ req[p].at = "delete.release"
  /\ ReleaseIngest(req[p].s)
  /\ Goto(p, "delete.row")
  /\ UNCHANGED <<mgrVars, runVars, dataVars, sink, wire, boots>>

\* The row goes with its captions (ON DELETE CASCADE); a second DeleteSession
\* finds none.
DeleteRow(p) ==
  LET s == req[p].s IN
  /\ req[p].at = "delete.row" /\ s \in stored
  /\ stored' = stored \ {s}
  /\ saved' = [r \in Runs |-> IF own[r] = s THEN 0 ELSE saved[r]]
  /\ orphan' = orphan \cup ({runs[s]} \ {NoRun})
  /\ Goto(p, "delete.sink")
  /\ UNCHANGED <<mgrVars, runVars, blind, svcVars, boots>>

DeleteRowGone(p) ==
  /\ req[p].at = "delete.row" /\ req[p].s \notin stored
  /\ Leave(p)
  /\ UNCHANGED <<mgrVars, runVars, dataVars, svcVars, boots>>

DeleteSink(p) ==
  /\ req[p].at = "delete.sink"
  /\ SetSink(req[p].s, NoRun)
  /\ Leave(p)
  /\ UNCHANGED <<mgrVars, runVars, dataVars, hub, shut, wire, boots>>

CreateSession(s) ==
  /\ s \notin stored
  /\ stored' = stored \cup {s}
  /\ UNCHANGED <<mgrVars, runVars, saved, blind, orphan, svcVars, req,
                 boots>>

\* Manager.Close: no more starts; one goroutine stops each running session.
CloseManager ==
  /\ ~closed /\ boots < MaxBoots
  /\ closed' = TRUE
  /\ req' = [p \in Procs |->
       IF \E s \in Sessions : p = Closer(s) /\ runs[s] # NoRun
       THEN [at |-> "stop.lookup", s |-> p[2], r |-> NoRun] ELSE req[p]]
  /\ UNCHANGED <<runs, failed, clocks, runVars, dataVars, svcVars, boots>>

\* The server process ends, cleanly or not, and starts again: only the store
\* survives ("after a restart every session is idle").
ServerRestart ==
  /\ boots < MaxBoots
  /\ boots' = boots + 1
  /\ runs' = [s \in Sessions |-> NoRun]
  /\ failed' = {}
  /\ clocks' = [s \in Sessions |-> Absent]
  /\ closed' = FALSE
  /\ LET used == {r \in Runs : st[r] # "unused"} IN
     /\ task' = [r \in Runs |-> IF task[r] # "none" THEN "over" ELSE "none"]
     /\ ctx' = [r \in Runs |-> IF r \in used THEN "done" ELSE ctx[r]]
     /\ done' = done \cup used
     /\ shut' = shut \cup used
  /\ hub' = [s \in Sessions |-> NoRun]
  /\ sink' = [s \in Sessions |-> NoRun]
  /\ wire' = [s \in Sessions |-> "idle"]
  /\ req' = [p \in Procs |-> Idle]
  /\ UNCHANGED <<st, own, fatal, offset, end, source, dataVars>>

-----------------------------------------------------------------------------
(* The goroutines of a run *)

\* One more second of audio.
Hear(r) ==
  /\ task[r] = "flow" /\ ctx[r] = "live" /\ source[r] \notin shut
  /\ end[r] < offset[r] + MaxAudio
  /\ end' = [end EXCEPT ![r] = @ + 1]
  /\ UNCHANGED <<mgrVars, st, own, task, fatal, ctx, done, offset, source,
                 dataVars, svcVars, req, boots>>

\* A final caption reaches the store, if the session still has its row.
Caption(r) ==
  /\ task[r] = "flow" /\ own[r] \in stored /\ "captions" \in Options
  /\ saved' = [saved EXCEPT ![r] = end[r]]
  /\ UNCHANGED <<mgrVars, runVars, stored, blind, orphan, svcVars, req,
                 boots>>

\* consume returns: the source ended, the run was stopped or cancelled, or a
\* restart gave up (isFatal), which a Stop does not undo.
PipelineEnds(r, isFatal) ==
  /\ task[r] = "flow"
  /\ task' = [task EXCEPT ![r] = "finish"]
  /\ fatal' = IF isFatal THEN fatal \cup {r} ELSE fatal
  /\ UNCHANGED <<mgrVars, st, own, ctx, done, offset, end, source, dataVars,
                 svcVars, req, boots>>

\* run.finish, first line.  Mutant: done is closed before finished runs.
FinishCancelAnnounced(r) ==
  /\ task[r] = "finish"
  /\ ctx' = [ctx EXCEPT ![r] = "done"]
  /\ done' = done \cup {r}
  /\ task' = [task EXCEPT ![r] = "finished"]
  /\ UNCHANGED <<mgrVars, st, own, fatal, offset, end, source, dataVars,
                 svcVars, req, boots>>

FinishCancel(r) ==
  /\ task[r] = "finish"
  /\ ctx' = [ctx EXCEPT ![r] = "done"]
  /\ task' = [task EXCEPT ![r] = "finished"]
  /\ UNCHANGED <<mgrVars, st, own, fatal, done, offset, end, source, dataVars,
                 svcVars, req, boots>>

\* Manager.finished under its lock.
Finished(r) ==
  LET s == own[r] IN
  /\ task[r] = "finished"
  /\ runs' = IF runs[s] = r THEN [runs EXCEPT ![s] = NoRun] ELSE runs
  /\ clocks' = [clocks EXCEPT ![s] = end[r]]
  /\ failed' = IF r \in fatal THEN failed \cup {s} ELSE failed
  /\ task' = [task EXCEPT ![r] = "release"]
  /\ UNCHANGED <<closed, st, own, fatal, ctx, done, offset, end, source,
                 dataVars, svcVars, req, boots>>

FinishedRelease(r) ==
  /\ task[r] = "release"
  /\ ReleaseIngest(own[r])
  /\ task' = [task EXCEPT ![r] = "sink"]
  /\ UNCHANGED <<mgrVars, st, own, fatal, ctx, done, offset, end, source,
                 dataVars, sink, wire, req, boots>>

FinishedSink(r) ==
  /\ task[r] = "sink"
  /\ SetSink(own[r], NoRun)
  /\ task' = [task EXCEPT ![r] = "publish"]
  /\ UNCHANGED <<mgrVars, st, own, fatal, ctx, done, offset, end, source,
                 dataVars, hub, shut, wire, req, boots>>

FinishedPublish(r) ==
  /\ task[r] = "publish"
  /\ Publish(own[r], Status(own[r]))
  /\ task' = [task EXCEPT ![r] = "close"]
  /\ UNCHANGED <<mgrVars, st, own, fatal, ctx, done, offset, end, source,
                 dataVars, hub, shut, sink, req, boots>>

FinishClose(r) ==
  /\ task[r] = "close"
  /\ done' = done \cup {r}
  /\ task' = [task EXCEPT ![r] = "over"]
  /\ UNCHANGED <<mgrVars, st, own, fatal, ctx, offset, end, source, dataVars,
                 svcVars, req, boots>>

-----------------------------------------------------------------------------
(* Specification *)

\* The steps of a request that is under way; none waits for another client.
ProcStep(p) ==
  \/ StartRefused(p) \/ Resume(p) \/ \E r \in Runs : Register(p, r)
  \/ AnnounceStarting(p) \/ AnnounceLive(p) \/ LaunchNoProvider(p)
  \/ \E readFails, given \in BOOLEAN : Launch(p, readFails, given)
  \/ LaunchHook(p) \/ LaunchPipeline(p) \/ LaunchAborts(p) \/ GoLive(p)
  \/ FailHook(p) \/ FailUnregister(p) \/ FailPublish(p)
  \/ CloserLookup(p) \/ CloserGone(p) \/ StopIdle(p) \/ StopIdlePublish(p)
  \/ StopLock(p) \/ StopJoin(p) \/ StopSignal(p) \/ StopDone(p)
  \/ StopTimesOut(p)
  \/ DeleteRefused(p) \/ DeleteForget(p) \/ DeleteRelease(p)
  \/ DeleteRow(p) \/ DeleteRowGone(p) \/ DeleteSink(p)

FinishStep(r) ==
  \/ FinishCancel(r) \/ Finished(r) \/ FinishedRelease(r) \/ FinishedSink(r)
  \/ FinishedPublish(r) \/ FinishClose(r)

RunStep(r) ==
  \/ Hear(r) \/ Caption(r) \/ \E isFatal \in BOOLEAN : PipelineEnds(r, isFatal)
  \/ FinishStep(r)

Next ==
  \/ \E p \in Clients, s \in Sessions :
       \E label \in {"start.lock", "stop.lock", "delete.forget"} :
         Lookup(p, s, label)
  \/ \E p \in Procs : ProcStep(p) \/ StopAbandoned(p)
  \/ \E r \in Runs : RunStep(r)
  \/ \E s \in Sessions : Pause(s) \/ CreateSession(s)
  \/ CloseManager
  \/ ServerRestart

Spec == Init /\ [][Next]_vars

\* Goroutines that are ready run (the Go scheduler is fair); a stopped or
\* cancelled pipeline ends (domain.ASRProvider: a closed input is flushed and
\* the output closed; cancelling aborts).  Clients owe nothing.
Fairness ==
  /\ \A p \in Procs : WF_vars(ProcStep(p))
  /\ \A r \in Runs :
       /\ WF_vars(FinishStep(r))
       /\ WF_vars(/\ ctx[r] # "live" \/ source[r] \in shut
                  /\ PipelineEnds(r, FALSE))

FairSpec == Spec /\ Fairness

-----------------------------------------------------------------------------
(* What holds *)

Running(r) == task[r] \in {"flow", "finish", "finished"}

\* However starts, stops and ending runs interleave, the goroutines of a run
\* work only while the manager has that run registered, so a session never
\* has two pipelines (Manager.Start against run.finish).
OnePipeline == \A r \in Runs : Running(r) => runs[own[r]] = r

\* From registering to the start of the pipeline (or the failure), the run is
\* in the hands of one request and stays the registered one, whatever Stop,
\* Close or another Start do meanwhile: so the error path, which unregisters
\* without looking whose run it is, takes away its own (Manager.Start).
Launching(p) ==
  req[p].at \in {"start.changed", "start.launch", "start.hook", "start.source",
                 "start.fail", "start.unregister"}
LaunchOwnsRun ==
  \A p \in Procs : Launching(p) =>
    /\ runs[req[p].s] = req[p].r /\ task[req[p].r] = "none"
    /\ \A q \in Procs : Launching(q) /\ req[q].r = req[p].r => q = p

\* When Stop returns because done was closed, a run that had a pipeline is
\* unregistered and its captions, its ingest source and its caption sink are
\* settled: the next Start cannot meet it (run.finish, Manager.finished).
DoneSettled ==
  \A r \in done : task[r] \in {"none", "over"} /\ ctx[r] = "done"

\* A registered session shows its run's state and no stale error: status
\* prefers the run, but Forget, Stop and finished leave none behind either.
NoFailedWhileRunning == \A s \in failed : runs[s] = NoRun

\* Captions of a later run start after every stored caption of the earlier
\* runs of the session, across failed starts, deletion and server restarts,
\* unless the store could not be read (Manager.clockOrigin).
Placed(r) == task[r] # "none"
ClockSound ==
  \A r, q \in Runs :
    (r < q /\ own[r] = own[q] /\ own[r] \notin blind /\ Placed(q))
      => saved[r] = 0 \/ saved[r] < offset[q]

\* A Stop that came in meanwhile wins: no start, resume or pause that was
\* under way brings a stopping run back (Manager.Stop, run.goLive).
StopWins ==
  [][\A r \in Runs : st[r] = "stopping" => st'[r] = "stopping"]_vars

\* When Close has stopped what it found, no pipeline of a session that kept
\* its row is left and none can start (Manager.Close against Manager.Start).
CloseDrains ==
  (closed /\ \A p \in Closers : req[p].at = "idle")
    => \A s \in Sessions : runs[s] = NoRun \/ runs[s] \in orphan
                             \/ ~Placed(runs[s])

\* Whatever the goroutines do, whoever looks at a session sees the state
\* machine of SessionLifecycle (Manager.State, Manager.status).
Lifecycle == INSTANCE SessionLifecycle
               WITH state <- [s \in Sessions |-> Status(s)]
LifecycleSpec == Lifecycle!Spec

-----------------------------------------------------------------------------
(* What the code's comments promise and the code does not keep *)

\* "StopTimeout bounds how long Stop waits": a Stop that has cancelled its
\* run returns (Manager.Stop, launch, run.abort).
StopReturns ==
  \A p \in Procs : req[p].at = "stop.drain" ~> req[p].at = "idle"

\* "DeleteSession removes a session that isn't running".
RunningIsStored == \A s \in Sessions : runs[s] # NoRun => s \in stored

\* StreamCaptions: "RunStarted is called when a run starts; RunEnded follows
\* when it ends": a run that ends does not end the sink of a run that flows.
RunEndedIsOwn ==
  \A r, q \in Runs :
    (task[r] = "sink" /\ task[q] = "flow" /\ own[q] = own[r])
      => sink[own[r]] # q

\* ReleaseIngest: "the next run starts a fresh timeline".
FreshIngest ==
  \A r, q \in Runs :
    (r # q /\ Placed(r) /\ Placed(q) /\ source[r] = source[q])
      => source[r] = NoRun

\* "changed publishes a state change of r to viewers": once every goroutine
\* rests, a session whose viewers were last told it runs does run.
Resting ==
  /\ \A p \in Procs : req[p].at \in {"idle", "stop.wait", "stop.drain"}
  /\ \A r \in Runs : task[r] \in {"none", "flow", "over"}
ViewersKnowState ==
  Resting => \A s \in Sessions : wire[s] \in Lifecycle!Active => runs[s] # NoRun
=============================================================================
