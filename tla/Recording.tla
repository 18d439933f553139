------------------------------ MODULE Recording ------------------------------
(***************************************************************************)
(* The recordings of one session (internal/recording): each run has a sink *)
(* whose goroutine writes the frames it is given to chunks, one ffmpeg and *)
(* one row of the store per chunk; recordings are deleted by admins and by *)
(* the retention job meanwhile, and the server may crash.                  *)
(*                                                                         *)
(* Frame t is the audio from t to t + 1 of the session clock.  A file is   *)
(* the sequence of what it plays, frame numbers and Silence.  What the     *)
(* rows, the files and Recorder.mu see is interleaved; the sink's own      *)
(* bookkeeping is part of those steps.                                     *)
(***************************************************************************)
EXTENDS Naturals, Sequences, FiniteSets

CONSTANTS
  Deleters,     \* concurrent calls of Delete, from the API or the retention job
  Chunk,        \* Options.Chunk
  MaxGap,       \* Options.MaxGap
  Buffer,       \* Options.Buffer
  ProbeWorks,   \* ffprobe is there to tell a file's duration
  MaxSkip,      \* bound: frames a pause skips at once
  MaxTime,      \* bound: the session clock
  MaxRuns,      \* bound: runs under any plan
  MaxChunks,    \* bound: recordings
  Plans         \* bounds: how many runs, frames, deletions, crashes of the
                \* server and failures (a row that cannot be made, settled or
                \* removed, rows that cannot be read, an ffmpeg that does not
                \* start or stops, a file that cannot be removed)

RecorderOptions == {Chunk, Buffer} \subseteq Nat \ {0} /\ MaxGap \in Nat

ASSUME RecordingAssumption ==
  /\ RecorderOptions /\ ProbeWorks \in BOOLEAN
  /\ {MaxRuns, MaxChunks} \subseteq Nat \ {0} /\ {MaxSkip, MaxTime} \subseteq Nat
  /\ Plans \subseteq [runs : 0..MaxRuns, frames : Nat, deletes : Nat, boots : Nat, fails : Nat]

VARIABLES
  clock,   \* where the running run is on the session clock
  runs,    \* runs started
  sink,    \* each run's sink and its goroutine
  row,     \* the recordings table
  file,    \* the files
  made,    \* recordings created
  active,  \* Recorder.active: recording -> sink, 0 if none
  dir,     \* the session's directory exists
  del,     \* calls of Delete
  deleted, \* recordings whose deletion has returned
  stuck,   \* history: recordings whose file could not be removed or whose row the
           \* store did not settle or remove, since the server last started
  behind,  \* history: recordings a later run may start within: a recovery left
           \* their row as a crash did, or it could not be read at a run's start
  left     \* what of the chosen plan is still to come

vars == <<clock, runs, sink, row, file, made, active, dir, del, deleted, stuck, behind, left>>

Sinks == 1..MaxRuns
Ids == 1..MaxChunks
Silence == MaxTime + 1

NoRow == [status |-> "none", offset |-> 0, length |-> 0]
NoFile == [there |-> FALSE, plays |-> <<>>]
NoSink == [pc |-> "none", queue |-> <<>>, closed |-> FALSE, err |-> "none",
           chunk |-> 0, offset |-> 0, n |-> 0, alive |-> FALSE, frame |-> 0, then |-> "none"]
Idle == [pc |-> "idle", id |-> 0, sink |-> 0]

Init ==
  /\ clock = 0 /\ runs = 0
  /\ sink = [k \in Sinks |-> NoSink]
  /\ row = [i \in Ids |-> NoRow]
  /\ file = [i \in Ids |-> NoFile]
  /\ made = 0
  /\ active = [i \in Ids |-> 0]
  /\ dir = FALSE
  /\ del = [d \in Deleters |-> Idle]
  /\ deleted = {} /\ stuck = {} /\ behind = {}
  /\ left \in Plans

\* One of a kind of thing happens.
Happens(kind) == left[kind] > 0 /\ left' = [left EXCEPT ![kind] = @ - 1]

Stored == {i \in Ids : row[i].status # "none"}
MaxOf(S) == CHOOSE x \in S : \A y \in S : x >= y

----------------------------------------------------------------------------
\* The run: Start, Write and Close.

\* Where a run starts: a frame after the previous run or, after a restart of
\* the server, after the last recording's row (Manager.clockOrigin, for a
\* session without captions, which could only move it on).
LastRecordingStart == MaxOf({0} \cup {row[i].offset : i \in Stored})  \* mutant
LastRecordingEnd == MaxOf({0} \cup {row[i].offset + row[i].length : i \in Stored})
Fresh == runs > 0 => sink[runs].pc = "dead"
ClockOrigin ==
  LET t == IF Fresh THEN LastRecordingEnd ELSE clock IN IF t = 0 THEN 0 ELSE t + 1

StartAt(t) ==
  /\ left.runs > 0
  /\ runs > 0 => sink[runs].closed \/ sink[runs].pc = "dead"
  /\ runs' = runs + 1
  /\ clock' = t
  /\ dir' = TRUE
  /\ sink' = [sink EXCEPT ![runs'].pc = "loop"]
  /\ UNCHANGED <<row, file, made, active, del, deleted, stuck>>

StartRun == StartAt(ClockOrigin) /\ Happens("runs") /\ behind' = behind

\* The rows cannot be read: the run starts the clock afresh.
StartUnread ==
  /\ Fresh /\ left.fails > 0 /\ StartAt(0)
  /\ left' = [left EXCEPT !.runs = @ - 1, !.fails = @ - 1]
  /\ behind' = behind \cup Stored

\* sink.Write: the next frame, some frames later after a pause.  A full queue
\* drops it; a sink that failed is closed.
Queued(k, f) ==
  IF Len(sink[k].queue) < Buffer THEN [sink EXCEPT ![k].queue = Append(@, f)] ELSE sink

Write ==
  /\ Happens("frames")
  /\ runs > 0 /\ sink[runs].pc # "dead" /\ ~sink[runs].closed
  /\ \E skip \in 0..MaxSkip :
       LET f == clock + skip IN
       /\ f < MaxTime
       /\ clock' = f + 1
       /\ sink' = IF sink[runs].err # "none" THEN [sink EXCEPT ![runs].closed = TRUE] ELSE Queued(runs, f)
  /\ UNCHANGED <<runs, row, file, made, active, dir, del, deleted, stuck, behind>>

Close ==
  /\ runs > 0 /\ sink[runs].pc # "dead" /\ ~sink[runs].closed
  /\ sink' = [sink EXCEPT ![runs].closed = TRUE]
  /\ UNCHANGED <<clock, runs, row, file, made, active, dir, del, deleted, stuck, behind, left>>

----------------------------------------------------------------------------
\* The sink's goroutine.
Loop(k, s) ==
  /\ sink' = [sink EXCEPT ![k] = s]
  /\ UNCHANGED <<clock, runs, deleted, stuck, behind>>

\* Its step when the store refuses the row of its chunk.
LoopStuck(k, s) ==
  /\ sink' = [sink EXCEPT ![k] = s]
  /\ stuck' = stuck \cup {sink[k].chunk}
  /\ UNCHANGED <<clock, runs, deleted, behind>>

\* chunk.next
NextT(s) == s.offset + s.n

\* The chunk ends before frame f.
Full(s, f) == f > NextT(s) + MaxGap \/ f >= s.offset + Chunk

\* loop takes a frame: frame ends the chunk it does not belong to first.
Take(k) ==
  LET s == sink[k]
      f == Head(s.queue)
      t == [s EXCEPT !.queue = Tail(@), !.frame = f]
  IN
  /\ s.pc = "loop" /\ s.queue # <<>>
  /\ Loop(k, IF s.err # "none" THEN [t EXCEPT !.frame = 0]
             ELSE IF s.chunk = 0 THEN [t EXCEPT !.pc = "create"]
             ELSE IF Full(s, f) THEN [t EXCEPT !.pc = "finish", !.then = "create"]
             ELSE [t EXCEPT !.pc = "write"])
  /\ UNCHANGED <<row, file, made, active, dir, del, left>>

Ended(k) ==
  LET s == sink[k] IN
  /\ s.pc = "loop" /\ s.queue = <<>> /\ s.closed
  /\ Loop(k, IF s.chunk = 0 THEN [s EXCEPT !.pc = "done"]
             ELSE [s EXCEPT !.pc = "finish", !.then = "done"])
  /\ UNCHANGED <<row, file, made, active, dir, del, left>>

\* UpdateRecording replaces the row if there is one.
Updated(i, status, n) ==
  IF row[i].status = "none" THEN row ELSE [row EXCEPT ![i].status = status, ![i].length = n]

\* startChunk: the row, then ffmpeg, then the entry in active.
Create(k) ==
  LET s == sink[k] IN
  /\ s.pc = "create" /\ made < MaxChunks
  /\ made' = made + 1
  /\ row' = [row EXCEPT ![made'] = [status |-> "recording", offset |-> s.frame, length |-> 0]]
  /\ Loop(k, [s EXCEPT !.pc = "spawn", !.chunk = made', !.offset = s.frame, !.n = 0])
  /\ UNCHANGED <<file, active, dir, del, left>>

\* No row: the sink has failed.
CreateFails(k) ==
  /\ sink[k].pc = "create"
  /\ IF made = MaxChunks THEN UNCHANGED left ELSE Happens("fails")
  /\ Loop(k, [sink[k] EXCEPT !.pc = "loop", !.err = "failed", !.frame = 0])
  /\ UNCHANGED <<row, file, made, active, dir, del>>

\* ffmpeg starts; without the directory it cannot make its file and stops.
Spawn(k) ==
  LET s == sink[k] IN
  /\ s.pc = "spawn"
  /\ file' = [file EXCEPT ![s.chunk].there = dir]
  /\ Loop(k, [s EXCEPT !.pc = "register", !.alive = dir])
  /\ UNCHANGED <<row, made, active, dir, del, left>>

\* The chunk has failed, and the sink: its row says so, if the store takes it.
SpawnFails(k) ==
  LET s == sink[k]
      t == [s EXCEPT !.pc = "loop", !.chunk = 0, !.err = "failed", !.frame = 0]
  IN
  /\ s.pc = "spawn" /\ Happens("fails")
  /\ \/ row' = Updated(s.chunk, "failed", 0) /\ Loop(k, t)
     \/ row' = row /\ LoopStuck(k, t)
  /\ UNCHANGED <<file, made, active, dir, del>>

Register(k) ==
  LET s == sink[k] IN
  /\ s.pc = "register"
  /\ active' = [active EXCEPT ![s.chunk] = k]
  /\ Loop(k, [s EXCEPT !.pc = "write"])
  /\ UNCHANGED <<row, file, made, dir, del, left>>

\* The frame after the silence that keeps the file on the session clock.
Padded(s) == [i \in 1..(s.frame - NextT(s)) |-> Silence] \o <<s.frame>>

\* The row's length is saved now and then (Options.Progress).
WriteFrame(k) ==
  LET s == sink[k]
      more == Padded(s)
      n == s.n + Len(more)
  IN
  /\ s.pc = "write" /\ s.alive
  /\ file' = [file EXCEPT ![s.chunk].plays = @ \o more]
  /\ \E save \in BOOLEAN : row' = IF save THEN Updated(s.chunk, "recording", n) ELSE row
  /\ Loop(k, [s EXCEPT !.pc = "loop", !.n = n, !.frame = 0])
  /\ UNCHANGED <<made, active, dir, del, left>>

\* ffmpeg has stopped: the file plays up to some fragment.
WriteFails(k) ==
  LET s == sink[k] IN
  /\ s.pc = "write"
  /\ IF s.alive THEN Happens("fails") ELSE UNCHANGED left
  /\ \E n \in 0..Len(file[s.chunk].plays) :
       file' = [file EXCEPT ![s.chunk].plays = SubSeq(@, 1, n)]
  /\ Loop(k, [s EXCEPT !.pc = "finish", !.then = "loop", !.err = "failed", !.frame = 0])
  /\ UNCHANGED <<row, made, active, dir, del>>

\* finish: the row is settled by what the file plays (an error of the store is
\* logged), then active forgets it.
Playable(i) == file[i].there /\ file[i].plays # <<>>
Verdict(i) == IF Playable(i) THEN "complete" ELSE "failed"

Finish(k) ==
  LET s == sink[k] IN
  /\ s.pc = "finish"
  /\ row' = Updated(s.chunk, Verdict(s.chunk), s.n)
  /\ Loop(k, [s EXCEPT !.pc = "unregister"])
  /\ UNCHANGED <<file, made, active, dir, del, left>>

FinishFails(k) ==
  LET s == sink[k] IN
  /\ s.pc = "finish" /\ Happens("fails")
  /\ LoopStuck(k, [s EXCEPT !.pc = "unregister"])
  /\ UNCHANGED <<row, file, made, active, dir, del>>

Unregister(k) ==
  LET s == sink[k] IN
  /\ s.pc = "unregister"
  /\ active' = [active EXCEPT ![s.chunk] = 0]
  /\ Loop(k, [s EXCEPT !.pc = s.then, !.then = "none", !.chunk = 0])
  /\ UNCHANGED <<row, file, made, dir, del, left>>

\* Mutant: an abort that is acknowledged without the kill.
AbortOnly(k, d) ==
  LET s == sink[k] IN
  /\ s.pc = "loop" /\ del[d].pc = "abort" /\ del[d].sink = k
  /\ del' = [del EXCEPT ![d].pc = "remove"]
  /\ Loop(k, [s EXCEPT !.err = IF @ = "none" THEN "deleted" ELSE @])
  /\ UNCHANGED <<row, file, made, active, dir, left>>
\* loop takes an abort: it kills the chunk if that is the one meant.
Abort(k, d) ==
  LET s == sink[k] IN
  /\ s.pc = "loop" /\ del[d].pc = "abort" /\ del[d].sink = k
  /\ del' = [del EXCEPT ![d].pc = "remove"]
  /\ IF s.chunk = del[d].id
     THEN /\ active' = [active EXCEPT ![s.chunk] = 0]
          /\ Loop(k, [s EXCEPT !.chunk = 0, !.err = IF @ = "none" THEN "deleted" ELSE @])
     ELSE active' = active /\ Loop(k, s)
  /\ UNCHANGED <<row, file, made, dir, left>>

----------------------------------------------------------------------------
\* Delete.
DeleteOnly == UNCHANGED <<clock, runs, sink, made, active, behind>>

\* The API deletes any recording, the retention job one that has ended.
Get(d) ==
  /\ del[d].pc = "idle" /\ Happens("deletes")
  /\ \E i \in Stored : del' = [del EXCEPT ![d] = [pc |-> "look", id |-> i, sink |-> 0]]
  /\ DeleteOnly /\ UNCHANGED <<row, file, dir, deleted, stuck>>

Look(d) ==
  LET k == active[del[d].id] IN
  /\ del[d].pc = "look"
  /\ del' = [del EXCEPT ![d].sink = k, ![d].pc = IF k = 0 THEN "remove" ELSE "abort"]
  /\ DeleteOnly /\ UNCHANGED <<row, file, dir, deleted, stuck, left>>

\* sink.abort, when the sink is done.
AbortDone(d) ==
  /\ del[d].pc = "abort" /\ sink[del[d].sink].pc = "done"
  /\ del' = [del EXCEPT ![d].pc = "remove"]
  /\ DeleteOnly /\ UNCHANGED <<row, file, dir, deleted, stuck, left>>

\* The file, and the directory once it is empty.
Remove(d) ==
  /\ del[d].pc = "remove"
  /\ file' = [file EXCEPT ![del[d].id].there = FALSE]
  /\ dir' = (dir /\ \E i \in Ids : file'[i].there)
  /\ del' = [del EXCEPT ![d].pc = "row"]
  /\ DeleteOnly /\ UNCHANGED <<row, deleted, stuck, left>>

RemoveFailed(d) ==
  /\ del[d].pc = "remove" /\ file[del[d].id].there /\ Happens("fails")
  /\ stuck' = stuck \cup {del[d].id}
  /\ del' = [del EXCEPT ![d] = Idle]
  /\ DeleteOnly /\ UNCHANGED <<row, file, dir, deleted>>

DeleteRow(d) ==
  /\ del[d].pc = "row"
  /\ row' = [row EXCEPT ![del[d].id] = NoRow]
  /\ deleted' = deleted \cup {del[d].id}
  /\ del' = [del EXCEPT ![d] = Idle]
  /\ DeleteOnly /\ UNCHANGED <<file, dir, stuck, left>>

\* The store refuses: the sink is stopped and the file gone, the row stays.
DeleteRowFails(d) ==
  /\ del[d].pc = "row" /\ Happens("fails")
  /\ stuck' = stuck \cup {del[d].id}
  /\ del' = [del EXCEPT ![d] = Idle]
  /\ DeleteOnly /\ UNCHANGED <<row, file, dir, deleted>>

----------------------------------------------------------------------------
\* A crash leaves every file with the fragments that were flushed; on the next
\* start Recover settles the rows that say they are being recorded, the newest
\* first.  When the store refuses one it stops there, and the server goes on.
RecoveredNot(i, plays) == row[i]  \* mutant
Recovered(i, plays) ==
  IF row[i].status # "recording" THEN row[i]
  ELSE [row[i] EXCEPT !.status = IF file[i].there /\ plays # <<>> THEN "complete" ELSE "failed",
                      !.length = IF ProbeWorks /\ file[i].there /\ plays # <<>> THEN Len(plays) ELSE @]

Being(i) == \E k \in Sinks : sink[k].chunk = i

Missed(m) == {i \in 1..m : row[i].status = "recording"}

Crash ==
  /\ runs > 0 /\ left.boots > 0
  /\ \E m \in 0..made, cut \in [{i \in Ids : Being(i)} -> 0..MaxTime] :
       LET Kept(i) == IF i \in DOMAIN cut THEN SubSeq(file[i].plays, 1, cut[i]) ELSE file[i].plays IN
       /\ \A i \in DOMAIN cut : cut[i] <= Len(file[i].plays)
       /\ file' = [i \in Ids |-> [file[i] EXCEPT !.plays = Kept(i)]]
       /\ row' = [i \in Ids |-> IF i \in Missed(m) THEN row[i] ELSE Recovered(i, Kept(i))]
       /\ Missed(m) # {} => left.fails > 0
       /\ left' = [left EXCEPT !.boots = @ - 1, !.fails = IF Missed(m) = {} THEN @ ELSE @ - 1]
       /\ stuck' = Missed(m) /\ behind' = behind \cup Missed(m)
  /\ sink' = [k \in Sinks |-> IF k <= runs THEN [NoSink EXCEPT !.pc = "dead"] ELSE NoSink]
  /\ active' = [i \in Ids |-> 0]
  /\ del' = [d \in Deleters |-> Idle]
  /\ UNCHANGED <<clock, runs, made, dir, deleted>>

----------------------------------------------------------------------------
Writer(k) ==
  \/ Take(k) \/ Ended(k) \/ Create(k) \/ CreateFails(k) \/ Spawn(k) \/ SpawnFails(k) \/ Register(k)
  \/ WriteFrame(k) \/ WriteFails(k) \/ Finish(k) \/ FinishFails(k) \/ Unregister(k)
  \/ \E d \in Deleters : Abort(k, d)

Deleter(d) ==
  \/ Get(d) \/ Look(d) \/ AbortDone(d) \/ Remove(d) \/ RemoveFailed(d)
  \/ DeleteRow(d) \/ DeleteRowFails(d)

Next ==
  \/ StartRun \/ StartUnread \/ Write \/ Close \/ Crash
  \/ \E k \in Sinks : Writer(k)
  \/ \E d \in Deleters : Deleter(d)

Spec == Init /\ [][Next]_vars

----------------------------------------------------------------------------
Places == {"none", "loop", "create", "spawn", "register", "write", "finish", "unregister", "done", "dead"}

\* Types; the queue keeps to its bound, and active names the sink that writes
\* a recording, so that Delete stops that one.
TypeOK ==
  /\ clock \in 0..MaxTime + MaxRuns /\ made \in 0..MaxChunks /\ dir \in BOOLEAN
  /\ \A k \in Sinks :
       /\ sink[k].pc \in Places
       /\ Len(sink[k].queue) <= Buffer
       /\ sink[k].err \in {"none", "failed", "deleted"}
  /\ \A i \in Ids :
       /\ row[i].status \in {"none", "recording", "complete", "failed"}
       /\ active[i] # 0 => sink[active[i]].chunk = i

\* What a file plays at a time is the frame of that time or silence.
OnClock ==
  \A i \in Stored : \A j \in 1..Len(file[i].plays) :
    file[i].plays[j] \in {Silence, row[i].offset + j - 1}

\* No two recordings of a session play the same time, save those whose file the
\* start of a later run could not know of.
Window(i) == {row[i].offset + j : j \in IF file[i].there THEN 0..Len(file[i].plays) - 1 ELSE {}}
ChunksApart == \A i, j \in Stored \ behind : i # j => Window(i) \cap Window(j) = {}

\* The recordings of a session keep to its clock, whatever was dropped or
\* paused, over chunks, runs and restarts of the server ("Pauses and dropped
\* frames become silence, so the file stays on the session clock"; or "the next
\* run's captions would fall inside an earlier recording's replay window").
OnOneClock == OnClock /\ ChunksApart

\* A recording shown as being recorded is being written or being deleted, or
\* its file could not be removed, or the store refused to settle or remove its
\* row since the server started: whatever else ends a chunk settles its row,
\* and so does the recovery of the next start that reaches it.
BeingDeleted(i) == \E d \in Deleters : del[d].id = i
RowsSettle ==
  \A i \in Ids : row[i].status = "recording" => Being(i) \/ BeingDeleted(i) \/ i \in stuck

\* What the library lists is true to the session: files on its clock that do
\* not overlap, and rows that say "recording" only of what goes on or of what
\* the disk or the store refused to end.
RecordingsTrue == OnOneClock /\ RowsSettle

\* A deletion that found the recording's sink has stopped it: nobody writes the
\* file that was removed ("A recording still being written stops first").
FoundIsStopped ==
  \A d \in Deleters :
    del[d].pc = "row" /\ del[d].sink # 0 => ~Being(del[d].id) /\ ~file[del[d].id].there

(* What the documentation says and does not hold *)

\* manager.go: a run starts after the latest recording, "or the next run's
\* captions would fall inside an earlier recording's replay window".
NoneOverlaps == \A i, j \in Stored : i # j => Window(i) \cap Window(j) = {}

\* library.go: "Delete removes a recording and its file ... A recording still
\* being written stops first".
DeletedIsGone == \A i \in deleted : ~Being(i) /\ ~file[i].there

\* A row says "recording" only while the recording is written or deleted.
WrittenOrDeleted ==
  \A i \in Ids : row[i].status = "recording" => Being(i) \/ BeingDeleted(i)

\* recorder.go: "The file itself starts with the first frame": an ffmpeg that
\* has started writes a file, unless it was deleted meanwhile.
FileStarts ==
  \A k \in Sinks : sink[k].pc = "register" =>
    file[sink[k].chunk].there \/ sink[k].chunk \in deleted \/ \E d \in Deleters : del[d].id = sink[k].chunk
=============================================================================
