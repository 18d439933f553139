------------------------ MODULE SessionManagerProofs ------------------------
(* Proofs about SessionManager, for any sessions, requests and bounds.      *)
EXTENDS SessionManager, TLAPS

-----------------------------------------------------------------------------
(* Types and links *)

\* The variables that name a run or a session agree: a registered run and the
\* run a request holds belong to the session they are filed under.
WithRun == PCs \ {"idle", "start.lock", "stop.lookup", "stop.lock", "stop.idle",
                  "delete.forget", "delete.release", "delete.row",
                  "delete.sink"}

Links ==
  /\ \A s \in Sessions :
       runs[s] # NoRun => own[runs[s]] = s /\ st[runs[s]] # "unused"
  /\ \A p \in Procs : req[p].at # "idle" => req[p].s \in Sessions
  /\ \A p \in Procs :
       req[p].at \in WithRun => /\ req[p].r \in Runs
                                /\ own[req[p].r] = req[p].s
                                /\ st[req[p].r] # "unused"
  /\ \A r \in Runs : st[r] # "unused" => own[r] \in Sessions
  /\ \A r \in Runs : task[r] # "none" => st[r] # "unused"

LEMMA GotoType ==
  ASSUME req \in [Procs -> Requests], NEW p \in Procs, NEW label \in PCs,
         Goto(p, label)
  PROVE  req' \in [Procs -> Requests]
  BY DEF Goto, Requests

LEMMA GotoWithType ==
  ASSUME req \in [Procs -> Requests], NEW p \in Procs, NEW label \in PCs,
         NEW r \in Runs, GotoWith(p, label, r)
  PROVE  req' \in [Procs -> Requests]
  BY DEF GotoWith, Requests

LEMMA LeaveType ==
  ASSUME req \in [Procs -> Requests], NEW p \in Procs, Leave(p)
  PROVE  req' \in [Procs -> Requests]
  BY DEF Leave, Idle, Requests, PCs


LEMMA TypeStep ==
  TypeOK /\ Links /\ [Next]_vars => TypeOK'
  <1> SUFFICES ASSUME TypeOK, Links, [Next]_vars PROVE TypeOK'
    OBVIOUS

  <1> USE DEF TypeOK, Links, Requests, PCs, States, Tasks, NoRun, WithRun,
            mgrVars, runVars, dataVars, svcVars
  <1>1. ASSUME NEW p \in Clients, NEW s \in Sessions,
              NEW label \in {"start.lock", "stop.lock", "delete.forget"},
              Lookup(p, s, label)
       PROVE  TypeOK'
    BY <1>1 DEF Lookup, Procs
  <1>2. ASSUME NEW p \in Procs, NEW r \in Runs, Register(p, r)
       PROVE  TypeOK'
    BY <1>2, GotoWithType DEF Register, Fresh, Cleared, CanStart
  <1>3. ASSUME NEW p \in Procs, NEW readFails \in BOOLEAN, NEW given \in BOOLEAN,
              Launch(p, readFails, given)
       PROVE  TypeOK'
    BY <1>3, GotoType DEF Launch, Place, Past, Ends, Origin, Absent
  <1>4. ASSUME NEW p \in Procs, StartRefused(p)
       PROVE  TypeOK'
    BY <1>4, LeaveType DEF StartRefused
  <1>5. ASSUME NEW p \in Procs, Resume(p)
       PROVE  TypeOK'
    BY <1>5, LeaveType DEF Resume, Publish
  <1>6. ASSUME NEW p \in Procs, AnnounceStarting(p)
       PROVE  TypeOK'
    BY <1>6, GotoType DEF AnnounceStarting, Publish
  <1>7. ASSUME NEW p \in Procs, AnnounceLive(p)
       PROVE  TypeOK'
    BY <1>7, LeaveType DEF AnnounceLive, Publish
  <1>8. ASSUME NEW p \in Procs, LaunchNoProvider(p)
       PROVE  TypeOK'
    BY <1>8, GotoType DEF LaunchNoProvider
  <1>9. ASSUME NEW p \in Procs, LaunchHook(p)
       PROVE  TypeOK'
    BY <1>9, GotoType DEF LaunchHook, SetSink
  <1>10. ASSUME NEW p \in Procs, LaunchPipeline(p)
       PROVE  TypeOK'
    BY <1>10, GotoType DEF LaunchPipeline
  <1>11. ASSUME NEW p \in Procs, LaunchAborts(p)
       PROVE  TypeOK'
    BY <1>11, GotoType DEF LaunchAborts
  <1>12. ASSUME NEW p \in Procs, GoLive(p)
       PROVE  TypeOK'
    BY <1>12, GotoType DEF GoLive, LiveUnlessStopped
  <1>13. ASSUME NEW p \in Procs, FailHook(p)
       PROVE  TypeOK'
    BY <1>13, GotoType DEF FailHook, SetSink
  <1>14. ASSUME NEW p \in Procs, FailUnregister(p)
       PROVE  TypeOK'
    BY <1>14, GotoType DEF FailUnregister
  <1>15. ASSUME NEW p \in Procs, FailPublish(p)
       PROVE  TypeOK'
    <2>1. wire' \in [Sessions -> (States \ {"unused"}) \cup {"idle", "error"}]
      BY <1>15 DEF FailPublish, Publish, Status
    <2>2. QED
      BY <1>15, <2>1, LeaveType DEF FailPublish
  <1>16. ASSUME NEW p \in Procs, CloserLookup(p)
       PROVE  TypeOK'
    BY <1>16, GotoType DEF CloserLookup
  <1>17. ASSUME NEW p \in Procs, CloserGone(p)
       PROVE  TypeOK'
    BY <1>17, LeaveType DEF CloserGone
  <1>18. ASSUME NEW p \in Procs, StopIdle(p)
       PROVE  TypeOK'
    BY <1>18, GotoType DEF StopIdle, Cleared
  <1>19. ASSUME NEW p \in Procs, StopIdlePublish(p)
       PROVE  TypeOK'
    BY <1>19, LeaveType DEF StopIdlePublish, Publish, Status
  <1>20. ASSUME NEW p \in Procs, StopLock(p)
       PROVE  TypeOK'
    BY <1>20, GotoWithType DEF StopLock
  <1>21. ASSUME NEW p \in Procs, StopJoin(p)
       PROVE  TypeOK'
    BY <1>21, GotoWithType DEF StopJoin
  <1>22. ASSUME NEW p \in Procs, StopSignal(p)
       PROVE  TypeOK'
    BY <1>22, GotoType DEF StopSignal, Publish
  <1>23. ASSUME NEW p \in Procs, StopDone(p)
       PROVE  TypeOK'
    BY <1>23, LeaveType DEF StopDone
  <1>24. ASSUME NEW p \in Procs, StopTimesOut(p)
       PROVE  TypeOK'
    BY <1>24, GotoType DEF StopTimesOut
  <1>25. ASSUME NEW p \in Procs, StopAbandoned(p)
       PROVE  TypeOK'
    BY <1>25, LeaveType DEF StopAbandoned
  <1>26. ASSUME NEW p \in Procs, DeleteRefused(p)
       PROVE  TypeOK'
    BY <1>26, LeaveType DEF DeleteRefused
  <1>27. ASSUME NEW p \in Procs, DeleteForget(p)
       PROVE  TypeOK'
    BY <1>27, GotoType DEF DeleteForget, Cleared
  <1>28. ASSUME NEW p \in Procs, DeleteRelease(p)
       PROVE  TypeOK'
    BY <1>28, GotoType DEF DeleteRelease, ReleaseIngest
  <1>29. ASSUME NEW p \in Procs, DeleteRow(p)
       PROVE  TypeOK'
    BY <1>29, GotoType DEF DeleteRow
  <1>30. ASSUME NEW p \in Procs, DeleteRowGone(p)
       PROVE  TypeOK'
    BY <1>30, LeaveType DEF DeleteRowGone
  <1>31. ASSUME NEW p \in Procs, DeleteSink(p)
       PROVE  TypeOK'
    BY <1>31, LeaveType DEF DeleteSink, SetSink
  <1>32. ASSUME NEW r \in Runs, Hear(r)
       PROVE  TypeOK'
    BY <1>32 DEF Hear
  <1>33. ASSUME NEW r \in Runs, Caption(r)
       PROVE  TypeOK'
    BY <1>33 DEF Caption
  <1>34. ASSUME NEW r \in Runs, FinishCancel(r)
       PROVE  TypeOK'
    BY <1>34 DEF FinishCancel
  <1>35. ASSUME NEW r \in Runs, Finished(r)
       PROVE  TypeOK'
    BY <1>35 DEF Finished
  <1>36. ASSUME NEW r \in Runs, FinishedRelease(r)
       PROVE  TypeOK'
    BY <1>36 DEF FinishedRelease, ReleaseIngest
  <1>37. ASSUME NEW r \in Runs, FinishedSink(r)
       PROVE  TypeOK'
    BY <1>37 DEF FinishedSink, SetSink
  <1>38. ASSUME NEW r \in Runs, FinishedPublish(r)
       PROVE  TypeOK'
    BY <1>38 DEF FinishedPublish, Publish, Status
  <1>39. ASSUME NEW r \in Runs, FinishClose(r)
       PROVE  TypeOK'
    BY <1>39 DEF FinishClose
  <1>40. ASSUME NEW r \in Runs, NEW isFatal \in BOOLEAN, PipelineEnds(r, isFatal)
       PROVE  TypeOK'
    BY <1>40 DEF PipelineEnds
  <1>41. ASSUME NEW s \in Sessions, Pause(s)
       PROVE  TypeOK'
    BY <1>41 DEF Pause, Publish
  <1>42. ASSUME NEW s \in Sessions, CreateSession(s)
       PROVE  TypeOK'
    BY <1>42 DEF CreateSession
  <1>43. ASSUME CloseManager
       PROVE  TypeOK'
    BY <1>43 DEF CloseManager, Closer
  <1>44. ASSUME ServerRestart
       PROVE  TypeOK'
    <2>1. boots' \in 0 .. MaxBoots
      BY <1>44, ManagerAssumption DEF ServerRestart
    <2>2. req' \in [Procs -> Requests]
      BY <1>44 DEF ServerRestart, Idle
    <2>3. task' \in [Runs -> Tasks] /\ ctx' \in [Runs -> {"live", "srcDone", "done"}]
      BY <1>44 DEF ServerRestart
    <2>4. done' \subseteq Runs /\ shut' \subseteq Runs
      BY <1>44 DEF ServerRestart
    <2>5. QED
      BY <1>44, <2>1, <2>2, <2>3, <2>4 DEF ServerRestart, Absent
  <1>45. ASSUME UNCHANGED vars
       PROVE  TypeOK'
    BY <1>45 DEF vars
  <1> HIDE DEF TypeOK, Links, Requests, PCs, States, Tasks, NoRun, WithRun
  <1>46. QED
    BY <1>1, <1>2, <1>3, <1>4, <1>5, <1>6, <1>7, <1>8, <1>9, <1>10,
       <1>11, <1>12, <1>13, <1>14, <1>15, <1>16, <1>17, <1>18, <1>19, <1>20,
       <1>21, <1>22, <1>23, <1>24, <1>25, <1>26, <1>27, <1>28, <1>29, <1>30,
       <1>31, <1>32, <1>33, <1>34, <1>35, <1>36, <1>37, <1>38, <1>39, <1>40,
       <1>41, <1>42, <1>43, <1>44, <1>45
    DEF Next, ProcStep, RunStep, FinishStep

LEMMA LinksStep ==
  TypeOK /\ Links /\ [Next]_vars => Links'
  <1> SUFFICES ASSUME TypeOK, Links, [Next]_vars PROVE Links'
    OBVIOUS

  <1> USE DEF TypeOK, Links, Requests, PCs, States, Tasks, NoRun, WithRun,
            Runs, Goto, GotoWith, Leave, Idle, mgrVars, runVars, dataVars, svcVars
  <1>1. ASSUME NEW p \in Clients, NEW s \in Sessions,
              NEW label \in {"start.lock", "stop.lock", "delete.forget"},
              Lookup(p, s, label)
       PROVE  Links'
    BY <1>1 DEF Lookup, Procs
  <1>2. ASSUME NEW p \in Procs, NEW r \in Runs, Register(p, r)
       PROVE  Links'
    BY <1>2 DEF Register, Fresh, Cleared, CanStart
  <1>3. ASSUME NEW p \in Procs, NEW readFails \in BOOLEAN, NEW given \in BOOLEAN,
              Launch(p, readFails, given)
       PROVE  Links'
    BY <1>3 DEF Launch, Place
  <1>4. ASSUME NEW p \in Procs, StartRefused(p)
       PROVE  Links'
    BY <1>4 DEF StartRefused
  <1>5. ASSUME NEW p \in Procs, Resume(p)
       PROVE  Links'
    BY <1>5 DEF Resume, Publish
  <1>6. ASSUME NEW p \in Procs, AnnounceStarting(p)
       PROVE  Links'
    BY <1>6 DEF AnnounceStarting, Publish
  <1>7. ASSUME NEW p \in Procs, AnnounceLive(p)
       PROVE  Links'
    BY <1>7 DEF AnnounceLive, Publish
  <1>8. ASSUME NEW p \in Procs, LaunchNoProvider(p)
       PROVE  Links'
    BY <1>8 DEF LaunchNoProvider
  <1>9. ASSUME NEW p \in Procs, LaunchHook(p)
       PROVE  Links'
    BY <1>9 DEF LaunchHook, SetSink
  <1>10. ASSUME NEW p \in Procs, LaunchPipeline(p)
       PROVE  Links'
    <2>1. st[req[p].r] # "unused"
      BY <1>10 DEF LaunchPipeline
    <2>2. \A r \in Runs : task'[r] # "none" => st'[r] # "unused"
      BY <1>10, <2>1 DEF LaunchPipeline
    <2>3. QED
      BY <1>10, <2>2 DEF LaunchPipeline
  <1>11. ASSUME NEW p \in Procs, LaunchAborts(p)
       PROVE  Links'
    BY <1>11 DEF LaunchAborts
  <1>12. ASSUME NEW p \in Procs, GoLive(p)
       PROVE  Links'
    BY <1>12 DEF GoLive, LiveUnlessStopped
  <1>13. ASSUME NEW p \in Procs, FailHook(p)
       PROVE  Links'
    BY <1>13 DEF FailHook, SetSink
  <1>14. ASSUME NEW p \in Procs, FailUnregister(p)
       PROVE  Links'
    BY <1>14 DEF FailUnregister
  <1>15. ASSUME NEW p \in Procs, FailPublish(p)
       PROVE  Links'
    BY <1>15 DEF FailPublish, Publish, Status
  <1>16. ASSUME NEW p \in Procs, CloserLookup(p)
       PROVE  Links'
    BY <1>16 DEF CloserLookup
  <1>17. ASSUME NEW p \in Procs, CloserGone(p)
       PROVE  Links'
    BY <1>17 DEF CloserGone
  <1>18. ASSUME NEW p \in Procs, StopIdle(p)
       PROVE  Links'
    BY <1>18 DEF StopIdle, Cleared
  <1>19. ASSUME NEW p \in Procs, StopIdlePublish(p)
       PROVE  Links'
    BY <1>19 DEF StopIdlePublish, Publish, Status
  <1>20. ASSUME NEW p \in Procs, StopLock(p)
       PROVE  Links'
    BY <1>20 DEF StopLock
  <1>21. ASSUME NEW p \in Procs, StopJoin(p)
       PROVE  Links'
    BY <1>21 DEF StopJoin
  <1>22. ASSUME NEW p \in Procs, StopSignal(p)
       PROVE  Links'
    BY <1>22 DEF StopSignal, Publish
  <1>23. ASSUME NEW p \in Procs, StopDone(p)
       PROVE  Links'
    BY <1>23 DEF StopDone
  <1>24. ASSUME NEW p \in Procs, StopTimesOut(p)
       PROVE  Links'
    BY <1>24 DEF StopTimesOut
  <1>25. ASSUME NEW p \in Procs, StopAbandoned(p)
       PROVE  Links'
    BY <1>25 DEF StopAbandoned
  <1>26. ASSUME NEW p \in Procs, DeleteRefused(p)
       PROVE  Links'
    BY <1>26 DEF DeleteRefused
  <1>27. ASSUME NEW p \in Procs, DeleteForget(p)
       PROVE  Links'
    BY <1>27 DEF DeleteForget, Cleared
  <1>28. ASSUME NEW p \in Procs, DeleteRelease(p)
       PROVE  Links'
    BY <1>28 DEF DeleteRelease, ReleaseIngest
  <1>29. ASSUME NEW p \in Procs, DeleteRow(p)
       PROVE  Links'
    BY <1>29 DEF DeleteRow
  <1>30. ASSUME NEW p \in Procs, DeleteRowGone(p)
       PROVE  Links'
    BY <1>30 DEF DeleteRowGone
  <1>31. ASSUME NEW p \in Procs, DeleteSink(p)
       PROVE  Links'
    BY <1>31 DEF DeleteSink, SetSink
  <1>32. ASSUME NEW r \in Runs, Hear(r)
       PROVE  Links'
    BY <1>32 DEF Hear
  <1>33. ASSUME NEW r \in Runs, Caption(r)
       PROVE  Links'
    BY <1>33 DEF Caption
  <1>34. ASSUME NEW r \in Runs, FinishCancel(r)
       PROVE  Links'
    BY <1>34 DEF FinishCancel
  <1>35. ASSUME NEW r \in Runs, Finished(r)
       PROVE  Links'
    BY <1>35 DEF Finished
  <1>36. ASSUME NEW r \in Runs, FinishedRelease(r)
       PROVE  Links'
    BY <1>36 DEF FinishedRelease, ReleaseIngest
  <1>37. ASSUME NEW r \in Runs, FinishedSink(r)
       PROVE  Links'
    BY <1>37 DEF FinishedSink, SetSink
  <1>38. ASSUME NEW r \in Runs, FinishedPublish(r)
       PROVE  Links'
    BY <1>38 DEF FinishedPublish, Publish, Status
  <1>39. ASSUME NEW r \in Runs, FinishClose(r)
       PROVE  Links'
    BY <1>39 DEF FinishClose
  <1>40. ASSUME NEW r \in Runs, NEW isFatal \in BOOLEAN, PipelineEnds(r, isFatal)
       PROVE  Links'
    BY <1>40 DEF PipelineEnds
  <1>41. ASSUME NEW s \in Sessions, Pause(s)
       PROVE  Links'
    BY <1>41 DEF Pause, Publish
  <1>42. ASSUME NEW s \in Sessions, CreateSession(s)
       PROVE  Links'
    BY <1>42 DEF CreateSession
  <1>43. ASSUME CloseManager
       PROVE  Links'
    BY <1>43 DEF CloseManager, Closer
  <1>44. ASSUME ServerRestart
       PROVE  Links'
    BY <1>44 DEF ServerRestart, Idle
  <1>45. ASSUME UNCHANGED vars
       PROVE  Links'
    BY <1>45 DEF vars
  <1> HIDE DEF TypeOK, Links, Requests, PCs, States, Tasks, NoRun, WithRun, Runs,
            Goto, GotoWith, Leave, Idle
  <1>46. QED
    BY <1>1, <1>2, <1>3, <1>4, <1>5, <1>6, <1>7, <1>8, <1>9, <1>10,
       <1>11, <1>12, <1>13, <1>14, <1>15, <1>16, <1>17, <1>18, <1>19, <1>20,
       <1>21, <1>22, <1>23, <1>24, <1>25, <1>26, <1>27, <1>28, <1>29, <1>30,
       <1>31, <1>32, <1>33, <1>34, <1>35, <1>36, <1>37, <1>38, <1>39, <1>40,
       <1>41, <1>42, <1>43, <1>44, <1>45
    DEF Next, ProcStep, RunStep, FinishStep

-----------------------------------------------------------------------------
(* One request launches a run, one run has the pipeline *)

\* OnePipeline is not inductive: a pipeline starts in LaunchPipeline, where
\* LaunchOwnsRun says that the run is still the registered one.
Ownership == LaunchOwnsRun /\ OnePipeline

LEMMA OwnershipStep ==
  TypeOK /\ Links /\ Ownership /\ [Next]_vars => Ownership'
  <1> SUFFICES ASSUME TypeOK, Links, Ownership, [Next]_vars PROVE Ownership'
    OBVIOUS

  <1> USE DEF TypeOK, Links, Ownership, LaunchOwnsRun, Launching,
            OnePipeline, Running, Requests, PCs, States, Tasks, NoRun, WithRun, Runs,
            Goto, GotoWith, Leave, Idle, mgrVars, runVars, dataVars, svcVars
  <1>1. ASSUME NEW p \in Clients, NEW s \in Sessions,
              NEW label \in {"start.lock", "stop.lock", "delete.forget"},
              Lookup(p, s, label)
       PROVE  Ownership'
    BY <1>1 DEF Lookup, Procs
  <1>2. ASSUME NEW p \in Procs, NEW r \in Runs, Register(p, r)
       PROVE  Ownership'
    <2>1. /\ task[r] = "none"
          /\ \A s \in Sessions : runs[s] # r
          /\ \A q \in Procs : Launching(q) => req[q].r # r
      BY <1>2 DEF Register, Fresh
    <2>2. ASSUME NEW q \in Procs, Launching(q) PROVE req[q].s # req[p].s
      <3>1. req[q].at \in WithRun
        BY <2>2
      <3>2. runs[req[q].s] \in Runs
        BY <2>2, <3>1
      <3>3. QED
        BY <1>2, <3>2 DEF Register, CanStart
    <2>3. req[p].s \in Sessions
      BY <1>2 DEF Register
    <2>4. LaunchOwnsRun'
      BY <1>2, <2>1, <2>2, <2>3 DEF Register
    <2>5. OnePipeline'
      BY <1>2, <2>1, <2>3 DEF Register, CanStart
    <2>6. QED
      BY <2>4, <2>5
  <1>3. ASSUME NEW p \in Procs, NEW readFails \in BOOLEAN, NEW given \in BOOLEAN,
              Launch(p, readFails, given)
       PROVE  Ownership'
    BY <1>3 DEF Launch, Place
  <1>4. ASSUME NEW p \in Procs, StartRefused(p)
       PROVE  Ownership'
    BY <1>4 DEF StartRefused
  <1>5. ASSUME NEW p \in Procs, Resume(p)
       PROVE  Ownership'
    BY <1>5 DEF Resume, Publish
  <1>6. ASSUME NEW p \in Procs, AnnounceStarting(p)
       PROVE  Ownership'
    BY <1>6 DEF AnnounceStarting, Publish
  <1>7. ASSUME NEW p \in Procs, AnnounceLive(p)
       PROVE  Ownership'
    BY <1>7 DEF AnnounceLive, Publish
  <1>8. ASSUME NEW p \in Procs, LaunchNoProvider(p)
       PROVE  Ownership'
    BY <1>8 DEF LaunchNoProvider
  <1>9. ASSUME NEW p \in Procs, LaunchHook(p)
       PROVE  Ownership'
    BY <1>9 DEF LaunchHook, SetSink
  <1>10. ASSUME NEW p \in Procs, LaunchPipeline(p)
       PROVE  Ownership'
    BY <1>10 DEF LaunchPipeline
  <1>11. ASSUME NEW p \in Procs, LaunchAborts(p)
       PROVE  Ownership'
    BY <1>11 DEF LaunchAborts
  <1>12. ASSUME NEW p \in Procs, GoLive(p)
       PROVE  Ownership'
    BY <1>12 DEF GoLive, LiveUnlessStopped
  <1>13. ASSUME NEW p \in Procs, FailHook(p)
       PROVE  Ownership'
    BY <1>13 DEF FailHook, SetSink
  <1>14. ASSUME NEW p \in Procs, FailUnregister(p)
       PROVE  Ownership'
    BY <1>14 DEF FailUnregister
  <1>15. ASSUME NEW p \in Procs, FailPublish(p)
       PROVE  Ownership'
    BY <1>15 DEF FailPublish, Publish, Status
  <1>16. ASSUME NEW p \in Procs, CloserLookup(p)
       PROVE  Ownership'
    BY <1>16 DEF CloserLookup
  <1>17. ASSUME NEW p \in Procs, CloserGone(p)
       PROVE  Ownership'
    BY <1>17 DEF CloserGone
  <1>18. ASSUME NEW p \in Procs, StopIdle(p)
       PROVE  Ownership'
    BY <1>18 DEF StopIdle, Cleared
  <1>19. ASSUME NEW p \in Procs, StopIdlePublish(p)
       PROVE  Ownership'
    BY <1>19 DEF StopIdlePublish, Publish, Status
  <1>20. ASSUME NEW p \in Procs, StopLock(p)
       PROVE  Ownership'
    BY <1>20 DEF StopLock
  <1>21. ASSUME NEW p \in Procs, StopJoin(p)
       PROVE  Ownership'
    BY <1>21 DEF StopJoin
  <1>22. ASSUME NEW p \in Procs, StopSignal(p)
       PROVE  Ownership'
    BY <1>22 DEF StopSignal, Publish
  <1>23. ASSUME NEW p \in Procs, StopDone(p)
       PROVE  Ownership'
    BY <1>23 DEF StopDone
  <1>24. ASSUME NEW p \in Procs, StopTimesOut(p)
       PROVE  Ownership'
    BY <1>24 DEF StopTimesOut
  <1>25. ASSUME NEW p \in Procs, StopAbandoned(p)
       PROVE  Ownership'
    BY <1>25 DEF StopAbandoned
  <1>26. ASSUME NEW p \in Procs, DeleteRefused(p)
       PROVE  Ownership'
    BY <1>26 DEF DeleteRefused
  <1>27. ASSUME NEW p \in Procs, DeleteForget(p)
       PROVE  Ownership'
    BY <1>27 DEF DeleteForget, Cleared
  <1>28. ASSUME NEW p \in Procs, DeleteRelease(p)
       PROVE  Ownership'
    BY <1>28 DEF DeleteRelease, ReleaseIngest
  <1>29. ASSUME NEW p \in Procs, DeleteRow(p)
       PROVE  Ownership'
    BY <1>29 DEF DeleteRow
  <1>30. ASSUME NEW p \in Procs, DeleteRowGone(p)
       PROVE  Ownership'
    BY <1>30 DEF DeleteRowGone
  <1>31. ASSUME NEW p \in Procs, DeleteSink(p)
       PROVE  Ownership'
    BY <1>31 DEF DeleteSink, SetSink
  <1>32. ASSUME NEW r \in Runs, Hear(r)
       PROVE  Ownership'
    BY <1>32 DEF Hear
  <1>33. ASSUME NEW r \in Runs, Caption(r)
       PROVE  Ownership'
    BY <1>33 DEF Caption
  <1>34. ASSUME NEW r \in Runs, FinishCancel(r)
       PROVE  Ownership'
    BY <1>34 DEF FinishCancel
  <1>35. ASSUME NEW r \in Runs, Finished(r)
       PROVE  Ownership'
    BY <1>35 DEF Finished
  <1>36. ASSUME NEW r \in Runs, FinishedRelease(r)
       PROVE  Ownership'
    BY <1>36 DEF FinishedRelease, ReleaseIngest
  <1>37. ASSUME NEW r \in Runs, FinishedSink(r)
       PROVE  Ownership'
    BY <1>37 DEF FinishedSink, SetSink
  <1>38. ASSUME NEW r \in Runs, FinishedPublish(r)
       PROVE  Ownership'
    BY <1>38 DEF FinishedPublish, Publish, Status
  <1>39. ASSUME NEW r \in Runs, FinishClose(r)
       PROVE  Ownership'
    BY <1>39 DEF FinishClose
  <1>40. ASSUME NEW r \in Runs, NEW isFatal \in BOOLEAN, PipelineEnds(r, isFatal)
       PROVE  Ownership'
    BY <1>40 DEF PipelineEnds
  <1>41. ASSUME NEW s \in Sessions, Pause(s)
       PROVE  Ownership'
    BY <1>41 DEF Pause, Publish
  <1>42. ASSUME NEW s \in Sessions, CreateSession(s)
       PROVE  Ownership'
    BY <1>42 DEF CreateSession
  <1>43. ASSUME CloseManager
       PROVE  Ownership'
    BY <1>43 DEF CloseManager, Closer
  <1>44. ASSUME ServerRestart
       PROVE  Ownership'
    BY <1>44 DEF ServerRestart, Idle
  <1>45. ASSUME UNCHANGED vars
       PROVE  Ownership'
    BY <1>45 DEF vars
  <1> HIDE DEF TypeOK, Links, Ownership, LaunchOwnsRun, Launching, OnePipeline,
            Running, Requests, PCs, States, Tasks, NoRun, WithRun, Runs, Goto,
            GotoWith, Leave, Idle
  <1>46. QED
    BY <1>1, <1>2, <1>3, <1>4, <1>5, <1>6, <1>7, <1>8, <1>9, <1>10,
       <1>11, <1>12, <1>13, <1>14, <1>15, <1>16, <1>17, <1>18, <1>19, <1>20,
       <1>21, <1>22, <1>23, <1>24, <1>25, <1>26, <1>27, <1>28, <1>29, <1>30,
       <1>31, <1>32, <1>33, <1>34, <1>35, <1>36, <1>37, <1>38, <1>39, <1>40,
       <1>41, <1>42, <1>43, <1>44, <1>45
    DEF Next, ProcStep, RunStep, FinishStep

-----------------------------------------------------------------------------
(* Nothing is left behind *)

\* DoneSettled with what keeps it: a run that has begun to finish is
\* cancelled, and a run whose done is closed was never launched further.
Settled ==
  /\ DoneSettled
  /\ NoFailedWhileRunning
  /\ \A r \in Runs :
       task[r] \in {"finished", "release", "sink", "publish", "close"}
         => ctx[r] = "done"
  /\ \A r \in done : st[r] # "unused"
  /\ \A p \in Procs :
       req[p].at \in {"start.changed", "start.launch", "start.hook", "start.source"}
         => req[p].r \notin done

LEMMA SettledStep ==
  TypeOK /\ Links /\ Ownership /\ Settled /\ [Next]_vars => Settled'
  <1> SUFFICES ASSUME TypeOK, Links, Ownership, Settled, [Next]_vars PROVE Settled'
    OBVIOUS

  <1> USE DEF TypeOK, Links, Ownership, LaunchOwnsRun, Launching,
            OnePipeline, Running, Settled, DoneSettled, NoFailedWhileRunning,
            Requests, PCs, States, Tasks, NoRun, WithRun, Runs, Goto, GotoWith, Leave,
            Idle, mgrVars, runVars, dataVars, svcVars
  <1>1. ASSUME NEW p \in Clients, NEW s \in Sessions,
              NEW label \in {"start.lock", "stop.lock", "delete.forget"},
              Lookup(p, s, label)
       PROVE  Settled'
    BY <1>1 DEF Lookup, Procs
  <1>2. ASSUME NEW p \in Procs, NEW r \in Runs, Register(p, r)
       PROVE  Settled'
    BY <1>2 DEF Register, Fresh, Cleared, CanStart
  <1>3. ASSUME NEW p \in Procs, NEW readFails \in BOOLEAN, NEW given \in BOOLEAN,
              Launch(p, readFails, given)
       PROVE  Settled'
    BY <1>3 DEF Launch, Place
  <1>4. ASSUME NEW p \in Procs, StartRefused(p)
       PROVE  Settled'
    BY <1>4 DEF StartRefused
  <1>5. ASSUME NEW p \in Procs, Resume(p)
       PROVE  Settled'
    BY <1>5 DEF Resume, Publish
  <1>6. ASSUME NEW p \in Procs, AnnounceStarting(p)
       PROVE  Settled'
    BY <1>6 DEF AnnounceStarting, Publish
  <1>7. ASSUME NEW p \in Procs, AnnounceLive(p)
       PROVE  Settled'
    BY <1>7 DEF AnnounceLive, Publish
  <1>8. ASSUME NEW p \in Procs, LaunchNoProvider(p)
       PROVE  Settled'
    BY <1>8 DEF LaunchNoProvider
  <1>9. ASSUME NEW p \in Procs, LaunchHook(p)
       PROVE  Settled'
    BY <1>9 DEF LaunchHook, SetSink
  <1>10. ASSUME NEW p \in Procs, LaunchPipeline(p)
       PROVE  Settled'
    BY <1>10 DEF LaunchPipeline
  <1>11. ASSUME NEW p \in Procs, LaunchAborts(p)
       PROVE  Settled'
    BY SMTT(30), <1>11 DEF LaunchAborts
  <1>12. ASSUME NEW p \in Procs, GoLive(p)
       PROVE  Settled'
    BY <1>12 DEF GoLive, LiveUnlessStopped
  <1>13. ASSUME NEW p \in Procs, FailHook(p)
       PROVE  Settled'
    BY <1>13 DEF FailHook, SetSink
  <1>14. ASSUME NEW p \in Procs, FailUnregister(p)
       PROVE  Settled'
    BY <1>14 DEF FailUnregister
  <1>15. ASSUME NEW p \in Procs, FailPublish(p)
       PROVE  Settled'
    BY <1>15 DEF FailPublish, Publish, Status
  <1>16. ASSUME NEW p \in Procs, CloserLookup(p)
       PROVE  Settled'
    BY <1>16 DEF CloserLookup
  <1>17. ASSUME NEW p \in Procs, CloserGone(p)
       PROVE  Settled'
    BY <1>17 DEF CloserGone
  <1>18. ASSUME NEW p \in Procs, StopIdle(p)
       PROVE  Settled'
    BY <1>18 DEF StopIdle, Cleared
  <1>19. ASSUME NEW p \in Procs, StopIdlePublish(p)
       PROVE  Settled'
    BY <1>19 DEF StopIdlePublish, Publish, Status
  <1>20. ASSUME NEW p \in Procs, StopLock(p)
       PROVE  Settled'
    BY <1>20 DEF StopLock
  <1>21. ASSUME NEW p \in Procs, StopJoin(p)
       PROVE  Settled'
    BY <1>21 DEF StopJoin
  <1>22. ASSUME NEW p \in Procs, StopSignal(p)
       PROVE  Settled'
    BY <1>22 DEF StopSignal, Publish
  <1>23. ASSUME NEW p \in Procs, StopDone(p)
       PROVE  Settled'
    BY <1>23 DEF StopDone
  <1>24. ASSUME NEW p \in Procs, StopTimesOut(p)
       PROVE  Settled'
    BY <1>24 DEF StopTimesOut
  <1>25. ASSUME NEW p \in Procs, StopAbandoned(p)
       PROVE  Settled'
    BY <1>25 DEF StopAbandoned
  <1>26. ASSUME NEW p \in Procs, DeleteRefused(p)
       PROVE  Settled'
    BY <1>26 DEF DeleteRefused
  <1>27. ASSUME NEW p \in Procs, DeleteForget(p)
       PROVE  Settled'
    BY <1>27 DEF DeleteForget, Cleared
  <1>28. ASSUME NEW p \in Procs, DeleteRelease(p)
       PROVE  Settled'
    BY <1>28 DEF DeleteRelease, ReleaseIngest
  <1>29. ASSUME NEW p \in Procs, DeleteRow(p)
       PROVE  Settled'
    BY <1>29 DEF DeleteRow
  <1>30. ASSUME NEW p \in Procs, DeleteRowGone(p)
       PROVE  Settled'
    BY <1>30 DEF DeleteRowGone
  <1>31. ASSUME NEW p \in Procs, DeleteSink(p)
       PROVE  Settled'
    BY <1>31 DEF DeleteSink, SetSink
  <1>32. ASSUME NEW r \in Runs, Hear(r)
       PROVE  Settled'
    BY <1>32 DEF Hear
  <1>33. ASSUME NEW r \in Runs, Caption(r)
       PROVE  Settled'
    BY <1>33 DEF Caption
  <1>34. ASSUME NEW r \in Runs, FinishCancel(r)
       PROVE  Settled'
    BY <1>34 DEF FinishCancel
  <1>35. ASSUME NEW r \in Runs, Finished(r)
       PROVE  Settled'
    BY <1>35 DEF Finished
  <1>36. ASSUME NEW r \in Runs, FinishedRelease(r)
       PROVE  Settled'
    BY <1>36 DEF FinishedRelease, ReleaseIngest
  <1>37. ASSUME NEW r \in Runs, FinishedSink(r)
       PROVE  Settled'
    BY <1>37 DEF FinishedSink, SetSink
  <1>38. ASSUME NEW r \in Runs, FinishedPublish(r)
       PROVE  Settled'
    BY <1>38 DEF FinishedPublish, Publish, Status
  <1>39. ASSUME NEW r \in Runs, FinishClose(r)
       PROVE  Settled'
    BY <1>39 DEF FinishClose
  <1>40. ASSUME NEW r \in Runs, NEW isFatal \in BOOLEAN, PipelineEnds(r, isFatal)
       PROVE  Settled'
    BY <1>40 DEF PipelineEnds
  <1>41. ASSUME NEW s \in Sessions, Pause(s)
       PROVE  Settled'
    BY <1>41 DEF Pause, Publish
  <1>42. ASSUME NEW s \in Sessions, CreateSession(s)
       PROVE  Settled'
    BY <1>42 DEF CreateSession
  <1>43. ASSUME CloseManager
       PROVE  Settled'
    BY <1>43 DEF CloseManager, Closer
  <1>44. ASSUME ServerRestart
       PROVE  Settled'
    BY <1>44 DEF ServerRestart, Idle
  <1>45. ASSUME UNCHANGED vars
       PROVE  Settled'
    BY <1>45 DEF vars
  <1> HIDE DEF TypeOK, Links, Ownership, LaunchOwnsRun, Launching, OnePipeline,
            Running, Settled, DoneSettled, NoFailedWhileRunning, Requests,
            PCs, States, Tasks, NoRun, WithRun, Runs, Goto, GotoWith, Leave,
            Idle
  <1>46. QED
    BY <1>1, <1>2, <1>3, <1>4, <1>5, <1>6, <1>7, <1>8, <1>9, <1>10,
       <1>11, <1>12, <1>13, <1>14, <1>15, <1>16, <1>17, <1>18, <1>19, <1>20,
       <1>21, <1>22, <1>23, <1>24, <1>25, <1>26, <1>27, <1>28, <1>29, <1>30,
       <1>31, <1>32, <1>33, <1>34, <1>35, <1>36, <1>37, <1>38, <1>39, <1>40,
       <1>41, <1>42, <1>43, <1>44, <1>45
    DEF Next, ProcStep, RunStep, FinishStep

-----------------------------------------------------------------------------
(* Where a run starts on the session clock *)

\* Every caption stored by an earlier run of the session ends before q starts.
AfterEarlier(q) ==
  \A r \in Runs :
    (r < q /\ own[r] = own[q] /\ own[r] \notin blind)
      => saved[r] = 0 \/ saved[r] < offset[q]

\* ClockSound with what keeps it.  Runs are numbered in the order they start
\* and the registered run is its session's latest, so no earlier run is left
\* to store a caption; a run keeps its captions within its audio; and a
\* session clock that is kept lies after what the session's ended runs stored.
Clocks ==
  /\ \A q, r \in Runs : q < r /\ st[r] # "unused" => st[q] # "unused"
  /\ \A s \in Sessions, q \in Runs :
       runs[s] # NoRun /\ own[q] = s /\ st[q] # "unused" => q <= runs[s]
  /\ \A r \in Runs : /\ offset[r] <= end[r] /\ saved[r] <= end[r]
                     /\ task[r] = "none" => saved[r] = 0
  /\ \A q \in Runs : Placed(q) => AfterEarlier(q)
  /\ \A p \in Procs :
       req[p].at \in {"start.hook", "start.source"} => AfterEarlier(req[p].r)
  /\ \A s \in Sessions \ blind : clocks[s] # Absent =>
       \A r \in Runs : own[r] = s /\ ~Running(r) => saved[r] <= clocks[s]

LEMMA ClocksStep ==
  TypeOK /\ Links /\ Ownership /\ Clocks /\ [Next]_vars => Clocks'
  <1> SUFFICES ASSUME TypeOK, Links, Ownership, Clocks, [Next]_vars PROVE Clocks'
    OBVIOUS
  <1> USE DEF TypeOK, Links, Ownership, LaunchOwnsRun, Launching, OnePipeline,
            Running, Clocks, AfterEarlier, Placed, Requests, PCs, States,
            Tasks, NoRun, WithRun, Runs, Goto, GotoWith, Leave, Idle, mgrVars,
            runVars, dataVars, svcVars
  <1>1. ASSUME NEW p \in Clients, NEW s \in Sessions,
              NEW label \in {"start.lock", "stop.lock", "delete.forget"},
              Lookup(p, s, label)
       PROVE  Clocks'
    BY <1>1 DEF Lookup, Procs
  <1>2. ASSUME NEW p \in Procs, NEW r \in Runs, Register(p, r)
       PROVE  Clocks'
    <2>1. \A q \in Runs : st[q] # "unused" => q < r
      BY <1>2 DEF Register, Fresh
    <2>2. runs[req[p].s] = NoRun /\ st[r] = "unused"
      BY <1>2 DEF Register, Fresh, CanStart
    <2>3. \A q \in Runs : AfterEarlier(q) /\ q # r /\ st[q] # "unused" => AfterEarlier(q)'
      BY <1>2, <2>1 DEF Register
    <2>4. \A q \in Runs : Placed(q)' => Placed(q) /\ q # r /\ st[q] # "unused"
      BY <1>2, <2>2 DEF Register
    <2>5. \A q \in Procs : req'[q].at \in {"start.hook", "start.source"} =>
            req'[q] = req[q] /\ req[q].r \in Runs /\ st[req[q].r] # "unused"
      <3>1. req'[p].at = "start.changed" /\ \A q \in Procs \ {p} : req'[q] = req[q]
        BY <1>2 DEF Register
      <3>2. QED
        BY <3>1
    <2>6. \A s \in Sessions \ blind : clocks[s] # Absent =>
            \A q \in Runs : own'[q] = s /\ ~Running(q)' => saved[q] <= clocks[s]
      BY <1>2, <2>2 DEF Register, Absent
    <2>7. \A q, t \in Runs : q < t /\ st'[t] # "unused" => st'[q] # "unused"
      BY <1>2, <2>2 DEF Register, Fresh
    <2>8. \A t \in Sessions, q \in Runs :
            runs'[t] # NoRun /\ own'[q] = t /\ st'[q] # "unused" => q <= runs'[t]
      BY <1>2, <2>1, <2>2 DEF Register
    <2>9. \A q \in Runs : Placed(q)' => AfterEarlier(q)'
      BY <2>3, <2>4
    <2>10. \A q \in Procs : req'[q].at \in {"start.hook", "start.source"} =>
             AfterEarlier(req[q].r)'
      <3>1. TAKE q \in Procs
      <3>2. HAVE req'[q].at \in {"start.hook", "start.source"}
      <3>3. req[q].at \in {"start.hook", "start.source"} /\ req[q].r \in Runs
            /\ st[req[q].r] # "unused" /\ req'[q].r = req[q].r
        BY <2>5, <3>2
      <3>4. PICK x \in Runs : x = req[q].r
        BY <3>3
      <3>5. AfterEarlier(x) /\ x # r /\ st[x] # "unused"
        BY <2>2, <3>3, <3>4
      <3>6. AfterEarlier(x)'
        BY <2>3, <3>5
      <3>7. QED
        BY <3>3, <3>4, <3>6
    <2>11. /\ blind' = blind /\ clocks' = clocks /\ offset' = offset
           /\ end' = end /\ saved' = saved /\ task' = task
      BY <1>2 DEF Register
    <2>12. QED
      BY <2>6, <2>7, <2>8, <2>9, <2>10, <2>11
  <1>3. ASSUME NEW p \in Procs, NEW readFails \in BOOLEAN, NEW given \in BOOLEAN,
              Launch(p, readFails, given)
       PROVE  Clocks'
    <2> DEFINE s == req[p].s
             r == req[p].r
    <2>1. /\ r \in Runs /\ s \in Sessions /\ own[r] = s /\ runs[s] = r
          /\ task[r] = "none" /\ saved[r] = 0
      BY <1>3 DEF Launch
    <2>2. PICK past \in Past(s) :
            LET o == IF readFails THEN 0 ELSE Origin(past) IN
            /\ offset' = [offset EXCEPT ![r] = o]
            /\ end' = [end EXCEPT ![r] = o]
      BY <1>3 DEF Launch, Place
    <2>3. past \in Nat /\ offset'[r] \in Nat
      <3>1. past \in Nat
        <4>1. CASE clocks[s] # Absent
          BY <2>1, <2>2, <4>1 DEF Past, Absent
        <4>2. CASE clocks[s] = Absent
          BY <2>1, <2>2, <4>2 DEF Past, Ends
        <4>3. QED
          BY <4>1, <4>2
      <3>2. QED
        BY <2>1, <2>2, <3>1 DEF Origin
    <2>4. ASSUME s \notin blind'
         PROVE  \A q \in Runs : q # r /\ own[q] = s => saved[q] <= past
      <3>1. ~readFails /\ s \notin blind
        BY <1>3, <2>4 DEF Launch, Place
      <3>2. \A q \in Runs : q # r /\ own[q] = s => ~Running(q)
        BY <2>1
      <3>3. QED
        BY <2>1, <3>1, <3>2 DEF Past, Ends
    <2>5. \A q \in Runs : q = r => AfterEarlier(q)'
      BY <1>3, <2>1, <2>2, <2>3, <2>4 DEF Launch, Place, Origin
    <2>6. \A q \in Runs : q # r /\ AfterEarlier(q) => AfterEarlier(q)'
      BY <1>3, <2>1, <2>2 DEF Launch, Place
    <2>7. \A q \in Procs : q # p => req'[q] = req[q]
      BY <1>3 DEF Launch
    <2>8. \A q \in Runs :
            /\ offset'[q] <= end'[q] /\ saved'[q] <= end'[q]
            /\ task'[q] = "none" => saved'[q] = 0
      BY <1>3, <2>1, <2>2, <2>3 DEF Launch
    <2>9. \A q \in Runs : Placed(q)' => q # r /\ AfterEarlier(q)
      BY <1>3, <2>1 DEF Launch
    <2>10. \A q \in Procs : req'[q].at \in {"start.hook", "start.source"} =>
             AfterEarlier(req[q].r)'
      <3>1. TAKE q \in Procs
      <3>2. HAVE req'[q].at \in {"start.hook", "start.source"}
      <3>3. CASE q = p
        <4>1. req'[p].r = r
          BY <1>3 DEF Launch
        <4>2. QED
          BY <2>1, <2>5, <3>3, <4>1
      <3>4. CASE q # p
        <4>1. /\ req[q].at \in {"start.hook", "start.source"}
              /\ req[q].r \in Runs /\ req'[q].r = req[q].r
          BY <2>7, <3>2, <3>4
        <4>2. PICK x \in Runs : x = req[q].r
          BY <4>1
        <4>3. x # r /\ AfterEarlier(x)
          BY <1>3, <3>4, <4>1, <4>2 DEF Launch
        <4>4. AfterEarlier(x)'
          BY <2>6, <4>3
        <4>5. QED
          BY <4>1, <4>2, <4>4
      <3>5. QED
        BY <3>3, <3>4
    <2>11. /\ clocks' = clocks /\ st' = st /\ own' = own /\ task' = task
           /\ saved' = saved /\ runs' = runs /\ blind \subseteq blind'
      BY <1>3 DEF Launch, Place
    <2>12. \A q \in Runs : Placed(q)' => AfterEarlier(q)'
      BY <2>6, <2>9
    <2>13. \A t \in Sessions \ blind' : clocks'[t] # Absent =>
             \A q \in Runs : own'[q] = t /\ ~Running(q)' => saved'[q] <= clocks'[t]
      BY <2>11
    <2>14. \A q, t \in Runs : q < t /\ st'[t] # "unused" => st'[q] # "unused"
      BY <2>11
    <2>15. \A t \in Sessions, q \in Runs :
             runs'[t] # NoRun /\ own'[q] = t /\ st'[q] # "unused" => q <= runs'[t]
      BY <2>11
    <2>16. QED
      BY <2>8, <2>10, <2>12, <2>13, <2>14, <2>15
  <1>4. ASSUME NEW p \in Procs, StartRefused(p)
       PROVE  Clocks'
    BY <1>4 DEF StartRefused
  <1>5. ASSUME NEW p \in Procs, Resume(p)
       PROVE  Clocks'
    BY <1>5 DEF Resume, Publish
  <1>6. ASSUME NEW p \in Procs, AnnounceStarting(p)
       PROVE  Clocks'
    BY <1>6 DEF AnnounceStarting, Publish
  <1>7. ASSUME NEW p \in Procs, AnnounceLive(p)
       PROVE  Clocks'
    BY <1>7 DEF AnnounceLive, Publish
  <1>8. ASSUME NEW p \in Procs, LaunchNoProvider(p)
       PROVE  Clocks'
    BY <1>8 DEF LaunchNoProvider
  <1>9. ASSUME NEW p \in Procs, LaunchHook(p)
       PROVE  Clocks'
    BY <1>9 DEF LaunchHook, SetSink
  <1>10. ASSUME NEW p \in Procs, LaunchPipeline(p)
       PROVE  Clocks'
    BY <1>10 DEF LaunchPipeline
  <1>11. ASSUME NEW p \in Procs, LaunchAborts(p)
       PROVE  Clocks'
    BY <1>11 DEF LaunchAborts
  <1>12. ASSUME NEW p \in Procs, GoLive(p)
       PROVE  Clocks'
    BY SMTT(30), <1>12 DEF GoLive, LiveUnlessStopped
  <1>13. ASSUME NEW p \in Procs, FailHook(p)
       PROVE  Clocks'
    BY <1>13 DEF FailHook, SetSink
  <1>14. ASSUME NEW p \in Procs, FailUnregister(p)
       PROVE  Clocks'
    <2>1. UNCHANGED <<clocks, runVars, dataVars>>
      BY <1>14 DEF FailUnregister
    <2>2. \A s \in Sessions : runs'[s] \in {runs[s], NoRun}
      BY <1>14 DEF FailUnregister
    <2>3. \A q \in Procs : req'[q].at \in {"start.hook", "start.source"} => req'[q] = req[q]
      BY <1>14 DEF FailUnregister
    <2>4. QED
      BY <2>1, <2>2, <2>3
  <1>15. ASSUME NEW p \in Procs, FailPublish(p)
       PROVE  Clocks'
    BY <1>15 DEF FailPublish, Publish
  <1>16. ASSUME NEW p \in Procs, CloserLookup(p)
       PROVE  Clocks'
    BY <1>16 DEF CloserLookup
  <1>17. ASSUME NEW p \in Procs, CloserGone(p)
       PROVE  Clocks'
    BY <1>17 DEF CloserGone
  <1>18. ASSUME NEW p \in Procs, StopIdle(p)
       PROVE  Clocks'
    BY <1>18 DEF StopIdle, Cleared
  <1>19. ASSUME NEW p \in Procs, StopIdlePublish(p)
       PROVE  Clocks'
    BY <1>19 DEF StopIdlePublish, Publish
  <1>20. ASSUME NEW p \in Procs, StopLock(p)
       PROVE  Clocks'
    BY <1>20 DEF StopLock
  <1>21. ASSUME NEW p \in Procs, StopJoin(p)
       PROVE  Clocks'
    BY <1>21 DEF StopJoin
  <1>22. ASSUME NEW p \in Procs, StopSignal(p)
       PROVE  Clocks'
    BY <1>22 DEF StopSignal, Publish
  <1>23. ASSUME NEW p \in Procs, StopDone(p)
       PROVE  Clocks'
    BY <1>23 DEF StopDone
  <1>24. ASSUME NEW p \in Procs, StopTimesOut(p)
       PROVE  Clocks'
    BY <1>24 DEF StopTimesOut
  <1>25. ASSUME NEW p \in Procs, StopAbandoned(p)
       PROVE  Clocks'
    BY <1>25 DEF StopAbandoned
  <1>26. ASSUME NEW p \in Procs, DeleteRefused(p)
       PROVE  Clocks'
    BY <1>26 DEF DeleteRefused
  <1>27. ASSUME NEW p \in Procs, DeleteForget(p)
       PROVE  Clocks'
    BY <1>27 DEF DeleteForget, Cleared
  <1>28. ASSUME NEW p \in Procs, DeleteRelease(p)
       PROVE  Clocks'
    BY <1>28 DEF DeleteRelease, ReleaseIngest
  <1>29. ASSUME NEW p \in Procs, DeleteRow(p)
       PROVE  Clocks'
    BY <1>29 DEF DeleteRow
  <1>30. ASSUME NEW p \in Procs, DeleteRowGone(p)
       PROVE  Clocks'
    BY <1>30 DEF DeleteRowGone
  <1>31. ASSUME NEW p \in Procs, DeleteSink(p)
       PROVE  Clocks'
    BY <1>31 DEF DeleteSink, SetSink
  <1>32. ASSUME NEW r \in Runs, Hear(r)
       PROVE  Clocks'
    BY <1>32 DEF Hear
  <1>33. ASSUME NEW r \in Runs, Caption(r)
       PROVE  Clocks'
    <2>1. runs[own[r]] = r /\ own[r] \in Sessions
      BY <1>33 DEF Caption
    <2>2. \A q \in Runs : own[q] = own[r] /\ st[q] # "unused" => q <= r
      BY <2>1
    <2>3. \A q \in Runs : AfterEarlier(q) /\ st[q] # "unused" => AfterEarlier(q)'
      BY <1>33, <2>2 DEF Caption
    <2>4. \A q \in Procs : req[q].at \in {"start.hook", "start.source"} =>
            req[q].r \in Runs /\ st[req[q].r] # "unused"
      BY <1>33 DEF Caption
    <2>5. \A q \in Procs : req'[q].at \in {"start.hook", "start.source"} =>
            AfterEarlier(req[q].r)'
      <3>1. req' = req
        BY <1>33 DEF Caption
      <3>2. QED
        BY <2>3, <2>4, <3>1
    <2>6. \A q \in Runs : Placed(q)' => AfterEarlier(q)'
      BY <1>33, <2>3 DEF Caption
    <2>7. QED
      BY <1>33, <2>5, <2>6 DEF Caption
  <1>34. ASSUME NEW r \in Runs, FinishCancel(r)
       PROVE  Clocks'
    BY <1>34 DEF FinishCancel
  <1>35. ASSUME NEW r \in Runs, Finished(r)
       PROVE  Clocks'
    <2> DEFINE s == own[r]
    <2>1. runs[s] = r /\ s \in Sessions /\ Placed(r)
      BY <1>35 DEF Finished
    <2>2. \A q \in Runs : q # r => Running(q)' = Running(q)
      BY <1>35 DEF Finished
    <2>3. \A q \in Runs : own[q] = s /\ saved[q] # 0 => q <= r
      BY <2>1
    <2>4. s \notin blind => \A q \in Runs : own[q] = s => saved[q] <= end[r]
      BY <2>1, <2>3
    <2>5. \A t \in Sessions \ blind : clocks'[t] # Absent =>
            \A q \in Runs : own[q] = t /\ ~Running(q)' => saved[q] <= clocks'[t]
      <3>1. TAKE t \in Sessions \ blind
      <3>2. CASE t = s
        BY <1>35, <3>2, <2>1, <2>4 DEF Finished
      <3>3. CASE t # s
        BY <1>35, <3>3, <2>1, <2>2 DEF Finished
      <3>4. QED
        BY <3>2, <3>3
    <2>6. QED
      BY <1>35, <2>1, <2>5 DEF Finished
  <1>36. ASSUME NEW r \in Runs, FinishedRelease(r)
       PROVE  Clocks'
    BY <1>36 DEF FinishedRelease, ReleaseIngest
  <1>37. ASSUME NEW r \in Runs, FinishedSink(r)
       PROVE  Clocks'
    BY <1>37 DEF FinishedSink, SetSink
  <1>38. ASSUME NEW r \in Runs, FinishedPublish(r)
       PROVE  Clocks'
    BY <1>38 DEF FinishedPublish, Publish
  <1>39. ASSUME NEW r \in Runs, FinishClose(r)
       PROVE  Clocks'
    BY <1>39 DEF FinishClose
  <1>40. ASSUME NEW r \in Runs, NEW isFatal \in BOOLEAN, PipelineEnds(r, isFatal)
       PROVE  Clocks'
    BY <1>40 DEF PipelineEnds
  <1>41. ASSUME NEW s \in Sessions, Pause(s)
       PROVE  Clocks'
    BY <1>41 DEF Pause, Publish
  <1>42. ASSUME NEW s \in Sessions, CreateSession(s)
       PROVE  Clocks'
    BY <1>42 DEF CreateSession
  <1>43. ASSUME CloseManager
       PROVE  Clocks'
    BY <1>43 DEF CloseManager, Closer
  <1>44. ASSUME ServerRestart
       PROVE  Clocks'
    BY <1>44 DEF ServerRestart
  <1>45. ASSUME UNCHANGED vars
       PROVE  Clocks'
    BY <1>45 DEF vars
  <1> HIDE DEF TypeOK, Links, Ownership, LaunchOwnsRun, Launching, OnePipeline,
            Running, Clocks, AfterEarlier, Placed, Requests, PCs, States,
            Tasks, NoRun, WithRun, Runs, Goto, GotoWith, Leave, Idle
  <1>46. QED
    BY <1>1, <1>2, <1>3, <1>4, <1>5, <1>6, <1>7, <1>8, <1>9, <1>10, <1>11,
       <1>12, <1>13, <1>14, <1>15, <1>16, <1>17, <1>18, <1>19, <1>20, <1>21,
       <1>22, <1>23, <1>24, <1>25, <1>26, <1>27, <1>28, <1>29, <1>30, <1>31,
       <1>32, <1>33, <1>34, <1>35, <1>36, <1>37, <1>38, <1>39, <1>40, <1>41,
       <1>42, <1>43, <1>44, <1>45
    DEF Next, ProcStep, RunStep, FinishStep

-----------------------------------------------------------------------------
(* What Close leaves *)

\* The goroutine of Close that stops s is still at it, for the registered run.
Closing(s) ==
  LET c == req[Closer(s)] IN
  \/ c.at \in {"stop.lookup", "stop.lock"}
  \/ c.at \in {"stop.signal", "stop.wait", "stop.drain"} /\ c.r = runs[s]

\* CloseDrains with what keeps it: once Close has begun, a registered run is
\* still to be stopped, ended, or of a session without a row, which Close does
\* not stop.
Drained ==
  /\ \A s \in Sessions : runs[s] # NoRun =>
       /\ task[runs[s]] \in {"none", "flow", "finish", "finished"}
       /\ s \notin stored => runs[s] \in orphan
  /\ \A s \in Sessions : req[Closer(s)].at # "idle" =>
       /\ req[Closer(s)].s = s
       /\ req[Closer(s)].at \in {"stop.lookup", "stop.lock", "stop.idle",
                                 "stop.signal", "stop.wait", "stop.drain"}
  /\ closed => \A s \in Sessions :
       \/ runs[s] = NoRun \/ runs[s] \in orphan \/ runs[s] \in done
       \/ Closing(s)

\* Each session has its own goroutine of Close, which is no API request.
LEMMA CloserNames ==
  /\ \A s \in Sessions : Closer(s) \in Procs /\ Closer(s) \notin Clients
  /\ \A s \in Sessions : Closer(s)[2] = s
  /\ \A s, t \in Sessions : Closer(s) = Closer(t) => s = t
  BY ManagerAssumption DEF Procs, Closers, Closer
LEMMA DrainedStep ==
  TypeOK /\ Links /\ Ownership /\ Settled /\ Drained /\ [Next]_vars => Drained'
  <1> SUFFICES ASSUME TypeOK, Links, Ownership, Settled, Drained, [Next]_vars PROVE Drained'
    OBVIOUS
  <1> USE CloserNames
  <1> USE DEF TypeOK, Links, Ownership, LaunchOwnsRun, Launching, OnePipeline,
            Running, Settled, DoneSettled, Drained, Closing, Requests, PCs,
            States, Tasks, NoRun, WithRun, Runs, Goto, GotoWith, Leave, Idle,
            mgrVars, runVars, dataVars, svcVars
  <1>1. ASSUME NEW p \in Clients, NEW s \in Sessions,
              NEW label \in {"start.lock", "stop.lock", "delete.forget"},
              Lookup(p, s, label)
       PROVE  Drained'
    BY <1>1 DEF Lookup, Procs
  <1>2. ASSUME NEW p \in Procs, NEW r \in Runs, Register(p, r)
       PROVE  Drained'
    BY <1>2 DEF Register, Fresh, Cleared, CanStart
  <1>3. ASSUME NEW p \in Procs, NEW readFails \in BOOLEAN, NEW given \in BOOLEAN,
              Launch(p, readFails, given)
       PROVE  Drained'
    BY <1>3 DEF Launch, Place
  <1>4. ASSUME NEW p \in Procs, StartRefused(p)
       PROVE  Drained'
    BY <1>4 DEF StartRefused
  <1>5. ASSUME NEW p \in Procs, Resume(p)
       PROVE  Drained'
    BY <1>5 DEF Resume, Publish
  <1>6. ASSUME NEW p \in Procs, AnnounceStarting(p)
       PROVE  Drained'
    BY <1>6 DEF AnnounceStarting, Publish
  <1>7. ASSUME NEW p \in Procs, AnnounceLive(p)
       PROVE  Drained'
    BY <1>7 DEF AnnounceLive, Publish
  <1>8. ASSUME NEW p \in Procs, LaunchNoProvider(p)
       PROVE  Drained'
    BY <1>8 DEF LaunchNoProvider
  <1>9. ASSUME NEW p \in Procs, LaunchHook(p)
       PROVE  Drained'
    BY <1>9 DEF LaunchHook, SetSink
  <1>10. ASSUME NEW p \in Procs, LaunchPipeline(p)
       PROVE  Drained'
    BY <1>10 DEF LaunchPipeline
  <1>11. ASSUME NEW p \in Procs, LaunchAborts(p)
       PROVE  Drained'
    BY <1>11 DEF LaunchAborts
  <1>12. ASSUME NEW p \in Procs, GoLive(p)
       PROVE  Drained'
    BY <1>12 DEF GoLive, LiveUnlessStopped
  <1>13. ASSUME NEW p \in Procs, FailHook(p)
       PROVE  Drained'
    BY <1>13 DEF FailHook, SetSink
  <1>14. ASSUME NEW p \in Procs, FailUnregister(p)
       PROVE  Drained'
    BY <1>14 DEF FailUnregister
  <1>15. ASSUME NEW p \in Procs, FailPublish(p)
       PROVE  Drained'
    BY <1>15 DEF FailPublish, Publish
  <1>16. ASSUME NEW p \in Procs, CloserLookup(p)
       PROVE  Drained'
    BY <1>16 DEF CloserLookup
  <1>17. ASSUME NEW p \in Procs, CloserGone(p)
       PROVE  Drained'
    BY <1>17 DEF CloserGone
  <1>18. ASSUME NEW p \in Procs, StopIdle(p)
       PROVE  Drained'
    BY <1>18 DEF StopIdle, Cleared
  <1>19. ASSUME NEW p \in Procs, StopIdlePublish(p)
       PROVE  Drained'
    BY <1>19 DEF StopIdlePublish, Publish
  <1>20. ASSUME NEW p \in Procs, StopLock(p)
       PROVE  Drained'
    BY <1>20 DEF StopLock
  <1>21. ASSUME NEW p \in Procs, StopJoin(p)
       PROVE  Drained'
    <2>1. /\ runs[req[p].s] \in Runs
          /\ req' = [req EXCEPT ![p].at = "stop.wait", ![p].r = runs[req[p].s]]
      BY <1>21 DEF StopJoin
    <2>2. \A s \in Sessions :
            (req[Closer(s)].s = s /\ req[Closer(s)].at # "idle" /\ Closing(s))
              => Closing(s)'
      BY <1>21, <2>1 DEF StopJoin
    <2>3. \A s \in Sessions : req'[Closer(s)].s = req[Closer(s)].s
      BY <2>1
    <2>4. \A s \in Sessions : Closer(s) # p => req'[Closer(s)] = req[Closer(s)]
      BY <2>1
    <2>5. req'[p].at = "stop.wait" /\ req[p].at = "stop.lock"
      BY <1>21, <2>1 DEF StopJoin
    <2>6. \A s \in Sessions : req'[Closer(s)].at # "idle" =>
            /\ req'[Closer(s)].s = s
            /\ req'[Closer(s)].at \in {"stop.lookup", "stop.lock", "stop.idle",
                                       "stop.signal", "stop.wait", "stop.drain"}
      <3>1. TAKE s \in Sessions
      <3>2. CASE Closer(s) = p
        BY <2>3, <2>5, <3>2
      <3>3. CASE Closer(s) # p
        BY <2>4, <3>3
      <3>4. QED
        BY <3>2, <3>3
    <2>7. QED
      BY <1>21, <2>2, <2>6 DEF StopJoin
  <1>22. ASSUME NEW p \in Procs, StopSignal(p)
       PROVE  Drained'
    BY <1>22 DEF StopSignal, Publish
  <1>23. ASSUME NEW p \in Procs, StopDone(p)
       PROVE  Drained'
    BY <1>23 DEF StopDone
  <1>24. ASSUME NEW p \in Procs, StopTimesOut(p)
       PROVE  Drained'
    BY <1>24 DEF StopTimesOut
  <1>25. ASSUME NEW p \in Procs, StopAbandoned(p)
       PROVE  Drained'
    BY <1>25 DEF StopAbandoned
  <1>26. ASSUME NEW p \in Procs, DeleteRefused(p)
       PROVE  Drained'
    BY <1>26 DEF DeleteRefused
  <1>27. ASSUME NEW p \in Procs, DeleteForget(p)
       PROVE  Drained'
    BY <1>27 DEF DeleteForget, Cleared
  <1>28. ASSUME NEW p \in Procs, DeleteRelease(p)
       PROVE  Drained'
    BY <1>28 DEF DeleteRelease, ReleaseIngest
  <1>29. ASSUME NEW p \in Procs, DeleteRow(p)
       PROVE  Drained'
    BY <1>29 DEF DeleteRow
  <1>30. ASSUME NEW p \in Procs, DeleteRowGone(p)
       PROVE  Drained'
    BY <1>30 DEF DeleteRowGone
  <1>31. ASSUME NEW p \in Procs, DeleteSink(p)
       PROVE  Drained'
    BY <1>31 DEF DeleteSink, SetSink
  <1>32. ASSUME NEW r \in Runs, Hear(r)
       PROVE  Drained'
    BY <1>32 DEF Hear
  <1>33. ASSUME NEW r \in Runs, Caption(r)
       PROVE  Drained'
    BY <1>33 DEF Caption
  <1>34. ASSUME NEW r \in Runs, FinishCancel(r)
       PROVE  Drained'
    BY <1>34 DEF FinishCancel
  <1>35. ASSUME NEW r \in Runs, Finished(r)
       PROVE  Drained'
    BY <1>35 DEF Finished
  <1>36. ASSUME NEW r \in Runs, FinishedRelease(r)
       PROVE  Drained'
    BY <1>36 DEF FinishedRelease, ReleaseIngest
  <1>37. ASSUME NEW r \in Runs, FinishedSink(r)
       PROVE  Drained'
    BY <1>37 DEF FinishedSink, SetSink
  <1>38. ASSUME NEW r \in Runs, FinishedPublish(r)
       PROVE  Drained'
    BY <1>38 DEF FinishedPublish, Publish
  <1>39. ASSUME NEW r \in Runs, FinishClose(r)
       PROVE  Drained'
    BY <1>39 DEF FinishClose
  <1>40. ASSUME NEW r \in Runs, NEW isFatal \in BOOLEAN, PipelineEnds(r, isFatal)
       PROVE  Drained'
    BY <1>40 DEF PipelineEnds
  <1>41. ASSUME NEW s \in Sessions, Pause(s)
       PROVE  Drained'
    BY <1>41 DEF Pause, Publish
  <1>42. ASSUME NEW s \in Sessions, CreateSession(s)
       PROVE  Drained'
    BY <1>42 DEF CreateSession
  <1>43. ASSUME CloseManager
       PROVE  Drained'
    BY <1>43, CloserNames DEF CloseManager, Closer
  <1>44. ASSUME ServerRestart
       PROVE  Drained'
    BY <1>44 DEF ServerRestart
  <1>45. ASSUME UNCHANGED vars
       PROVE  Drained'
    BY <1>45 DEF vars
  <1> HIDE DEF TypeOK, Links, Ownership, LaunchOwnsRun, Launching, OnePipeline,
            Running, Settled, DoneSettled, Drained, Closing, Requests, PCs,
            States, Tasks, NoRun, WithRun, Runs, Goto, GotoWith, Leave, Idle
  <1>46. QED
    BY <1>1, <1>2, <1>3, <1>4, <1>5, <1>6, <1>7, <1>8, <1>9, <1>10, <1>11,
       <1>12, <1>13, <1>14, <1>15, <1>16, <1>17, <1>18, <1>19, <1>20, <1>21,
       <1>22, <1>23, <1>24, <1>25, <1>26, <1>27, <1>28, <1>29, <1>30, <1>31,
       <1>32, <1>33, <1>34, <1>35, <1>36, <1>37, <1>38, <1>39, <1>40, <1>41,
       <1>42, <1>43, <1>44, <1>45
    DEF Next, ProcStep, RunStep, FinishStep

-----------------------------------------------------------------------------
(* The inductive invariant *)

\* The inductive invariant.
Inv == TypeOK /\ Links /\ Ownership /\ Settled /\ Clocks /\ Drained

LEMMA InvInit == Init => Inv
  <1> SUFFICES ASSUME Init PROVE Inv
    OBVIOUS
  <1> USE DEF Init, NoRun, Idle
  <1>1. TypeOK
    <2>1. boots \in 0 .. MaxBoots
      BY ManagerAssumption
    <2>2. req \in [Procs -> Requests]
      BY DEF Requests, PCs
    <2>3. QED
      BY <2>1, <2>2 DEF TypeOK, Tasks, States
  <1>2. Links
    BY DEF Links, WithRun
  <1>3. Ownership
    BY DEF Ownership, LaunchOwnsRun, Launching, OnePipeline, Running
  <1>4. Settled
    BY DEF Settled, DoneSettled, NoFailedWhileRunning
  <1>5. Clocks
    BY DEF Clocks, AfterEarlier, Placed
  <1>6. Drained
    BY CloserNames DEF Drained
  <1>7. QED
    BY <1>1, <1>2, <1>3, <1>4, <1>5, <1>6 DEF Inv

LEMMA InvStep == Inv /\ [Next]_vars => Inv'
  <1> SUFFICES ASSUME TypeOK, Links, Ownership, Settled, Clocks, Drained,
                      [Next]_vars
               PROVE  /\ TypeOK' /\ Links' /\ Ownership' /\ Settled'
                      /\ Clocks' /\ Drained'
    BY DEF Inv
  <1>1. TypeOK'
    BY TypeStep
  <1>2. Links'
    BY LinksStep
  <1>3. Ownership'
    BY OwnershipStep
  <1>4. Settled'
    BY SettledStep
  <1>5. Clocks'
    BY ClocksStep
  <1>6. Drained'
    BY DrainedStep
  <1>7. QED
    BY <1>1, <1>2, <1>3, <1>4, <1>5, <1>6

LEMMA InvAlways == Spec => []Inv
  <1>1. QED
    BY InvInit, InvStep, PTL DEF Spec

-----------------------------------------------------------------------------
(* What one step does to the states of the sessions *)

\* The steps that change what the state of a session is.
StatusSteps ==
  \/ \E p \in Procs : \/ Resume(p) \/ GoLive(p) \/ FailUnregister(p)
                       \/ StopIdle(p) \/ StopLock(p) \/ DeleteForget(p)
                       \/ \E r \in Runs : Register(p, r)
  \/ \E r \in Runs : Finished(r)
  \/ \E s \in Sessions : Pause(s)
  \/ ServerRestart

LEMMA OtherSteps ==
  [Next]_vars => StatusSteps \/ UNCHANGED <<runs, failed, st>>
  <1> SUFFICES ASSUME [Next]_vars, ~StatusSteps
               PROVE  UNCHANGED <<runs, failed, st>>
    OBVIOUS
  <1> USE DEF mgrVars, runVars
  <1>1. ASSUME NEW p \in Procs,
               \/ StartRefused(p) \/ AnnounceStarting(p) \/ AnnounceLive(p)
               \/ LaunchNoProvider(p) \/ LaunchHook(p) \/ LaunchPipeline(p)
               \/ LaunchAborts(p) \/ FailHook(p) \/ FailPublish(p)
               \/ \E readFails, given \in BOOLEAN : Launch(p, readFails, given)
        PROVE  UNCHANGED <<runs, failed, st>>
    BY <1>1 DEF StartRefused, AnnounceStarting, AnnounceLive, LaunchNoProvider,
       LaunchHook, LaunchPipeline, LaunchAborts, FailHook, FailPublish, Launch
  <1>2. ASSUME NEW p \in Procs,
               \/ CloserLookup(p) \/ CloserGone(p) \/ StopIdlePublish(p)
               \/ StopJoin(p) \/ StopSignal(p) \/ StopDone(p)
               \/ StopTimesOut(p) \/ StopAbandoned(p)
        PROVE  UNCHANGED <<runs, failed, st>>
    BY <1>2 DEF CloserLookup, CloserGone, StopIdlePublish, StopJoin, StopSignal,
       StopDone, StopTimesOut, StopAbandoned
  <1>3. ASSUME NEW p \in Procs,
               \/ DeleteRefused(p) \/ DeleteRelease(p) \/ DeleteRow(p)
               \/ DeleteRowGone(p) \/ DeleteSink(p)
        PROVE  UNCHANGED <<runs, failed, st>>
    BY <1>3 DEF DeleteRefused, DeleteRelease, DeleteRow, DeleteRowGone, DeleteSink
  <1>4. ASSUME NEW r \in Runs, RunStep(r) PROVE UNCHANGED <<runs, failed, st>>
    <2>1. ~Finished(r)
      BY DEF StatusSteps
    <2>2. QED
      BY <1>4, <2>1 DEF RunStep, FinishStep, Hear, Caption, PipelineEnds,
         FinishCancel, FinishedRelease, FinishedSink, FinishedPublish, FinishClose
  <1>5. ASSUME \/ \E p \in Clients, s \in Sessions :
                    \E label \in {"start.lock", "stop.lock", "delete.forget"} :
                      Lookup(p, s, label)
               \/ \E s \in Sessions : CreateSession(s)
               \/ CloseManager \/ UNCHANGED vars
        PROVE  UNCHANGED <<runs, failed, st>>
    BY <1>5 DEF Lookup, CreateSession, CloseManager, vars
  <1> HIDE DEF mgrVars, runVars
  <1>6. QED
    BY <1>1, <1>2, <1>3, <1>4, <1>5 DEF Next, ProcStep, StatusSteps

LEMMA StopWinsStep ==
  ASSUME Inv, [Next]_vars
  PROVE  \A r \in Runs : st[r] = "stopping" => st'[r] = "stopping"
  <1> USE DEF Inv, TypeOK, Links, NoRun, Runs
  <1>1. CASE UNCHANGED <<runs, failed, st>>
    BY <1>1
  <1>2. ASSUME NEW p \in Procs, Resume(p) \/ GoLive(p) \/ StopLock(p)
        PROVE  \A r \in Runs : st[r] = "stopping" => st'[r] = "stopping"
    <2>1. CASE Resume(p)
      BY <2>1 DEF Resume
    <2>2. CASE GoLive(p)
      BY <2>2 DEF GoLive, LiveUnlessStopped
    <2>3. CASE StopLock(p)
      BY <2>3 DEF StopLock
    <2>4. QED
      BY <1>2, <2>1, <2>2, <2>3
  <1>3. ASSUME NEW p \in Procs, FailUnregister(p) \/ StopIdle(p) \/ DeleteForget(p)
        PROVE  \A r \in Runs : st[r] = "stopping" => st'[r] = "stopping"
    BY <1>3 DEF FailUnregister, StopIdle, DeleteForget, runVars
  <1>4. ASSUME NEW p \in Procs, NEW q \in Runs, Register(p, q)
        PROVE  \A r \in Runs : st[r] = "stopping" => st'[r] = "stopping"
    BY <1>4 DEF Register, Fresh
  <1>5. ASSUME NEW q \in Runs, Finished(q)
        PROVE  \A r \in Runs : st[r] = "stopping" => st'[r] = "stopping"
    BY <1>5 DEF Finished
  <1>6. ASSUME NEW s \in Sessions, Pause(s)
        PROVE  \A r \in Runs : st[r] = "stopping" => st'[r] = "stopping"
    BY <1>6 DEF Pause
  <1>7. CASE ServerRestart
    BY <1>7 DEF ServerRestart
  <1> HIDE DEF Inv, TypeOK, Links, NoRun, Runs
  <1>8. QED
    BY <1>1, <1>2, <1>3, <1>4, <1>5, <1>6, <1>7, OtherSteps DEF StatusSteps

-----------------------------------------------------------------------------
(* The session manager implements SessionLifecycle *)

\* What viewers see of the sessions.
Shown == [s \in Sessions |-> Status(s)]

\* A step that changes the state of one session only.
LEMMA ShownOne ==
  ASSUME NEW s \in Sessions, NEW next,
         Status(s)' = next,
         \A t \in Sessions : t # s => Status(t)' = Status(t)
  PROVE  Shown' = [Shown EXCEPT ![s] = next]
  BY DEF Shown

LEMMA ShownSame ==
  ASSUME \A t \in Sessions : Status(t)' = Status(t)
  PROVE  Shown' = Shown
  BY DEF Shown

LEMMA LifecycleInit == Init => Lifecycle!Init
  BY DEF Init, Lifecycle!Init, Status, NoRun

LEMMA LifecycleStep ==
  ASSUME Inv, [Next]_vars
  PROVE  [Lifecycle!Next]_Shown
  <1> USE DEF Inv, TypeOK, Links, NoRun, Runs
  <1> DEFINE Same(t) == Status(t)' = Status(t)
  <1>1. CASE UNCHANGED <<runs, failed, st>>
    BY <1>1, ShownSame DEF Status
  <1>2. ASSUME NEW p \in Procs, Resume(p) PROVE Lifecycle!Next
    <2>1. PICK s \in Sessions : s = req[p].s
      BY <1>2 DEF Resume
    <2>2. /\ Status(s) = "paused" /\ Status(s)' = "live"
          /\ \A t \in Sessions : t # s => Same(t)
      BY <1>2, <2>1 DEF Resume, Status, mgrVars
    <2>3. Lifecycle!Resume(s)
      BY <2>2, ShownOne DEF Lifecycle!Resume, Lifecycle!Become, Shown
    <2>4. QED
      BY <2>3 DEF Lifecycle!Next
  <1>3. ASSUME NEW p \in Procs, GoLive(p) PROVE [Lifecycle!Next]_Shown
    <2>1. PICK s \in Sessions : s = req[p].s
      BY <1>3 DEF GoLive
    <2>2. PICK r \in Runs : r = req[p].r /\ own[r] = s
      BY <1>3, <2>1 DEF GoLive, WithRun, PCs
    <2>3. CASE runs[s] = r /\ st[r] = "starting"
      <3>1. /\ Status(s) = "starting" /\ Status(s)' = "live"
            /\ \A t \in Sessions : t # s => Same(t)
        BY <1>3, <2>1, <2>2, <2>3 DEF GoLive, LiveUnlessStopped, Status, mgrVars
      <3>2. Lifecycle!GoLive(s)
        BY <3>1, ShownOne DEF Lifecycle!GoLive, Lifecycle!Become, Shown
      <3>3. QED
        BY <3>2 DEF Lifecycle!Next
    <2>4. CASE runs[s] # r \/ st[r] # "starting"
      <3>1. \A t \in Sessions : Same(t)
        BY <1>3, <2>1, <2>2, <2>4 DEF GoLive, LiveUnlessStopped, Status, mgrVars
      <3>2. QED
        BY <3>1, ShownSame
    <2>5. QED
      BY <2>3, <2>4
  <1>4. ASSUME NEW p \in Procs, FailUnregister(p) PROVE Lifecycle!Next
    <2>1. PICK s \in Sessions : s = req[p].s
      BY <1>4 DEF FailUnregister
    <2>2. runs[s] \in Runs
      BY <1>4, <2>1 DEF FailUnregister, Ownership, LaunchOwnsRun, Launching, WithRun, PCs
    <2>3. /\ Status(s) \in Lifecycle!Active /\ Status(s)' = "error"
          /\ \A t \in Sessions : t # s => Same(t)
      BY <1>4, <2>1, <2>2 DEF FailUnregister, Status, Lifecycle!Active, States, runVars
    <2>4. Lifecycle!End(s)
      BY <2>3, ShownOne DEF Lifecycle!End, Lifecycle!Become, Lifecycle!AtRest, Shown
    <2>5. QED
      BY <2>4 DEF Lifecycle!Next
  <1>5. ASSUME NEW p \in Procs, StopIdle(p) \/ DeleteForget(p)
        PROVE  [Lifecycle!Next]_Shown
    <2>1. PICK s \in Sessions : s = req[p].s
      BY <1>5 DEF StopIdle, DeleteForget
    <2>2. /\ runs[s] = NoRun /\ Status(s)' = "idle"
          /\ \A t \in Sessions : t # s => Same(t)
      BY <1>5, <2>1 DEF StopIdle, DeleteForget, Cleared, Status, runVars
    <2>3. CASE s \in failed
      <3>1. Lifecycle!Clear(s)
        BY <2>2, <2>3, ShownOne
        DEF Lifecycle!Clear, Lifecycle!Become, Shown, Status
      <3>2. QED
        BY <3>1 DEF Lifecycle!Next
    <2>4. CASE s \notin failed
      BY <2>2, <2>4, ShownSame DEF Status
    <2>5. QED
      BY <2>3, <2>4
  <1>6. ASSUME NEW p \in Procs, StopLock(p) PROVE Lifecycle!Next
    <2>1. PICK s \in Sessions : s = req[p].s
      BY <1>6 DEF StopLock
    <2>2. /\ Status(s) \in Lifecycle!Active /\ Status(s)' = "stopping"
          /\ \A t \in Sessions : t # s => Same(t)
      BY <1>6, <2>1 DEF StopLock, Status, Lifecycle!Active, States, mgrVars
    <2>3. Lifecycle!Stop(s)
      BY <2>2, ShownOne DEF Lifecycle!Stop, Lifecycle!Become, Shown
    <2>4. QED
      BY <2>3 DEF Lifecycle!Next
  <1>7. ASSUME NEW p \in Procs, NEW r \in Runs, Register(p, r)
        PROVE  Lifecycle!Next
    <2>1. PICK s \in Sessions : s = req[p].s
      BY <1>7 DEF Register
    <2>2. \A t \in Sessions : runs[t] # r
      BY <1>7 DEF Register, Fresh
    <2>3. /\ Status(s) \in Lifecycle!AtRest /\ Status(s)' = "starting"
          /\ \A t \in Sessions : t # s => Same(t)
      BY <1>7, <2>1, <2>2
      DEF Register, CanStart, Cleared, Status, Lifecycle!AtRest
    <2>4. Lifecycle!Start(s)
      BY <2>3, ShownOne DEF Lifecycle!Start, Lifecycle!Become, Shown
    <2>5. QED
      BY <2>4 DEF Lifecycle!Next
  <1>8. ASSUME NEW r \in Runs, Finished(r) PROVE Lifecycle!Next
    <2>1. PICK s \in Sessions : s = own[r] /\ runs[s] = r
      BY <1>8 DEF Finished, Ownership, OnePipeline, Running
    <2>2. /\ Status(s) \in Lifecycle!Active
          /\ Status(s)' \in Lifecycle!AtRest
          /\ \A t \in Sessions : t # s => Same(t)
      BY <1>8, <2>1
      DEF Finished, Status, Lifecycle!Active, Lifecycle!AtRest, States
    <2>3. Lifecycle!End(s)
      BY <2>2, ShownOne DEF Lifecycle!End, Lifecycle!Become, Shown
    <2>4. QED
      BY <2>3 DEF Lifecycle!Next
  <1>9. ASSUME NEW s \in Sessions, Pause(s) PROVE Lifecycle!Next
    <2>1. /\ Status(s) = "live" /\ Status(s)' = "paused"
          /\ \A t \in Sessions : t # s => Same(t)
      BY <1>9 DEF Pause, Status, mgrVars
    <2>2. Lifecycle!Pause(s)
      BY <2>1, ShownOne DEF Lifecycle!Pause, Lifecycle!Become, Shown
    <2>3. QED
      BY <2>2 DEF Lifecycle!Next
  <1>10. ASSUME ServerRestart PROVE Lifecycle!Next
    <2>1. \A s \in Sessions : Status(s)' = "idle"
      BY <1>10 DEF ServerRestart, Status
    <2>2. QED
      BY <2>1 DEF Lifecycle!Next, Lifecycle!Restart, Lifecycle!Init
  <1> HIDE DEF Inv, TypeOK, Links, NoRun, Runs
  <1>11. QED
    BY <1>1, <1>2, <1>3, <1>4, <1>5, <1>6, <1>7, <1>8, <1>9, <1>10, OtherSteps
    DEF StatusSteps

-----------------------------------------------------------------------------
(* What holds of every behaviour *)

\* Every variable keeps its type.
THEOREM TypeCorrect == Spec => []TypeOK
  <1>1. Inv => TypeOK
    BY DEF Inv
  <1>2. QED
    BY <1>1, InvAlways, PTL

\* A session never has two pipelines: the goroutines of a run work only while
\* it is the registered one (Manager.Start against run.finish).
THEOREM OnePipelineHolds == Spec => []OnePipeline
  <1>1. Inv => OnePipeline
    BY DEF Inv, Ownership
  <1>2. QED
    BY <1>1, InvAlways, PTL

\* A run that is being started is in the hands of one request and stays
\* registered until its pipeline runs or its failure is recorded.
THEOREM LaunchOwnsRunHolds == Spec => []LaunchOwnsRun
  <1>1. Inv => LaunchOwnsRun
    BY DEF Inv, Ownership
  <1>2. QED
    BY <1>1, InvAlways, PTL

\* When done is closed the run has nothing left to do (run.finish).
THEOREM DoneSettledHolds == Spec => []DoneSettled
  <1>1. Inv => DoneSettled
    BY DEF Inv, Settled
  <1>2. QED
    BY <1>1, InvAlways, PTL

\* A running session carries no error of an earlier start (Manager.Start).
THEOREM NoFailedWhileRunningHolds == Spec => []NoFailedWhileRunning
  <1>1. Inv => NoFailedWhileRunning
    BY DEF Inv, Settled
  <1>2. QED
    BY <1>1, InvAlways, PTL

\* Captions of a later run start after every stored caption of the earlier
\* runs of the session, unless its captions could not be read
\* (Manager.clockOrigin).
THEOREM ClockSoundHolds == Spec => []ClockSound
  <1>1. Inv => ClockSound
    BY DEF Inv, Clocks, AfterEarlier, ClockSound
  <1>2. QED
    BY <1>1, InvAlways, PTL

\* When Close has stopped what it found, no pipeline of a session that kept
\* its row is left and none can start (Manager.Close against Manager.Start).
THEOREM CloseDrainsHolds == Spec => []CloseDrains
  <1>1. Inv => CloseDrains
    <2> SUFFICES ASSUME Inv, closed, \A p \in Closers : req[p].at = "idle",
                        NEW s \in Sessions
                 PROVE  \/ runs[s] = NoRun \/ runs[s] \in orphan
                        \/ ~Placed(runs[s])
      BY DEF CloseDrains
    <2>1. req[Closer(s)].at = "idle"
      BY DEF Closers
    <2>2. ~Closing(s)
      BY <2>1 DEF Closing
    <2>3. CASE runs[s] \in done
      BY <2>3 DEF Inv, Drained, Settled, DoneSettled, Placed
    <2>4. QED
      BY <2>2, <2>3 DEF Inv, Drained
  <1>2. QED
    BY <1>1, InvAlways, PTL

\* A Stop that came in meanwhile wins: no start, resume or pause that was
\* under way brings a stopping run back (Manager.Stop, run.goLive).
THEOREM StopWinsHolds == Spec => StopWins
  <1>1. Inv /\ [Next]_vars
          => [\A r \in Runs : st[r] = "stopping" => st'[r] = "stopping"]_vars
    BY StopWinsStep
  <1>2. QED
    BY <1>1, InvAlways, PTL DEF Spec, StopWins

\* Whoever looks at the sessions sees the state machine of SessionLifecycle
\* (Manager.State, Manager.status).
THEOREM ManagerImplementsLifecycle == Spec => LifecycleSpec
  <1>1. Inv /\ [Next]_vars => [Lifecycle!Next]_Shown
    BY LifecycleStep
  <1>2. QED
    BY <1>1, LifecycleInit, InvAlways, PTL DEF Spec, LifecycleSpec, Lifecycle!Spec, Shown

=============================================================================
