-------------------------- MODULE SessionLifecycle --------------------------
(***************************************************************************)
(* What the session manager promises to whoever looks at a session: the    *)
(* state machine of its state, "idle -> starting -> live <-> paused ->     *)
(* stopping -> idle, or error" (Manager.State).  No locks, no goroutines.  *)
(***************************************************************************)
CONSTANT Sessions

VARIABLE state

AtRest == {"idle", "error"}
Active == {"starting", "live", "paused", "stopping"}

Init == state = [s \in Sessions |-> "idle"]

Become(s, next) == state' = [state EXCEPT ![s] = next]

Start(s)  == state[s] \in AtRest /\ Become(s, "starting")
GoLive(s) == state[s] = "starting" /\ Become(s, "live")
Pause(s)  == state[s] = "live" /\ Become(s, "paused")
Resume(s) == state[s] = "paused" /\ Become(s, "live")
Stop(s)   == state[s] \in Active /\ Become(s, "stopping")

\* The run ends or never gets going, with or without an error.
End(s)    == state[s] \in Active /\ \E rest \in AtRest : Become(s, rest)

\* A stop or a deletion clears the error.
Clear(s)  == state[s] = "error" /\ Become(s, "idle")

Restart   == Init'

Next ==
  \/ \E s \in Sessions : Start(s) \/ GoLive(s) \/ Pause(s) \/ Resume(s)
                         \/ Stop(s) \/ End(s) \/ Clear(s)
  \/ Restart

Spec == Init /\ [][Next]_state
=============================================================================
