-------------------------- MODULE MCJobQueueTurns ---------------------------
(***************************************************************************)
(* What nobody's submissions and nobody's computations may prevent.  The   *)
(* variable scenario, drawn in the initial state, says whether submissions *)
(* or handlers are without end in a behaviour.                             *)
(***************************************************************************)
CONSTANTS j1, j2, w1, w2, export, NoJob, NoWorker

VARIABLES scenario, jobs, older, output, pc, held, stopping, beating, cache,
          reapDue

queueVars == <<jobs, older, output, pc, held, stopping, beating, cache, reapDue>>
vars == <<scenario, queueVars>>

\* One worker that never dies; jobs are submitted for ever.
Turns == INSTANCE JobQueue WITH
  Job <- {j1, j2}, Worker <- {w1}, Immortal <- {w1}, Purging <- TRUE,
  Kind <- {export}, ArtifactKind <- {export}, Registered <- {export},
  Malformed <- {}, Percent <- {}, DbFaults <- FALSE

\* Two workers that never die; computations never end by themselves.
Endless == INSTANCE JobQueue WITH
  Job <- {j1, j2}, Worker <- {w1, w2}, Immortal <- {w1, w2}, Purging <- FALSE,
  Kind <- {export}, ArtifactKind <- {export}, Registered <- {export},
  Malformed <- {}, Percent <- {}, DbFaults <- FALSE

Init ==
  \/ scenario = "turns" /\ Turns!Init
  \/ scenario = "endless" /\ Endless!Init

Next ==
  /\ \/ scenario = "turns" /\ Turns!Next
     \/ scenario = "endless" /\ Endless!Next
  /\ UNCHANGED scenario

(***************************************************************************)
(* JobQueue!FairSpec for the one worker of the first scenario (its handler *)
(* ends), JobQueue!EndlessHandlerSpec for those of the second (it asks for *)
(* ever whether it is cancelled).                                          *)
(***************************************************************************)
Fairness ==
  /\ WF_queueVars(scenario = "turns" /\ Turns!Boot(w1))
  /\ WF_queueVars(scenario = "turns" /\ Turns!Runner(w1))
  /\ WF_queueVars(scenario = "turns" /\ Turns!ReapTimerElapses(w1))
  /\ WF_queueVars(scenario = "turns" /\ Turns!HeartbeatThreadEnds(w1))
  /\ WF_queueVars(scenario = "turns" /\ Turns!FinalCheck(w1))
  /\ \A w \in {w1, w2} :
       /\ WF_queueVars(scenario = "endless" /\ Endless!Boot(w))
       /\ WF_queueVars(scenario = "endless" /\ Endless!Runner(w))
       /\ WF_queueVars(scenario = "endless" /\ Endless!ReapTimerElapses(w))
       /\ WF_queueVars(scenario = "endless" /\ Endless!HeartbeatThreadEnds(w))
       /\ WF_queueVars(scenario = "endless" /\ Endless!CheckCancelled(w))
       /\ WF_queueVars(scenario = "endless" /\ Endless!CacheExpires(w))
  /\ \A j \in {j1, j2} :
       /\ WF_queueVars(scenario = "turns" /\ Turns!Expire(j))
       /\ WF_queueVars(scenario = "endless" /\ Endless!Expire(j))

Spec == Init /\ [][Next]_vars /\ Fairness
-----------------------------------------------------------------------------
\* Under endless submissions, a queued job still gets its turn: the queue is
\* in the order of created_at (pickup_one of jobs/repo.py).
QueuedGetsItsTurn == scenario = "turns" => Turns!QueuedGetsItsTurn

\* A cancel of a running job takes effect even if the computation would never
\* end, as long as it keeps asking (check_cancelled of worker/context.py).
CancelTakesEffect == scenario = "endless" => Endless!CancelTakesEffect
=============================================================================
