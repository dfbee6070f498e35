----------------------------- MODULE MCDeadline -----------------------------
(***************************************************************************)
(* TLC instance of DeadlineLifecycle.  A behaviour plays in one of two      *)
(* scenes: people and one sweep at a time work on a single deadline, or     *)
(* overlapping sweeps work through many deadlines that nobody touches.      *)
(***************************************************************************)
EXTENDS DeadlineLifecycle

CONSTANTS
  AttendedDeadline,  \* the deadline of the scene with people
  AttendedSweep      \* the sweep of that scene

VARIABLE scene

WithPeople ==
  /\ \A d \in Deadlines \ {AttendedDeadline} : status[d] = "none"
  /\ \A s \in Sweeps \ {AttendedSweep} : sweep[s] = NoWork
WithoutPeople == \A r \in Requests : request[r] = Idle
InScene == IF scene = "people" THEN WithPeople ELSE WithoutPeople

MCInit == Init /\ scene \in {"people", "sweeps"}
MCNext == UNCHANGED scene /\ Next /\ InScene'

\* The fairness of FairSpec, for the sweeps in the scene and the events that
\* the scenes have: a deadline nobody touches is announced as overdue only.
\* Neither a consumer nor the attended sweep leaves the scene.
SceneEvents == {e \in AllEvents : e.deadline = AttendedDeadline \/ e.kind = "overdue"}
MCFairness ==
  /\ WF_vars(Sweep(AttendedSweep))
  /\ \A s \in Sweeps \ {AttendedSweep} : WF_vars(scene = "sweeps" /\ Sweep(s))
  /\ \A e \in SceneEvents : WF_vars(Handle(e))

MCFairSpec == MCInit /\ [][MCNext]_<<vars, scene>> /\ MCFairness
=============================================================================
