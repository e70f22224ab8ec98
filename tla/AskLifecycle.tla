---------------------------- MODULE AskLifecycle ----------------------------
(***************************************************************************)
(* What a user is promised about one question: it advances step by step,   *)
(* a stop lets the step in progress finish and then pauses, a paused       *)
(* question continues where it stopped, and only from there; done and      *)
(* error are final.                                                        *)
(***************************************************************************)
EXTENDS Naturals

CONSTANT LastStep    \* the number of super-steps that the question takes

VARIABLES phase,     \* "new", "running", "stopping", "paused", "done", "error"
          step       \* super-steps completed

lifecycle == <<phase, step>>

Init == phase = "new" /\ step = 0

Ask == phase = "new" /\ phase' = "running" /\ UNCHANGED step

Advance == /\ phase = "running" /\ step < LastStep
           /\ step' = step + 1
           /\ UNCHANGED phase

Stop == phase = "running" /\ phase' = "stopping" /\ UNCHANGED step

\* The step in progress may still complete, none is begun after it.
Pause == /\ phase = "stopping" /\ phase' = "paused"
         /\ step' \in {step, step + 1} /\ step' <= LastStep

Resume == phase = "paused" /\ phase' = "running" /\ UNCHANGED step

Finish == /\ phase \in {"running", "stopping"} /\ step = LastStep
          /\ phase' = "done"
          /\ UNCHANGED step

Fail == /\ phase \in {"running", "stopping"}
        /\ phase' = "error"
        /\ UNCHANGED step

Next == Ask \/ Advance \/ Stop \/ Pause \/ Resume \/ Finish \/ Fail

\* A question that runs gets on.
Progress == WF_lifecycle(Advance \/ Pause \/ Finish \/ Fail)

Spec == Init /\ [][Next]_lifecycle /\ Progress
=============================================================================
