---------------------------- MODULE RunContract ----------------------------
(***************************************************************************)
(* What a durable run promises whoever looks at its status: tools run only  *)
(* while it is running, those that need approval only when approved, and a  *)
(* run that completed or failed never does anything again.                  *)
(***************************************************************************)
EXTENDS Sequences

CONSTANT Gated

VARIABLES status, effects

Outcome == {"waiting_approval", "completed", "failed", "cancelled"}

Init == status = "absent" /\ effects = <<>>

Create == status = "absent" /\ status' = "created" /\ UNCHANGED effects

Start == status = "created" /\ status' = "running" /\ UNCHANGED effects

\* A tool runs, once approved if it needs that.
Perform ==
    /\ status = "running"
    /\ \E i \in DOMAIN effects' :
          /\ effects' = Append(effects, effects'[i])
          /\ effects'[i].call \in Gated => effects'[i].how = "approved"
    /\ UNCHANGED status

Stop(outcome) == status = "running" /\ status' = outcome /\ UNCHANGED effects

\* Whoever finds the run stopped, or abandoned while running, may take it up.
Resume ==
    /\ status \in {"running", "waiting_approval", "cancelled"}
    /\ status' = "running"
    /\ UNCHANGED effects

Next ==
    \/ Create \/ Start \/ Resume
    \/ \E outcome \in Outcome : Stop(outcome)
    \/ Perform

Spec == Init /\ [][Next]_<<status, effects>>
=============================================================================
