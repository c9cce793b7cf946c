---------------------------- MODULE AgentRunInv ----------------------------
(***************************************************************************)
(* The inductive invariant of AgentRun, in named parts.  TLC checks it on   *)
(* small instances; AgentRunProofs proves it and draws the theorems from it. *)
(***************************************************************************)
EXTENDS AgentRun

Executing == eng.pc \in {"exec", "observe"}
Looping == eng.pc \in {"top", "model", "dispatch"}
Ending == eng.pc \in {"status", "final"}
Approved == Executing /\ eng.how = "approved"

\* What is pending, as the set of its one id.
Pending(s) == IF s.pend = "none" THEN {} ELSE {s.act.id}

\* Whoever executes or waits has a real action to execute or to wait for.
ActInv ==
    /\ eng.round >= 1
    /\ eng.pc = "dispatch" => eng.batch # <<>>
    /\ ~(eng.pc = "dispatch" \/ Executing \/ Ending) => eng.batch = <<>>
    /\ eng.pc \in {"created", "opening"} \/ Looping => eng.how = "model"
    /\ Approved => eng.batch = <<>>
    /\ ~(Executing \/ Ending) => eng.pend = "none"
    /\ Executing \/ eng.pend # "none" => eng.act.call \in Calls /\ eng.act.id >= 1
    /\ saved.pend # "none" => saved.act.call \in Calls /\ saved.act.id >= 1

\* The status row follows the coroutine, and the policy misses a tool only
\* while the action a caller approved is executed.
FlowInv ==
    /\ row \in {"absent", "created"} => saved.seq = -1 /\ world = <<>>
    /\ row = "absent" => eng.pc = "off"
    /\ eng.pc = "created" <=> (row = "created" /\ eng.pc # "off")
    /\ ~(eng.pc \in {"off", "created", "final"}) => row = "running"
    /\ eng.pc = "opening" => saved.seq = -1 /\ world = <<>>
    /\ eng.pc \in {"created", "opening"} => eng.trace = <<>>
    /\ eng.pc \in {"created", "opening", "resuming"} => eng.round = 1
    /\ Ending => eng.status \in {"waiting_approval", "completed", "failed", "cancelled"}
    /\ policy = IF Approved THEN Gated \ {eng.act.call} ELSE Gated

\* Sequences of checkpoints against lengths of traces, of what is saved, in the
\* loops, when the run ends and when it is resumed.
SavedSeq ==
    /\ saved.seq <= Len(saved.trace) + 1
    /\ saved.pend = "in_flight" => saved.seq = Len(saved.trace) + 1

LoopSeq ==
    /\ Looping \/ Executing => eng.round <= Len(eng.trace) + 1
    /\ (Looping \/ Executing) /\ eng.loop = "portable" /\ eng.how = "model"
         => eng.round = Len(eng.trace) + 1
    /\ eng.loop = "portable" => Len(eng.batch) <= 1

EndSeq ==
    /\ Ending => eng.seq <= Len(eng.trace) + 1
    /\ Ending /\ eng.pend = "in_flight" => eng.seq < saved.seq

ResumeSeq ==
    /\ eng.pc = "resuming" \/ Approved => eng.trace = saved.trace
    /\ Approved => saved.pend = "awaiting_approval" /\ saved.act = eng.act

SeqInv == SavedSeq /\ LoopSeq /\ EndSeq /\ ResumeSeq

\* Every tool that ran is on record: in the store, in the loops, around an
\* execution, and in what the end of the run is about to save.
OnRecord == Done \subseteq Ids(saved.trace) \cup Pending(saved)

LoopLedger ==
    Looping => saved.seq <= Len(eng.trace) + 1 /\ Done \subseteq Ids(eng.trace)

ExecLedger ==
    Executing => /\ saved.seq <= Len(eng.trace) + 1
                 /\ Done \subseteq Ids(eng.trace) \cup {eng.act.id}
                 /\ saved.pend # "none" /\ saved.act.id = eng.act.id

EndLedger ==
    Ending => eng.seq < saved.seq \/ Done \subseteq Ids(eng.trace) \cup Pending(eng)

LedgerInv == ~hist.fellBack => OnRecord /\ LoopLedger /\ ExecLedger /\ EndLedger

\* An action that may still be executed has not run, or a crash lost its run.
Issued ==
    /\ Done \subseteq 1..hist.issued
    /\ saved.act.id <= hist.issued /\ eng.act.id <= hist.issued

FreshCall ==
    /\ eng.how = "model" /\ (eng.pc = "exec" \/ (eng.pc = "observe" /\ eng.obs = "denied"))
         => eng.act.id \notin Done
    /\ eng.how = "model" /\ Executing /\ saved.pend = "awaiting_approval"
         => saved.act.id # eng.act.id

Unrun(id) == id \in Done => id \in hist.lost

EndUnrun == Ending /\ eng.pend = "awaiting_approval" => Unrun(eng.act.id)

SavedUnrun ==
    saved.pend = "awaiting_approval" /\ ~(Approved /\ eng.pc = "observe")
      => Unrun(saved.act.id)

RerunInv == Issued /\ FreshCall /\ EndUnrun /\ SavedUnrun /\ NoUnapprovedRerun

IndInv == TypeOK /\ ActInv /\ FlowInv /\ SeqInv /\ LedgerInv /\ RerunInv
=============================================================================
