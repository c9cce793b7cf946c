------------------------------ MODULE AgentRun ------------------------------
(***************************************************************************)
(* One durable run of AgentEngine (agent/engine.py) over SQLiteStore: the   *)
(* portable and native loops, the auto fallback, budgets, approval, cancel, *)
(* and the checkpoints from which a later process resumes the run.          *)
(*                                                                         *)
(* A commit to the store and a dispatch of a tool are each one step, so a   *)
(* crash can fall between any two of them.  The store answers only "status  *)
(* of the run" and "checkpoint of highest sequence", so that is all of it   *)
(* that is kept.                                                            *)
(*                                                                         *)
(* A definition named A_B is A with a bug, and no part of the model: it is  *)
(* what A is replaced by to see that a property notices.                    *)
(***************************************************************************)
EXTENDS Integers, Sequences, FiniteSets

CONSTANTS
    Calls,        \* the distinct calls a model may ask for, one tool each
    NoCall,       \* a model value: no call
    Gated,        \* calls whose tool is in approval_required_tools
    SecretKeys,   \* calls with a credential under a sensitive argument name
    SecretText,   \* calls with a credential inside an argument's text
    StartModes,   \* values of parse_mode a run is started with
    MaxSteps,     \* max_steps
    MaxErrors,    \* max_errors
    MaxToolCalls, \* max_tool_calls
    MaxRepeats,   \* max_repeated_tool_calls
    HasDeadline,  \* whether max_run_seconds is set
    MaxBatch,     \* bound: tool calls in one native reply
    MaxResumes,   \* bound: calls of resume_async
    MaxCrashes    \* bound: crashes of the process

ASSUME ConstantsAssumption ==
    /\ NoCall \notin Calls
    /\ Gated \subseteq Calls /\ SecretKeys \subseteq Calls /\ SecretText \subseteq Calls
    /\ StartModes \subseteq {"portable", "native", "auto"}
    /\ {MaxSteps, MaxErrors, MaxToolCalls, MaxRepeats} \subseteq Nat
    /\ HasDeadline \in BOOLEAN
    /\ {MaxBatch, MaxResumes, MaxCrashes} \subseteq Nat

VARIABLES
    row,       \* runs.status, "absent" before create_run
    saved,     \* the checkpoint of highest sequence; seq = -1 when there is none
    eng,       \* the engine: where its coroutine stands and its locals
    cancelled, \* _cancel_requested
    policy,    \* permission_policy.approval_required_tools
    world,     \* history: the tool executions that really happened, in order
    hist       \* history and environment bounds, never read by the engine

vars == <<row, saved, eng, cancelled, policy, world, hist>>

----------------------------------------------------------------------------
(* Data.  An action carries an id that tells two requests for one call      *)
(* apart; the program has no such id and no guard reads it.                 *)

Status == {"absent", "created", "running", "waiting_approval",
           "completed", "failed", "cancelled"}
\* Bug: a failed run may be resumed.
Terminal_OnlyCompleted == {"completed"}
Terminal == {"completed", "failed"}
Modes == {"portable", "native", "auto"}
PendStates == {"none", "in_flight", "awaiting_approval"}
Observations == {"none", "ok", "failed", "budget", "denied"}
Action == [call : Calls \cup {NoCall}, id : Nat, clear : BOOLEAN]
NoAction == [call |-> NoCall, id |-> 0, clear |-> TRUE]

Secret == SecretKeys \cup SecretText
\* contains_sensitive_data: a sensitive name is still one after redaction,
\* a credential in text is not.
Sensitive(a) == a.call \in SecretKeys \/ (a.call \in SecretText /\ a.clear)
\* redact_secrets
Redacted(a) == [a EXCEPT !.clear = @ /\ a.call \notin Secret]

\* Bug: a resume starts with a full budget.
ToolSteps_Forgotten(trace) == 0
\* A trace is the sequence of its entries: the id of the action of a tool
\* entry, 0 for any other entry.
ToolSteps(trace) == Cardinality({i \in DOMAIN trace : trace[i] # 0})
Ids(trace) == {trace[i] : i \in DOMAIN trace} \ {0}
Done == {world[i].id : i \in DOMAIN world}

Off == [pc |-> "off", mode |-> "portable", loop |-> "portable", how |-> "model",
        round |-> 1, trace |-> <<>>, errors |-> 0, lastFailed |-> FALSE,
        taken |-> 0, counts |-> [c \in Calls |-> 0], batch |-> <<>>,
        pend |-> "none", act |-> NoAction, obs |-> "none",
        status |-> "absent", seq |-> 0]

Init ==
    /\ row = "absent"
    /\ saved = [seq |-> -1, mode |-> "portable", trace |-> <<>>,
                pend |-> "none", act |-> NoAction, reauth |-> FALSE]
    /\ eng = Off
    /\ cancelled = FALSE
    /\ policy = Gated
    /\ world = <<>>
    /\ hist = [issued |-> 0, resumes |-> 0, crashes |-> 0, lost |-> {},
               fellBack |-> FALSE, held |-> FALSE, unresolved |-> FALSE]

----------------------------------------------------------------------------
(* Helpers of the engine.                                                   *)

\* Bug: the store answers with the last write, not the highest sequence.
Checkpoint_LastWriteWins(seq, e) ==
    saved' = [seq |-> seq, mode |-> e.mode, trace |-> e.trace, pend |-> e.pend,
              act |-> IF e.pend = "none" THEN NoAction ELSE Redacted(e.act),
              reauth |-> e.pend # "none" /\ Sensitive(e.act)]

\* _checkpoint and save_checkpoint, seen through get_latest_checkpoint: a
\* write below the highest sequence is never read back.
Checkpoint(seq, e) ==
    saved' = IF seq < saved.seq THEN saved
             ELSE [seq |-> seq, mode |-> e.mode, trace |-> e.trace, pend |-> e.pend,
                   act |-> IF e.pend = "none" THEN NoAction ELSE Redacted(e.act),
                   reauth |-> e.pend # "none" /\ Sensitive(e.act)]

\* Bug: the final checkpoint is one step low.
Finish_OneStepEarly(e, status, seq) ==
    [e EXCEPT !.pc = "status", !.status = status, !.seq = seq - 1]

\* The arguments of _result; its two commits are CommitStatus and FinalCheckpoint.
Finish(e, status, seq) ==
    [e EXCEPT !.pc = "status", !.status = status, !.seq = seq]

Logged(e, id) == [e EXCEPT !.trace = Append(@, id)]

\* What follows an observation: the next call of the batch or the next round.
Continue(e) ==
    IF Len(e.batch) > 1 THEN [e EXCEPT !.pc = "dispatch", !.batch = Tail(@)]
    ELSE [e EXCEPT !.pc = "top", !.round = @ + 1, !.batch = <<>>]

\* A failure of the model or of a tool is one more error in a row.
AfterError(e) ==
    IF e.errors + 1 >= MaxErrors THEN Finish(e, "failed", e.round)
    ELSE Continue([e EXCEPT !.errors = @ + 1])

AfterSuccess(e) == Continue([e EXCEPT !.errors = 0, !.lastFailed = FALSE])

\* The sequence of the checkpoints around a tool call: the step in the portable
\* loop, trace_step in the native one, len(trace.steps) + 1 in resume_async.
CallSeq == IF eng.loop = "portable" /\ eng.how = "model" THEN eng.round
           ELSE Len(eng.trace) + 1

----------------------------------------------------------------------------
(* Starting and resuming.                                                   *)

RunAsync ==
    /\ eng.pc = "off" /\ row = "absent"
    /\ \E m \in StartModes :
          eng' = [Off EXCEPT !.pc = "created", !.mode = m,
                             !.loop = IF m = "portable" THEN "portable" ELSE "native"]
    /\ row' = "created"
    /\ UNCHANGED <<saved, cancelled, policy, world, hist>>

MarkRunning ==
    /\ eng.pc = "created"
    /\ row' = "running"
    /\ eng' = [eng EXCEPT !.pc = "opening"]
    /\ UNCHANGED <<saved, cancelled, policy, world, hist>>

OpenCheckpoint ==
    /\ eng.pc = "opening"
    /\ Checkpoint(0, eng)
    /\ eng' = [eng EXCEPT !.pc = "top"]
    /\ UNCHANGED <<row, cancelled, policy, world, hist>>

\* resume_async up to its first commit.
ResumeAsync(approve) ==
    /\ eng.pc = "off" /\ saved.seq >= 0
    /\ row \notin Terminal
    /\ hist.resumes < MaxResumes
    /\ row' = "running"
    /\ eng' = [Off EXCEPT !.pc = "resuming", !.mode = saved.mode, !.trace = saved.trace,
                          !.loop = IF saved.mode = "native" THEN "native" ELSE "portable",
                          !.taken = ToolSteps(saved.trace),
                          !.how = IF approve THEN "approved" ELSE "model"]
    /\ hist' = [hist EXCEPT !.resumes = @ + 1]
    /\ UNCHANGED <<saved, cancelled, policy, world>>

\* Bug: the restored trace is not handed to the loop.
ResumeLoop_NewTrace ==
    /\ eng.pc = "resuming" /\ saved.pend = "none"
    /\ eng' = [eng EXCEPT !.pc = "top", !.how = "model", !.trace = <<>>]
    /\ UNCHANGED <<row, saved, cancelled, policy, world, hist>>

\* No pending action: into the loop.  The native loop counts its rounds from 1
\* again, the portable one goes on from the restored trace.
ResumeLoop ==
    /\ eng.pc = "resuming" /\ saved.pend = "none"
    /\ eng' = [eng EXCEPT !.pc = "top", !.how = "model",
                          !.round = IF eng.loop = "native" THEN 1 ELSE Len(eng.trace) + 1]
    /\ UNCHANGED <<row, saved, cancelled, policy, world, hist>>

\* A redacted or native pending action, or one nobody approved, stays pending.
ResumeHold ==
    /\ eng.pc = "resuming" /\ saved.pend # "none"
    /\ \/ saved.reauth
       \/ eng.mode = "native"
       \/ saved.pend # "in_flight" /\ eng.how = "model"
    /\ eng' = Finish([eng EXCEPT !.pend = saved.pend, !.act = saved.act],
                     "waiting_approval", Len(eng.trace))
    /\ UNCHANGED <<row, saved, cancelled, policy, world, hist>>

\* The tool may have run: the run fails.
ResumeInFlight ==
    /\ eng.pc = "resuming" /\ saved.pend = "in_flight"
    /\ ~saved.reauth /\ eng.mode # "native"
    /\ eng' = Finish(eng, "failed", Len(eng.trace))
    /\ UNCHANGED <<row, saved, cancelled, policy, world, hist>>

\* Bug: approval also replays an in_flight action.
ResumeApproved_InFlightToo ==
    /\ eng.pc = "resuming" /\ saved.pend # "none"
    /\ ~saved.reauth /\ eng.mode # "native" /\ eng.how = "approved"
    /\ policy' = policy \ {saved.act.call}
    /\ eng' = [eng EXCEPT !.pc = "exec", !.act = saved.act]
    /\ UNCHANGED <<row, saved, cancelled, world, hist>>

\* The approved action: its tool leaves the policy and is executed at once,
\* with no checkpoint before.
ResumeApproved ==
    /\ eng.pc = "resuming" /\ saved.pend = "awaiting_approval"
    /\ ~saved.reauth /\ eng.mode # "native" /\ eng.how = "approved"
    /\ policy' = policy \ {saved.act.call}
    /\ eng' = [eng EXCEPT !.pc = "exec", !.act = saved.act]
    /\ UNCHANGED <<row, saved, cancelled, world, hist>>

----------------------------------------------------------------------------
(* The loops.                                                               *)

LoopExhausted ==
    /\ eng.pc = "top" /\ eng.round > MaxSteps
    /\ eng' = Finish(eng, "failed", MaxSteps)
    /\ UNCHANGED <<row, saved, cancelled, policy, world, hist>>

\* Bug: one step too few is reported.
Deadline_OneStepEarly ==
    /\ eng.pc = "top" /\ eng.round <= MaxSteps
    /\ HasDeadline
    /\ eng' = Finish(eng, "failed", eng.round - 2)
    /\ UNCHANGED <<row, saved, cancelled, policy, world, hist>>

\* _run_timed_out
Deadline ==
    /\ eng.pc = "top" /\ eng.round <= MaxSteps
    /\ HasDeadline
    /\ eng' = Finish(eng, "failed", eng.round - 1)
    /\ UNCHANGED <<row, saved, cancelled, policy, world, hist>>

\* _cancel_result
StopCancelled ==
    /\ eng.pc = "top" /\ eng.round <= MaxSteps
    /\ cancelled
    /\ eng' = Finish(Logged(eng, 0), "cancelled", eng.round - 1)
    /\ UNCHANGED <<row, saved, cancelled, policy, world, hist>>

\* _prepare_native_request finds no request within the context budget.
ContextError ==
    /\ eng.pc = "top" /\ eng.round <= MaxSteps /\ ~cancelled
    /\ eng.loop = "native"
    /\ eng' = Finish(Logged(eng, 0), "failed", eng.round)
    /\ UNCHANGED <<row, saved, cancelled, policy, world, hist>>

CallModel ==
    /\ eng.pc = "top" /\ eng.round <= MaxSteps /\ ~cancelled
    /\ eng' = [eng EXCEPT !.pc = "model"]
    /\ UNCHANGED <<row, saved, cancelled, policy, world, hist>>

\* A parse error of the portable loop, an exception of the LLM in either.
ModelFails ==
    /\ eng.pc = "model"
    /\ eng' = AfterError(Logged(eng, 0))
    /\ UNCHANGED <<row, saved, cancelled, policy, world, hist>>

\* Bug: last_tool_failed is not looked at.
FinalAnswer_AlwaysCompletes ==
    /\ eng.pc = "model"
    /\ eng' = Finish(Logged(eng, 0), "completed", eng.round)
    /\ UNCHANGED <<row, saved, cancelled, policy, world, hist>>

FinalAnswer ==
    /\ eng.pc = "model"
    /\ eng' = Finish(Logged(eng, 0),
                     IF eng.lastFailed THEN "failed" ELSE "completed", eng.round)
    /\ UNCHANGED <<row, saved, cancelled, policy, world, hist>>

\* Bug: the mode is not switched.
Fallback_StaysNative ==
    /\ eng.pc = "model" /\ eng.loop = "native" /\ eng.mode = "auto"
    /\ eng' = [eng EXCEPT !.pc = "top", !.round = 1, !.trace = <<>>, !.errors = 0,
                          !.lastFailed = FALSE]
    /\ hist' = [hist EXCEPT !.fellBack = TRUE]
    /\ UNCHANGED <<row, saved, cancelled, policy, world>>

\* Auto mode: the native reply is portable JSON.  The portable loop starts over
\* with a new trace; only the counters kept on the engine survive.
Fallback ==
    /\ eng.pc = "model" /\ eng.loop = "native" /\ eng.mode = "auto"
    /\ eng' = [eng EXCEPT !.pc = "top", !.mode = "portable", !.loop = "portable",
                          !.round = 1, !.trace = <<>>, !.errors = 0, !.lastFailed = FALSE]
    /\ hist' = [hist EXCEPT !.fellBack = TRUE]
    /\ UNCHANGED <<row, saved, cancelled, policy, world>>

\* One call in the portable loop, a batch of them in the native one.
ToolCalls ==
    /\ eng.pc = "model"
    /\ \E n \in 1..(IF eng.loop = "portable" THEN 1 ELSE MaxBatch) :
          \E b \in [1..n -> Calls] : eng' = [eng EXCEPT !.pc = "dispatch", !.batch = b]
    /\ UNCHANGED <<row, saved, cancelled, policy, world, hist>>

\* Bug: no checkpoint before the tool runs.
WriteInFlight_NotSaved ==
    /\ eng.pc = "dispatch"
    /\ eng' = [eng EXCEPT !.pc = "exec", !.pend = "in_flight",
                          !.act = [call |-> Head(eng.batch), id |-> hist.issued + 1,
                                   clear |-> TRUE]]
    /\ hist' = [hist EXCEPT !.issued = @ + 1]
    /\ UNCHANGED <<row, saved, cancelled, policy, world>>

\* The checkpoint before the next call of the batch is executed.
WriteInFlight ==
    /\ eng.pc = "dispatch"
    /\ eng' = [eng EXCEPT !.pc = "exec", !.pend = "in_flight",
                          !.act = [call |-> Head(eng.batch), id |-> hist.issued + 1,
                                   clear |-> TRUE]]
    /\ Checkpoint(CallSeq, eng')
    /\ hist' = [hist EXCEPT !.issued = @ + 1]
    /\ UNCHANGED <<row, cancelled, policy, world>>

----------------------------------------------------------------------------
(* _execute_budgeted and ToolExecutor.execute.                              *)

Counted(e) == [e EXCEPT !.taken = @ + 1, !.counts[e.act.call] = @ + 1]
OverBudget(e) == e.taken > MaxToolCalls \/ e.counts[e.act.call] > MaxRepeats

Observed(obs) == eng' = [Counted(eng) EXCEPT !.pc = "observe", !.obs = obs]

BudgetBlocks ==
    /\ eng.pc = "exec"
    /\ OverBudget(Counted(eng))
    /\ Observed("budget")
    /\ UNCHANGED <<row, saved, cancelled, policy, world, hist>>

\* An unknown tool, invalid arguments, or a capability that is not granted.
ToolRejected ==
    /\ eng.pc = "exec"
    /\ ~OverBudget(Counted(eng))
    /\ Observed("failed")
    /\ UNCHANGED <<row, saved, cancelled, policy, world, hist>>

\* PermissionPolicy.check without an approval callback.
ApprovalDenied ==
    /\ eng.pc = "exec"
    /\ ~OverBudget(Counted(eng)) /\ eng.act.call \in policy
    /\ Observed("denied")
    /\ UNCHANGED <<row, saved, cancelled, policy, world, hist>>

\* The tool runs: its effect on the world is there whatever it returns.
ToolRuns(obs) ==
    /\ eng.pc = "exec"
    /\ ~OverBudget(Counted(eng)) /\ eng.act.call \notin policy
    /\ Observed(obs)
    /\ world' = Append(world, [call |-> eng.act.call, id |-> eng.act.id,
                               clear |-> eng.act.clear, how |-> eng.how])
    /\ UNCHANGED <<row, saved, cancelled, policy, hist>>

\* The observation is logged and saved before the loop looks at it.
Settled == [Logged(eng, eng.act.id) EXCEPT !.pend = "none", !.act = NoAction, !.obs = "none"]

Observe == hist' = [hist EXCEPT !.unresolved = eng.obs # "ok",
                                !.held = @ \/ (eng.obs = "denied" /\ eng.loop = "native")]

\* A call of the loop that needs approval: the run waits for it.
AwaitApproval ==
    /\ eng.pc = "observe" /\ eng.how = "model" /\ eng.obs = "denied"
    /\ Checkpoint(CallSeq, Settled)
    /\ eng' = Finish([Settled EXCEPT !.pend = "awaiting_approval", !.act = eng.act],
                     "waiting_approval", eng.round)
    /\ Observe
    /\ UNCHANGED <<row, cancelled, policy, world>>

\* Any other observation of a call of the loop.
RecordObservation ==
    /\ eng.pc = "observe" /\ eng.how = "model" /\ eng.obs # "denied"
    /\ Checkpoint(CallSeq, Settled)
    /\ eng' = IF eng.obs = "ok" THEN AfterSuccess(Settled)
              ELSE AfterError([Settled EXCEPT !.lastFailed = TRUE])
    /\ Observe
    /\ UNCHANGED <<row, cancelled, policy, world>>

\* Bug: no finally clause.
RecordApproved_PolicyNotRestored ==
    /\ eng.pc = "observe" /\ eng.how = "approved"
    /\ Checkpoint(CallSeq, Settled)
    /\ eng' = IF eng.obs = "ok"
              THEN [Settled EXCEPT !.pc = "top", !.how = "model",
                                   !.round = Len(Settled.trace) + 1]
              ELSE Finish(Settled, "failed", Len(Settled.trace))
    /\ Observe
    /\ UNCHANGED <<row, cancelled, policy, world>>

\* The observation of the approved action: the policy is as before again, and
\* the loop goes on if the tool succeeded.
RecordApproved ==
    /\ eng.pc = "observe" /\ eng.how = "approved"
    /\ policy' = policy \cup ({eng.act.call} \cap Gated)
    /\ Checkpoint(CallSeq, Settled)
    /\ eng' = IF eng.obs = "ok"
              THEN [Settled EXCEPT !.pc = "top", !.how = "model",
                                   !.round = Len(Settled.trace) + 1]
              ELSE Finish(Settled, "failed", Len(Settled.trace))
    /\ Observe
    /\ UNCHANGED <<row, cancelled, world>>

----------------------------------------------------------------------------
(* _result: two commits, one after the other.                               *)

CommitStatus ==
    /\ eng.pc = "status"
    /\ row' = eng.status
    /\ eng' = [eng EXCEPT !.pc = "final"]
    /\ UNCHANGED <<saved, cancelled, policy, world, hist>>

FinalCheckpoint ==
    /\ eng.pc = "final"
    /\ Checkpoint(eng.seq, eng)
    /\ eng' = Off
    /\ UNCHANGED <<row, cancelled, policy, world, hist>>

----------------------------------------------------------------------------
(* The environment.                                                         *)

Cancel ==
    /\ ~cancelled /\ cancelled' = TRUE
    /\ UNCHANGED <<row, saved, eng, policy, world, hist>>

ResetCancel ==
    /\ cancelled /\ eng.pc = "off" /\ cancelled' = FALSE
    /\ UNCHANGED <<row, saved, eng, policy, world, hist>>

\* The process dies: what is not in the store is gone.  hist.lost names the
\* approved actions that ran and whose observation was never saved.
Crash ==
    /\ eng.pc # "off" /\ hist.crashes < MaxCrashes
    /\ eng' = Off
    /\ cancelled' = FALSE
    /\ policy' = Gated
    /\ hist' = [hist EXCEPT !.crashes = @ + 1,
                            !.lost = IF eng.pc = "observe" /\ eng.how = "approved"
                                     THEN @ \cup {eng.act.id} ELSE @]
    /\ UNCHANGED <<row, saved, world>>

EngineStep ==
    \/ MarkRunning \/ OpenCheckpoint
    \/ ResumeLoop \/ ResumeHold \/ ResumeInFlight \/ ResumeApproved
    \/ LoopExhausted \/ Deadline \/ StopCancelled \/ ContextError \/ CallModel
    \/ ModelFails \/ FinalAnswer \/ Fallback \/ ToolCalls \/ WriteInFlight
    \/ BudgetBlocks \/ ToolRejected \/ ApprovalDenied
    \/ \E obs \in {"ok", "failed"} : ToolRuns(obs)
    \/ AwaitApproval \/ RecordObservation \/ RecordApproved
    \/ CommitStatus \/ FinalCheckpoint

Next ==
    \/ RunAsync
    \/ \E approve \in BOOLEAN : ResumeAsync(approve)
    \/ Cancel \/ ResetCancel \/ Crash
    \/ EngineStep

Spec == Init /\ [][Next]_vars

\* The event loop keeps running the coroutine, and the model and the tools
\* return: both clients give up after a timeout.
FairSpec == Spec /\ WF_vars(EngineStep)

----------------------------------------------------------------------------
(* Properties.                                                              *)

EngState ==
    [pc : {"off", "created", "opening", "resuming", "top", "model", "dispatch",
           "exec", "observe", "status", "final"},
     mode : Modes, loop : {"portable", "native"}, how : {"model", "approved"},
     round : Nat, trace : Seq(Nat), errors : Nat, lastFailed : BOOLEAN,
     taken : Nat, counts : [Calls -> Nat], batch : Seq(Calls),
     pend : PendStates, act : Action, obs : Observations, status : Status, seq : Nat]

SavedState == [seq : Nat \cup {-1}, mode : Modes, trace : Seq(Nat), pend : PendStates,
               act : Action, reauth : BOOLEAN]

Effect == [call : Calls, id : Nat, clear : BOOLEAN, how : {"model", "approved"}]

TypeOK ==
    /\ row \in Status
    /\ saved \in SavedState
    /\ eng \in EngState
    /\ cancelled \in BOOLEAN
    /\ policy \subseteq Calls
    /\ world \in Seq(Effect)
    /\ hist \in [issued : Nat, resumes : Nat, crashes : Nat, lost : SUBSET Nat,
                 fellBack : BOOLEAN, held : BOOLEAN, unresolved : BOOLEAN]

\* Whatever tool has run is known to whoever resumes the run: the latest
\* checkpoint has it in its trace or as its pending action.  (Not so once the
\* auto mode has fallen back, which restarts trace and sequence.)
EffectsAccounted ==
    ~hist.fellBack =>
        Done \subseteq Ids(saved.trace) \cup (IF saved.pend = "none" THEN {} ELSE {saved.act.id})

\* An action runs a second time only if a crash hid the first run of an action
\* the caller had approved; an in_flight action is never run again.
NoUnapprovedRerun ==
    \A i, j \in DOMAIN world :
        i # j /\ world[i].id = world[j].id => world[i].id \in hist.lost

\* A tool that requires approval runs only as the action a caller approved,
\* not after it and not because it was approved once.
GatedNeedsApproval ==
    \A i \in DOMAIN world : world[i].call \in Gated => world[i].how = "approved"

\* Over all the resumes of a run together no more tools run than max_tool_calls,
\* but for one execution per crash, whose observation the crash may have lost.
BudgetHolds == ~hist.fellBack => Len(world) <= MaxToolCalls + hist.crashes

\* A run that ends as completed without a restart in between has no failed tool
\* after its last successful one.
HonestCompletion ==
    row = "completed" /\ hist.resumes = 0 /\ ~hist.fellBack => ~hist.unresolved

\* A portable run that waits for approval has the action on record for the
\* caller to approve, unless a crash fell between the two commits of _result.
WaitingHasAction ==
    row = "waiting_approval" /\ eng.pc = "off" /\ hist.crashes = 0
      /\ saved.mode = "portable" /\ ~hist.fellBack
        => saved.pend = "awaiting_approval"

\* The durable trace is only ever extended: no resume rewrites what an earlier
\* process recorded.
TraceOnlyGrows ==
    [][~hist'.fellBack =>
          /\ Len(saved.trace) <= Len(saved'.trace)
          /\ saved.trace = SubSeq(saved'.trace, 1, Len(saved.trace))]_saved

\* The run keeps the contract it gives through its status row: effects only
\* while running, gated ones only approved, none after completed or failed.
Contract == INSTANCE RunContract WITH status <- row, effects <- world
KeepsContract == Contract!Spec

\* Every call of run_async or resume_async returns, or its process dies.
SessionEnds == (eng.pc # "off") ~> (eng.pc = "off")

----------------------------------------------------------------------------
(* What the documentation says, and the code does not do.                   *)

\* The comment in _checkpoint: redacted arguments are never replayed.
NoRedactedArguments == \A i \in DOMAIN world : world[i].clear

\* README.md: a native pending call must be reconciled by hand, so once a run
\* has stopped for one no resume takes it further.
NativePendingHeld ==
    hist.held => eng.pc \notin {"top", "model", "dispatch", "exec", "observe"}
=============================================================================
