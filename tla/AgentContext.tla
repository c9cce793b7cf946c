---------------------------- MODULE AgentContext ----------------------------
(***************************************************************************)
(* The message list an engine carries through the runs of a session:       *)
(* ContextManager (agent/context.py), what the native and portable loops    *)
(* append to it, its compression before a request, and its copy in the      *)
(* checkpoints.                                                             *)
(*                                                                         *)
(* A message is what its position in the protocol depends on; its size is   *)
(* one unit of the token budget, two for a long result or summary.  Which   *)
(* checkpoint is the latest is the subject of AgentRun: where that depends  *)
(* on sequences, the last one written here may or may not be the one read   *)
(* back.  Only the last run of the session is resumed.                      *)
(*                                                                         *)
(* A definition named A_B is A with a bug, and no part of the model.        *)
(***************************************************************************)
EXTENDS Integers, SequencesExt, Picked

CONSTANTS
    Tasks,      \* texts of user tasks
    NoTask,     \* a model value: text that is no task
    StartModes, \* values of parse_mode
    HasSystem,  \* whether the caller put a system message in the context
    RecentKeep, \* recent_keep
    MaxTokens,  \* max_context_tokens
    Overhead,   \* size of the system prompt, memories and tool schemas
    MaxBatch,   \* bound: tool calls in one native reply
    MaxReplies, \* bound: replies of the model
    MaxRuns,    \* bound: calls of run_async
    MaxPins,    \* bound: important messages the caller adds
    MaxBreaks   \* bound: crashes and resumes

\* With recent_keep = 0 compress indexes past the end of its list.
ASSUME ConstantsAssumption ==
    /\ NoTask \notin Tasks /\ StartModes \subseteq {"portable", "native", "auto"}
    /\ HasSystem \in BOOLEAN
    /\ RecentKeep \in Nat \ {0}
    /\ {MaxTokens, Overhead, MaxBatch, MaxReplies, MaxRuns, MaxPins, MaxBreaks} \subseteq Nat

VARIABLES
    msgs,  \* ContextManager._messages
    saved, \* context, mode and pending state of the latest checkpoint
    run,   \* the loop that is running
    hist   \* bounds, and the calls whose batch was interrupted

vars == <<msgs, saved, run, hist>>

----------------------------------------------------------------------------
(* Messages.                                                                *)

Text(role, task) == [role |-> role, task |-> task, calls |-> <<>>, id |-> 0,
                     pinned |-> FALSE, long |-> FALSE]

System == Text("system", NoTask)
User(task) == Text("user", task)
Recovery == User(NoTask)
Note == [User(NoTask) EXCEPT !.pinned = TRUE]
Assistant(calls) == [Text("assistant", NoTask) EXCEPT !.calls = calls]
\* id = 0: a result of the portable loop, which has no tool_call_id.
Tool(id, long) == [Text("tool", NoTask) EXCEPT !.id = id, !.long = long]

Preamble == IF HasSystem THEN <<System>> ELSE <<>>

\* estimate_tokens
Tokens(s) == Len(s) + Cardinality({i \in DOMAIN s : s[i].long})

----------------------------------------------------------------------------
(* Compression.                                                             *)

\* How many system messages lead the list.
Leading(s) == CHOOSE n \in 0..Len(s) :
                 /\ \A i \in 1..n : s[i].role = "system"
                 /\ n < Len(s) => s[n + 1].role # "system"

\* The positions of the other messages.
Rest(s) == Leading(s) + 1..Len(s)

Loose(s) == Pick(s, {i \in Rest(s) : ~s[i].pinned})
Pinned(s) == Pick(s, {i \in Rest(s) : s[i].pinned})

\* Bug: the recent part may begin with the results of a call that is cut off.
OldCount_CutsBatches(loose) ==
    IF Len(loose) > RecentKeep THEN Len(loose) - RecentKeep ELSE 0

\* How many messages are summarised: not the last RecentKeep, nor the call to
\* which the first of those is a result.
OldCount(loose) ==
    LET limit == IF Len(loose) > RecentKeep THEN Len(loose) - RecentKeep ELSE 0
    IN  CHOOSE n \in 0..limit :
           /\ n = 0 \/ loose[n + 1].role # "tool"
           /\ \A k \in n + 1..limit : loose[k + 1].role = "tool"

\* _rule_based_summarizer: a summary quotes the last user and the last assistant
\* message it stands for, which makes it long, and no summary before it.  Of
\* each it quotes the first 200 characters: here a task is what they say of it.
Summary(old) ==
    LET users == {i \in DOMAIN old : old[i].role = "user"}
        task == IF users = {} THEN NoTask
                ELSE old[CHOOSE i \in users : \A j \in users : j <= i].task
    IN  IF old = <<>> THEN <<>>
        ELSE <<[Text("summary", task) EXCEPT
                   !.long = \E i \in DOMAIN old : old[i].role \in {"user", "assistant"}]>>

\* What compress returns, if forced.
Compressible(s) == Cardinality(Rest(s)) > RecentKeep

\* Bug: pinned messages are summarised with the others.
Compressed_ForgetsPins(s) ==
    LET rest == Pick(s, Rest(s))
        n == OldCount(rest)
    IN  SubSeq(s, 1, Leading(s)) \o Summary(SubSeq(rest, 1, n)) \o SubSeq(rest, n + 1, Len(rest))

\* Bug: the summary goes after the messages it comes before.
Compressed_SummaryLast(s) ==
    LET n == OldCount(Loose(s))
    IN  SubSeq(s, 1, Leading(s)) \o Pinned(s)
            \o SubSeq(Loose(s), n + 1, Len(Loose(s))) \o Summary(SubSeq(Loose(s), 1, n))

\* compress
Compressed(s) ==
    LET n == OldCount(Loose(s))
    IN  SubSeq(s, 1, Leading(s)) \o Summary(SubSeq(Loose(s), 1, n))
            \o Pinned(s) \o SubSeq(Loose(s), n + 1, Len(Loose(s)))

----------------------------------------------------------------------------
(* _prepare_native_request.                                                 *)

\* Bug: the task is not looked for.
Reminded_Never(s) == s

Reminded(s) == IF \E i \in DOMAIN s : s[i].role = "user" /\ s[i].task = run.task THEN s
               ELSE Append(s, User(run.task))

Fits(s) == Overhead + Tokens(s) <= MaxTokens
Squeezable(s) == ~Fits(s) /\ Compressible(s)

\* The context after up to k forced compressions.
Squeezed(s) ==
    LET after[k \in 0..3] ==
            IF k = 0 THEN s
            ELSE IF Squeezable(after[k - 1]) THEN Compressed(after[k - 1]) ELSE after[k - 1]
    IN  after

Squeezes(s) == Cardinality({k \in 0..2 : Squeezable(Squeezed(s)[k])})

----------------------------------------------------------------------------

Idle == [pc |-> "idle", mode |-> "portable", loop |-> "portable", task |-> NoTask,
         batch |-> <<>>, squeezes |-> 0]

\* A checkpoint that no resume will read: none, or that of a run stored as
\* completed or failed.
Closed == [msgs |-> <<>>, mode |-> "portable", task |-> NoTask, pend |-> "none", open |-> FALSE]

Init ==
    /\ msgs = Preamble
    /\ saved = Closed
    /\ run = Idle
    /\ hist = [calls |-> 0, replies |-> 0, runs |-> 0, pins |-> 0, breaks |-> 0, cut |-> {}]

\* _checkpoint of the run r, where it is the latest.
Checkpoint(r, pend) ==
    saved' = [msgs |-> msgs', mode |-> r.mode, task |-> r.task, pend |-> pend, open |-> TRUE]

Close == saved' = Closed

RunAsync(t) ==
    /\ run.pc = "idle" /\ hist.runs < MaxRuns
    /\ \E m \in StartModes :
          run' = [Idle EXCEPT !.pc = "top", !.mode = m, !.task = t,
                              !.loop = IF m = "portable" THEN "portable" ELSE "native"]
    /\ msgs' = Append(msgs, User(t))
    /\ Checkpoint(run', "none")
    /\ hist' = [hist EXCEPT !.runs = @ + 1]

\* The caller marks a message as important.
AddNote ==
    /\ run.pc = "idle" /\ hist.pins < MaxPins
    /\ msgs' = Append(msgs, Note)
    /\ hist' = [hist EXCEPT !.pins = @ + 1]
    /\ UNCHANGED <<saved, run>>

NativeRequest ==
    /\ run.pc = "top" /\ run.loop = "native"
    /\ LET s == Reminded(msgs)
       IN  /\ msgs' = Squeezed(s)[3]
           /\ run' = IF Fits(msgs') THEN [run EXCEPT !.pc = "model", !.squeezes = Squeezes(s)]
                     ELSE Idle
    /\ IF run'.pc = "idle" THEN Close ELSE UNCHANGED saved
    /\ UNCHANGED hist

\* The portable loop compresses at most once and does not look again.
PortableRequest ==
    /\ run.pc = "top" /\ run.loop = "portable"
    /\ msgs' = IF Tokens(msgs) > MaxTokens /\ Compressible(msgs) THEN Compressed(msgs) ELSE msgs
    /\ run' = [run EXCEPT !.pc = "model"]
    /\ UNCHANGED <<saved, hist>>

\* Out of time or out of steps.
FailRun ==
    /\ run.pc = "top"
    /\ run' = Idle
    /\ Close
    /\ UNCHANGED <<msgs, hist>>

\* _cancel_result
CancelRun ==
    /\ run.pc = "top"
    /\ run' = Idle
    /\ UNCHANGED <<msgs, hist>>
    /\ Checkpoint(run, "none") \/ UNCHANGED saved

\* An error of the LLM, or of the parser in the portable loop.
ModelFails ==
    /\ run.pc = "model"
    /\ \/ UNCHANGED msgs
       \/ run.loop = "portable" /\ msgs' = Append(msgs, Recovery)
    /\ \/ run' = [run EXCEPT !.pc = "top"] /\ UNCHANGED saved
       \/ run' = Idle /\ Close
    /\ hist.replies < MaxReplies /\ hist' = [hist EXCEPT !.replies = @ + 1]

FinalAnswer ==
    /\ run.pc = "model"
    /\ msgs' = Append(msgs, Assistant(<<>>))
    /\ run' = Idle
    /\ Close
    /\ UNCHANGED hist

Fallback ==
    /\ run.pc = "model" /\ run.loop = "native" /\ run.mode = "auto"
    /\ run' = [run EXCEPT !.pc = "top", !.mode = "portable", !.loop = "portable"]
    /\ UNCHANGED <<msgs, saved, hist>>

NativeCalls ==
    /\ run.pc = "model" /\ run.loop = "native" /\ hist.replies < MaxReplies
    /\ \E n \in 1..MaxBatch :
          LET ids == [k \in 1..n |-> hist.calls + k]
          IN  /\ msgs' = Append(msgs, Assistant(ids))
              /\ run' = [run EXCEPT !.pc = "batch", !.batch = ids]
              /\ hist' = [hist EXCEPT !.calls = @ + n, !.replies = @ + 1]
    /\ UNCHANGED saved

PortableCall ==
    /\ run.pc = "model" /\ run.loop = "portable" /\ hist.replies < MaxReplies
    /\ run' = [run EXCEPT !.pc = "batch", !.batch = <<0>>]
    /\ hist' = [hist EXCEPT !.replies = @ + 1]
    /\ UNCHANGED <<msgs, saved>>

Dispatch ==
    /\ run.pc = "batch"
    /\ run' = [run EXCEPT !.pc = "exec"]
    /\ UNCHANGED <<msgs, hist>>
    /\ Checkpoint(run, "in_flight")

\* Bug: the native loop logs only the results of successful calls.
Result_OnlySuccess(ok, long) ==
    IF run.loop = "native" THEN (IF ok THEN <<Tool(Head(run.batch), long)>> ELSE <<>>)
    ELSE <<Assistant(<<>>), Tool(0, long)>> \o (IF ok THEN <<>> ELSE <<Recovery>>)

\* What the loops append after a tool call.
Result(ok, long) ==
    IF run.loop = "native" THEN <<Tool(Head(run.batch), long)>>
    ELSE <<Assistant(<<>>), Tool(0, long)>> \o (IF ok THEN <<>> ELSE <<Recovery>>)

\* The tool returns and the loop goes on with the batch or the next request.
ToolReturns(ok, long) ==
    /\ run.pc = "exec"
    /\ msgs' = msgs \o Result(ok, long)
    /\ run' = IF Len(run.batch) > 1 THEN [run EXCEPT !.pc = "batch", !.batch = Tail(@)]
              ELSE [run EXCEPT !.pc = "top", !.batch = <<>>]
    /\ Checkpoint(run, "none")
    /\ UNCHANGED hist

\* The tool call fails and the run stops there, for approval or because of
\* max_errors: the calls left in the batch get no result.
ToolStops(long) ==
    /\ run.pc = "exec"
    /\ msgs' = msgs \o Result(FALSE, long)
    /\ run' = Idle
    /\ Checkpoint(run, "awaiting_approval") \/ Checkpoint(run, "none") \/ Close
    /\ hist' = [hist EXCEPT !.cut = @ \cup ToSet(Tail(run.batch))]

----------------------------------------------------------------------------
(* Crashes and resumes.                                                     *)

Crash ==
    /\ hist.breaks < MaxBreaks
    /\ msgs' = Preamble
    /\ run' = Idle
    /\ hist' = [hist EXCEPT !.breaks = @ + 1, !.cut = @ \cup ToSet(run.batch)]
    /\ UNCHANGED saved

\* Bug: the mode is taken for the loop.
Restored_AutoLoop == [Idle EXCEPT !.mode = saved.mode, !.task = saved.task, !.loop = saved.mode]

Restored == [Idle EXCEPT !.mode = saved.mode, !.task = saved.task,
                         !.loop = IF saved.mode = "native" THEN "native" ELSE "portable"]

\* resume_async without a pending action.
ResumeLoop ==
    /\ run.pc = "idle" /\ saved.open /\ saved.pend = "none" /\ hist.breaks < MaxBreaks
    /\ msgs' = saved.msgs
    /\ run' = [Restored EXCEPT !.pc = "top"]
    /\ hist' = [hist EXCEPT !.breaks = @ + 1]
    /\ UNCHANGED saved

\* resume_async with one: it stays pending, or fails if it was in flight.
ResumeHeld ==
    /\ run.pc = "idle" /\ saved.open /\ saved.pend # "none" /\ hist.breaks < MaxBreaks
    /\ msgs' = saved.msgs
    /\ run' = Idle
    /\ IF saved.pend = "in_flight" /\ saved.mode # "native" THEN Close ELSE UNCHANGED saved
    /\ hist' = [hist EXCEPT !.breaks = @ + 1]

\* resume_async with a portable action the caller approves.
ResumeApproved(ok, long) ==
    /\ run.pc = "idle" /\ saved.open /\ hist.breaks < MaxBreaks
    /\ saved.pend = "awaiting_approval" /\ saved.mode # "native"
    /\ msgs' = saved.msgs \o <<Assistant(<<>>), Tool(0, long)>>
                    \o (IF ok THEN <<>> ELSE <<Recovery>>)
    /\ run' = IF ok THEN [Restored EXCEPT !.pc = "top"] ELSE Idle
    /\ IF ok THEN Checkpoint(Restored, "none") ELSE Close
    /\ hist' = [hist EXCEPT !.breaks = @ + 1]

Next ==
    \/ \E t \in Tasks : RunAsync(t)
    \/ AddNote
    \/ NativeRequest \/ PortableRequest
    \/ FailRun \/ CancelRun \/ ModelFails \/ FinalAnswer \/ Fallback
    \/ NativeCalls \/ PortableCall \/ Dispatch
    \/ \E ok, long \in BOOLEAN : ToolReturns(ok, long) \/ ResumeApproved(ok, long)
    \/ \E long \in BOOLEAN : ToolStops(long)
    \/ Crash \/ ResumeLoop \/ ResumeHeld

Spec == Init /\ [][Next]_vars

----------------------------------------------------------------------------
(* Properties.                                                              *)

Message == [role : {"system", "user", "assistant", "tool", "summary"},
            task : Tasks \cup {NoTask}, calls : Seq(Nat), id : Nat,
            pinned : BOOLEAN, long : BOOLEAN]

\* The variables have their types.
TypeOK ==
    /\ msgs \in Seq(Message)
    /\ saved \in [msgs : Seq(Message), mode : {"portable", "native", "auto"},
                  task : Tasks \cup {NoTask},
                  pend : {"none", "in_flight", "awaiting_approval"}, open : BOOLEAN]
    /\ run \in [pc : {"idle", "top", "model", "batch", "exec"},
                mode : {"portable", "native", "auto"}, loop : {"portable", "native"},
                task : Tasks \cup {NoTask}, batch : Seq(Nat), squeezes : 0..3]
    /\ hist \in [calls : Nat, replies : Nat, runs : Nat, pins : Nat, breaks : Nat,
                 cut : SUBSET Nat]

\* The k-th call of the assistant message at position i has its result k places
\* after it.
Answered(i, k) ==
    /\ i + k <= Len(msgs)
    /\ msgs[i + k].role = "tool" /\ msgs[i + k].id = msgs[i].calls[k]

\* No compression, resume or change of loop leaves a native tool result without
\* the call it answers, at its place behind the call.
NoOrphanResult ==
    \A j \in DOMAIN msgs : msgs[j].id # 0 =>
        \E i \in 1..j - 1 : j - i \in DOMAIN msgs[i].calls /\ Answered(i, j - i)

\* A native call without a result is one still to be executed, or its batch was
\* interrupted: by a stop for approval, by max_errors or by a crash.
OnlyCutBatchesDangle ==
    \A i \in DOMAIN msgs : \A k \in DOMAIN msgs[i].calls :
        Answered(i, k) \/ msgs[i].calls[k] \in ToSet(run.batch) \cup hist.cut

\* A native request names the task it is for, as a message or in the summary,
\* unless it took more than one compression: the second forgets what the
\* first one's summary quotes.
TaskInRequest ==
    run.pc = "model" /\ run.loop = "native" /\ run.squeezes <= 1 =>
        \E i \in DOMAIN msgs : msgs[i].role \in {"user", "summary"} /\ msgs[i].task = run.task

\* There is one summary at most, and it comes before every message that is not
\* pinned or the caller's system message.
SummaryLeads ==
    \A i, j \in DOMAIN msgs :
        msgs[j].role = "summary" /\ i < j => msgs[i].pinned \/ msgs[i].role = "system"

\* A message marked as important is lost only with the process, or when a resume
\* puts an older context in its place.
NotesStay ==
    [][hist'.breaks = hist.breaks =>
           IsPrefix(Pinned(msgs), Pinned(msgs'))]_msgs

\* ARCHITECTURE.md: every assistant message with tool_calls is followed by the
\* tool messages with its tool_call_ids.
RequestPaired ==
    run.pc = "model" /\ run.loop = "native" =>
        \A i \in DOMAIN msgs : \A k \in DOMAIN msgs[i].calls : Answered(i, k)
=============================================================================
