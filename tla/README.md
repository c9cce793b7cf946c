# MiniClaw in TLA+

A verification development for MiniClaw, a small Python agent runtime. It models
the parts of the program in which order, interruption and concurrency decide
whether the program is right, and the algorithms whose result other parts rely
on; checks them with TLC on small instances; and proves with TLAPS, for all instances,
every safety and action property that TLC finds to hold. Paths below are relative to
`src/miniclaw/` in the repository.

## 1. The system and its parts

| part | files | state it keeps | operations |
|---|---|---|---|
| Agent engine | `agent/engine.py` (with `loop.py`, `async_loop.py`, `state.py`) | locals of a loop (step or round, trace, errors in a row, last tool failed), the counters of tool calls, `_pending_action`, the cancel flag, the deadline | `run_async`, `resume_async`, `cancel`, `reset_cancel`; inside: portable loop, native loop, auto fallback, `_execute_budgeted`, `_checkpoint`, `_result` |
| Run and checkpoint tables | `storage/sqlite_store.py` | rows `runs(status)` and `checkpoints(sequence, data)`; each call is one commit | `create_run`, `update_run`, `get_run`, `save_checkpoint`, `get_latest_checkpoint` |
| Sessions, messages, traces, memories | `storage/sqlite_store.py` | the other tables of the same file | save and load, scoped by user and workspace |
| Context of a session | `agent/context.py` | the message list, summary, pinned messages | `add_message`, `add_observation`, `compress`, `restore`, `estimate_tokens` |
| Tool execution | `agent/executor.py`, `tools/registry.py`, `tools/base.py` | registry, `_active_tokens` | `execute`, `cancel_execution` |
| Permissions | `tools/permissions.py` | capability switches, `approval_required_tools` | `check` |
| Timeouts | `tools/timeout.py` | a thread and a future for each call, the token | `run_with_timeout` |
| MCP client | `tools/mcp_adapter.py` | subprocess, lock, request counter | `start`, `stop`, `list_tools`, `call_tool` |
| Redaction | `redaction.py` | none | `redact_secrets`, `contains_sensitive_data` |
| Long-term memory | `memory/*.py` | memories in one backend (SQLite) or two (Mem0 and vectors) | `add` with conflict strategies, `maybe_add_from_task`, `search`, `remove` |
| Multi-agent coordinator | `multiagent/*.py` | locals of `run`: plan, code, review, attempt, feedback | plan, code, review, retry |
| Parser and recovery hints | `agent/parser.py`, `agent/recovery.py` | none | JSON extraction from a reply, hint texts |
| Configuration | `agent/config.py`, the gates in `tools/permissions.py`, `tools/*_tool.py` | none | layering of files, environment and arguments; what a call may do |
| Command line | `cli.py` | rows of sessions, traces and messages | run, chat, resume; doctor; listings and exports |
| Legacy loop | `agent_loop.py`, `context.py`, `json_parser.py`, `recovery.py`, `storage/memory.py` | a message list, a messages table | `run`; no entry point uses it |
| LLM clients, OpenAPI adapter, sandbox, prompts, exports | `llm/`, `tools/openapi_adapter.py`, `agent/trace.py`, ... | none that matters here | I/O and texts |

**How they interact.** The command line builds an engine, an executor, a policy,
a context and a store. The engine awaits the LLM and the executor, which it runs
in worker threads, and writes the store synchronously between the awaits. The
executor asks the policy, then runs the tool, in a further thread if the tool has
a timeout. MCP tools share a client, its lock and its subprocess. The engine
appends to the context and copies it into each checkpoint; a later process reads
the latest checkpoint back. An approved resume changes the policy around one
execution.

**What is hard.** A crash may fall between any two commits, and between a tool's
effect and the commit of its observation. A checkpoint is "latest" by its
sequence number, and four places of the engine compute that number in different
ways. The pending action is redacted on its way through the store. The auto
fallback and a resume start a loop's locals anew. A batch of native calls may
stop half way in a context that lives on. Compression moves messages whose
adjacency the providers rely on. A tool's thread outlives its caller's patience.

**What makes each part right.** Engine and tables: what has run is on record, is
not run again, ran with approval if it needs it, within its budget; the status
row tells the truth; each session ends. Context: calls and results stay together,
the task and the pinned messages survive. Executor and MCP client: each answer
goes to its request, no call waits for ever, no token outlives its call. Memory:
what was acknowledged is not lost by another addition, secrets are not stored, a
search finds what is there. Coordinator: only reviewed and approved code is a
success, feedback reaches the coder, attempts are counted. Parsers: an object
that stands in plain prose is found whole. Legacy loop: a trimmed request is still
whole, the history is questions with their answers. Command line: no step of a
resumed run is dropped from the session's trace or stored twice, and what a
command says agrees with what is stored. Settings: the last word on a switch
counts, and the two gates, which read it separately, decide alike of every tool
that is registered.

## 2. The modules

| module | models | role |
|---|---|---|
| `AgentRun` | engine and run/checkpoint tables, one durable run | the core |
| `RunContract` | the lifecycle of a run as seen through its status row and its effects | abstract specification implemented by `AgentRun` |
| `AgentRunInv` | the inductive invariant, in named parts | checked by TLC, proved below |
| `AgentRunProofs` | theorems about `AgentRun` | TLAPS |
| `AgentContext` | the context of a session through several runs | |
| `AgentContextProofs` | theorems about `AgentContext` | TLAPS |
| `Picked`, `PickedFacts` | filters of sequences without recursion; facts about them, about slices and about least and greatest numbers | used by the modules that are proved about |
| `ToolThreads` | executor, timeouts, MCP client and server | |
| `ToolThreadsProofs` | theorems about `ToolThreads` | TLAPS |
| `Coordinator` | the pipeline of planner, coder and reviewer | |
| `CoordinatorProofs` | theorems about `Coordinator` | TLAPS |
| `JsonExtract` | how both parsers find the object in a reply | operators |
| `LegacyLoop` | the legacy agent and its messages table | extends `JsonExtract` |
| `LegacyLoopProofs` | theorems about `LegacyLoop` and the parsers | TLAPS |
| `Memory` | the memory manager over its two layouts of backends | |
| `MemoryProofs` | theorems about `Memory` | TLAPS |
| `Settings` | layers of settings, permission policy, gates of the tools | operators |
| `Cli` | run, resume and chat as processes on one database | extends `Settings` |
| `CliProofs` | theorems about `Cli` and `Settings` | TLAPS |
| `MCAgentRun`, `MCAgentContext`, `MCToolThreads`, `MCCoordinator`, `MCLegacyLoop`, `MCMemory`, `MCCli` | values for TLC | |

In every module a definition named `A_B` is `A` with a plausible bug in it. No
specification uses it: it is what `A` is replaced by to see that a property
notices.

### AgentRun

State and code:

| variable | code |
|---|---|
| `row` | `runs.status` |
| `saved` | the checkpoint with the highest sequence: all that `get_latest_checkpoint` can see. `Checkpoint(seq, e)` drops a write below that sequence, which is what the real `ORDER BY sequence DESC LIMIT 1` does to it |
| `eng` | where the coroutine stands (`pc`) and its locals: mode, loop, step or round, trace, errors in a row, `last_tool_failed`, budget counters, the rest of the batch, the pending action and its state, the observation in hand, the arguments of `_result` |
| `cancelled` | `_cancel_requested` |
| `policy` | `permission_policy.approval_required_tools` |
| `world` | history: which tools really ran, in order |
| `hist` | history and bounds |

One action is what happens between two points where a crash, a cancel or a
thread switch can be observed: one commit, one model call, one tool dispatch.
`run_async` is `RunAsync`, `MarkRunning`, `OpenCheckpoint` (three commits);
`_result` is `CommitStatus`, `FinalCheckpoint`; a tool call is `WriteInFlight`,
then one of `BudgetBlocks`, `ToolRejected`, `ApprovalDenied`, `ToolRuns`, then
`RecordObservation` or `AwaitApproval`. `resume_async` is `ResumeAsync` and one
of `ResumeLoop`, `ResumeHold`, `ResumeInFlight`, `ResumeApproved`, the last
followed by an execution and `RecordApproved`. `Crash` may happen in any state
with a coroutine and keeps only `row`, `saved` and the history.

Abstractions: a trace is a sequence of numbers, the id of the action for a tool
step and 0 for another. A call is a model value with one tool; the two ways in
which it can carry a credential (under a sensitive argument name, or inside a
text) are told apart because redaction treats them differently. The model's
replies, the result of a tool and the passing of the deadline are
nondeterministic. Searching and saving memories around a run does not change the
engine's state and is left out. An effect happens in the step that also returns
the observation; that it may come later, from an abandoned thread, is the subject
of `ToolThreads`.

### RunContract

Status and effects alone: tools run only while the run is running, those that
need approval only approved, nothing after `completed` or `failed`; a stopped or
abandoned run may be taken up again. `AgentRun` implements it with
`status <- row, effects <- world` (`KeepsContract`, checked and proved).

### AgentContext

`msgs` is `ContextManager._messages`; `saved` the context, mode and pending state
of the latest checkpoint; `run` the loop that is running. Messages keep what the
protocol depends on: role, task text, ids of calls, whether pinned, whether long
(two units of the budget). `Compressed` is `compress` with the walk back over
tool results, the rule-based summary that quotes the last user message, and the
pinned messages in their new place; `NativeRequest` is `_prepare_native_request`
with up to three forced compressions. Crashes, resumes, fallback, portable turns
and a second task in the same session are actions. Which checkpoint is the latest
depends on sequences that `AgentRun` computes; here it is left open whether a
write at the end of a run is the one read back.

### ToolThreads

A call of `execute` makes a job; `busy` says who waits for which, `active` is the
token slot of the tool, `client` the process and lock of the MCP client, `server`
the external server with its two pipes. A thread takes the lock, writes, reads
one line or times out and stops the server, and leaves the lock. Only the reading
has a timeout: a request that is longer than the pipe has room for keeps its writer,
and the lock (`SendBlocks`), until the server reads (`Take`) or is gone
(`SendFails`). `Deadline` lets the caller go and the thread stay. Discovery (`initialize`, `tools/list`) runs
through the same request steps. The server may answer or refuse in order, write
lines of its own (`Notify`), and die at any time.

### Coordinator

`pc` is the agent at work, `local` the variables of `run` (plan, code, review,
attempt, feedback, steps), `result` its `PipelineResult`; `calls` records what
each agent was given and answered. `PlannerReturns`, `CoderReturns` and
`ReviewerReturns` are the stretches of `run` between two agent calls, with its
five returns: planner failed, coder failed, reviewer failed, approved
(`Approve`), retries used up (`Refuse`). `CoderInput` is `_build_coder_input`.
Plans and code are opaque texts, one of them empty, because empty code changes
the input. A review is a sequence of words: `IsApproved` translates the two
regular expressions of `_is_approved`, with line starts and the blanks between
words. Each agent is an engine run that ends with success or not; that it ends
is `SessionEnds` of `AgentRun`.

### JsonExtract

A reply is a sequence of tokens: braces, members that open an object, whole
members, members with a brace inside their string, fences, words, values. The
strategies `Whole`, `Fenced`, `Embedded` (back from the first `tool_call` to a
brace) and `FirstObject` (brace counting that does not know strings) are the
code's; `ParseLegacy` is `json_parser.py`, `ParseOutput` is `agent/parser.py`.
`Objects` and `Plain` are the reference they are compared with. A list `tool_calls`
in the text (json_parser.py:172-175) is left out: what the loop does with several
calls is modelled for native ones.

### LegacyLoop

`stage` is where `run` stands, `messages` the list of its current run, `memory`
the messages table. `Run` builds the request, `BeginTurn` trims it (`Trim` is
`ContextManager.trim` with pinned turns and summary), `ModelFails` and
`ModelReplies` are `call_with_retry`, `ReadReply` decides between native calls, a
call in the text and an answer, `ExecuteTool` appends call and result,
`SaveUser` and `SaveAssistant` are the two commits of `_save_conversation`.
`Exhausted`, `ModelFails` and `Crash` end a run without them. Every message has
size 1.

### Memory

`stored` is what each backend holds, `caller` what each thread does in `add`.
`Add` and `AddFromTask` (the extractor, then `NextFragment`) filter what is
sensitive, `Find` is the search for a conflict, `RemoveOld` and `Store` call one
backend per step, each of which may fail. A single backend's failure raises, the
composite goes on and acknowledges. `Answers` is `search`: SQLite's substring
search with its fallback to single words, the ranking of vectors by cosine, Mem0
as any part of what it has, and the composite's merge with removal of near
duplicates. `owed` is history: what was acknowledged and not given up since. A
replacement gives up what it removes and a deletion what it deletes; an addition
that fails, or a crash, after the removal gives up what is no longer held. Of two
nearly identical texts a merge keeps the longer (`KeepsLonger`), and so gives up
the words that only the other one has (`GivesUp`). Texts are sequences of words,
with the semicolon a merge inserts, which matters for overlap and substring.
Filters and sorts are `Pick` and `Ranked` of `Picked`: the entries at a set of
places, in their order or in that of a relation.

### Settings and Cli

`Settings` is operators: `FindConfig` (a named file is the only candidate),
`Environment` (process before `.env`), `Aliased`, `Config` (arguments last);
`PolicyOf` and `PolicyAllows` are the policy, `ToolsOf` and `ToolAllows` what the
tools themselves check, `Observed` the order of the checks in
`ToolExecutor.execute`, `Audited` the audit row, `Doctor` what `doctor` shows.
`Over` puts one layer on another. Nothing checks the values of a file
(`_apply_section`), so a file may say anything of a switch or a number: `"off"` stands
for the values that are false, every other one turns a switch on (`SwitchedOn`), and a
word given for a number stays one. `AreSettings` has only what the code leaves no
choice about: argparse reads numbers, `_apply_cli_overrides` has no argument for a
switch, and the aliases of other programs are names. Not modelled: a section that is
no table, at which `load_config` raises, and prefixes that are no list (of a text both
gates take the single characters).

`Cli` has a process per command. `Start` and `Refuse` are `main` up to the
database; `OpenSession`, `CreateRun`, `MarkRunning`, `OpenCheckpoint`,
`WriteInFlight`, `RecordObservation`, `Result` and `FinalCheckpoint` are the commits of
a run as `AgentRun` makes them, without what its steps are (a step is its number).
A row of `runs` has the sequence of the latest checkpoint and the number of steps in
its trace; `Saved` drops a checkpoint with a lower sequence. The final one has the
number of steps of a portable run or of the round of a native one: any number up to
that of the steps. `Resume` is `_cmd_resume` with the guards of `resume_async`;
`SaveTrace` stores one row, with `existing` the set that a resume reads once and
then keeps up; `SaveUser` and `SaveAssistant` the conversation; `Quit`, `Exit` and
`Crash` the ends. Two processes may resume the same run: no lease prevents it.
`contended` is history and marks such runs, `told` is how many steps a command had
stored when it ended. Queries are `Pick` of `Picked`: the rows that a `WHERE`
selects, in the order of `id`.

## 3. The runs

All runs have `CHECK_DEADLOCK FALSE`: a run that completed, an idle session, a
client whose calls are used up, a coordinator, a legacy agent or a manager without
another task, and a command line without another command really stop.

| run | properties | what it shows |
|---|---|---|
| `agent_run` | `TypeOK`, `EffectsAccounted`, `NoUnapprovedRerun`, `GatedNeedsApproval`, `BudgetHolds`, `HonestCompletion`, `WaitingHasAction`, `TraceOnlyGrows`, `KeepsContract` | safety of a durable run across crashes and resumes |
| `agent_run_live` | `IndInv`, `SessionEnds` | the invariant the proofs use; every session ends |
| `context` | `TypeOK`, `NoOrphanResult`, `OnlyCutBatchesDangle`, `TaskInRequest`, `SummaryLeads`, `NotesStay` | the context stays a legal conversation about the task |
| `tool_threads` | `TypeOK`, `AnswersMatch`, `NoStaleToken`, `LockHeld`, `CallsReturn`, `ThreadsDrain` | answers, tokens and the lock among abandoned threads |
| `coordinator` | `TypeOK`, `ApprovedCodeReturned`, `RetryCarriesFeedback`, `Accounted`, `PipelineEnds` | verdicts, retries and accounting of the pipeline |
| `legacy_loop` | `TypeOK`, `RequestWhole`, `HistoryPaired`, `PlainObjectFound` | trimming and history of the legacy loop; both parsers |
| `memory` | `TypeOK`, `Retained`, `NoSecrets`, `SearchAnswers` | two threads, failing backends, crashes |
| `cli` | `TypeOK`, `TraceKept`, `OutcomeTold`, `GatesFollowSettings` | two processes on one database; all layerings of a switch |
| `native_pending`, `redacted_replay`, `context_pairs`, `mcp_answer` | one each | what a document or comment says and the code does not do (section 6) |

**Bounds of `agent_run`** (`AgentRun.cfg`). Three calls: one free, two gated, of
which one has a credential in its text. `MaxSteps = 3` with batches of two lets
the native trace run ahead of the round (which is what the sequence arithmetic
depends on), `MaxErrors = 2` has both a tolerated and a final error,
`MaxToolCalls = 3` leaves one call after a denied and an approved one of the same
tool, and like `MaxRepeats = 2` can be reached; two resumes allow
hold-then-approve and a resume of a resumed run, two crashes allow a crash of the
resumed process. All three modes start. `AgentRunLive.cfg` has two calls, two
steps and one crash, for the liveness graph.

**Bounds of `context`.** `recent_keep = 2` and batches of two make the limit fall
inside a batch; a budget of six units is exceeded by the second task, so zero,
one, two and three forced compressions occur; three replies, two tasks, one
pinned note, one crash or resume.

**Bounds of `tool_threads`.** Two callers and two calls beside the two jobs of
discovery: one call abandoned while it holds the lock, another waiting behind it.
One unsolicited line. Execute has a timeout. 90,239 states.

**Bounds of `coordinator`.** Two retries, so that a second feedback can be mixed
up with the first; two runs, for what a run leaves to the next; three texts, one
of them empty; six reviews: two approvals, and four that look like one. The
coder takes one or two steps, which makes the sums differ.

**Bounds of `legacy_loop`.** The first reply is any text of up to five tokens or
one of a few longer ones (a whole call takes five, and one text speaks of a call
before it makes one); the later ones are an answer,
a call, or a call in prose. `Budget = 6` is exceeded in the second turn and again
by the history of the third run; `HistoryLimit = 3` (20 in the code) cuts a
history between a question and its answer; three turns, one retry, batches of two.

**Bounds of `memory`.** Two callers, two additions or tasks, four texts: parts of
one another, and one with a secret. The similarity threshold of 50 % lies between
the overlaps of the texts, the composite's of 66 % at one of them. Two results
for the user's searches, texts of up to five words (a merge of two).

**Bounds of `cli`.** Two processes, one session before and one after, two runs.
One run under one process has three steps, so that a final checkpoint can be below
the sequence of a call and the run be resumed before and after it; otherwise there
are two. Listings have two rows (100 in the code): the cut falls inside a run. Loud
settings, every layering of one switch (files also say "no" as a text, which is true)
and a choice for prefixes, numbers and names, are only met by a first command
alone, since settings do not interact with other processes. `SharedAlone` admits two
processes on one run only if it is the only run, and no chat then; gives one of two
runs a single step, and both if two processes work on one session; keeps one process
idle once there are runs of two sessions, which share no row; and, when no session
is left to open, starts only resumes, since anything else could only be refused. The
proofs need none of these bounds. 703,292 states; the processes are symmetric and no
liveness is checked. The 10,000 rows that a resume reads at most (cli.py:390) are
more than the bounds reach.

**Fairness.** `AgentRun`: weak fairness of the engine's own steps as one action:
the event loop goes on with a coroutine that can go on, the LLM clients have
timeouts, and a tool either returns or has one. Nothing is assumed of callers,
cancels, resumes or crashes. `ToolThreads`: weak fairness of each job's thread,
which includes that a read times out after the client's timeout, and of the
return of a finished call. A wait for a `threading.Lock` needs no strong fairness
here because the calls are finitely many. That a blocked write ends is not part of it:
nothing in the code sees to that. It takes a server that goes on reading its input,
`ServerReads`, which `CallsReturn` and `ThreadsDrain` name as their condition; for
`CallsReturn` the timeout of execute, `ClockRuns`, does as well. The server need not
answer, and may die or be closed at any time. `Coordinator`: weak fairness
of `AgentReturns`, which is what `SessionEnds` shows of an engine run; none of
starting a run. The other modules have no liveness property.

## 4. The properties in words

- *EffectsAccounted*: whatever has run is in the latest checkpoint, in its trace
  or as its pending action, in every state, in particular after every crash. Runs
  that fell back from auto mode are excluded: see section 6.
- *NoUnapprovedRerun*: an action runs twice only if a crash lost the observation
  of its approved execution. No `in_flight` action is ever replayed.
- *GatedNeedsApproval*: the hole an approved resume makes in the policy is used
  by the approved action only.
- *BudgetHolds*: `max_tool_calls` holds over all the resumes of a run together,
  but for one execution per crash. The count is restored from the trace, which
  lacks an execution whose observation a crash lost; an approved action may even
  be lost several times, so the excess is bounded by crashes and not by lost
  actions.
- *HonestCompletion*, *WaitingHasAction*: the status row is consistent with what
  happened and with the checkpoint, where no crash came between its two commits.
- *TraceOnlyGrows*: no resume rewrites what an earlier process recorded.
- *NoOrphanResult*, *OnlyCutBatchesDangle*: a tool result sits behind its call at
  its place, and only interrupted batches have calls without results.
- *TaskInRequest*: a native request names its task, if it took at most one
  compression. The condition is needed: a second compression summarises the first
  summary, and a summary of a summary quotes nothing (`_rule_based_summarizer`
  looks at user and assistant messages only). On the real engine this happens
  with `max_context_tokens = 208` and `recent_keep = 2`.
- *AnswersMatch*: a server that writes only responses is never answered by
  someone else's line, because a read that times out takes the server with it.
- *LockHeld*: the lock belongs to the request under way, be it blocked in its write,
  and is released on every path.
- *ThreadsDrain*, *CallsReturn*: every thread ends, abandoned ones too, if the server
  goes on reading its input; every call returns if it does or if execute has a timeout
  that fires. The conditions are needed: section 6.
- *ApprovedCodeReturned*: a success is the coder's last code, shown to the reviewer
  with the plan, in a review that no reader would take for an objection.
- *RetryCarriesFeedback*: a retry shows the coder its last code and the review of
  that code. Empty code is excepted: `_build_coder_input` then drops the review.
- *Accounted*, *PipelineEnds*: whichever return ends a run, attempts, steps and
  feedback are those that were made; and one of them ends it.
- *RequestWhole*: after any trimming a request leads with the system prompt, has
  the task, and pairs calls with results.
- *HistoryPaired*: answers follow their questions; a question without an answer is
  that of a crashed run.
- *PlainObjectFound*: in a reply with one object and no other braces both parsers
  find exactly that object; the legacy one only if neither an object nor the words
  `"tool_call"` come before the call inside it (section 6).
- *Retained*: what was acknowledged stays covered by a memory until it is replaced
  or deleted, or merged with a longer text of nearly the same words, whatever other
  threads add, unless an addition fails or a crash falls between the removal and the
  write.
- *NoSecrets*, *SearchAnswers*: nothing sensitive is stored on any way; a search is
  bounded, its user's own, free of near duplicates in the composite, and not empty
  while one of our working backends has a word of the query.
- *TraceKept*: kills and resumes neither drop, repeat nor reorder the stored steps
  of a run; and a run that can still be resumed has in its latest checkpoint every
  step that is stored or was told of, so that a resume gives no number a second
  meaning. Three conditions are needed: rows are matched by step number alone, so a
  second run of the same session hides the first's; two processes that resume one run
  at once store steps twice; and a run that is over may lack its last steps in the
  latest checkpoint (section 6).
- *OutcomeTold*: exit code, status, conversation and summary agree.
- *GatesFollowSettings*: policy and tools, configured separately, decide alike on
  every call of a tool that is registered, and the audit says what they decide;
  effects happen only if the last layer that speaks of the switch turns it on. The
  call they differ on is a search that is off, and it is the only one that counts as
  an unknown tool (section 6). A number that is a word comes from the file.

## 5. What is proved

For all values of the constants that satisfy the module's `ConstantsAssumption`
(subsets are subsets, bounds are natural numbers, modes and roles are those of the
code; the settings of `Cli` are `AreSettings`), which is the only assumption:

| module | theorem | statement |
|---|---|---|
| `AgentRunProofs` | `TypeCorrect` | `Spec => []TypeOK` |
| | `EffectsStayAccounted` | `Spec => []EffectsAccounted` |
| | `NoRerunButLost` | `Spec => []NoUnapprovedRerun` |
| | `GateHolds` | `Spec => []GatedNeedsApproval` |
| | `ImplementsContract` | `Spec => KeepsContract` |
| | `InvariantHolds` | `Spec => []IndInv` |
| | `DurableTraceGrows` | `Spec => TraceOnlyGrows` |
| | `CompletedIsHonest` | `Spec => []HonestCompletion` |
| | `WaitHasItsAction` | `Spec => []WaitingHasAction` |
| | `BudgetOverResumes` | `Spec => []BudgetHolds` |
| `CoordinatorProofs` | `TypeCorrect` | `Spec => []TypeOK` |
| | `FeedbackReachesCoder` | `Spec => []RetryCarriesFeedback` |
| | `OnlyApprovedCode` | `Spec => []ApprovedCodeReturned` |
| | `ResultsAccountForCalls` | `Spec => []Accounted` |
| `ToolThreadsProofs` | `TypesCorrect` | `Spec => []TypeOK` |
| | `LockIsHeld` | `Spec => []LockHeld` |
| | `TokensCurrent` | `Spec => []NoStaleToken` |
| | `AnswersAreOwn` | `Spec => []AnswersMatch` |
| `AgentContextProofs` | `TypeCorrect` | `Spec => []TypeOK` |
| | `Invariant` | `Spec => []IInv`, the inductive invariant |
| | `ResultsPaired` | `Spec => []NoOrphanResult` |
| | `OnlyInterruptedDangle` | `Spec => []OnlyCutBatchesDangle` |
| | `TaskNamed` | `Spec => []TaskInRequest` |
| | `SummaryIsFirst` | `Spec => []SummaryLeads` |
| | `NotesKept` | `Spec => NotesStay` |
| `LegacyLoopProofs` | `HistoryStaysPaired` | `Spec => []HistoryPaired` |
| | `TypeCorrect` | `Spec => []TypeOK` |
| | `RequestsStayWhole` | `Spec => []RequestWhole` |
| | `PlainObjectsFound` | `Spec => []PlainObjectFound` |
| `MemoryProofs` | `Invariant` | `Spec => []IInv`, the inductive invariant |
| | `TypeCorrect` | `Spec => []TypeOK` |
| | `AcknowledgedRetained` | `Spec => []Retained` |
| | `NothingSensitiveStored` | `Spec => []NoSecrets` |
| | `SearchesAnswer` | `Spec => []SearchAnswers` |
| `CliProofs` | `Invariant` | `Spec => []IInv`, the inductive invariant |
| | `TypeCorrect` | `Spec => []TypeOK` |
| | `StepsAreKept` | `Spec => []TraceKept` |
| | `OutcomesAgree` | `Spec => []OutcomeTold` |
| | `GatesAgree` | `Spec => []GatesFollowSettings` |

So every safety and action property of the passing runs holds for every instance.

**`AgentRun`.** None of the invariants is inductive. `IndInv` adds what the
code relies on without saying so:

- `ActInv`: a dispatched, executing or pending action is a real one.
- `FlowInv`: the status row follows the coroutine (nothing has run before the
  first checkpoint), and the policy differs from the configured one exactly while
  an approved action executes.
- `SeqInv`: the arithmetic of checkpoint sequences. `LoopSeq`: a step or round is
  never ahead of the trace by more than one, and in the portable loop never
  behind. `SavedSeq`: the latest sequence is at most the length of its trace plus
  one, and exactly that when an action is in flight. Together they show that the
  checkpoint written before a tool runs is the latest, and that the one with its
  observation replaces it. `EndSeq` covers the last checkpoint of a run, which may
  be too low to be read back, and that this does no harm.
- `LedgerInv`: an executed action is on record in each phase: in the store, in
  the loop's trace, around the execution, in what `_result` is about to save.
- `RerunInv`: an action that may yet be executed has not been, or a crash lost
  the observation of it.

Each part has a lemma for the initial state and one for a step, by cases over the
actions; `Invariance` combines them. The step lemmas are stated over the few
fields an action changes (`...Fields` lemmas), so that the type proof, the
sequence proof and the ledger proof share them. `ImplementsContract` maps each
action to a step of `RunContract` or to a stutter (`ContractStep`), with `FlowInv`
for the status and `GatedStep` for approvals.

**What a run says of its past** rests on `IndInv` and one
further invariant each. `TraceInv`: the engine's trace extends the saved one, so
a commit can only extend it. `HonestInv`: in a first session the flag of the last
failed tool is what the world shows. `ModeInv` and `WaitInv`: in a portable run
without a crash the pending action's checkpoint has the length of its trace as
sequence, so that the last write of `_result` is the latest. `Counts` and `Within`:
the restored counter of tool calls is the number of tool steps in the trace, and
what ran beyond the saved trace is one execution under way plus what crashes lost.

**`Coordinator`.** `Shape` says which calls there are at each point of `run`:
coder and reviewer alternate behind the planner, attempt `k` is call `2k`, and
`local` has the answers of the last ones. That an approved review has no objection
is a lemma about `IsApproved` alone.

**`ToolThreads`.** `IInv` is the type, the lock (`LockHeld`, through a blocked write
too), the server's state
(`ServerInv`), the contents of the two pipes (`PipeInv`: while the server writes
only responses there is at most one request or response in them, that of the job
holding the lock) and `AnswersMatch` itself. A read that times out stops the server
before the lock is free, which is what empties the pipes.

**`LegacyLoop`.** `Bookkeeping`: all runs but the current one are over, rows belong
to runs that are over, and between the two commits the last row is the question
of the current run. So an answer always lands behind its own question, and a run
that ends there without one is a killed one.

**`RequestWhole`** needs more: `TInv` has the types and, from the construction of
the list to the end of a run, `TaskAt` (the question of the run is the last user
message, and calls stand only behind it, each with its result) and `Conversation`
(there is a result once a turn of calls is over). `TrimThins` says what `Trim` does
to any list: it drops messages directly behind the system prompt, none of them from
the last user message on, and puts the summary in their place.

**`PlainObjectFound`** is a theorem about `JsonExtract` for texts of every length.
The depth of braces is additive over a split of the text (`DepthSplits`); hence the
first brace opens the only object (`OnlyObject`) and its depth returns to zero at the
object's end and not before (`CountedIs`, `WholeIs`). Induction over the text is
replaced by the least place at which something holds.

**`AgentContext`.** `IInv` is the type and four parts. `MsgsInv`: a context is
`WellFormed` (system messages lead, a summary stands behind kept messages only,
results form blocks directly behind their calls) and calls without results are
those of the current or of an interrupted batch (`CallsWithin`). `SavedInv` is the
same for the checkpoint, which a resume makes the context. `BatchInv`: what is left
of the batch is the tail of the calls of one message, which has the results of the
others behind it (`BatchAt`). `LoopInv`: in a native loop the last user message that
is not pinned is the task (`LastUser`). Compression is a thinning: some of the
messages stay, in their order, and the walk back over tool results ends where
neighbours within a block stay neighbours. These facts about `Pick` are in
`PickedFacts` and follow from counting, without induction.

**`Accounted`.** `Tally` says at each call of an agent what the locals of `run` have
counted: the steps are the sum over the calls, the feedback is as long as there were
reviews, attempts are the coder's calls. That the recursive sum exists for every
sequence, which its step needs, is `TotalExists`: there is no least length without
one.

**`Memory`.** `IInv` is `StoreOK` (no text twice in SQLite, nothing sensitive, the
other user's memory), `CallersOK` and `OwedKept`. `CallersOK` is what an addition
relies on between two calls of the backends: what it writes has all words of its
text and of the memory it merges with, or it keeps the longer (`HasAllWords`); and
one that counts as written after the first backend is in Mem0, which has no
removal. `OwedKept`: every text owed is in a backend in use or in the write of a
caller behind its removal. The effects of `Merge`, `Added` and `Removed` on words and
entries are lemmas of their own. `SearchAnswers` follows from the type alone, by
facts about each search: results are places ranked by an order (`Ranked`), that of
the vectors being transitive by multiplying out fractions (`CosineOrder`); which
results survive the removal of near duplicates is defined by course of values and
exists by a least number (`StayExists`).

**`Cli`.** What one process relies on is disturbed by the others only through the
rows they add, so `IInv` is made of facts that survive such rows.

- `ProcsInv`: what holds of a process at each place of its command, in two parts.
  `ProcFacts` holds whatever the others do: what a resume takes for stored is stored,
  and an answer is a step. `RunFacts` holds of a process that has had its run for
  itself: before the result the latest checkpoint has the steps of the engine, and
  after it if the run waits; the status is that of its code, its rows have no gap, its
  messages are those it has stored.
- `Sole`: a run that is not contended has one process. `Owners`: a session has one
  process that opened it; resumes come on top. Without these two a second process
  could be in the middle of the same rows.
- `TracesInv`: a stored step has the session of its run and all lower steps of the
  session stored; it is in the latest checkpoint while the run is `Resumable`, that is
  not over and not contended; of one run the steps rise, unless it is contended; a step
  with the answer is of a run that is over.
- `RunsInv`: what a command had stored when it ended still is, and is in the latest
  checkpoint of a resumable run. `Sane`: the sequence of the latest checkpoint is at
  most one above the number of its steps. So in a loop a checkpoint at the number of
  the next step is always the latest, and only the final one, written when the run is
  over or waits with nothing new, may be dropped.
- `MessagesInv`: behind an answer, back to its own task, its session has no other
  message; a process about to store the answer has its task as the session's last one.
- `SourcesInv`: every command reads one of the given settings.

The lemmas about steps come first: `Frame` and `Untouched` say what a step leaves to
the other processes, `Settles` that it leaves a run that is over as it is and drops
no step from the checkpoint of another, `TracesKept`, `RunsStay` and `MessagesKept` which
additions a table takes, `StepOfOne` combines them; then there is one lemma per
action. The properties
follow from `IInv` without further steps. `TraceKept` speaks of places within a
selection and `IInv` of rows, which needs that the rows of a run alone in its
session stand at their numbers (`PickStands`, `Consecutive`; by a least counterexample
in place of an induction). For `OutcomeTold`, an answered run has its answer within
the rows the summary reads (`SuccessListed`) and each answer stands behind its task
(`AnswersFollow`). `GatesFollowSettings` needs `SourcesInv` alone: `Config` is
taken apart layer by layer (`ConfigFacts`, `SwitchFacts`, `NumberFacts`), after which
policy and tools test the same switch (`GatesAlike`, `CallFacts`).

**Only model-checked.** Liveness: `SessionEnds`, `CallsReturn`, `ThreadsDrain` and
`PipelineEnds` depend on fairness and so on ENABLED, which the prover does not reason
about. In section 6, that a property fails is shown by counterexamples.

## 6. Where code and documentation disagree

Each of the first four is a run that TLC ends with a counterexample.

1. `native_pending`: the checkpoint that holds the pending call of a native run
   is written at the round number, below one that was written at the trace step,
   and is never read; the run can be resumed into its loop.
2. `redacted_replay`: the need for a new authorisation is recomputed from the
   redacted action; the second resume executes redacted arguments.
3. `context_pairs`: calls of an interrupted batch stay unanswered in the context
   and are sent with the next task.
4. `mcp_answer`: the next line of the server is taken for the response, whatever
   its id; a notification shifts all later answers.

Others were met while the models were written and have no run of their own:

- An approved action is executed without an `in_flight` checkpoint
  (docs/ARCHITECTURE.md:34 draws one before every execution); after a crash it still
  waits for approval. It is why `NoUnapprovedRerun` and `BudgetHolds` except crashes.
- A resume or a fallback forgets that the last tool failed, so a later answer makes
  the run a success (docs/SECURITY_AND_RELIABILITY.md:7). `HonestCompletion` is
  stated for runs without either.
- `_summarize_trace_dicts` (cli.py:1124) calls a session a success if any step is an
  answer, although the engine may have failed that run for a failed tool.
- The reviewer's prompt asks for `**Verdict**: APPROVED` (multiagent/agents.py:68),
  which `_is_approved` (multiagent/coordinator.py:243) never takes for an approval:
  the asterisks fit neither the line start nor `verdict:`.
- The last checkpoint of a native run is written at the number of the round
  (agent/engine.py:446, 697), below the sequence of a tool step if there were batches
  or a resume, and is then not the latest: a completed run's latest checkpoint may lack
  the answer that the command stores as a row. Nothing can resume such a run, so
  nothing is lost by it; `TraceKept` says so.
- A write to the MCP server has no timeout (tools/mcp_adapter.py:149-150). A server that
  lives and does not read blocks a writer whose request the pipe has no room for, with
  the lock; what comes later waits behind it. `ServerReads` excludes this.
- A search that is off is not registered, so its call is answered as an unknown tool
  and audited as allowed (agent/executor.py:85-91, 182), and `--allow-network` makes the
  policy allow it (tools/permissions.py:82-87) without registering it.
- Values of a file are set unchecked (agent/config.py:173-177): the text `"false"` turns
  a switch on, and `max_steps` may be a word.
- An empty `MINICLAW_SHELL_ALLOWED_PREFIXES` lifts the list of the configuration file
  (agent/config.py:222); an empty list in the file admits no command at all, while
  `doctor` says "any safe command" (cli.py:778).
- `json_parser.py:129` looks for the brace before the `tool_call` with `rfind`, which
  finds an inner object when one comes before the call, and none at all when prose
  speaks of a `"tool_call"` before the object: the call is then taken for an answer.
  The second case was met by the proof of `PlainObjectFound`, beyond the length of
  text that TLC had covered; `CallComesFirst` now excludes both.
- `_merge_texts` (memory/manager.py:232-238) takes the longer of two texts with more
  than 90 % of their words in common, so a merge loses words of an acknowledged memory,
  or of the text it then acknowledges; its comment presumes the longer one to be the
  more detailed. It takes texts of more than ten words and was met by the proof of
  `Retained`, beyond the length of text that TLC had covered; `GivesUp` now counts
  such words as given up.

Two things are excluded by conditions and not counted as findings: after the auto
fallback the portable loop writes checkpoints from sequence 1 again, so ledger,
budget and trace properties are stated for runs that did not fall back
(`~hist.fellBack`); and the double compression described in section 4.

## 7. What is not modelled

- LLM clients and Mem0 are external: any reply, any error, any part of what is
  stored. The OpenAPI adapter builds HTTP requests, the sandbox starts processes:
  I/O and texts without state of their own.
- Prompts, recovery hints, the HTML, Mermaid and JSON exports of a trace, and the
  commands that only list, print or export, and the demo.
- In the store: the older `memories` table with its decay (neither layout of the
  manager uses it), preferences, listing queries, the migration of the schema.
- Redaction of nested data and its patterns. `AgentRun` has what redaction does to an
  action; that the recursion reaches every level is not checked.
- The approval callback of the executor, which nothing in the program sets; a second
  start of `MCPClient` after a failed one; the conversion of MCP schemas.
- Validation of a parsed reply against the action schemas: to the engine it is a
  parse error like any other.
- In the legacy loop the trace and the key-value table; waiting between retries.

## 8. Plan

1. `SharedPolicy`: two engines over one policy object and two resumers of one run,
   as a composition of the approval steps of `AgentRun`. `Cli` has the two resumers
   with the rows they write, but not the effects of their tools.
2. An abstract memory (a map from users to sets of facts) implemented by `Memory`
   while no backend fails.
3. The building of requests in the OpenAPI adapter and the recursion of redaction
   as algorithms against reference definitions.
