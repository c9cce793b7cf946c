-------------------------------- MODULE Cli ---------------------------------
(***************************************************************************)
(* The commands of miniclaw (cli.py): run, resume and chat, as processes on *)
(* one SQLite database, and what they leave in its sessions, runs, traces   *)
(* and messages.  Every commit is a step; a process can be killed between   *)
(* any two, and a chat interrupted.                                         *)
(*                                                                         *)
(* The engine is what module AgentRun shows of it: it commits checkpoints   *)
(* before and after each call, and ends with a status.  A step is its       *)
(* number, the same in the checkpoint, the result and the rows.  --mode is  *)
(* portable or native: no command falls back from one to the other.         *)
(***************************************************************************)
EXTENDS Settings, FiniteSets, Picked

CONSTANTS
    Procs,       \* processes
    Settled,     \* settings a command may find
    Loud,        \* bound: settings that only a first run may find, with no other process
    Known,       \* providers there are
    Calls,       \* calls of tools: what the gates are asked about
    MaxSessions, \* bound: sessions
    MaxRuns,     \* bound: runs
    MaxSteps,    \* bound: steps of a run
    ListLimit    \* limit of list_traces, 100 in the code

ASSUME ConstantsAssumption ==
    /\ {MaxSessions, MaxSteps} \subseteq Nat \ {0}
    /\ {MaxRuns, ListLimit} \subseteq Nat
    /\ \A s \in Settled \cup Loud : AreSettings(s)
    /\ \A call \in Calls : call.tool \in DOMAIN Required /\ call.command \in Seq(STRING)

VARIABLES
    sessions,  \* the number of sessions: their ids are 1..sessions
    runs,      \* the runs table; of its latest checkpoint a run has the sequence,
               \* -1 if there is none, and the number of steps kept in its trace
    traces,    \* the traces table, in the order of id
    messages,  \* the messages table, in the order of id
    procs,     \* the processes
    contended, \* history: runs that two processes worked on at once
    told       \* history: per run the steps a command had stored when it ended

vars == <<sessions, runs, traces, messages, procs, contended, told>>

Commands == {"run", "resume", "chat"}

\* A process between commands.
Off == [stage |-> "off", command |-> "run", source |-> Plain, session |-> 0, run |-> 0,
        trace |-> 0, call |-> "none", existing |-> {}, code |-> 0, answered |-> FALSE]

\* There was a command before: it left its session, and perhaps a waiting run
\* whose step it could not store.  A library user's run has no session.
Init ==
    /\ sessions = 1 /\ traces = <<>> /\ messages = <<>> /\ contended = {}
    /\ runs \in {<<>>} \cup {<<[session |-> s, status |-> "waiting_approval", seq |-> 1, kept |-> 1]>> :
                            s \in 0..1}
    /\ told = [r \in DOMAIN runs |-> 0]
    /\ procs = [p \in Procs |-> Off]

Alone(p) == \A q \in Procs \ {p} : procs[q].stage = "off"

Set(p, new) == procs' = [procs EXCEPT ![p] = new]

\* The statuses a run does not leave.
Ended == {"completed", "failed"}

----------------------------------------------------------------------------
(* main: settings first, then the database.                                 *)

Start(p) ==
    /\ procs[p].stage = "off"
    /\ \A q \in Procs : procs[q].source \in Settled
    /\ \/ \E command \in Commands, source \in Settled :
             Set(p, [Off EXCEPT !.stage = "config", !.command = command, !.source = source])
       \/ /\ sessions = 1 /\ runs = <<>> /\ Alone(p)
          /\ \E source \in Loud : Set(p, [Off EXCEPT !.stage = "config", !.source = source])
    /\ UNCHANGED <<sessions, runs, traces, messages, contended, told>>

\* Settings that cannot be read, an unknown provider, or no such run to resume.
Refuse(p) ==
    /\ procs[p].stage = "config"
    /\ Set(p, [Off EXCEPT !.stage = "exit", !.code = 2])
    /\ UNCHANGED <<sessions, runs, traces, messages, contended, told>>

HasProvider(p) == Config(procs[p].source)["provider"] \in Known

\* create_session; the chat then waits for a task.
OpenSession(p) ==
    /\ procs[p].stage = "config" /\ procs[p].command \in {"run", "chat"}
    /\ HasProvider(p) /\ sessions < MaxSessions
    /\ sessions' = sessions + 1
    /\ Set(p, [procs[p] EXCEPT !.stage = "task", !.source = Plain, !.session = sessions'])
    /\ UNCHANGED <<runs, traces, messages, contended, told>>

\* resume_async reads the row and the checkpoint: what is over, or has none,
\* is refused.  A call that was in flight is left for a person; another one
\* that waits is made first if it is approved.
Resume(p) ==
    /\ procs[p].stage = "config" /\ procs[p].command = "resume" /\ HasProvider(p)
    /\ \E r \in DOMAIN runs :
          LET row == runs[r]
              found == [procs[p] EXCEPT !.source = Plain, !.run = r, !.session = row.session,
                                        !.trace = row.kept]
          IN  IF row.status \in Ended \/ row.seq = -1
              THEN /\ Set(p, [found EXCEPT !.stage = "exit", !.code = 1])
                   /\ UNCHANGED <<runs, contended>>
              ELSE /\ \E call \in IF row.seq > row.kept THEN {"left"} ELSE {"none", "made"} :
                         Set(p, [found EXCEPT !.stage = "engine", !.call = call])
                   /\ runs' = [runs EXCEPT ![r].status = "running"]
                   /\ contended' = IF \E q \in Procs \ {p} : procs[q].run = r THEN contended \cup {r}
                                   ELSE contended
    /\ UNCHANGED <<sessions, traces, messages, told>>

----------------------------------------------------------------------------
(* The engine, in the process.                                              *)

\* create_run; a chat does it once per task.
CreateRun(p) ==
    /\ procs[p].stage = "task" /\ Len(runs) < MaxRuns
    /\ runs' = Append(runs, [session |-> procs[p].session, status |-> "created",
                             seq |-> -1, kept |-> 0])
    /\ told' = Append(told, 0)
    /\ Set(p, [procs[p] EXCEPT !.stage = "engine", !.run = Len(runs'), !.trace = 0])
    /\ UNCHANGED <<sessions, traces, messages, contended>>

MarkRunning(p) ==
    LET r == procs[p].run
    IN  /\ procs[p].stage = "engine" /\ runs[r].status = "created"
        /\ runs' = [runs EXCEPT ![r].status = "running"]
        /\ UNCHANGED <<sessions, traces, messages, procs, contended, told>>

\* save_checkpoint and get_latest_checkpoint: a checkpoint below a sequence that
\* is stored already is never read.
Saved(row, n, length) == IF n < row.seq THEN row ELSE [row EXCEPT !.seq = n, !.kept = length]

\* The checkpoint of a run that has not called anything.
OpenCheckpoint(p) ==
    LET r == procs[p].run
    IN  /\ procs[p].stage = "engine" /\ runs[r].status = "running" /\ runs[r].seq = -1
        /\ runs' = [runs EXCEPT ![r] = Saved(@, 0, 0)]
        /\ UNCHANGED <<sessions, traces, messages, procs, contended, told>>

\* Before a call, at the sequence of its step.  Answers that could not be read
\* and failures of the model are steps too, which nothing has saved till then.
WriteInFlight(p) ==
    LET k == procs[p]
    IN  /\ k.stage = "engine" /\ k.call = "none" /\ runs[k.run].seq # -1
        /\ \E n \in k.trace + 1..MaxSteps :
              /\ Set(p, [k EXCEPT !.trace = n - 1, !.call = "made"])
              /\ runs' = [runs EXCEPT ![k.run] = Saved(@, n, n - 1)]
        /\ UNCHANGED <<sessions, traces, messages, contended, told>>

\* After a call, at the same sequence; an approved call has only this one.
RecordObservation(p) ==
    LET k == procs[p]
        n == k.trace + 1
    IN  /\ k.stage = "engine" /\ k.call = "made" /\ n <= MaxSteps
        /\ Set(p, [k EXCEPT !.trace = n, !.call = "none"])
        /\ runs' = [runs EXCEPT ![k.run] = Saved(@, n, n)]
        /\ UNCHANGED <<sessions, traces, messages, contended, told>>

\* The steps a resume finds stored for the session, of the first 10_000 rows:
\* more than the bounds here reach.
StoredSteps(session) == {traces[i].step : i \in {j \in DOMAIN traces : traces[j].session = session}}

\* Bug: the steps of the result are all stored again.
Existing_Never(k) == {}

Existing(k) == IF k.command = "resume" THEN StoredSteps(k.session) ELSE {}

\* _result: the status first.  An answer is a step; after a failed tool it
\* does not make the run a success.  A run that waits has just saved its call,
\* or is left alone.
Result(p) ==
    LET k == procs[p]
    IN  /\ k.stage = "engine" /\ k.call # "made" /\ runs[k.run].seq # -1
        /\ \E status \in {"completed", "failed", "waiting_approval"}, answered \in BOOLEAN,
              n \in k.trace..MaxSteps :
              /\ status = "completed" => answered
              /\ status = "waiting_approval" => ~answered /\ n = k.trace
              /\ answered => n > k.trace
              /\ k.call = "left" => n = k.trace
              /\ runs' = [runs EXCEPT ![k.run].status = status]
              /\ Set(p, [k EXCEPT !.stage = "closing", !.trace = n, !.call = "none", !.answered = answered,
                                  !.code = CASE status = "completed" -> 0
                                             [] status = "waiting_approval" -> 3
                                             [] OTHER -> 1])
        /\ UNCHANGED <<sessions, traces, messages, contended, told>>

\* Then the checkpoint, at the number of steps (portable) or of the round
\* (native), which may be below the sequence of a call and starts again at a
\* resume; a resume looks up what is stored of the session.
FinalCheckpoint(p) ==
    LET k == procs[p]
    IN  /\ k.stage = "closing"
        /\ \E n \in (IF k.answered THEN 1 ELSE 0)..k.trace :
              runs' = [runs EXCEPT ![k.run] = Saved(@, n, k.trace)]
        /\ Set(p, [k EXCEPT !.stage = "save", !.existing = Existing(k)])
        /\ UNCHANGED <<sessions, traces, messages, contended, told>>

----------------------------------------------------------------------------
(* What the command stores of the result, a commit at a time.               *)

Least(S) == CHOOSE i \in S : \A j \in S : i <= j

\* Bug: the steps of a run without a session are stored too.
ToSave_AnySession(k) == 1..k.trace \ k.existing

\* Steps of the result that are still to be stored; existing grows with them.
ToSave(k) == IF k.session = 0 THEN {} ELSE 1..k.trace \ k.existing

\* save_trace; the step that is the answer says so.
SaveTrace(p) ==
    LET k == procs[p]
        step == Least(ToSave(k))
    IN  /\ k.stage = "save" /\ ToSave(k) # {}
        /\ traces' = Append(traces, [session |-> k.session, run |-> k.run, step |-> step,
                                     final |-> k.answered /\ step = k.trace])
        /\ Set(p, [k EXCEPT !.existing = @ \cup {step}])
        /\ UNCHANGED <<sessions, runs, messages, contended, told>>

\* The command is done with the run, and has said what became of it; a chat
\* asks for the next task.
Done(p, k) ==
    /\ Set(p, IF k.command = "chat" THEN [Off EXCEPT !.stage = "task", !.command = "chat", !.session = k.session]
              ELSE [k EXCEPT !.stage = "exit", !.existing = {}])
    /\ told' = [told EXCEPT ![k.run] = IF k.session = 0 THEN 0 ELSE k.trace]

\* Bug: run stores the task whatever became of it.
StoresUser_Always(k) == k.command # "resume"

\* run stores a task with its answer only, chat every task, resume none.
StoresUser(k) == k.command = "chat" \/ (k.command = "run" /\ k.code = 0)

TracesSaved(p) ==
    LET k == procs[p]
    IN  /\ k.stage = "save" /\ ToSave(k) = {}
        /\ IF StoresUser(k)
           THEN Set(p, [k EXCEPT !.stage = "user"]) /\ UNCHANGED told
           ELSE Done(p, k)
        /\ UNCHANGED <<sessions, runs, traces, messages, contended>>

SaveUser(p) ==
    LET k == procs[p]
    IN  /\ k.stage = "user"
        /\ messages' = Append(messages, [session |-> k.session, run |-> k.run, role |-> "user"])
        /\ IF k.code = 0 THEN Set(p, [k EXCEPT !.stage = "assistant"]) /\ UNCHANGED told ELSE Done(p, k)
        /\ UNCHANGED <<sessions, runs, traces, contended>>

SaveAssistant(p) ==
    LET k == procs[p]
    IN  /\ k.stage = "assistant"
        /\ messages' = Append(messages, [session |-> k.session, run |-> k.run, role |-> "assistant"])
        /\ Done(p, k)
        /\ UNCHANGED <<sessions, runs, traces, contended>>

----------------------------------------------------------------------------

\* exit, the end of the input, or Ctrl-C wherever the chat is.
Quit(p) ==
    /\ procs[p].command = "chat" /\ procs[p].stage \in {"task", "engine", "closing", "save", "user", "assistant"}
    /\ Set(p, [Off EXCEPT !.stage = "exit"])
    /\ UNCHANGED <<sessions, runs, traces, messages, contended, told>>

Exit(p) ==
    /\ procs[p].stage = "exit"
    /\ Set(p, Off)
    /\ UNCHANGED <<sessions, runs, traces, messages, contended, told>>

\* The process is killed, or an exception of the store or the engine ends it.
Crash(p) ==
    /\ procs[p].stage \in {"task", "engine", "closing", "save", "user", "assistant"}
    /\ Set(p, Off)
    /\ UNCHANGED <<sessions, runs, traces, messages, contended, told>>

Next ==
    \E p \in Procs :
        \/ Start(p) \/ Refuse(p) \/ OpenSession(p) \/ Resume(p)
        \/ CreateRun(p) \/ MarkRunning(p) \/ OpenCheckpoint(p)
        \/ WriteInFlight(p) \/ RecordObservation(p) \/ Result(p) \/ FinalCheckpoint(p)
        \/ SaveTrace(p) \/ TracesSaved(p) \/ SaveUser(p) \/ SaveAssistant(p)
        \/ Quit(p) \/ Exit(p) \/ Crash(p)

Spec == Init /\ [][Next]_vars

----------------------------------------------------------------------------
(* Properties.                                                              *)

Statuses == {"created", "running", "completed", "failed", "waiting_approval"}
Stages == {"off", "config", "task", "engine", "closing", "save", "user", "assistant", "exit"}
Sources == Settled \cup Loud \cup {Plain}

\* The state has its type; in particular every stored step and message is of
\* a session there is, and commands exit with four codes (cli.py).
TypeOK ==
    /\ sessions \in 0..MaxSessions
    /\ runs \in Seq([session : 0..sessions, status : Statuses, seq : -1..MaxSteps, kept : 0..MaxSteps])
    /\ traces \in Seq([session : 1..sessions, run : DOMAIN runs, step : 1..MaxSteps, final : BOOLEAN])
    /\ messages \in Seq([session : 1..sessions, run : DOMAIN runs, role : {"user", "assistant"}])
    /\ procs \in [Procs ->
          [stage : Stages, command : Commands, source : Sources, session : 0..sessions,
           run : {0} \cup DOMAIN runs, trace : 0..MaxSteps, call : {"none", "made", "left"}, existing : SUBSET (1..MaxSteps),
           code : 0..3, answered : BOOLEAN]]
    /\ contended \subseteq DOMAIN runs
    /\ told \in [DOMAIN runs -> 0..MaxSteps]

\* The steps stored of a run, in the order of id.
RowsOf(r) == Pick(traces, {i \in DOMAIN traces : traces[i].run = r})

OnlyRun(r) == runs[r].session # 0 /\ {q \in DOMAIN runs : runs[q].session = runs[r].session} = {r}

\* However often a run is killed and resumed, its steps are stored under its
\* session, and no step is missing that a command has stored before it ended,
\* unless another run of the session hides it.  Worked on by one process at a
\* time, a run that can still be resumed goes on behind every step that was
\* stored or told of it, so that no step number is used for two steps; and it
\* has its steps in their order and once (_cmd_run, _cmd_resume, _cmd_chat,
\* resume_async).  A run that is over may lack its last steps in the latest
\* checkpoint: the final one of a native run has a lower sequence.
TraceKept ==
    \A r \in DOMAIN runs :
        LET rows == RowsOf(r)
            only == OnlyRun(r)
        IN  /\ \A i \in DOMAIN rows : rows[i].session = runs[r].session
            /\ only => 1..told[r] \subseteq {rows[i].step : i \in DOMAIN rows}
            /\ r \notin contended =>
                  /\ runs[r].status \notin Ended =>
                        /\ told[r] <= runs[r].kept
                        /\ \A i \in DOMAIN rows : rows[i].step <= runs[r].kept
                  /\ \A i, j \in DOMAIN rows : i < j => rows[i].step < rows[j].step
                  /\ only => \A i \in DOMAIN rows : rows[i].step = i

\* list_traces and _summarize_trace_dicts.
Listed(s) ==
    LET rows == Pick(traces, {i \in DOMAIN traces : traces[i].session = s})
    IN  SubSeq(rows, 1, IF Len(rows) < ListLimit THEN Len(rows) ELSE ListLimit)
SummaryOf(rows) == IF \E i \in DOMAIN rows : rows[i].final THEN "success" ELSE "unknown"
Summary(s) == SummaryOf(Listed(s))

MessagesOf(s) == Pick(messages, {i \in DOMAIN messages : messages[i].session = s})
Roles(r) ==
    LET ms == Pick(messages, {i \in DOMAIN messages : messages[i].run = r})
    IN  [i \in DOMAIN ms |-> ms[i].role]

\* What a command says agrees with what is stored: the exit code with the
\* status of the run, the conversation with both, an answer follows its task
\* and belongs to a completed run; the summary of a session calls it a success
\* when its run ended well, and otherwise only where a run that is over had an
\* answer (_result_exit_code, _cmd_run, _summarize_trace_dicts).
OutcomeTold ==
    /\ \A p \in Procs : LET k == procs[p] IN
          k.stage = "exit" /\ k.command \in {"run", "resume"} /\ k.run \notin contended \cup {0} =>
             /\ k.code = 0 => runs[k.run].status = "completed"
             /\ k.code = 0 /\ OnlyRun(k.run) /\ k.trace <= ListLimit => Summary(k.session) = "success"
             /\ k.code = 3 => runs[k.run].status = "waiting_approval"
             /\ k.command = "run" =>
                   /\ k.code = 1 => runs[k.run].status = "failed"
                   /\ Roles(k.run) = IF k.code = 0 THEN <<"user", "assistant">> ELSE <<>>
    /\ \A s \in 1..sessions :
          LET ms == MessagesOf(s)
          IN  \A i \in DOMAIN ms : ms[i].role = "assistant" =>
                 /\ i > 1 /\ ms[i - 1] = [ms[i] EXCEPT !.role = "user"]
                 /\ ms[i].run \in contended \/ runs[ms[i].run].status = "completed"
    /\ \A s \in 1..sessions :
          LET rows == Listed(s)
          IN  SummaryOf(rows) = "success" =>
                 \E i \in DOMAIN rows :
                    /\ rows[i].final
                    /\ rows[i].run \in contended \/ runs[rows[i].run].status \in {"completed", "failed"}

\* The last layer that says anything of a switch turns it on; a file does so
\* with any value that is not false.
OptedIn(s, k) ==
    \/ k \in s.flags
    \/ IF k \in DOMAIN s.env THEN s.env[k] = "yes"
       ELSE IF k \in DOMAIN s.dotenv THEN s.dotenv[k] = "yes"
       ELSE k \in DOMAIN FindConfig(s).gives /\ FindConfig(s).gives[k] # "off"

\* The one call the gates differ on: a search that is off is not registered.
\* The executor calls it an unknown tool, so the audit has it as allowed, and
\* the policy would allow it with --allow-network.
SearchIsOff(s, call) == call.tool = "web_search" /\ ~OptedIn(s, "allow_search")

\* The policy and the tools read the settings separately and decide alike on
\* every call but that one, and the audit says what they decide; only that one
\* is called unknown.  Whatever is audited as a success both
\* gates let through: it writes, runs or searches only if the last word on it
\* is yes, inside the workspace and without a blocked word, whatever prefixes
\* allow.  doctor names the switches as a command without options has them; a
\* number that cannot be read comes from the file and from nowhere else, as
\* nothing checks what is there (load_config, _permission_policy_from_config,
\* _register_default_tools, ToolExecutor.execute).  They depend on no other
\* process, so they are looked at when there is none.
GatesFollowSettings ==
    \A p \in Procs : procs[p].stage = "config" /\ Alone(p) =>
        LET s == procs[p].source
            policy == PolicyOf(s)
            tools == ToolsOf(s)
        IN  /\ \A call \in Calls : LET kind == Observed(policy, tools, call) IN
                  /\ kind = "unknown_tool" <=> SearchIsOff(s, call)
                  /\ ~SearchIsOff(s, call) => (ToolAllows(tools, call) <=> PolicyAllows(policy, call))
                  /\ kind \notin {"unknown_tool", "validation"} =>
                        (Audited(kind).allowed <=> ToolAllows(tools, call))
                  /\ Audited(kind).success =>
                        /\ Validates(call) /\ PolicyAllows(policy, call) /\ ToolAllows(tools, call)
                        /\ call.tool = "write_file" => OptedIn(s, "allow_file_write") /\ call.path # "outside"
                        /\ call.tool = "run_shell" => /\ OptedIn(s, "allow_shell")
                                                     /\ "rm" \notin ToSet(call.command)
                        /\ call.tool = "web_search" => OptedIn(s, "allow_search")
            /\ s.flags = {} => \A k \in Switches : k \in Doctor(s) <=> OptedIn(s, k)
            /\ \A k \in Numbers : Config(s)[k] = "word" =>
                  /\ k \in DOMAIN FindConfig(s).gives /\ FindConfig(s).gives[k] = "word"
                  /\ k \notin DOMAIN s.args \cup DOMAIN FromEnvironment(s)
=============================================================================
