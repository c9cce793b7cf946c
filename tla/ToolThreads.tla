---------------------------- MODULE ToolThreads ----------------------------
(***************************************************************************)
(* The execution of MCP tools: ToolExecutor.execute (agent/executor.py),    *)
(* run_with_timeout (tools/timeout.py) and MCPClient (tools/mcp_adapter.py).*)
(*                                                                         *)
(* A call runs in a thread of its own.  Its caller may give up on it, the   *)
(* thread goes on: it waits for the client's lock, writes its request to    *)
(* the server and takes the next line of the server's output as the answer. *)
(* Only the reading has a timeout: a request for which the pipe has no room *)
(* keeps its thread, and the lock, until the server reads or is gone.  A    *)
(* request is named by its job; the code gives it a number that nothing     *)
(* compares.  Jobs 1 and 2 are those of discover_tools, "initialize" and    *)
(* "tools/list".  The audit log, which nothing here reads, is left out.     *)
(*                                                                         *)
(* A definition named A_B is A with a bug, and no part of the model.        *)
(***************************************************************************)
EXTENDS Integers, Sequences, FiniteSets

CONSTANTS
    Callers,    \* those that call execute on the one executor
    Nobody,     \* a model value: no caller
    HasTimeout, \* whether the tool or the executor has a timeout
    MaxCalls,   \* bound: calls of execute
    MaxNotes    \* bound: lines the server writes that answer nothing

ASSUME ConstantsAssumption ==
    /\ Nobody \notin Callers
    /\ HasTimeout \in BOOLEAN
    /\ {MaxCalls, MaxNotes} \subseteq Nat

VARIABLES
    jobs,    \* what runs in a thread, in the order of submission
    busy,    \* the job each caller waits for, 0 for none
    active,  \* _active_tokens of the tool: the job whose token is there, 0 for none
    client,  \* MCPClient: its process and lock
    server,  \* EXTERNAL: the MCP server and the pipes to it
    boot,    \* how far discover_tools has come
    closing  \* whether a close() is between terminate and the reset of _process

vars == <<jobs, busy, active, client, server, boot, closing>>

----------------------------------------------------------------------------

Job(who, stage) ==
    [who |-> who,          \* the caller, Nobody for discover_tools
     stage |-> stage,      \* where its thread is, how it ended
     answer |-> 0,         \* the request whose response it has read
     cancelled |-> FALSE,  \* its cancellation token
     obs |-> "none"]       \* the observation returned to the caller

Ended == {"ok", "error", "failed", "timedout", "never"}
IsWaiting(j) == jobs[j].who # Nobody /\ busy[jobs[j].who] = j

Init ==
    /\ jobs = <<>>
    /\ busy = [c \in Callers |-> 0]
    /\ active = 0
    /\ client = [proc |-> FALSE, lock |-> 0]
    /\ server = [alive |-> FALSE, inbox |-> <<>>, outbox |-> <<>>, performed |-> {}, notes |-> 0]
    /\ boot = "down"
    /\ closing = FALSE

----------------------------------------------------------------------------
(* discover_tools: start a process, two requests, one after the other.      *)

Start ==
    /\ boot = "down"
    /\ client' = [client EXCEPT !.proc = TRUE]
    /\ server' = [server EXCEPT !.alive = TRUE]
    /\ jobs' = Append(jobs, Job(Nobody, "queued"))
    /\ boot' = "initialize"
    /\ UNCHANGED <<busy, active, closing>>

\* "initialize" is answered; the notification that follows needs a live server.
Initialized ==
    /\ boot = "initialize" /\ jobs[1].stage \in Ended
    /\ IF jobs[1].stage = "ok" /\ (client.proc => server.alive)
       THEN boot' = "list" /\ jobs' = Append(jobs, Job(Nobody, "queued"))
       ELSE boot' = "failed" /\ UNCHANGED jobs
    /\ UNCHANGED <<busy, active, client, server, closing>>

\* A response that is not the list of tools registers none.
Listed ==
    /\ boot = "list" /\ jobs[2].stage \in Ended
    /\ boot' = IF jobs[2].stage # "ok" THEN "failed"
               ELSE IF jobs[2].answer = 2 THEN "ready" ELSE "empty"
    /\ UNCHANGED <<jobs, busy, active, client, server, closing>>

----------------------------------------------------------------------------
(* ToolExecutor.execute and run_with_timeout.                               *)

\* The token of the call is put in the slot of its tool.
Execute(c) ==
    /\ boot = "ready" /\ busy[c] = 0 /\ Len(jobs) < MaxCalls + 2
    /\ jobs' = Append(jobs, Job(c, "new"))
    /\ busy' = [busy EXCEPT ![c] = Len(jobs')]
    /\ active' = Len(jobs')
    /\ UNCHANGED <<client, server, boot, closing>>

\* Without a timeout the tool runs in the caller's thread and its token is not
\* looked at; with one the token is checked before the job is submitted.
Submit(j) ==
    /\ jobs[j].stage = "new"
    /\ jobs' = [jobs EXCEPT ![j].stage = IF ~HasTimeout THEN "queued"
                                         ELSE IF jobs[j].cancelled THEN "never" ELSE "submitted"]
    /\ UNCHANGED <<busy, active, client, server, boot, closing>>

Begin(j) ==
    /\ jobs[j].stage = "submitted"
    /\ jobs' = [jobs EXCEPT ![j].stage = "queued"]
    /\ UNCHANGED <<busy, active, client, server, boot, closing>>

\* Bug: what the thread raised is passed on as it is.
Reported_Raised(stage) == stage

\* How execute reports the way the job ended.  future.result raises the
\* TimeoutError of the tool as if it were its own.
Reported(stage) ==
    CASE stage = "ok" -> "ok"
      [] stage = "timedout" /\ HasTimeout -> "timeout"
      [] OTHER -> "execution"

\* Bug: the slot is emptied only when the tool succeeded.
Return_KeepsToken(c) ==
    LET j == busy[c]
    IN  /\ j # 0 /\ jobs[j].stage \in Ended
        /\ jobs' = [jobs EXCEPT ![j].obs = Reported(jobs[j].stage)]
        /\ busy' = [busy EXCEPT ![c] = 0]
        /\ active' = IF jobs[j].stage = "ok" THEN 0 ELSE active
        /\ UNCHANGED <<client, server, boot, closing>>

\* The finally clause empties the slot, whichever token is in it.
Return(c) ==
    LET j == busy[c]
    IN  /\ j # 0 /\ jobs[j].stage \in Ended
        /\ jobs' = [jobs EXCEPT ![j].obs = Reported(jobs[j].stage)]
        /\ busy' = [busy EXCEPT ![c] = 0]
        /\ active' = 0
        /\ UNCHANGED <<client, server, boot, closing>>

\* The wall-clock timeout: the caller goes on, the thread does too, unless it
\* has not begun.
Deadline(c) ==
    LET j == busy[c]
    IN  /\ HasTimeout /\ j # 0 /\ jobs[j].stage \notin Ended \cup {"new"}
        /\ jobs' = [jobs EXCEPT ![j].obs = "timeout", ![j].cancelled = TRUE,
                                ![j].stage = IF @ = "submitted" THEN "never" ELSE @]
        /\ busy' = [busy EXCEPT ![c] = 0]
        /\ active' = 0
        /\ UNCHANGED <<client, server, boot, closing>>

\* cancel_execution: the token in the slot, which only Submit reads.
CancelExecution ==
    /\ active # 0
    /\ jobs' = [jobs EXCEPT ![active].cancelled = TRUE]
    /\ UNCHANGED <<busy, active, client, server, boot, closing>>

----------------------------------------------------------------------------
(* MCPClient._send_request, by the thread of job j.                         *)

\* Bug: the lock is not taken.
Acquire_NoLock(j) ==
    /\ jobs[j].stage = "queued"
    /\ jobs' = [jobs EXCEPT ![j].stage = "sending"]
    /\ UNCHANGED <<busy, active, client, server, boot, closing>>

Acquire(j) ==
    /\ jobs[j].stage = "queued" /\ client.lock = 0
    /\ client' = [client EXCEPT !.lock = j]
    /\ jobs' = [jobs EXCEPT ![j].stage = "sending"]
    /\ UNCHANGED <<busy, active, server, boot, closing>>

\* The whole request is in the pipe or has been read: write and flush return.
Written(j) ==
    /\ client.proc /\ server.alive
    /\ server' = [server EXCEPT !.inbox = Append(@, j)]
    /\ jobs' = [jobs EXCEPT ![j].stage = "reading"]
    /\ UNCHANGED <<busy, active, client, boot, closing>>

\* The pipe has room for the request.
Send(j) == jobs[j].stage = "sending" /\ Written(j)

\* The arguments of a call are longer than the pipe has room for: the write
\* blocks, without a timeout.  The requests of discover_tools are short.
SendBlocks(j) ==
    /\ jobs[j].stage = "sending" /\ jobs[j].who # Nobody /\ client.proc /\ server.alive
    /\ jobs' = [jobs EXCEPT ![j].stage = "writing"]
    /\ UNCHANGED <<busy, active, client, server, boot, closing>>

\* The end of the request: the lock is released.
Finish(j, stage, answer) ==
    /\ jobs' = [jobs EXCEPT ![j].stage = stage, ![j].answer = answer]
    /\ client' = [client EXCEPT !.lock = 0]

\* Not started or stopped, or the pipe is broken.
SendFails(j) ==
    /\ jobs[j].stage \in {"sending", "writing"} /\ ~(client.proc /\ server.alive)
    /\ Finish(j, "failed", 0)
    /\ UNCHANGED <<busy, active, server, boot, closing>>

\* The next line of the output is the response.
ReadLine(j) ==
    /\ jobs[j].stage = "reading" /\ server.outbox # <<>>
    /\ LET line == Head(server.outbox)
       IN  Finish(j, IF line.ok THEN "ok" ELSE "error", line.id)
    /\ server' = [server EXCEPT !.outbox = Tail(@)]
    /\ UNCHANGED <<busy, active, boot, closing>>

\* End of file, or a process that is None when the reader thread looks.
ReadFails(j) ==
    /\ jobs[j].stage = "reading"
    /\ ~client.proc \/ (~server.alive /\ server.outbox = <<>>)
    /\ Finish(j, "failed", 0)
    /\ UNCHANGED <<busy, active, server, boot, closing>>

\* Bug: a request that times out leaves its server running.
ReadTimesOut_KeepsServer(j) ==
    /\ jobs[j].stage = "reading"
    /\ Finish(j, "timedout", 0)
    /\ UNCHANGED <<busy, active, server, boot, closing>>

\* No line within the client's timeout: the server is terminated.
ReadTimesOut(j) ==
    /\ jobs[j].stage = "reading"
    /\ server' = IF client.proc THEN [server EXCEPT !.alive = FALSE] ELSE server
    /\ jobs' = [jobs EXCEPT ![j].stage = "stopping"]
    /\ UNCHANGED <<busy, active, client, boot, closing>>

\* Bug: the lock is not released when a request times out.
Stopped_KeepsLock(j) ==
    /\ jobs[j].stage = "stopping"
    /\ jobs' = [jobs EXCEPT ![j].stage = "timedout"]
    /\ client' = [client EXCEPT !.proc = FALSE]
    /\ UNCHANGED <<busy, active, server, boot, closing>>

\* The end of stop(): the request times out, or fails because a close() has
\* reset _process under it.
Stopped(j) ==
    /\ jobs[j].stage = "stopping"
    /\ \E stage \in {"timedout"} \cup (IF client.proc THEN {} ELSE {"failed"}) :
          jobs' = [jobs EXCEPT ![j].stage = stage]
    /\ client' = [proc |-> FALSE, lock |-> 0]
    /\ UNCHANGED <<busy, active, server, boot, closing>>

\* MCPToolRegistry.close, which takes no lock.
Close ==
    /\ ~closing /\ client.proc /\ boot \in {"ready", "empty", "failed"}
    /\ server' = [server EXCEPT !.alive = FALSE]
    /\ closing' = TRUE
    /\ UNCHANGED <<jobs, busy, active, client, boot>>

Closed ==
    /\ closing
    /\ client' = [client EXCEPT !.proc = FALSE]
    /\ closing' = FALSE
    /\ UNCHANGED <<jobs, busy, active, server, boot>>

----------------------------------------------------------------------------
(* EXTERNAL: the server reads what is written to it, answers requests in    *)
(* order, may write lines nobody asked for, and may die.                    *)

\* The server reads enough of a blocked write for the rest to fit.
Take(j) == jobs[j].stage = "writing" /\ Written(j)

Serve ==
    /\ server.alive /\ server.inbox # <<>>
    /\ \E ok \in BOOLEAN :
          server' = [server EXCEPT !.inbox = Tail(@), !.performed = @ \cup {Head(server.inbox)},
                                   !.outbox = Append(@, [id |-> Head(server.inbox), ok |-> ok])]
    /\ UNCHANGED <<jobs, busy, active, client, boot, closing>>

Notify ==
    /\ server.alive /\ server.notes < MaxNotes
    /\ server' = [server EXCEPT !.outbox = Append(@, [id |-> 0, ok |-> TRUE]), !.notes = @ + 1]
    /\ UNCHANGED <<jobs, busy, active, client, boot, closing>>

ServerDies ==
    /\ server.alive
    /\ server' = [server EXCEPT !.alive = FALSE]
    /\ UNCHANGED <<jobs, busy, active, client, boot, closing>>

----------------------------------------------------------------------------

ThreadStep(j) ==
    \/ Submit(j) \/ Begin(j) \/ Acquire(j) \/ Send(j) \/ SendBlocks(j) \/ SendFails(j)
    \/ ReadLine(j) \/ ReadFails(j) \/ ReadTimesOut(j) \/ Stopped(j)

Next ==
    \/ Start \/ Initialized \/ Listed
    \/ \E c \in Callers : Execute(c) \/ Return(c) \/ Deadline(c)
    \/ CancelExecution
    \/ \E j \in DOMAIN jobs : ThreadStep(j) \/ Take(j)
    \/ Close \/ Closed
    \/ Serve \/ Notify \/ ServerDies

\* A thread that can go on does, which includes that its read times out.  It
\* does not include that a blocked write ends: that takes the server.
Fairness ==
    /\ \A j \in 1..MaxCalls + 2 : WF_vars(j \in DOMAIN jobs /\ ThreadStep(j))
    /\ \A c \in Callers : WF_vars(Return(c))

Spec == Init /\ [][Next]_vars /\ Fairness

\* Two assumptions the liveness properties name, neither of them part of the
\* specification: the server reads its input for as long as it lives, and
\* future.result gives up in time.  Nothing else is asked of the server.
ServerReads == WF_vars(\E j \in DOMAIN jobs : Take(j))
ClockRuns == HasTimeout /\ \A c \in Callers : WF_vars(Deadline(c))

----------------------------------------------------------------------------
(* Properties.                                                              *)

Stages == Ended \cup {"new", "submitted", "queued", "sending", "writing", "reading", "stopping"}

JobType == [who : Callers \cup {Nobody}, stage : Stages, answer : Nat, cancelled : BOOLEAN,
            obs : {"none", "ok", "execution", "timeout"}]

\* The variables have their types.
TypeOK ==
    /\ jobs \in Seq(JobType)
    /\ busy \in [Callers -> 0..Len(jobs)]
    /\ active \in 0..Len(jobs)
    /\ client \in [proc : BOOLEAN, lock : 0..Len(jobs)]
    /\ server \in [alive : BOOLEAN, inbox : Seq(DOMAIN jobs),
                   outbox : Seq([id : 0..Len(jobs), ok : BOOLEAN]),
                   performed : SUBSET DOMAIN jobs, notes : Nat]
    /\ boot \in {"down", "initialize", "list", "ready", "empty", "failed"}
    /\ closing \in BOOLEAN

\* However many threads their callers have given up, a call that succeeds has
\* the response to its own request, provided the server writes only responses.
AnswersMatch ==
    server.notes = 0 =>
        \A j \in DOMAIN jobs : jobs[j].stage \in {"ok", "error"} =>
            jobs[j].answer = j /\ j \in server.performed

\* cancel_execution reaches a call that is going on, never one that is over.
NoStaleToken == active # 0 => IsWaiting(active)

\* The lock is held exactly while a request is under way, by its thread.
LockHeld ==
    \A j \in DOMAIN jobs :
        jobs[j].stage \in {"sending", "writing", "reading", "stopping"} <=> client.lock = j

\* Every call of execute returns, with threads of earlier calls waiting for the
\* lock before it, when the server reads its input, without any timeout of
\* execute; and when it does not, by that timeout.
CallsReturn ==
    ServerReads \/ ClockRuns => \A c \in Callers : (busy[c] # 0) ~> (busy[c] = 0)

\* A thread whose caller has gone comes to its end and leaves the lock, when
\* the server reads its input.  No timeout of execute helps here.
ThreadsDrain ==
    ServerReads => \A j \in 1..MaxCalls + 2 :
        (j \in DOMAIN jobs) ~> (j \in DOMAIN jobs /\ jobs[j].stage \in Ended)

\* _send_request: "send a JSON-RPC 2.0 request and wait for the response".
AnswerIsOwn ==
    \A j \in DOMAIN jobs : jobs[j].stage = "ok" => jobs[j].answer = j
=============================================================================
