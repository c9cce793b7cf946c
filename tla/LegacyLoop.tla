---------------------------- MODULE LegacyLoop -----------------------------
(***************************************************************************)
(* The legacy agent: Agent of agent_loop.py with the ContextManager of      *)
(* context.py, call_with_retry of recovery.py, the tools of                 *)
(* tool_registry.py and the messages table of storage/memory.py.            *)
(*                                                                         *)
(* One process runs tasks one after the other.  Every message has size 1;   *)
(* a message of the memory, and of a request that has it, is named by the   *)
(* run it belongs to.  A crash loses all but the memory.  Waiting between   *)
(* retries, the trace and the key-value table are left out.                 *)
(*                                                                         *)
(* A definition named A_B is A with a bug, and no part of the model.        *)
(***************************************************************************)
EXTENDS JsonExtract

CONSTANTS
    Budget,       \* max_tokens - reserve_tokens
    PinnedTurns,  \* pinned_turns
    Summarizer,   \* whether there is one
    HistoryLimit, \* 20 in the code
    MaxTurns,     \* max_turns
    MaxRetries,   \* max_retries
    FirstReplies, \* texts the model may answer to the first request
    LaterReplies, \* texts it may answer to the others
    MaxBatch,     \* bound: native tool calls in one reply
    MaxRuns       \* bound: runs begun

ASSUME ConstantsAssumption ==
    /\ {Budget, PinnedTurns, HistoryLimit, MaxTurns, MaxRetries, MaxBatch, MaxRuns} \subseteq Nat
    /\ Summarizer \in BOOLEAN
    /\ FirstReplies \cup LaterReplies \subseteq Seq(Tokens)

VARIABLES
    stage,    \* where run() is
    messages, \* the list of messages of the current run
    turn,     \* turns begun
    tries,    \* failed attempts of the current model call
    reply,    \* the text just received
    calls,    \* tool calls of the reply that are not executed yet
    memory,   \* the messages table: role and run, in the order of id
    runs,     \* runs begun
    replied,  \* whether a model call has been answered since the beginning
    done      \* how each run ended: "answered", "exhausted", "raised", "crashed"

vars == <<stage, messages, turn, tries, reply, calls, memory, runs, replied, done>>

Message(role, run) == [role |-> role, run |-> run]

\* The last n elements.
LastOf(s, n) == IF n = 0 THEN <<>> ELSE SubSeq(s, IF Len(s) < n THEN 1 ELSE Len(s) - n + 1, Len(s))

Init ==
    /\ stage = "idle" /\ messages = <<>> /\ turn = 0 /\ tries = 0 /\ reply = <<>> /\ calls = 0
    /\ memory = <<>> /\ runs = 0 /\ replied = FALSE /\ done = <<>>

----------------------------------------------------------------------------
(* ContextManager.trim.                                                     *)

\* Bug: as many messages as there are pinned turns are pinned, not the turns.
PinnedCount_Messages(rest) == IF Len(rest) < PinnedTurns THEN Len(rest) ELSE PinnedTurns

\* From the tail up to the user message of the last pinned turn; with no turn
\* to pin, up to the last user message.
PinnedCount(rest) ==
    LET users == {i \in DOMAIN rest : rest[i].role = "user"}
        kept == {i \in users : Cardinality({j \in users : j >= i}) <= PinnedTurns}
    IN  IF Cardinality(users) < PinnedTurns \/ users = {} THEN Len(rest)
        ELSE Len(rest) + 1 - (IF kept = {} THEN Greatest(users) ELSE Least(kept))

Trim(ms) ==
    LET leads == ms # <<>> /\ Head(ms).role = "system"
        system == IF leads THEN <<Head(ms)>> ELSE <<>>
        rest == IF leads THEN Tail(ms) ELSE ms
        pinned == LastOf(rest, PinnedCount(rest))
        trimmable == SubSeq(rest, 1, Len(rest) - Len(pinned))
        fits == {d \in 0..Len(trimmable) : Len(system) + Len(trimmable) - d + Len(pinned) <= Budget}
        drop == IF fits = {} THEN Len(trimmable) ELSE Least(fits)
        summary == IF drop > 0 /\ Summarizer THEN <<Message("system", 0)>> ELSE <<>>
    IN  IF Len(ms) <= Budget THEN ms
        ELSE system \o summary \o SubSeq(trimmable, drop + 1, Len(trimmable)) \o pinned

----------------------------------------------------------------------------
(* run(user_input).                                                         *)

\* _build_messages: system prompt, history, the task.
Run ==
    /\ stage = "idle" /\ runs < MaxRuns
    /\ runs' = runs + 1
    /\ messages' = <<Message("system", 0)>> \o LastOf(memory, HistoryLimit)
                   \o <<Message("user", runs')>>
    /\ stage' = "turn" /\ turn' = 0 /\ calls' = 0
    /\ UNCHANGED <<tries, reply, memory, replied, done>>

\* The run is over; its messages are gone.
End(outcome) ==
    /\ stage' = "idle" /\ messages' = <<>> /\ reply' = <<>> /\ tries' = 0 /\ turn' = 0 /\ calls' = 0
    /\ done' = Append(done, outcome)
    /\ UNCHANGED <<runs, replied>>

\* Bug: the fixed text of an exhausted run is saved as an answer.
Exhausted_Saved ==
    /\ stage = "turn" /\ turn = MaxTurns
    /\ End("exhausted")
    /\ memory' = Append(memory, Message("assistant", runs))

\* The turns are used up: a fixed text is returned and nothing saved.
Exhausted ==
    /\ stage = "turn" /\ turn = MaxTurns
    /\ End("exhausted")
    /\ UNCHANGED memory

BeginTurn ==
    /\ stage = "turn" /\ turn < MaxTurns
    /\ turn' = turn + 1 /\ tries' = 0
    /\ messages' = Trim(messages)
    /\ stage' = "model"
    /\ UNCHANGED <<reply, calls, memory, runs, replied, done>>

\* Bug: one attempt more than max_retries + 1.
ModelFails_OnceMore ==
    /\ stage = "model"
    /\ IF tries <= MaxRetries
       THEN tries' = tries + 1 /\ UNCHANGED <<stage, messages, turn, reply, calls, memory, runs, replied, done>>
       ELSE End("raised") /\ UNCHANGED memory

\* call_with_retry: the last error is raised after the last attempt, and run
\* does not catch it.
ModelFails ==
    /\ stage = "model"
    /\ IF tries < MaxRetries
       THEN tries' = tries + 1 /\ UNCHANGED <<stage, messages, turn, reply, calls, memory, runs, replied, done>>
       ELSE End("raised") /\ UNCHANGED memory

\* A text, with or without native tool calls.
ModelReplies ==
    /\ stage = "model"
    /\ \E text \in IF replied THEN LaterReplies ELSE FirstReplies, n \in 0..MaxBatch :
          reply' = text /\ calls' = n
    /\ stage' = "reply" /\ replied' = TRUE
    /\ UNCHANGED <<messages, turn, tries, memory, runs, done>>

\* The text counts as a tool call, or as the answer.  Several calls come here as
\* native calls only; a list of them in the text would be carried out like those.
InText(text) ==
    LET o == ParseLegacy(text)
    IN  o # None /\ HasCall(text, o)

\* Something surrounds the call, or it is the whole reply, which is then kept.
IsSaid(text, n) ==
    LET o == ParseLegacy(text)
        marks == IF o = Fenced(text) THEN 2 ELSE 0
    IN  IF n > 0 THEN text # <<>>
        ELSE o = Whole(text) \/ Len(text) > o.last - o.first + 1 + marks

ReadReply ==
    /\ stage = "reply"
    /\ IF calls = 0 /\ ~InText(reply)
       THEN stage' = "save" /\ UNCHANGED <<messages, calls>>
       ELSE /\ stage' = "tools"
            /\ calls' = IF calls = 0 THEN 1 ELSE calls
            /\ messages' = IF IsSaid(reply, calls) THEN Append(messages, Message("assistant", runs))
                           ELSE messages
    /\ reply' = <<>>
    /\ UNCHANGED <<turn, tries, memory, runs, replied, done>>

\* A result or an error text: the call and it are appended either way.
ExecuteTool ==
    /\ stage = "tools" /\ calls > 0
    /\ messages' = messages \o <<Message("call", runs), Message("tool", runs)>>
    /\ calls' = calls - 1
    /\ UNCHANGED <<stage, turn, tries, reply, memory, runs, replied, done>>

ToolsDone ==
    /\ stage = "tools" /\ calls = 0
    /\ stage' = "turn"
    /\ UNCHANGED <<messages, turn, tries, reply, calls, memory, runs, replied, done>>

\* _save_conversation: two commits.
SaveUser ==
    /\ stage = "save"
    /\ memory' = Append(memory, Message("user", runs))
    /\ stage' = "saved_user"
    /\ UNCHANGED <<messages, turn, tries, reply, calls, runs, replied, done>>

SaveAssistant ==
    /\ stage = "saved_user"
    /\ memory' = Append(memory, Message("assistant", runs))
    /\ End("answered")

Crash ==
    /\ stage # "idle"
    /\ End("crashed")
    /\ UNCHANGED memory

Next ==
    \/ Run \/ BeginTurn \/ Exhausted
    \/ ModelFails \/ ModelReplies \/ ReadReply
    \/ ExecuteTool \/ ToolsDone
    \/ SaveUser \/ SaveAssistant
    \/ Crash

Spec == Init /\ [][Next]_vars

----------------------------------------------------------------------------
(* Properties.                                                              *)

MessageType == [role : {"system", "user", "assistant", "call", "tool"}, run : 0..MaxRuns]

\* The variables have their types; the attempts and turns stay in their limits.
TypeOK ==
    /\ stage \in {"idle", "turn", "model", "reply", "tools", "save", "saved_user"}
    /\ messages \in Seq(MessageType)
    /\ turn \in 0..MaxTurns
    /\ tries \in 0..MaxRetries
    /\ reply \in Seq(Tokens)
    /\ calls \in 0..MaxBatch + 1
    /\ memory \in Seq([role : {"user", "assistant"}, run : 1..MaxRuns])
    /\ runs \in 0..MaxRuns
    /\ replied \in BOOLEAN
    /\ done \in Seq({"answered", "exhausted", "raised", "crashed"})

Sent(role, run) == {i \in DOMAIN messages : messages[i] = Message(role, run)}

\* Whatever trim has cut, a request leads with the system prompt, has the
\* current task, and pairs each tool call with the result that follows it; no
\* result of the run has been cut.
RequestWhole ==
    stage = "model" =>
        /\ Head(messages) = Message("system", 0)
        /\ Sent("user", runs) # {}
        /\ \A i \in DOMAIN messages :
              /\ messages[i].role = "call" => i < Len(messages) /\ messages[i + 1].role = "tool"
              /\ messages[i].role = "tool" => messages[i - 1].role = "call"
        /\ turn > 1 => Sent("tool", runs) # {}

\* Every answer in the memory follows its own question, questions without an
\* answer are those of crashed runs, and every answered run is there.
HistoryPaired ==
    /\ \A i \in DOMAIN memory :
          IF memory[i].role = "assistant"
          THEN i > 1 /\ memory[i - 1] = Message("user", memory[i].run)
          ELSE \/ i < Len(memory) /\ memory[i + 1] = Message("assistant", memory[i].run)
               \/ memory[i].run = runs /\ stage = "saved_user"
               \/ done[memory[i].run] = "crashed"
    /\ \A r \in DOMAIN done : done[r] = "answered" =>
          \E i \in DOMAIN memory : memory[i] = Message("assistant", r)

\* The tool call comes before any other object inside o, and no prose before o
\* speaks of one.
CallComesFirst(t, o) ==
    /\ \A k \in 1..o.first - 1 : t[k] # "call"
    /\ \A k \in o.first + 1..o.last : t[k] = "{" =>
          \E m \in o.first..k : t[m] = "call" /\ Depth(t, o.first, m) = 1

\* A reply with one object, no brace in its strings and none in the prose: the
\* engine's parser finds the object, and so does the legacy one when neither an
\* object nor the words "tool_call" come before the tool call inside it.
PlainObjectFound ==
    Plain(reply) =>
        \A o \in Objects(reply) :
            /\ ParseOutput(reply) = o
            /\ HasCall(reply, o) /\ CallComesFirst(reply, o) => ParseLegacy(reply) = o
=============================================================================
