------------------------- MODULE LegacyLoopProofs --------------------------
(***************************************************************************)
(* Theorems about LegacyLoop: the messages table is questions with their     *)
(* answers, whatever was retried, exhausted or killed in between; a trimmed  *)
(* request is whole; and the parsers find an object that stands in plain     *)
(* prose, in replies of every length.                                        *)
(***************************************************************************)
EXTENDS LegacyLoop, PickedFacts

Stages == {"idle", "turn", "model", "reply", "tools", "save", "saved_user"}

Rows == [role : {"user", "assistant"}, run : Nat]

\* The variables that the history depends on have their types.
Types ==
    /\ stage \in Stages
    /\ runs \in Nat
    /\ memory \in Seq(Rows)
    /\ done \in Seq({"answered", "exhausted", "raised", "crashed"})

\* Every run but the current one is over, and a row belongs to one that is; only
\* the question that is being answered is ahead, at the end of the table.
Bookkeeping ==
    /\ Len(done) = IF stage = "idle" THEN runs ELSE runs - 1
    /\ \A i \in DOMAIN memory :
          \/ memory[i].run \in DOMAIN done
          \/ stage = "saved_user" /\ i = Len(memory)
    /\ stage = "saved_user" => memory # <<>> /\ memory[Len(memory)] = Message("user", runs)

IInv == Types /\ Bookkeeping /\ HistoryPaired

\* A step that leaves the table and the ends of runs alone, and neither begins
\* nor ends a run nor stands between the two commits.
Within ==
    /\ stage \notin {"idle", "saved_user"} /\ stage' \in Stages \ {"idle", "saved_user"}
    /\ UNCHANGED <<runs, memory, done>>

\* The history at the beginning: nothing.
LEMMA Initially == Init => IInv
BY DEF Init, IInv, Types, Stages, Bookkeeping, HistoryPaired

\* Between the beginning of a run and its first commit nothing changes.
LEMMA WithinStep == ASSUME IInv, Within PROVE IInv'
BY DEF IInv, Within, Types, Stages, Bookkeeping, HistoryPaired

\* The steps of the loop are of that kind.
LEMMA LoopStep ==
    ASSUME IInv,
           \/ BeginTurn \/ ModelReplies \/ ReadReply \/ ExecuteTool \/ ToolsDone
           \/ ModelFails /\ tries < MaxRetries
    PROVE  Within
BY DEF IInv, Types, Stages, Within, BeginTurn, ModelReplies, ReadReply, ExecuteTool, ToolsDone, ModelFails

\* A run begins with the table as it is.
LEMMA RunStep == ASSUME IInv, Run PROVE IInv'
BY DEF IInv, Run, Types, Stages, Bookkeeping, HistoryPaired

\* What the end of a run does to done.
LEMMA DoneGrows ==
    ASSUME Types, NEW outcome \in {"answered", "exhausted", "raised", "crashed"}, End(outcome)
    PROVE  /\ Len(done') = Len(done) + 1 /\ done'[Len(done) + 1] = outcome
           /\ done' \in Seq({"answered", "exhausted", "raised", "crashed"})
           /\ \A r \in DOMAIN done : r \in DOMAIN done' /\ done'[r] = done[r]
           /\ DOMAIN done' = 1..Len(done) + 1
           /\ stage' = "idle" /\ runs' = runs
BY DEF Types, End

\* A run that ends without an answer, before its first commit or by a crash,
\* leaves the table; a question it may have stored is that of a crashed run.
LEMMA LostStep ==
    ASSUME IInv, NEW outcome \in {"exhausted", "raised", "crashed"}, End(outcome),
           UNCHANGED memory, stage # "idle", stage = "saved_user" => outcome = "crashed"
    PROVE  IInv'
<1>1. /\ Len(done') = Len(done) + 1 /\ done'[Len(done) + 1] = outcome
      /\ done' \in Seq({"answered", "exhausted", "raised", "crashed"})
      /\ \A r \in DOMAIN done : r \in DOMAIN done' /\ done'[r] = done[r]
      /\ DOMAIN done' = 1..Len(done) + 1
      /\ stage' = "idle" /\ runs' = runs
  BY DoneGrows DEF IInv
<1>2. /\ Len(done) + 1 = runs /\ runs \in Nat
      /\ Len(done) \in Nat /\ DOMAIN done = 1..Len(done)
      /\ memory \in Seq(Rows) /\ Len(memory) \in Nat
  <2>1. memory \in Seq(Rows) /\ runs \in Nat /\ Len(done) = runs - 1
    BY DEF IInv, Types, Bookkeeping
  <2>2. Len(memory) \in Nat
    BY <2>1
  <2>3. Len(done) \in Nat /\ DOMAIN done = 1..Len(done)
    BY DEF IInv, Types
  <2> QED
    BY <2>1, <2>2, <2>3
<1>3. Types'
  BY <1>1, <1>2 DEF IInv, Types, Stages
<1>4. Bookkeeping'
  <2>1. \A i \in DOMAIN memory : memory[i].run \in DOMAIN done'
    <3> SUFFICES ASSUME NEW i \in DOMAIN memory PROVE memory[i].run \in DOMAIN done'
      OBVIOUS
    <3>1. CASE memory[i].run \in DOMAIN done
      BY <3>1, <1>1
    <3>2. CASE stage = "saved_user" /\ i = Len(memory)
      BY <3>2, <1>1, <1>2 DEF IInv, Bookkeeping, Message
    <3> QED
      BY <3>1, <3>2 DEF IInv, Bookkeeping
  <2> QED
    BY <2>1, <1>1, <1>2 DEF Bookkeeping
<1>5. HistoryPaired'
  <2>1. ASSUME NEW i \in DOMAIN memory, memory[i].role # "assistant"
        PROVE  \/ i < Len(memory) /\ memory[i + 1] = Message("assistant", memory[i].run)
               \/ done'[memory[i].run] = "crashed"
    <3>1. CASE memory[i].run \in DOMAIN done
      <4>1. memory[i].run # runs
        BY <3>1, <1>2 DEF IInv, Types
      <4> QED
        BY <2>1, <3>1, <4>1, <1>1 DEF IInv, HistoryPaired
    <3>2. CASE stage = "saved_user" /\ i = Len(memory)
      BY <3>2, <1>1, <1>2 DEF IInv, Bookkeeping, Message
    <3> QED
      BY <3>1, <3>2 DEF IInv, Bookkeeping
  <2>2. ASSUME NEW i \in DOMAIN memory, memory[i].role = "assistant"
        PROVE  i > 1 /\ memory[i - 1] = Message("user", memory[i].run)
    BY <2>2 DEF IInv, HistoryPaired
  <2>3. ASSUME NEW r \in DOMAIN done', done'[r] = "answered"
        PROVE  \E i \in DOMAIN memory : memory[i] = Message("assistant", r)
    <3>1. r # Len(done) + 1
      BY <2>3, <1>1
    <3>2. r \in DOMAIN done /\ done[r] = "answered"
      BY <2>3, <3>1, <1>1 DEF IInv, Types
    <3> QED
      BY <3>2 DEF IInv, HistoryPaired
  <2> QED
    BY <2>1, <2>2, <2>3 DEF HistoryPaired
<1> QED
  BY <1>3, <1>4, <1>5 DEF IInv

\* The question is appended; the current run is behind all that are over.
LEMMA SaveUserStep == ASSUME IInv, SaveUser PROVE IInv'
<1>1. /\ Len(done) + 1 = runs /\ runs \in Nat /\ Len(done) \in Nat /\ DOMAIN done = 1..Len(done)
      /\ memory \in Seq(Rows) /\ Len(memory) \in Nat
      /\ \A i \in DOMAIN memory : memory[i].run \in DOMAIN done
  BY DEF IInv, Types, Bookkeeping, SaveUser
<1>2. Message("user", runs) \in Rows
  BY <1>1 DEF Message, Rows
<1>3. /\ memory' \in Seq(Rows) /\ Len(memory') = Len(memory) + 1
      /\ memory'[Len(memory) + 1] = Message("user", runs)
      /\ \A i \in DOMAIN memory : memory'[i] = memory[i] /\ i \in DOMAIN memory'
      /\ DOMAIN memory' = 1..Len(memory) + 1 /\ DOMAIN memory = 1..Len(memory)
  BY <1>1, <1>2 DEF SaveUser
<1>4. stage' = "saved_user" /\ done' = done /\ runs' = runs
  BY DEF SaveUser
<1>5. Types'
  BY <1>3, <1>4 DEF IInv, Types, Stages
<1>6. Bookkeeping'
  BY <1>1, <1>3, <1>4 DEF Bookkeeping
<1>7. HistoryPaired'
  <2>1. ASSUME NEW i \in DOMAIN memory', memory'[i].role = "assistant"
        PROVE  i > 1 /\ memory'[i - 1] = Message("user", memory'[i].run)
    <3>1. i # Len(memory) + 1
      BY <2>1, <1>3 DEF Message
    <3>2. i \in DOMAIN memory /\ memory[i].role = "assistant"
      BY <2>1, <3>1, <1>1, <1>3
    <3>3. i > 1 /\ memory[i - 1] = Message("user", memory[i].run)
      BY <3>2 DEF IInv, HistoryPaired
    <3>4. i - 1 \in DOMAIN memory
      BY <3>2, <3>3, <1>1, <1>3
    <3> QED
      BY <3>2, <3>3, <3>4, <1>3
  <2>2. ASSUME NEW i \in DOMAIN memory', memory'[i].role # "assistant"
        PROVE  \/ i < Len(memory') /\ memory'[i + 1] = Message("assistant", memory'[i].run)
               \/ memory'[i].run = runs
               \/ done[memory'[i].run] = "crashed"
    <3>1. CASE i = Len(memory) + 1
      BY <3>1, <1>3 DEF Message
    <3>2. CASE i # Len(memory) + 1
      <4>1. i \in DOMAIN memory
        BY <3>2, <1>1, <1>3
      <4>2. memory[i].role # "assistant" /\ memory'[i] = memory[i]
        BY <4>1, <2>2, <1>3
      <4>3. CASE i < Len(memory) /\ memory[i + 1] = Message("assistant", memory[i].run)
        <5>1. i + 1 \in DOMAIN memory
          BY <4>1, <4>3, <1>1, <1>3
        <5> QED
          BY <5>1, <4>2, <4>3, <1>1, <1>3
      <4>4. CASE memory[i].run = runs \/ done[memory[i].run] = "crashed"
        BY <4>2, <4>4
      <4> QED
        BY <4>1, <4>2, <4>3, <4>4 DEF IInv, HistoryPaired
    <3> QED
      BY <3>1, <3>2
  <2>3. ASSUME NEW r \in DOMAIN done, done[r] = "answered"
        PROVE  \E i \in DOMAIN memory' : memory'[i] = Message("assistant", r)
    BY <2>3, <1>3 DEF IInv, HistoryPaired
  <2> QED
    BY <2>1, <2>2, <2>3, <1>4 DEF HistoryPaired
<1> QED
  BY <1>5, <1>6, <1>7 DEF IInv

\* The answer is appended to its question, which is the last row.
LEMMA SaveAssistantStep == ASSUME IInv, SaveAssistant PROVE IInv'
<1>0. End("answered") /\ memory' = Append(memory, Message("assistant", runs)) /\ stage = "saved_user"
  BY DEF SaveAssistant
<1>1. /\ Len(done') = Len(done) + 1 /\ done'[Len(done) + 1] = "answered"
      /\ done' \in Seq({"answered", "exhausted", "raised", "crashed"})
      /\ \A r \in DOMAIN done : r \in DOMAIN done' /\ done'[r] = done[r]
      /\ DOMAIN done' = 1..Len(done) + 1
      /\ stage' = "idle" /\ runs' = runs
  BY <1>0, DoneGrows DEF IInv
<1>2. /\ Len(done) + 1 = runs /\ runs \in Nat /\ Len(done) \in Nat /\ DOMAIN done = 1..Len(done)
      /\ memory \in Seq(Rows) /\ Len(memory) \in Nat
      /\ memory # <<>> /\ memory[Len(memory)] = Message("user", runs)
      /\ \A i \in DOMAIN memory : memory[i].run \in DOMAIN done \/ i = Len(memory)
  BY <1>0 DEF IInv, Types, Bookkeeping
<1>3. /\ memory' \in Seq(Rows) /\ Len(memory') = Len(memory) + 1
      /\ memory'[Len(memory) + 1] = Message("assistant", runs)
      /\ \A i \in DOMAIN memory : memory'[i] = memory[i] /\ i \in DOMAIN memory'
      /\ DOMAIN memory' = 1..Len(memory) + 1 /\ DOMAIN memory = 1..Len(memory)
      /\ Len(memory) > 0
  <2>1. Message("assistant", runs) \in Rows
    BY <1>2 DEF Message, Rows
  <2> QED
    BY <2>1, <1>0, <1>2
<1>4. Types'
  BY <1>1, <1>2, <1>3 DEF Types, Stages
<1>5. Bookkeeping'
  <2>1. \A i \in DOMAIN memory' : memory'[i].run \in DOMAIN done'
    BY <1>1, <1>2, <1>3 DEF Message
  <2> QED
    BY <2>1, <1>1, <1>2 DEF Bookkeeping
<1>6. HistoryPaired'
  <2>1. ASSUME NEW i \in DOMAIN memory', memory'[i].role = "assistant"
        PROVE  i > 1 /\ memory'[i - 1] = Message("user", memory'[i].run)
    <3>1. CASE i = Len(memory) + 1
      <4>1. Len(memory) \in DOMAIN memory
        BY <1>2, <1>3
      <4> QED
        BY <3>1, <4>1, <1>2, <1>3 DEF Message
    <3>2. CASE i # Len(memory) + 1
      <4>1. i \in DOMAIN memory /\ memory[i].role = "assistant"
        BY <2>1, <3>2, <1>2, <1>3
      <4>2. i > 1 /\ memory[i - 1] = Message("user", memory[i].run)
        BY <4>1 DEF IInv, HistoryPaired
      <4>3. i - 1 \in DOMAIN memory
        BY <4>1, <4>2, <1>2, <1>3
      <4> QED
        BY <4>1, <4>2, <4>3, <1>3
    <3> QED
      BY <3>1, <3>2
  <2>2. ASSUME NEW i \in DOMAIN memory', memory'[i].role # "assistant"
        PROVE  \/ i < Len(memory') /\ memory'[i + 1] = Message("assistant", memory'[i].run)
               \/ done'[memory'[i].run] = "crashed"
    <3>0. i # Len(memory) + 1
      BY <2>2, <1>3 DEF Message
    <3>1. i \in DOMAIN memory /\ memory'[i] = memory[i] /\ memory[i].role # "assistant"
      BY <2>2, <3>0, <1>2, <1>3
    <3>2. CASE i = Len(memory)
      BY <3>1, <3>2, <1>2, <1>3 DEF Message
    <3>3. CASE i < Len(memory)
      <4>1. memory[i].run \in DOMAIN done /\ memory[i].run # runs
        BY <3>1, <3>3, <1>2
      <4>2. \/ memory[i + 1] = Message("assistant", memory[i].run)
            \/ done[memory[i].run] = "crashed"
        BY <3>1, <4>1 DEF IInv, HistoryPaired
      <4>3. i + 1 \in DOMAIN memory
        BY <3>1, <3>3, <1>2, <1>3
      <4> QED
        BY <3>1, <4>1, <4>2, <4>3, <1>1, <1>2, <1>3
    <3> QED
      BY <3>1, <3>2, <3>3, <1>2, <1>3
  <2>3. ASSUME NEW r \in DOMAIN done', done'[r] = "answered"
        PROVE  \E i \in DOMAIN memory' : memory'[i] = Message("assistant", r)
    <3>1. CASE r = Len(done) + 1
      <4>1. Len(memory) + 1 \in DOMAIN memory'
        BY <1>2, <1>3
      <4> QED
        BY <3>1, <4>1, <1>2, <1>3
    <3>2. CASE r # Len(done) + 1
      <4>1. r \in DOMAIN done /\ done[r] = "answered"
        BY <2>3, <3>2, <1>1, <1>2
      <4> QED
        BY <4>1, <1>3 DEF IInv, HistoryPaired
    <3> QED
      BY <3>1, <3>2
  <2> QED
    BY <2>1, <2>2, <2>3 DEF HistoryPaired
<1> QED
  BY <1>4, <1>5, <1>6 DEF IInv

----------------------------------------------------------------------------

\* The messages table is questions with their answers in the order of the runs;
\* a question without one is that of a run that was killed between the two
\* commits, and no answered run is missing (Agent._save_conversation).
THEOREM HistoryStaysPaired == Spec => []HistoryPaired
<1>1. IInv /\ [Next]_vars => IInv'
  <2> SUFFICES ASSUME IInv, [Next]_vars PROVE IInv'
    OBVIOUS
  <2>1. CASE Run
    BY <2>1, RunStep
  <2>2. CASE BeginTurn \/ ModelReplies \/ ReadReply \/ ExecuteTool \/ ToolsDone
    BY <2>2, LoopStep, WithinStep
  <2>3. CASE ModelFails
    <3>1. CASE tries < MaxRetries
      BY <2>3, <3>1, LoopStep, WithinStep
    <3>2. CASE ~(tries < MaxRetries)
      BY <2>3, <3>2, LostStep DEF ModelFails
    <3> QED
      BY <3>1, <3>2
  <2>4. CASE Exhausted
    BY <2>4, LostStep DEF Exhausted
  <2>5. CASE SaveUser
    BY <2>5, SaveUserStep
  <2>6. CASE SaveAssistant
    BY <2>6, SaveAssistantStep
  <2>7. CASE Crash
    BY <2>7, LostStep DEF Crash
  <2>8. CASE UNCHANGED vars
    BY <2>8 DEF vars, IInv, Types, Bookkeeping, HistoryPaired
  <2> QED
    BY <2>1, <2>2, <2>3, <2>4, <2>5, <2>6, <2>7, <2>8 DEF Next
<1>2. IInv => HistoryPaired
  BY DEF IInv
<1> QED
  BY Initially, <1>1, <1>2, PTL DEF Spec

----------------------------------------------------------------------------
(* The types.                                                               *)

\* LastOf gives back elements of the sequence, at most n of them.
LEMMA LastOfType ==
    ASSUME NEW S, NEW s \in Seq(S), NEW n \in Nat
    PROVE  LastOf(s, n) \in Seq(S)
<1>1. CASE n = 0
  BY <1>1 DEF LastOf
<1>2. CASE n # 0
  <2> DEFINE from == IF Len(s) < n THEN 1 ELSE Len(s) - n + 1
  <2>1. LastOf(s, n) = SubSeq(s, from, Len(s))
    BY <1>2 DEF LastOf
  <2>2. Len(s) \in Nat /\ from \in Nat /\ from >= 1
    BY <1>2
  <2> HIDE DEF from
  <2>3. SubSeq(s, from, Len(s)) \in Seq(S)
    <3>1. from - 1 \in Nat
      BY <2>2
    <3>2. CASE from - 1 \in 0..Len(s)
      <4>1. SubSeq(s, (from - 1) + 1, Len(s)) \in Seq(S)
        BY <3>2, SliceFacts
      <4> QED BY <2>2, <4>1
    <3>3. CASE from - 1 \notin 0..Len(s)
      BY <2>2, <3>1, <3>3
    <3> QED BY <3>2, <3>3
  <2> QED BY <2>1, <2>3
<1> QED BY <1>1, <1>2

\* What trim does to a list with a task behind the system prompt, the last user
\* message: it drops d messages between them and may put a summary in their place.
Thinned(ms, t, d, s) ==
    /\ d \in Nat /\ s \in {0, 1}
    /\ t \in Seq(MessageType)
    /\ Len(t) = Len(ms) - d + s
    /\ t[1] = ms[1]
    /\ s = 1 => t[2] = Message("system", 0)
    /\ \A k \in d + 2..Len(ms) : t[k - d + s] = ms[k]

\* u is the last user message of ms, behind the system prompt.
LastUserAt(ms, u) ==
    /\ u \in 2..Len(ms)
    /\ ms[1].role = "system" /\ ms[u].role = "user"
    /\ \A i \in u + 1..Len(ms) : ms[i].role # "user"

\* The pinned tail begins at the last user message or before it.
LEMMA PinnedHasTask ==
    ASSUME NEW ms \in Seq(MessageType), NEW u, LastUserAt(ms, u)
    PROVE  PinnedCount(Tail(ms)) \in Len(ms) + 1 - u..Len(ms) - 1
<1> DEFINE rest == Tail(ms)
           users == {i \in DOMAIN rest : rest[i].role = "user"}
           kept == {i \in users : Cardinality({j \in users : j >= i}) <= PinnedTurns}
<1>1. /\ Len(ms) \in Nat /\ u \in Nat /\ 2 <= u /\ u <= Len(ms)
      /\ Len(rest) = Len(ms) - 1 /\ DOMAIN rest = 1..Len(ms) - 1
      /\ \A i \in 1..Len(ms) - 1 : rest[i] = ms[i + 1]
  <2>1. Len(ms) \in Nat /\ u \in Nat /\ 2 <= u /\ u <= Len(ms)
    BY DEF LastUserAt
  <2>2. ms # <<>>
    BY <2>1
  <2> QED BY <2>1, <2>2
<1> HIDE DEF rest
<1>2. u - 1 \in users /\ users \subseteq 1..u - 1 /\ users \subseteq Nat
  <2>1. u - 1 \in users
    BY <1>1 DEF LastUserAt
  <2>2. ASSUME NEW i \in users PROVE i \in 1..u - 1
    <3>1. i \in 1..Len(ms) - 1 /\ ms[i + 1].role = "user"
      BY <1>1
    <3>2. ~ (i + 1 > u)
      <4>1. i + 1 > u => i + 1 \in u + 1..Len(ms)
        BY <1>1, <3>1
      <4> QED BY <3>1, <4>1 DEF LastUserAt
    <3> QED BY <1>1, <3>1, <3>2
  <2> QED BY <1>1, <2>1, <2>2
<1>3. kept \subseteq users
  OBVIOUS
<1> DEFINE from == IF kept = {} THEN Greatest(users) ELSE Least(kept)
<1>4. PinnedCount(rest) = IF Cardinality(users) < PinnedTurns \/ users = {} THEN Len(rest)
                          ELSE Len(rest) + 1 - from
  BY DEF PinnedCount
<1>5. from \in 1..u - 1
  <2>1. CASE kept = {}
    <3>1. Greatest(users) \in users
      <4> HIDE DEF users
      <4>1. \A m \in users : m <= u - 1
        BY <1>1, <1>2
      <4>2. u - 1 \in Nat
        BY <1>1
      <4>3. \E n \in users : \A m \in users : m <= n
        BY <1>2, <4>1, <4>2
      <4> QED BY <4>3 DEF Greatest
    <3> QED BY <1>2, <2>1, <3>1
  <2>2. CASE kept # {}
    <3>1. kept \subseteq Nat
      BY <1>2, <1>3
    <3>2. Least(kept) \in kept
      <4> HIDE DEF kept
      <4>1. \E n \in kept : \A m \in kept : n <= m
        BY <2>2, <3>1, LeastNat
      <4> QED BY <4>1 DEF Least
    <3> QED BY <1>2, <1>3, <2>2, <3>2
  <2> QED BY <2>1, <2>2
<1> HIDE DEF from, kept, users
<1>6. PinnedCount(rest) \in Len(ms) + 1 - u..Len(ms) - 1
  <2>1. CASE Cardinality(users) < PinnedTurns \/ users = {}
    BY <1>1, <1>4, <2>1
  <2>2. CASE ~ (Cardinality(users) < PinnedTurns \/ users = {})
    BY <1>1, <1>4, <1>5, <2>2
  <2> QED BY <2>1, <2>2
<1> QED BY <1>6 DEF rest

\* trim drops nothing from the last user message on.
LEMMA TrimThins ==
    ASSUME NEW ms \in Seq(MessageType), NEW u, LastUserAt(ms, u), MaxRuns \in Nat
    PROVE  \E d, s : Thinned(ms, Trim(ms), d, s) /\ d + 1 < u
<1>1. /\ Len(ms) \in Nat /\ u \in Nat /\ 2 <= u /\ u <= Len(ms) /\ ms # <<>>
      /\ Head(ms) = ms[1] /\ ms[1].role = "system" /\ ms[1] \in MessageType
  <2>1. Len(ms) \in Nat /\ u \in Nat /\ 2 <= u /\ u <= Len(ms)
    BY DEF LastUserAt
  <2>2. ms # <<>>
    BY <2>1
  <2> QED BY <2>1, <2>2 DEF LastUserAt
<1>2. CASE Len(ms) <= Budget
  <2>1. Trim(ms) = ms
    BY <1>2 DEF Trim
  <2>2. Thinned(ms, ms, 0, 0)
    BY <1>1 DEF Thinned
  <2> QED BY <1>1, <2>1, <2>2
<1>3. CASE ~ (Len(ms) <= Budget)
  <2> DEFINE n == Len(ms) - 1
             rest == Tail(ms)
             pinned == LastOf(rest, PinnedCount(rest))
             trimmable == SubSeq(rest, 1, Len(rest) - Len(pinned))
             fits == {d \in 0..Len(trimmable) : 1 + Len(trimmable) - d + Len(pinned) <= Budget}
             drop == IF fits = {} THEN Len(trimmable) ELSE Least(fits)
             summary == IF drop > 0 /\ Summarizer THEN <<Message("system", 0)>> ELSE <<>>
             tail == SubSeq(trimmable, drop + 1, Len(trimmable))
  <2>1. Trim(ms) = <<ms[1]>> \o summary \o tail \o pinned
    BY <1>1, <1>3 DEF Trim
  <2>2. rest \in Seq(MessageType) /\ Len(rest) = n /\ \A k \in 1..n : rest[k] = ms[k + 1]
    BY <1>1
  <2>3. PICK c \in Len(ms) + 1 - u..Len(ms) - 1 : c = PinnedCount(rest)
    BY PinnedHasTask
  <2>4. n \in Nat /\ n >= 1 /\ c \in 1..n /\ c >= n + 2 - u /\ n = Len(ms) - 1
    BY <1>1, <2>3
  <2> HIDE DEF rest, n
  <2>5. /\ pinned \in Seq(MessageType) /\ Len(pinned) = c
        /\ \A k \in 1..c : pinned[k] = rest[n - c + k]
    <3>1. pinned = SubSeq(rest, (n - c) + 1, Len(rest))
      <4>1. pinned = SubSeq(rest, IF Len(rest) < c THEN 1 ELSE Len(rest) - c + 1, Len(rest))
        BY SMTT(30), <2>3, <2>4 DEF LastOf
      <4> QED BY <2>2, <2>4, <4>1
    <3>2. PICK e \in 0..Len(rest) : e = n - c /\ Len(rest) - e = c
      <4>1. Len(rest) = n /\ n \in Nat /\ c \in 1..n
        BY <2>2, <2>4
      <4>2. n - c \in 0..n /\ n - (n - c) = c
        BY <4>1
      <4> QED BY <4>1, <4>2
    <3>3. pinned = SubSeq(rest, e + 1, Len(rest))
      BY <3>1, <3>2
    <3> HIDE DEF pinned
    <3>4. /\ pinned \in Seq(MessageType) /\ Len(pinned) = Len(rest) - e
          /\ \A k \in 1..Len(rest) - e : pinned[k] = rest[e + k]
      BY <2>2, <3>3, SliceFacts
    <3> QED BY <3>2, <3>4
  <2> HIDE DEF pinned
  <2>6. /\ trimmable \in Seq(MessageType) /\ Len(trimmable) = n - c
        /\ \A k \in 1..n - c : trimmable[k] = rest[k]
    BY <2>2, <2>4, <2>5
  <2> HIDE DEF trimmable
  <2>7. drop \in 0..n - c
    <3>1. fits \subseteq 0..n - c /\ n - c \in Nat
      BY <2>4, <2>6
    <3>2. CASE fits = {}
      BY <2>4, <2>6, <3>2
    <3>3. CASE fits # {}
      <4> HIDE DEF fits
      <4>1. \E m \in fits : \A k \in fits : m <= k
        <5>1. fits \subseteq Nat
          BY <3>1
        <5> QED BY <3>3, <5>1, LeastNat
      <4>2. Least(fits) \in fits
        BY <4>1 DEF Least
      <4> QED BY <3>1, <3>3, <4>2
    <3> QED BY <3>2, <3>3
  <2>0. \E s \in {0, 1} : /\ summary \in Seq(MessageType) /\ Len(summary) = s
                           /\ (s = 1 => summary[1] = Message("system", 0))
    <3>1. Message("system", 0) \in MessageType
      BY DEF Message, MessageType
    <3>2. CASE drop > 0 /\ Summarizer
      <4>1. summary = <<Message("system", 0)>>
        BY <3>2
      <4> HIDE DEF summary
      <4>2. summary \in Seq(MessageType) /\ Len(summary) = 1 /\ summary[1] = Message("system", 0)
        BY <3>1, <4>1
      <4> QED BY <4>2
    <3>3. CASE ~ (drop > 0 /\ Summarizer)
      <4>1. summary = <<>>
        BY <3>3
      <4> HIDE DEF summary
      <4>2. summary \in Seq(MessageType) /\ Len(summary) = 0
        BY <4>1
      <4> QED BY <4>2
    <3> QED BY <3>2, <3>3
  <2> HIDE DEF drop, summary, fits
  <2>8. PICK s \in {0, 1} : /\ summary \in Seq(MessageType) /\ Len(summary) = s
                           /\ (s = 1 => summary[1] = Message("system", 0))
    BY <2>0
  <2>9. /\ tail \in Seq(MessageType) /\ Len(tail) = n - c - drop
        /\ \A k \in 1..n - c - drop : tail[k] = trimmable[drop + k]
    BY <2>6, <2>7, SliceFacts
  <2> HIDE DEF tail
  <2> DEFINE a == <<ms[1]>> \o summary
             b == a \o tail
             t == b \o pinned
  <2>10. a \in Seq(MessageType) /\ Len(a) = 1 + s /\ a[1] = ms[1]
         /\ (s = 1 => a[2] = Message("system", 0))
    <3> DEFINE h == <<ms[1]>>
    <3>1. h \in Seq(MessageType) /\ Len(h) = 1 /\ h[1] = ms[1]
      BY <1>1
    <3> HIDE DEF h
    <3>2. h \o summary \in Seq(MessageType) /\ IsConcat(h, summary, h \o summary)
      BY <2>8, <3>1, ConcatFacts
    <3>3. a = h \o summary
      BY DEF h
    <3> HIDE DEF a
    <3>4. a \in Seq(MessageType) /\ IsConcat(h, summary, a)
      BY <3>2, <3>3
    <3>5. Len(a) = 1 + s /\ a[1] = ms[1]
      BY <2>8, <3>1, <3>4 DEF IsConcat
    <3>6. s = 1 => a[1 + 1] = summary[1]
      BY <2>8, <3>1, <3>4 DEF IsConcat
    <3> QED BY <2>8, <3>4, <3>5, <3>6
  <2> HIDE DEF a
  <2>11. b \in Seq(MessageType) /\ IsConcat(a, tail, b)
    BY <2>9, <2>10, ConcatFacts
  <2> HIDE DEF b
  <2>12. t \in Seq(MessageType) /\ IsConcat(b, pinned, t)
    BY <2>5, <2>11, ConcatFacts
  <2>13. t = Trim(ms)
    BY <2>1 DEF a, b
  <2> HIDE DEF t
  <2>14. Len(b) = 1 + s + (n - c - drop) /\ Len(t) = 1 + s + (n - drop)
    BY <2>4, <2>5, <2>7, <2>9, <2>10, <2>11, <2>12 DEF IsConcat
  <2>15. t[1] = ms[1] /\ (s = 1 => t[2] = Message("system", 0))
    <3>1. b[1] = ms[1] /\ (s = 1 => b[2] = Message("system", 0))
      BY <2>10, <2>11 DEF IsConcat
    <3>2. 1 \in 1..Len(b) /\ (s = 1 => 2 \in 1..Len(b))
      BY <2>4, <2>7, <2>14
    <3>3. \A k \in 1..Len(b) : t[k] = b[k]
      BY <2>12 DEF IsConcat
    <3> QED BY <3>1, <3>2, <3>3
  <2>16. ASSUME NEW k \in drop + 2..Len(ms)
         PROVE  t[k - drop + s] = ms[k]
    <3>1. k \in Nat /\ k - 1 \in 1..n /\ rest[k - 1] = ms[k] /\ drop \in Nat
      BY <1>1, <2>2, <2>4, <2>7, <2>16
    <3>2. CASE k - 1 <= n - c
      <4> DEFINE j == k - 1 - drop
      <4>1. j \in 1..n - c - drop /\ k - drop + s = (1 + s) + j /\ drop + j = k - 1 /\ j \in Int
            /\ k - 1 \in 1..n - c
        BY <2>4, <2>7, <2>16, <3>1, <3>2
      <4> HIDE DEF j
      <4>2. tail[j] = ms[k]
        <5>1. tail[j] = trimmable[drop + j]
          BY <2>9, <4>1
        <5>2. trimmable[k - 1] = rest[k - 1]
          BY <2>6, <4>1
        <5> QED BY <3>1, <4>1, <5>1, <5>2
      <4>3. b[(1 + s) + j] = tail[j]
        BY <2>9, <2>10, <2>11, <4>1 DEF IsConcat
      <4>4. (1 + s) + j \in 1..Len(b)
        BY <2>4, <2>7, <2>14, <4>1
      <4>5. t[(1 + s) + j] = b[(1 + s) + j]
        BY <2>12, <4>4 DEF IsConcat
      <4> QED BY <4>1, <4>2, <4>3, <4>5
    <3>3. CASE ~ (k - 1 <= n - c)
      <4> DEFINE j == k - 1 - (n - c)
      <4>1. j \in 1..c /\ k - drop + s = Len(b) + j /\ n - c + j = k - 1
        BY <2>4, <2>7, <2>14, <3>1, <3>3
      <4> HIDE DEF j
      <4>2. pinned[j] = ms[k]
        BY <2>5, <3>1, <4>1
      <4>3. t[Len(b) + j] = pinned[j]
        BY <2>5, <2>12, <4>1 DEF IsConcat
      <4> QED BY <4>1, <4>2, <4>3
    <3> QED BY <3>2, <3>3
  <2>17. drop \in Nat /\ drop + 1 < u /\ Len(t) = Len(ms) - drop + s
    BY <1>1, <2>4, <2>7, <2>14
  <2>18. Thinned(ms, t, drop, s)
    BY <2>12, <2>15, <2>16, <2>17 DEF Thinned
  <2> QED BY <2>13, <2>17, <2>18
<1> QED BY <1>2, <1>3

----------------------------------------------------------------------------
(* The requests.                                                            *)

\* ms is a conversation about the task of run r, which is its message u: only
\* behind it are there calls, each with its result.
TaskAt(ms, r, u) ==
    /\ u \in 2..Len(ms)
    /\ ms[1] = Message("system", 0) /\ ms[u] = Message("user", r)
    /\ \A i \in 1..u - 1 : ms[i].role \notin {"call", "tool"}
    /\ \A i \in u + 1..Len(ms) :
          /\ ms[i].role # "user"
          /\ ms[i].role = "call" => i < Len(ms) /\ ms[i + 1].role = "tool"
          /\ ms[i].role = "tool" => ms[i - 1].role = "call"

HasResult(ms, r) == \E i \in DOMAIN ms : ms[i] = Message("tool", r)

\* The list of a run is such a conversation, and has a result once a turn of
\* calls is over.
Conversation ==
    stage # "idle" =>
        /\ \E u : TaskAt(messages, runs, u)
        /\ \/ stage = "turn" /\ turn = 0
           \/ stage \in {"model", "reply", "save", "saved_user"} /\ turn <= 1
           \/ stage = "tools" /\ calls > 0
           \/ HasResult(messages, runs)

\* What trim leaves is a conversation about the same task, with a result if it
\* had one.
LEMMA TrimKeeps ==
    ASSUME NEW ms \in Seq(MessageType), NEW r, NEW u, TaskAt(ms, r, u), MaxRuns \in Nat
    PROVE  /\ Trim(ms) \in Seq(MessageType)
           /\ \E v : TaskAt(Trim(ms), r, v)
           /\ HasResult(ms, r) => HasResult(Trim(ms), r)
<1>1. LastUserAt(ms, u)
  BY DEF TaskAt, LastUserAt, Message
<1> DEFINE t == Trim(ms)
<1>2. PICK d, s : Thinned(ms, t, d, s) /\ d + 1 < u
  BY <1>1, TrimThins
<1> HIDE DEF t
<1>3. /\ Len(ms) \in Nat /\ u \in Nat /\ 2 <= u /\ u <= Len(ms) /\ d \in Nat /\ s \in {0, 1}
      /\ t \in Seq(MessageType) /\ Len(t) = Len(ms) - d + s
      /\ t[1] = Message("system", 0) /\ (s = 1 => t[2] = Message("system", 0))
      /\ \A k \in d + 2..Len(ms) : t[k - d + s] = ms[k]
  BY <1>2 DEF TaskAt, Thinned
<1> DEFINE v == u - d + s
<1>4. v \in 2..Len(t) /\ t[v] = Message("user", r)
  <2>1. u \in d + 2..Len(ms)
    BY <1>2, <1>3
  <2> QED BY SMTT(30), <1>2, <1>3, <2>1 DEF TaskAt
<1>5. ASSUME NEW i \in 2..Len(t), ~ (s = 1 /\ i = 2)
      PROVE  \E k \in d + 2..Len(ms) : i = k - d + s /\ t[i] = ms[k]
  <2>1. i + d - s \in d + 2..Len(ms) /\ (i + d - s) - d + s = i
    BY <1>3, <1>5
  <2> QED BY <1>3, <2>1
<1>6. ASSUME NEW i \in 1..v - 1 PROVE t[i].role \notin {"call", "tool"}
  <2>1. CASE i = 1 \/ (s = 1 /\ i = 2)
    BY <1>3, <2>1 DEF Message
  <2>2. CASE ~ (i = 1 \/ (s = 1 /\ i = 2))
    <3>1. i \in 2..Len(t)
      BY <1>3, <1>4, <1>6, <2>2
    <3>2. PICK k \in d + 2..Len(ms) : i = k - d + s /\ t[i] = ms[k]
      BY <1>5, <2>2, <3>1
    <3>3. k \in 1..u - 1
      BY <1>3, <1>6, <3>2
    <3> QED BY <3>2, <3>3 DEF TaskAt
  <2> QED BY <2>1, <2>2
<1>7. ASSUME NEW i \in v + 1..Len(t)
      PROVE  /\ t[i].role # "user"
             /\ t[i].role = "call" => i < Len(t) /\ t[i + 1].role = "tool"
             /\ t[i].role = "tool" => t[i - 1].role = "call"
  <2>1. i \in 2..Len(t) /\ ~ (s = 1 /\ i = 2) /\ i \in Nat
    BY <1>2, <1>3, <1>4, <1>7
  <2>2. PICK k \in d + 2..Len(ms) : i = k - d + s /\ t[i] = ms[k]
    BY <1>5, <2>1
  <2>3. k \in u + 1..Len(ms) /\ k \in Nat
    <3>1. i > u - d + s /\ k \in Nat /\ k <= Len(ms)
      BY <1>3, <1>7, <2>2
    <3>2. k > u
      BY <1>3, <2>2, <3>1
    <3> QED BY <1>3, <3>1, <3>2
  <2>4. /\ ms[k].role # "user"
        /\ ms[k].role = "call" => k < Len(ms) /\ ms[k + 1].role = "tool"
        /\ ms[k].role = "tool" => ms[k - 1].role = "call"
    BY <2>3 DEF TaskAt
  <2>5. k < Len(ms) => t[i + 1] = ms[k + 1] /\ i < Len(t)
    <3>0. /\ Len(ms) \in Nat /\ d \in Nat /\ s \in Nat /\ Len(t) = Len(ms) - d + s
          /\ k \in Nat /\ d + 2 <= k /\ i = k - d + s
      BY <1>3, <2>2, <2>3
    <3>1. k < Len(ms) => k + 1 \in d + 2..Len(ms) /\ (k + 1) - d + s = i + 1
      BY <3>0
    <3>2. k < Len(ms) => i < Len(t)
      BY <3>0
    <3>3. k < Len(ms) => t[(k + 1) - d + s] = ms[k + 1]
      BY <1>3, <3>1
    <3> QED BY <3>1, <3>2, <3>3
  <2>6. t[i - 1] = ms[k - 1]
    <3>1. k - 1 \in d + 2..Len(ms) /\ (k - 1) - d + s = i - 1
      BY <1>2, <1>3, <2>2, <2>3
    <3> QED BY <1>3, <3>1
  <2> QED BY <2>2, <2>4, <2>5, <2>6
<1>8. TaskAt(t, r, v)
  <2> HIDE DEF v
  <2> QED BY <1>3, <1>4, <1>6, <1>7 DEF TaskAt
<1>9. HasResult(ms, r) => HasResult(t, r)
  <2> SUFFICES ASSUME NEW k \in DOMAIN ms, ms[k] = Message("tool", r)
               PROVE  \E i \in DOMAIN t : t[i] = Message("tool", r)
    BY DEF HasResult
  <2>1. k \in 1..Len(ms) /\ ~ (k <= u)
    <3>1. k \in 1..Len(ms)
      OBVIOUS
    <3>2. k # u /\ ~ (k \in 1..u - 1)
      BY DEF TaskAt, Message
    <3> QED BY <1>3, <3>1, <3>2
  <2>2. k \in d + 2..Len(ms) /\ k - d + s \in 1..Len(t)
    BY <1>2, <1>3, <2>1
  <2> QED BY <1>3, <2>2
<1> QED BY <1>3, <1>8, <1>9 DEF t

\* One message more behind a conversation.
LEMMA AppendKeeps ==
    ASSUME NEW S, NEW ms \in Seq(S), NEW m \in S, NEW r, NEW u, TaskAt(ms, r, u),
           m.role \notin {"user", "call", "tool"}
    PROVE  /\ TaskAt(Append(ms, m), r, u)
           /\ HasResult(ms, r) => HasResult(Append(ms, m), r)
<1> DEFINE t == Append(ms, m)
           n == Len(ms)
<1>1. /\ n \in Nat /\ Len(t) = n + 1 /\ DOMAIN t = 1..n + 1 /\ DOMAIN ms = 1..n
      /\ t[n + 1] = m /\ \A i \in 1..n : t[i] = ms[i]
  OBVIOUS
<1>2. u \in Nat /\ 2 <= u /\ u <= n
  BY DEF TaskAt
<1> HIDE DEF t
<1>3. t[1] = Message("system", 0) /\ t[u] = Message("user", r)
      /\ \A i \in 1..u - 1 : t[i].role \notin {"call", "tool"}
  BY <1>1, <1>2 DEF TaskAt
<1>4. ASSUME NEW i \in u + 1..Len(t)
      PROVE  /\ t[i].role # "user"
             /\ t[i].role = "call" => i < Len(t) /\ t[i + 1].role = "tool"
             /\ t[i].role = "tool" => t[i - 1].role = "call"
  <2>1. CASE i = n + 1
    BY <1>1, <2>1
  <2>2. CASE i # n + 1
    <3>1. i \in u + 1..n /\ i \in 1..n /\ i - 1 \in 1..n /\ (i < n => i + 1 \in 1..n)
      BY <1>1, <1>2, <1>4, <2>2
    <3>2. /\ ms[i].role # "user"
          /\ ms[i].role = "call" => i < n /\ ms[i + 1].role = "tool"
          /\ ms[i].role = "tool" => ms[i - 1].role = "call"
      BY <3>1 DEF TaskAt
    <3> HIDE DEF n
    <3> QED BY <1>1, <3>1, <3>2
  <2> QED BY <2>1, <2>2
<1>5. TaskAt(t, r, u)
  BY <1>1, <1>2, <1>3, <1>4 DEF TaskAt
<1>6. HasResult(ms, r) => HasResult(t, r)
  BY <1>1 DEF HasResult
<1> QED BY <1>5, <1>6 DEF t

\* A call and its result behind a conversation.
LEMMA CallKeeps ==
    ASSUME NEW S, NEW ms \in Seq(S), NEW r, NEW u, TaskAt(ms, r, u),
           Message("call", r) \in S, Message("tool", r) \in S
    PROVE  LET t == ms \o <<Message("call", r), Message("tool", r)>>
           IN  t \in Seq(S) /\ TaskAt(t, r, u) /\ HasResult(t, r)
<1> DEFINE p == <<Message("call", r), Message("tool", r)>>
           t == ms \o p
           n == Len(ms)
<1>1. p \in Seq(S) /\ Len(p) = 2 /\ p[1] = Message("call", r) /\ p[2] = Message("tool", r)
  OBVIOUS
<1> HIDE DEF p
<1>2. t \in Seq(S) /\ IsConcat(ms, p, t)
  BY <1>1, ConcatFacts
<1> HIDE DEF t
<1>3. /\ n \in Nat /\ Len(t) = n + 2 /\ DOMAIN t = 1..n + 2
      /\ t[n + 1] = Message("call", r) /\ t[n + 2] = Message("tool", r)
      /\ \A i \in 1..n : t[i] = ms[i]
  <2>1. 1 \in 1..Len(p) /\ 2 \in 1..Len(p)
    BY <1>1
  <2> QED BY <1>1, <1>2, <2>1 DEF IsConcat
<1>4. u \in Nat /\ 2 <= u /\ u <= n
  BY DEF TaskAt
<1>5. t[1] = Message("system", 0) /\ t[u] = Message("user", r)
      /\ \A i \in 1..u - 1 : t[i].role \notin {"call", "tool"}
  BY <1>3, <1>4 DEF TaskAt
<1>6. ASSUME NEW i \in u + 1..Len(t)
      PROVE  /\ t[i].role # "user"
             /\ t[i].role = "call" => i < Len(t) /\ t[i + 1].role = "tool"
             /\ t[i].role = "tool" => t[i - 1].role = "call"
  <2>1. CASE i = n + 1
    <3>1. i < Len(t) /\ i + 1 = n + 2
      BY <1>3, <2>1
    <3> HIDE DEF n
    <3> QED BY <1>3, <2>1, <3>1 DEF Message
  <2>2. CASE i = n + 2
    <3>1. i - 1 = n + 1
      BY <1>3, <2>2
    <3> HIDE DEF n
    <3> QED BY <1>3, <2>2, <3>1 DEF Message
  <2>3. CASE i # n + 1 /\ i # n + 2
    <3>0. i \in u + 1..n + 2
      BY <1>3, <1>6
    <3>1. i \in u + 1..n /\ i \in 1..n /\ i - 1 \in 1..n /\ (i < n => i + 1 \in 1..n)
      <4> HIDE DEF n
      <4> QED BY <1>3, <1>4, <2>3, <3>0
    <3>2. /\ ms[i].role # "user"
          /\ ms[i].role = "call" => i < n /\ ms[i + 1].role = "tool"
          /\ ms[i].role = "tool" => ms[i - 1].role = "call"
      BY <3>1 DEF TaskAt
    <3> HIDE DEF n
    <3> QED BY <1>3, <3>1, <3>2
  <2> QED BY <2>1, <2>2, <2>3
<1>7. TaskAt(t, r, u)
  <2>1. u \in 2..Len(t)
    BY <1>3, <1>4
  <2> QED BY <1>5, <1>6, <2>1 DEF TaskAt
<1>8. HasResult(t, r)
  <2>1. n + 2 \in DOMAIN t
    BY <1>3
  <2> QED BY <1>3, <2>1 DEF HasResult
<1> QED BY <1>2, <1>7, <1>8 DEF t, p

\* The types, and the conversation the loop is having.
TInv == TypeOK /\ (stage # "idle" => runs > 0) /\ Conversation

Memories == [role : {"user", "assistant"}, run : 1..MaxRuns]

\* The constants have the types the model relies on.
LEMMA ConstantTypes ==
    /\ Budget \in Nat /\ PinnedTurns \in Nat /\ HistoryLimit \in Nat /\ MaxTurns \in Nat
    /\ MaxRetries \in Nat /\ MaxBatch \in Nat /\ MaxRuns \in Nat
    /\ \A text \in FirstReplies \cup LaterReplies : text \in Seq(Tokens)
BY ConstantsAssumption

\* The messages the loop makes are messages.
LEMMA MessageTypes ==
    ASSUME NEW run \in 0..MaxRuns
    PROVE  /\ \A role \in {"system", "user", "assistant", "call", "tool"} :
                 Message(role, run) \in MessageType
           /\ run > 0 => Message("user", run) \in Memories /\ Message("assistant", run) \in Memories
BY ConstantTypes DEF Message, MessageType, Memories

\* A program that has just been started.
LEMMA InitTInv == Init => TInv
<1> SUFFICES ASSUME Init PROVE TInv
  OBVIOUS
<1>1. <<>> \in Seq(MessageType) /\ <<>> \in Seq(Tokens) /\ <<>> \in Seq(Memories)
      /\ <<>> \in Seq({"answered", "exhausted", "raised", "crashed"})
  OBVIOUS
<1>2. 0 \in 0..MaxTurns /\ 0 \in 0..MaxRetries /\ 0 \in 0..MaxBatch + 1 /\ 0 \in 0..MaxRuns
  BY ConstantTypes
<1>3. /\ stage = "idle" /\ messages = <<>> /\ turn = 0 /\ tries = 0 /\ reply = <<>> /\ calls = 0
      /\ memory = <<>> /\ runs = 0 /\ done = <<>> /\ replied \in BOOLEAN
  BY Zenon DEF Init
<1>4. TypeOK
  BY <1>1, <1>2, <1>3 DEF TypeOK, Memories
<1> QED BY <1>3, <1>4 DEF TInv, Conversation

\* A run begins: the task is the last message of its request.
LEMMA RunTInv == ASSUME TInv, Run PROVE TInv'
<1>1. /\ runs \in Nat /\ runs + 1 \in 1..MaxRuns /\ runs' = runs + 1 /\ runs + 1 \in 0..MaxRuns
      /\ memory \in Seq(Memories) /\ stage' = "turn" /\ turn' = 0 /\ calls' = 0
  BY ConstantTypes DEF TInv, TypeOK, Run, Memories
<1>2. PICK h : h = LastOf(memory, HistoryLimit)
  OBVIOUS
<1>3. h \in Seq(Memories)
  BY <1>1, <1>2, ConstantTypes, LastOfType
<1>4. PICK r : r = runs + 1
  OBVIOUS
<1> DEFINE a == <<Message("system", 0)>>
           c == <<Message("user", r)>>
           b == a \o h
           t == b \o c
<1>5. messages' = t /\ r \in 0..MaxRuns
  BY <1>1, <1>2, <1>4 DEF Run
<1>6. a \in Seq(MessageType) /\ c \in Seq(MessageType) /\ h \in Seq(MessageType)
  <2>1. Message("system", 0) \in MessageType /\ Message("user", r) \in MessageType
    BY <1>5, ConstantTypes, MessageTypes DEF Message, MessageType
  <2>2. Memories \subseteq MessageType
    BY ConstantTypes DEF Memories, MessageType
  <2>3. \A i \in 1..Len(h) : h[i] \in MessageType
    BY <1>3, <2>2
  <2> QED BY <1>3, <2>1, <2>3
<1>7. Len(a) = 1 /\ a[1] = Message("system", 0) /\ Len(c) = 1 /\ c[1] = Message("user", r)
  OBVIOUS
<1> HIDE DEF a, c
<1>8. b \in Seq(MessageType) /\ IsConcat(a, h, b)
  BY <1>6, ConcatFacts
<1> HIDE DEF b
<1>9. t \in Seq(MessageType) /\ IsConcat(b, c, t)
  BY <1>6, <1>8, ConcatFacts
<1> HIDE DEF t
<1>10. /\ Len(h) \in Nat /\ Len(b) = 1 + Len(h) /\ Len(t) = Len(h) + 2
       /\ t[Len(h) + 2] = Message("user", r)
  <2>1. Len(h) \in Nat /\ Len(b) = 1 + Len(h) /\ Len(t) = Len(h) + 2
    BY <1>7, <1>8, <1>9 DEF IsConcat
  <2>2. 1 \in 1..Len(c)
    BY <1>7
  <2>3. t[Len(b) + 1] = c[1]
    BY <1>9, <2>2 DEF IsConcat
  <2>4. Len(b) + 1 = Len(h) + 2
    BY <2>1
  <2> QED BY <1>7, <2>1, <2>3, <2>4
<1>11. ASSUME NEW i \in 1..Len(h) + 1
       PROVE  t[i].role \notin {"call", "tool"} /\ (i = 1 => t[i] = Message("system", 0))
  <2>1. t[i] = b[i]
    BY <1>9, <1>10 DEF IsConcat
  <2>2. CASE i = 1
    <3>1. b[1] = a[1]
      BY <1>7, <1>8 DEF IsConcat
    <3> QED BY <1>7, <2>1, <2>2, <3>1 DEF Message
  <2>3. CASE i # 1
    <3>1. i - 1 \in 1..Len(h) /\ 1 + (i - 1) = i
      BY <1>10, <2>3
    <3>2. b[1 + (i - 1)] = h[i - 1]
      BY <1>7, <1>8, <3>1 DEF IsConcat
    <3>3. h[i - 1] \in Memories
      BY <1>3, <3>1
    <3> QED BY <2>1, <2>3, <3>1, <3>2, <3>3 DEF Memories
  <2> QED BY <2>2, <2>3
<1>12. TaskAt(t, r, Len(h) + 2)
  <2>1. Len(h) + 2 \in 2..Len(t) /\ 1 \in 1..Len(h) + 1 /\ (Len(h) + 2) - 1 = Len(h) + 1
    BY <1>10
  <2>2. \A i \in (Len(h) + 2) + 1..Len(t) : FALSE
    BY <1>10
  <2> QED BY <1>10, <1>11, <2>1, <2>2 DEF TaskAt
<1>13. Conversation'
  BY <1>1, <1>4, <1>5, <1>12 DEF Conversation
<1>14. TypeOK'
  <2>1. /\ tries \in 0..MaxRetries /\ tries' = tries /\ reply \in Seq(Tokens) /\ reply' = reply
        /\ memory' = memory /\ replied \in BOOLEAN /\ replied' = replied /\ done' = done
        /\ done \in Seq({"answered", "exhausted", "raised", "crashed"})
    BY DEF TInv, TypeOK, Run
  <2>2. 0 \in 0..MaxTurns /\ 0 \in 0..MaxBatch + 1
    BY ConstantTypes
  <2>3. messages' \in Seq(MessageType)
    BY <1>5, <1>9
  <2> QED BY <1>1, <1>4, <1>5, <2>1, <2>2, <2>3 DEF TypeOK, Memories
<1> QED BY <1>1, <1>13, <1>14 DEF TInv

\* A run that is over has no messages.
LEMMA EndTInv ==
    ASSUME TInv, NEW outcome \in {"answered", "exhausted", "raised", "crashed"}, End(outcome),
           memory' \in Seq(Memories)
    PROVE  TInv'
<1>1. /\ stage' = "idle" /\ messages' = <<>> /\ reply' = <<>> /\ tries' = 0 /\ turn' = 0
      /\ calls' = 0 /\ done' = Append(done, outcome) /\ runs' = runs /\ replied' = replied
  BY DEF End
<1>2. <<>> \in Seq(MessageType) /\ <<>> \in Seq(Tokens)
  OBVIOUS
<1>3. done' \in Seq({"answered", "exhausted", "raised", "crashed"})
  BY <1>1 DEF TInv, TypeOK
<1>4. runs \in 0..MaxRuns /\ replied \in BOOLEAN
  BY DEF TInv, TypeOK
<1>5. 0 \in 0..MaxTurns /\ 0 \in 0..MaxRetries /\ 0 \in 0..MaxBatch + 1
  BY ConstantTypes
<1>6. TypeOK'
  BY <1>1, <1>2, <1>3, <1>4, <1>5 DEF TypeOK, Memories
<1> QED BY <1>1, <1>6 DEF TInv, Conversation

\* A turn begins with what trim leaves.
LEMMA BeginTurnTInv == ASSUME TInv, BeginTurn PROVE TInv'
<1>1. /\ stage = "turn" /\ stage' = "model" /\ turn \in Nat /\ turn' = turn + 1
      /\ runs' = runs /\ runs > 0 /\ messages \in Seq(MessageType) /\ messages' = Trim(messages)
  BY ConstantTypes DEF TInv, TypeOK, BeginTurn
<1>2. PICK u : TaskAt(messages, runs, u)
  BY <1>1 DEF TInv, Conversation
<1>3. turn = 0 \/ HasResult(messages, runs)
  BY <1>1 DEF TInv, Conversation
<1>4. PICK ms, r : ms = messages /\ r = runs
  OBVIOUS
<1>5. /\ Trim(ms) \in Seq(MessageType) /\ \E v : TaskAt(Trim(ms), r, v)
      /\ HasResult(ms, r) => HasResult(Trim(ms), r)
  BY <1>1, <1>2, <1>4, ConstantTypes, TrimKeeps
<1>6. messages' = Trim(ms)
  BY <1>1, <1>4
<1>7. Conversation'
  BY <1>1, <1>3, <1>4, <1>5, <1>6 DEF Conversation
<1>8. TypeOK'
  BY <1>1, <1>5, <1>6, ConstantTypes DEF TInv, TypeOK, BeginTurn
<1> QED BY <1>1, <1>7, <1>8 DEF TInv

\* The model fails and is asked again, or it replies.
LEMMA ModelTInv ==
    ASSUME TInv, ModelReplies \/ (ModelFails /\ tries < MaxRetries) PROVE TInv'
<1>1. CASE ModelReplies
  <2>1. PICK text \in FirstReplies \cup LaterReplies, n \in 0..MaxBatch :
           reply' = text /\ calls' = n
    BY <1>1 DEF ModelReplies
  <2>2. reply' \in Seq(Tokens) /\ calls' \in 0..MaxBatch + 1
    BY <2>1, ConstantTypes
  <2>3. TypeOK'
    BY <1>1, <2>2 DEF TInv, TypeOK, ModelReplies
  <2>4. Conversation'
    BY <1>1 DEF TInv, Conversation, ModelReplies
  <2> QED BY <1>1, <2>3, <2>4 DEF TInv, ModelReplies
<1>2. CASE ModelFails /\ tries < MaxRetries
  <2>1. TypeOK'
    BY <1>2, ConstantTypes DEF TInv, TypeOK, ModelFails
  <2>2. Conversation'
    BY <1>2 DEF TInv, Conversation, ModelFails
  <2> QED BY <1>2, <2>1, <2>2 DEF TInv, ModelFails
<1> QED BY <1>1, <1>2

\* The reply is an answer, or its calls are to be executed.
LEMMA ReadReplyTInv == ASSUME TInv, ReadReply PROVE TInv'
<1>1. /\ stage = "reply" /\ reply' = <<>> /\ turn' = turn /\ tries' = tries /\ memory' = memory
      /\ runs' = runs /\ replied' = replied /\ done' = done
      /\ runs > 0 /\ runs \in 0..MaxRuns /\ messages \in Seq(MessageType) /\ calls \in 0..MaxBatch + 1
  BY DEF TInv, TypeOK, ReadReply
<1>2. PICK u : TaskAt(messages, runs, u)
  BY <1>1 DEF TInv, Conversation
<1>3. <<>> \in Seq(Tokens)
  OBVIOUS
<1>4. CASE stage' = "save" /\ messages' = messages /\ calls' = calls
  <2>1. TypeOK'
    BY <1>1, <1>3, <1>4 DEF TInv, TypeOK
  <2>2. Conversation'
    BY <1>1, <1>2, <1>4 DEF TInv, Conversation
  <2> QED BY <1>1, <2>1, <2>2 DEF TInv
<1>5. CASE /\ stage' = "tools" /\ calls' = IF calls = 0 THEN 1 ELSE calls
           /\ \/ messages' = Append(messages, Message("assistant", runs))
              \/ messages' = messages
  <2>1. calls' \in 0..MaxBatch + 1 /\ calls' > 0
    BY <1>1, <1>5, ConstantTypes
  <2>2. Message("assistant", runs) \in MessageType
    BY <1>1, MessageTypes
  <2>3. messages' \in Seq(MessageType)
    BY <1>1, <1>5, <2>2
  <2>4. \E v : TaskAt(messages, runs, v)'
    <3>1. CASE messages' = messages
      BY <1>1, <1>2, <3>1
    <3>2. CASE messages' = Append(messages, Message("assistant", runs))
      <4>1. PICK ms, r, m : ms = messages /\ r = runs /\ m = Message("assistant", runs)
        OBVIOUS
      <4>2. m.role = "assistant" /\ m \in MessageType /\ ms \in Seq(MessageType)
        BY <1>1, <2>2, <4>1 DEF Message
      <4>3. TaskAt(Append(ms, m), r, u)
        BY <1>2, <4>1, <4>2, AppendKeeps
      <4> QED BY <1>1, <3>2, <4>1, <4>3
    <3> QED BY <1>5, <3>1, <3>2
  <2>5. TypeOK'
    BY <1>1, <1>3, <1>5, <2>1, <2>3 DEF TInv, TypeOK
  <2>6. Conversation'
    BY <1>5, <2>1, <2>4 DEF Conversation
  <2> QED BY <1>1, <2>5, <2>6 DEF TInv
<1> QED BY <1>4, <1>5 DEF ReadReply

\* A call is executed.
LEMMA ExecuteTInv == ASSUME TInv, ExecuteTool PROVE TInv'
<1>1. /\ stage = "tools" /\ stage' = "tools" /\ calls \in 0..MaxBatch + 1 /\ calls > 0
      /\ calls' = calls - 1 /\ runs' = runs
      /\ runs > 0 /\ runs \in 0..MaxRuns /\ messages \in Seq(MessageType)
      /\ messages' = messages \o <<Message("call", runs), Message("tool", runs)>>
  BY DEF TInv, TypeOK, ExecuteTool
<1>2. PICK u : TaskAt(messages, runs, u)
  BY <1>1 DEF TInv, Conversation
<1>3. PICK ms, r : ms = messages /\ r = runs
  OBVIOUS
<1>4. Message("call", r) \in MessageType /\ Message("tool", r) \in MessageType
  BY <1>1, <1>3, MessageTypes
<1> DEFINE t == ms \o <<Message("call", r), Message("tool", r)>>
<1>5. t \in Seq(MessageType) /\ TaskAt(t, r, u) /\ HasResult(t, r)
  BY <1>1, <1>2, <1>3, <1>4, CallKeeps
<1>6. messages' = t
  BY <1>1, <1>3
<1> HIDE DEF t
<1>7. Conversation'
  BY <1>1, <1>3, <1>5, <1>6 DEF Conversation
<1>8. calls' \in 0..MaxBatch + 1
  BY <1>1, ConstantTypes
<1>9. TypeOK'
  BY <1>1, <1>5, <1>6, <1>8 DEF TInv, TypeOK, ExecuteTool
<1> QED BY <1>1, <1>7, <1>9 DEF TInv

\* The calls are done, or the question is stored.
LEMMA ToolsDoneTInv == ASSUME TInv, ToolsDone \/ SaveUser PROVE TInv'
<1>1. CASE ToolsDone
  BY <1>1 DEF TInv, TypeOK, Conversation, ToolsDone
<1>2. CASE SaveUser
  <2>1. memory' \in Seq(Memories)
    <3>1. Message("user", runs) \in Memories /\ memory \in Seq(Memories)
      BY <1>2, MessageTypes DEF TInv, TypeOK, SaveUser, Memories
    <3> QED BY <1>2, <3>1 DEF SaveUser
  <2>2. TypeOK'
    BY <1>2, <2>1 DEF TInv, TypeOK, SaveUser, Memories
  <2>3. Conversation'
    BY <1>2 DEF TInv, Conversation, SaveUser
  <2> QED BY <1>2, <2>2, <2>3 DEF TInv, SaveUser
<1> QED BY <1>1, <1>2

\* Every step keeps the types and the conversation.
LEMMA NextTInv == TInv /\ [Next]_vars => TInv'
<1> SUFFICES ASSUME TInv, [Next]_vars PROVE TInv'
  OBVIOUS
<1>1. memory \in Seq(Memories)
  BY DEF TInv, TypeOK, Memories
<1>2. CASE Exhausted \/ Crash \/ (ModelFails /\ ~ (tries < MaxRetries))
  BY <1>1, <1>2, EndTInv DEF Exhausted, Crash, ModelFails
<1>3. CASE SaveAssistant
  <2>1. Message("assistant", runs) \in Memories
    BY <1>3, MessageTypes DEF TInv, TypeOK, SaveAssistant
  <2>2. memory' \in Seq(Memories) /\ End("answered")
    BY <1>1, <1>3, <2>1 DEF SaveAssistant
  <2> QED BY <2>2, EndTInv
<1>4. CASE UNCHANGED vars
  BY <1>4 DEF vars, TInv, TypeOK, Conversation
<1> QED BY <1>2, <1>3, <1>4, RunTInv, BeginTurnTInv, ModelTInv, ReadReplyTInv, ExecuteTInv,
           ToolsDoneTInv DEF Next

\* The types of all variables hold, and turns and attempts stay in their limits,
\* whatever the model answers and wherever the process is killed.
THEOREM TypeCorrect == Spec => []TypeOK
<1>1. TInv => TypeOK
  BY DEF TInv
<1> QED BY <1>1, InitTInv, NextTInv, PTL DEF Spec

\* Whatever ContextManager.trim cuts, a request has the system prompt first, the
\* task of its run, and each call with its result.
THEOREM RequestsStayWhole == Spec => []RequestWhole
<1>1. TInv => RequestWhole
  <2> SUFFICES ASSUME TInv, stage = "model"
               PROVE  /\ Head(messages) = Message("system", 0)
                      /\ Sent("user", runs) # {}
                      /\ \A i \in DOMAIN messages :
                            /\ messages[i].role = "call" =>
                                  i < Len(messages) /\ messages[i + 1].role = "tool"
                            /\ messages[i].role = "tool" => messages[i - 1].role = "call"
                      /\ turn > 1 => Sent("tool", runs) # {}
    BY DEF RequestWhole
  <2>1. PICK u : TaskAt(messages, runs, u)
    BY DEF TInv, Conversation
  <2>2. messages \in Seq(MessageType) /\ turn \in Nat
    BY ConstantTypes DEF TInv, TypeOK
  <2>3. /\ DOMAIN messages = 1..Len(messages) /\ Len(messages) \in Nat
        /\ u \in Nat /\ 2 <= u /\ u <= Len(messages)
    BY <2>1, <2>2 DEF TaskAt
  <2>4. Head(messages) = Message("system", 0)
    <3>1. messages # <<>>
      BY <2>3
    <3> QED BY <2>1, <2>2, <3>1 DEF TaskAt
  <2>5. Sent("user", runs) # {}
    BY <2>1, <2>3 DEF TaskAt, Sent
  <2>6. ASSUME NEW i \in DOMAIN messages
        PROVE  /\ messages[i].role = "call" =>
                     i < Len(messages) /\ messages[i + 1].role = "tool"
               /\ messages[i].role = "tool" => messages[i - 1].role = "call"
    <3>1. CASE i \in 1..u - 1
      BY <2>1, <3>1 DEF TaskAt
    <3>2. CASE i = u
      BY <2>1, <3>2 DEF TaskAt, Message
    <3>3. CASE i \in u + 1..Len(messages)
      BY <2>1, <3>3 DEF TaskAt
    <3> QED BY <2>3, <3>1, <3>2, <3>3
  <2>7. turn > 1 => Sent("tool", runs) # {}
    BY <2>2 DEF TInv, Conversation, HasResult, Sent
  <2> QED BY <2>4, <2>5, <2>6, <2>7
<1> QED BY <1>1, InitTInv, NextTInv, PTL DEF Spec

----------------------------------------------------------------------------
(* The parsers.                                                             *)

\* The least and the greatest of a finite set are what their names say.
LEMMA LeastIs ==
    ASSUME NEW T, NEW n \in T, \A m \in T : n <= m, T \subseteq Nat
    PROVE  Least(T) = n
<1>1. Least(T) \in T /\ \A m \in T : Least(T) <= m
  BY DEF Least
<1>2. Least(T) \in Nat /\ n \in Nat /\ Least(T) <= n /\ n <= Least(T)
  BY <1>1
<1> HIDE DEF Least
<1> QED BY <1>2

Opening == "{"
Closing == "}"

\* How many tokens from b to e are the given one.
CountOf(t, b, e, token) == Cardinality({k \in b..e : t[k] = token})

\* Tokens are counted piece by piece.
LEMMA CountSplits ==
    ASSUME NEW t, NEW token, NEW i \in Nat, NEW j \in Nat, NEW m \in i..j - 1
    PROVE  /\ CountOf(t, i, j, token) = CountOf(t, i, m, token) + CountOf(t, m + 1, j, token)
           /\ CountOf(t, i, m, token) \in Nat /\ CountOf(t, m + 1, j, token) \in Nat
<1> DEFINE Of(b, e) == {k \in b..e : t[k] = token}
<1>1. PICK A, B, C : A = Of(i, m) /\ B = Of(m + 1, j) /\ C = Of(i, j)
  OBVIOUS
<1>2. IsFiniteSet(A) /\ IsFiniteSet(B)
  <2>1. \A x, y \in Int : IsFiniteSet(x..y)
    BY FS_Interval
  <2>2. IsFiniteSet(i..m) /\ IsFiniteSet(m + 1..j) /\ A \in SUBSET (i..m) /\ B \in SUBSET (m + 1..j)
    BY <1>1, <2>1
  <2> QED BY <2>2, FS_Subset
<1>3. C = A \cup B /\ A \cap B = {}
  BY <1>1
<1>4. CountOf(t, i, m, token) = Cardinality(A) /\ CountOf(t, m + 1, j, token) = Cardinality(B)
      /\ CountOf(t, i, j, token) = Cardinality(C)
  BY <1>1 DEF CountOf
<1>5. Cardinality(A) \in Nat /\ Cardinality(B) \in Nat
  BY <1>2, FS_CardinalityType
<1>6. Cardinality(A \cup B) = Cardinality(A) + Cardinality(B) - Cardinality(A \cap B)
  BY <1>2, FS_Union
<1>7. Cardinality({}) = 0
  BY FS_EmptySet
<1>8. Cardinality(C) = Cardinality(A) + Cardinality(B)
  <2>1. Cardinality(C) = Cardinality(A) + Cardinality(B) - 0
    BY <1>3, <1>6, <1>7, Zenon
  <2>2. \A x, y \in Nat : x + y - 0 = x + y
    OBVIOUS
  <2> QED BY <1>5, <2>1, <2>2, Zenon
<1> QED BY <1>4, <1>5, <1>8

\* So is nesting.
LEMMA DepthSplits ==
    ASSUME NEW t, NEW i \in Nat, NEW j \in Nat, NEW m \in i..j - 1
    PROVE  /\ Depth(t, i, j) = Depth(t, i, m) + Depth(t, m + 1, j)
           /\ Depth(t, i, m) \in Int /\ Depth(t, m + 1, j) \in Int
<1>1. \A b, e : Depth(t, b, e) = CountOf(t, b, e, Opening) - CountOf(t, b, e, Closing)
  BY Zenon DEF Depth, CountOf, Opening, Closing
<1>2. \A token : /\ CountOf(t, i, j, token) = CountOf(t, i, m, token) + CountOf(t, m + 1, j, token)
                 /\ CountOf(t, i, m, token) \in Nat /\ CountOf(t, m + 1, j, token) \in Nat
  BY CountSplits
<1> QED BY <1>1, <1>2

\* What makes an object, as far as the search for it goes.
LEMMA ObjectFacts ==
    ASSUME NEW t, NEW i, NEW j, IsObject(t, i, j)
    PROVE  /\ i < j /\ t[i] = Opening /\ t[j] = Closing
           /\ Depth(t, i, j) = 0 /\ \A k \in i..j - 1 : Depth(t, i, k) > 0
BY Zenon DEF IsObject, Opening, Closing

\* All braces of t are those of the object o, and none is in a string.
PlainAround(t, o) ==
    /\ t \in Seq(Tokens) /\ o \in Objects(t)
    /\ BracesOutside(t, o) = {}
    /\ \A k \in DOMAIN t : t[k] \notin {"text{", "text}", "fence"}

\* What is known of such an object.
LEMMA PlainFacts ==
    ASSUME NEW t, NEW o, PlainAround(t, o)
    PROVE  /\ o = Span(o.first, o.last) /\ o # None
           /\ IsObject(t, o.first, o.last)
           /\ o.first \in 1..Len(t) /\ o.last \in 1..Len(t) /\ o.first < o.last
           /\ Len(t) \in Nat /\ DOMAIN t = 1..Len(t)
           /\ \A k \in DOMAIN t : (t[k] = Opening \/ t[k] = Closing) => k \in o.first..o.last
           /\ \A k \in DOMAIN t : (Opens(t[k]) <=> t[k] = Opening) /\ (Closes(t[k]) <=> t[k] = Closing)
<1>1. t \in Seq(Tokens) /\ o \in Objects(t)
  BY Zenon DEF PlainAround
<1>2. Len(t) \in Nat /\ DOMAIN t = 1..Len(t)
  BY <1>1
<1>3. o \in [first : DOMAIN t, last : DOMAIN t] /\ IsObject(t, o.first, o.last)
  BY <1>1, Zenon DEF Objects
<1>4. o.first \in DOMAIN t /\ o.last \in DOMAIN t /\ o = [first |-> o.first, last |-> o.last]
  BY <1>3
<1>5. \A k \in DOMAIN t : (Opens(t[k]) <=> t[k] = Opening) /\ (Closes(t[k]) <=> t[k] = Closing)
  BY Zenon DEF PlainAround, Opens, Closes, Opening, Closing
<1>6. ASSUME NEW k \in DOMAIN t, t[k] = Opening \/ t[k] = Closing
      PROVE  k \in o.first..o.last
  <2>1. Opens(t[k]) \/ Closes(t[k])
    BY <1>5, <1>6, Zenon
  <2>2. BracesOutside(t, o) = {}
    BY Zenon DEF PlainAround
  <2> QED BY <2>1, <2>2, Zenon DEF BracesOutside
<1>7. o # None
  BY <1>2, <1>4 DEF None
<1>8. o.first < o.last
  BY <1>3, ObjectFacts
<1> QED BY <1>2, <1>3, <1>4, <1>5, <1>6, <1>7, <1>8 DEF Span

\* A text has no second object beside such a one.
LEMMA OnlyObject ==
    ASSUME NEW t, NEW o, PlainAround(t, o), NEW p \in Objects(t)
    PROVE  p = o
<1>1. /\ o = Span(o.first, o.last) /\ IsObject(t, o.first, o.last)
      /\ o.first \in 1..Len(t) /\ o.last \in 1..Len(t) /\ o.first < o.last
      /\ Len(t) \in Nat /\ DOMAIN t = 1..Len(t)
      /\ \A k \in DOMAIN t : (t[k] = Opening \/ t[k] = Closing) => k \in o.first..o.last
  BY PlainFacts
<1>2. /\ p \in [first : DOMAIN t, last : DOMAIN t] /\ IsObject(t, p.first, p.last)
      /\ ~ (o.first < p.first /\ p.last < o.last)
  <2>1. p \in [first : DOMAIN t, last : DOMAIN t] /\ IsObject(t, p.first, p.last)
    BY Zenon DEF Objects
  <2>2. o \in [first : DOMAIN t, last : DOMAIN t] /\ IsObject(t, o.first, o.last)
    BY Zenon DEF PlainAround, Objects
  <2>3. ~ (o.first < p.first /\ p.last < o.last)
    BY <2>2, Zenon DEF Objects
  <2> QED BY <2>1, <2>3
<1>3. /\ p.first \in DOMAIN t /\ p.last \in DOMAIN t /\ p = Span(p.first, p.last)
      /\ p.first < p.last
  BY <1>2, ObjectFacts DEF Span
<1>4. p.first \in o.first..o.last /\ p.last \in o.first..o.last
  <2>1. t[p.first] = Opening /\ t[p.last] = Closing
    BY <1>2, ObjectFacts
  <2> QED BY <1>1, <1>3, <2>1
<1>5. /\ Depth(t, o.first, o.last) = 0 /\ Depth(t, p.first, p.last) = 0
      /\ \A k \in o.first..o.last - 1 : Depth(t, o.first, k) > 0
  BY <1>1, <1>2, ObjectFacts
<1>6. CASE p.first = o.first
  <2>1. p.last = o.last
    <3>1. p.last # o.last => p.last \in o.first..o.last - 1
      BY <1>1, <1>4
    <3>2. p.last # o.last => 0 > 0
      BY <1>5, <1>6, <3>1
    <3> QED BY <3>2
  <2> QED BY <1>1, <1>3, <1>6, <2>1
<1>7. CASE p.first # o.first
  <2>1. p.last = o.last /\ o.first < p.first
    BY <1>1, <1>2, <1>3, <1>4, <1>7
  <2>2. p.first - 1 \in o.first..o.last - 1 /\ o.first \in Nat /\ o.last \in Nat
        /\ (p.first - 1) + 1 = p.first
    BY <1>1, <1>4, <2>1
  <2>3. /\ Depth(t, o.first, o.last)
           = Depth(t, o.first, p.first - 1) + Depth(t, (p.first - 1) + 1, o.last)
        /\ Depth(t, o.first, p.first - 1) \in Int
    BY <2>2, DepthSplits
  <2>4. Depth(t, o.first, p.first - 1) > 0
    BY <1>5, <2>2
  <2>5. Depth(t, (p.first - 1) + 1, o.last) = 0
    BY <1>5, <2>1, <2>2
  <2> QED BY <1>5, <2>3, <2>4, <2>5
<1> QED BY <1>6, <1>7

\* Counting braces from its first one ends at its last one.
LEMMA CountedIs ==
    ASSUME NEW t, NEW o, PlainAround(t, o)
    PROVE  Counted(t, o.first) = o
<1>1. /\ o = Span(o.first, o.last) /\ IsObject(t, o.first, o.last)
      /\ o.first \in 1..Len(t) /\ o.last \in 1..Len(t) /\ o.first < o.last
      /\ Len(t) \in Nat /\ DOMAIN t = 1..Len(t)
      /\ \A k \in DOMAIN t : (Opens(t[k]) <=> t[k] = Opening) /\ (Closes(t[k]) <=> t[k] = Closing)
  BY PlainFacts
<1> DEFINE i == o.first
           count(j) == Cardinality({k \in i..j : Opens(t[k])}) - Cardinality({k \in i..j : Closes(t[k])})
           ends == {j \in i..Len(t) : count(j) = 0}
<1>2. ASSUME NEW j \in i..Len(t) PROVE count(j) = Depth(t, i, j)
  <2>1. \A k \in i..j : k \in DOMAIN t
    BY <1>1, <1>2
  <2>2. {k \in i..j : Opens(t[k])} = {k \in i..j : t[k] = Opening}
        /\ {k \in i..j : Closes(t[k])} = {k \in i..j : t[k] = Closing}
    BY <1>1, <2>1, Zenon
  <2> QED BY <2>2, Zenon DEF Depth, Opening, Closing
<1>3. Matching(t, i) = IF ends = {} THEN 0 ELSE Least(ends)
  BY DEF Matching
<1>4. /\ Depth(t, i, o.last) = 0
      /\ \A k \in i..o.last - 1 : Depth(t, i, k) > 0
  BY <1>1, ObjectFacts
<1>5. o.last \in ends
  <2>1. o.last \in i..Len(t)
    BY <1>1
  <2> HIDE DEF count
  <2> QED BY <1>2, <1>4, <2>1
<1>6. ASSUME NEW j \in ends PROVE o.last <= j
  <2>1. j \in i..Len(t) /\ Depth(t, i, j) = 0
    <3> HIDE DEF count
    <3> QED BY <1>2
  <2>2. j < o.last => j \in i..o.last - 1
    BY <1>1, <2>1
  <2>3. j < o.last => 0 > 0
    BY <1>4, <2>1, <2>2
  <2> QED BY <1>1, <2>1, <2>3
<1>7. ends \subseteq Nat
  <2> HIDE DEF count
  <2> QED BY <1>1
<1> HIDE DEF ends, count
<1>8. Least(ends) = o.last
  BY <1>5, <1>6, <1>7, LeastIs
<1>9. Matching(t, i) = o.last /\ o.last # 0
  BY <1>1, <1>3, <1>5, <1>8
<1> QED BY <1>1, <1>9 DEF Counted

\* The strategies for whole replies and fenced blocks find nothing else.
LEMMA WholeIs ==
    ASSUME NEW t, NEW o, PlainAround(t, o)
    PROVE  Whole(t) \in {o, None} /\ Fenced(t) = None
<1>1. /\ o = Span(o.first, o.last)
      /\ o.first \in 1..Len(t) /\ o.last \in 1..Len(t) /\ o.first < o.last
      /\ Len(t) \in Nat /\ DOMAIN t = 1..Len(t)
      /\ \A k \in DOMAIN t : (t[k] = Opening \/ t[k] = Closing) => k \in o.first..o.last
  BY PlainFacts
<1>2. IsObject(t, 1, Len(t)) => o.first = 1 /\ o.last = Len(t)
  <2>1. IsObject(t, 1, Len(t)) => t[1] = Opening /\ t[Len(t)] = Closing
    BY ObjectFacts
  <2>2. 1 \in DOMAIN t /\ Len(t) \in DOMAIN t
    BY <1>1
  <2>3. IsObject(t, 1, Len(t)) => 1 \in o.first..o.last /\ Len(t) \in o.first..o.last
    BY <1>1, <2>1, <2>2
  <2> QED BY <1>1, <2>3
<1>3. Whole(t) \in {o, None}
  BY <1>1, <1>2 DEF Whole
<1>4. {k \in DOMAIN t : t[k] = "fence"} = {}
  BY Zenon DEF PlainAround
<1>5. Cardinality({k \in DOMAIN t : t[k] = "fence"}) = 0
  BY <1>4, FS_EmptySet
<1>6. Fenced(t) = None
  <2>1. ~ (Cardinality({k \in DOMAIN t : t[k] = "fence"}) >= 2)
    BY <1>5
  <2> QED BY <2>1 DEF Fenced
<1> QED BY <1>3, <1>6

\* Three strategies of which the third finds the object, and the others nothing else.
LEMMA FirstOfThree ==
    ASSUME NEW o, o # None, NEW w \in {o, None}
    PROVE  FirstOf(<<w, None, o>>) = o
<1> DEFINE found == <<w, None, o>>
           some == {k \in DOMAIN found : found[k] # None}
<1>1. DOMAIN found = 1..3 /\ found[1] = w /\ found[2] = None /\ found[3] = o
  OBVIOUS
<1>2. FirstOf(found) = IF some = {} THEN None ELSE found[Least(some)]
  BY DEF FirstOf
<1> HIDE DEF found
<1>3. some \subseteq Nat /\ 3 \in some
  BY <1>1
<1>4. CASE w = o
  <2>1. 1 \in some /\ \A k \in some : 1 <= k
    BY <1>1, <1>4
  <2> HIDE DEF some
  <2>2. Least(some) = 1
    BY <1>3, <2>1, LeastIs
  <2> QED BY <1>1, <1>2, <1>3, <1>4, <2>2 DEF found
<1>5. CASE w = None
  <2>1. \A k \in some : 3 <= k
    <3>1. \A k \in some : k \in 1..3 /\ k # 1 /\ k # 2
      BY <1>1, <1>5
    <3> QED BY <3>1
  <2> HIDE DEF some
  <2>2. Least(some) = 3
    BY <1>3, <2>1, LeastIs
  <2> QED BY <1>1, <1>2, <1>3, <2>2 DEF found
<1> QED BY <1>4, <1>5

\* The first brace of the text is the object's.
LEMMA FirstObjectIs ==
    ASSUME NEW t, NEW o, PlainAround(t, o)
    PROVE  FirstObject(t) = o
<1>1. /\ o.first \in 1..Len(t) /\ IsObject(t, o.first, o.last) /\ o.last \in 1..Len(t)
      /\ DOMAIN t = 1..Len(t) /\ Len(t) \in Nat
      /\ \A k \in DOMAIN t : (t[k] = Opening \/ t[k] = Closing) => k \in o.first..o.last
      /\ \A k \in DOMAIN t : (Opens(t[k]) <=> t[k] = Opening) /\ (Closes(t[k]) <=> t[k] = Closing)
  BY PlainFacts
<1> DEFINE starts == {k \in DOMAIN t : Opens(t[k])}
<1>2. o.first \in starts
  <2>1. t[o.first] = Opening /\ o.first \in DOMAIN t
    BY <1>1, ObjectFacts
  <2> QED BY <1>1, <2>1, Zenon
<1>3. \A k \in starts : o.first <= k
  <2>1. \A k \in starts : k \in o.first..o.last
    BY <1>1, Zenon
  <2> QED BY <1>1, <2>1
<1>4. starts \subseteq Nat
  BY <1>1
<1>5. FirstObject(t) = IF starts = {} THEN None ELSE Counted(t, Least(starts))
  BY DEF FirstObject
<1> HIDE DEF starts
<1>6. Least(starts) = o.first
  BY <1>2, <1>3, <1>4, LeastIs
<1> QED BY <1>2, <1>5, <1>6, CountedIs

\* The brace before the first marker is the object's, when the call comes first.
LEMMA EmbeddedIs ==
    ASSUME NEW t, NEW o, PlainAround(t, o), HasCall(t, o), CallComesFirst(t, o)
    PROVE  Embedded(t) = o
<1>1. /\ o.first \in 1..Len(t) /\ IsObject(t, o.first, o.last) /\ o.last \in 1..Len(t)
      /\ DOMAIN t = 1..Len(t) /\ Len(t) \in Nat
      /\ t[o.first] = Opening /\ o.first < o.last
      /\ \A k \in DOMAIN t : (t[k] = Opening \/ t[k] = Closing) => k \in o.first..o.last
      /\ \A k \in DOMAIN t : (Opens(t[k]) <=> t[k] = Opening) /\ (Closes(t[k]) <=> t[k] = Closing)
  BY PlainFacts, ObjectFacts
<1>0. /\ \A k \in 1..o.first - 1 : t[k] # "call"
      /\ \A k \in o.first + 1..o.last : t[k] = Opening => \E m \in o.first..k : t[m] = "call"
      /\ Opening # "call"
  BY Zenon DEF CallComesFirst, Opening
<1> DEFINE marks == {k \in DOMAIN t : t[k] = "call"}
           before == {k \in DOMAIN t : Opens(t[k]) /\ k < Least(marks)}
<1>2. marks \subseteq Nat /\ marks # {}
  BY <1>1 DEF HasCall
<1>3. Least(marks) \in marks /\ \A k \in marks : Least(marks) <= k
  <2> HIDE DEF marks
  <2>1. \E n \in marks : \A k \in marks : n <= k
    BY <1>2, LeastNat
  <2> QED BY <2>1 DEF Least
<1> PICK mark : mark = Least(marks)
  OBVIOUS
<1>4. mark \in 1..Len(t) /\ t[mark] = "call" /\ o.first < mark
  <2>1. mark \in 1..Len(t) /\ t[mark] = "call"
    BY <1>1, <1>3
  <2>2. mark # o.first
    BY <1>0, <1>1, <2>1
  <2>3. ~ (mark \in 1..o.first - 1)
    BY <1>0, <2>1
  <2> QED BY <1>1, <2>1, <2>2, <2>3
<1>5. before = {o.first}
  <2>1. o.first \in before
    <3>1. o.first \in DOMAIN t
      BY <1>1
    <3> QED BY <1>1, <1>4, <3>1, Zenon
  <2>2. ASSUME NEW k \in before PROVE k = o.first
    <3>1. k \in DOMAIN t /\ t[k] = Opening /\ k < mark /\ k \in o.first..o.last
      BY <1>1, Zenon
    <3>2. SUFFICES ASSUME k # o.first PROVE FALSE
      OBVIOUS
    <3>3. k \in o.first + 1..o.last
      BY <1>1, <3>1, <3>2
    <3>4. PICK m \in o.first..k : t[m] = "call"
      BY <1>0, <3>1, <3>3
    <3>5. m \in marks
      BY <1>1, <3>1, <3>4
    <3>6. mark <= m /\ m <= k /\ m \in Nat
      <4> HIDE DEF marks, before
      <4> QED BY <1>1, <1>3, <3>4, <3>5
    <3> QED BY <1>1, <1>4, <3>1, <3>6
  <2> QED BY <2>1, <2>2
<1>6. Greatest({o.first}) = o.first
  <2>1. o.first <= o.first
    BY <1>1
  <2>2. \E i \in {o.first} : \A j \in {o.first} : j <= i
    BY <2>1
  <2>3. Greatest({o.first}) \in {o.first}
    BY <2>2, Zenon DEF Greatest
  <2> QED BY <2>3
<1>7. Embedded(t) = IF marks = {} \/ before = {} THEN None ELSE Counted(t, Greatest(before))
  BY DEF Embedded
<1> HIDE DEF before, marks
<1>8. Embedded(t) = Counted(t, o.first)
  BY <1>2, <1>5, <1>6, <1>7
<1> QED BY <1>8, CountedIs

\* In every reply with one plain object both parsers find it: the engine's always,
\* the legacy one when nothing that looks like a call or an object is before its call.
THEOREM PlainObjectsFound == Spec => []PlainObjectFound
<1>1. TInv => PlainObjectFound
  <2> SUFFICES ASSUME TInv, Plain(reply), NEW o \in Objects(reply)
               PROVE  /\ ParseOutput(reply) = o
                      /\ HasCall(reply, o) /\ CallComesFirst(reply, o) => ParseLegacy(reply) = o
    BY Zenon DEF PlainObjectFound
  <2>1. reply \in Seq(Tokens)
    BY Zenon DEF TInv, TypeOK
  <2>2. PICK p \in Objects(reply) :
           /\ BracesOutside(reply, p) = {}
           /\ \A k \in DOMAIN reply : reply[k] \notin {"text{", "text}", "fence"}
    BY Zenon DEF Plain
  <2>3. PlainAround(reply, p)
    BY <2>1, <2>2, Zenon DEF PlainAround
  <2>4. PlainAround(reply, o)
    <3>1. o = p
      BY <2>3, OnlyObject
    <3> QED BY <2>3, <3>1
  <2>5. /\ o # None /\ Whole(reply) \in {o, None} /\ Fenced(reply) = None
        /\ FirstObject(reply) = o
    BY <2>4, PlainFacts, WholeIs, FirstObjectIs
  <2>6. reply # <<"value">>
    <3>1. o.last \in 1..Len(reply) /\ o.first \in 1..Len(reply) /\ o.first < o.last
            /\ Len(reply) \in Nat
      BY <2>4, PlainFacts
    <3>2. Len(<<"value">>) = 1
      OBVIOUS
    <3>3. reply = <<"value">> => Len(reply) = 1
      BY <3>2, Zenon
    <3>4. \A n \in Nat : \A a, b \in 1..n : a < b => n # 1
      OBVIOUS
    <3>5. Len(reply) # 1
      BY <3>1, <3>4, Zenon
    <3> QED BY <3>3, <3>5, Zenon
  <2>7. ParseOutput(reply) = o
    BY <2>5, <2>6, FirstOfThree DEF ParseOutput
  <2>8. ASSUME HasCall(reply, o), CallComesFirst(reply, o) PROVE ParseLegacy(reply) = o
    <3>1. Embedded(reply) = o
      BY <2>4, <2>8, EmbeddedIs
    <3> QED BY <2>5, <3>1, FirstOfThree DEF ParseLegacy
  <2> QED BY <2>7, <2>8
<1> QED BY <1>1, InitTInv, NextTInv, PTL DEF Spec
=============================================================================
