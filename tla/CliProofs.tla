----------------------------- MODULE CliProofs ------------------------------
(***************************************************************************)
(* Theorems about Cli: what the tables hold after any number of commands,   *)
(* kills and resumes, that what a command says agrees with them, and that    *)
(* the two permission gates follow the same settings in every layering.      *)
(***************************************************************************)
EXTENDS Cli, PickedFacts, FiniteSetTheorems, TLAPS

----------------------------------------------------------------------------
(* The inductive invariant.                                                 *)

Active == {"engine", "closing", "save", "user", "assistant"}

\* The places of run r in a table, and the steps that a table has of a session.
PlacesOf(r, table) == {i \in DOMAIN table : table[i].run = r}
StepsOf(s, table) == {table[i].step : i \in {j \in DOMAIN table : table[j].session = s}}

\* A process works on a run, or has told what became of it; a resume that is
\* refused does neither.
Holds(k) ==
    /\ k.run # 0
    /\ \/ k.stage \in Active
       \/ k.stage = "exit" /\ ~ (k.command = "resume" /\ k.code = 1)

\* What holds of a process whatever the others do, with the tables R of runs and
\* T of traces.
ProcFacts(k, R, T) ==
    /\ k.stage \in {"off", "config", "task"} => k.run = 0 /\ k.existing = {}
    /\ k.stage \in Active => k.run # 0
    /\ k.run # 0 => k.session = R[k.run].session
    /\ k.stage = "task" => k.command # "resume" /\ k.session # 0
    /\ k.run # 0 /\ k.command # "resume" => k.session # 0
    /\ k.stage = "exit" /\ k.command = "chat" => k.run = 0
    /\ k.existing \subseteq StepsOf(k.session, T)
    /\ k.stage \in {"user", "assistant"} =>
          k.command # "resume" /\ 1..k.trace \subseteq k.existing
    /\ k.stage = "assistant" \/ (k.stage = "user" /\ k.command = "run") => k.code = 0
    /\ k.stage = "exit" /\ Holds(k) /\ k.session # 0 => 1..k.trace \subseteq StepsOf(k.session, T)
    /\ Holds(k) /\ k.stage # "engine" =>
          /\ k.code \in {0, 1, 3}
          /\ k.code = 0 => k.answered
          /\ k.answered => k.code # 3 /\ k.trace # 0

\* The status of a run is that which the code of its process says.
CodeTells(k, R) ==
    /\ k.code = 0 => R[k.run].status = "completed"
    /\ k.code = 1 => R[k.run].status = "failed"
    /\ k.code = 3 => R[k.run].status = "waiting_approval"

\* What is stored of the run of a process that runs it with a task of its own.
ConversationOf(k, M) ==
    LET mine == PlacesOf(k.run, M)
    IN  /\ k.stage = "assistant" => \E i \in DOMAIN M : mine = {i} /\ M[i].role = "user"
        /\ k.stage = "exit" /\ k.code = 0 =>
              \E i, j \in DOMAIN M :
                 i < j /\ mine = {i, j} /\ M[i].role = "user" /\ M[j].role = "assistant"
        /\ k.stage # "assistant" /\ (k.stage = "exit" => k.code # 0) => mine = {}

\* What holds of a process that has had its run for itself.
RunFacts(k, R, T, M) ==
    LET r == R[k.run]
    IN  /\ k.stage = "engine" => r.status \in {"created", "running"} /\ r.kept = k.trace
        /\ k.stage # "engine" => CodeTells(k, R) /\ (k.code = 3 => r.kept = k.trace)
        /\ k.stage = "closing" /\ k.answered => \A i \in PlacesOf(k.run, T) : T[i].step < k.trace
        /\ k.stage \in {"engine", "closing"} /\ k.command # "resume" => PlacesOf(k.run, T) = {}
        /\ k.stage = "save" => \A i \in PlacesOf(k.run, T) : 1..T[i].step \subseteq k.existing
        /\ k.stage \notin {"engine", "closing"} /\ k.answered =>
              \A i \in PlacesOf(k.run, T) : T[i].step = k.trace => T[i].final
        /\ k.command = "run" => ConversationOf(k, M)

ProcsInv ==
    \A p \in Procs :
        /\ ProcFacts(procs[p], runs, traces)
        /\ Holds(procs[p]) /\ procs[p].run \notin contended => RunFacts(procs[p], runs, traces, messages)

\* A run has one process, unless it has been resumed while it had one.
Sole ==
    \A p, q \in Procs :
        Holds(procs[p]) /\ Holds(procs[q]) /\ procs[p].run = procs[q].run /\ procs[p].run \notin contended
            => p = q

\* A session is the work of the process that opened it, resumes apart.
Opens(k) == k.command # "resume" /\ k.stage \in {"task"} \cup Active

Owners ==
    \A p, q \in Procs :
        Opens(procs[p]) /\ Opens(procs[q]) /\ procs[p].session = procs[q].session => p = q

\* A run that only one process at a time has worked on, and that is not over:
\* it can be resumed.
Resumable(r) == r \notin contended /\ runs[r].status \notin Ended

TracesInv ==
    /\ \A i \in DOMAIN traces : LET t == traces[i] IN
          /\ t.session = runs[t.run].session
          /\ Resumable(t.run) => t.step <= runs[t.run].kept
          /\ 1..t.step \subseteq StepsOf(t.session, traces)
          /\ t.final => t.run \in contended \/ runs[t.run].status \in Ended
    /\ \A i, j \in DOMAIN traces :
          i < j /\ traces[i].run = traces[j].run /\ traces[i].run \notin contended
              => traces[i].step < traces[j].step

\* The sequence of a checkpoint is never more than one above the steps in it.
Sane(row) == row.seq <= row.kept + 1 /\ (row.seq = -1 => row.kept = 0)

RunsInv ==
    \A r \in DOMAIN runs :
        /\ Sane(runs[r])
        /\ Resumable(r) => told[r] <= runs[r].kept
        /\ runs[r].session # 0 => 1..told[r] \subseteq StepsOf(runs[r].session, traces)

\* The last message of a session in M is m, at the place i.
LastIs(i, m, M) ==
    /\ i \in DOMAIN M /\ M[i] = m
    /\ \A l \in DOMAIN M : l > i => M[l].session # m.session

TaskOf(k) == [session |-> k.session, run |-> k.run, role |-> "user"]

MessagesInv ==
    /\ \A j \in DOMAIN messages : LET m == messages[j] IN
          m.role = "assistant" =>
             /\ m.run \in contended \/ runs[m.run].status = "completed"
             /\ \E i \in 1..j - 1 :
                   /\ messages[i] = [m EXCEPT !.role = "user"]
                   /\ \A l \in i + 1..j - 1 : messages[l].session # m.session
    /\ \A p \in Procs : procs[p].stage = "assistant" => \E i \in DOMAIN messages : LastIs(i, TaskOf(procs[p]), messages)

\* Settings are read before anything else, in one way or another.
SourcesInv == \A p \in Procs : procs[p].stage = "config" => procs[p].source \in Settled \cup Loud

IInv ==
    /\ TypeOK
    /\ ProcsInv
    /\ Sole
    /\ Owners
    /\ TracesInv
    /\ RunsInv
    /\ MessagesInv
    /\ SourcesInv

----------------------------------------------------------------------------
(* Types.                                                                   *)

RunRows(n) == [session : 0..n, status : Statuses, seq : -1..MaxSteps, kept : 0..MaxSteps]
TraceRows(n, R) == [session : 1..n, run : R, step : 1..MaxSteps, final : BOOLEAN]
MessageRows(n, R) == [session : 1..n, run : R, role : {"user", "assistant"}]
ProcRows(n, R) ==
    [stage : Stages, command : Commands, source : Sources, session : 0..n, run : {0} \cup R,
     trace : 0..MaxSteps, call : {"none", "made", "left"}, existing : SUBSET (1..MaxSteps),
     code : 0..3, answered : BOOLEAN]

\* The variables have their types.
LEMMA Typed ==
    ASSUME TypeOK
    PROVE  /\ sessions \in 0..MaxSessions
           /\ runs \in Seq(RunRows(sessions))
           /\ traces \in Seq(TraceRows(sessions, DOMAIN runs))
           /\ messages \in Seq(MessageRows(sessions, DOMAIN runs))
           /\ procs \in [Procs -> ProcRows(sessions, DOMAIN runs)]
           /\ contended \subseteq DOMAIN runs
           /\ told \in [DOMAIN runs -> 0..MaxSteps]
           /\ \A r \in DOMAIN runs : r \in Nat /\ r # 0
<1>1. /\ sessions \in 0..MaxSessions
      /\ runs \in Seq(RunRows(sessions))
      /\ traces \in Seq(TraceRows(sessions, DOMAIN runs))
      /\ messages \in Seq(MessageRows(sessions, DOMAIN runs))
      /\ procs \in [Procs -> ProcRows(sessions, DOMAIN runs)]
      /\ contended \subseteq DOMAIN runs
      /\ told \in [DOMAIN runs -> 0..MaxSteps]
  BY DEF TypeOK, RunRows, TraceRows, MessageRows, ProcRows
<1>2. \A r \in DOMAIN runs : r \in Nat /\ r # 0
  BY <1>1
<1> QED BY <1>1, <1>2

\* So they have after a step.
LEMMA TypedAfter ==
    ASSUME TypeOK'
    PROVE  /\ sessions' \in 0..MaxSessions
           /\ runs' \in Seq(RunRows(sessions'))
           /\ traces' \in Seq(TraceRows(sessions', DOMAIN runs'))
           /\ messages' \in Seq(MessageRows(sessions', DOMAIN runs'))
           /\ procs' \in [Procs -> ProcRows(sessions', DOMAIN runs')]
           /\ contended' \subseteq DOMAIN runs'
           /\ told' \in [DOMAIN runs' -> 0..MaxSteps]
BY DEF TypeOK, RunRows, TraceRows, MessageRows, ProcRows

\* Conversely, of the variables of the next state.
LEMMA TypedNext ==
    ASSUME sessions' \in 0..MaxSessions,
           runs' \in Seq(RunRows(sessions')),
           traces' \in Seq(TraceRows(sessions', DOMAIN runs')),
           messages' \in Seq(MessageRows(sessions', DOMAIN runs')),
           procs' \in [Procs -> ProcRows(sessions', DOMAIN runs')],
           contended' \subseteq DOMAIN runs',
           told' \in [DOMAIN runs' -> 0..MaxSteps]
    PROVE  TypeOK'
BY DEF TypeOK, RunRows, TraceRows, MessageRows, ProcRows

\* The tables grow; what had its type keeps it.
LEMMA TypesGrow ==
    ASSUME NEW n \in Nat, NEW m \in Nat, n <= m, NEW R, NEW S, R \subseteq S
    PROVE  /\ Seq(RunRows(n)) \subseteq Seq(RunRows(m))
           /\ Seq(TraceRows(n, R)) \subseteq Seq(TraceRows(m, S))
           /\ Seq(MessageRows(n, R)) \subseteq Seq(MessageRows(m, S))
           /\ ProcRows(n, R) \subseteq ProcRows(m, S)
<1>1. 0..n \subseteq 0..m /\ 1..n \subseteq 1..m
  OBVIOUS
<1>2. RunRows(n) \subseteq RunRows(m)
  BY <1>1 DEF RunRows
<1>3. TraceRows(n, R) \subseteq TraceRows(m, S)
  BY <1>1 DEF TraceRows
<1>4. MessageRows(n, R) \subseteq MessageRows(m, S)
  BY <1>1 DEF MessageRows
<1>5. ProcRows(n, R) \subseteq ProcRows(m, S)
  BY <1>1 DEF ProcRows
<1> QED BY <1>2, <1>3, <1>4, <1>5

\* The bounds are numbers.
LEMMA Bounds ==
    /\ MaxSessions \in Nat /\ MaxSessions # 0 /\ MaxSteps \in Nat /\ MaxSteps # 0
    /\ MaxRuns \in Nat /\ ListLimit \in Nat
<1>1. {MaxSessions, MaxSteps} \subseteq Nat \ {0} /\ {MaxRuns, ListLimit} \subseteq Nat
  BY ConstantsAssumption, Zenon
<1> QED BY <1>1

\* The fields of rows and processes.
LEMMA RunRowFacts ==
    ASSUME NEW n \in Nat, NEW x \in RunRows(n)
    PROVE  /\ x.session \in Nat /\ x.session <= n
           /\ x.status \in Statuses /\ x.seq \in Int /\ x.seq >= -1 /\ x.seq <= MaxSteps
           /\ x.kept \in Nat /\ x.kept <= MaxSteps
BY Bounds DEF RunRows

\* The fields of a process.
LEMMA ProcRowFacts ==
    ASSUME NEW n \in Nat, NEW D, NEW k \in ProcRows(n, D)
    PROVE  /\ k.stage \in Stages /\ k.command \in Commands /\ k.source \in Sources
           /\ k.session \in Nat /\ k.session <= n /\ k.run \in {0} \cup D
           /\ k.trace \in Nat /\ k.trace <= MaxSteps /\ k.existing \subseteq 1..MaxSteps
           /\ k.code \in 0..3 /\ k.answered \in BOOLEAN
BY Bounds DEF ProcRows

\* The fields of a stored step.
LEMMA TraceRowFacts ==
    ASSUME NEW n \in Nat, NEW D, NEW T, T \in Seq(TraceRows(n, D)), NEW i \in DOMAIN T
    PROVE  /\ T[i].session \in Nat /\ T[i].session # 0 /\ T[i].session <= n
           /\ T[i].run \in D
           /\ T[i].step \in Nat /\ T[i].step # 0 /\ T[i].step <= MaxSteps
           /\ T[i].final \in BOOLEAN
<1>1. T[i] \in TraceRows(n, D)
  OBVIOUS
<1> QED BY <1>1, Bounds DEF TraceRows

\* The fields of a message.
LEMMA MessageRowFacts ==
    ASSUME NEW n \in Nat, NEW D, NEW M, M \in Seq(MessageRows(n, D)), NEW i \in DOMAIN M
    PROVE  /\ M[i].session \in Nat /\ M[i].session # 0 /\ M[i].session <= n
           /\ M[i].run \in D
           /\ M[i].role \in {"user", "assistant"}
<1>1. M[i] \in MessageRows(n, D)
  OBVIOUS
<1> QED BY <1>1 DEF MessageRows

----------------------------------------------------------------------------
(* The steps of one process, seen from the others.                          *)

\* Rows are never deleted or changed.
Extends(T, U) == \A i \in DOMAIN T : i \in DOMAIN U /\ U[i] = T[i]

\* Runs are never deleted and stay in their session.
Grows(R, S) == \A r \in DOMAIN R : r \in DOMAIN S /\ S[r].session = R[r].session

\* Among the rows that are new in U there is none of run r.
NoneOf(r, T, U) == \A i \in DOMAIN U : i \notin DOMAIN T => U[i].run # r

\* What is stored stays stored.
LEMMA StepsGrow ==
    ASSUME NEW T, NEW U, Extends(T, U), NEW s
    PROVE  StepsOf(s, T) \subseteq StepsOf(s, U)
BY DEF Extends, StepsOf

\* Where none are new a run has the rows it had.
LEMMA PlacesStay ==
    ASSUME NEW T, NEW U, Extends(T, U), NEW r, NoneOf(r, T, U)
    PROVE  PlacesOf(r, U) = PlacesOf(r, T)
BY DEF Extends, PlacesOf, NoneOf

\* What holds of a process in any case holds when the tables have grown.
LEMMA ProcFactsKept ==
    ASSUME NEW n \in Nat, NEW R, R \in Seq(RunRows(n)), NEW k \in ProcRows(n, DOMAIN R),
           NEW m \in Nat, NEW S, S \in Seq(RunRows(m)), NEW T, NEW U,
           Grows(R, S), Extends(T, U), ProcFacts(k, R, T)
    PROVE  ProcFacts(k, S, U)
<1>1. StepsOf(k.session, T) \subseteq StepsOf(k.session, U)
  BY StepsGrow
<1>2. k.run # 0 => k.run \in DOMAIN R /\ S[k.run].session = R[k.run].session
  BY DEF ProcRows, Grows
<1> QED BY <1>1, <1>2 DEF ProcFacts

\* What holds of a process alone with its run holds when others have done
\* nothing to that run.
LEMMA RunFactsKept ==
    ASSUME NEW k, NEW R, NEW S, NEW T, NEW U, NEW M, NEW N, S[k.run] = R[k.run],
           Extends(T, U), NoneOf(k.run, T, U), Extends(M, N), NoneOf(k.run, M, N),
           RunFacts(k, R, T, M)
    PROVE  RunFacts(k, S, U, N)
<1>1. PlacesOf(k.run, U) = PlacesOf(k.run, T) /\ PlacesOf(k.run, N) = PlacesOf(k.run, M)
  BY PlacesStay
<1>2. \A i \in PlacesOf(k.run, T) : U[i] = T[i]
  BY DEF PlacesOf, Extends
<1>3. \A i \in DOMAIN M : i \in DOMAIN N /\ N[i] = M[i]
  BY DEF Extends
<1>4. CodeTells(k, R) => CodeTells(k, S)
  BY DEF CodeTells
<1>5. ConversationOf(k, M) => ConversationOf(k, N)
  BY <1>1, <1>3 DEF ConversationOf
<1> QED BY <1>1, <1>2, <1>4, <1>5 DEF RunFacts

----------------------------------------------------------------------------
(* The frame of a step of process p, which becomes kn.                      *)

\* Nothing happens to run r.
Same(r) ==
    /\ runs'[r] = runs[r]
    /\ NoneOf(r, traces, traces')
    /\ NoneOf(r, messages, messages')

\* The step leaves alone what others have for themselves.
Untouched(p, kn) ==
    \A q \in Procs \ {p} :
        Holds(procs[q]) /\ procs[q].run \notin contended' =>
           Same(procs[q].run) /\ ~ (Holds(kn) /\ kn.run = procs[q].run)

\* What the tables hold stays, whatever the step.
Frame ==
    /\ Grows(runs, runs')
    /\ Extends(traces, traces')
    /\ Extends(messages, messages')
    /\ contended \subseteq contended'

\* What holds of the other processes holds after the step.
LEMMA OthersKept ==
    ASSUME TypeOK, TypeOK', ProcsInv, Frame, NEW q \in Procs, procs'[q] = procs[q],
           Holds(procs[q]) /\ procs[q].run \notin contended' => Same(procs[q].run)
    PROVE  /\ ProcFacts(procs[q], runs', traces')
           /\ Holds(procs[q]) /\ procs[q].run \notin contended'
                 => RunFacts(procs[q], runs', traces', messages')
<1> DEFINE k == procs[q]
<1>1. /\ sessions \in Nat /\ runs \in Seq(RunRows(sessions))
      /\ k \in ProcRows(sessions, DOMAIN runs)
  BY Typed, Bounds
<1>2. sessions' \in Nat /\ runs' \in Seq(RunRows(sessions'))
  BY TypedAfter, Bounds
<1>3. ProcFacts(k, runs, traces)
  BY DEF ProcsInv
<1>4. Holds(k) /\ k.run \notin contended' => RunFacts(k, runs, traces, messages)
  BY DEF ProcsInv, Frame
<1>5. Grows(runs, runs') /\ Extends(traces, traces') /\ Extends(messages, messages')
  BY DEF Frame
<1> HIDE DEF k
<1>6. ProcFacts(k, runs', traces')
  BY <1>1, <1>2, <1>3, <1>5, ProcFactsKept
<1>7. ASSUME Holds(k), k.run \notin contended' PROVE RunFacts(k, runs', traces', messages')
  <2>1. Same(k.run)
    BY <1>7 DEF k
  <2> QED BY <1>4, <1>5, <1>7, <2>1, RunFactsKept DEF Same
<1> QED BY <1>6, <1>7 DEF k

\* What has to be shown of a step: the process that takes it, and no other.
LEMMA StepOfOne ==
    ASSUME IInv, TypeOK', NEW p \in Procs, NEW kn, procs' = [procs EXCEPT ![p] = kn],
           Frame, Untouched(p, kn),
           Opens(kn) => kn.session > sessions \/ (Opens(procs[p]) /\ kn.session = procs[p].session),
           kn.stage = "config" => kn.source \in Settled \cup Loud,
           ProcFacts(kn, runs', traces'),
           Holds(kn) /\ kn.run \notin contended' => RunFacts(kn, runs', traces', messages')
    PROVE  ProcsInv' /\ Sole' /\ Owners' /\ SourcesInv'
<1>0. /\ TypeOK /\ ProcsInv /\ Sole /\ Owners /\ SourcesInv
      /\ procs \in [Procs -> ProcRows(sessions, DOMAIN runs)] /\ sessions \in Nat
  BY Typed, Bounds DEF IInv
<1>1. procs'[p] = kn /\ \A q \in Procs \ {p} : procs'[q] = procs[q]
  BY <1>0
<1>2. ASSUME NEW q \in Procs
      PROVE  /\ ProcFacts(procs'[q], runs', traces')
             /\ Holds(procs'[q]) /\ procs'[q].run \notin contended'
                   => RunFacts(procs'[q], runs', traces', messages')
  <2>1. CASE q = p
    BY <1>1, <2>1
  <2>2. CASE q # p
    <3>1. procs'[q] = procs[q]
      BY <1>1, <2>2
    <3>2. Holds(procs[q]) /\ procs[q].run \notin contended' => Same(procs[q].run)
      BY <2>2 DEF Untouched
    <3> QED BY <1>0, <3>1, <3>2, OthersKept
  <2> QED BY <2>1, <2>2
<1>3. ProcsInv'
  BY <1>2 DEF ProcsInv
<1>4. Sole'
  <2>1. ASSUME NEW a \in Procs, NEW b \in Procs,
               Holds(procs'[a]), Holds(procs'[b]), procs'[a].run = procs'[b].run,
               procs'[a].run \notin contended'
        PROVE  a = b
    <3>1. contended \subseteq contended'
      BY DEF Frame
    <3>2. CASE a # p /\ b # p
      BY <1>0, <1>1, <2>1, <3>1, <3>2 DEF Sole
    <3>3. CASE a = p /\ b # p
      BY <1>1, <2>1, <3>3 DEF Untouched
    <3>4. CASE a # p /\ b = p
      BY <1>1, <2>1, <3>4 DEF Untouched
    <3> QED BY <3>2, <3>3, <3>4
  <2> QED BY <2>1 DEF Sole
<1>5. Owners'
  <2>1. \A q \in Procs : procs[q].session \in Nat /\ procs[q].session <= sessions
    BY <1>0, ProcRowFacts
  <2>2. ASSUME NEW a \in Procs, NEW b \in Procs, Opens(procs'[a]), Opens(procs'[b]),
               procs'[a].session = procs'[b].session
        PROVE  a = b
    <3>1. CASE a # p /\ b # p
      BY <1>0, <1>1, <2>2, <3>1 DEF Owners
    <3>2. ASSUME NEW q \in Procs, q # p, Opens(procs[q]), Opens(kn), kn.session = procs[q].session
          PROVE  FALSE
      <4>1. procs[q].session \in Nat /\ procs[q].session <= sessions
        BY <2>1
      <4>2. ~ (kn.session > sessions)
        BY <1>0, <3>2, <4>1
      <4>3. Opens(procs[p]) /\ procs[q].session = procs[p].session
        BY <3>2, <4>2
      <4> QED BY <1>0, <3>2, <4>3 DEF Owners
    <3>3. CASE a = p /\ b # p
      BY <1>1, <2>2, <3>2, <3>3
    <3>4. CASE a # p /\ b = p
      BY <1>1, <2>2, <3>2, <3>4
    <3> QED BY <3>1, <3>3, <3>4
  <2> QED BY <2>2 DEF Owners
<1>6. SourcesInv'
  <2>1. ASSUME NEW q \in Procs, procs'[q].stage = "config"
        PROVE  procs'[q].source \in Settled \cup Loud
    <3>1. CASE q = p
      BY <1>1, <2>1, <3>1
    <3>2. CASE q # p
      <4>1. procs'[q] = procs[q]
        BY <1>1, <3>2
      <4> QED BY <1>0, <2>1, <4>1 DEF SourcesInv
    <3> QED BY <3>1, <3>2
  <2> QED BY <2>1 DEF SourcesInv
<1> QED BY <1>3, <1>4, <1>5, <1>6

\* A run that is over stays as it ended; the steps kept of another do not
\* become fewer.
Settles ==
    \A r \in DOMAIN runs \ contended' :
        /\ runs[r].status \in Ended => runs'[r].status = runs[r].status
        /\ runs'[r].status \notin Ended => runs[r].kept <= runs'[r].kept

\* What can be resumed could be, and what it had kept is kept.
LEMMA ResumableKept ==
    ASSUME TypeOK, TypeOK', Frame, Settles, NEW r \in DOMAIN runs, Resumable(r)'
    PROVE  /\ Resumable(r) /\ runs[r].kept <= runs'[r].kept
           /\ runs[r].kept \in Nat /\ runs'[r].kept \in Nat
<1>1. r \notin contended' /\ r \notin contended /\ runs'[r].status \notin Ended
  BY DEF Resumable, Frame
<1>2. runs[r].status \notin Ended /\ runs[r].kept <= runs'[r].kept
  BY <1>1 DEF Settles
<1>3. runs[r] \in RunRows(sessions) /\ runs'[r] \in RunRows(sessions')
  <2>1. runs \in Seq(RunRows(sessions)) /\ runs' \in Seq(RunRows(sessions')) /\ r \in DOMAIN runs'
    BY Typed, TypedAfter DEF Frame, Grows
  <2> QED BY <2>1
<1>4. sessions \in Nat /\ sessions' \in Nat
  BY Typed, TypedAfter, Bounds
<1> QED BY <1>1, <1>2, <1>3, <1>4, RunRowFacts DEF Resumable

\* The traces are what they were, in a step that stores none.
LEMMA TracesKept ==
    ASSUME TypeOK, TypeOK', TracesInv, Frame, Settles, traces' = traces
    PROVE  TracesInv'
<1>0. /\ sessions \in Nat /\ traces \in Seq(TraceRows(sessions, DOMAIN runs))
  BY Typed, Bounds
<1>2. contended \subseteq contended'
  BY DEF Frame
<1>3. ASSUME NEW i \in DOMAIN traces
      PROVE  LET t == traces[i] IN
             /\ t.session = runs'[t.run].session
             /\ Resumable(t.run)' => t.step <= runs'[t.run].kept
             /\ 1..t.step \subseteq StepsOf(t.session, traces)
             /\ t.final => t.run \in contended' \/ runs'[t.run].status \in Ended
  <2> DEFINE t == traces[i]
  <2>1. t.run \in DOMAIN runs /\ t.step \in Nat
    BY <1>0, TraceRowFacts
  <2>2. /\ t.session = runs[t.run].session
        /\ Resumable(t.run) => t.step <= runs[t.run].kept
        /\ 1..t.step \subseteq StepsOf(t.session, traces)
        /\ t.final => t.run \in contended \/ runs[t.run].status \in Ended
    BY DEF TracesInv
  <2>3. t.session = runs'[t.run].session
    BY <2>1, <2>2 DEF Frame, Grows
  <2>4. ASSUME Resumable(t.run)' PROVE t.step <= runs'[t.run].kept
    <3>1. /\ Resumable(t.run) /\ runs[t.run].kept <= runs'[t.run].kept
          /\ runs[t.run].kept \in Nat /\ runs'[t.run].kept \in Nat
      <4> DEFINE r == t.run
      <4>1. r \in DOMAIN runs /\ r' = r
        BY <2>1
      <4>2. Resumable(r)'
        BY <2>4
      <4> QED BY <4>1, <4>2, ResumableKept
    <3> QED BY <2>1, <2>2, <3>1
  <2>5. t.final => t.run \in contended' \/ runs'[t.run].status \in Ended
    BY <1>2, <2>1, <2>2 DEF Settles
  <2> QED BY <2>2, <2>3, <2>4, <2>5
<1> QED BY <1>2, <1>3 DEF TracesInv

\* What has been told stays true of what is stored.
LEMMA ToldKept ==
    ASSUME TypeOK, TypeOK', RunsInv, Frame, Settles, NEW r \in DOMAIN runs
    PROVE  /\ Resumable(r)' => told[r] <= runs'[r].kept
           /\ runs'[r].session # 0 => 1..told[r] \subseteq StepsOf(runs'[r].session, traces')
<1>1. told[r] \in Nat
  BY Typed, Bounds
<1>2. /\ Resumable(r) => told[r] <= runs[r].kept
      /\ runs[r].session # 0 => 1..told[r] \subseteq StepsOf(runs[r].session, traces)
  BY DEF RunsInv
<1>3. runs'[r].session = runs[r].session
  BY DEF Frame, Grows
<1>4. StepsOf(runs[r].session, traces) \subseteq StepsOf(runs[r].session, traces')
  BY StepsGrow DEF Frame
<1>5. Resumable(r)' => told[r] <= runs'[r].kept
  BY <1>1, <1>2, ResumableKept
<1> QED BY <1>2, <1>3, <1>4, <1>5

\* The conversations are what they were, in a step that stores no message.
LEMMA MessagesKept ==
    ASSUME TypeOK, MessagesInv, Frame, Settles, messages' = messages,
           NEW p \in Procs, NEW kn, procs' = [procs EXCEPT ![p] = kn], kn.stage # "assistant"
    PROVE  MessagesInv'
<1>1. /\ messages \in Seq(MessageRows(sessions, DOMAIN runs))
      /\ procs \in [Procs -> ProcRows(sessions, DOMAIN runs)]
      /\ contended \subseteq contended'
  BY Typed DEF Frame
<1>2. ASSUME NEW j \in DOMAIN messages, messages[j].role = "assistant"
      PROVE  LET m == messages[j] IN m.run \in contended' \/ runs'[m.run].status = "completed"
  <2>1. messages[j].run \in DOMAIN runs
    BY <1>1, Bounds, MessageRowFacts, Typed
  <2>2. messages[j].run \in contended \/ runs[messages[j].run].status = "completed"
    BY <1>2 DEF MessagesInv
  <2> QED BY <1>1, <2>1, <2>2 DEF Settles, Ended
<1>3. ASSUME NEW q \in Procs, procs'[q].stage = "assistant"
      PROVE  \E i \in DOMAIN messages : LastIs(i, TaskOf(procs'[q]), messages)
  <2>1. procs'[q] = procs[q]
    BY <1>1, <1>3
  <2> QED BY <1>3, <2>1 DEF MessagesInv
<1>4. \A j \in DOMAIN messages : messages[j].role = "assistant" =>
         \E i \in 1..j - 1 :
            /\ messages[i] = [messages[j] EXCEPT !.role = "user"]
            /\ \A l \in i + 1..j - 1 : messages[l].session # messages[j].session
  BY DEF MessagesInv
<1> QED BY <1>2, <1>3, <1>4 DEF MessagesInv

\* The steps kept of a run are a number.
LEMMA KeptNat ==
    ASSUME IInv
    PROVE  \A r \in DOMAIN runs : runs[r].kept \in Nat /\ runs[r].kept <= runs[r].kept
<1>1. runs \in Seq(RunRows(sessions)) /\ sessions \in Nat
  BY Typed, Bounds DEF IInv
<1>2. \A r \in DOMAIN runs : runs[r] \in RunRows(sessions)
  BY <1>1
<1>3. \A r \in DOMAIN runs : runs[r].kept \in Nat
  BY <1>1, <1>2, RunRowFacts
<1> QED BY <1>3

\* Nothing is unsettled where the runs are what they were.
LEMMA RunsStay ==
    ASSUME IInv, runs' = runs
    PROVE  Settles
BY KeptNat DEF Settles

\* A step that only changes what its process is about, which works on nothing then.
LEMMA QuietStep ==
    ASSUME IInv, NEW p \in Procs, NEW kn \in ProcRows(sessions, DOMAIN runs),
           procs' = [procs EXCEPT ![p] = kn],
           UNCHANGED <<sessions, runs, traces, messages, contended, told>>,
           ~ Holds(kn), Opens(kn) => Opens(procs[p]) /\ kn.session = procs[p].session,
           kn.stage \notin Active,
           kn.stage = "config" => kn.source \in Settled \cup Loud,
           ProcFacts(kn, runs, traces)
    PROVE  IInv'
<1>1. TypeOK'
  <2>1. TypeOK
    BY DEF IInv
  <2>2. procs' \in [Procs -> ProcRows(sessions', DOMAIN runs')]
    BY <2>1, Typed
  <2> QED BY <2>1, <2>2, Typed, TypedNext
<1>2. Frame /\ Untouched(p, kn) /\ Settles
  <2>1. Settles
    BY RunsStay
  <2> QED BY <2>1 DEF Frame, Untouched, Same, Grows, Extends, NoneOf
<1>3. ProcsInv' /\ Sole' /\ Owners' /\ SourcesInv'
  BY <1>1, <1>2, StepOfOne
<1>4. TracesInv'
  BY <1>1, <1>2, TracesKept DEF IInv
<1>5. RunsInv'
  BY DEF RunsInv, Resumable, IInv
<1>6. MessagesInv'
  <2>1. kn.stage # "assistant"
    BY DEF Active
  <2> QED BY <1>2, <2>1, MessagesKept DEF IInv
<1> QED BY <1>1, <1>3, <1>4, <1>5, <1>6 DEF IInv

----------------------------------------------------------------------------
(* One lemma for each action: it keeps the invariant.                       *)

\* A process between commands has the type of one.
LEMMA OffRow ==
    ASSUME NEW n \in Nat, NEW D
    PROVE  /\ Off \in ProcRows(n, D)
           /\ Off.stage = "off" /\ Off.run = 0 /\ Off.existing = {}
<1>1. {"off"} \subseteq Stages /\ {"run"} \subseteq Commands /\ Plain \in Sources
  BY DEF Stages, Commands, Sources
<1>2. 0 \in 0..n /\ 0 \in 0..MaxSteps /\ 0 \in 0..3
  BY Bounds
<1> QED BY <1>1, <1>2 DEF Off, ProcRows

\* A process that works on nothing has nothing to answer for.
LEMMA IdleFacts ==
    ASSUME NEW k, k.run = 0, k.existing = {}, k.stage \in {"off", "config", "exit"}, NEW R, NEW T
    PROVE  /\ ProcFacts(k, R, T) /\ ~ Holds(k) /\ ~ Opens(k) /\ k.stage \notin Active
BY DEF ProcFacts, Holds, Opens, Active

\* A command that starts has only its settings.
LEMMA StartKeeps ==
    ASSUME IInv, NEW p \in Procs, Start(p)
    PROVE  IInv'
<1> DEFINE Found(command, source) ==
              {[Off EXCEPT !.stage = "config", !.command = command, !.source = source],
               [Off EXCEPT !.stage = "config", !.source = source]}
<1>0. PICK command \in Commands, source \in Settled \cup Loud :
         \E kn \in Found(command, source) : procs' = [procs EXCEPT ![p] = kn]
  BY DEF Start, Set, Commands
<1>1. PICK kn \in Found(command, source) : procs' = [procs EXCEPT ![p] = kn]
  BY <1>0
<1>2. Off \in ProcRows(sessions, DOMAIN runs) /\ Off.run = 0 /\ Off.existing = {}
  BY OffRow, Typed, Bounds DEF IInv
<1>3. kn \in ProcRows(sessions, DOMAIN runs)
  <2>1. "config" \in Stages /\ source \in Sources /\ command \in Commands
    BY DEF Stages, Sources
  <2> QED BY <1>2, <2>1 DEF ProcRows
<1>4. kn.stage = "config" /\ kn.run = 0 /\ kn.existing = {} /\ kn.source = source
  BY <1>2 DEF ProcRows
<1>5. ProcFacts(kn, runs, traces) /\ ~ Holds(kn) /\ ~ Opens(kn) /\ kn.stage \notin Active
  BY <1>4, IdleFacts
<1> QED BY <1>1, <1>3, <1>4, <1>5, QuietStep DEF Start

\* A command that is refused has neither run nor session.
LEMMA RefuseKeeps ==
    ASSUME IInv, NEW p \in Procs, Refuse(p)
    PROVE  IInv'
<1> DEFINE kn == [Off EXCEPT !.stage = "exit", !.code = 2]
<1>1. procs' = [procs EXCEPT ![p] = kn]
  BY DEF Refuse, Set
<1>2. Off \in ProcRows(sessions, DOMAIN runs) /\ Off.run = 0 /\ Off.existing = {}
  BY OffRow, Typed, Bounds DEF IInv
<1>3. kn \in ProcRows(sessions, DOMAIN runs)
  <2>1. 2 \in 0..3 /\ "exit" \in Stages
    BY DEF Stages
  <2> QED BY <1>2, <2>1 DEF ProcRows
<1>4. kn.stage = "exit" /\ kn.run = 0 /\ kn.existing = {}
  BY <1>2 DEF ProcRows
<1> HIDE DEF kn
<1>5. ProcFacts(kn, runs, traces) /\ ~ Holds(kn) /\ ~ Opens(kn) /\ kn.stage \notin Active
  BY <1>4, IdleFacts
<1> QED BY <1>1, <1>3, <1>4, <1>5, QuietStep DEF Refuse

\* A chat that is left, a command that is over, a process that is killed.
LEMMA LeaveKeeps ==
    ASSUME IInv, NEW p \in Procs, Quit(p) \/ Exit(p) \/ Crash(p)
    PROVE  IInv'
<1>1. PICK kn \in {Off, [Off EXCEPT !.stage = "exit"]} : procs' = [procs EXCEPT ![p] = kn]
  BY DEF Quit, Exit, Crash, Set
<1>2. Off \in ProcRows(sessions, DOMAIN runs) /\ Off.stage = "off" /\ Off.run = 0 /\ Off.existing = {}
  BY OffRow, Typed, Bounds DEF IInv
<1>3. kn \in ProcRows(sessions, DOMAIN runs)
  BY <1>2 DEF ProcRows, Stages
<1>4. kn.stage \in {"off", "exit"} /\ kn.run = 0 /\ kn.existing = {}
  BY <1>2 DEF ProcRows
<1>5. /\ ProcFacts(kn, runs, traces) /\ ~ Holds(kn) /\ ~ Opens(kn) /\ kn.stage \notin Active
      /\ kn.stage # "config"
  BY <1>4, IdleFacts
<1> QED BY <1>1, <1>3, <1>4, <1>5, QuietStep DEF Quit, Exit, Crash

\* The fields of a process, and what the invariant says of it.
LEMMA ProcOf ==
    ASSUME IInv, NEW p \in Procs
    PROVE  /\ procs[p] \in ProcRows(sessions, DOMAIN runs)
           /\ ProcFacts(procs[p], runs, traces)
           /\ Holds(procs[p]) /\ procs[p].run \notin contended
                 => RunFacts(procs[p], runs, traces, messages)
BY Typed DEF IInv, ProcsInv

\* The tables that are as they were.
LEMMA FrameRefl == Grows(runs, runs) /\ Extends(traces, traces) /\ Extends(messages, messages)
BY DEF Grows, Extends

\* A new session is nobody else's, and has no steps yet.
LEMMA OpenSessionKeeps ==
    ASSUME IInv, NEW p \in Procs, OpenSession(p)
    PROVE  IInv'
<1> DEFINE k == procs[p]
           kn == [k EXCEPT !.stage = "task", !.source = Plain, !.session = sessions']
<1>0. /\ k \in ProcRows(sessions, DOMAIN runs) /\ ProcFacts(k, runs, traces)
      /\ k.stage = "config" /\ k.command \in {"run", "chat"}
      /\ sessions \in Nat /\ sessions' = sessions + 1 /\ sessions' \in 0..MaxSessions
      /\ procs' = [procs EXCEPT ![p] = kn]
      /\ UNCHANGED <<runs, traces, messages, contended, told>>
  BY ProcOf, Typed, Bounds DEF OpenSession, Set, IInv
<1> HIDE DEF k
<1>1. /\ kn.stage = "task" /\ kn.command = k.command /\ kn.source = Plain /\ kn.session = sessions + 1
      /\ kn.run = k.run /\ kn.trace = k.trace /\ kn.existing = k.existing /\ kn.code = k.code
      /\ kn.answered = k.answered
  BY <1>0 DEF ProcRows
<1>1a. kn \in ProcRows(sessions', DOMAIN runs)
  <2>1. sessions' \in Nat /\ sessions <= sessions' /\ sessions' \in 0..sessions'
    BY <1>0
  <2>2. k \in ProcRows(sessions', DOMAIN runs)
    BY <1>0, <2>1, TypesGrow
  <2> QED BY <2>1, <2>2 DEF ProcRows, Stages, Sources
<1> HIDE DEF kn
<1>2. k.run = 0 /\ k.existing = {}
  BY <1>0 DEF ProcFacts
<1>3. TypeOK'
  <2>1. procs \in [Procs -> ProcRows(sessions, DOMAIN runs)] /\ TypeOK
    BY Typed DEF IInv
  <2>2. /\ Seq(RunRows(sessions)) \subseteq Seq(RunRows(sessions'))
        /\ Seq(TraceRows(sessions, DOMAIN runs)) \subseteq Seq(TraceRows(sessions', DOMAIN runs))
        /\ Seq(MessageRows(sessions, DOMAIN runs)) \subseteq Seq(MessageRows(sessions', DOMAIN runs))
        /\ ProcRows(sessions, DOMAIN runs) \subseteq ProcRows(sessions', DOMAIN runs)
    <3>1. sessions \in Nat /\ sessions' \in Nat /\ sessions <= sessions'
      BY <1>0
    <3> QED BY <3>1, TypesGrow
  <2>3. procs' \in [Procs -> ProcRows(sessions', DOMAIN runs')]
    BY <1>0, <1>1a, <2>1, <2>2
  <2> QED BY <1>0, <2>1, <2>2, <2>3, Typed, TypedNext
<1>4. Frame /\ Settles
  BY <1>0, FrameRefl, RunsStay DEF Frame
<1>5. Untouched(p, kn)
  BY <1>0, <1>1, <1>2 DEF Untouched, Same, NoneOf, Holds
<1>6. ProcFacts(kn, runs', traces') /\ ~ Holds(kn)
  BY <1>0, <1>1, <1>2 DEF ProcFacts, Holds, Active
<1>7. ProcsInv' /\ Sole' /\ Owners' /\ SourcesInv'
  <2>1. kn.session > sessions /\ kn.stage # "config"
    BY <1>0, <1>1
  <2> QED BY <1>0, <1>3, <1>4, <1>5, <1>6, <2>1, StepOfOne
<1>8. TracesInv' /\ MessagesInv'
  BY <1>0, <1>1, <1>3, <1>4, TracesKept, MessagesKept DEF IInv
<1>9. RunsInv'
  BY <1>0 DEF RunsInv, Resumable, IInv
<1> QED BY <1>3, <1>7, <1>8, <1>9 DEF IInv

\* A run with a new row.
LEMMA RunSet ==
    ASSUME NEW n \in Nat, NEW R, R \in Seq(RunRows(n)), NEW r \in DOMAIN R, NEW x \in RunRows(n),
           NEW S, S = [R EXCEPT ![r] = x]
    PROVE  /\ S \in Seq(RunRows(n)) /\ DOMAIN S = DOMAIN R /\ S[r] = x
           /\ \A q \in DOMAIN R \ {r} : S[q] = R[q]
OBVIOUS

\* A step that changes the row of one run: x stands for what it writes.
LEMMA RunStep ==
    ASSUME IInv, NEW r \in DOMAIN runs, NEW x \in RunRows(sessions),
           runs' = [runs EXCEPT ![r] = x],
           x.session = runs[r].session,
           UNCHANGED <<sessions, traces, messages, told>>,
           contended \subseteq contended', contended' \subseteq DOMAIN runs,
           NEW p \in Procs, NEW kn \in ProcRows(sessions, DOMAIN runs),
           procs' = [procs EXCEPT ![p] = kn]
    PROVE  /\ TypeOK' /\ Frame
           /\ runs'[r] = x /\ \A q \in DOMAIN runs \ {r} : runs'[q] = runs[q]
           /\ \A q \in DOMAIN runs \ {r} : Same(q)
<1>1. /\ sessions \in Nat /\ runs \in Seq(RunRows(sessions))
      /\ TypeOK /\ procs \in [Procs -> ProcRows(sessions, DOMAIN runs)]
  BY Typed, Bounds DEF IInv
<1>2. /\ runs' \in Seq(RunRows(sessions)) /\ DOMAIN runs' = DOMAIN runs /\ runs'[r] = x
      /\ \A q \in DOMAIN runs \ {r} : runs'[q] = runs[q]
  BY <1>1, RunSet
<1>3. procs' \in [Procs -> ProcRows(sessions', DOMAIN runs')]
  BY <1>1, <1>2
<1>4. TypeOK'
  BY <1>1, <1>2, <1>3, Typed, TypedNext
<1>5. Frame
  <2>1. Grows(runs, runs')
    BY <1>2, FrameRefl DEF Grows
  <2> QED BY <2>1, FrameRefl DEF Frame
<1>6. \A q \in DOMAIN runs \ {r} : Same(q)
  BY <1>2 DEF Same, NoneOf
<1> QED BY <1>2, <1>4, <1>5, <1>6

\* What a process does to the run that it holds, it does to no run of another.
LEMMA UntouchedMine ==
    ASSUME IInv, NEW p \in Procs, Holds(procs[p]), contended' = contended,
           NEW kn, kn.run = procs[p].run,
           \A r \in DOMAIN runs \ {procs[p].run} : Same(r)
    PROVE  Untouched(p, kn)
<1> SUFFICES ASSUME NEW q \in Procs \ {p}, Holds(procs[q]), procs[q].run \notin contended
             PROVE  Same(procs[q].run) /\ kn.run # procs[q].run
  BY DEF Untouched
<1>1. procs[q].run # procs[p].run
  BY DEF IInv, Sole
<1>2. procs[q].run \in DOMAIN runs
  <2>1. procs[q] \in ProcRows(sessions, DOMAIN runs) /\ sessions \in Nat
    BY Typed, Bounds DEF IInv
  <2> QED BY <2>1, ProcRowFacts DEF Holds
<1> QED BY <1>1, <1>2

\* A resume takes a run that is not over; if another process has it, the run
\* is contended from then on.
LEMMA ResumeKeeps ==
    ASSUME IInv, NEW p \in Procs, Resume(p)
    PROVE  IInv'
<1> DEFINE k == procs[p]
           found(r) == [k EXCEPT !.source = Plain, !.run = r, !.session = runs[r].session,
                                 !.trace = runs[r].kept]
           over(r) == [found(r) EXCEPT !.stage = "exit", !.code = 1]
           taken(r, call) == [found(r) EXCEPT !.stage = "engine", !.call = call]
<1>0. /\ k \in ProcRows(sessions, DOMAIN runs) /\ ProcFacts(k, runs, traces)
      /\ k.stage = "config" /\ k.command = "resume"
      /\ sessions \in Nat /\ runs \in Seq(RunRows(sessions)) /\ contended \subseteq DOMAIN runs
      /\ UNCHANGED <<sessions, traces, messages, told>>
  <2>1. k.stage = "config" /\ k.command = "resume" /\ UNCHANGED <<sessions, traces, messages, told>>
    BY DEF Resume
  <2> QED BY <2>1, ProcOf, Typed, Bounds DEF IInv
<1>1. PICK r \in DOMAIN runs :
         \/ /\ procs' = [procs EXCEPT ![p] = over(r)]
            /\ UNCHANGED <<runs, contended>>
         \/ /\ runs[r].status \notin Ended
            /\ \E call \in {"none", "made", "left"} : procs' = [procs EXCEPT ![p] = taken(r, call)]
            /\ runs' = [runs EXCEPT ![r].status = "running"]
            /\ contended' = IF \E q \in Procs \ {p} : procs[q].run = r THEN contended \cup {r}
                            ELSE contended
  BY DEF Resume, Set
<1>2. k.run = 0 /\ k.existing = {} /\ r # 0
  BY <1>0, Typed DEF ProcFacts, IInv
<1>3. /\ runs[r] \in RunRows(sessions) /\ runs[r].session \in 0..sessions
      /\ runs[r].kept \in 0..MaxSteps /\ runs[r].kept \in Nat /\ Sane(runs[r])
  <2>1. runs[r] \in RunRows(sessions)
    BY <1>0
  <2>2. Sane(runs[r])
    BY DEF IInv, RunsInv
  <2> QED BY <2>1, <2>2, <1>0, Bounds DEF RunRows
<1> HIDE DEF k
<1>4. CASE /\ procs' = [procs EXCEPT ![p] = over(r)]
           /\ UNCHANGED <<runs, contended>>
  <2> DEFINE kn == over(r)
  <2>1. /\ kn.stage = "exit" /\ kn.code = 1 /\ kn.command = "resume" /\ kn.run = r
        /\ kn.session = runs[r].session /\ kn.existing = {}
    BY <1>0, <1>2 DEF ProcRows
  <2>2. kn \in ProcRows(sessions, DOMAIN runs)
    <3>1. "exit" \in Stages /\ Plain \in Sources /\ 1 \in 0..3
      BY DEF Stages, Sources
    <3> QED BY <1>0, <1>3, <3>1 DEF ProcRows
  <2> HIDE DEF kn
  <2>3. ProcFacts(kn, runs, traces) /\ ~ Holds(kn) /\ ~ Opens(kn) /\ kn.stage \notin Active
    BY <1>2, <2>1 DEF ProcFacts, Holds, Opens, Active
  <2> QED BY <1>0, <1>4, <2>1, <2>2, <2>3, QuietStep DEF kn
<1>5. CASE /\ runs[r].status \notin Ended
           /\ \E call \in {"none", "made", "left"} : procs' = [procs EXCEPT ![p] = taken(r, call)]
           /\ runs' = [runs EXCEPT ![r].status = "running"]
           /\ contended' = IF \E q \in Procs \ {p} : procs[q].run = r THEN contended \cup {r}
                           ELSE contended
  <2>0. PICK call \in {"none", "made", "left"} : procs' = [procs EXCEPT ![p] = taken(r, call)]
    BY <1>5
  <2> DEFINE kn == taken(r, call)
             x == [runs[r] EXCEPT !.status = "running"]
  <2>1. /\ kn.stage = "engine" /\ kn.command = "resume" /\ kn.run = r
        /\ kn.session = runs[r].session /\ kn.existing = {} /\ kn.trace = runs[r].kept
    BY <1>0, <1>2 DEF ProcRows
  <2>2. kn \in ProcRows(sessions, DOMAIN runs)
    <3>1. "engine" \in Stages /\ Plain \in Sources
      BY DEF Stages, Sources
    <3> QED BY <1>0, <1>3, <3>1 DEF ProcRows
  <2> HIDE DEF kn
  <2>3. x.session = runs[r].session /\ x.kept = runs[r].kept /\ x.status = "running"
        /\ x \in RunRows(sessions) /\ Sane(x)
    <3>1. x.seq = runs[r].seq /\ x.kept = runs[r].kept
      BY <1>3 DEF RunRows
    <3>2. Sane(x)
      BY <1>3, <3>1 DEF Sane
    <3> QED BY <1>3, <3>2 DEF RunRows, Statuses
  <2>4. runs' = [runs EXCEPT ![r] = x]
    BY <1>5
  <2> HIDE DEF x
  <2>5. contended \subseteq contended' /\ contended' \subseteq DOMAIN runs
    BY <1>0, <1>5
  <2>7. procs' = [procs EXCEPT ![p] = kn]
    BY <2>0 DEF kn
  <2>8. /\ TypeOK' /\ Frame
        /\ runs'[r] = x /\ \A q \in DOMAIN runs \ {r} : runs'[q] = runs[q]
        /\ \A q \in DOMAIN runs \ {r} : Same(q)
    BY <1>0, <2>2, <2>3, <2>4, <2>5, <2>7, RunStep
  <2>9. Untouched(p, kn)
    <3> SUFFICES ASSUME NEW q \in Procs \ {p}, Holds(procs[q]), procs[q].run \notin contended'
                 PROVE  Same(procs[q].run) /\ kn.run # procs[q].run
      BY DEF Untouched
    <3>1. procs[q].run # r
      BY <1>5
    <3>2. procs[q].run \in DOMAIN runs
      <4>1. procs[q] \in ProcRows(sessions, DOMAIN runs)
        BY Typed DEF IInv
      <4> QED BY <1>0, <4>1, ProcRowFacts DEF Holds
    <3> QED BY <2>1, <2>8, <3>1, <3>2
  <2>10. ProcFacts(kn, runs', traces')
    BY <1>0, <1>2, <2>1, <2>3, <2>8 DEF ProcFacts, Active, Holds
  <2>11. RunFacts(kn, runs', traces', messages')
    BY <1>3, <2>1, <2>3, <2>8 DEF RunFacts
  <2>12. Settles
    BY <1>5, <2>3, <2>8, KeptNat DEF Settles
  <2>13. ProcsInv' /\ Sole' /\ Owners' /\ SourcesInv'
    <3>1. ~ Opens(kn) /\ kn.stage # "config"
      BY <2>1 DEF Opens
    <3> QED BY <2>7, <2>8, <2>9, <2>10, <2>11, <3>1, StepOfOne
  <2>14. TracesInv' /\ MessagesInv'
    <3>1. kn.stage # "assistant"
      BY <2>1
    <3> QED BY <1>0, <2>7, <2>8, <2>12, <3>1, TracesKept, MessagesKept DEF IInv
  <2>15. RunsInv'
    <3>1. DOMAIN runs' = DOMAIN runs
      BY <1>0, <2>4
    <3>2. \A q \in DOMAIN runs : Sane(runs'[q])
      BY <2>3, <2>8 DEF IInv, RunsInv
    <3> QED BY <1>0, <2>8, <2>12, <3>1, <3>2, ToldKept DEF IInv, RunsInv
  <2> QED BY <2>8, <2>13, <2>14, <2>15 DEF IInv
<1> QED BY <1>1, <1>4, <1>5

\* A step of the engine: a process that holds a run writes the row of that run.
LEMMA HeldStep ==
    ASSUME IInv, NEW p \in Procs, procs[p].stage \in {"engine", "closing"},
           NEW x \in RunRows(sessions), runs' = [runs EXCEPT ![procs[p].run] = x],
           x.session = runs[procs[p].run].session, Sane(x),
           UNCHANGED <<sessions, traces, messages, contended, told>>,
           NEW kn \in ProcRows(sessions, DOMAIN runs), procs' = [procs EXCEPT ![p] = kn],
           kn.stage \in {"engine", "closing", "save"},
           kn.run = procs[p].run, kn.session = procs[p].session, kn.command = procs[p].command,
           procs[p].run \notin contended =>
              /\ runs[procs[p].run].status \in Ended => x.status = runs[procs[p].run].status
              /\ x.status \notin Ended => runs[procs[p].run].kept <= x.kept,
           runs'[procs[p].run] = x => ProcFacts(kn, runs', traces),
           runs'[procs[p].run] = x /\ kn.run \notin contended => RunFacts(kn, runs', traces, messages)
    PROVE  IInv'
<1> DEFINE r == procs[p].run
<1>0. /\ procs[p] \in ProcRows(sessions, DOMAIN runs) /\ ProcFacts(procs[p], runs, traces)
      /\ sessions \in Nat /\ runs \in Seq(RunRows(sessions)) /\ contended \subseteq DOMAIN runs
  BY ProcOf, Typed, Bounds DEF IInv
<1>1. r # 0 /\ r \in DOMAIN runs /\ Holds(procs[p])
  <2>1. r # 0
    BY <1>0 DEF ProcFacts, Active
  <2> QED BY <1>0, <2>1, ProcRowFacts DEF Holds, Active
<1>2. /\ TypeOK' /\ Frame
      /\ runs'[r] = x /\ \A q \in DOMAIN runs \ {r} : runs'[q] = runs[q]
      /\ \A q \in DOMAIN runs \ {r} : Same(q)
  BY <1>0, <1>1, RunStep
<1>3. Untouched(p, kn)
  BY <1>1, <1>2, UntouchedMine
<1>4. Settles
  BY <1>2, KeptNat DEF Settles
<1>5. ProcsInv' /\ Sole' /\ Owners' /\ SourcesInv'
  <2>1. kn.stage # "config"
    OBVIOUS
  <2>2. Opens(kn) => Opens(procs[p]) /\ kn.session = procs[p].session
    BY DEF Opens, Active
  <2>3. ProcFacts(kn, runs', traces')
    BY <1>2
  <2>4. kn.run \notin contended' => RunFacts(kn, runs', traces', messages')
    BY <1>2
  <2> QED BY <1>2, <1>3, <2>1, <2>2, <2>3, <2>4, StepOfOne
<1>6. TracesInv' /\ MessagesInv'
  <2>1. kn.stage # "assistant"
    OBVIOUS
  <2> QED BY <1>2, <1>4, <2>1, TracesKept, MessagesKept DEF IInv
<1>7. RunsInv'
  <2>1. DOMAIN runs' = DOMAIN runs
    BY <1>0
  <2>2. \A q \in DOMAIN runs : Sane(runs'[q])
    BY <1>2 DEF IInv, RunsInv
  <2> QED BY <1>2, <1>4, <2>1, <2>2, ToldKept DEF IInv, RunsInv
<1> QED BY <1>2, <1>5, <1>6, <1>7 DEF IInv

\* A process at work, its run and the row of that run.
LEMMA AtWork ==
    ASSUME IInv, NEW p \in Procs, procs[p].stage \in Active
    PROVE  LET k == procs[p] IN
           /\ k \in ProcRows(sessions, DOMAIN runs) /\ ProcFacts(k, runs, traces)
           /\ k.run \notin contended => RunFacts(k, runs, traces, messages)
           /\ k.run # 0 /\ k.run \in DOMAIN runs /\ Holds(k) /\ k.session = runs[k.run].session
           /\ k.trace \in Nat /\ k.trace <= MaxSteps
           /\ sessions \in Nat /\ runs \in Seq(RunRows(sessions)) /\ runs[k.run] \in RunRows(sessions)
           /\ runs[k.run].kept \in Nat /\ runs[k.run].kept <= MaxSteps
           /\ runs[k.run].seq \in Int /\ runs[k.run].seq >= -1 /\ runs[k.run].seq <= MaxSteps
           /\ Sane(runs[k.run])
           /\ traces \in Seq(TraceRows(sessions, DOMAIN runs))
           /\ messages \in Seq(MessageRows(sessions, DOMAIN runs))
<1> DEFINE k == procs[p]
<1>1. /\ k \in ProcRows(sessions, DOMAIN runs) /\ ProcFacts(k, runs, traces)
      /\ sessions \in Nat /\ runs \in Seq(RunRows(sessions))
      /\ traces \in Seq(TraceRows(sessions, DOMAIN runs))
      /\ messages \in Seq(MessageRows(sessions, DOMAIN runs))
  BY ProcOf, Typed, Bounds DEF IInv
<1>2. k.run # 0 /\ k.session = runs[k.run].session
  BY <1>1 DEF ProcFacts
<1>3. k.run \in DOMAIN runs /\ k.trace \in Nat /\ k.trace <= MaxSteps
  BY <1>1, <1>2, ProcRowFacts
<1>4. runs[k.run] \in RunRows(sessions)
  BY <1>1, <1>3
<1>5. Holds(k)
  BY <1>2 DEF Holds
<1>6. Sane(runs[k.run])
  BY <1>3 DEF IInv, RunsInv
<1> QED BY <1>1, <1>2, <1>3, <1>4, <1>5, <1>6, ProcOf, RunRowFacts

\* The checkpoint that is read after one has been saved.
LEMMA SavedFacts ==
    ASSUME NEW row \in RunRows(sessions), sessions \in Nat, Sane(row),
           NEW n \in 0..MaxSteps, NEW m \in 0..MaxSteps, n <= m + 1
    PROVE  LET x == Saved(row, n, m) IN
           /\ x \in RunRows(sessions) /\ Sane(x)
           /\ x.session = row.session /\ x.status = row.status
           /\ x.kept = row.kept \/ x.kept = m
           /\ row.seq <= n => x.kept = m
<1> DEFINE y == [row EXCEPT !.seq = n, !.kept = m]
<1>1. row.seq \in Int /\ n \in Int /\ n >= 0 /\ n <= MaxSteps /\ m \in Nat
  BY RunRowFacts, Bounds
<1>2. /\ y.session = row.session /\ y.status = row.status /\ y.seq = n /\ y.kept = m
      /\ y \in RunRows(sessions)
  <2>1. n \in -1..MaxSteps
    BY <1>1, Bounds
  <2> QED BY <2>1 DEF RunRows
<1> HIDE DEF y
<1>3. Sane(y)
  BY <1>1, <1>2 DEF Sane
<1>4. Saved(row, n, m) = IF n < row.seq THEN row ELSE y
  BY DEF Saved, y
<1> QED BY <1>1, <1>2, <1>3, <1>4

\* What the engine commits is what its process has of the trace, unless two
\* processes are at the run.
LEMMA EngineStep ==
    ASSUME IInv, NEW p \in Procs, procs[p].stage = "engine",
           NEW x \in RunRows(sessions), runs' = [runs EXCEPT ![procs[p].run] = x],
           x.session = runs[procs[p].run].session, Sane(x),
           UNCHANGED <<sessions, traces, messages, contended, told>>,
           NEW n \in 0..MaxSteps, NEW call \in {"none", "made", "left"},
           procs' = [procs EXCEPT ![p] = [procs[p] EXCEPT !.trace = n, !.call = call]],
           procs[p].run \notin contended =>
              x.status \in {"created", "running"} /\ x.kept = n /\ procs[p].trace <= n
    PROVE  IInv'
<1> DEFINE k == procs[p]
           r == k.run
           kn == [k EXCEPT !.trace = n, !.call = call]
<1>1. /\ k \in ProcRows(sessions, DOMAIN runs) /\ ProcFacts(k, runs, traces)
      /\ k.run \notin contended => RunFacts(k, runs, traces, messages)
      /\ r # 0 /\ r \in DOMAIN runs /\ k.session = runs[r].session
  BY AtWork DEF Active
<1>2. k.stage = "engine" /\ procs' = [procs EXCEPT ![p] = kn]
  OBVIOUS
<1> HIDE DEF k
<1>3. /\ kn.stage = "engine" /\ kn.run = r /\ kn.session = k.session /\ kn.command = k.command
      /\ kn.trace = n /\ kn.existing = k.existing /\ kn.code = k.code /\ kn.answered = k.answered
      /\ kn \in ProcRows(sessions, DOMAIN runs)
  BY <1>1, <1>2 DEF ProcRows
<1> HIDE DEF kn
<1>4. ASSUME runs'[r] = x PROVE ProcFacts(kn, runs', traces)
  <2>1. /\ k.existing \subseteq StepsOf(k.session, traces)
        /\ k.command # "resume" => k.session # 0
    BY <1>1 DEF ProcFacts
  <2> QED BY <1>1, <1>3, <1>4, <2>1 DEF ProcFacts, Active, Holds, k
<1>5. ASSUME runs'[r] = x, r \notin contended PROVE RunFacts(kn, runs', traces, messages)
  <2>1. k.command # "resume" => PlacesOf(r, traces) = {}
    BY <1>1, <1>2, <1>5 DEF RunFacts
  <2>2. k.command = "run" => ConversationOf(kn, messages)
    BY <1>1, <1>2, <1>3, <1>5 DEF RunFacts, ConversationOf
  <2>3. x.status \in {"created", "running"} /\ x.kept = n
    BY <1>5 DEF k
  <2> QED BY <1>3, <1>5, <2>1, <2>2, <2>3 DEF RunFacts
<1>6. ASSUME r \notin contended
      PROVE  runs[r].status \notin Ended /\ x.status \notin Ended /\ runs[r].kept <= x.kept
  <2>1. runs[r].status \in {"created", "running"} /\ runs[r].kept = k.trace
    BY <1>1, <1>2, <1>6 DEF RunFacts
  <2>2. x.status \in {"created", "running"} /\ x.kept = n /\ k.trace <= n
    BY <1>6 DEF k
  <2> QED BY <2>1, <2>2 DEF Ended
<1>7. /\ kn.run = procs[p].run /\ kn.session = procs[p].session /\ kn.command = procs[p].command
      /\ procs[p].run \notin contended =>
            /\ runs[procs[p].run].status \in Ended => x.status = runs[procs[p].run].status
            /\ x.status \notin Ended => runs[procs[p].run].kept <= x.kept
      /\ runs'[procs[p].run] = x => ProcFacts(kn, runs', traces)
      /\ runs'[procs[p].run] = x /\ kn.run \notin contended => RunFacts(kn, runs', traces, messages)
  BY <1>3, <1>4, <1>5, <1>6 DEF k
<1>8. kn.stage \in {"engine", "closing", "save"} /\ kn \in ProcRows(sessions, DOMAIN runs)
  BY <1>3
<1> QED BY <1>2, <1>7, <1>8, HeldStep

\* A process and the row of its run, in the engine.
LEMMA InEngine ==
    ASSUME IInv, NEW p \in Procs, procs[p].stage = "engine"
    PROVE  LET k == procs[p] IN
           /\ k \in ProcRows(sessions, DOMAIN runs) /\ k.trace \in 0..MaxSteps /\ k.trace \in Nat
           /\ k.call \in {"none", "made", "left"}
           /\ k.run \in DOMAIN runs /\ sessions \in Nat
           /\ runs[k.run] \in RunRows(sessions) /\ Sane(runs[k.run])
           /\ runs[k.run].seq \in Int /\ runs[k.run].kept \in Nat
           /\ k.run \notin contended =>
                 runs[k.run].status \in {"created", "running"} /\ runs[k.run].kept = k.trace
<1> DEFINE k == procs[p]
<1>1. /\ k \in ProcRows(sessions, DOMAIN runs) /\ k.trace \in Nat /\ k.trace <= MaxSteps
      /\ k.run \in DOMAIN runs /\ sessions \in Nat
      /\ runs[k.run] \in RunRows(sessions) /\ Sane(runs[k.run])
      /\ runs[k.run].seq \in Int /\ runs[k.run].kept \in Nat
      /\ k.run \notin contended => RunFacts(k, runs, traces, messages)
  BY AtWork DEF Active
<1>2. k.trace \in 0..MaxSteps /\ k.call \in {"none", "made", "left"}
  BY <1>1, Bounds DEF ProcRows
<1>3. k.run \notin contended => runs[k.run].status \in {"created", "running"} /\ runs[k.run].kept = k.trace
  BY <1>1 DEF RunFacts
<1> QED BY <1>1, <1>2, <1>3

\* The first status of the run after that it was created with.
LEMMA MarkRunningKeeps ==
    ASSUME IInv, NEW p \in Procs, MarkRunning(p)
    PROVE  IInv'
<1> DEFINE k == procs[p]
           r == k.run
           x == [runs[r] EXCEPT !.status = "running"]
<1>1. /\ k.stage = "engine" /\ runs' = [runs EXCEPT ![r] = x]
      /\ UNCHANGED <<sessions, traces, messages, procs, contended, told>>
  BY DEF MarkRunning
<1>2. /\ k \in ProcRows(sessions, DOMAIN runs) /\ k.trace \in 0..MaxSteps /\ k.trace \in Nat
      /\ k.call \in {"none", "made", "left"}
      /\ runs[r] \in RunRows(sessions) /\ Sane(runs[r])
      /\ r \notin contended => runs[r].kept = k.trace
  BY <1>1, InEngine
<1>3. procs' = [procs EXCEPT ![p] = [k EXCEPT !.trace = k.trace, !.call = k.call]]
  <2>1. procs \in [Procs -> ProcRows(sessions, DOMAIN runs)]
    BY Typed DEF IInv
  <2>2. [k EXCEPT !.trace = k.trace, !.call = k.call] = k
    BY <1>2 DEF ProcRows
  <2>3. [procs EXCEPT ![p] = k] = procs
    BY <2>1
  <2> HIDE DEF k
  <2> QED BY <1>1, <2>2, <2>3
<1>4. /\ x.session = runs[r].session /\ x.status = "running" /\ x.kept = runs[r].kept
      /\ x.seq = runs[r].seq /\ x \in RunRows(sessions)
  BY <1>2 DEF RunRows, Statuses
<1> HIDE DEF x
<1>5. Sane(x)
  BY <1>2, <1>4 DEF Sane
<1> DEFINE n == k.trace
           call == k.call
<1>6. /\ n \in 0..MaxSteps /\ call \in {"none", "made", "left"} /\ k.trace <= n
      /\ r \notin contended => x.kept = n
      /\ procs' = [procs EXCEPT ![p] = [k EXCEPT !.trace = n, !.call = call]]
  BY <1>2, <1>3, <1>4, <1>5
<1>7. UNCHANGED <<sessions, traces, messages, contended, told>>
  BY <1>1
<1>8. k.stage = "engine" /\ runs' = [runs EXCEPT ![r] = x]
  BY <1>1
<1> HIDE DEF n, call
<1> QED BY <1>2, <1>4, <1>5, <1>6, <1>7, <1>8, EngineStep

\* The checkpoint of a run that has not called anything is that of no steps.
LEMMA OpenCheckpointKeeps ==
    ASSUME IInv, NEW p \in Procs, OpenCheckpoint(p)
    PROVE  IInv'
<1> DEFINE k == procs[p]
           r == k.run
           x == Saved(runs[r], 0, 0)
<1>1. /\ k.stage = "engine" /\ runs' = [runs EXCEPT ![r] = x]
      /\ runs[r].status = "running" /\ runs[r].seq = -1
      /\ UNCHANGED <<sessions, traces, messages, procs, contended, told>>
  BY DEF OpenCheckpoint
<1>2. /\ k \in ProcRows(sessions, DOMAIN runs) /\ k.trace \in 0..MaxSteps /\ k.trace \in Nat
      /\ k.call \in {"none", "made", "left"} /\ sessions \in Nat
      /\ runs[r] \in RunRows(sessions) /\ Sane(runs[r])
      /\ r \notin contended => runs[r].kept = k.trace
  BY <1>1, InEngine
<1>3. procs' = [procs EXCEPT ![p] = [k EXCEPT !.trace = k.trace, !.call = k.call]]
  <2>1. procs \in [Procs -> ProcRows(sessions, DOMAIN runs)]
    BY Typed DEF IInv
  <2>2. [k EXCEPT !.trace = k.trace, !.call = k.call] = k
    BY <1>2 DEF ProcRows
  <2>3. [procs EXCEPT ![p] = k] = procs
    BY <2>1
  <2> HIDE DEF k
  <2> QED BY <1>1, <2>2, <2>3
<1>4. /\ x \in RunRows(sessions) /\ Sane(x) /\ x.session = runs[r].session
      /\ x.status = "running" /\ x.kept = 0
  <2>1. 0 \in 0..MaxSteps
    BY Bounds
  <2> QED BY <1>1, <1>2, <2>1, SavedFacts
<1>5. runs[r].kept = 0
  BY <1>1, <1>2 DEF Sane
<1> HIDE DEF x
<1> DEFINE n == k.trace
           call == k.call
<1>6. /\ n \in 0..MaxSteps /\ call \in {"none", "made", "left"} /\ k.trace <= n
      /\ r \notin contended => x.kept = n
      /\ procs' = [procs EXCEPT ![p] = [k EXCEPT !.trace = n, !.call = call]]
  BY <1>2, <1>3, <1>4, <1>5
<1>7. UNCHANGED <<sessions, traces, messages, contended, told>>
  BY <1>1
<1>8. k.stage = "engine" /\ runs' = [runs EXCEPT ![r] = x]
  BY <1>1
<1> HIDE DEF n, call
<1> QED BY <1>2, <1>4, <1>5, <1>6, <1>7, <1>8, EngineStep

\* Before a call, the steps that are behind it are kept.
LEMMA WriteInFlightKeeps ==
    ASSUME IInv, NEW p \in Procs, WriteInFlight(p)
    PROVE  IInv'
<1> DEFINE k == procs[p]
           r == k.run
<1>1. /\ k.stage = "engine" /\ UNCHANGED <<sessions, traces, messages, contended, told>>
  BY DEF WriteInFlight
<1>2. PICK n \in k.trace + 1..MaxSteps :
         /\ procs' = [procs EXCEPT ![p] = [k EXCEPT !.trace = n - 1, !.call = "made"]]
         /\ runs' = [runs EXCEPT ![r] = Saved(runs[r], n, n - 1)]
  BY DEF WriteInFlight, Set
<1>3. /\ k.trace \in Nat /\ sessions \in Nat /\ runs[r] \in RunRows(sessions) /\ Sane(runs[r])
      /\ runs[r].seq \in Int /\ runs[r].kept \in Nat
      /\ r \notin contended => runs[r].status \in {"created", "running"} /\ runs[r].kept = k.trace
  BY <1>1, InEngine
<1>4. n \in 0..MaxSteps /\ n - 1 \in 0..MaxSteps /\ n <= n - 1 + 1 /\ k.trace <= n - 1
  BY <1>2, <1>3, Bounds
<1> DEFINE x == Saved(runs[r], n, n - 1)
<1>5. /\ x \in RunRows(sessions) /\ Sane(x)
      /\ x.session = runs[r].session /\ x.status = runs[r].status
      /\ runs[r].seq <= n => x.kept = n - 1
  BY <1>3, <1>4, SavedFacts
<1>6. r \notin contended => runs[r].seq <= n
  BY <1>3, <1>4 DEF Sane
<1> HIDE DEF x
<1>7. runs' = [runs EXCEPT ![r] = x]
  BY <1>2 DEF x
<1> QED BY <1>1, <1>2, <1>3, <1>4, <1>5, <1>6, <1>7, EngineStep

\* After it, its step is.
LEMMA RecordObservationKeeps ==
    ASSUME IInv, NEW p \in Procs, RecordObservation(p)
    PROVE  IInv'
<1> DEFINE k == procs[p]
           r == k.run
           n == k.trace + 1
           x == Saved(runs[r], n, n)
<1>1. /\ k.stage = "engine" /\ n <= MaxSteps
      /\ UNCHANGED <<sessions, traces, messages, contended, told>>
      /\ procs' = [procs EXCEPT ![p] = [k EXCEPT !.trace = n, !.call = "none"]]
      /\ runs' = [runs EXCEPT ![r] = x]
  BY DEF RecordObservation, Set
<1>2. /\ k.trace \in Nat /\ sessions \in Nat /\ runs[r] \in RunRows(sessions) /\ Sane(runs[r])
      /\ runs[r].seq \in Int /\ runs[r].kept \in Nat
      /\ r \notin contended => runs[r].status \in {"created", "running"} /\ runs[r].kept = k.trace
  BY <1>1, InEngine
<1>3. n \in 0..MaxSteps /\ n <= n + 1 /\ k.trace <= n
  BY <1>1, <1>2, Bounds
<1>4. /\ x \in RunRows(sessions) /\ Sane(x)
      /\ x.session = runs[r].session /\ x.status = runs[r].status
      /\ runs[r].seq <= n => x.kept = n
  <2> HIDE DEF n
  <2> QED BY <1>2, <1>3, SavedFacts
<1>5. r \notin contended => runs[r].seq <= n
  BY <1>2 DEF Sane
<1> HIDE DEF x, n
<1> QED BY <1>1, <1>2, <1>3, <1>4, <1>5, EngineStep

\* The result gives the run the status that the exit code will tell.
LEMMA ResultKeeps ==
    ASSUME IInv, NEW p \in Procs, Result(p)
    PROVE  IInv'
<1> DEFINE k == procs[p]
           r == k.run
           codeOf(status) == CASE status = "completed" -> 0
                               [] status = "waiting_approval" -> 3
                               [] OTHER -> 1
           closing(status, answered, n) ==
              [k EXCEPT !.stage = "closing", !.trace = n, !.call = "none",
                        !.answered = answered, !.code = codeOf(status)]
<1>1. k.stage = "engine" /\ UNCHANGED <<sessions, traces, messages, contended, told>>
  BY DEF Result
<1>2. PICK status \in {"completed", "failed", "waiting_approval"}, answered \in BOOLEAN,
           n \in k.trace..MaxSteps :
         /\ status = "completed" => answered
         /\ status = "waiting_approval" => ~answered /\ n = k.trace
         /\ answered => n > k.trace
         /\ k.call = "left" => n = k.trace
         /\ runs' = [runs EXCEPT ![r].status = status]
         /\ procs' = [procs EXCEPT ![p] = closing(status, answered, n)]
  BY Zenon DEF Result, Set
<1>3. /\ k \in ProcRows(sessions, DOMAIN runs) /\ ProcFacts(k, runs, traces)
      /\ k.run \notin contended => RunFacts(k, runs, traces, messages)
      /\ r # 0 /\ r \in DOMAIN runs /\ k.session = runs[r].session
      /\ k.trace \in Nat /\ k.trace <= MaxSteps
      /\ runs[r] \in RunRows(sessions) /\ runs[r].kept \in Nat /\ runs[r].kept <= MaxSteps
  BY <1>1, AtWork DEF Active
<1>3a. Sane(runs[r]) /\ traces \in Seq(TraceRows(sessions, DOMAIN runs)) /\ sessions \in Nat
  BY <1>1, AtWork DEF Active
<1> DEFINE x == [runs[r] EXCEPT !.status = status]
           kn == closing(status, answered, n)
           code == codeOf(status)
<1> HIDE DEF k
<1>4. /\ code \in 0..3 /\ code \in {0, 1, 3}
      /\ (code = 0 => status = "completed") /\ (code = 1 => status = "failed")
      /\ (code = 3 => status = "waiting_approval")
  BY <1>2
<1>5. n \in Nat /\ n <= MaxSteps /\ k.trace <= n /\ (answered => k.trace < n /\ n # 0)
  BY <1>2, <1>3, Bounds
<1>5a. n \in 0..MaxSteps
  BY <1>5, Bounds
<1> HIDE DEF codeOf
<1>6. kn = [k EXCEPT !.stage = "closing", !.trace = n, !.call = "none", !.answered = answered, !.code = code]
  OBVIOUS
<1> HIDE DEF code, closing
<1>7. /\ kn.stage = "closing" /\ kn.run = r /\ kn.session = k.session /\ kn.command = k.command
      /\ kn.trace = n /\ kn.existing = k.existing /\ kn.code = code /\ kn.answered = answered
  BY <1>3, <1>6 DEF ProcRows
<1>8. kn \in ProcRows(sessions, DOMAIN runs)
  <2>1. "closing" \in Stages
    BY DEF Stages
  <2> QED BY <1>3, <1>4, <1>5a, <1>6, <2>1 DEF ProcRows
<1>9. /\ x.session = runs[r].session /\ x.status = status /\ x.kept = runs[r].kept
      /\ x \in RunRows(sessions) /\ x.seq = runs[r].seq
  BY <1>2, <1>3 DEF RunRows, Statuses
<1>10. runs' = [runs EXCEPT ![r] = x] /\ procs' = [procs EXCEPT ![p] = kn]
  BY <1>2, <1>3, <1>9
<1> HIDE DEF x, kn
<1>10a. Sane(x)
  BY <1>3a, <1>9 DEF Sane
<1>11. r \notin contended => runs[r].status \notin Ended /\ runs[r].kept = k.trace /\ runs[r].kept <= x.kept
  BY <1>1, <1>3, <1>9 DEF RunFacts, Ended
<1>12. runs'[r] = x => ProcFacts(kn, runs', traces)
  <2>1. code = 0 => answered
    BY <1>2, <1>4
  <2>2. answered => code # 3 /\ n # 0
    BY <1>2, <1>4, <1>5
  <2> QED BY <1>1, <1>3, <1>4, <1>7, <1>9, <2>1, <2>2 DEF ProcFacts, Active, Holds
<1>13. ASSUME runs'[r] = x, r \notin contended PROVE RunFacts(kn, runs', traces, messages)
  <2>1. code = 3 => x.kept = n
    BY <1>2, <1>4, <1>9, <1>11, <1>13
  <2>1a. ASSUME answered, NEW i \in PlacesOf(r, traces) PROVE traces[i].step < n
    <3>1. i \in DOMAIN traces /\ traces[i].run = r
      BY <2>1a DEF PlacesOf
    <3>2. traces[i].step <= runs[r].kept
      BY <1>11, <1>13, <3>1 DEF IInv, TracesInv, Resumable
    <3>3. traces[i].step \in Nat
      BY <1>3a, <3>1, TraceRowFacts
    <3> QED BY <1>3, <1>5, <1>11, <1>13, <2>1a, <3>2, <3>3
  <2>2. k.command # "resume" => PlacesOf(r, traces) = {}
    BY <1>1, <1>3, <1>13 DEF RunFacts
  <2>3. k.command = "run" => ConversationOf(kn, messages)
    BY <1>1, <1>3, <1>7, <1>13 DEF RunFacts, ConversationOf
  <2>4. CodeTells(kn, runs')
    BY <1>4, <1>7, <1>9, <1>13 DEF CodeTells
  <2> QED BY <1>7, <1>9, <1>13, <2>1, <2>1a, <2>2, <2>3, <2>4 DEF RunFacts
<1> QED BY <1>1, <1>3, <1>7, <1>8, <1>9, <1>10, <1>10a, <1>11, <1>12, <1>13, HeldStep DEF k

\* The last checkpoint keeps every step of the result of a run that waits, if
\* not of one that is over; and what a resume takes for stored are the steps of
\* its session.
LEMMA FinalCheckpointKeeps ==
    ASSUME IInv, NEW p \in Procs, FinalCheckpoint(p)
    PROVE  IInv'
<1> DEFINE k == procs[p]
           r == k.run
           kn == [k EXCEPT !.stage = "save", !.existing = Existing(k)]
<1>1. /\ k.stage = "closing" /\ UNCHANGED <<sessions, traces, messages, contended, told>>
      /\ procs' = [procs EXCEPT ![p] = kn]
  BY DEF FinalCheckpoint, Set
<1>2. PICK n \in 0..k.trace : runs' = [runs EXCEPT ![r] = Saved(runs[r], n, k.trace)]
  <2>1. k.trace \in Nat
    BY <1>1, AtWork DEF Active
  <2>2. (IF k.answered THEN 1 ELSE 0)..k.trace \subseteq 0..k.trace
    BY <2>1
  <2> QED BY <2>2 DEF FinalCheckpoint
<1> DEFINE x == Saved(runs[r], n, k.trace)
<1>3. /\ k \in ProcRows(sessions, DOMAIN runs) /\ ProcFacts(k, runs, traces)
      /\ k.run \notin contended => RunFacts(k, runs, traces, messages)
      /\ r # 0 /\ r \in DOMAIN runs /\ Holds(k) /\ k.session = runs[r].session
      /\ k.trace \in Nat /\ k.trace <= MaxSteps
      /\ sessions \in Nat /\ traces \in Seq(TraceRows(sessions, DOMAIN runs))
      /\ runs[r] \in RunRows(sessions) /\ Sane(runs[r])
      /\ runs[r].kept \in Nat /\ runs[r].kept <= MaxSteps
  BY <1>1, AtWork DEF Active
<1> HIDE DEF k
<1>4. Existing(k) = IF k.command = "resume" THEN StepsOf(k.session, traces) ELSE {}
  BY DEF Existing, StoredSteps, StepsOf
<1>5. Existing(k) \subseteq StepsOf(k.session, traces) /\ Existing(k) \subseteq 1..MaxSteps
  <2>1. \A i \in DOMAIN traces : traces[i].step \in 1..MaxSteps
    <3>1. traces \in Seq(TraceRows(sessions, DOMAIN runs)) /\ sessions \in Nat
      BY <1>3
    <3> QED BY <3>1, TraceRowFacts, Bounds
  <2> QED BY <1>4, <2>1 DEF StepsOf
<1>6. /\ kn.stage = "save" /\ kn.run = r /\ kn.session = k.session /\ kn.command = k.command
      /\ kn.trace = k.trace /\ kn.existing = Existing(k) /\ kn.code = k.code
      /\ kn.answered = k.answered
  BY <1>3 DEF ProcRows
<1>7. kn \in ProcRows(sessions, DOMAIN runs)
  <2>1. "save" \in Stages
    BY DEF Stages
  <2> QED BY <1>3, <1>5, <2>1 DEF ProcRows
<1>8. /\ x \in RunRows(sessions) /\ Sane(x)
      /\ x.session = runs[r].session /\ x.status = runs[r].status
      /\ x.kept = runs[r].kept \/ x.kept = k.trace
  <2>1. n \in 0..MaxSteps /\ k.trace \in 0..MaxSteps /\ n <= k.trace + 1
    BY <1>2, <1>3, Bounds
  <2> QED BY <1>3, <2>1, SavedFacts
<1>9. runs' = [runs EXCEPT ![r] = x]
  BY <1>2
<1>10. ASSUME r \notin contended
       PROVE  x.status = runs[r].status /\ (x.status \notin Ended => runs[r].kept <= x.kept)
  <2>1. k.code \in {0, 1, 3}
    BY <1>1, <1>3 DEF ProcFacts
  <2>2. CodeTells(k, runs) /\ (k.code = 3 => runs[r].kept = k.trace)
    BY <1>1, <1>3, <1>10 DEF RunFacts
  <2>3. x.status \notin Ended => k.code = 3
    BY <1>8, <2>1, <2>2 DEF CodeTells, Ended
  <2> HIDE DEF x
  <2> QED BY <1>3, <1>8, <2>2, <2>3
<1> HIDE DEF x, kn
<1>11. runs'[r] = x => ProcFacts(kn, runs', traces)
  <2>1. Holds(k)
    BY <1>3
  <2>2. k.code \in {0, 1, 3} /\ (k.code = 0 => k.answered) /\ (k.answered => k.code # 3 /\ k.trace # 0)
    BY <1>1, <1>3 DEF ProcFacts
  <2>3. k.command # "resume" => k.session # 0
    BY <1>3 DEF ProcFacts
  <2> QED BY <1>3, <1>5, <1>6, <1>8, <2>2, <2>3 DEF ProcFacts, Active, Holds
<1>12. ASSUME runs'[r] = x, r \notin contended PROVE RunFacts(kn, runs', traces, messages)
  <2>1. /\ k.code = 3 => runs[r].kept = k.trace
        /\ k.answered => \A i \in PlacesOf(r, traces) : traces[i].step < k.trace
        /\ CodeTells(k, runs)
        /\ k.command # "resume" => PlacesOf(r, traces) = {}
        /\ k.command = "run" => ConversationOf(k, messages)
    BY <1>1, <1>3, <1>12 DEF RunFacts
  <2>2. \A i \in PlacesOf(r, traces) : 1..traces[i].step \subseteq Existing(k)
    <3>1. CASE k.command # "resume"
      BY <2>1, <3>1
    <3>2. CASE k.command = "resume"
      <4> SUFFICES ASSUME NEW i \in DOMAIN traces, traces[i].run = r
                   PROVE  1..traces[i].step \subseteq StepsOf(k.session, traces)
        BY <1>4, <3>2 DEF PlacesOf
      <4>1. /\ traces[i].session = runs[traces[i].run].session
            /\ 1..traces[i].step \subseteq StepsOf(traces[i].session, traces)
        BY DEF IInv, TracesInv
      <4> QED BY <1>3, <4>1
    <3> QED BY <3>1, <3>2
  <2>3. k.answered => \A i \in PlacesOf(r, traces) : traces[i].step # k.trace
    <3> SUFFICES ASSUME k.answered, NEW i \in DOMAIN traces, traces[i].run = r
                 PROVE  traces[i].step # k.trace
      BY DEF PlacesOf
    <3>1. traces[i].step < k.trace
      BY <2>1 DEF PlacesOf
    <3>2. traces[i].step \in Nat
      BY <1>3, TraceRowFacts
    <3> QED BY <1>3, <3>1, <3>2
  <2>4. k.command = "run" => ConversationOf(kn, messages)
    BY <1>1, <1>6, <2>1 DEF ConversationOf
  <2>5. CodeTells(kn, runs')
    BY <1>6, <1>8, <1>12, <2>1 DEF CodeTells
  <2>6. k.code = 3 => x.kept = k.trace
    BY <1>8, <2>1
  <2> QED BY <1>6, <1>12, <2>2, <2>3, <2>4, <2>5, <2>6 DEF RunFacts
<1> QED BY <1>1, <1>3, <1>6, <1>7, <1>8, <1>9, <1>10, <1>11, <1>12, HeldStep DEF k

\* A sequence is a function on its positions.
LEMMA SeqIsFunction ==
    ASSUME NEW S, NEW s \in Seq(S)
    PROVE  s \in [1..Len(s) -> S]
OBVIOUS

\* A new run is in the session of its process, without steps or messages.
LEMMA CreateRunKeeps ==
    ASSUME IInv, NEW p \in Procs, CreateRun(p)
    PROVE  IInv'
<1> DEFINE k == procs[p]
           n == Len(runs) + 1
           x == [session |-> k.session, status |-> "created", seq |-> -1, kept |-> 0]
           kn == [k EXCEPT !.stage = "engine", !.run = n, !.trace = 0]
<1>0. /\ k \in ProcRows(sessions, DOMAIN runs) /\ ProcFacts(k, runs, traces)
      /\ sessions \in Nat /\ runs \in Seq(RunRows(sessions)) /\ contended \subseteq DOMAIN runs
      /\ traces \in Seq(TraceRows(sessions, DOMAIN runs))
      /\ messages \in Seq(MessageRows(sessions, DOMAIN runs))
      /\ told \in [DOMAIN runs -> 0..MaxSteps]
      /\ procs \in [Procs -> ProcRows(sessions, DOMAIN runs)]
      /\ sessions \in 0..MaxSessions
  BY ProcOf, Typed, Bounds DEF IInv
<1>1. /\ k.stage = "task" /\ UNCHANGED <<sessions, traces, messages, contended>>
      /\ runs' = Append(runs, x)
      /\ told' = Append(told, 0)
      /\ procs' = [procs EXCEPT ![p] = [k EXCEPT !.stage = "engine", !.run = Len(runs'), !.trace = 0]]
  BY DEF CreateRun, Set
<1>2. /\ k.run = 0 /\ k.existing = {} /\ k.command # "resume" /\ k.session # 0
      /\ k.session \in 0..sessions
  <2>1. k.session \in 0..sessions
    BY <1>0 DEF ProcRows
  <2> QED BY <1>0, <1>1, <2>1 DEF ProcFacts
<1> HIDE DEF k
<1>3. /\ x.session = k.session /\ x.status = "created" /\ x.kept = 0 /\ x \in RunRows(sessions)
      /\ Sane(x)
  <2>1. 0 \in 0..MaxSteps /\ -1 \in -1..MaxSteps /\ "created" \in Statuses
    BY Bounds DEF Statuses
  <2>2. Sane(x)
    BY DEF Sane
  <2> QED BY <1>2, <2>1, <2>2 DEF RunRows
<1> HIDE DEF x
<1>4. /\ runs' \in Seq(RunRows(sessions)) /\ Len(runs') = n /\ n \in Nat /\ n # 0
      /\ DOMAIN runs' = DOMAIN runs \cup {n} /\ n \notin DOMAIN runs
      /\ runs'[n] = x /\ \A r \in DOMAIN runs : runs'[r] = runs[r]
  BY <1>0, <1>1, <1>3
<1>5. /\ told' \in [DOMAIN runs' -> 0..MaxSteps]
      /\ told'[n] = 0 /\ \A r \in DOMAIN runs : told'[r] = told[r]
  <2>0. DOMAIN runs = 1..Len(runs) /\ Len(runs) \in Nat
    BY <1>0
  <2>1. told \in Seq(0..MaxSteps) /\ Len(told) = Len(runs) /\ 0 \in 0..MaxSteps
    <3>1. told \in [1..Len(runs) -> 0..MaxSteps]
      BY <1>0, <2>0
    <3> QED BY <2>0, <3>1, Bounds
  <2>2. /\ told' \in Seq(0..MaxSteps) /\ Len(told') = n /\ told'[n] = 0
        /\ \A r \in 1..Len(runs) : told'[r] = told[r]
    BY <1>0, <1>1, <2>1
  <2>3. DOMAIN runs' = 1..n /\ DOMAIN runs = 1..Len(runs)
    <3>1. runs' \in Seq(RunRows(sessions)) /\ Len(runs') = n
      BY <1>4
    <3>2. DOMAIN runs' = 1..Len(runs')
      BY <3>1
    <3> QED BY <2>0, <3>1, <3>2, Zenon
  <2>4. told' \in [1..n -> 0..MaxSteps]
    BY <2>2, SeqIsFunction
  <2> QED BY <2>2, <2>3, <2>4, Zenon
<1>6. /\ kn.stage = "engine" /\ kn.run = n /\ kn.session = k.session /\ kn.command = k.command
      /\ kn.trace = 0 /\ kn.existing = {} /\ kn.code = k.code /\ kn.answered = k.answered
  BY <1>0, <1>2 DEF ProcRows
<1>7. kn \in ProcRows(sessions, DOMAIN runs')
  <2>1. "engine" \in Stages /\ 0 \in 0..MaxSteps
    BY Bounds DEF Stages
  <2>2. k \in ProcRows(sessions, DOMAIN runs')
    <3>1. DOMAIN runs \subseteq DOMAIN runs' /\ sessions <= sessions
      BY <1>0, <1>4
    <3> QED BY <1>0, <3>1, TypesGrow
  <2> QED BY <1>4, <2>1, <2>2 DEF ProcRows
<1>8. procs' = [procs EXCEPT ![p] = kn]
  BY <1>1, <1>4
<1> HIDE DEF kn, n
<1>9. TypeOK'
  <2>1. DOMAIN runs \subseteq DOMAIN runs' /\ sessions <= sessions
    BY <1>0, <1>4
  <2>2. /\ Seq(TraceRows(sessions, DOMAIN runs)) \subseteq Seq(TraceRows(sessions, DOMAIN runs'))
        /\ Seq(MessageRows(sessions, DOMAIN runs)) \subseteq Seq(MessageRows(sessions, DOMAIN runs'))
        /\ ProcRows(sessions, DOMAIN runs) \subseteq ProcRows(sessions, DOMAIN runs')
    BY <1>0, <2>1, TypesGrow
  <2>3. procs' \in [Procs -> ProcRows(sessions, DOMAIN runs')]
    BY <1>0, <1>7, <1>8, <2>2
  <2> QED BY <1>0, <1>1, <1>4, <1>5, <2>1, <2>2, <2>3, TypedNext
<1>10. Frame /\ Settles
  <2>1. Grows(runs, runs')
    BY <1>4, FrameRefl DEF Grows
  <2>2. Settles
    BY <1>4, KeptNat DEF Settles
  <2> QED BY <1>1, <2>1, <2>2, FrameRefl DEF Frame
<1>11. Untouched(p, kn)
  <2> SUFFICES ASSUME NEW q \in Procs \ {p}, Holds(procs[q])
               PROVE  Same(procs[q].run) /\ kn.run # procs[q].run
    BY DEF Untouched
  <2>1. procs[q].run \in DOMAIN runs
    <3>1. procs[q] \in ProcRows(sessions, DOMAIN runs)
      BY <1>0
    <3> QED BY <1>0, <3>1, ProcRowFacts DEF Holds
  <2> QED BY <1>1, <1>4, <1>6, <2>1 DEF Same, NoneOf
<1>12. ProcFacts(kn, runs', traces')
  BY <1>2, <1>3, <1>4, <1>6 DEF ProcFacts, Active, Holds
<1>13. RunFacts(kn, runs', traces', messages')
  <2>1. PlacesOf(n, traces) = {}
    BY <1>0, <1>4, TraceRowFacts DEF PlacesOf
  <2>2. PlacesOf(n, messages) = {}
    BY <1>0, <1>4, MessageRowFacts DEF PlacesOf
  <2>3. ConversationOf(kn, messages)
    BY <1>6, <2>2 DEF ConversationOf
  <2> QED BY <1>1, <1>3, <1>4, <1>6, <2>1, <2>3 DEF RunFacts
<1>14. ProcsInv' /\ Sole' /\ Owners' /\ SourcesInv'
  <2>1. kn.stage # "config" /\ Opens(k) /\ kn.session = k.session
    BY <1>1, <1>2, <1>6 DEF Opens
  <2> QED BY <1>8, <1>9, <1>10, <1>11, <1>12, <1>13, <2>1, StepOfOne DEF k
<1>15. TracesInv' /\ MessagesInv'
  <2>1. kn.stage # "assistant"
    BY <1>6
  <2> QED BY <1>1, <1>8, <1>9, <1>10, <2>1, TracesKept, MessagesKept DEF IInv
<1>16. RunsInv'
  <2>1. ASSUME NEW r \in DOMAIN runs
        PROVE  /\ Sane(runs'[r])
               /\ Resumable(r)' => told'[r] <= runs'[r].kept
               /\ runs'[r].session # 0 => 1..told'[r] \subseteq StepsOf(runs'[r].session, traces')
    <3>1. Sane(runs'[r])
      BY <1>4 DEF IInv, RunsInv
    <3> QED BY <1>5, <1>9, <1>10, <3>1, ToldKept DEF IInv
  <2>2. Sane(runs'[n]) /\ told'[n] <= runs'[n].kept /\ 1..told'[n] = {}
    BY <1>3, <1>4, <1>5
  <2> QED BY <1>4, <2>1, <2>2 DEF RunsInv
<1> QED BY <1>9, <1>14, <1>15, <1>16 DEF IInv

\* A table with one more row.
LEMMA AppendFacts ==
    ASSUME NEW S, NEW T, T \in Seq(S), NEW x \in S
    PROVE  /\ Append(T, x) \in Seq(S)
           /\ Len(T) \in Nat /\ DOMAIN T = 1..Len(T)
           /\ DOMAIN Append(T, x) = 1..Len(T) + 1
           /\ Append(T, x)[Len(T) + 1] = x
           /\ \A i \in DOMAIN T : Append(T, x)[i] = T[i]
           /\ Extends(T, Append(T, x))
<1>1. /\ Append(T, x) \in Seq(S) /\ Len(T) \in Nat /\ DOMAIN T = 1..Len(T)
      /\ Len(Append(T, x)) = Len(T) + 1
      /\ Append(T, x)[Len(T) + 1] = x
      /\ \A i \in 1..Len(T) : Append(T, x)[i] = T[i]
  OBVIOUS
<1>2. DOMAIN Append(T, x) = 1..Len(T) + 1
  BY <1>1, SeqIsFunction
<1> QED BY <1>1, <1>2 DEF Extends

\* The least step to be stored.
LEMMA LeastOf ==
    ASSUME NEW S, S \subseteq Nat, S # {}
    PROVE  Least(S) \in S /\ \A j \in S : Least(S) <= j
<1>1. \E i \in S : \A j \in S : i <= j
  BY LeastNat
<1> QED BY <1>1 DEF Least

\* Of a run that is not over, what its process has to store is kept.
LEMMA KeptWhenOpen ==
    ASSUME IInv, NEW p \in Procs, procs[p].stage \in {"save", "user", "assistant"},
           Resumable(procs[p].run)
    PROVE  runs[procs[p].run].kept = procs[p].trace
<1> DEFINE k == procs[p]
<1>1. ProcFacts(k, runs, traces) /\ Holds(k) /\ RunFacts(k, runs, traces, messages)
  BY AtWork DEF Active, Resumable
<1>2. k.code \in {0, 1, 3} /\ CodeTells(k, runs) /\ (k.code = 3 => runs[k.run].kept = k.trace)
  BY <1>1 DEF ProcFacts, RunFacts
<1> QED BY <1>2 DEF CodeTells, Resumable, Ended

\* The step that is stored is the least that is missing: those below are stored,
\* and of a run worked on by one process it is above all that are.
LEMMA SaveTraceKeeps ==
    ASSUME IInv, NEW p \in Procs, SaveTrace(p)
    PROVE  IInv'
<1> DEFINE k == procs[p]
           r == k.run
           step == Least(ToSave(k))
           t == [session |-> k.session, run |-> r, step |-> step, final |-> k.answered /\ step = k.trace]
           kn == [k EXCEPT !.existing = @ \cup {step}]
           n == Len(traces) + 1
<1>1. /\ k.stage = "save" /\ ToSave(k) # {}
      /\ UNCHANGED <<sessions, runs, messages, contended, told>>
      /\ traces' = Append(traces, t)
      /\ procs' = [procs EXCEPT ![p] = kn]
  BY DEF SaveTrace, Set
<1>2. /\ k \in ProcRows(sessions, DOMAIN runs) /\ ProcFacts(k, runs, traces)
      /\ k.run \notin contended => RunFacts(k, runs, traces, messages)
      /\ r # 0 /\ r \in DOMAIN runs /\ Holds(k) /\ k.session = runs[r].session
      /\ k.trace \in Nat /\ k.trace <= MaxSteps
      /\ sessions \in Nat /\ traces \in Seq(TraceRows(sessions, DOMAIN runs))
      /\ runs[r].kept \in Nat
  BY <1>1, AtWork DEF Active
<1>2a. /\ TypeOK /\ procs \in [Procs -> ProcRows(sessions, DOMAIN runs)]
  BY Typed DEF IInv
<1> HIDE DEF k
<1>3. /\ k.session # 0 /\ step \in 1..k.trace /\ step \notin k.existing
      /\ \A j \in 1..k.trace \ k.existing : step <= j
  <2>1. k.session # 0 /\ ToSave(k) = 1..k.trace \ k.existing
    BY <1>1 DEF ToSave
  <2>2. ToSave(k) \subseteq Nat
    BY <1>2, <2>1
  <2>3. step \in ToSave(k) /\ \A j \in ToSave(k) : step <= j
    BY <1>1, <2>2, LeastOf
  <2> HIDE DEF step
  <2> QED BY <2>1, <2>3
<1> HIDE DEF step
<1>4. step \in Nat /\ step # 0 /\ step <= k.trace /\ step <= MaxSteps /\ step \in 1..MaxSteps
  BY <1>2, <1>3, Bounds
<1>5. \A j \in 1..step : j \in k.existing \cup {step}
  BY <1>2, <1>3, <1>4
<1>6. k.existing \subseteq StepsOf(k.session, traces)
  BY <1>1, <1>2 DEF ProcFacts
<1>6a. Resumable(r) => runs[r].kept = k.trace
  BY <1>1, KeptWhenOpen DEF k
<1>7. /\ t.session = k.session /\ t.run = r /\ t.step = step
      /\ t.final = (k.answered /\ step = k.trace)
      /\ t \in TraceRows(sessions, DOMAIN runs)
  <2>1. k.session \in 1..sessions
    BY <1>2, <1>3, ProcRowFacts
  <2> QED BY <1>2, <1>4, <2>1 DEF TraceRows
<1>8. /\ kn.stage = "save" /\ kn.run = r /\ kn.session = k.session /\ kn.command = k.command
      /\ kn.trace = k.trace /\ kn.existing = k.existing \cup {step} /\ kn.code = k.code
      /\ kn.answered = k.answered
      /\ kn \in ProcRows(sessions, DOMAIN runs)
  BY <1>1, <1>2, <1>4 DEF ProcRows
<1> HIDE DEF t, kn
<1>9. /\ traces' \in Seq(TraceRows(sessions, DOMAIN runs)) /\ Len(traces) \in Nat
      /\ DOMAIN traces = 1..Len(traces) /\ DOMAIN traces' = 1..n
      /\ traces'[n] = t /\ \A i \in DOMAIN traces : traces'[i] = traces[i]
      /\ Extends(traces, traces')
  BY <1>1, <1>2, <1>7, AppendFacts
<1>10. /\ n \in Nat /\ n \notin DOMAIN traces /\ n \in DOMAIN traces'
       /\ \A i \in DOMAIN traces' : i \in DOMAIN traces \/ i = n
  BY <1>9
<1> HIDE DEF n
<1>11. TypeOK'
  <2>1. procs' \in [Procs -> ProcRows(sessions, DOMAIN runs)]
    BY <1>1, <1>2a, <1>8
  <2> QED BY <1>1, <1>2a, <1>9, <2>1, Typed, TypedNext
<1>12. Frame /\ Settles
  BY <1>1, <1>9, FrameRefl, RunsStay DEF Frame
<1>13. Untouched(p, kn)
  <2>1. \A q \in DOMAIN runs \ {r} : Same(q)
    BY <1>1, <1>7, <1>9, <1>10 DEF Same, NoneOf
  <2> QED BY <1>1, <1>2, <1>8, <2>1, UntouchedMine DEF k
<1>14. k.existing \cup {step} \subseteq StepsOf(k.session, traces')
  <2>1. StepsOf(k.session, traces) \subseteq StepsOf(k.session, traces')
    BY <1>9, StepsGrow
  <2>2. step \in StepsOf(k.session, traces')
    <3>1. n \in DOMAIN traces' /\ traces'[n].session = k.session /\ traces'[n].step = step
      BY <1>7, <1>9, <1>10
    <3> QED BY <3>1 DEF StepsOf
  <2> QED BY <1>6, <2>1, <2>2
<1>15. ProcFacts(kn, runs', traces')
  BY <1>1, <1>2, <1>6, <1>8, <1>14 DEF ProcFacts, Active, Holds
<1>16. ASSUME r \notin contended PROVE RunFacts(kn, runs', traces', messages')
  <2>1. /\ CodeTells(k, runs) /\ (k.code = 3 => runs[r].kept = k.trace)
        /\ \A i \in PlacesOf(r, traces) : 1..traces[i].step \subseteq k.existing
        /\ k.answered => \A i \in PlacesOf(r, traces) : traces[i].step = k.trace => traces[i].final
        /\ k.command = "run" => ConversationOf(k, messages)
    BY <1>1, <1>2, <1>16 DEF RunFacts
  <2>2. \A i \in PlacesOf(r, traces') : \/ i \in PlacesOf(r, traces) /\ traces'[i] = traces[i]
                                        \/ traces'[i] = t
    BY <1>9, <1>10 DEF PlacesOf
  <2>3. \A i \in PlacesOf(r, traces') : 1..traces'[i].step \subseteq kn.existing
    BY <1>5, <1>7, <1>8, <2>1, <2>2
  <2>4. k.answered => \A i \in PlacesOf(r, traces') : traces'[i].step = k.trace => traces'[i].final
    BY <1>7, <2>1, <2>2
  <2>5. CodeTells(kn, runs') /\ (k.command = "run" => ConversationOf(kn, messages'))
    BY <1>1, <1>8, <2>1 DEF CodeTells, ConversationOf
  <2> QED BY <1>1, <1>8, <2>1, <2>3, <2>4, <2>5 DEF RunFacts
<1>17. ProcsInv' /\ Sole' /\ Owners' /\ SourcesInv'
  <2>1. kn.stage # "config" /\ (Opens(kn) => Opens(k) /\ kn.session = k.session)
    BY <1>1, <1>8 DEF Opens
  <2> QED BY <1>1, <1>8, <1>11, <1>12, <1>13, <1>15, <1>16, <2>1, StepOfOne DEF k
<1>18. TracesInv'
  <2>1. ASSUME NEW i \in DOMAIN traces'
        PROVE  LET u == traces'[i] IN
               /\ u.session = runs[u.run].session
               /\ Resumable(u.run) => u.step <= runs[u.run].kept
               /\ 1..u.step \subseteq StepsOf(u.session, traces')
               /\ u.final => u.run \in contended \/ runs[u.run].status \in Ended
    <3>1. CASE i \in DOMAIN traces
      <4>1. StepsOf(traces[i].session, traces) \subseteq StepsOf(traces[i].session, traces')
        BY <1>9, StepsGrow
      <4>2. traces'[i] = traces[i]
        BY <1>9, <3>1
      <4> QED BY <3>1, <4>1, <4>2 DEF IInv, TracesInv
    <3>2. CASE i = n
      <4>1. traces'[i] = t
        BY <1>9, <3>2
      <4>2. Resumable(r) => step <= runs[r].kept
        BY <1>4, <1>6a
      <4>3. 1..step \subseteq StepsOf(k.session, traces')
        BY <1>5, <1>14
      <4>4. k.answered => r \in contended \/ runs[r].status \in Ended
        <5>1. k.code \in {0, 1, 3} /\ (k.answered => k.code # 3)
          BY <1>1, <1>2 DEF ProcFacts
        <5>2. r \notin contended => CodeTells(k, runs)
          BY <1>1, <1>2 DEF RunFacts
        <5> QED BY <5>1, <5>2 DEF CodeTells, Ended
      <4> QED BY <1>2, <1>7, <4>1, <4>2, <4>3, <4>4
    <3> QED BY <1>10, <3>1, <3>2
  <2>2. ASSUME NEW i \in DOMAIN traces', NEW j \in DOMAIN traces', i < j,
               traces'[i].run = traces'[j].run, traces'[i].run \notin contended
        PROVE  traces'[i].step < traces'[j].step
    <3>1. CASE j \in DOMAIN traces
      <4>1. i \in DOMAIN traces
        BY <1>9, <2>2, <3>1
      <4>2. traces'[i] = traces[i] /\ traces'[j] = traces[j]
        BY <1>9, <3>1, <4>1
      <4> QED BY <2>2, <3>1, <4>1, <4>2 DEF IInv, TracesInv
    <3>2. CASE j = n
      <4>1. i \in DOMAIN traces /\ traces'[i] = traces[i] /\ traces'[j] = t
        BY <1>9, <1>10, <2>2, <3>2
      <4>2. traces[i].run = r /\ r \notin contended
        BY <1>7, <2>2, <4>1
      <4>3. 1..traces[i].step \subseteq k.existing
        BY <1>1, <1>2, <4>1, <4>2 DEF RunFacts, PlacesOf
      <4>4. traces[i].step \in Nat
        BY <1>2, <4>1, TraceRowFacts
      <4>5. ~ (step <= traces[i].step)
        <5> SUFFICES ASSUME step <= traces[i].step PROVE FALSE
          OBVIOUS
        <5>1. step \in 1..traces[i].step
          BY <1>4, <4>4
        <5> QED BY <1>3, <4>3, <5>1
      <4>6. traces'[j].step = step
        BY <1>7, <4>1
      <4> QED BY <1>4, <4>1, <4>4, <4>5, <4>6
    <3> QED BY <1>10, <3>1, <3>2
  <2> QED BY <1>1, <2>1, <2>2 DEF TracesInv, Resumable
<1>19. RunsInv'
  BY <1>1, <1>11, <1>12, ToldKept DEF IInv, RunsInv
<1>20. MessagesInv'
  <2>1. kn.stage # "assistant"
    BY <1>8
  <2> QED BY <1>1, <1>2a, <1>12, <2>1, MessagesKept DEF IInv
<1> QED BY <1>11, <1>17, <1>18, <1>19, <1>20 DEF IInv

\* The end of a command, whatever it has appended to the messages last: what
\* remains to be shown is about the messages.
LEMMA DoneKeeps ==
    ASSUME IInv, NEW p \in Procs, procs[p].stage \in {"save", "user", "assistant"},
           procs[p].session # 0 => 1..procs[p].trace \subseteq procs[p].existing,
           UNCHANGED <<sessions, runs, traces, contended>>,
           messages' \in Seq(MessageRows(sessions, DOMAIN runs)), Extends(messages, messages'),
           \A q \in DOMAIN runs \ {procs[p].run} : NoneOf(q, messages, messages'),
           procs[p].run \notin contended /\ procs[p].command = "run" =>
              ConversationOf([procs[p] EXCEPT !.stage = "exit", !.existing = {}], messages'),
           Done(p, procs[p])
    PROVE  /\ TypeOK' /\ ProcsInv' /\ Sole' /\ Owners' /\ TracesInv' /\ RunsInv' /\ SourcesInv'
           /\ Frame /\ Settles
           /\ \E kn : procs' = [procs EXCEPT ![p] = kn] /\ kn.stage # "assistant"
<1> DEFINE k == procs[p]
           r == k.run
           next == [Off EXCEPT !.stage = "task", !.command = "chat", !.session = k.session]
           last == [k EXCEPT !.stage = "exit", !.existing = {}]
           kn == IF k.command = "chat" THEN next ELSE last
           v == IF k.session = 0 THEN 0 ELSE k.trace
<1>1. procs' = [procs EXCEPT ![p] = kn] /\ told' = [told EXCEPT ![r] = v]
  BY Zenon DEF Done, Set
<1>2. /\ k \in ProcRows(sessions, DOMAIN runs) /\ ProcFacts(k, runs, traces)
      /\ k.run \notin contended => RunFacts(k, runs, traces, messages)
      /\ r # 0 /\ r \in DOMAIN runs /\ Holds(k) /\ k.session = runs[r].session
      /\ k.trace \in Nat /\ k.trace <= MaxSteps
      /\ sessions \in Nat
      /\ runs[r].kept \in Nat
  BY AtWork DEF Active
<1>2a. /\ TypeOK /\ procs \in [Procs -> ProcRows(sessions, DOMAIN runs)]
       /\ told \in [DOMAIN runs -> 0..MaxSteps]
       /\ traces \in Seq(TraceRows(sessions, DOMAIN runs))
  BY Typed DEF IInv
<1>3. k.stage \in {"save", "user", "assistant"} /\ (k.session # 0 => 1..k.trace \subseteq k.existing)
  OBVIOUS
<1> HIDE DEF k
<1>4. /\ last.stage = "exit" /\ last.run = r /\ last.session = k.session
      /\ last.command = k.command /\ last.trace = k.trace /\ last.existing = {}
      /\ last.code = k.code /\ last.answered = k.answered
      /\ last \in ProcRows(sessions, DOMAIN runs)
  <2>1. "exit" \in Stages
    BY DEF Stages
  <2> QED BY <1>2, <2>1 DEF ProcRows
<1>5. /\ next.stage = "task" /\ next.run = 0 /\ next.session = k.session
      /\ next.command = "chat" /\ next.existing = {}
      /\ next \in ProcRows(sessions, DOMAIN runs)
  <2>1. "task" \in Stages /\ "chat" \in Commands /\ k.session \in 0..sessions
    BY <1>2 DEF Stages, Commands, ProcRows
  <2>2. Off \in ProcRows(sessions, DOMAIN runs) /\ Off.run = 0 /\ Off.existing = {}
    BY <1>2, OffRow
  <2> QED BY <2>1, <2>2 DEF ProcRows
<1> HIDE DEF last, next
<1>6. kn \in ProcRows(sessions, DOMAIN runs) /\ kn.stage \in {"task", "exit"}
      /\ (Holds(kn) => kn.run = r)
  BY <1>4, <1>5 DEF Holds
<1>7. v \in 0..MaxSteps /\ v \in Nat
  BY <1>2, Bounds
<1>8. TypeOK'
  <2>1. procs' \in [Procs -> ProcRows(sessions, DOMAIN runs)]
    BY <1>1, <1>2a, <1>6
  <2>2. told' \in [DOMAIN runs -> 0..MaxSteps]
    BY <1>1, <1>2a, <1>7
  <2> QED BY <1>2a, <2>1, <2>2, Typed, TypedNext
<1>9. Frame /\ Settles
  BY FrameRefl, RunsStay DEF Frame
<1>10. \A q \in DOMAIN runs \ {r} : Same(q)
  BY DEF Same, NoneOf, k
<1>11. Untouched(p, kn)
  <2>1. Untouched(p, last)
    BY <1>2, <1>4, <1>10, UntouchedMine DEF k
  <2> QED BY <1>4, <1>5, <2>1 DEF Untouched, Holds
<1>12. k.session # 0 => 1..k.trace \subseteq StepsOf(k.session, traces)
  BY <1>2, <1>3 DEF ProcFacts
<1>13. ProcFacts(kn, runs', traces')
  <2>1. CASE k.command = "chat"
    <3>1. k.session # 0
      BY <1>2, <2>1 DEF ProcFacts
    <3> QED BY <1>5, <2>1, <3>1 DEF ProcFacts, Active, Holds
  <2>2. CASE k.command # "chat"
    <3>1. /\ k.code \in {0, 1, 3} /\ (k.code = 0 => k.answered)
          /\ (k.answered => k.code # 3 /\ k.trace # 0)
          /\ (k.command # "resume" => k.session # 0)
      BY <1>2, <1>3 DEF ProcFacts
    <3> QED BY <1>2, <1>4, <1>12, <2>2, <3>1 DEF ProcFacts, Active, Holds
  <2> QED BY <2>1, <2>2
<1>14. ASSUME Holds(kn), kn.run \notin contended
       PROVE  RunFacts(kn, runs', traces', messages')
  <2>1. kn = last /\ kn.run = r
    BY <1>5, <1>6, <1>14 DEF Holds
  <2>2. /\ CodeTells(k, runs) /\ (k.code = 3 => runs[r].kept = k.trace)
        /\ k.answered => \A i \in PlacesOf(r, traces) : traces[i].step = k.trace => traces[i].final
    BY <1>2, <1>3, <1>14, <2>1 DEF RunFacts
  <2>3. k.command = "run" => ConversationOf(last, messages')
    BY <1>14, <2>1 DEF k, last
  <2>4. CodeTells(last, runs)
    BY <1>4, <2>2 DEF CodeTells
  <2>5. RunFacts(last, runs, traces, messages')
    BY <1>4, <2>2, <2>3, <2>4 DEF RunFacts
  <2> QED BY <2>1, <2>5
<1>15. ProcsInv' /\ Sole' /\ Owners' /\ SourcesInv'
  <2>1. kn.stage # "config" /\ (Opens(kn) => Opens(k) /\ kn.session = k.session)
    BY <1>2, <1>3, <1>4, <1>5, <1>6 DEF Opens, Active
  <2> QED BY <1>1, <1>8, <1>9, <1>11, <1>13, <1>14, <2>1, StepOfOne DEF k
<1>16. TracesInv'
  BY <1>2a, <1>8, <1>9, TracesKept DEF IInv
<1>17. RunsInv'
  <2>1. ASSUME NEW q \in DOMAIN runs
        PROVE  /\ Sane(runs[q])
               /\ Resumable(q) => told'[q] <= runs[q].kept
               /\ runs[q].session # 0 => 1..told'[q] \subseteq StepsOf(runs[q].session, traces)
    <3>1. CASE q = r
      <4>1. told'[q] = v
        BY <1>1, <1>2a, <3>1
      <4>2. Resumable(r) => runs[r].kept = k.trace
        BY <1>3, KeptWhenOpen DEF k
      <4>3. Resumable(r) => v <= runs[r].kept
        BY <1>2, <4>2
      <4>4. Sane(runs[r])
        BY <1>2 DEF IInv, RunsInv
      <4> QED BY <1>2, <1>12, <3>1, <4>1, <4>3, <4>4
    <3>2. CASE q # r
      <4>1. told'[q] = told[q]
        BY <1>1, <1>2a, <3>2
      <4> QED BY <4>1 DEF IInv, RunsInv
    <3> QED BY <3>1, <3>2
  <2> QED BY <2>1 DEF RunsInv, Resumable
<1>18. kn.stage # "assistant"
  BY <1>6
<1> HIDE DEF kn
<1> QED BY <1>1, <1>8, <1>9, <1>15, <1>16, <1>17, <1>18

\* When no step is missing, the task is stored if it is to be, or the command ends.
LEMMA TracesSavedKeeps ==
    ASSUME IInv, NEW p \in Procs, TracesSaved(p)
    PROVE  IInv'
<1> DEFINE k == procs[p]
           r == k.run
           kn == [k EXCEPT !.stage = "user"]
<1>1. /\ k.stage = "save" /\ ToSave(k) = {}
      /\ UNCHANGED <<sessions, runs, traces, messages, contended>>
      /\ \/ StoresUser(k) /\ procs' = [procs EXCEPT ![p] = kn] /\ told' = told
         \/ ~ StoresUser(k) /\ Done(p, k)
  BY DEF TracesSaved, Set
<1>2. /\ k \in ProcRows(sessions, DOMAIN runs) /\ ProcFacts(k, runs, traces)
      /\ k.run \notin contended => RunFacts(k, runs, traces, messages)
      /\ r # 0 /\ r \in DOMAIN runs /\ Holds(k) /\ k.session = runs[r].session
      /\ k.trace \in Nat /\ sessions \in Nat
      /\ messages \in Seq(MessageRows(sessions, DOMAIN runs))
  BY <1>1, AtWork DEF Active
<1>2a. /\ TypeOK /\ procs \in [Procs -> ProcRows(sessions, DOMAIN runs)]
  BY Typed DEF IInv
<1> HIDE DEF k
<1>3. k.session # 0 => 1..k.trace \subseteq k.existing
  BY <1>1 DEF ToSave
<1>4. CASE StoresUser(k) /\ procs' = [procs EXCEPT ![p] = kn] /\ told' = told
  <2>1. /\ kn.stage = "user" /\ kn.run = r /\ kn.session = k.session
        /\ kn.command = k.command /\ kn.trace = k.trace /\ kn.existing = k.existing
        /\ kn.code = k.code /\ kn.answered = k.answered
        /\ kn \in ProcRows(sessions, DOMAIN runs)
    <3>1. "user" \in Stages
      BY DEF Stages
    <3> QED BY <1>2, <3>1 DEF ProcRows
  <2> HIDE DEF kn
  <2>2. k.command \in {"chat", "run"} /\ (k.command = "run" => k.code = 0)
    BY <1>4 DEF StoresUser
  <2>3. TypeOK'
    <3>1. procs' \in [Procs -> ProcRows(sessions, DOMAIN runs)]
      BY <1>2a, <1>4, <2>1
    <3> QED BY <1>1, <1>2a, <1>4, <3>1, Typed, TypedNext
  <2>4. Frame /\ Settles
    BY <1>1, FrameRefl, RunsStay DEF Frame
  <2>5. Untouched(p, kn)
    <3>1. \A q \in DOMAIN runs \ {r} : Same(q)
      BY <1>1 DEF Same, NoneOf
    <3> QED BY <1>1, <1>2, <2>1, <3>1, UntouchedMine DEF k
  <2>6. ProcFacts(kn, runs', traces')
    <3>1. /\ k.code \in {0, 1, 3} /\ (k.code = 0 => k.answered)
          /\ (k.answered => k.code # 3 /\ k.trace # 0)
          /\ (k.command # "resume" => k.session # 0)
          /\ k.existing \subseteq StepsOf(k.session, traces)
      BY <1>1, <1>2 DEF ProcFacts
    <3> QED BY <1>1, <1>2, <1>3, <2>1, <2>2, <3>1 DEF ProcFacts, Active, Holds
  <2>7. ASSUME r \notin contended PROVE RunFacts(kn, runs', traces', messages')
    <3>1. /\ CodeTells(k, runs) /\ (k.code = 3 => runs[r].kept = k.trace)
          /\ k.answered => \A i \in PlacesOf(r, traces) : traces[i].step = k.trace => traces[i].final
          /\ k.command = "run" => ConversationOf(k, messages)
      BY <1>1, <1>2, <2>7 DEF RunFacts
    <3>2. CodeTells(kn, runs) /\ (k.command = "run" => ConversationOf(kn, messages))
      BY <1>1, <2>1, <3>1 DEF CodeTells, ConversationOf
    <3> QED BY <1>1, <2>1, <3>1, <3>2 DEF RunFacts
  <2>8. ProcsInv' /\ Sole' /\ Owners' /\ SourcesInv'
    <3>1. kn.stage # "config" /\ (Opens(kn) => Opens(k) /\ kn.session = k.session)
      BY <1>1, <2>1, <2>2 DEF Opens, Active
    <3> QED BY <1>1, <1>4, <2>1, <2>3, <2>4, <2>5, <2>6, <2>7, <3>1, StepOfOne DEF k
  <2>9. TracesInv' /\ MessagesInv'
    <3>1. kn.stage # "assistant"
      BY <2>1
    <3> QED BY <1>1, <1>2a, <1>4, <2>3, <2>4, <3>1, TracesKept, MessagesKept DEF IInv
  <2>10. RunsInv'
    BY <1>1, <1>4 DEF IInv, RunsInv, Resumable
  <2> QED BY <2>3, <2>8, <2>9, <2>10 DEF IInv
<1>5. CASE ~ StoresUser(k) /\ Done(p, k)
  <2> DEFINE last == [k EXCEPT !.stage = "exit", !.existing = {}]
  <2>1. r \notin contended /\ k.command = "run" => ConversationOf(last, messages)
    <3>1. last.stage = "exit" /\ last.run = r /\ last.code = k.code
      BY <1>2 DEF ProcRows
    <3> HIDE DEF last
    <3>2. k.command = "run" => k.code # 0
      BY <1>5 DEF StoresUser
    <3>3. r \notin contended /\ k.command = "run" => ConversationOf(k, messages)
      BY <1>1, <1>2 DEF RunFacts
    <3> QED BY <1>1, <3>1, <3>2, <3>3 DEF ConversationOf
  <2>2. \A q \in DOMAIN runs \ {r} : NoneOf(q, messages, messages')
    BY <1>1 DEF NoneOf
  <2>3. Extends(messages, messages')
    BY <1>1, FrameRefl
  <2>4. /\ TypeOK' /\ ProcsInv' /\ Sole' /\ Owners' /\ TracesInv' /\ RunsInv' /\ SourcesInv'
        /\ Frame /\ Settles
        /\ \E new : procs' = [procs EXCEPT ![p] = new] /\ new.stage # "assistant"
    BY <1>1, <1>2, <1>3, <1>5, <2>1, <2>2, <2>3, DoneKeeps DEF k
  <2>5. MessagesInv'
    BY <1>1, <1>2a, <2>4, MessagesKept DEF IInv
  <2> QED BY <2>4, <2>5 DEF IInv
<1> QED BY <1>1, <1>4, <1>5

\* A message that a process appends to the conversation of its own session.
LEMMA MessageStored ==
    ASSUME IInv, NEW p \in Procs, procs[p].stage \in {"user", "assistant"},
           NEW m \in MessageRows(sessions, DOMAIN runs), messages' = Append(messages, m),
           m.session = procs[p].session,
           UNCHANGED <<runs, contended>>,
           m.role = "assistant" =>
              /\ m.run \in contended \/ runs[m.run].status = "completed"
              /\ \E i \in DOMAIN messages : LastIs(i, [m EXCEPT !.role = "user"], messages),
           NEW kn, procs' = [procs EXCEPT ![p] = kn],
           kn.stage = "assistant" => m = TaskOf(kn)
    PROVE  MessagesInv'
<1> DEFINE n == Len(messages) + 1
<1>0. /\ procs \in [Procs -> ProcRows(sessions, DOMAIN runs)] /\ sessions \in Nat
      /\ messages \in Seq(MessageRows(sessions, DOMAIN runs)) /\ MessagesInv
  BY Typed, Bounds DEF IInv
<1>1. /\ messages' \in Seq(MessageRows(sessions, DOMAIN runs)) /\ Len(messages) \in Nat
      /\ DOMAIN messages = 1..Len(messages) /\ DOMAIN messages' = 1..n
      /\ messages'[n] = m /\ \A i \in DOMAIN messages : messages'[i] = messages[i]
  BY <1>0, AppendFacts
<1>2. /\ n \in Nat /\ n \notin DOMAIN messages /\ n \in DOMAIN messages'
      /\ \A i \in DOMAIN messages' : i \in DOMAIN messages \/ i = n
      /\ n - 1 = Len(messages) /\ DOMAIN messages \subseteq DOMAIN messages'
  BY <1>1
<1> HIDE DEF n
<1>3. ASSUME NEW j \in DOMAIN messages', messages'[j].role = "assistant"
      PROVE  /\ messages'[j].run \in contended \/ runs[messages'[j].run].status = "completed"
             /\ \E i \in 1..j - 1 :
                   /\ messages'[i] = [messages'[j] EXCEPT !.role = "user"]
                   /\ \A l \in i + 1..j - 1 : messages'[l].session # messages'[j].session
  <2>1. CASE j \in DOMAIN messages
    <3>1. messages'[j] = messages[j] /\ j \in Nat
      BY <1>1, <2>1
    <3>2. PICK i \in 1..j - 1 :
             /\ messages[i] = [messages[j] EXCEPT !.role = "user"]
             /\ \A l \in i + 1..j - 1 : messages[l].session # messages[j].session
      BY <1>0, <1>3, <2>1, <3>1 DEF MessagesInv
    <3>3. \A l \in 1..j - 1 : messages'[l] = messages[l]
      BY <1>1, <2>1
    <3>4. messages'[i] = [messages'[j] EXCEPT !.role = "user"]
      BY <3>1, <3>2, <3>3
    <3>5. \A l \in i + 1..j - 1 : messages'[l].session # messages'[j].session
      <4>1. \A l \in i + 1..j - 1 : l \in 1..j - 1
        BY <3>1
      <4> QED BY <3>1, <3>2, <3>3, <4>1
    <3>6. messages[j].run \in contended \/ runs[messages[j].run].status = "completed"
      BY <1>0, <1>3, <2>1, <3>1 DEF MessagesInv
    <3> QED BY <3>1, <3>4, <3>5, <3>6
  <2>2. CASE j = n
    <3>1. messages'[j] = m
      BY <1>1, <2>2
    <3>2. PICK i \in DOMAIN messages : LastIs(i, [m EXCEPT !.role = "user"], messages)
      BY <1>3, <3>1
    <3>3. [m EXCEPT !.role = "user"].session = m.session
      BY DEF MessageRows
    <3>4. messages'[i] = [m EXCEPT !.role = "user"]
      BY <1>1, <3>2 DEF LastIs
    <3>5. \A l \in i + 1..j - 1 : messages'[l].session # m.session
      <4>1. \A l \in i + 1..j - 1 : l \in DOMAIN messages /\ l > i
        BY <1>1, <1>2, <2>2
      <4> QED BY <1>1, <3>2, <3>3, <4>1 DEF LastIs
    <3>6. i \in 1..j - 1
      BY <1>1, <1>2, <2>2
    <3> QED BY <1>3, <3>1, <3>4, <3>5, <3>6
  <2> QED BY <1>2, <2>1, <2>2
<1>4. ASSUME NEW q \in Procs, procs'[q].stage = "assistant"
      PROVE  \E i \in DOMAIN messages' : LastIs(i, TaskOf(procs'[q]), messages')
  <2>1. CASE q = p
    <3>1. messages'[n] = TaskOf(procs'[q])
      BY <1>0, <1>1, <1>4, <2>1
    <3>2. \A l \in DOMAIN messages' : ~ (l > n)
      BY <1>1, <1>2
    <3> QED BY <1>2, <3>1, <3>2 DEF LastIs
  <2>2. CASE q # p
    <3>1. procs'[q] = procs[q]
      BY <1>0, <2>2
    <3>2. PICK i \in DOMAIN messages : LastIs(i, TaskOf(procs[q]), messages)
      BY <1>0, <1>4, <3>1 DEF MessagesInv
    <3>3. Opens(procs[q]) /\ Opens(procs[p])
      <4>1. ProcFacts(procs[q], runs, traces) /\ ProcFacts(procs[p], runs, traces)
        BY ProcOf
      <4> QED BY <1>4, <3>1, <4>1 DEF ProcFacts, Opens, Active
    <3>4. m.session # procs[q].session
      BY <2>2, <3>3 DEF IInv, Owners
    <3>5. TaskOf(procs[q]).session = procs[q].session
      BY DEF TaskOf
    <3>6. LastIs(i, TaskOf(procs[q]), messages')
      <4>1. i \in DOMAIN messages' /\ messages'[i] = messages[i]
        BY <1>1, <1>2
      <4>2. \A l \in DOMAIN messages' : l > i => messages'[l].session # procs[q].session
        BY <1>1, <1>2, <3>2, <3>4, <3>5 DEF LastIs
      <4> QED BY <3>2, <3>5, <4>1, <4>2 DEF LastIs
    <3> QED BY <3>1, <3>6 DEF LastIs
  <2> QED BY <2>1, <2>2
<1> QED BY <1>3, <1>4 DEF MessagesInv

\* A task is the last message of its session until its answer is stored.
LEMMA SaveUserKeeps ==
    ASSUME IInv, NEW p \in Procs, SaveUser(p)
    PROVE  IInv'
<1> DEFINE k == procs[p]
           r == k.run
           m == [session |-> k.session, run |-> r, role |-> "user"]
           kn == [k EXCEPT !.stage = "assistant"]
           n == Len(messages) + 1
<1>1. /\ k.stage = "user" /\ UNCHANGED <<sessions, runs, traces, contended>>
      /\ messages' = Append(messages, m)
      /\ \/ k.code = 0 /\ procs' = [procs EXCEPT ![p] = kn] /\ told' = told
         \/ k.code # 0 /\ Done(p, k)
  BY DEF SaveUser, Set
<1>2. /\ k \in ProcRows(sessions, DOMAIN runs) /\ ProcFacts(k, runs, traces)
      /\ k.run \notin contended => RunFacts(k, runs, traces, messages)
      /\ r # 0 /\ r \in DOMAIN runs /\ Holds(k) /\ k.session = runs[r].session
      /\ k.trace \in Nat /\ sessions \in Nat
      /\ messages \in Seq(MessageRows(sessions, DOMAIN runs))
  BY <1>1, AtWork DEF Active
<1>2a. /\ TypeOK /\ procs \in [Procs -> ProcRows(sessions, DOMAIN runs)]
  BY Typed DEF IInv
<1> HIDE DEF k
<1>3. /\ k.command # "resume" /\ 1..k.trace \subseteq k.existing /\ k.session # 0
      /\ (k.command = "run" => k.code = 0)
  BY <1>1, <1>2 DEF ProcFacts
<1>4. /\ m.session = k.session /\ m.run = r /\ m.role = "user"
      /\ m \in MessageRows(sessions, DOMAIN runs)
  <2>1. k.session \in 1..sessions
    BY <1>2, <1>3, ProcRowFacts
  <2> QED BY <1>2, <2>1 DEF MessageRows
<1>4a. m = TaskOf(k)
  BY DEF TaskOf
<1> HIDE DEF m
<1>5. /\ messages' \in Seq(MessageRows(sessions, DOMAIN runs)) /\ Len(messages) \in Nat
      /\ DOMAIN messages = 1..Len(messages) /\ DOMAIN messages' = 1..n
      /\ messages'[n] = m /\ \A i \in DOMAIN messages : messages'[i] = messages[i]
      /\ Extends(messages, messages')
  BY <1>1, <1>2, <1>4, AppendFacts
<1>6. /\ n \in Nat /\ n \notin DOMAIN messages /\ n \in DOMAIN messages'
      /\ \A i \in DOMAIN messages' : i \in DOMAIN messages \/ i = n
  BY <1>5
<1> HIDE DEF n
<1>7. \A q \in DOMAIN runs \ {r} : NoneOf(q, messages, messages')
  BY <1>4, <1>5, <1>6 DEF NoneOf
<1>8. CASE k.code = 0 /\ procs' = [procs EXCEPT ![p] = kn] /\ told' = told
  <2>1. /\ kn.stage = "assistant" /\ kn.run = r /\ kn.session = k.session
        /\ kn.command = k.command /\ kn.trace = k.trace /\ kn.existing = k.existing
        /\ kn.code = k.code /\ kn.answered = k.answered
        /\ kn \in ProcRows(sessions, DOMAIN runs)
    <3>1. "assistant" \in Stages
      BY DEF Stages
    <3> QED BY <1>2, <3>1 DEF ProcRows
  <2> HIDE DEF kn
  <2>2. TypeOK'
    <3>1. procs' \in [Procs -> ProcRows(sessions, DOMAIN runs)]
      BY <1>2a, <1>8, <2>1
    <3> QED BY <1>1, <1>2a, <1>5, <1>8, <3>1, Typed, TypedNext
  <2>3. Frame /\ Settles
    BY <1>1, <1>5, FrameRefl, RunsStay DEF Frame
  <2>4. Untouched(p, kn)
    <3>1. \A q \in DOMAIN runs \ {r} : Same(q)
      BY <1>1, <1>7 DEF Same, NoneOf
    <3> QED BY <1>1, <1>2, <2>1, <3>1, UntouchedMine DEF k
  <2>5. ProcFacts(kn, runs', traces')
    <3>1. /\ (k.code = 0 => k.answered) /\ (k.answered => k.trace # 0)
          /\ k.existing \subseteq StepsOf(k.session, traces)
      BY <1>1, <1>2 DEF ProcFacts
    <3> QED BY <1>1, <1>2, <1>3, <1>8, <2>1, <3>1 DEF ProcFacts, Active, Holds
  <2>6. ASSUME r \notin contended PROVE RunFacts(kn, runs', traces', messages')
    <3>1. /\ CodeTells(k, runs) /\ (k.code = 3 => runs[r].kept = k.trace)
          /\ k.answered => \A i \in PlacesOf(r, traces) : traces[i].step = k.trace => traces[i].final
          /\ k.command = "run" => ConversationOf(k, messages)
      BY <1>1, <1>2, <2>6 DEF RunFacts
    <3>2. CodeTells(kn, runs)
      BY <2>1, <3>1 DEF CodeTells
    <3>3. ASSUME k.command = "run" PROVE ConversationOf(kn, messages')
      <4>1. PlacesOf(r, messages) = {}
        BY <1>1, <3>1, <3>3 DEF ConversationOf
      <4>2. PlacesOf(r, messages') = {n}
        BY <1>4, <1>5, <1>6, <4>1 DEF PlacesOf
      <4> QED BY <1>4, <1>5, <1>6, <2>1, <4>2 DEF ConversationOf
    <3> QED BY <1>1, <2>1, <3>1, <3>2, <3>3 DEF RunFacts
  <2>7. ProcsInv' /\ Sole' /\ Owners' /\ SourcesInv'
    <3>1. kn.stage # "config" /\ (Opens(kn) => Opens(k) /\ kn.session = k.session)
      BY <1>1, <2>1 DEF Opens, Active
    <3> QED BY <1>1, <1>8, <2>1, <2>2, <2>3, <2>4, <2>5, <2>6, <3>1, StepOfOne DEF k
  <2>8. TracesInv'
    BY <1>1, <1>2a, <2>2, <2>3, TracesKept DEF IInv
  <2>9. RunsInv'
    BY <1>1, <1>8 DEF IInv, RunsInv, Resumable
  <2>10. MessagesInv'
    <3>1. TaskOf(kn) = TaskOf(k)
      BY <2>1 DEF TaskOf
    <3> QED BY <1>1, <1>4, <1>4a, <1>8, <3>1, MessageStored DEF k
  <2> QED BY <2>2, <2>7, <2>8, <2>9, <2>10 DEF IInv
<1>9. CASE k.code # 0 /\ Done(p, k)
  <2>1. /\ TypeOK' /\ ProcsInv' /\ Sole' /\ Owners' /\ TracesInv' /\ RunsInv' /\ SourcesInv'
        /\ \E new : procs' = [procs EXCEPT ![p] = new] /\ new.stage # "assistant"
    BY <1>1, <1>3, <1>5, <1>7, <1>9, DoneKeeps DEF k
  <2>2. MessagesInv'
    BY <1>1, <1>4, <2>1, MessageStored DEF k
  <2> QED BY <2>1, <2>2 DEF IInv
<1> QED BY <1>1, <1>8, <1>9

\* An answer comes right behind its task, and its run is completed.
LEMMA SaveAssistantKeeps ==
    ASSUME IInv, NEW p \in Procs, SaveAssistant(p)
    PROVE  IInv'
<1> DEFINE k == procs[p]
           r == k.run
           m == [session |-> k.session, run |-> r, role |-> "assistant"]
           last == [k EXCEPT !.stage = "exit", !.existing = {}]
           n == Len(messages) + 1
<1>1. /\ k.stage = "assistant" /\ UNCHANGED <<sessions, runs, traces, contended>>
      /\ messages' = Append(messages, m)
      /\ Done(p, k)
  BY DEF SaveAssistant
<1>2. /\ k \in ProcRows(sessions, DOMAIN runs) /\ ProcFacts(k, runs, traces)
      /\ k.run \notin contended => RunFacts(k, runs, traces, messages)
      /\ r # 0 /\ r \in DOMAIN runs
      /\ sessions \in Nat
      /\ messages \in Seq(MessageRows(sessions, DOMAIN runs))
  BY <1>1, AtWork DEF Active
<1>2a. \E i \in DOMAIN messages : LastIs(i, TaskOf(k), messages)
  BY <1>1 DEF IInv, MessagesInv
<1> HIDE DEF k
<1>3. /\ k.command # "resume" /\ 1..k.trace \subseteq k.existing /\ k.session # 0 /\ k.code = 0
  BY <1>1, <1>2 DEF ProcFacts
<1>4. /\ m.session = k.session /\ m.run = r /\ m.role = "assistant"
      /\ m \in MessageRows(sessions, DOMAIN runs)
      /\ [m EXCEPT !.role = "user"] = TaskOf(k)
  <2>1. k.session \in 1..sessions
    BY <1>2, <1>3, ProcRowFacts
  <2> QED BY <1>2, <2>1 DEF MessageRows, TaskOf
<1> HIDE DEF m
<1>5. /\ messages' \in Seq(MessageRows(sessions, DOMAIN runs)) /\ Len(messages) \in Nat
      /\ DOMAIN messages = 1..Len(messages) /\ DOMAIN messages' = 1..n
      /\ messages'[n] = m /\ \A i \in DOMAIN messages : messages'[i] = messages[i]
      /\ Extends(messages, messages')
  BY <1>1, <1>2, <1>4, AppendFacts
<1>6. /\ n \in Nat /\ n \notin DOMAIN messages /\ n \in DOMAIN messages'
      /\ \A i \in DOMAIN messages' : i \in DOMAIN messages \/ i = n
      /\ \A i \in DOMAIN messages : i < n
  BY <1>5
<1> HIDE DEF n
<1>7. \A q \in DOMAIN runs \ {r} : NoneOf(q, messages, messages')
  BY <1>4, <1>5, <1>6 DEF NoneOf
<1>8. ASSUME r \notin contended, k.command = "run" PROVE ConversationOf(last, messages')
  <2>1. PICK i \in DOMAIN messages : PlacesOf(r, messages) = {i} /\ messages[i].role = "user"
    BY <1>1, <1>2, <1>8 DEF RunFacts, ConversationOf
  <2>2. PlacesOf(r, messages') = {i, n}
    BY <1>4, <1>5, <1>6, <2>1 DEF PlacesOf
  <2>3. /\ i \in DOMAIN messages' /\ n \in DOMAIN messages' /\ i < n
        /\ messages'[i].role = "user" /\ messages'[n].role = "assistant"
    BY <1>4, <1>5, <1>6, <2>1
  <2>4. last.stage = "exit" /\ last.run = r /\ last.code = 0
    BY <1>2, <1>3 DEF ProcRows
  <2> HIDE DEF last
  <2> QED BY <2>2, <2>3, <2>4 DEF ConversationOf
<1>9. /\ TypeOK' /\ ProcsInv' /\ Sole' /\ Owners' /\ TracesInv' /\ RunsInv' /\ SourcesInv'
      /\ \E new : procs' = [procs EXCEPT ![p] = new] /\ new.stage # "assistant"
  BY <1>1, <1>3, <1>5, <1>7, <1>8, DoneKeeps DEF k
<1>10. r \in contended \/ runs[r].status = "completed"
  BY <1>1, <1>2, <1>3 DEF RunFacts, CodeTells
<1>11. MessagesInv'
  <2>1. PICK new : procs' = [procs EXCEPT ![p] = new] /\ new.stage # "assistant"
    BY <1>9
  <2>2. \E i \in DOMAIN messages : LastIs(i, [m EXCEPT !.role = "user"], messages)
    BY <1>2a, <1>4
  <2>3. m.run \in contended \/ runs[m.run].status = "completed"
    BY <1>4, <1>10
  <2> QED BY <1>1, <1>4, <2>1, <2>2, <2>3, MessageStored DEF k
<1> QED BY <1>9, <1>11 DEF IInv

----------------------------------------------------------------------------
(* The invariant holds.                                                     *)

\* Before the first command there is one session, and perhaps a waiting run.
LEMMA InitInv == Init => IInv
<1> SUFFICES ASSUME Init PROVE IInv
  OBVIOUS
<1>1. /\ sessions = 1 /\ traces = <<>> /\ messages = <<>> /\ contended = {}
      /\ told = [r \in DOMAIN runs |-> 0] /\ procs = [p \in Procs |-> Off]
  BY DEF Init
<1>2. sessions \in 0..MaxSessions /\ 0 \in 0..MaxSteps /\ 1 \in 0..MaxSteps
  BY <1>1, Bounds
<1>3. /\ runs \in Seq(RunRows(sessions))
      /\ \A r \in DOMAIN runs : r \in Nat /\ r # 0 /\ runs[r].kept = 1 /\ runs[r].seq = 1
  <2>1. CASE runs = <<>>
    BY <2>1
  <2>2. ASSUME NEW s \in 0..1,
               runs = <<[session |-> s, status |-> "waiting_approval", seq |-> 1, kept |-> 1]>>
        PROVE  /\ runs \in Seq(RunRows(sessions))
               /\ \A r \in DOMAIN runs : r \in Nat /\ r # 0 /\ runs[r].kept = 1 /\ runs[r].seq = 1
    <3> DEFINE x == [session |-> s, status |-> "waiting_approval", seq |-> 1, kept |-> 1]
    <3>1. x \in RunRows(sessions) /\ x.kept = 1 /\ x.seq = 1
      <4>1. 1 \in -1..MaxSteps
        BY Bounds
      <4> QED BY <1>1, <1>2, <4>1 DEF RunRows, Statuses
    <3> HIDE DEF x
    <3>2. runs = <<x>>
      BY <2>2 DEF x
    <3> QED BY <3>1, <3>2
  <2> QED BY <2>1, <2>2 DEF Init
<1>4. \A p \in Procs : /\ procs[p] \in ProcRows(sessions, DOMAIN runs)
                       /\ procs[p].stage = "off" /\ procs[p].run = 0 /\ procs[p].existing = {}
  BY <1>1, OffRow
<1>5. procs \in [Procs -> ProcRows(sessions, DOMAIN runs)]
  BY <1>1, OffRow
<1>6. TypeOK
  <2>1. traces \in Seq(TraceRows(sessions, DOMAIN runs)) /\ messages \in Seq(MessageRows(sessions, DOMAIN runs))
    BY <1>1
  <2>2. told \in [DOMAIN runs -> 0..MaxSteps] /\ contended \subseteq DOMAIN runs
    BY <1>1, <1>2
  <2> QED BY <1>2, <1>3, <1>5, <2>1, <2>2 DEF TypeOK, RunRows, TraceRows, MessageRows, ProcRows
<1>7. \A p \in Procs : ProcFacts(procs[p], runs, traces) /\ ~ Holds(procs[p]) /\ ~ Opens(procs[p])
  BY <1>4, IdleFacts
<1>8. ProcsInv /\ Sole /\ Owners
  BY <1>7 DEF ProcsInv, Sole, Owners
<1>9. TracesInv /\ MessagesInv /\ SourcesInv
  BY <1>1, <1>4 DEF TracesInv, MessagesInv, SourcesInv
<1>10. RunsInv
  <2> SUFFICES ASSUME NEW r \in DOMAIN runs
               PROVE  /\ Sane(runs[r]) /\ told[r] <= runs[r].kept
                      /\ 1..told[r] \subseteq StepsOf(runs[r].session, traces)
    BY DEF RunsInv
  <2>1. told[r] = 0 /\ runs[r].kept = 1 /\ runs[r].seq = 1
    BY <1>1, <1>3
  <2>2. 1..0 = {}
    OBVIOUS
  <2> QED BY <2>1, <2>2 DEF Sane
<1> QED BY <1>6, <1>8, <1>9, <1>10 DEF IInv

\* Every step of a command keeps the invariant.
LEMMA NextInv == IInv /\ [Next]_vars => IInv'
<1> SUFFICES ASSUME IInv, [Next]_vars PROVE IInv'
  OBVIOUS
<1>1. ASSUME NEW p \in Procs, \/ Start(p) \/ Refuse(p) \/ OpenSession(p) \/ Resume(p)
      PROVE  IInv'
  BY <1>1, StartKeeps, RefuseKeeps, OpenSessionKeeps, ResumeKeeps
<1>2. ASSUME NEW p \in Procs,
             \/ CreateRun(p) \/ MarkRunning(p) \/ OpenCheckpoint(p)
             \/ WriteInFlight(p) \/ RecordObservation(p) \/ Result(p) \/ FinalCheckpoint(p)
      PROVE  IInv'
  BY <1>2, CreateRunKeeps, MarkRunningKeeps, OpenCheckpointKeeps, WriteInFlightKeeps,
     RecordObservationKeeps, ResultKeeps, FinalCheckpointKeeps
<1>3. ASSUME NEW p \in Procs, \/ SaveTrace(p) \/ TracesSaved(p) \/ SaveUser(p) \/ SaveAssistant(p)
      PROVE  IInv'
  BY <1>3, SaveTraceKeeps, TracesSavedKeeps, SaveUserKeeps, SaveAssistantKeeps
<1>4. ASSUME NEW p \in Procs, \/ Quit(p) \/ Exit(p) \/ Crash(p)
      PROVE  IInv'
  BY <1>4, LeaveKeeps
<1>5. CASE UNCHANGED vars
  <2>1. /\ sessions' = sessions /\ runs' = runs /\ traces' = traces /\ messages' = messages
        /\ procs' = procs /\ contended' = contended /\ told' = told
    BY <1>5 DEF vars
  <2>2. TypeOK'
    BY <2>1 DEF IInv, TypeOK
  <2>3. ProcsInv' /\ Sole' /\ Owners'
    BY <2>1 DEF IInv, ProcsInv, Sole, Owners
  <2>4. TracesInv' /\ RunsInv'
    BY <2>1 DEF IInv, TracesInv, RunsInv, Resumable
  <2>5. MessagesInv' /\ SourcesInv'
    BY <2>1 DEF IInv, MessagesInv, SourcesInv
  <2> QED BY <2>2, <2>3, <2>4, <2>5 DEF IInv
<1> QED BY <1>1, <1>2, <1>3, <1>4, <1>5 DEF Next

\* The inductive invariant of the commands: it holds in every reachable state,
\* for any processes, settings, calls and bounds.
THEOREM Invariant == Spec => []IInv
BY InitInv, NextInv, PTL DEF Spec

\* Every stored step and message is of a run and a session there is, and a
\* command exits with one of four codes.
THEOREM TypeCorrect == Spec => []TypeOK
<1>1. IInv => TypeOK
  BY DEF IInv
<1> QED BY <1>1, Invariant, PTL

----------------------------------------------------------------------------
(* What is stored of a run.                                                 *)

\* The rows of a table at the places I: at says where each of them stands.
Stands(rows, T, I, at) ==
    /\ DOMAIN rows \subseteq Nat \ {0}
    /\ \A i \in DOMAIN rows : at[i] \in I /\ rows[i] = T[at[i]]
    /\ \A i, j \in DOMAIN rows : i < j => at[i] < at[j]
    /\ \A l \in I : \E i \in DOMAIN rows : at[i] = l

\* Pick gives the rows at the places it is told, in their order.
LEMMA PickStands ==
    ASSUME NEW S, NEW T, T \in Seq(S), NEW I, I \subseteq DOMAIN T
    PROVE  /\ Pick(T, I) \in Seq(S)
           /\ Len(Pick(T, I)) = Cardinality(I) /\ Cardinality(I) \in Nat
           /\ DOMAIN Pick(T, I) = 1..Len(Pick(T, I))
           /\ \E at : Stands(Pick(T, I), T, I, at)
<1> DEFINE rows == Pick(T, I)
<1>1. /\ rows \in Seq(S) /\ Len(rows) = Cardinality(I) /\ Cardinality(I) \in Nat
      /\ \E at : Enumerates(at, I) /\ \A i \in 1..Cardinality(I) : rows[i] = T[at[i]]
  <2>1. Pick(T, I) \in Seq(S) /\ Len(Pick(T, I)) = Cardinality(I) /\ Cardinality(I) \in Nat
    BY PickFacts
  <2>2. \E at : Enumerates(at, I) /\ \A i \in 1..Cardinality(I) : Pick(T, I)[i] = T[at[i]]
    BY PickFacts
  <2> QED BY <2>1, <2>2
<1> HIDE DEF rows
<1>2. DOMAIN rows = 1..Cardinality(I) /\ DOMAIN rows = 1..Len(rows)
  BY <1>1
<1>3. PICK at : Enumerates(at, I) /\ \A i \in 1..Cardinality(I) : rows[i] = T[at[i]]
  BY <1>1
<1>4. Stands(rows, T, I, at)
  <2>1. \A i \in DOMAIN rows : at[i] \in I /\ rows[i] = T[at[i]]
    BY <1>2, <1>3 DEF Enumerates
  <2>2. /\ \A i, j \in DOMAIN rows : i < j => at[i] < at[j]
        /\ \A l \in I : \E i \in DOMAIN rows : at[i] = l
    BY <1>2, <1>3 DEF Enumerates
  <2>3. DOMAIN rows \subseteq Nat \ {0}
    BY <1>1, <1>2
  <2> QED BY <2>1, <2>2, <2>3 DEF Stands
<1> QED BY <1>1, <1>2, <1>4 DEF rows

\* Numbers from one up that grow and leave none out are those of their places.
LEMMA Consecutive ==
    ASSUME NEW n \in Nat, NEW f, \A i \in 1..n : f[i] \in Nat \ {0},
           \A i, j \in 1..n : i < j => f[i] < f[j],
           \A i \in 1..n : \A m \in 1..f[i] : \E j \in 1..n : f[j] = m
    PROVE  \A i \in 1..n : f[i] = i
<1> DEFINE Wrong == {i \in 1..n : f[i] # i}
<1> SUFFICES ASSUME Wrong # {} PROVE FALSE
  OBVIOUS
<1>1. Wrong \subseteq Nat
  OBVIOUS
<1>2. PICK i \in Wrong : \A j \in Wrong : i <= j
  <2> HIDE DEF Wrong
  <2> QED BY <1>1, LeastNat
<1>3. i \in 1..n /\ f[i] # i /\ \A j \in 1..n : j < i => f[j] = j
  <2>1. \A j \in 1..n : j < i => j \notin Wrong
    BY <1>2
  <2> QED BY <1>2, <2>1
<1> HIDE DEF Wrong
<1>4. f[i] > i
  <2>1. CASE i = 1
    BY <1>3, <2>1
  <2>2. CASE i # 1
    <3>1. i - 1 \in 1..n /\ i - 1 < i
      BY <1>3, <2>2
    <3>2. f[i - 1] = i - 1 /\ f[i - 1] < f[i]
      BY <1>3, <3>1
    <3> QED BY <1>3, <3>2
  <2> QED BY <2>1, <2>2
<1>5. PICK j \in 1..n : f[j] = i
  <2>1. i \in 1..f[i]
    BY <1>3, <1>4
  <2> QED BY <1>3, <2>1
<1>6. ~ (j < i) /\ j # i
  BY <1>3, <1>5
<1>7. i < j
  BY <1>3, <1>6
<1>8. f[i] < f[j]
  BY <1>3, <1>7
<1> QED BY <1>3, <1>4, <1>5, <1>8

\* The rows of a run, from the first to the last.
LEMMA RowsFacts ==
    ASSUME IInv, NEW r \in DOMAIN runs
    PROVE  LET rows == RowsOf(r) IN
           /\ rows \in Seq(TraceRows(sessions, DOMAIN runs)) /\ DOMAIN rows = 1..Len(rows)
           /\ \E at : Stands(rows, traces, PlacesOf(r, traces), at)
           /\ \A i \in DOMAIN rows :
                 /\ rows[i].session = runs[r].session
                 /\ Resumable(r) => rows[i].step <= runs[r].kept
                 /\ rows[i].step \in Nat /\ rows[i].step # 0
           /\ r \notin contended => \A i, j \in DOMAIN rows : i < j => rows[i].step < rows[j].step
<1> DEFINE rows == RowsOf(r)
           I == PlacesOf(r, traces)
<1>1. traces \in Seq(TraceRows(sessions, DOMAIN runs)) /\ sessions \in Nat
  BY Typed, Bounds DEF IInv
<1>2. rows = Pick(traces, I) /\ I \subseteq DOMAIN traces
  BY DEF RowsOf, PlacesOf
<1>3. /\ rows \in Seq(TraceRows(sessions, DOMAIN runs)) /\ DOMAIN rows = 1..Len(rows)
      /\ \E at : Stands(rows, traces, I, at)
  BY <1>1, <1>2, PickStands
<1>4. PICK at : Stands(rows, traces, I, at)
  BY <1>3
<1> HIDE DEF rows
<1>5. ASSUME NEW i \in DOMAIN rows
      PROVE  /\ at[i] \in DOMAIN traces /\ traces[at[i]].run = r /\ rows[i] = traces[at[i]]
             /\ rows[i].session = runs[r].session
             /\ Resumable(r) => rows[i].step <= runs[r].kept
             /\ rows[i].step \in Nat /\ rows[i].step # 0
  <2>1. at[i] \in DOMAIN traces /\ traces[at[i]].run = r /\ rows[i] = traces[at[i]]
    BY <1>4 DEF Stands, PlacesOf
  <2>2. /\ traces[at[i]].session = runs[r].session
        /\ Resumable(r) => traces[at[i]].step <= runs[r].kept
    BY <2>1 DEF IInv, TracesInv
  <2> QED BY <1>1, <2>1, <2>2, TraceRowFacts
<1>6. ASSUME r \notin contended, NEW i \in DOMAIN rows, NEW j \in DOMAIN rows, i < j
      PROVE  rows[i].step < rows[j].step
  <2>1. at[i] < at[j]
    BY <1>4, <1>6 DEF Stands
  <2> QED BY <1>5, <1>6, <2>1 DEF IInv, TracesInv
<1> QED BY <1>3, <1>5, <1>6 DEF rows

\* A run that is alone in its session has all the steps stored of the session.
LEMMA OnlyRunRows ==
    ASSUME IInv, NEW r \in DOMAIN runs, OnlyRun(r)
    PROVE  /\ {i \in DOMAIN traces : traces[i].session = runs[r].session} = PlacesOf(r, traces)
           /\ \A m \in StepsOf(runs[r].session, traces) : \E i \in DOMAIN RowsOf(r) : RowsOf(r)[i].step = m
<1> DEFINE rows == RowsOf(r)
           s == runs[r].session
<1>1. traces \in Seq(TraceRows(sessions, DOMAIN runs)) /\ sessions \in Nat
  BY Typed, Bounds DEF IInv
<1>2. \A q \in DOMAIN runs : runs[q].session = s => q = r
  BY DEF OnlyRun
<1>3. \A i \in DOMAIN traces : traces[i].run \in DOMAIN runs /\ traces[i].session = runs[traces[i].run].session
  BY <1>1, TraceRowFacts DEF IInv, TracesInv
<1>4. {i \in DOMAIN traces : traces[i].session = s} = PlacesOf(r, traces)
  BY <1>2, <1>3 DEF PlacesOf
<1>5. PICK at : Stands(rows, traces, PlacesOf(r, traces), at)
  BY RowsFacts
<1> HIDE DEF rows
<1>6. ASSUME NEW m \in StepsOf(s, traces) PROVE \E i \in DOMAIN rows : rows[i].step = m
  <2>1. PICK l \in PlacesOf(r, traces) : traces[l].step = m
    BY <1>4 DEF StepsOf
  <2>2. PICK i \in DOMAIN rows : at[i] = l
    BY <1>5 DEF Stands
  <2> QED BY <1>5, <2>1, <2>2 DEF Stands
<1> QED BY <1>4, <1>6 DEF rows

\* Worked on by one process at a time it has its first step first, and so on.
LEMMA RowsInOrder ==
    ASSUME IInv, NEW r \in DOMAIN runs, OnlyRun(r), r \notin contended
    PROVE  \A i \in DOMAIN RowsOf(r) : RowsOf(r)[i].step = i
<1> DEFINE rows == RowsOf(r)
           f == [i \in DOMAIN rows |-> rows[i].step]
<1>1. /\ rows \in Seq(TraceRows(sessions, DOMAIN runs)) /\ DOMAIN rows = 1..Len(rows) /\ Len(rows) \in Nat
      /\ \A i \in DOMAIN rows : rows[i].step \in Nat \ {0}
      /\ \A i, j \in DOMAIN rows : i < j => rows[i].step < rows[j].step
  <2>1. rows \in Seq(TraceRows(sessions, DOMAIN runs)) /\ DOMAIN rows = 1..Len(rows)
    BY RowsFacts
  <2>2. Len(rows) \in Nat
    BY <2>1
  <2>3. /\ \A i \in DOMAIN rows : rows[i].step \in Nat \ {0}
        /\ \A i, j \in DOMAIN rows : i < j => rows[i].step < rows[j].step
    BY RowsFacts
  <2> QED BY <2>1, <2>2, <2>3
<1>2. ASSUME NEW i \in DOMAIN rows, NEW m \in 1..rows[i].step
      PROVE  \E j \in DOMAIN rows : rows[j].step = m
  <2>1. PICK at : Stands(rows, traces, PlacesOf(r, traces), at)
    BY RowsFacts
  <2>2. at[i] \in DOMAIN traces /\ traces[at[i]].run = r /\ rows[i] = traces[at[i]]
    BY <2>1 DEF Stands, PlacesOf
  <2>3. 1..rows[i].step \subseteq StepsOf(runs[r].session, traces)
    BY <2>2 DEF IInv, TracesInv
  <2> QED BY <2>3, OnlyRunRows
<1> HIDE DEF rows
<1>3. \A i \in 1..Len(rows) : f[i] = i
  <2>1. \A i \in 1..Len(rows) : f[i] = rows[i].step
    BY <1>1
  <2>2. \A i \in 1..Len(rows) : f[i] \in Nat \ {0}
    BY <1>1
  <2>3. \A i, j \in 1..Len(rows) : i < j => f[i] < f[j]
    BY <1>1
  <2>4. \A i \in 1..Len(rows) : \A m \in 1..f[i] : \E j \in 1..Len(rows) : f[j] = m
    BY <1>1, <1>2, <2>1
  <2> HIDE DEF f
  <2> QED BY <1>1, <2>2, <2>3, <2>4, Consecutive
<1> QED BY <1>1, <1>3 DEF rows

\* What is stored of a run, from the invariant.
LEMMA InvTraceKept == IInv => TraceKept
<1> SUFFICES ASSUME IInv, NEW r \in DOMAIN runs
             PROVE  LET rows == RowsOf(r) IN
                    /\ \A i \in DOMAIN rows : rows[i].session = runs[r].session
                    /\ OnlyRun(r) => 1..told[r] \subseteq {rows[i].step : i \in DOMAIN rows}
                    /\ r \notin contended =>
                          /\ runs[r].status \notin Ended =>
                                /\ told[r] <= runs[r].kept
                                /\ \A i \in DOMAIN rows : rows[i].step <= runs[r].kept
                          /\ \A i, j \in DOMAIN rows : i < j => rows[i].step < rows[j].step
                          /\ OnlyRun(r) => \A i \in DOMAIN rows : rows[i].step = i
  BY DEF TraceKept
<1> DEFINE rows == RowsOf(r)
<1>1. \A i \in DOMAIN rows : rows[i].session = runs[r].session /\ (Resumable(r) => rows[i].step <= runs[r].kept)
  BY RowsFacts
<1>2. /\ Resumable(r) => told[r] <= runs[r].kept
      /\ runs[r].session # 0 => 1..told[r] \subseteq StepsOf(runs[r].session, traces)
  BY DEF IInv, RunsInv
<1>3. OnlyRun(r) => 1..told[r] \subseteq {rows[i].step : i \in DOMAIN rows}
  <2> SUFFICES ASSUME OnlyRun(r) PROVE \A m \in 1..told[r] : \E i \in DOMAIN rows : rows[i].step = m
    OBVIOUS
  <2>1. 1..told[r] \subseteq StepsOf(runs[r].session, traces)
    BY <1>2 DEF OnlyRun
  <2> QED BY <2>1, OnlyRunRows
<1>4. r \notin contended => \A i, j \in DOMAIN rows : i < j => rows[i].step < rows[j].step
  BY RowsFacts
<1>5. r \notin contended /\ OnlyRun(r) => \A i \in DOMAIN rows : rows[i].step = i
  BY RowsInOrder
<1> HIDE DEF rows
<1> QED BY <1>1, <1>2, <1>3, <1>4, <1>5 DEF rows, Resumable

\* However often a run is killed and resumed, its steps are under its session
\* and none is missing that a command had stored; worked on by one process at a
\* time it has them in their order and once, and while it can be resumed its
\* latest checkpoint has every one of them.
THEOREM StepsAreKept == Spec => []TraceKept
BY InvTraceKept, Invariant, PTL

----------------------------------------------------------------------------
(* What a command says.                                                     *)

\* The first members of a sequence, as many as a limit lets through.
LEMMA FirstFacts ==
    ASSUME NEW S, NEW a \in Seq(S), NEW m \in Nat, m <= Len(a)
    PROVE  /\ DOMAIN a = 1..Len(a) /\ Len(a) \in Nat
           /\ DOMAIN SubSeq(a, 1, m) = 1..m
           /\ \A i \in 1..m : i \in DOMAIN a /\ SubSeq(a, 1, m)[i] = a[i]
OBVIOUS

\* The first rows of a session, as far as they are listed.
LEMMA ListedFacts ==
    ASSUME IInv, NEW s
    PROVE  LET all == Pick(traces, {i \in DOMAIN traces : traces[i].session = s}) IN
           /\ DOMAIN Listed(s) \subseteq DOMAIN all
           /\ \A i \in DOMAIN Listed(s) : Listed(s)[i] = all[i]
           /\ \A i \in DOMAIN all : i <= ListLimit => i \in DOMAIN Listed(s)
<1> DEFINE I == {i \in DOMAIN traces : traces[i].session = s}
           all == Pick(traces, I)
           n == IF Len(all) < ListLimit THEN Len(all) ELSE ListLimit
           D == TraceRows(sessions, DOMAIN runs)
<1>1. traces \in Seq(D)
  BY Typed DEF IInv
<1>2. all \in Seq(D) /\ Len(all) \in Nat
  <2>1. I \subseteq DOMAIN traces
    OBVIOUS
  <2>2. all \in Seq(D)
    <3> HIDE DEF D, I
    <3> QED BY <1>1, <2>1, PickStands
  <2> HIDE DEF all, D
  <2> QED BY <2>2
<1>3. n \in Nat /\ n <= Len(all) /\ n <= ListLimit /\ (n = Len(all) \/ n = ListLimit)
  <2> HIDE DEF all
  <2> QED BY <1>2, Bounds
<1>4. Listed(s) = SubSeq(all, 1, n)
  BY DEF Listed
<1> HIDE DEF all, D, n
<1>5. /\ DOMAIN all = 1..Len(all)
      /\ DOMAIN SubSeq(all, 1, n) = 1..n
      /\ \A i \in 1..n : i \in DOMAIN all /\ SubSeq(all, 1, n)[i] = all[i]
  BY <1>2, <1>3, FirstFacts
<1>6. ASSUME NEW i \in 1..Len(all), i <= ListLimit PROVE i \in 1..n
  BY <1>2, <1>3, <1>6, Bounds
<1> QED BY <1>4, <1>5, <1>6 DEF all

\* A command that ends well has its answer among the first rows of its session.
LEMMA SuccessListed ==
    ASSUME IInv, NEW p \in Procs, procs[p].stage = "exit", procs[p].run # 0,
           procs[p].run \notin contended, procs[p].code = 0, OnlyRun(procs[p].run),
           procs[p].trace <= ListLimit
    PROVE  Summary(procs[p].session) = "success"
<1> DEFINE k == procs[p]
           r == k.run
           s == k.session
           rows == RowsOf(r)
<1>1. /\ k \in ProcRows(sessions, DOMAIN runs) /\ ProcFacts(k, runs, traces)
      /\ Holds(k) /\ RunFacts(k, runs, traces, messages) /\ sessions \in Nat
  BY ProcOf, Typed, Bounds DEF Holds, IInv
<1>2. /\ r \in DOMAIN runs /\ s = runs[r].session /\ k.trace \in Nat
  <2>1. s = runs[r].session
    BY <1>1 DEF ProcFacts
  <2> QED BY <1>1, <2>1, ProcRowFacts
<1>3. s # 0
  BY <1>2 DEF OnlyRun
<1>4. k.answered /\ k.trace # 0 /\ 1..k.trace \subseteq StepsOf(s, traces)
  BY <1>1, <1>3 DEF ProcFacts
<1>5. PICK i \in DOMAIN rows : rows[i].step = k.trace
  <2>1. k.trace \in StepsOf(s, traces)
    BY <1>2, <1>4
  <2> QED BY <1>2, <2>1, OnlyRunRows
<1>6. i = k.trace
  BY <1>2, <1>5, RowsInOrder
<1>7. rows[i].final
  <2>1. PICK at : Stands(rows, traces, PlacesOf(r, traces), at)
    BY <1>2, RowsFacts
  <2>2. at[i] \in PlacesOf(r, traces) /\ rows[i] = traces[at[i]]
    BY <2>1 DEF Stands
  <2>3. \A l \in PlacesOf(r, traces) : traces[l].step = k.trace => traces[l].final
    BY <1>1, <1>4 DEF RunFacts
  <2> QED BY <1>5, <2>2, <2>3
<1>8. Pick(traces, {l \in DOMAIN traces : traces[l].session = s}) = rows
  <2>1. {l \in DOMAIN traces : traces[l].session = s} = PlacesOf(r, traces)
    BY <1>2, OnlyRunRows
  <2> QED BY <2>1 DEF RowsOf, PlacesOf
<1>9. i \in DOMAIN Listed(s) /\ Listed(s)[i] = rows[i]
  <2>1. i <= ListLimit
    BY <1>6
  <2> HIDE DEF rows, k
  <2> QED BY <1>5, <1>8, <2>1, ListedFacts
<1> QED BY <1>7, <1>9 DEF Summary, SummaryOf

\* The conversation of a run is that of its task, with the answer if it has one.
LEMMA RolesFacts ==
    ASSUME IInv, NEW k, ConversationOf(k, messages), k.stage = "exit"
    PROVE  Roles(k.run) = IF k.code = 0 THEN <<"user", "assistant">> ELSE <<>>
<1> DEFINE I == PlacesOf(k.run, messages)
           ms == Pick(messages, I)
           D == MessageRows(sessions, DOMAIN runs)
<1>1. messages \in Seq(D) /\ I \subseteq DOMAIN messages
  BY Typed DEF IInv, PlacesOf
<1>2. /\ ms \in Seq(D) /\ Len(ms) = Cardinality(I) /\ DOMAIN ms = 1..Cardinality(I)
      /\ Cardinality(I) \in Nat
      /\ \E at : Stands(ms, messages, I, at)
  <2> HIDE DEF D, I
  <2> QED BY <1>1, PickStands
<1>3. Roles(k.run) = [i \in DOMAIN ms |-> ms[i].role]
  BY DEF Roles, PlacesOf
<1>4. CASE k.code = 0
  <2>1. PICK a, b \in DOMAIN messages :
           a < b /\ I = {a, b} /\ messages[a].role = "user" /\ messages[b].role = "assistant"
    BY <1>4 DEF ConversationOf
  <2>2. PICK at : Stands(ms, messages, I, at)
    BY <1>2
  <2>3. DOMAIN messages \subseteq Nat
    <3> HIDE DEF D
    <3> QED BY <1>1
  <2> HIDE DEF I, ms, D
  <2>4. a \in Nat /\ b \in Nat /\ a # b
    BY <2>1, <2>3
  <2>5. Cardinality(I) = 2
    <3>1. IsFiniteSet({a}) /\ Cardinality({a}) = 1
      BY FS_Singleton
    <3>2. Cardinality({a} \cup {b}) = Cardinality({a}) + 1
      BY <2>4, <3>1, FS_AddElement
    <3>3. I = {a} \cup {b}
      BY <2>1
    <3> QED BY <3>1, <3>2, <3>3
  <2>6. DOMAIN ms = {1, 2}
    BY <1>2, <2>5
  <2>7. at[1] \in {a, b} /\ at[2] \in {a, b} /\ at[1] < at[2]
    BY <2>1, <2>2, <2>6 DEF Stands
  <2>8. at[1] = a /\ at[2] = b
    BY <2>1, <2>4, <2>7
  <2>9. ms[1].role = "user" /\ ms[2].role = "assistant"
    BY <2>1, <2>2, <2>6, <2>8 DEF Stands
  <2>10. [i \in DOMAIN ms |-> ms[i].role] = <<"user", "assistant">>
    BY <2>6, <2>9
  <2> QED BY <1>3, <1>4, <2>10
<1>5. CASE k.code # 0
  <2>1. I = {}
    BY <1>5 DEF ConversationOf
  <2>2. Cardinality(I) = 0
    BY <2>1, FS_EmptySet
  <2> HIDE DEF I, ms, D
  <2>3. DOMAIN ms = {}
    BY <1>2, <2>2
  <2>4. [i \in DOMAIN ms |-> ms[i].role] = <<>>
    BY <2>3
  <2> QED BY <1>3, <1>5, <2>4
<1> QED BY <1>4, <1>5

\* The exit code of run and resume agrees with what is stored.
LEMMA CodeAgrees ==
    ASSUME IInv, NEW p \in Procs, procs[p].stage = "exit", procs[p].command \in {"run", "resume"},
           procs[p].run \notin contended \cup {0}
    PROVE  LET k == procs[p] IN
           /\ k.code = 0 => runs[k.run].status = "completed"
           /\ k.code = 0 /\ OnlyRun(k.run) /\ k.trace <= ListLimit => Summary(k.session) = "success"
           /\ k.code = 3 => runs[k.run].status = "waiting_approval"
           /\ k.command = "run" =>
                 /\ k.code = 1 => runs[k.run].status = "failed"
                 /\ Roles(k.run) = IF k.code = 0 THEN <<"user", "assistant">> ELSE <<>>
<1> DEFINE k == procs[p]
<1>1. CASE ~ Holds(k)
  <2>1. k.command = "resume" /\ k.code = 1
    BY <1>1 DEF Holds
  <2> QED BY <2>1
<1>2. CASE Holds(k)
  <2>1. RunFacts(k, runs, traces, messages)
    BY <1>2, ProcOf
  <2>2. CodeTells(k, runs) /\ (k.command = "run" => ConversationOf(k, messages))
    BY <2>1 DEF RunFacts
  <2>3. k.code = 0 /\ OnlyRun(k.run) /\ k.trace <= ListLimit => Summary(k.session) = "success"
    BY SuccessListed
  <2>4. k.command = "run" => Roles(k.run) = IF k.code = 0 THEN <<"user", "assistant">> ELSE <<>>
    BY <2>2, RolesFacts
  <2> QED BY <2>2, <2>3, <2>4 DEF CodeTells
<1> QED BY <1>1, <1>2

\* In a session an answer follows its task, and its run is completed.
LEMMA AnswersFollow ==
    ASSUME IInv, NEW s, NEW i \in DOMAIN MessagesOf(s), MessagesOf(s)[i].role = "assistant"
    PROVE  LET ms == MessagesOf(s) IN
           /\ i > 1 /\ ms[i - 1] = [ms[i] EXCEPT !.role = "user"]
           /\ ms[i].run \in contended \/ runs[ms[i].run].status = "completed"
<1> DEFINE I == {l \in DOMAIN messages : messages[l].session = s}
           ms == MessagesOf(s)
           D == MessageRows(sessions, DOMAIN runs)
<1>1. messages \in Seq(D) /\ I \subseteq DOMAIN messages /\ sessions \in Nat
  BY Typed, Bounds DEF IInv
<1>2. ms \in Seq(D) /\ DOMAIN ms = 1..Len(ms) /\ \E at : Stands(ms, messages, I, at)
  <2>1. ms = Pick(messages, I)
    BY DEF MessagesOf
  <2> HIDE DEF D, I, ms
  <2> QED BY <1>1, <2>1, PickStands
<1>3. PICK at : Stands(ms, messages, I, at)
  BY <1>2
<1>3a. i \in DOMAIN ms /\ ms[i].role = "assistant"
  OBVIOUS
<1> DEFINE j == at[i]
<1>4. j \in DOMAIN messages /\ messages[j].session = s /\ ms[i] = messages[j] /\ j \in Nat
  <2>1. j \in I /\ ms[i] = messages[j]
    BY <1>3, <1>3a DEF Stands
  <2>2. DOMAIN messages \subseteq Nat
    <3> HIDE DEF D
    <3> QED BY <1>1
  <2> QED BY <2>1, <2>2
<1> HIDE DEF ms, j
<1>5. PICK l \in 1..j - 1 :
         /\ messages[l] = [messages[j] EXCEPT !.role = "user"]
         /\ \A x \in l + 1..j - 1 : messages[x].session # messages[j].session
  BY <1>3a, <1>4 DEF IInv, MessagesInv
<1>6. l \in I /\ l < j /\ l \in Nat
  <2>1. DOMAIN messages = 1..Len(messages) /\ Len(messages) \in Nat
    <3> HIDE DEF D
    <3> QED BY <1>1
  <2>2. l \in DOMAIN messages /\ l < j /\ l \in Nat
    BY <1>4, <1>5, <2>1
  <2>3. messages[j] \in D
    BY <1>1, <1>4
  <2>4. messages[l].session = messages[j].session
    BY <1>5, <2>3 DEF MessageRows
  <2> QED BY <1>4, <2>2, <2>4
<1>7. PICK h \in DOMAIN ms : at[h] = l
  BY <1>3, <1>6 DEF Stands
<1>8. DOMAIN ms \subseteq Nat \ {0} /\ \A x \in DOMAIN ms : at[x] \in I /\ at[x] \in Nat
  <2>1. DOMAIN messages \subseteq Nat
    <3> HIDE DEF D
    <3> QED BY <1>1
  <2> QED BY <1>3, <2>1 DEF Stands
<1>9. h < i
  <2>1. i < h => j < l
    BY <1>3, <1>3a, <1>7 DEF Stands, j
  <2>2. i = h => j = l
    BY <1>7 DEF j
  <2> QED BY <1>3a, <1>4, <1>6, <1>8, <2>1, <2>2
<1>10. h = i - 1
  <2> SUFFICES ASSUME h # i - 1 PROVE FALSE
    OBVIOUS
  <2>1. i - 1 \in DOMAIN ms /\ h < i - 1 /\ i - 1 < i
    <3>1. h \in 1..Len(ms) /\ i \in 1..Len(ms) /\ h < i
      BY <1>2, <1>3a, <1>7, <1>9
    <3> QED BY <1>2, <3>1
  <2>2. l < at[i - 1] /\ at[i - 1] < j
    BY <1>3, <1>3a, <1>7, <2>1 DEF Stands, j
  <2>3. at[i - 1] \in I /\ at[i - 1] \in Nat
    BY <1>8, <2>1
  <2>4. at[i - 1] \in l + 1..j - 1
    BY <1>4, <1>6, <2>2, <2>3
  <2> QED BY <1>4, <1>5, <2>3, <2>4
<1>11. ms[i - 1] = messages[l] /\ i > 1
  <2>1. ms[h] = messages[at[h]]
    BY <1>3, <1>7 DEF Stands
  <2> QED BY <1>3a, <1>7, <1>8, <1>9, <1>10, <2>1
<1>12. ms[i].run \in contended \/ runs[ms[i].run].status = "completed"
  BY <1>3a, <1>4 DEF IInv, MessagesInv
<1> QED BY <1>4, <1>5, <1>11, <1>12 DEF ms

\* A session is called a success only where an answer is stored.
LEMMA SuccessHasAnswer ==
    ASSUME IInv, NEW s, SummaryOf(Listed(s)) = "success"
    PROVE  LET rows == Listed(s) IN
           \E i \in DOMAIN rows :
              /\ rows[i].final
              /\ rows[i].run \in contended \/ runs[rows[i].run].status \in {"completed", "failed"}
<1> DEFINE rows == Listed(s)
           I == {l \in DOMAIN traces : traces[l].session = s}
           all == Pick(traces, I)
           D == TraceRows(sessions, DOMAIN runs)
<1>1. PICK i \in DOMAIN rows : rows[i].final
  BY DEF SummaryOf
<1>2. traces \in Seq(D) /\ I \subseteq DOMAIN traces
  BY Typed DEF IInv
<1>3. PICK at : Stands(all, traces, I, at)
  <2> HIDE DEF D, I
  <2> QED BY <1>2, PickStands
<1>4. i \in DOMAIN all /\ rows[i] = all[i]
  BY <1>1, ListedFacts
<1> HIDE DEF rows, all
<1>5. at[i] \in DOMAIN traces /\ rows[i] = traces[at[i]]
  BY <1>3, <1>4 DEF Stands
<1>6. rows[i].run \in contended \/ runs[rows[i].run].status \in {"completed", "failed"}
  BY <1>1, <1>5 DEF IInv, TracesInv, Ended
<1> QED BY <1>1, <1>6 DEF rows

\* What a command says, from the invariant.
LEMMA InvOutcomeTold == IInv => OutcomeTold
<1> SUFFICES ASSUME IInv PROVE OutcomeTold
  OBVIOUS
<1> QED BY CodeAgrees, AnswersFollow, SuccessHasAnswer, Zenon DEF OutcomeTold

\* What a command says agrees with what is stored: the exit code with the
\* status, the conversation and the summary, each answer with its task and its
\* run.
THEOREM OutcomesAgree == Spec => []OutcomeTold
BY InvOutcomeTold, Invariant, PTL

----------------------------------------------------------------------------
(* What the settings let a tool do.                                         *)

\* The layers without the options of the command line.
LastWord(s, k) ==
    IF k \in DOMAIN s.env THEN s.env[k] = "yes"
    ELSE IF k \in DOMAIN s.dotenv THEN s.dotenv[k] = "yes"
    ELSE k \in DOMAIN FindConfig(s).gives /\ FindConfig(s).gives[k] # "off"

\* The upper layer is asked first.
LEMMA OverFacts ==
    ASSUME NEW upper, NEW lower, NEW k
    PROVE  /\ k \in DOMAIN Over(upper, lower) <=> k \in DOMAIN upper \/ k \in DOMAIN lower
           /\ k \in DOMAIN upper => Over(upper, lower)[k] = upper[k]
           /\ k \notin DOMAIN upper /\ k \in DOMAIN lower => Over(upper, lower)[k] = lower[k]
BY DEF Over

\* A key that no argument and no other program gives has what the environment
\* says, and else the file, and else the default.
LEMMA ConfigFacts ==
    ASSUME NEW s, NEW k \in Keys, k \notin DOMAIN s.args, k \notin DOMAIN s.alias
    PROVE  Config(s)[k] =
              IF k \in DOMAIN Environment(s) /\ Usable(k, Environment(s)[k])
              THEN Coerced(k, Environment(s)[k])
              ELSE IF k \in DOMAIN FindConfig(s).gives THEN FindConfig(s).gives[k] ELSE Defaults[k]
<1> DEFINE low == Over(FindConfig(s).gives, Defaults)
           mid == Over(FromEnvironment(s), low)
<1>1. /\ k \in DOMAIN low
      /\ low[k] = IF k \in DOMAIN FindConfig(s).gives THEN FindConfig(s).gives[k] ELSE Defaults[k]
  <2>1. k \in DOMAIN Defaults
    BY DEF Defaults
  <2> QED BY <2>1, OverFacts
<1> HIDE DEF low
<1>2. mid[k] = IF k \in DOMAIN FromEnvironment(s) THEN FromEnvironment(s)[k] ELSE low[k]
  BY <1>1, OverFacts
<1>3. /\ k \in DOMAIN FromEnvironment(s) <=> k \in DOMAIN Environment(s) /\ Usable(k, Environment(s)[k])
      /\ k \in DOMAIN FromEnvironment(s) => FromEnvironment(s)[k] = Coerced(k, Environment(s)[k])
  BY DEF FromEnvironment
<1> HIDE DEF mid
<1>4. k \in DOMAIN Aliased(s, mid) /\ Aliased(s, mid)[k] = mid[k]
  BY DEF Aliased
<1>5. Config(s) = Over(s.args, Aliased(s, mid))
  BY DEF Config, mid, low
<1>6. Config(s)[k] = mid[k]
  BY <1>4, <1>5, OverFacts
<1> QED BY <1>1, <1>2, <1>3, <1>6

\* A switch is on when the last layer that says anything of it says so.
LEMMA SwitchFacts ==
    ASSUME NEW s, AreSettings(s), NEW k \in Switches
    PROVE  SwitchedOn(s, k) <=> LastWord(s, k)
<1>1. k \in Keys /\ k \notin DOMAIN s.args /\ k \notin DOMAIN s.alias /\ k \notin Numbers
  BY DEF AreSettings, Keys, Switches, Names, Numbers
<1>2. Usable(k, Environment(s)[k])
  BY <1>1 DEF Usable
<1>3. Coerced(k, Environment(s)[k]) = IF Environment(s)[k] = "yes" THEN "on" ELSE "off"
  BY DEF Coerced, Switches
<1>4. Defaults[k] = "off"
  BY <1>1 DEF Defaults, Switches, Numbers
<1>5. /\ k \in DOMAIN Environment(s) <=> k \in DOMAIN s.env \/ k \in DOMAIN s.dotenv
      /\ k \in DOMAIN s.env => Environment(s)[k] = s.env[k]
      /\ k \notin DOMAIN s.env /\ k \in DOMAIN s.dotenv => Environment(s)[k] = s.dotenv[k]
  BY OverFacts DEF Environment
<1>6. Config(s)[k] = IF k \in DOMAIN Environment(s)
                     THEN IF Environment(s)[k] = "yes" THEN "on" ELSE "off"
                     ELSE IF k \in DOMAIN FindConfig(s).gives THEN FindConfig(s).gives[k] ELSE "off"
  BY <1>1, <1>2, <1>3, <1>4, ConfigFacts
<1> QED BY <1>5, <1>6 DEF LastWord, SwitchedOn

\* A number that cannot be read is the file's: no argument and no variable that
\* counts hides it.
LEMMA NumberFacts ==
    ASSUME NEW s, AreSettings(s), NEW k \in Numbers, Config(s)[k] = "word"
    PROVE  /\ k \in DOMAIN FindConfig(s).gives /\ FindConfig(s).gives[k] = "word"
           /\ k \notin DOMAIN s.args \cup DOMAIN FromEnvironment(s)
<1>1. k \notin DOMAIN s.args
  <2>1. k \in DOMAIN s.args => Config(s)[k] = s.args[k]
    BY OverFacts DEF Config
  <2> QED BY <2>1 DEF AreSettings
<1>2. k \in Keys /\ k \notin DOMAIN s.alias /\ k \notin Switches /\ k # "prefixes"
  BY DEF AreSettings, Keys, Switches, Names, Numbers
<1>3. Usable(k, Environment(s)[k]) => Coerced(k, Environment(s)[k]) # "word"
  BY <1>2 DEF Usable, Coerced
<1>4. Defaults[k] # "word"
  BY <1>2 DEF Defaults
<1>5. ~ (k \in DOMAIN Environment(s) /\ Usable(k, Environment(s)[k]))
  BY <1>1, <1>2, <1>3, ConfigFacts
<1>6. k \notin DOMAIN FromEnvironment(s)
  BY <1>5 DEF FromEnvironment
<1>7. Config(s)[k] = IF k \in DOMAIN FindConfig(s).gives THEN FindConfig(s).gives[k] ELSE Defaults[k]
  BY <1>1, <1>2, <1>5, ConfigFacts
<1> QED BY <1>1, <1>4, <1>6, <1>7

\* The policy and the tools open what the last layer or an option opens.
LEMMA GateFacts ==
    ASSUME NEW s, AreSettings(s)
    PROVE  /\ PolicyOf(s).on = {k \in Switches : OptedIn(s, k)}
           /\ PolicyOf(s).prefixes = ToolsOf(s).prefixes
           /\ ToolsOf(s).write <=> OptedIn(s, "allow_file_write")
           /\ ToolsOf(s).shell <=> OptedIn(s, "allow_shell")
           /\ "web_search" \in ToolsOf(s).registered <=> OptedIn(s, "allow_search")
<1>1. \A k \in Switches : OptedIn(s, k) <=> SwitchedOn(s, k) \/ k \in s.flags
  BY SwitchFacts DEF OptedIn, LastWord
<1>2. PolicyOf(s).on = {k \in Switches : OptedIn(s, k)}
  BY <1>1 DEF PolicyOf
<1>3. {"allow_file_write", "allow_shell", "allow_search"} \subseteq Switches
  BY DEF Switches
<1>4. PolicyOf(s).prefixes = ToolsOf(s).prefixes
  BY DEF PolicyOf, ToolsOf
<1>5. ToolsOf(s).write <=> SwitchedOn(s, "allow_file_write") \/ "allow_file_write" \in s.flags
  BY DEF ToolsOf
<1>6. ToolsOf(s).shell <=> SwitchedOn(s, "allow_shell") \/ "allow_shell" \in s.flags
  BY DEF ToolsOf
<1>7. "web_search" \in ToolsOf(s).registered <=> SwitchedOn(s, "allow_search") \/ "allow_search" \in s.flags
  BY DEF ToolsOf
<1> QED BY <1>1, <1>2, <1>3, <1>4, <1>5, <1>6, <1>7

\* The two gates decide alike of every call but a search that is off.
LEMMA GatesAlike ==
    ASSUME NEW s, AreSettings(s), NEW call, ~ SearchIsOff(s, call)
    PROVE  ToolAllows(ToolsOf(s), call) <=> PolicyAllows(PolicyOf(s), call)
<1>1. \A k \in Switches : k \in PolicyOf(s).on <=> OptedIn(s, k)
  BY GateFacts
<1>2. {"allow_file_write", "allow_shell", "allow_search"} \subseteq Switches
  BY DEF Switches
<1>3. call.tool = "web_search" => OptedIn(s, "allow_search")
  BY DEF SearchIsOff
<1> QED BY <1>1, <1>2, <1>3, GateFacts DEF ToolAllows, PolicyAllows

\* A tool that is there by default is not registered if it is that search.
LEMMA RegisteredFacts ==
    ASSUME NEW s, AreSettings(s), NEW call, call.tool \in DOMAIN Required
    PROVE  call.tool \notin ToolsOf(s).registered <=> SearchIsOff(s, call)
<1>1. call.tool \in {"list_files", "read_file", "write_file", "run_shell", "web_search"}
  BY DEF Required
<1>2. {"list_files", "read_file", "write_file", "run_shell"} \subseteq ToolsOf(s).registered
  BY DEF ToolsOf
<1>3. "web_search" \in ToolsOf(s).registered <=> OptedIn(s, "allow_search")
  BY GateFacts
<1> QED BY <1>1, <1>2, <1>3 DEF SearchIsOff

\* What a call that is executed, refused or fails tells of the gates.
LEMMA CallFacts ==
    ASSUME NEW s, AreSettings(s), NEW call, call.tool \in DOMAIN Required
    PROVE  LET kind == Observed(PolicyOf(s), ToolsOf(s), call) IN
           /\ kind = "unknown_tool" <=> SearchIsOff(s, call)
           /\ kind \notin {"unknown_tool", "validation"} =>
                 (Audited(kind).allowed <=> ToolAllows(ToolsOf(s), call))
           /\ Audited(kind).success =>
                 /\ Validates(call) /\ PolicyAllows(PolicyOf(s), call) /\ ToolAllows(ToolsOf(s), call)
                 /\ call.tool = "write_file" => OptedIn(s, "allow_file_write") /\ call.path # "outside"
                 /\ call.tool = "run_shell" => /\ OptedIn(s, "allow_shell")
                                              /\ "rm" \notin ToSet(call.command)
                 /\ call.tool = "web_search" => OptedIn(s, "allow_search")
<1> DEFINE kind == Observed(PolicyOf(s), ToolsOf(s), call)
<1>0. kind = "unknown_tool" <=> SearchIsOff(s, call)
  <2>1. kind = "unknown_tool" <=> call.tool \notin ToolsOf(s).registered
    BY DEF Observed
  <2> QED BY <2>1, RegisteredFacts
<1>1. Audited(kind).allowed <=> kind # "permission"
  BY DEF Audited
<1>2. Audited(kind).success <=> kind = "none"
  BY DEF Audited
<1>3. ASSUME kind \notin {"unknown_tool", "validation"}
      PROVE  ToolAllows(ToolsOf(s), call) <=> kind # "permission"
  <2>1. ~ SearchIsOff(s, call)
    BY <1>0, <1>3
  <2>2. kind # "permission" <=> PolicyAllows(PolicyOf(s), call)
    BY <1>3 DEF Observed
  <2> QED BY <2>1, <2>2, GatesAlike
<1>4. ASSUME kind = "none"
      PROVE  /\ call.tool \in ToolsOf(s).registered /\ Validates(call)
             /\ PolicyAllows(PolicyOf(s), call) /\ ToolAllows(ToolsOf(s), call) /\ Runs(call)
  BY <1>4 DEF Observed
<1>5. ASSUME kind = "none", call.tool = "write_file"
      PROVE  OptedIn(s, "allow_file_write") /\ call.path # "outside"
  <2>1. WriteFileRuns(call.path)
    BY <1>4, <1>5 DEF Runs
  <2> QED BY <1>4, <1>5, <2>1, GateFacts DEF ToolAllows, WriteFileRuns, Inside
<1>6. ASSUME kind = "none", call.tool = "run_shell"
      PROVE  OptedIn(s, "allow_shell") /\ "rm" \notin ToSet(call.command)
  <2>1. RunShellRuns(call.command)
    BY <1>4, <1>6 DEF Runs
  <2> QED BY <1>4, <1>6, <2>1, GateFacts DEF ToolAllows, RunShellRuns, Blocked
<1>7. ASSUME kind = "none", call.tool = "web_search"
      PROVE  OptedIn(s, "allow_search")
  BY <1>4, <1>7, GateFacts
<1> HIDE DEF kind
<1> QED BY <1>0, <1>1, <1>2, <1>3, <1>4, <1>5, <1>6, <1>7 DEF kind

\* The two gates, from the invariant: settings in use are settings.
LEMMA InvGates == IInv => GatesFollowSettings
<1> SUFFICES ASSUME IInv, NEW p \in Procs, procs[p].stage = "config"
             PROVE  LET s == procs[p].source
                        policy == PolicyOf(s)
                        tools == ToolsOf(s)
                    IN  /\ \A call \in Calls : LET kind == Observed(policy, tools, call) IN
                              /\ kind = "unknown_tool" <=> SearchIsOff(s, call)
                              /\ ~SearchIsOff(s, call) =>
                                    (ToolAllows(tools, call) <=> PolicyAllows(policy, call))
                              /\ kind \notin {"unknown_tool", "validation"} =>
                                    (Audited(kind).allowed <=> ToolAllows(tools, call))
                              /\ Audited(kind).success =>
                                    /\ Validates(call) /\ PolicyAllows(policy, call) /\ ToolAllows(tools, call)
                                    /\ call.tool = "write_file" =>
                                          OptedIn(s, "allow_file_write") /\ call.path # "outside"
                                    /\ call.tool = "run_shell" => /\ OptedIn(s, "allow_shell")
                                                                 /\ "rm" \notin ToSet(call.command)
                                    /\ call.tool = "web_search" => OptedIn(s, "allow_search")
                        /\ s.flags = {} => \A k \in Switches : k \in Doctor(s) <=> OptedIn(s, k)
                        /\ \A k \in Numbers : Config(s)[k] = "word" =>
                              /\ k \in DOMAIN FindConfig(s).gives /\ FindConfig(s).gives[k] = "word"
                              /\ k \notin DOMAIN s.args \cup DOMAIN FromEnvironment(s)
  BY Zenon DEF GatesFollowSettings
<1> DEFINE s == procs[p].source
<1>1. AreSettings(s)
  <2>1. s \in Settled \cup Loud
    BY DEF IInv, SourcesInv
  <2> QED BY <2>1, ConstantsAssumption, Zenon
<1> HIDE DEF s
<1>2. s.flags = {} => \A k \in Switches : k \in Doctor(s) <=> OptedIn(s, k)
  BY <1>1, SwitchFacts DEF Doctor, OptedIn, LastWord
<1>3. \A k \in Numbers : Config(s)[k] = "word" =>
         /\ k \in DOMAIN FindConfig(s).gives /\ FindConfig(s).gives[k] = "word"
         /\ k \notin DOMAIN s.args \cup DOMAIN FromEnvironment(s)
  BY <1>1, NumberFacts
<1>4. \A call \in Calls : call.tool \in DOMAIN Required
  BY ConstantsAssumption, Zenon
<1> QED BY <1>1, <1>2, <1>3, <1>4, CallFacts, GatesAlike, Zenon DEF s

\* The policy and the tools decide alike of every call but a search that is
\* off, the one that is called unknown, whatever the layers of the settings and
\* the values in their files; what opens a tool is the last word on it, doctor
\* knows the same switches, and a number that cannot be read is the file's.
THEOREM GatesAgree == Spec => []GatesFollowSettings
BY InvGates, Invariant, PTL
=============================================================================
