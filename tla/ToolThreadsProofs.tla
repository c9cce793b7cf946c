------------------------- MODULE ToolThreadsProofs -------------------------
(***************************************************************************)
(* Theorems about ToolThreads, for every set of callers, with and without a *)
(* timeout: the lock belongs to the request under way, cancellation reaches *)
(* no call that is over, and a call that succeeds has its own answer, among *)
(* any number of threads that their callers have given up.                  *)
(***************************************************************************)
EXTENDS ToolThreads, TLAPS, SequenceTheorems

USE ConstantsAssumption DEF ConstantsAssumption

\* What is read from a pipe is a line, and what is left is lines.
LEMMA Lines ==
    ASSUME TypeOK
    PROVE  /\ server.outbox # <<>> => /\ Head(server.outbox) \in [id : 0..Len(jobs), ok : BOOLEAN]
                                      /\ Tail(server.outbox) \in Seq([id : 0..Len(jobs), ok : BOOLEAN])
           /\ server.inbox # <<>> => /\ Head(server.inbox) \in DOMAIN jobs
                                     /\ Tail(server.inbox) \in Seq(DOMAIN jobs)
<1>1. server.outbox \in Seq([id : 0..Len(jobs), ok : BOOLEAN]) /\ server.inbox \in Seq(DOMAIN jobs)
  BY DEF TypeOK
<1> QED
  BY <1>1, HeadTailProperties

----------------------------------------------------------------------------
(* One step changes one job, or adds one.                                   *)

\* Nobody else's job changes with that of j.
LEMMA Changed ==
    ASSUME TypeOK, NEW j \in DOMAIN jobs, NEW r \in JobType, jobs' = [jobs EXCEPT ![j] = r]
    PROVE  /\ jobs' \in Seq(JobType) /\ Len(jobs') = Len(jobs) /\ DOMAIN jobs' = DOMAIN jobs
           /\ jobs'[j] = r /\ \A k \in DOMAIN jobs : k # j => jobs'[k] = jobs[k]
<1>1. jobs \in Seq(JobType) /\ DOMAIN jobs = 1..Len(jobs) /\ Len(jobs) \in Nat
  BY DEF TypeOK
<1>2. jobs' \in Seq(JobType) /\ Len(jobs') = Len(jobs)
  BY <1>1, ExceptSeq
<1>3. DOMAIN jobs' = 1..Len(jobs')
  BY <1>2
<1> QED
  BY <1>1, <1>2, <1>3

\* A thread that goes on changes nothing of its job but where it stands and
\* what it has read.
LEMMA Moved ==
    ASSUME TypeOK, NEW j \in DOMAIN jobs, ThreadStep(j) \/ Take(j)
    PROVE  /\ jobs' \in Seq(JobType) /\ Len(jobs') = Len(jobs) /\ DOMAIN jobs' = DOMAIN jobs
           /\ jobs'[j].who = jobs[j].who /\ \A k \in DOMAIN jobs : k # j => jobs'[k] = jobs[k]
           /\ UNCHANGED <<busy, active, boot, closing>>
<1>1. jobs \in Seq(JobType) /\ jobs[j] \in JobType /\ Len(jobs) \in Nat /\ DOMAIN jobs = 1..Len(jobs)
  BY DEF TypeOK
<1>2. ASSUME NEW stage \in Stages, jobs' = [jobs EXCEPT ![j].stage = stage]
      PROVE  /\ jobs' \in Seq(JobType) /\ Len(jobs') = Len(jobs) /\ DOMAIN jobs' = DOMAIN jobs
             /\ jobs'[j].who = jobs[j].who /\ \A k \in DOMAIN jobs : k # j => jobs'[k] = jobs[k]
  <2>1. [jobs[j] EXCEPT !.stage = stage] \in JobType /\ [jobs[j] EXCEPT !.stage = stage].who = jobs[j].who
    BY <1>1 DEF JobType
  <2>2. jobs' = [jobs EXCEPT ![j] = [jobs[j] EXCEPT !.stage = stage]]
    BY <1>2
  <2> QED
    BY <2>1, <2>2, Changed
<1>3. ASSUME NEW stage \in Stages, NEW answer \in Nat, Finish(j, stage, answer)
      PROVE  /\ jobs' \in Seq(JobType) /\ Len(jobs') = Len(jobs) /\ DOMAIN jobs' = DOMAIN jobs
             /\ jobs'[j].who = jobs[j].who /\ \A k \in DOMAIN jobs : k # j => jobs'[k] = jobs[k]
  <2>1. [jobs[j] EXCEPT !.stage = stage, !.answer = answer] \in JobType
        /\ [jobs[j] EXCEPT !.stage = stage, !.answer = answer].who = jobs[j].who
    BY <1>1 DEF JobType
  <2>2. jobs' = [jobs EXCEPT ![j] = [jobs[j] EXCEPT !.stage = stage, !.answer = answer]]
    BY <1>3 DEF Finish
  <2> QED
    BY <2>1, <2>2, Changed
<1>4. CASE \/ Submit(j) \/ Begin(j) \/ Acquire(j) \/ Send(j) \/ SendBlocks(j) \/ Take(j)
           \/ ReadTimesOut(j) \/ Stopped(j)
  <2>1. PICK stage \in Stages : jobs' = [jobs EXCEPT ![j].stage = stage]
    BY <1>4 DEF Submit, Begin, Acquire, Send, SendBlocks, Take, Written, ReadTimesOut, Stopped, Stages, Ended
  <2>2. UNCHANGED <<busy, active, boot, closing>>
    BY <1>4 DEF Submit, Begin, Acquire, Send, SendBlocks, Take, Written, ReadTimesOut, Stopped
  <2> QED
    BY <1>2, <2>1, <2>2
<1>5. CASE SendFails(j) \/ ReadFails(j)
  BY <1>3, <1>5 DEF SendFails, ReadFails, Stages, Ended
<1>6. CASE ReadLine(j)
  <2>1. Head(server.outbox).id \in Nat
    BY <1>1, <1>6, Lines DEF ReadLine
  <2> QED
    BY <1>3, <1>6, <2>1 DEF ReadLine, Stages, Ended
<1> QED
  BY <1>4, <1>5, <1>6 DEF ThreadStep

\* A call that is begun, or a request of discover_tools, is added at the end.
LEMMA Added ==
    ASSUME TypeOK, NEW who \in Callers \cup {Nobody}, NEW stage \in {"new", "queued"},
           jobs' = Append(jobs, Job(who, stage))
    PROVE  /\ jobs' \in Seq(JobType) /\ Len(jobs') = Len(jobs) + 1 /\ Len(jobs) \in Nat
           /\ DOMAIN jobs = 1..Len(jobs) /\ DOMAIN jobs' = 1..Len(jobs) + 1
           /\ \A k \in DOMAIN jobs : jobs'[k] = jobs[k]
           /\ jobs'[Len(jobs) + 1].stage = stage /\ jobs'[Len(jobs) + 1].who = who
<1>1. Job(who, stage) \in JobType /\ Job(who, stage).stage = stage /\ Job(who, stage).who = who
  BY DEF Job, JobType, Stages
<1>2. jobs \in Seq(JobType)
  BY DEF TypeOK
<1> QED
  BY <1>1, <1>2
\* A caller that goes on, or cancels, leaves the requests and answers alone;
\* it ends no thread but one that has not begun.
LEMMA CallerStep ==
    ASSUME TypeOK, CancelExecution \/ \E c \in Callers : Return(c) \/ Deadline(c)
    PROVE  /\ jobs' \in Seq(JobType) /\ Len(jobs') = Len(jobs) /\ DOMAIN jobs' = DOMAIN jobs
           /\ \A k \in DOMAIN jobs :
                 /\ jobs'[k].who = jobs[k].who /\ jobs'[k].answer = jobs[k].answer
                 /\ \/ jobs'[k].stage = jobs[k].stage
                    \/ jobs[k].stage = "submitted" /\ jobs'[k].stage = "never"
           /\ UNCHANGED <<client, server, boot, closing>>
<1>0. /\ jobs \in Seq(JobType) /\ \A j \in DOMAIN jobs : jobs[j] \in JobType
      /\ Len(jobs) \in Nat /\ DOMAIN jobs = 1..Len(jobs)
      /\ \A c \in Callers : busy[c] \in 0..Len(jobs)
      /\ active \in 0..Len(jobs)
  BY DEF TypeOK
<1> DEFINE CallerGoal ==
          \E j \in DOMAIN jobs, r \in JobType :
             /\ jobs' = [jobs EXCEPT ![j] = r]
             /\ r.who = jobs[j].who /\ r.answer = jobs[j].answer
             /\ r.stage = jobs[j].stage \/ (jobs[j].stage = "submitted" /\ r.stage = "never")
             /\ UNCHANGED <<client, server, boot, closing>>
<1>1. SUFFICES CallerGoal
  BY Changed
<1>2. ASSUME NEW c \in Callers, Return(c) PROVE CallerGoal
  <2> DEFINE j == busy[c]
  <2>1. j \in DOMAIN jobs
    BY <1>0, <1>2 DEF Return
  <2>2. Reported(jobs[j].stage) \in {"ok", "timeout", "execution"}
    BY DEF Reported
  <2> DEFINE r == [jobs[j] EXCEPT !.obs = Reported(jobs[j].stage)]
  <2>3. r \in JobType /\ r.who = jobs[j].who /\ r.answer = jobs[j].answer /\ r.stage = jobs[j].stage
    BY <1>0, <2>1, <2>2 DEF JobType
  <2>4. jobs' = [jobs EXCEPT ![j] = r] /\ UNCHANGED <<client, server, boot, closing>>
    BY <1>2 DEF Return
  <2> QED
    BY <2>1, <2>3, <2>4
<1>3. ASSUME NEW c \in Callers, Deadline(c) PROVE CallerGoal
  <2> DEFINE j == busy[c]
  <2>0. j # 0
    BY <1>3 DEF Deadline
  <2>1. j \in DOMAIN jobs
    BY <1>0, <2>0
  <2> DEFINE stage == IF jobs[j].stage = "submitted" THEN "never" ELSE jobs[j].stage
  <2> DEFINE r == [jobs[j] EXCEPT !.obs = "timeout", !.cancelled = TRUE, !.stage = stage]
  <2>2. stage \in Stages
    BY <1>0, <2>1 DEF JobType, Stages, Ended
  <2>3. r \in JobType /\ r.who = jobs[j].who /\ r.answer = jobs[j].answer /\ r.stage = stage
    BY <1>0, <2>1, <2>2 DEF JobType
  <2>4. jobs' = [jobs EXCEPT ![j] = r] /\ UNCHANGED <<client, server, boot, closing>>
    <3>1. /\ jobs' = [jobs EXCEPT ![j].obs = "timeout", ![j].cancelled = TRUE, ![j].stage = stage]
          /\ UNCHANGED <<client, server, boot, closing>>
      BY <1>3 DEF Deadline
    <3> HIDE DEF stage
    <3> QED
      BY <3>1
  <2> QED
    BY <2>1, <2>3, <2>4
<1>4. CASE CancelExecution
  <2> DEFINE r == [jobs[active] EXCEPT !.cancelled = TRUE]
  <2>1. active \in DOMAIN jobs
    BY <1>0, <1>4 DEF CancelExecution
  <2>2. r \in JobType /\ r.who = jobs[active].who /\ r.answer = jobs[active].answer
        /\ r.stage = jobs[active].stage
    BY <1>0, <2>1 DEF JobType
  <2>3. jobs' = [jobs EXCEPT ![active] = r] /\ UNCHANGED <<client, server, boot, closing>>
    BY <1>4 DEF CancelExecution
  <2> QED
    BY <2>1, <2>2, <2>3
<1> QED
  BY <1>2, <1>3, <1>4
----------------------------------------------------------------------------
(* Types.                                                                   *)

ClientType(n) == [proc : BOOLEAN, lock : 0..n]
LineType(n) == [id : 0..n, ok : BOOLEAN]
ServerType(n) ==
    [alive : BOOLEAN, inbox : Seq(1..n), outbox : Seq(LineType(n)), performed : SUBSET (1..n), notes : Nat]
Boots == {"down", "initialize", "list", "ready", "empty", "failed"}

\* The parts of the type invariant, by the number of jobs.
LEMMA TypeParts ==
    TypeOK <=> /\ jobs \in Seq(JobType)
               /\ busy \in [Callers -> 0..Len(jobs)] /\ active \in 0..Len(jobs)
               /\ client \in ClientType(Len(jobs)) /\ server \in ServerType(Len(jobs))
               /\ boot \in Boots /\ closing \in BOOLEAN
<1>1. jobs \in Seq(JobType) => DOMAIN jobs = 1..Len(jobs)
  OBVIOUS
<1> QED
  BY <1>1 DEF TypeOK, ClientType, ServerType, LineType, Boots

\* The same of the next state.
LEMMA TypesParted ==
    ASSUME jobs' \in Seq(JobType),
           busy' \in [Callers -> 0..Len(jobs')], active' \in 0..Len(jobs'),
           client' \in ClientType(Len(jobs')), server' \in ServerType(Len(jobs')),
           boot' \in Boots, closing' \in BOOLEAN
    PROVE  TypeOK'
<1>1. DOMAIN jobs' = 1..Len(jobs')
  OBVIOUS
<1> QED
  BY <1>1 DEF TypeOK, ClientType, ServerType, LineType, Boots

\* What is typed for some jobs is typed for more.
LEMMA TypesGrow ==
    ASSUME NEW m \in Nat, NEW n \in Nat, m <= n
    PROVE  ClientType(m) \subseteq ClientType(n) /\ ServerType(m) \subseteq ServerType(n)
<1>1. 0..m \subseteq 0..n /\ 1..m \subseteq 1..n
  OBVIOUS
<1>2. LineType(m) \subseteq LineType(n)
  BY <1>1 DEF LineType
<1>3. Seq(1..m) \subseteq Seq(1..n) /\ Seq(LineType(m)) \subseteq Seq(LineType(n))
      /\ SUBSET (1..m) \subseteq SUBSET (1..n)
  BY <1>1, <1>2
<1>4. ClientType(m) \subseteq ClientType(n)
  BY <1>1 DEF ClientType
<1>5. ServerType(m) \subseteq ServerType(n)
  BY <1>3 DEF ServerType
<1> QED
  BY <1>4, <1>5

\* The types hold at the beginning.
LEMMA TypeInit == Init => TypeOK
<1> SUFFICES ASSUME Init PROVE TypeOK
  OBVIOUS
<1>1. jobs \in Seq(JobType) /\ Len(jobs) = 0 /\ boot \in Boots /\ closing \in BOOLEAN
  <2>1. jobs = <<>> /\ boot = "down" /\ closing = FALSE
    BY DEF Init
  <2>2. <<>> \in Seq(JobType) /\ Len(<<>>) = 0
    OBVIOUS
  <2>3. "down" \in Boots
    BY DEF Boots
  <2> QED
    BY <2>1, <2>2, <2>3
<1>2. busy \in [Callers -> 0..0] /\ active \in 0..0
  BY DEF Init
<1>3. client \in ClientType(0) /\ server \in ServerType(0)
  BY DEF Init, ClientType, ServerType
<1> QED
  BY <1>1, <1>2, <1>3, TypeParts

\* A step keeps them.
LEMMA TypeStep == TypeOK /\ [Next]_vars => TypeOK'
<1> SUFFICES ASSUME TypeOK, [Next]_vars PROVE TypeOK'
  OBVIOUS
<1> DEFINE n == Len(jobs)
<1>0. /\ jobs \in Seq(JobType) /\ n \in Nat /\ DOMAIN jobs = 1..n
      /\ busy \in [Callers -> 0..n] /\ active \in 0..n
      /\ client \in ClientType(n) /\ server \in ServerType(n)
      /\ boot \in Boots /\ closing \in BOOLEAN
  BY TypeParts
<1>a. ASSUME NEW who \in Callers \cup {Nobody}, NEW stage \in {"new", "queued"},
             jobs' = Append(jobs, Job(who, stage))
      PROVE  /\ jobs' \in Seq(JobType) /\ Len(jobs') = n + 1
             /\ busy \in [Callers -> 0..n + 1] /\ active \in 0..n + 1
             /\ ClientType(n) \subseteq ClientType(n + 1) /\ ServerType(n) \subseteq ServerType(n + 1)
  <2>1. jobs' \in Seq(JobType) /\ Len(jobs') = n + 1
    BY <1>a, Added
  <2>2. ClientType(n) \subseteq ClientType(n + 1) /\ ServerType(n) \subseteq ServerType(n + 1)
    BY <1>0, TypesGrow
  <2>3. 0..n \subseteq 0..n + 1
    BY <1>0
  <2> QED
    BY <1>0, <2>1, <2>2, <2>3
<1>1. CASE Start
  <2>1. client' \in ClientType(n) /\ server' \in ServerType(n)
    BY <1>0, <1>1 DEF Start, ClientType, ServerType
  <2>2. jobs' = Append(jobs, Job(Nobody, "queued")) /\ UNCHANGED <<busy, active, closing>>
        /\ boot' \in Boots
    BY <1>1 DEF Start, Boots
  <2> QED
    BY <1>0, <1>a, <2>1, <2>2, TypesParted
<1>2. CASE Initialized
  <2>1. CASE UNCHANGED jobs
    BY <1>2, <2>1 DEF Initialized, TypeOK
  <2>2. CASE jobs' = Append(jobs, Job(Nobody, "queued"))
    <3>1. UNCHANGED <<busy, active, client, server, closing>> /\ boot' \in Boots
      BY <1>2 DEF Initialized, Boots
    <3> QED
      BY <1>0, <1>a, <2>2, <3>1, TypesParted
  <2> QED
    BY <1>2, <2>1, <2>2 DEF Initialized
<1>3. CASE Listed
  BY <1>3 DEF Listed, TypeOK
<1>4. ASSUME NEW c \in Callers, Execute(c) PROVE TypeOK'
  <2>1. jobs' = Append(jobs, Job(c, "new")) /\ UNCHANGED <<client, server, boot, closing>>
    BY <1>4 DEF Execute
  <2>2. Len(jobs') = n + 1 /\ n + 1 \in 0..n + 1
    BY <1>0, <1>a, <2>1
  <2>3. busy' \in [Callers -> 0..n + 1] /\ active' \in 0..n + 1
    BY <1>4, <1>a, <2>1, <2>2 DEF Execute
  <2> QED
    BY <1>0, <1>a, <2>1, <2>2, <2>3, TypesParted
<1>5. CASE CancelExecution \/ \E c \in Callers : Return(c) \/ Deadline(c)
  <2>1. busy' \in [Callers -> 0..n] /\ active' \in 0..n
    <3>1. CASE CancelExecution
      BY <1>0, <3>1 DEF CancelExecution
    <3>2. ASSUME NEW c \in Callers, Return(c) \/ Deadline(c)
          PROVE  busy' \in [Callers -> 0..n] /\ active' \in 0..n
      <4>1. busy' = [busy EXCEPT ![c] = 0] /\ active' = 0
        BY <3>2 DEF Return, Deadline
      <4> QED
        BY <1>0, <4>1
    <3> QED
      BY <1>5, <3>1, <3>2
  <2>2. jobs' \in Seq(JobType) /\ Len(jobs') = n /\ UNCHANGED <<client, server, boot, closing>>
    BY <1>5, CallerStep
  <2> QED
    BY <1>0, <2>1, <2>2, TypesParted
<1>6. ASSUME NEW j \in DOMAIN jobs, ThreadStep(j) \/ Take(j) PROVE TypeOK'
  <2>0. /\ jobs' \in Seq(JobType) /\ Len(jobs') = n /\ UNCHANGED <<busy, active, boot, closing>>
    BY <1>6, Moved
  <2>1. client' \in ClientType(n)
    <3>1. j \in 0..n /\ 0 \in 0..n
      BY <1>0
    <3>2. \/ UNCHANGED client \/ client' = [client EXCEPT !.lock = j] \/ client' = [client EXCEPT !.lock = 0]
          \/ client' = [proc |-> FALSE, lock |-> 0]
      BY <1>6 DEF ThreadStep, Submit, Begin, Acquire, Send, SendBlocks, SendFails, Take, Written,
                  ReadLine, ReadFails, ReadTimesOut, Stopped, Finish
    <3>3. [client EXCEPT !.lock = j] \in ClientType(n) /\ [client EXCEPT !.lock = 0] \in ClientType(n)
      BY <1>0, <3>1 DEF ClientType
    <3>4. [proc |-> FALSE, lock |-> 0] \in ClientType(n)
      BY <3>1 DEF ClientType
    <3> QED
      BY <1>0, <3>2, <3>3, <3>4
  <2>2. server' \in ServerType(n)
    <3>1. CASE Send(j) \/ Take(j)
      <4>1. Append(server.inbox, j) \in Seq(1..n)
        BY <1>0 DEF ServerType
      <4> QED
        BY <1>0, <3>1, <4>1 DEF Send, Take, Written, ServerType
    <3>2. CASE ReadLine(j)
      <4>1. Tail(server.outbox) \in Seq(LineType(n))
        BY <3>2, Lines DEF ReadLine, LineType
      <4> QED
        BY <1>0, <3>2, <4>1 DEF ReadLine, ServerType
    <3>3. CASE ReadTimesOut(j)
      BY <1>0, <3>3 DEF ReadTimesOut, ServerType
    <3>4. CASE UNCHANGED server
      BY <1>0, <3>4
    <3> QED
      BY <1>6, <3>1, <3>2, <3>3, <3>4
         DEF ThreadStep, Submit, Begin, Acquire, SendBlocks, SendFails, ReadFails, Stopped
  <2> QED
    BY <1>0, <2>0, <2>1, <2>2, TypesParted
<1>7. CASE Close \/ Closed
  BY <1>7 DEF Close, Closed, TypeOK
<1>8. CASE Serve \/ Notify \/ ServerDies
  <2>1. server' \in ServerType(n)
    <3>1. CASE Serve
      <4>1. PICK ok \in BOOLEAN :
              server' = [server EXCEPT !.inbox = Tail(@), !.performed = @ \cup {Head(server.inbox)},
                                       !.outbox = Append(@, [id |-> Head(server.inbox), ok |-> ok])]
        BY <3>1 DEF Serve
      <4>2. Head(server.inbox) \in 1..n /\ Tail(server.inbox) \in Seq(1..n)
        BY <1>0, <3>1, Lines DEF Serve
      <4>3. Append(server.outbox, [id |-> Head(server.inbox), ok |-> ok]) \in Seq(LineType(n))
        BY <1>0, <4>2 DEF ServerType, LineType
      <4> QED
        BY <1>0, <4>1, <4>2, <4>3 DEF ServerType
    <3>2. CASE Notify
      <4>1. Append(server.outbox, [id |-> 0, ok |-> TRUE]) \in Seq(LineType(n))
        BY <1>0 DEF ServerType, LineType
      <4>2. server.notes + 1 \in Nat
        BY <1>0 DEF ServerType
      <4> QED
        BY <1>0, <3>2, <4>1, <4>2 DEF Notify, ServerType
    <3>3. CASE ServerDies
      BY <1>0, <3>3 DEF ServerDies, ServerType
    <3> QED
      BY <1>8, <3>1, <3>2, <3>3
  <2>2. UNCHANGED <<jobs, busy, active, client, boot, closing>>
    BY <1>8 DEF Serve, Notify, ServerDies
  <2> QED
    BY <1>0, <2>1, <2>2, TypesParted
<1>9. CASE UNCHANGED vars
  BY <1>9 DEF vars, TypeOK
<1> QED
  BY <1>1, <1>2, <1>3, <1>4, <1>5, <1>6, <1>7, <1>8, <1>9 DEF Next

----------------------------------------------------------------------------
(* The lock and the tokens.                                                 *)

\* LockHeld is inductive: only the thread that holds the lock is under way.
LEMMA LockStep == TypeOK /\ LockHeld /\ [Next]_vars => LockHeld'
<1> SUFFICES ASSUME TypeOK, LockHeld, [Next]_vars PROVE LockHeld'
  OBVIOUS
<1> DEFINE Way == {"sending", "writing", "reading", "stopping"}
<1>0. /\ \A k \in DOMAIN jobs : jobs[k].stage \in Way <=> client.lock = k
      /\ client \in ClientType(Len(jobs)) /\ Len(jobs) \in Nat /\ 0 \notin DOMAIN jobs
  BY TypeParts DEF LockHeld
<1>a. ASSUME NEW who \in Callers \cup {Nobody}, NEW stage \in {"new", "queued"},
             jobs' = Append(jobs, Job(who, stage)), client'.lock = client.lock
      PROVE  LockHeld'
  <2>1. client.lock \in 0..Len(jobs)
    BY <1>0 DEF ClientType
  <2> QED
    BY <1>0, <1>a, <2>1, Added DEF LockHeld
<1>1. CASE Start
  <2>1. client'.lock = client.lock /\ jobs' = Append(jobs, Job(Nobody, "queued"))
    BY <1>0, <1>1 DEF Start, ClientType
  <2> QED
    BY <1>a, <2>1
<1>2. CASE Initialized
  BY <1>2, <1>a DEF Initialized, LockHeld
<1>3. ASSUME NEW c \in Callers, Execute(c) PROVE LockHeld'
  BY <1>3, <1>a DEF Execute
<1>4. CASE CancelExecution \/ \E c \in Callers : Return(c) \/ Deadline(c)
  BY <1>0, <1>4, CallerStep DEF LockHeld
<1>5. ASSUME NEW j \in DOMAIN jobs, ThreadStep(j) \/ Take(j) PROVE LockHeld'
  <2>0. /\ jobs \in Seq(JobType) /\ jobs[j] \in JobType /\ DOMAIN jobs' = DOMAIN jobs
        /\ \A k \in DOMAIN jobs : k # j => jobs'[k] = jobs[k]
    BY <1>5, Moved DEF TypeOK
  <2>1. CASE Submit(j) \/ Begin(j) \/ Send(j) \/ SendBlocks(j) \/ Take(j) \/ ReadTimesOut(j)
    <3>1. client' = client /\ (jobs'[j].stage \in Way <=> jobs[j].stage \in Way)
      BY <2>0, <2>1 DEF Submit, Begin, Send, SendBlocks, Take, Written, ReadTimesOut, JobType
    <3> QED
      BY <1>0, <2>0, <3>1 DEF LockHeld
  <2>2. CASE Acquire(j)
    <3>1. client.lock = 0 /\ client'.lock = j /\ jobs'[j].stage \in Way
      BY <1>0, <2>0, <2>2 DEF Acquire, JobType, ClientType
    <3> QED
      BY <1>0, <2>0, <3>1 DEF LockHeld
  <2>3. CASE SendFails(j) \/ ReadLine(j) \/ ReadFails(j) \/ Stopped(j)
    <3>1. jobs[j].stage \in Way
      BY <2>3 DEF SendFails, ReadLine, ReadFails, Stopped
    <3>2. client'.lock = 0
      BY <1>0, <2>3 DEF SendFails, ReadLine, ReadFails, Stopped, Finish, ClientType
    <3>3. jobs'[j].stage \notin Way
      BY <2>0, <2>3 DEF SendFails, ReadLine, ReadFails, Stopped, Finish, JobType
    <3> QED
      BY <1>0, <2>0, <3>1, <3>2, <3>3 DEF LockHeld
  <2> QED
    BY <1>5, <2>1, <2>2, <2>3 DEF ThreadStep
<1>6. CASE Listed \/ Close \/ Serve \/ Notify \/ ServerDies \/ UNCHANGED vars
  BY <1>6 DEF Listed, Close, Serve, Notify, ServerDies, vars, LockHeld
<1>7. CASE Closed
  <2>1. client'.lock = client.lock /\ UNCHANGED jobs
    BY <1>0, <1>7 DEF Closed, ClientType
  <2> QED
    BY <2>1 DEF LockHeld
<1> QED
  BY <1>1, <1>2, <1>3, <1>4, <1>5, <1>6, <1>7 DEF Next

\* NoStaleToken is inductive: the slot is emptied by whoever returns.
LEMMA TokenStep == TypeOK /\ NoStaleToken /\ [Next]_vars => NoStaleToken'
<1> SUFFICES ASSUME TypeOK, NoStaleToken, [Next]_vars PROVE NoStaleToken'
  OBVIOUS
<1>0. /\ active # 0 => jobs[active].who # Nobody /\ busy[jobs[active].who] = active
      /\ jobs \in Seq(JobType) /\ DOMAIN jobs = 1..Len(jobs) /\ active \in 0..Len(jobs)
      /\ Len(jobs) \in Nat
  BY DEF NoStaleToken, IsWaiting, TypeOK
<1>a. ASSUME UNCHANGED <<busy, active>>,
             \A k \in DOMAIN jobs : jobs'[k].who = jobs[k].who
      PROVE  NoStaleToken'
  BY <1>0, <1>a DEF NoStaleToken, IsWaiting
<1>1. CASE Start \/ Initialized
  <2>1. UNCHANGED <<busy, active>>
    BY <1>1 DEF Start, Initialized
  <2>2. \A k \in DOMAIN jobs : jobs'[k] = jobs[k]
    BY <1>1, Added DEF Start, Initialized
  <2> QED
    BY <1>a, <2>1, <2>2
<1>2. ASSUME NEW c \in Callers, Execute(c) PROVE NoStaleToken'
  <2>1. Len(jobs') = Len(jobs) + 1 /\ jobs'[Len(jobs')].who = c
    BY <1>2, Added DEF Execute
  <2>2. active' = Len(jobs') /\ busy'[c] = Len(jobs')
    BY <1>2 DEF Execute, TypeOK
  <2> QED
    BY <2>1, <2>2 DEF NoStaleToken, IsWaiting
<1>3. ASSUME NEW c \in Callers, Return(c) \/ Deadline(c) PROVE NoStaleToken'
  BY <1>3 DEF Return, Deadline, NoStaleToken
<1>4. CASE CancelExecution
  <2>1. \A k \in DOMAIN jobs : jobs'[k].who = jobs[k].who
    BY <1>4, CallerStep
  <2> QED
    BY <1>4, <1>a, <2>1 DEF CancelExecution
<1>5. ASSUME NEW j \in DOMAIN jobs, ThreadStep(j) \/ Take(j) PROVE NoStaleToken'
  <2>1. \A k \in DOMAIN jobs : jobs'[k].who = jobs[k].who
    BY <1>5, Moved
  <2> QED
    BY <1>5, <1>a, <2>1, Moved
<1>6. CASE Listed \/ Close \/ Closed \/ Serve \/ Notify \/ ServerDies \/ UNCHANGED vars
  <2>1. UNCHANGED <<jobs, busy, active>>
    BY <1>6 DEF Listed, Close, Closed, Serve, Notify, ServerDies, vars
  <2> QED
    BY <1>a, <2>1
<1> QED
  BY <1>1, <1>2, <1>3, <1>4, <1>5, <1>6 DEF Next

----------------------------------------------------------------------------
(* The pipes.                                                               *)

\* A server that lives is the one the client knows, and one that is being
\* stopped is dead: from then on no request is sent.
ServerInv ==
    /\ boot = "down" => /\ jobs = <<>> /\ ~closing /\ ~server.alive
                        /\ server.inbox = <<>> /\ server.outbox = <<>>
    /\ server.alive => client.proc /\ ~closing
    /\ \A j \in DOMAIN jobs : jobs[j].stage = "stopping" => ~server.alive

\* The request of j, or the response to it, is all there is in the pipes.
Carries(j) ==
    \/ server.inbox = <<j>> /\ server.outbox = <<>>
    \/ /\ server.inbox = <<>> /\ server.outbox # <<>> /\ Tail(server.outbox) = <<>>
       /\ Head(server.outbox).id = j /\ j \in server.performed

\* While the server writes only responses, the pipes hold the request under way
\* and nothing else; without one they are empty as long as the server lives.
PipeInv ==
    server.notes = 0 =>
        /\ \A j \in DOMAIN jobs : jobs[j].stage = "reading" => Carries(j)
        /\ server.alive =>
              \/ server.inbox = <<>> /\ server.outbox = <<>>
              \/ \E j \in DOMAIN jobs : jobs[j].stage = "reading"

IInv == TypeOK /\ LockHeld /\ ServerInv /\ PipeInv /\ AnswersMatch

\* What the lemmas below take from the invariant.
LEMMA Facts ==
    ASSUME IInv
    PROVE  /\ jobs \in Seq(JobType) /\ \A k \in DOMAIN jobs : jobs[k] \in JobType
           /\ Len(jobs) \in Nat /\ DOMAIN jobs = 1..Len(jobs)
           /\ client \in ClientType(Len(jobs)) /\ server \in ServerType(Len(jobs))
           /\ \A j, k \in DOMAIN jobs :
                 jobs[j].stage \in {"sending", "writing", "reading", "stopping"}
                 /\ jobs[k].stage \in {"sending", "writing", "reading", "stopping"} => j = k
<1>1. TypeOK /\ LockHeld
  BY DEF IInv
<1>2. jobs \in Seq(JobType) /\ client \in ClientType(Len(jobs)) /\ server \in ServerType(Len(jobs))
  BY <1>1, TypeParts
<1>3. \A j, k \in DOMAIN jobs :
         jobs[j].stage \in {"sending", "writing", "reading", "stopping"}
         /\ jobs[k].stage \in {"sending", "writing", "reading", "stopping"} => j = k
  BY <1>1 DEF LockHeld
<1> QED
  BY <1>2, <1>3

\* Nothing is sent to a server that was not started or is being stopped.
LEMMA ServerStep == IInv /\ [Next]_vars => ServerInv'
<1> SUFFICES ASSUME IInv, [Next]_vars PROVE ServerInv'
  OBVIOUS
<1>0. TypeOK /\ ServerInv
  BY DEF IInv
<1>1. CASE Start
  <2>1. jobs = <<>> /\ ~closing /\ boot' = "initialize" /\ closing' = closing
    BY <1>0, <1>1 DEF Start, ServerInv
  <2>2. client'.proc
    BY <1>1, Facts DEF Start, ClientType
  <2>3. jobs'[1].stage = "queued" /\ DOMAIN jobs' = {1}
    BY <1>0, <1>1, <2>1, Added DEF Start
  <2> QED
    BY <2>1, <2>2, <2>3 DEF ServerInv
<1>a. ASSUME NEW who \in Callers \cup {Nobody}, NEW stage \in {"new", "queued"},
             jobs' = Append(jobs, Job(who, stage)), UNCHANGED <<client, server, closing>>, boot' # "down"
      PROVE  ServerInv'
  BY <1>0, <1>a, Added DEF ServerInv
<1>2. CASE Initialized
  BY <1>0, <1>2, <1>a DEF Initialized, ServerInv
<1>3. CASE Listed
  BY <1>0, <1>3 DEF Listed, ServerInv
<1>4. ASSUME NEW c \in Callers, Execute(c) PROVE ServerInv'
  BY <1>4, <1>a DEF Execute
<1>5. CASE CancelExecution \/ \E c \in Callers : Return(c) \/ Deadline(c)
  <2>1. boot # "down"
    <3>1. active # 0 \/ \E c \in Callers : busy[c] # 0
      BY <1>5 DEF CancelExecution, Return, Deadline
    <3>2. active \in 0..Len(jobs) /\ \A c \in Callers : busy[c] \in 0..Len(jobs)
      BY <1>0 DEF TypeOK
    <3>3. Len(jobs) # 0
      BY <3>1, <3>2
    <3>4. boot = "down" => jobs = <<>>
      BY <1>0 DEF ServerInv
    <3> QED
      BY <3>3, <3>4
  <2> QED
    BY <1>0, <1>5, <2>1, CallerStep DEF ServerInv
<1>6. ASSUME NEW j \in DOMAIN jobs, ThreadStep(j) \/ Take(j) PROVE ServerInv'
  <2>0. /\ boot # "down" /\ boot' = boot /\ closing' = closing /\ DOMAIN jobs' = DOMAIN jobs
        /\ \A k \in DOMAIN jobs : k # j => jobs'[k] = jobs[k]
    BY <1>0, <1>6, Moved DEF ServerInv
  <2>1. CASE Stopped(j)
    <3>1. ~server.alive /\ server' = server
      BY <1>0, <2>1 DEF Stopped, ServerInv
    <3> QED
      BY <2>0, <3>1 DEF ServerInv
  <2>2. CASE ReadTimesOut(j)
    <3>1. ~server'.alive
      BY <1>0, <2>2, Facts DEF ReadTimesOut, ServerInv, ServerType
    <3> QED
      BY <2>0, <3>1 DEF ServerInv
  <2>3. CASE \/ Submit(j) \/ Begin(j) \/ Acquire(j) \/ Send(j) \/ SendBlocks(j) \/ SendFails(j)
             \/ Take(j) \/ ReadLine(j) \/ ReadFails(j)
    <3>1. client'.proc = client.proc
      BY <2>3, Facts DEF Submit, Begin, Acquire, Send, SendBlocks, SendFails, Take, Written, ReadLine,
                         ReadFails, Finish, ClientType
    <3>2. server'.alive = server.alive
      BY <2>3, Facts DEF Submit, Begin, Acquire, Send, SendBlocks, SendFails, Take, Written, ReadLine,
                         ReadFails, ServerType
    <3>3. jobs'[j].stage # "stopping"
      BY <1>6, <2>3, Facts DEF Submit, Begin, Acquire, Send, SendBlocks, SendFails, Take, Written, ReadLine,
                               ReadFails, Finish, JobType
    <3> QED
      BY <1>0, <2>0, <3>1, <3>2, <3>3 DEF ServerInv
  <2> QED
    BY <1>6, <2>1, <2>2, <2>3 DEF ThreadStep
<1>7. CASE Close \/ Closed
  <2>1. ~server'.alive /\ UNCHANGED <<jobs, boot>>
    BY <1>0, <1>7, Facts DEF Close, Closed, ServerInv, ServerType
  <2>2. boot # "down"
    BY <1>0, <1>7 DEF Close, Closed, ServerInv
  <2> QED
    BY <2>1, <2>2 DEF ServerInv
<1>8. CASE Serve \/ Notify \/ ServerDies
  <2>1. server.alive /\ (server'.alive => server.alive) /\ UNCHANGED <<jobs, client, boot, closing>>
    BY <1>8, Facts DEF Serve, Notify, ServerDies, ServerType
  <2>2. (server'.alive => client'.proc /\ ~closing') /\ boot' # "down"
    BY <1>0, <2>1 DEF ServerInv
  <2>3. \A j \in DOMAIN jobs' : jobs'[j].stage = "stopping" => ~server'.alive
    BY <1>0, <2>1 DEF ServerInv
  <2> QED
    BY <2>2, <2>3 DEF ServerInv
<1>9. CASE UNCHANGED vars
  BY <1>0, <1>9 DEF vars, ServerInv
<1> QED
  BY <1>1, <1>2, <1>3, <1>4, <1>5, <1>6, <1>7, <1>8, <1>9 DEF Next

\* The pipes hold one request, and what is read is the response to it.
LEMMA PipeStep == IInv /\ [Next]_vars => PipeInv' /\ AnswersMatch'
<1> SUFFICES ASSUME IInv, [Next]_vars, server'.notes = 0 PROVE PipeInv' /\ AnswersMatch'
  BY DEF PipeInv, AnswersMatch
<1>0. TypeOK /\ ServerInv
  BY DEF IInv
<1> DEFINE Answered(j) == jobs[j].stage \in {"ok", "error"} => jobs[j].answer = j /\ j \in server.performed
           Reads(j) == jobs[j].stage = "reading"
           Idle == server.inbox = <<>> /\ server.outbox = <<>>
<1>n. ~Notify
  <2>1. server.notes + 1 # 0 /\ server \in ServerType(Len(jobs))
    BY Facts DEF ServerType
  <2>2. Notify => server'.notes = server.notes + 1
    BY <2>1 DEF Notify, ServerType
  <2> QED
    BY <2>1, <2>2
<1>b. server.notes = 0
  <2>1. CASE UNCHANGED server
    BY <2>1
  <2>2. CASE Start \/ Close \/ Serve \/ ServerDies
    BY <2>2, Facts DEF Start, Close, Serve, ServerDies, ServerType
  <2>3. ASSUME NEW j \in DOMAIN jobs, Send(j) \/ Take(j) \/ ReadLine(j) \/ ReadTimesOut(j)
        PROVE  server.notes = 0
    BY <2>3, Facts DEF Send, Take, Written, ReadLine, ReadTimesOut, ServerType
  <2> QED
    BY <1>n, <2>1, <2>2, <2>3
       DEF Next, vars, Initialized, Listed, Execute, Return, Deadline, CancelExecution, ThreadStep,
           Submit, Begin, Acquire, SendBlocks, SendFails, ReadFails, Stopped, Closed
<1>c. /\ \A j \in DOMAIN jobs : Reads(j) => Carries(j)
      /\ server.alive => Idle \/ \E j \in DOMAIN jobs : Reads(j)
      /\ \A j \in DOMAIN jobs : Answered(j)
  BY <1>b DEF IInv, PipeInv, AnswersMatch
<1> DEFINE Goal == /\ \A j \in DOMAIN jobs' : Reads(j)' => Carries(j)'
                   /\ server'.alive => Idle' \/ \E j \in DOMAIN jobs' : Reads(j)'
                   /\ \A j \in DOMAIN jobs' : Answered(j)'
<1> SUFFICES Goal
  BY DEF PipeInv, AnswersMatch
\* A step that leaves the pipes alone, and moves no request but one that has
\* not been sent.
<1>d. ASSUME server'.inbox = server.inbox, server'.outbox = server.outbox,
             server'.performed = server.performed, server'.alive => server.alive,
             \A k \in DOMAIN jobs :
                 /\ k \in DOMAIN jobs'
                 /\ \/ jobs'[k].stage = jobs[k].stage /\ jobs'[k].answer = jobs[k].answer
                    \/ {jobs[k].stage, jobs'[k].stage} \cap {"reading", "ok", "error"} = {},
             \A k \in DOMAIN jobs' \ DOMAIN jobs : jobs'[k].stage \in {"new", "queued"}
      PROVE  Goal
  <2>1. \A k \in DOMAIN jobs :
            /\ jobs'[k].stage = "reading" <=> jobs[k].stage = "reading"
            /\ jobs'[k].stage \in {"ok", "error"} =>
                  jobs[k].stage \in {"ok", "error"} /\ jobs'[k].answer = jobs[k].answer
    BY <1>d
  <2>2. \A k \in DOMAIN jobs' \ DOMAIN jobs : jobs'[k].stage \notin {"reading", "ok", "error"}
    BY <1>d
  <2>3. \A j \in DOMAIN jobs' : Reads(j)' => Carries(j)'
    BY <1>c, <1>d, <2>1, <2>2 DEF Carries
  <2>4. server'.alive => Idle' \/ \E j \in DOMAIN jobs' : Reads(j)'
    BY <1>c, <1>d, <2>1
  <2>5. \A j \in DOMAIN jobs' : Answered(j)'
    BY <1>c, <1>d, <2>1, <2>2
  <2> QED
    BY <2>3, <2>4, <2>5
<1>e. ASSUME NEW who \in Callers \cup {Nobody}, NEW stage \in {"new", "queued"},
             jobs' = Append(jobs, Job(who, stage)), UNCHANGED server
      PROVE  Goal
  <2>1. \A k \in DOMAIN jobs : k \in DOMAIN jobs' /\ jobs'[k] = jobs[k]
    BY <1>0, <1>e, Added
  <2>2. \A k \in DOMAIN jobs' \ DOMAIN jobs : jobs'[k].stage \in {"new", "queued"}
    BY <1>0, <1>e, Added
  <2> QED
    BY <1>d, <1>e, <2>1, <2>2
<1>1. CASE Start
  <2>1. jobs = <<>> /\ Idle
    BY <1>0, <1>1 DEF Start, ServerInv
  <2>2. Idle'
    BY <1>1, <2>1, Facts DEF Start, ServerType
  <2>3. jobs'[1].stage = "queued" /\ DOMAIN jobs' = {1}
    BY <1>0, <1>1, <2>1, Added DEF Start
  <2> QED
    BY <2>2, <2>3
<1>2. CASE Initialized
  BY <1>2, <1>d, <1>e DEF Initialized
<1>3. CASE Listed \/ Closed \/ UNCHANGED vars
  BY <1>3, <1>d DEF Listed, Closed, vars
<1>4. ASSUME NEW c \in Callers, Execute(c) PROVE Goal
  BY <1>4, <1>e DEF Execute
<1>5. CASE CancelExecution \/ \E c \in Callers : Return(c) \/ Deadline(c)
  <2>1. /\ UNCHANGED server /\ DOMAIN jobs' = DOMAIN jobs
        /\ \A k \in DOMAIN jobs : /\ jobs'[k].answer = jobs[k].answer
                                  /\ \/ jobs'[k].stage = jobs[k].stage
                                     \/ jobs[k].stage = "submitted" /\ jobs'[k].stage = "never"
    BY <1>0, <1>5, CallerStep
  <2> QED
    BY <1>d, <2>1
<1>6. ASSUME NEW j \in DOMAIN jobs, ThreadStep(j) \/ Take(j) PROVE Goal
  <2>0. /\ DOMAIN jobs' = DOMAIN jobs /\ jobs \in Seq(JobType) /\ jobs[j] \in JobType
        /\ \A k \in DOMAIN jobs : k # j => jobs'[k] = jobs[k]
    BY <1>0, <1>6, Facts, Moved
  <2>a. jobs[j].stage \in {"sending", "writing", "reading", "stopping"} => \A k \in DOMAIN jobs : k # j => ~Reads(k)
    BY <1>6, Facts
  <2>1. CASE Submit(j) \/ Begin(j) \/ Acquire(j) \/ SendBlocks(j) \/ SendFails(j) \/ Stopped(j)
    <3>1. {jobs[j].stage, jobs'[j].stage} \cap {"reading", "ok", "error"} = {}
      BY <2>0, <2>1 DEF Submit, Begin, Acquire, SendBlocks, SendFails, Stopped, Finish, JobType
    <3>2. UNCHANGED server
      BY <2>1 DEF Submit, Begin, Acquire, SendBlocks, SendFails, Stopped
    <3> QED
      BY <1>d, <2>0, <3>1, <3>2
  <2>2. CASE Send(j) \/ Take(j)
    <3>1. jobs'[j].stage = "reading" /\ jobs[j].stage \in {"sending", "writing"} /\ server.alive
      BY <2>0, <2>2 DEF Send, Take, Written, JobType
    <3>2. Idle
      BY <1>c, <2>a, <3>1
    <3>3. server'.inbox = <<j>> /\ server'.outbox = <<>> /\ server'.performed = server.performed
      BY <2>2, <3>2, Facts DEF Send, Take, Written, ServerType
    <3>4. \A k \in DOMAIN jobs : k # j => ~Reads(k)'
      BY <2>0, <2>a, <3>1
    <3>5. \A k \in DOMAIN jobs' : Reads(k)' => Carries(k)'
      BY <2>0, <3>3, <3>4 DEF Carries
    <3>6. \A k \in DOMAIN jobs' : Answered(k)'
      BY <1>c, <2>0, <3>1, <3>3
    <3> QED
      BY <2>0, <3>1, <3>5, <3>6
  <2>3. CASE ReadLine(j)
    <3>1. jobs[j].stage = "reading" /\ server.outbox # <<>>
      BY <2>3 DEF ReadLine
    <3>2. /\ server.inbox = <<>> /\ Tail(server.outbox) = <<>>
          /\ Head(server.outbox).id = j /\ j \in server.performed
      BY <1>c, <3>1 DEF Carries
    <3>3. Idle' /\ server'.performed = server.performed
      BY <2>3, <3>2, Facts DEF ReadLine, ServerType
    <3>4. jobs'[j].stage \in {"ok", "error"} /\ jobs'[j].answer = j
      BY <2>0, <2>3, <3>2 DEF ReadLine, Finish, JobType
    <3>5. \A k \in DOMAIN jobs' : ~Reads(k)'
      BY <2>0, <2>a, <3>1, <3>4
    <3>6. \A k \in DOMAIN jobs' : Answered(k)'
      BY <1>c, <2>0, <3>2, <3>3, <3>4
    <3> QED
      BY <3>3, <3>5, <3>6
  <2>4. CASE ReadFails(j) \/ ReadTimesOut(j)
    <3>1. jobs[j].stage = "reading" /\ jobs'[j].stage \in {"failed", "stopping"}
      BY <2>0, <2>4 DEF ReadFails, ReadTimesOut, Finish, JobType
    <3>2. ~server'.alive /\ server'.performed = server.performed
      BY <1>0, <2>4, Facts DEF ReadFails, ReadTimesOut, ServerInv, ServerType
    <3>3. \A k \in DOMAIN jobs' : ~Reads(k)'
      BY <2>0, <2>a, <3>1
    <3>4. \A k \in DOMAIN jobs' : Answered(k)'
      BY <1>c, <2>0, <3>1, <3>2
    <3> QED
      BY <3>2, <3>3, <3>4
  <2> QED
    BY <1>6, <2>1, <2>2, <2>3, <2>4 DEF ThreadStep
<1>7. CASE Close \/ ServerDies
  <2>1. /\ UNCHANGED jobs /\ ~server'.alive /\ server'.inbox = server.inbox
        /\ server'.outbox = server.outbox /\ server'.performed = server.performed
    BY <1>7, Facts DEF Close, ServerDies, ServerType
  <2> QED
    BY <1>d, <2>1
<1>8. CASE Serve
  <2>1. server.inbox # <<>> /\ server.alive /\ UNCHANGED jobs
    BY <1>8 DEF Serve
  <2>2. PICK j \in DOMAIN jobs : Reads(j)
    BY <1>c, <2>1
  <2>3. server.inbox = <<j>> /\ server.outbox = <<>>
    BY <1>c, <2>1, <2>2 DEF Carries
  <2>4. PICK ok \in BOOLEAN :
          server' = [server EXCEPT !.inbox = Tail(@), !.performed = @ \cup {Head(server.inbox)},
                                   !.outbox = Append(@, [id |-> Head(server.inbox), ok |-> ok])]
    BY <1>8 DEF Serve
  <2>5. /\ server'.inbox = <<>> /\ server'.performed = server.performed \cup {j}
        /\ server'.outbox = <<[id |-> j, ok |-> ok]>>
    BY <2>3, <2>4, Facts DEF ServerType
  <2>6. Carries(j)'
    BY <2>5 DEF Carries
  <2>7. \A k \in DOMAIN jobs : k # j => ~Reads(k)
    BY <2>2, Facts
  <2> QED
    BY <1>c, <2>1, <2>2, <2>5, <2>6, <2>7
<1> QED
  BY <1>n, <1>1, <1>2, <1>3, <1>4, <1>5, <1>6, <1>7, <1>8 DEF Next

\* The variables have their types.
THEOREM TypesCorrect == Spec => []TypeOK
<1> QED
  BY TypeInit, TypeStep, PTL DEF Spec

\* The lock of MCPClient is held exactly while a request is under way, by its
\* thread, whatever callers have given up on it (mcp_adapter.py, _send_request).
THEOREM LockIsHeld == Spec => []LockHeld
<1>1. Init => LockHeld
  BY DEF Init, LockHeld
<1> QED
  BY <1>1, TypeInit, TypeStep, LockStep, PTL DEF Spec

\* The token that cancel_execution finds is that of a call whose caller waits
\* (executor.py, execute and cancel_execution).
THEOREM TokensCurrent == Spec => []NoStaleToken
<1>1. Init => NoStaleToken
  BY DEF Init, NoStaleToken
<1> QED
  BY <1>1, TypeInit, TypeStep, TokenStep, PTL DEF Spec

\* As long as the server writes nothing but responses, a call that succeeds has
\* the response to its own request, and the server has performed it
\* (mcp_adapter.py, _send_request, _read_response and stop).
THEOREM AnswersAreOwn == Spec => []AnswersMatch
<1>1. Init => IInv
  <2> SUFFICES ASSUME Init PROVE IInv
    OBVIOUS
  <2>1. jobs = <<>> /\ boot = "down" /\ closing = FALSE /\ client.lock = 0
        /\ server.inbox = <<>> /\ server.outbox = <<>> /\ server.alive = FALSE
    BY DEF Init
  <2>2. LockHeld /\ ServerInv /\ PipeInv /\ AnswersMatch
    BY <2>1 DEF LockHeld, ServerInv, PipeInv, AnswersMatch
  <2> QED
    BY <2>2, TypeInit DEF IInv
<1>2. IInv /\ [Next]_vars => IInv'
  BY TypeStep, LockStep, ServerStep, PipeStep DEF IInv
<1>3. IInv => AnswersMatch
  BY DEF IInv
<1> QED
  BY <1>1, <1>2, <1>3, PTL DEF Spec
=============================================================================
