--------------------------- MODULE AgentRunProofs ---------------------------
(***************************************************************************)
(* Proofs about AgentRun for every value of its constants.                  *)
(***************************************************************************)
EXTENDS AgentRunInv, TLAPS, FiniteSetTheorems, SequenceTheorems

USE ConstantsAssumption DEF ConstantsAssumption

LEMMA ToolStepsNat ==
    ASSUME NEW trace \in Seq(Nat) PROVE ToolSteps(trace) \in Nat
<1>1. IsFiniteSet(1..Len(trace))
  BY FS_Interval
<1>2. IsFiniteSet({i \in DOMAIN trace : trace[i] # 0})
  BY <1>1, FS_Subset
<1>3. QED
  BY <1>2, FS_CardinalityType DEF ToolSteps

LEMMA OffType == Off \in EngState
BY DEF EngState, Off, Status, Modes, PendStates, Observations, Action, NoAction

LEMMA FinishType ==
    ASSUME NEW e \in EngState, NEW status \in Status, NEW seq \in Nat
    PROVE  Finish(e, status, seq) \in EngState
BY DEF EngState, Finish

LEMMA LoggedType ==
    ASSUME NEW e \in EngState, NEW id \in Nat
    PROVE  Logged(e, id) \in EngState
<1>1. Append(e.trace, id) \in Seq(Nat)
  BY DEF EngState
<1>2. QED
  BY <1>1 DEF EngState, Logged

LEMMA ContinueType ==
    ASSUME NEW e \in EngState
    PROVE  Continue(e) \in EngState
<1>1. CASE Len(e.batch) > 1
  <2>1. Tail(e.batch) \in Seq(Calls)
    BY <1>1 DEF EngState
  <2>2. QED
    BY <1>1, <2>1 DEF EngState, Continue
<1>2. CASE ~(Len(e.batch) > 1)
  <2>1. e.round + 1 \in Nat /\ <<>> \in Seq(Calls)
    BY DEF EngState
  <2>2. QED
    BY <1>2, <2>1 DEF EngState, Continue
<1>3. QED
  BY <1>1, <1>2

LEMMA ErrorType ==
    ASSUME NEW e \in EngState
    PROVE  AfterError(e) \in EngState
<1>1. CASE e.errors + 1 >= MaxErrors
  <2>1. e.round \in Nat /\ "failed" \in Status
    BY DEF EngState, Status
  <2>2. Finish(e, "failed", e.round) \in EngState
    BY <2>1, FinishType
  <2>3. QED
    BY <1>1, <2>2 DEF AfterError
<1>2. CASE ~(e.errors + 1 >= MaxErrors)
  <2>0. e.errors + 1 \in Nat
    BY DEF EngState
  <2>1. [e EXCEPT !.errors = @ + 1] \in EngState
    BY <2>0 DEF EngState
  <2>2. QED
    BY <1>2, <2>1, ContinueType DEF AfterError
<1>3. QED
  BY <1>1, <1>2

LEMMA CheckpointType ==
    ASSUME NEW e \in EngState, NEW seq \in Nat, saved \in SavedState, Checkpoint(seq, e)
    PROVE  saved' \in SavedState
BY DEF EngState, Checkpoint, SavedState, Action, NoAction, Redacted, Sensitive, PendStates

LEMMA CountedType ==
    ASSUME NEW e \in EngState, e.act.call \in Calls
    PROVE  Counted(e) \in EngState
<1>0. e.taken \in Nat /\ e.counts \in [Calls -> Nat]
  BY DEF EngState
<1>1. e.taken + 1 \in Nat /\ e.counts[e.act.call] + 1 \in Nat
  BY <1>0
<1>2. [e.counts EXCEPT ![e.act.call] = @ + 1] \in [Calls -> Nat]
  BY <1>0, <1>1
<1>3. QED
  BY <1>1, <1>2 DEF EngState, Counted

LEMMA SettledType ==
    ASSUME eng \in EngState
    PROVE  /\ Settled \in EngState
           /\ Settled.trace = Append(eng.trace, eng.act.id)
           /\ Settled.pend = "none"
           /\ Settled.pc = eng.pc /\ Settled.round = eng.round /\ Settled.batch = eng.batch
<1>1. eng.act.id \in Nat
  BY DEF EngState, Action
<1>2. Logged(eng, eng.act.id) \in EngState
  BY <1>1, LoggedType
<1>3. NoAction \in Action /\ "none" \in PendStates /\ "none" \in Observations
  BY DEF NoAction, Action, PendStates, Observations
<1>4. Settled \in EngState
  BY <1>2, <1>3 DEF Settled, EngState
<1>5. /\ Logged(eng, eng.act.id).trace = Append(eng.trace, eng.act.id)
      /\ Logged(eng, eng.act.id).pc = eng.pc
      /\ Logged(eng, eng.act.id).round = eng.round
      /\ Logged(eng, eng.act.id).batch = eng.batch
  BY DEF Logged, EngState
<1>6. QED
  BY <1>2, <1>4, <1>5 DEF Settled, EngState

LEMMA TailLength ==
    ASSUME NEW S, NEW s \in Seq(S), Len(s) > 1
    PROVE  Tail(s) # <<>> /\ Len(Tail(s)) = Len(s) - 1
<1>1. s # <<>>
  OBVIOUS
<1>2. Tail(s) \in Seq(S) /\ Len(Tail(s)) = Len(s) - 1
  BY <1>1, HeadTailProperties
<1>3. Len(Tail(s)) # 0
  <2> DEFINE n == Len(s)
  <2> DEFINE m == Len(Tail(s))
  <2>1. n \in Nat /\ n > 1 /\ m = n - 1
    BY <1>2, LenProperties
  <2> HIDE DEF n, m
  <2>2. m # 0
    BY <2>1
  <2>3. QED
    BY <2>2 DEF m
<1>4. Len(<<>>) = 0
  BY EmptySeq
<1>5. Tail(s) # <<>>
  BY <1>3, <1>4, Zenon
<1>6. QED
  BY <1>2, <1>5, Zenon

\* What a step of the loop does with the rest of the record.
Kept(e, f) ==
    /\ f \in EngState
    /\ f.trace = e.trace /\ f.pend = e.pend /\ f.act = e.act
    /\ f.how = e.how /\ f.loop = e.loop

Continued(e, f) ==
    /\ Kept(e, f)
    /\ \/ f.pc = "dispatch" /\ f.round = e.round /\ Len(e.batch) > 1 /\ f.batch = Tail(e.batch)
       \/ f.pc = "top" /\ f.round = e.round + 1 /\ f.batch = <<>>

Failed(e, f) ==
    /\ Kept(e, f)
    /\ f.pc = "status" /\ f.status = "failed" /\ f.seq = e.round
    /\ f.round = e.round /\ f.batch = e.batch

LEMMA ContinueFields ==
    ASSUME NEW e \in EngState
    PROVE  Continued(e, Continue(e))
<1>1. Continue(e) \in EngState
  BY ContinueType
<1>2. QED
  BY <1>1 DEF EngState, Continue, Continued, Kept

LEMMA FinishFields ==
    ASSUME NEW e \in EngState, NEW status \in Status, NEW seq \in Nat
    PROVE  LET f == Finish(e, status, seq) IN
           /\ Kept(e, f)
           /\ f.pc = "status" /\ f.status = status /\ f.seq = seq
           /\ f.round = e.round /\ f.batch = e.batch
<1>1. Finish(e, status, seq) \in EngState
  BY FinishType
<1>2. QED
  BY <1>1 DEF EngState, Finish, Kept

LEMMA ErrorFields ==
    ASSUME NEW e \in EngState
    PROVE  Continued(e, AfterError(e)) \/ Failed(e, AfterError(e))
<1>1. CASE e.errors + 1 >= MaxErrors
  <2>1. e.round \in Nat /\ "failed" \in Status
    BY DEF EngState, Status
  <2>2. QED
    BY <1>1, <2>1, FinishFields DEF AfterError, Failed
<1>2. CASE ~(e.errors + 1 >= MaxErrors)
  <2> DEFINE g == [e EXCEPT !.errors = @ + 1]
  <2>1. e.errors + 1 \in Nat
    BY DEF EngState
  <2>2. g \in EngState /\ Kept(e, g) /\ g.round = e.round /\ g.batch = e.batch
    BY <2>1 DEF EngState, Kept
  <2>3. Continued(g, Continue(g))
    BY <2>2, ContinueFields
  <2>4. AfterError(e) = Continue(g)
    BY <1>2 DEF AfterError
  <2>5. QED
    BY <2>2, <2>3, <2>4 DEF Continued, Kept
<1>3. QED
  BY <1>1, <1>2

LEMMA SuccessFields ==
    ASSUME NEW e \in EngState
    PROVE  Continued(e, AfterSuccess(e))
<1> DEFINE g == [e EXCEPT !.errors = 0, !.lastFailed = FALSE]
<1>1. g \in EngState /\ Kept(e, g) /\ g.round = e.round /\ g.batch = e.batch
  BY DEF EngState, Kept
<1>2. Continued(g, Continue(g))
  BY <1>1, ContinueFields
<1>3. QED
  BY <1>1, <1>2 DEF Continued, Kept, AfterSuccess

LEMMA TypeInit == Init => TypeOK
<1> SUFFICES ASSUME Init PROVE TypeOK
  OBVIOUS
<1>1. eng \in EngState
  BY OffType DEF Init
<1>2. saved \in SavedState
  BY DEF Init, SavedState, Modes, PendStates, Action, NoAction
<1>3. world \in Seq(Effect) /\ row \in Status
  BY DEF Init, Status
<1>4. hist \in [issued : Nat, resumes : Nat, crashes : Nat, lost : SUBSET Nat,
                fellBack : BOOLEAN, held : BOOLEAN, unresolved : BOOLEAN]
  BY DEF Init
<1>5. QED
  BY <1>1, <1>2, <1>3, <1>4 DEF Init, TypeOK

LEMMA TypeStep == TypeOK /\ ActInv /\ [Next]_vars => TypeOK'
<1> SUFFICES ASSUME TypeOK, ActInv, [Next]_vars PROVE TypeOK'
  OBVIOUS
<1> USE DEF TypeOK
<1>a. /\ eng.round \in Nat /\ eng.round - 1 \in Nat
      /\ {"waiting_approval", "completed", "failed", "cancelled"} \subseteq Status
      /\ MaxSteps \in Nat /\ Len(eng.trace) \in Nat /\ 0 \in Nat
  <2>1. eng.round \in Nat /\ eng.trace \in Seq(Nat) /\ eng.round >= 1
    BY DEF ActInv, EngState
  <2>2. QED
    BY <2>1 DEF Status
<1>b. /\ Logged(eng, 0) \in EngState
      /\ Logged(eng, 0).batch = eng.batch /\ Logged(eng, 0).round = eng.round
  <2>1. Logged(eng, 0) \in EngState
    BY LoggedType, <1>a
  <2>2. QED
    BY <2>1 DEF EngState, Logged
<1>1. CASE RunAsync
  <2>1. eng' \in EngState
    <3>1. PICK m \in Modes, l \in {"portable", "native"} :
            eng' = [Off EXCEPT !.pc = "created", !.mode = m, !.loop = l]
      BY <1>1 DEF RunAsync, Modes
    <3>2. QED
      BY <3>1, OffType DEF EngState
  <2>2. QED
    BY <1>1, <2>1 DEF RunAsync, Status
<1>2. CASE MarkRunning
  BY <1>2 DEF MarkRunning, EngState, Status
<1>3. CASE OpenCheckpoint
  <2>1. saved' \in SavedState
    BY <1>3, <1>a, CheckpointType DEF OpenCheckpoint
  <2>2. QED
    BY <1>3, <2>1 DEF OpenCheckpoint, EngState
<1>4. ASSUME NEW approve \in BOOLEAN, ResumeAsync(approve)
      PROVE TypeOK'
  <2>1. saved.trace \in Seq(Nat) /\ saved.mode \in Modes
    BY DEF SavedState
  <2>2. ToolSteps(saved.trace) \in Nat
    BY <2>1, ToolStepsNat
  <2>3. eng' \in EngState
    <3>1. PICK l \in {"portable", "native"}, h \in {"model", "approved"} :
            eng' = [Off EXCEPT !.pc = "resuming", !.mode = saved.mode, !.trace = saved.trace,
                               !.loop = l, !.taken = ToolSteps(saved.trace), !.how = h]
      BY <1>4 DEF ResumeAsync
    <3>2. QED
      BY <2>1, <2>2, <3>1, OffType DEF EngState
  <2>4. hist.resumes + 1 \in Nat
    OBVIOUS
  <2>5. QED
    BY <1>4, <2>3, <2>4 DEF ResumeAsync, Status
<1>5. CASE ResumeLoop
  <2>1. (IF eng.loop = "native" THEN 1 ELSE Len(eng.trace) + 1) \in Nat
    BY <1>a
  <2>2. eng' \in EngState
    BY <1>5, <2>1 DEF ResumeLoop, EngState
  <2>3. QED
    BY <1>5, <2>2 DEF ResumeLoop
<1>6. CASE ResumeHold
  <2>1. saved.pend \in PendStates /\ saved.act \in Action
    BY DEF SavedState
  <2>2. [eng EXCEPT !.pend = saved.pend, !.act = saved.act] \in EngState
    BY <2>1 DEF EngState
  <2>3. eng' \in EngState
    BY <1>6, <1>a, <2>2, FinishType DEF ResumeHold
  <2>4. QED
    BY <1>6, <2>3 DEF ResumeHold
<1>7. CASE ResumeInFlight
  <2>1. eng' \in EngState
    BY <1>7, <1>a, FinishType DEF ResumeInFlight
  <2>2. QED
    BY <1>7, <2>1 DEF ResumeInFlight
<1>8. CASE ResumeApproved
  <2>1. saved.act \in Action
    BY DEF SavedState
  <2>2. eng' \in EngState
    BY <1>8, <2>1 DEF ResumeApproved, EngState
  <2>3. QED
    BY <1>8, <2>2 DEF ResumeApproved
<1>9. CASE LoopExhausted
  <2>1. eng' \in EngState
    BY <1>9, <1>a, FinishType DEF LoopExhausted
  <2>2. QED
    BY <1>9, <2>1 DEF LoopExhausted
<1>10. CASE Deadline
  <2>1. eng' \in EngState
    BY <1>10, <1>a, FinishType DEF Deadline
  <2>2. QED
    BY <1>10, <2>1 DEF Deadline
<1>11. CASE StopCancelled
  <2>1. eng' \in EngState
    BY <1>11, <1>a, <1>b, FinishType DEF StopCancelled
  <2>2. QED
    BY <1>11, <2>1 DEF StopCancelled
<1>12. CASE ContextError
  <2>1. eng' \in EngState
    BY <1>12, <1>a, <1>b, FinishType DEF ContextError
  <2>2. QED
    BY <1>12, <2>1 DEF ContextError
<1>13. CASE CallModel
  BY <1>13 DEF CallModel, EngState
<1>14. CASE ModelFails
  <2>1. eng' \in EngState
    BY <1>14, <1>b, ErrorType DEF ModelFails
  <2>2. QED
    BY <1>14, <2>1 DEF ModelFails
<1>15. CASE FinalAnswer
  <2>1. eng' \in EngState
    BY <1>15, <1>a, <1>b, FinishType DEF FinalAnswer
  <2>2. QED
    BY <1>15, <2>1 DEF FinalAnswer
<1>16. CASE Fallback
  <2>1. eng' \in EngState
    <3>1. "portable" \in Modes /\ <<>> \in Seq(Nat)
      BY DEF Modes
    <3>2. QED
      BY <1>16, <3>1 DEF Fallback, EngState
  <2>2. QED
    BY <1>16, <2>1 DEF Fallback
<1>17. CASE ToolCalls
  <2>0. PICK n \in 1..(IF eng.loop = "portable" THEN 1 ELSE MaxBatch) :
          \E b \in [1..n -> Calls] : eng' = [eng EXCEPT !.pc = "dispatch", !.batch = b]
    BY <1>17 DEF ToolCalls
  <2>1. PICK b \in [1..n -> Calls] : eng' = [eng EXCEPT !.pc = "dispatch", !.batch = b]
    BY <2>0
  <2>2. b \in Seq(Calls)
    BY <2>1
  <2>3. eng' \in EngState
    BY <2>1, <2>2 DEF EngState
  <2>4. QED
    BY <1>17, <2>3 DEF ToolCalls
<1>18. CASE WriteInFlight
  <2>1. Head(eng.batch) \in Calls /\ hist.issued + 1 \in Nat
    <3>1. eng.batch \in Seq(Calls) /\ eng.batch # <<>> /\ hist.issued \in Nat
      BY <1>18 DEF WriteInFlight, ActInv, EngState
    <3>2. QED
      BY <3>1, SMTT(30)
  <2>2. [call |-> Head(eng.batch), id |-> hist.issued + 1, clear |-> TRUE] \in Action
    BY <2>1 DEF Action
  <2>3. eng' \in EngState
    BY <1>18, <2>2 DEF WriteInFlight, EngState, PendStates
  <2>4. CallSeq \in Nat
    BY <1>a DEF CallSeq
  <2>5. saved' \in SavedState
    BY <1>18, <2>3, <2>4, CheckpointType DEF WriteInFlight
  <2>6. QED
    BY <1>18, <2>1, <2>3, <2>5 DEF WriteInFlight
<1>c. ASSUME eng.pc = "exec", NEW obs \in Observations, Observed(obs)
      PROVE  eng' \in EngState
  <2>1. Counted(eng) \in EngState
    BY <1>c, CountedType DEF ActInv, Executing
  <2>2. QED
    BY <1>c, <2>1 DEF Observed, EngState
<1>19. CASE BudgetBlocks
  <2>1. eng' \in EngState
    BY <1>19, <1>c DEF BudgetBlocks, Observations
  <2>2. QED
    BY <1>19, <2>1 DEF BudgetBlocks
<1>20. CASE ToolRejected
  <2>1. eng' \in EngState
    BY <1>20, <1>c DEF ToolRejected, Observations
  <2>2. QED
    BY <1>20, <2>1 DEF ToolRejected
<1>21. CASE ApprovalDenied
  <2>1. eng' \in EngState
    BY <1>21, <1>c DEF ApprovalDenied, Observations
  <2>2. QED
    BY <1>21, <2>1 DEF ApprovalDenied
<1>22. ASSUME NEW obs \in {"ok", "failed"}, ToolRuns(obs)
       PROVE TypeOK'
  <2>1. eng' \in EngState
    BY <1>22, <1>c DEF ToolRuns, Observations
  <2>2. [call |-> eng.act.call, id |-> eng.act.id, clear |-> eng.act.clear,
         how |-> eng.how] \in Effect
    BY <1>22 DEF ToolRuns, ActInv, Executing, Effect, EngState, Action
  <2>3. world' \in Seq(Effect)
    BY <1>22, <2>2 DEF ToolRuns
  <2>4. QED
    BY <1>22, <2>1, <2>3 DEF ToolRuns
<1>d. /\ Settled \in EngState
      /\ Settled.round = eng.round
      /\ Len(Settled.trace) \in Nat
      /\ eng.act \in Action
      /\ CallSeq \in Nat
  <2>1. Settled \in EngState /\ Settled.round = eng.round
    BY SettledType
  <2>2. Len(Settled.trace) \in Nat
    BY <2>1 DEF EngState
  <2>3. eng.act \in Action
    BY DEF EngState
  <2>4. CallSeq \in Nat
    BY <1>a DEF CallSeq
  <2>5. QED
    BY <2>1, <2>2, <2>3, <2>4
<1>e. Observe => hist' \in [issued : Nat, resumes : Nat, crashes : Nat, lost : SUBSET Nat,
                            fellBack : BOOLEAN, held : BOOLEAN, unresolved : BOOLEAN]
  BY DEF Observe
<1>23. CASE AwaitApproval
  <2>1. saved' \in SavedState
    BY <1>23, <1>d, CheckpointType DEF AwaitApproval
  <2>2. [Settled EXCEPT !.pend = "awaiting_approval", !.act = eng.act] \in EngState
    BY <1>d DEF EngState, PendStates
  <2>3. eng' \in EngState
    BY <1>23, <2>2, <1>a, FinishType DEF AwaitApproval
  <2>4. QED
    BY <1>23, <1>e, <2>1, <2>3 DEF AwaitApproval
<1>24. CASE RecordObservation
  <2>1. saved' \in SavedState
    BY <1>24, <1>d, CheckpointType DEF RecordObservation
  <2>2. AfterSuccess(Settled) \in EngState
    BY <1>d, SuccessFields DEF Continued, Kept
  <2>3. [Settled EXCEPT !.lastFailed = TRUE] \in EngState
    BY <1>d DEF EngState
  <2>4. eng' \in EngState
    BY <1>24, <2>2, <2>3, ErrorType DEF RecordObservation
  <2>5. QED
    BY <1>24, <1>e, <2>1, <2>4 DEF RecordObservation
<1>25. CASE RecordApproved
  <2>1. saved' \in SavedState
    BY <1>25, <1>d, CheckpointType DEF RecordApproved
  <2>2. Finish(Settled, "failed", Len(Settled.trace)) \in EngState
    BY <1>d, <1>a, FinishType
  <2>3. [Settled EXCEPT !.pc = "top", !.how = "model", !.round = Len(Settled.trace) + 1]
          \in EngState
    <3>1. Len(Settled.trace) + 1 \in Nat
      BY <1>d
    <3>2. QED
      BY <1>d, <3>1 DEF EngState
  <2>4. eng' \in EngState
    BY <1>25, <2>2, <2>3 DEF RecordApproved
  <2>5. policy' \subseteq Calls
    BY <1>25 DEF RecordApproved
  <2>6. QED
    BY <1>25, <1>e, <2>1, <2>4, <2>5 DEF RecordApproved
<1>26. CASE CommitStatus
  <2>1. eng' \in EngState /\ row' \in Status
    BY <1>26 DEF CommitStatus, EngState
  <2>2. QED
    BY <1>26, <2>1 DEF CommitStatus
<1>27. CASE FinalCheckpoint
  <2>1. saved' \in SavedState
    BY <1>27, CheckpointType DEF FinalCheckpoint, EngState
  <2>2. QED
    BY <1>27, <2>1, OffType DEF FinalCheckpoint
<1>28. CASE Cancel
  BY <1>28 DEF Cancel
<1>29. CASE ResetCancel
  BY <1>29 DEF ResetCancel
<1>30. CASE Crash
  <2>1. hist' \in [issued : Nat, resumes : Nat, crashes : Nat, lost : SUBSET Nat,
                   fellBack : BOOLEAN, held : BOOLEAN, unresolved : BOOLEAN]
    <3>1. eng.act.id \in Nat
      BY DEF EngState, Action
    <3>2. (IF eng.pc = "observe" /\ eng.how = "approved"
           THEN hist.lost \cup {eng.act.id} ELSE hist.lost) \in SUBSET Nat
      BY <3>1
    <3>3. hist.crashes + 1 \in Nat
      OBVIOUS
    <3>4. QED
      BY <1>30, <3>2, <3>3 DEF Crash
  <2>2. QED
    BY <1>30, <2>1, OffType DEF Crash
<1>31. CASE UNCHANGED vars
  BY <1>31 DEF vars
<1>32. QED
  BY <1>1, <1>2, <1>3, <1>4, <1>5, <1>6, <1>7, <1>8, <1>9, <1>10, <1>11, <1>12, <1>13,
     <1>14, <1>15, <1>16, <1>17, <1>18, <1>19, <1>20, <1>21, <1>22, <1>23, <1>24, <1>25,
     <1>26, <1>27, <1>28, <1>29, <1>30, <1>31 DEF Next, EngineStep

----------------------------------------------------------------------------
(* What each action does to the fields of eng that the invariants speak of. *)

Is(e, pc, how, loop, round, trace, batch) ==
    /\ e.pc = pc /\ e.how = how /\ e.loop = loop
    /\ e.round = round /\ e.trace = trace /\ e.batch = batch

Holds(e, pend, act) == e.pend = pend /\ e.act = act

LEMMA OffFields ==
    Is(Off, "off", "model", "portable", 1, <<>>, <<>>) /\ Holds(Off, "none", NoAction)
BY DEF Off, Is, Holds

LEMMA RunAsyncFields ==
    ASSUME RunAsync
    PROVE  /\ \E l \in {"portable", "native"} : Is(eng', "created", "model", l, 1, <<>>, <<>>)
           /\ Holds(eng', "none", NoAction)
<1>1. PICK m \in StartModes :
        eng' = [Off EXCEPT !.pc = "created", !.mode = m,
                           !.loop = IF m = "portable" THEN "portable" ELSE "native"]
  BY DEF RunAsync
<1>2. QED
  BY <1>1 DEF Off, Is, Holds

LEMMA MoveFields ==
    ASSUME TypeOK
    PROVE  /\ MarkRunning =>
                Is(eng', "opening", eng.how, eng.loop, eng.round, eng.trace, eng.batch)
           /\ OpenCheckpoint =>
                Is(eng', "top", eng.how, eng.loop, eng.round, eng.trace, eng.batch)
           /\ CallModel =>
                Is(eng', "model", eng.how, eng.loop, eng.round, eng.trace, eng.batch)
           /\ CommitStatus =>
                /\ Is(eng', "final", eng.how, eng.loop, eng.round, eng.trace, eng.batch)
                /\ eng'.status = eng.status /\ eng'.seq = eng.seq
           /\ MarkRunning \/ OpenCheckpoint \/ CallModel \/ CommitStatus =>
                Holds(eng', eng.pend, eng.act)
<1>1. eng \in EngState
  BY DEF TypeOK
<1>2. ASSUME MarkRunning
      PROVE  /\ Is(eng', "opening", eng.how, eng.loop, eng.round, eng.trace, eng.batch)
             /\ Holds(eng', eng.pend, eng.act)
  BY <1>1, <1>2 DEF EngState, MarkRunning, Is, Holds
<1>3. ASSUME OpenCheckpoint
      PROVE  /\ Is(eng', "top", eng.how, eng.loop, eng.round, eng.trace, eng.batch)
             /\ Holds(eng', eng.pend, eng.act)
  BY <1>1, <1>3 DEF EngState, OpenCheckpoint, Is, Holds
<1>4. ASSUME CallModel
      PROVE  /\ Is(eng', "model", eng.how, eng.loop, eng.round, eng.trace, eng.batch)
             /\ Holds(eng', eng.pend, eng.act)
  BY <1>1, <1>4 DEF EngState, CallModel, Is, Holds
<1>5. ASSUME CommitStatus
      PROVE  /\ Is(eng', "final", eng.how, eng.loop, eng.round, eng.trace, eng.batch)
             /\ Holds(eng', eng.pend, eng.act)
             /\ eng'.status = eng.status /\ eng'.seq = eng.seq
  BY <1>1, <1>5 DEF EngState, CommitStatus, Is, Holds
<1>6. QED
  BY <1>2, <1>3, <1>4, <1>5

LEMMA ResumeAsyncFields ==
    ASSUME NEW approve \in BOOLEAN, ResumeAsync(approve)
    PROVE  /\ \E l \in {"portable", "native"}, h \in {"model", "approved"} :
                Is(eng', "resuming", h, l, 1, saved.trace, <<>>)
           /\ Holds(eng', "none", NoAction)
BY DEF ResumeAsync, Off, Is, Holds

LEMMA ResumeFields ==
    ASSUME TypeOK
    PROVE  /\ ResumeLoop =>
                /\ Is(eng', "top", "model", eng.loop,
                      IF eng.loop = "native" THEN 1 ELSE Len(eng.trace) + 1,
                      eng.trace, eng.batch)
                /\ Holds(eng', eng.pend, eng.act)
           /\ ResumeApproved =>
                /\ Is(eng', "exec", eng.how, eng.loop, eng.round, eng.trace, eng.batch)
                /\ Holds(eng', eng.pend, saved.act)
<1>1. eng \in EngState
  BY DEF TypeOK
<1>2. ASSUME ResumeLoop
      PROVE  /\ Is(eng', "top", "model", eng.loop,
                   IF eng.loop = "native" THEN 1 ELSE Len(eng.trace) + 1,
                   eng.trace, eng.batch)
             /\ Holds(eng', eng.pend, eng.act)
  BY <1>1, <1>2 DEF EngState, ResumeLoop, Is, Holds
<1>3. ASSUME ResumeApproved
      PROVE  /\ Is(eng', "exec", eng.how, eng.loop, eng.round, eng.trace, eng.batch)
             /\ Holds(eng', eng.pend, saved.act)
  BY <1>1, <1>3 DEF EngState, ResumeApproved, Is, Holds
<1>4. QED
  BY <1>2, <1>3

LEMMA StopFields ==
    ASSUME NEW e \in EngState, NEW status \in Status, NEW seq \in Nat,
           eng' = Finish(e, status, seq)
    PROVE  /\ Is(eng', "status", e.how, e.loop, e.round, e.trace, e.batch)
           /\ Holds(eng', e.pend, e.act)
           /\ eng'.status = status /\ eng'.seq = seq
BY FinishType DEF EngState, Finish, Is, Holds

LEMMA LoggedFields ==
    ASSUME NEW e \in EngState, NEW id \in Nat
    PROVE  /\ Logged(e, id) \in EngState
           /\ Is(Logged(e, id), e.pc, e.how, e.loop, e.round, Append(e.trace, id), e.batch)
           /\ Holds(Logged(e, id), e.pend, e.act)
<1>1. Logged(e, id) \in EngState
  BY LoggedType
<1>2. QED
  BY <1>1 DEF EngState, Logged, Is, Holds

LEMMA FallbackFields ==
    ASSUME TypeOK, Fallback
    PROVE  Is(eng', "top", eng.how, "portable", 1, <<>>, eng.batch) /\ Holds(eng', eng.pend, eng.act)
BY DEF TypeOK, EngState, Fallback, Is, Holds

LEMMA ToolCallsFields ==
    ASSUME TypeOK, ToolCalls
    PROVE  \E b \in Seq(Calls) :
              /\ Is(eng', "dispatch", eng.how, eng.loop, eng.round, eng.trace, b)
              /\ b # <<>> /\ (eng.loop = "portable" => Len(b) <= 1)
              /\ Holds(eng', eng.pend, eng.act)
<1>1. PICK n \in 1..(IF eng.loop = "portable" THEN 1 ELSE MaxBatch) :
        \E b \in [1..n -> Calls] : eng' = [eng EXCEPT !.pc = "dispatch", !.batch = b]
  BY DEF ToolCalls
<1>2. PICK b \in [1..n -> Calls] : eng' = [eng EXCEPT !.pc = "dispatch", !.batch = b]
  BY <1>1
<1>3. n \in Nat /\ n >= 1 /\ (eng.loop = "portable" => n = 1)
  BY <1>1
<1>4. b \in Seq(Calls) /\ Len(b) = n
  BY <1>2, <1>3
<1>5. b # <<>>
  BY <1>3, <1>4
<1>6. Is(eng', "dispatch", eng.how, eng.loop, eng.round, eng.trace, b) /\ Holds(eng', eng.pend, eng.act)
  BY <1>2 DEF TypeOK, EngState, Is, Holds
<1>7. QED
  BY <1>3, <1>4, <1>5, <1>6

LEMMA WriteInFlightFields ==
    ASSUME TypeOK, WriteInFlight
    PROVE  /\ Is(eng', "exec", eng.how, eng.loop, eng.round, eng.trace, eng.batch)
           /\ eng'.pend = "in_flight"
           /\ eng'.act.call = Head(eng.batch) /\ eng'.act.id = hist.issued + 1
BY DEF TypeOK, EngState, WriteInFlight, Is

LEMMA ObservedFields ==
    ASSUME TypeOK, eng.act.call \in Calls, NEW obs, Observed(obs)
    PROVE  /\ Is(eng', "observe", eng.how, eng.loop, eng.round, eng.trace, eng.batch)
           /\ Holds(eng', eng.pend, eng.act)
           /\ eng'.obs = obs
<1>1. Counted(eng) \in EngState
  BY CountedType DEF TypeOK
<1>2. /\ Is(Counted(eng), eng.pc, eng.how, eng.loop, eng.round, eng.trace, eng.batch)
      /\ Holds(Counted(eng), eng.pend, eng.act)
  BY DEF TypeOK, EngState, Counted, Is, Holds
<1>3. QED
  BY <1>1, <1>2 DEF Observed, EngState, Is, Holds

LEMMA SettledFields ==
    ASSUME TypeOK
    PROVE  /\ Settled \in EngState
           /\ Is(Settled, eng.pc, eng.how, eng.loop, eng.round, Append(eng.trace, eng.act.id),
                 eng.batch)
           /\ Holds(Settled, "none", NoAction)
<1>1. eng.act.id \in Nat
  BY DEF TypeOK, EngState, Action
<1>2. Settled \in EngState
  BY SettledType DEF TypeOK
<1> DEFINE g == Logged(eng, eng.act.id)
<1>3. /\ g \in EngState
      /\ Is(g, eng.pc, eng.how, eng.loop, eng.round, Append(eng.trace, eng.act.id), eng.batch)
  BY <1>1, LoggedFields DEF TypeOK
<1>4. Settled = [g EXCEPT !.pend = "none", !.act = NoAction, !.obs = "none"]
  BY DEF Settled
<1> HIDE DEF g
<1>5. /\ Settled.pc = g.pc /\ Settled.how = g.how /\ Settled.loop = g.loop
      /\ Settled.round = g.round /\ Settled.trace = g.trace /\ Settled.batch = g.batch
      /\ Settled.pend = "none" /\ Settled.act = NoAction
  BY <1>3, <1>4 DEF EngState
<1>6. QED
  BY <1>2, <1>3, <1>5 DEF Is, Holds

\* Where the loop goes after an observation or a failed call of the model.
GoesOn(trace, pend, act) ==
    /\ eng'.trace = trace /\ Holds(eng', pend, act)
    /\ eng'.how = eng.how /\ eng'.loop = eng.loop
    /\ \/ /\ eng'.pc = "dispatch" /\ eng'.round = eng.round
          /\ Len(eng.batch) > 1 /\ eng'.batch = Tail(eng.batch)
       \/ eng'.pc = "top" /\ eng'.round = eng.round + 1 /\ eng'.batch = <<>>
       \/ /\ eng'.pc = "status" /\ eng'.round = eng.round /\ eng'.batch = eng.batch
          /\ eng'.status = "failed" /\ eng'.seq = eng.round

LEMMA GoesOnFields ==
    ASSUME NEW e \in EngState, NEW f, Continued(e, f) \/ Failed(e, f), eng' = f,
           e.how = eng.how, e.loop = eng.loop, e.round = eng.round, e.batch = eng.batch
    PROVE  GoesOn(e.trace, e.pend, e.act)
BY DEF Continued, Failed, Kept, GoesOn, Holds

LEMMA ModelFailsFields ==
    ASSUME TypeOK, ModelFails
    PROVE  GoesOn(Append(eng.trace, 0), eng.pend, eng.act)
<1> DEFINE e == Logged(eng, 0)
<1>1. /\ e \in EngState
      /\ Is(e, eng.pc, eng.how, eng.loop, eng.round, Append(eng.trace, 0), eng.batch)
      /\ Holds(e, eng.pend, eng.act)
  BY LoggedFields DEF TypeOK
<1>2. eng' = AfterError(e)
  BY DEF ModelFails
<1> HIDE DEF e
<1>3. Continued(e, AfterError(e)) \/ Failed(e, AfterError(e))
  BY <1>1, ErrorFields
<1>4. GoesOn(e.trace, e.pend, e.act)
  BY <1>1, <1>2, <1>3, GoesOnFields DEF Is
<1>5. QED
  BY <1>1, <1>4 DEF Is, Holds

LEMMA RecordFields ==
    ASSUME TypeOK, RecordObservation
    PROVE  GoesOn(Append(eng.trace, eng.act.id), "none", NoAction)
<1>1. /\ Settled \in EngState
      /\ Is(Settled, eng.pc, eng.how, eng.loop, eng.round, Append(eng.trace, eng.act.id),
            eng.batch)
      /\ Holds(Settled, "none", NoAction)
  BY SettledFields
<1>2. CASE eng.obs = "ok"
  <2>1. eng' = AfterSuccess(Settled)
    BY <1>2 DEF RecordObservation
  <2>2. Continued(Settled, AfterSuccess(Settled))
    BY <1>1, SuccessFields
  <2>3. GoesOn(Settled.trace, Settled.pend, Settled.act)
    BY <1>1, <2>1, <2>2, GoesOnFields DEF Is
  <2>4. QED
    BY <1>1, <2>3 DEF Is, Holds
<1>3. CASE eng.obs # "ok"
  <2> DEFINE e == [Settled EXCEPT !.lastFailed = TRUE]
  <2>1. eng' = AfterError(e)
    BY <1>3 DEF RecordObservation
  <2>2. /\ e \in EngState
        /\ e.how = Settled.how /\ e.loop = Settled.loop /\ e.round = Settled.round
        /\ e.batch = Settled.batch /\ e.trace = Settled.trace
        /\ e.pend = Settled.pend /\ e.act = Settled.act
    BY <1>1 DEF EngState
  <2> HIDE DEF e
  <2>3. Continued(e, AfterError(e)) \/ Failed(e, AfterError(e))
    BY <2>2, ErrorFields
  <2>4. GoesOn(e.trace, e.pend, e.act)
    BY <1>1, <2>1, <2>2, <2>3, GoesOnFields DEF Is
  <2>5. QED
    BY <1>1, <2>2, <2>4 DEF Is, Holds
<1>4. QED
  BY <1>2, <1>3

\* The steps that end a run from within a loop.
LoopEnds == LoopExhausted \/ Deadline \/ StopCancelled \/ ContextError \/ FinalAnswer

Outcomes == {"waiting_approval", "completed", "failed", "cancelled"}

LEMMA LoopEndsFields ==
    ASSUME TypeOK, ActInv, LoopEnds
    PROVE  /\ \E t \in {eng.trace, Append(eng.trace, 0)} :
                 Is(eng', "status", eng.how, eng.loop, eng.round, t, eng.batch)
           /\ Holds(eng', eng.pend, eng.act)
           /\ eng'.status \in {"completed", "failed", "cancelled"}
           /\ eng'.seq \in Nat /\ eng'.seq <= eng.round
<1>0. /\ eng \in EngState /\ eng.round \in Nat /\ eng.round - 1 \in Nat /\ MaxSteps \in Nat
      /\ {"completed", "failed", "cancelled"} \subseteq Status
  <2>1. eng \in EngState /\ eng.round >= 1 /\ eng.round \in Nat /\ MaxSteps \in Nat
    BY DEF TypeOK, EngState, ActInv
  <2>2. QED
    BY <2>1 DEF Status
<1> DEFINE e == Logged(eng, 0)
<1>1. /\ e \in EngState
      /\ Is(e, eng.pc, eng.how, eng.loop, eng.round, Append(eng.trace, 0), eng.batch)
      /\ Holds(e, eng.pend, eng.act)
  BY LoggedFields DEF TypeOK
<1>2. \E f \in {eng, e}, status \in {"completed", "failed", "cancelled"}, seq \in Nat :
         eng' = Finish(f, status, seq) /\ seq <= eng.round
  <2>1. CASE LoopExhausted
    BY <1>0, <2>1 DEF LoopExhausted
  <2>2. CASE Deadline
    BY <1>0, <2>2 DEF Deadline
  <2>3. CASE StopCancelled
    BY <1>0, <2>3 DEF StopCancelled
  <2>4. CASE ContextError
    BY <1>0, <2>4 DEF ContextError
  <2>5. CASE FinalAnswer
    BY <1>0, <2>5 DEF FinalAnswer
  <2>6. QED
    BY <2>1, <2>2, <2>3, <2>4, <2>5 DEF LoopEnds
<1> HIDE DEF e
<1>3. PICK f \in {eng, e}, status \in {"completed", "failed", "cancelled"}, seq \in Nat :
         eng' = Finish(f, status, seq) /\ seq <= eng.round
  BY <1>2
<1>4. /\ f \in EngState /\ status \in Status
      /\ \E t \in {eng.trace, Append(eng.trace, 0)} :
            Is(f, eng.pc, eng.how, eng.loop, eng.round, t, eng.batch)
      /\ Holds(f, eng.pend, eng.act)
  BY <1>0, <1>1 DEF Is, Holds
<1>5. /\ Is(eng', "status", f.how, f.loop, f.round, f.trace, f.batch)
      /\ Holds(eng', f.pend, f.act)
      /\ eng'.status = status /\ eng'.seq = seq
  BY <1>3, <1>4, StopFields
<1>6. QED
  BY <1>3, <1>4, <1>5 DEF Is, Holds

LEMMA HoldFields ==
    ASSUME TypeOK, ResumeHold
    PROVE  /\ Is(eng', "status", eng.how, eng.loop, eng.round, eng.trace, eng.batch)
           /\ Holds(eng', saved.pend, saved.act)
           /\ eng'.status = "waiting_approval" /\ eng'.seq = Len(eng.trace)
<1> DEFINE e == [eng EXCEPT !.pend = saved.pend, !.act = saved.act]
<1>1. saved.pend \in PendStates /\ saved.act \in Action /\ eng \in EngState
  BY DEF TypeOK, SavedState
<1>2. /\ e \in EngState
      /\ Is(e, eng.pc, eng.how, eng.loop, eng.round, eng.trace, eng.batch)
      /\ Holds(e, saved.pend, saved.act)
  BY <1>1 DEF EngState, Is, Holds
<1>3. eng' = Finish(e, "waiting_approval", Len(eng.trace))
  BY DEF ResumeHold
<1>4. Len(eng.trace) \in Nat /\ "waiting_approval" \in Status
  BY <1>1 DEF EngState, Status
<1> HIDE DEF e
<1>5. QED
  BY <1>2, <1>3, <1>4, StopFields DEF Is, Holds

LEMMA InFlightFields ==
    ASSUME TypeOK, ResumeInFlight
    PROVE  /\ Is(eng', "status", eng.how, eng.loop, eng.round, eng.trace, eng.batch)
           /\ Holds(eng', eng.pend, eng.act)
           /\ eng'.status = "failed" /\ eng'.seq = Len(eng.trace)
<1>1. eng \in EngState /\ Len(eng.trace) \in Nat /\ "failed" \in Status
  BY SMTT(30) DEF TypeOK, EngState, Status
<1>2. eng' = Finish(eng, "failed", Len(eng.trace))
  BY DEF ResumeInFlight
<1>3. QED
  BY <1>1, <1>2, StopFields

LEMMA AwaitFields ==
    ASSUME TypeOK, AwaitApproval
    PROVE  /\ Is(eng', "status", eng.how, eng.loop, eng.round,
                 Append(eng.trace, eng.act.id), eng.batch)
           /\ Holds(eng', "awaiting_approval", eng.act)
           /\ eng'.status = "waiting_approval" /\ eng'.seq = eng.round
<1> DEFINE e == [Settled EXCEPT !.pend = "awaiting_approval", !.act = eng.act]
<1>1. /\ Settled \in EngState
      /\ Is(Settled, eng.pc, eng.how, eng.loop, eng.round, Append(eng.trace, eng.act.id),
            eng.batch)
  BY SettledFields
<1>2. eng.act \in Action /\ eng.round \in Nat
  BY DEF TypeOK, EngState
<1>3. /\ e \in EngState
      /\ Is(e, eng.pc, eng.how, eng.loop, eng.round, Append(eng.trace, eng.act.id), eng.batch)
      /\ Holds(e, "awaiting_approval", eng.act)
  BY <1>1, <1>2 DEF EngState, Is, Holds, PendStates
<1>4. eng' = Finish(e, "waiting_approval", eng.round)
  BY DEF AwaitApproval
<1>5. "waiting_approval" \in Status
  BY DEF Status
<1> HIDE DEF e
<1>6. /\ Is(eng', "status", e.how, e.loop, e.round, e.trace, e.batch)
      /\ Holds(eng', e.pend, e.act)
      /\ eng'.status = "waiting_approval" /\ eng'.seq = eng.round
  BY <1>2, <1>3, <1>4, <1>5, StopFields
<1>7. QED
  BY <1>3, <1>6 DEF Is, Holds

LEMMA ApprovedFields ==
    ASSUME TypeOK, RecordApproved
    PROVE  /\ Holds(eng', "none", NoAction)
           /\ \/ Is(eng', "top", "model", eng.loop, Len(eng.trace) + 2,
                    Append(eng.trace, eng.act.id), eng.batch)
              \/ /\ Is(eng', "status", eng.how, eng.loop, eng.round,
                       Append(eng.trace, eng.act.id), eng.batch)
                 /\ eng'.status = "failed" /\ eng'.seq = Len(eng.trace) + 1
<1>1. /\ Settled \in EngState
      /\ Is(Settled, eng.pc, eng.how, eng.loop, eng.round, Append(eng.trace, eng.act.id),
            eng.batch)
      /\ Holds(Settled, "none", NoAction)
  BY SettledFields
<1>2. eng.trace \in Seq(Nat) /\ eng.act.id \in Nat
  BY DEF TypeOK, EngState, Action
<1>3. Len(Settled.trace) = Len(eng.trace) + 1 /\ Len(eng.trace) \in Nat
  BY <1>1, <1>2 DEF Is
<1>4. CASE eng.obs = "ok"
  <2>1. eng' = [Settled EXCEPT !.pc = "top", !.how = "model", !.round = Len(Settled.trace) + 1]
    BY <1>4 DEF RecordApproved
  <2>2. /\ eng'.pc = "top" /\ eng'.how = "model" /\ eng'.round = Len(eng.trace) + 2
        /\ eng'.loop = Settled.loop /\ eng'.trace = Settled.trace
        /\ eng'.batch = Settled.batch /\ eng'.pend = Settled.pend /\ eng'.act = Settled.act
    BY <1>1, <1>3, <2>1 DEF EngState
  <2>3. QED
    BY <1>1, <2>2 DEF Is, Holds
<1>5. CASE eng.obs # "ok"
  <2>1. eng' = Finish(Settled, "failed", Len(Settled.trace))
    BY <1>5 DEF RecordApproved
  <2>2. "failed" \in Status
    BY DEF Status
  <2>3. /\ Is(eng', "status", Settled.how, Settled.loop, Settled.round, Settled.trace,
               Settled.batch)
        /\ Holds(eng', Settled.pend, Settled.act)
        /\ eng'.status = "failed" /\ eng'.seq = Len(Settled.trace)
    BY <1>1, <1>3, <2>1, <2>2, StopFields
  <2>4. QED
    BY <1>1, <1>3, <2>3 DEF Is, Holds
<1>6. QED
  BY <1>4, <1>5

\* A checkpoint is the latest one afterwards, or changes nothing that is read.
LEMMA SavedFields ==
    ASSUME NEW e \in EngState, NEW seq \in Nat, Checkpoint(seq, e)
    PROVE  /\ seq < saved.seq => saved' = saved
           /\ ~(seq < saved.seq) =>
                 /\ saved'.seq = seq /\ saved'.trace = e.trace /\ saved'.pend = e.pend
                 /\ e.pend = "none" => saved'.act = NoAction
                 /\ e.pend # "none" => /\ saved'.act.call = e.act.call
                                       /\ saved'.act.id = e.act.id
<1>1. e.act \in Action
  BY DEF EngState
<1>2. Redacted(e.act).call = e.act.call /\ Redacted(e.act).id = e.act.id
  BY <1>1 DEF Redacted, Action
<1>3. QED
  BY <1>2 DEF Checkpoint

LEMMA CallSeqNat ==
    ASSUME TypeOK PROVE CallSeq \in Nat
<1>1. eng.round \in Nat /\ Len(eng.trace) \in Nat
  BY DEF TypeOK, EngState
<1>2. QED
  BY <1>1 DEF CallSeq

LEMMA LoopEndsFrame ==
    ASSUME LoopEnds
    PROVE  eng.pc \in {"top", "model"} /\ UNCHANGED <<row, saved, cancelled, policy, world, hist>>
BY DEF LoopEnds, LoopExhausted, Deadline, StopCancelled, ContextError, FinalAnswer

\* The checkpoint written with an observation has nothing pending.
LEMMA SettledSaved ==
    ASSUME TypeOK, Checkpoint(CallSeq, Settled)
    PROVE  /\ CallSeq < saved.seq => saved' = saved
           /\ ~(CallSeq < saved.seq) =>
                 /\ saved'.seq = CallSeq /\ saved'.trace = Append(eng.trace, eng.act.id)
                 /\ saved'.pend = "none" /\ saved'.act = NoAction
<1>1. /\ Settled \in EngState
      /\ Settled.trace = Append(eng.trace, eng.act.id) /\ Settled.pend = "none"
  BY SettledType DEF TypeOK
<1>2. CallSeq \in Nat
  BY CallSeqNat
<1>3. QED
  BY <1>1, <1>2, SavedFields

LEMMA InFlightSaved ==
    ASSUME TypeOK, TypeOK', WriteInFlight
    PROVE  /\ CallSeq < saved.seq => saved' = saved
           /\ ~(CallSeq < saved.seq) =>
                 /\ saved'.seq = CallSeq /\ saved'.trace = eng.trace
                 /\ saved'.pend = "in_flight"
                 /\ saved'.act.call = Head(eng.batch) /\ saved'.act.id = hist.issued + 1
<1>1. /\ eng'.trace = eng.trace /\ eng'.pend = "in_flight"
      /\ eng'.act.call = Head(eng.batch) /\ eng'.act.id = hist.issued + 1
  BY WriteInFlightFields DEF Is
<1>2. eng' \in EngState /\ CallSeq \in Nat
  BY CallSeqNat DEF TypeOK
<1>3. Checkpoint(CallSeq, eng')
  BY DEF WriteInFlight
<1>4. QED
  BY <1>1, <1>2, <1>3, SavedFields

LEMMA FinalSaved ==
    ASSUME TypeOK, FinalCheckpoint
    PROVE  /\ eng.seq < saved.seq => saved' = saved
           /\ ~(eng.seq < saved.seq) =>
                 /\ saved'.seq = eng.seq /\ saved'.trace = eng.trace
                 /\ saved'.pend = eng.pend
                 /\ eng.pend = "none" => saved'.act = NoAction
                 /\ eng.pend # "none" => /\ saved'.act.call = eng.act.call
                                         /\ saved'.act.id = eng.act.id
<1>1. eng \in EngState /\ eng.seq \in Nat
  BY DEF TypeOK, EngState
<1>2. Checkpoint(eng.seq, eng)
  BY DEF FinalCheckpoint
<1>3. QED
  BY <1>1, <1>2, SavedFields

LEMMA OpenSaved ==
    ASSUME TypeOK, OpenCheckpoint
    PROVE  /\ 0 < saved.seq => saved' = saved
           /\ ~(0 < saved.seq) =>
                 /\ saved'.seq = 0 /\ saved'.trace = eng.trace /\ saved'.pend = eng.pend
                 /\ eng.pend = "none" => saved'.act = NoAction
                 /\ eng.pend # "none" => /\ saved'.act.call = eng.act.call
                                         /\ saved'.act.id = eng.act.id
<1>1. eng \in EngState
  BY DEF TypeOK
<1>2. Checkpoint(0, eng)
  BY DEF OpenCheckpoint
<1>3. QED
  BY <1>1, <1>2, SavedFields

----------------------------------------------------------------------------
(* ActInv is preserved.                                                     *)

LEMMA ActInit == Init => ActInv
BY DEF Init, Off, ActInv, Executing, Ending, Approved, Looping

LEMMA ActStep == TypeOK /\ TypeOK' /\ ActInv /\ [Next]_vars => ActInv'
<1> SUFFICES ASSUME TypeOK, TypeOK', ActInv, [Next]_vars PROVE ActInv'
  OBVIOUS
<1> USE DEF ActInv, Executing, Ending, Approved, Looping, Is, Holds
<1>a. /\ eng.round \in Nat /\ eng.trace \in Seq(Nat) /\ Len(eng.trace) \in Nat
      /\ eng.batch \in Seq(Calls) /\ hist.issued \in Nat
  BY DEF TypeOK, EngState
<1>1. CASE RunAsync
  <2>1. PICK l \in {"portable", "native"} : Is(eng', "created", "model", l, 1, <<>>, <<>>)
    BY <1>1, RunAsyncFields
  <2>2. Holds(eng', "none", NoAction)
    BY <1>1, RunAsyncFields
  <2>3. QED
    BY <1>1, <2>1, <2>2 DEF RunAsync
<1>2. CASE MarkRunning
  BY <1>2, MoveFields DEF MarkRunning
<1>3. CASE OpenCheckpoint
  BY <1>3, MoveFields, OpenSaved DEF OpenCheckpoint
<1>4. ASSUME NEW approve \in BOOLEAN, ResumeAsync(approve)
      PROVE ActInv'
  <2>1. PICK l \in {"portable", "native"}, h \in {"model", "approved"} :
          Is(eng', "resuming", h, l, 1, saved.trace, <<>>)
    BY <1>4, ResumeAsyncFields
  <2>2. Holds(eng', "none", NoAction)
    BY <1>4, ResumeAsyncFields
  <2>3. QED
    BY <1>4, <2>1, <2>2 DEF ResumeAsync
<1>5. CASE ResumeLoop
  BY <1>5, <1>a, ResumeFields DEF ResumeLoop
<1>6. CASE ResumeHold
  BY <1>6, HoldFields DEF ResumeHold
<1>7. CASE ResumeInFlight
  BY <1>7, InFlightFields DEF ResumeInFlight
<1>8. CASE ResumeApproved
  BY <1>8, ResumeFields DEF ResumeApproved
<1>9. CASE LoopEnds
  BY <1>9, LoopEndsFields, LoopEndsFrame
<1>10. CASE CallModel
  BY <1>10, MoveFields DEF CallModel
<1>11. CASE ModelFails
  <2>1. eng.pc = "model" /\ saved' = saved
    BY <1>11 DEF ModelFails
  <2>2. eng.batch = <<>> /\ eng.pend = "none" /\ eng.how \in {"model", "approved"}
    BY <2>1 DEF TypeOK, EngState
  <2>3. GoesOn(Append(eng.trace, 0), "none", eng.act)
    BY <1>11, <2>2, ModelFailsFields
  <2>4. ~(Len(eng.batch) > 1)
    BY <2>2
  <2>5. \/ eng'.pc = "top" /\ eng'.round = eng.round + 1 /\ eng'.batch = <<>>
        \/ eng'.pc = "status" /\ eng'.round = eng.round /\ eng'.batch = <<>>
    BY <2>2, <2>3, <2>4 DEF GoesOn
  <2>6. eng'.how = eng.how /\ eng'.pend = "none"
    BY <2>3 DEF GoesOn
  <2>7. QED
    BY <1>a, <2>1, <2>2, <2>5, <2>6
<1>12. CASE Fallback
  BY <1>12, FallbackFields DEF Fallback
<1>13. CASE ToolCalls
  <2>1. PICK b \in Seq(Calls) :
          /\ Is(eng', "dispatch", eng.how, eng.loop, eng.round, eng.trace, b)
          /\ b # <<>> /\ (eng.loop = "portable" => Len(b) <= 1)
          /\ Holds(eng', eng.pend, eng.act)
    BY <1>13, ToolCallsFields
  <2>2. QED
    BY <1>13, <2>1 DEF ToolCalls
<1>14. CASE WriteInFlight
  <2>1. Head(eng.batch) \in Calls /\ hist.issued + 1 >= 1
    BY <1>14, <1>a, SMTT(30) DEF WriteInFlight
  <2>2. saved'.pend # "none" => saved'.act.call \in Calls /\ saved'.act.id >= 1
    BY <1>14, <2>1, InFlightSaved
  <2>3. QED
    BY <1>14, <2>1, <2>2, WriteInFlightFields DEF WriteInFlight
<1>b. ASSUME NEW obs, eng.pc = "exec", Observed(obs), saved' = saved
      PROVE ActInv'
  BY <1>b, ObservedFields
<1>15. CASE BudgetBlocks
  BY <1>15, <1>b DEF BudgetBlocks
<1>16. CASE ToolRejected
  BY <1>16, <1>b DEF ToolRejected
<1>17. CASE ApprovalDenied
  BY <1>17, <1>b DEF ApprovalDenied
<1>18. ASSUME NEW obs \in {"ok", "failed"}, ToolRuns(obs)
       PROVE ActInv'
  BY <1>18, <1>b DEF ToolRuns
<1>19. CASE AwaitApproval
  BY <1>19, AwaitFields, SettledSaved DEF AwaitApproval
<1>20. CASE RecordObservation
  <2>1. saved'.pend # "none" => saved'.act.call \in Calls /\ saved'.act.id >= 1
    BY <1>20, SettledSaved DEF RecordObservation
  <2>2. GoesOn(Append(eng.trace, eng.act.id), "none", NoAction)
    BY <1>20, RecordFields
  <2>3. Len(eng.batch) > 1 => Tail(eng.batch) # <<>>
    BY <1>a, TailLength
  <2>4. eng.pc = "observe" /\ eng.how = "model"
    BY <1>20 DEF RecordObservation
  <2>5. eng'.round >= 1
    BY <1>a, <2>2 DEF GoesOn
  <2>6. eng'.how = "model" /\ Holds(eng', "none", NoAction)
    BY <2>2, <2>4 DEF GoesOn
  <2>7. \/ eng'.pc = "dispatch" /\ eng'.batch # <<>>
        \/ eng'.pc = "top" /\ eng'.batch = <<>>
        \/ eng'.pc = "status"
    BY <2>2, <2>3 DEF GoesOn
  <2>8. QED
    BY <2>1, <2>5, <2>6, <2>7
<1>21. CASE RecordApproved
  <2>1. saved'.pend # "none" => saved'.act.call \in Calls /\ saved'.act.id >= 1
    BY <1>21, SettledSaved DEF RecordApproved
  <2>2. /\ Holds(eng', "none", NoAction)
        /\ \/ Is(eng', "top", "model", eng.loop, Len(eng.trace) + 2,
                 Append(eng.trace, eng.act.id), eng.batch)
           \/ Is(eng', "status", eng.how, eng.loop, eng.round,
                 Append(eng.trace, eng.act.id), eng.batch)
    BY <1>21, ApprovedFields
  <2>3. eng.pc = "observe" /\ eng.how = "approved" /\ eng.batch = <<>> /\ Len(eng.trace) + 2 >= 1
    BY <1>21, <1>a DEF RecordApproved
  <2>4. QED
    BY <2>1, <2>2, <2>3
<1>22. CASE CommitStatus
  BY <1>22, MoveFields DEF CommitStatus
<1>23. CASE FinalCheckpoint
  BY <1>23, OffFields, FinalSaved DEF FinalCheckpoint
<1>24. CASE Cancel \/ ResetCancel
  BY <1>24 DEF Cancel, ResetCancel
<1>25. CASE Crash
  BY <1>25, OffFields DEF Crash
<1>26. CASE UNCHANGED vars
  BY <1>26 DEF vars
<1>27. QED
  BY <1>1, <1>2, <1>3, <1>4, <1>5, <1>6, <1>7, <1>8, <1>9, <1>10, <1>11, <1>12, <1>13,
     <1>14, <1>15, <1>16, <1>17, <1>18, <1>19, <1>20, <1>21, <1>22, <1>23, <1>24, <1>25,
     <1>26 DEF Next, EngineStep, LoopEnds

----------------------------------------------------------------------------
(* FlowInv is preserved, and with it the contract.                          *)

LEMMA FlowInit == Init => FlowInv
BY DEF Init, Off, FlowInv, Executing, Ending, Approved

LEMMA FlowStep == TypeOK /\ TypeOK' /\ ActInv /\ FlowInv /\ [Next]_vars => FlowInv'
<1> SUFFICES ASSUME TypeOK, TypeOK', ActInv, FlowInv, [Next]_vars PROVE FlowInv'
  OBVIOUS
<1> USE DEF FlowInv, Executing, Ending, Approved, Is, Holds
<1>1. CASE RunAsync
  <2>1. PICK l \in {"portable", "native"} : Is(eng', "created", "model", l, 1, <<>>, <<>>)
    BY <1>1, RunAsyncFields
  <2>2. QED
    BY <1>1, <2>1 DEF RunAsync
<1>2. CASE MarkRunning
  BY <1>2, MoveFields DEF MarkRunning
<1>3. CASE OpenCheckpoint
  BY <1>3, MoveFields DEF OpenCheckpoint
<1>4. ASSUME NEW approve \in BOOLEAN, ResumeAsync(approve)
      PROVE FlowInv'
  <2>1. PICK l \in {"portable", "native"}, h \in {"model", "approved"} :
          Is(eng', "resuming", h, l, 1, saved.trace, <<>>)
    BY <1>4, ResumeAsyncFields
  <2>2. QED
    BY <1>4, <2>1 DEF ResumeAsync
<1>5. CASE ResumeLoop
  BY <1>5, ResumeFields DEF ResumeLoop
<1>6. CASE ResumeHold
  BY <1>6, HoldFields DEF ResumeHold
<1>7. CASE ResumeInFlight
  BY <1>7, InFlightFields DEF ResumeInFlight
<1>8. CASE ResumeApproved
  BY <1>8, ResumeFields DEF ResumeApproved
<1>9. CASE LoopEnds
  BY <1>9, LoopEndsFields, LoopEndsFrame
<1>10. CASE CallModel
  BY <1>10, MoveFields DEF CallModel
<1>11. CASE ModelFails
  BY <1>11, ModelFailsFields DEF ModelFails, GoesOn
<1>12. CASE Fallback
  BY <1>12, FallbackFields DEF Fallback
<1>13. CASE ToolCalls
  <2>1. PICK b \in Seq(Calls) :
          Is(eng', "dispatch", eng.how, eng.loop, eng.round, eng.trace, b)
    BY <1>13, ToolCallsFields
  <2>2. QED
    BY <1>13, <2>1 DEF ToolCalls
<1>14. CASE WriteInFlight
  BY <1>14, WriteInFlightFields DEF WriteInFlight, ActInv, Looping
<1>b. ASSUME NEW obs, eng.pc = "exec", Observed(obs), UNCHANGED <<row, saved, policy>>
      PROVE FlowInv'
  BY <1>b, ObservedFields DEF ActInv
<1>15. CASE BudgetBlocks
  BY <1>15, <1>b DEF BudgetBlocks
<1>16. CASE ToolRejected
  BY <1>16, <1>b DEF ToolRejected
<1>17. CASE ApprovalDenied
  BY <1>17, <1>b DEF ApprovalDenied
<1>18. ASSUME NEW obs \in {"ok", "failed"}, ToolRuns(obs)
       PROVE FlowInv'
  BY <1>18, <1>b DEF ToolRuns
<1>19. CASE AwaitApproval
  BY <1>19, AwaitFields DEF AwaitApproval
<1>20. CASE RecordObservation
  BY <1>20, RecordFields DEF RecordObservation, GoesOn
<1>21. CASE RecordApproved
  <2>1. policy' = Gated
    BY <1>21 DEF RecordApproved
  <2>2. eng'.pc = "top" \/ (eng'.pc = "status" /\ eng'.status = "failed")
    BY <1>21, ApprovedFields
  <2>3. row = "running" /\ row' = row
    BY <1>21 DEF RecordApproved
  <2>4. QED
    BY <2>1, <2>2, <2>3
<1>22. CASE CommitStatus
  BY <1>22, MoveFields DEF CommitStatus
<1>23. CASE FinalCheckpoint
  BY <1>23, OffFields DEF FinalCheckpoint
<1>24. CASE Cancel \/ ResetCancel
  BY <1>24 DEF Cancel, ResetCancel
<1>25. CASE Crash
  BY <1>25, OffFields DEF Crash
<1>26. CASE UNCHANGED vars
  BY <1>26 DEF vars
<1>27. QED
  BY <1>1, <1>2, <1>3, <1>4, <1>5, <1>6, <1>7, <1>8, <1>9, <1>10, <1>11, <1>12, <1>13,
     <1>14, <1>15, <1>16, <1>17, <1>18, <1>19, <1>20, <1>21, <1>22, <1>23, <1>24, <1>25,
     <1>26 DEF Next, EngineStep, LoopEnds

\* Only a tool that runs changes the world.
LEMMA WorldStep ==
    [Next]_vars => \/ UNCHANGED world
                   \/ \E obs \in {"ok", "failed"} : ToolRuns(obs)
<1>1. RunAsync \/ MarkRunning \/ OpenCheckpoint \/ (\E approve \in BOOLEAN : ResumeAsync(approve))
        => UNCHANGED world
  BY DEF RunAsync, MarkRunning, OpenCheckpoint, ResumeAsync
<1>2. ResumeLoop \/ ResumeHold \/ ResumeInFlight \/ ResumeApproved => UNCHANGED world
  BY DEF ResumeLoop, ResumeHold, ResumeInFlight, ResumeApproved
<1>3. LoopEnds \/ CallModel \/ ModelFails \/ Fallback \/ ToolCalls => UNCHANGED world
  BY LoopEndsFrame DEF CallModel, ModelFails, Fallback, ToolCalls
<1>4. WriteInFlight \/ BudgetBlocks \/ ToolRejected \/ ApprovalDenied => UNCHANGED world
  BY DEF WriteInFlight, BudgetBlocks, ToolRejected, ApprovalDenied
<1>5. AwaitApproval \/ RecordObservation \/ RecordApproved => UNCHANGED world
  BY DEF AwaitApproval, RecordObservation, RecordApproved
<1>6. CommitStatus \/ FinalCheckpoint \/ Cancel \/ ResetCancel \/ Crash \/ UNCHANGED vars
        => UNCHANGED world
  BY DEF CommitStatus, FinalCheckpoint, Cancel, ResetCancel, Crash, vars
<1>7. QED
  BY <1>1, <1>2, <1>3, <1>4, <1>5, <1>6 DEF Next, EngineStep, LoopEnds

\* A gated tool that runs is the approved action: the policy misses nothing else.
LEMMA GatedStep ==
    TypeOK /\ FlowInv /\ GatedNeedsApproval /\ [Next]_vars => GatedNeedsApproval'
<1> SUFFICES ASSUME TypeOK, FlowInv, GatedNeedsApproval, [Next]_vars
             PROVE  GatedNeedsApproval'
  OBVIOUS
<1>1. ASSUME NEW obs \in {"ok", "failed"}, ToolRuns(obs)
      PROVE  GatedNeedsApproval'
  <2> DEFINE w == [call |-> eng.act.call, id |-> eng.act.id,
                   clear |-> eng.act.clear, how |-> eng.how]
  <2>1. world' = Append(world, w) /\ eng.pc = "exec" /\ eng.act.call \notin policy
    BY <1>1 DEF ToolRuns
  <2>2. eng.how \in {"model", "approved"}
    BY DEF TypeOK, EngState
  <2>3. w.call \in Gated => w.how = "approved"
    BY <2>1, <2>2 DEF FlowInv, Approved, Executing
  <2>4. world \in Seq(Effect)
    BY DEF TypeOK
  <2> HIDE DEF w
  <2>5. ASSUME NEW i \in DOMAIN world'
        PROVE  world'[i] = w \/ (i \in DOMAIN world /\ world'[i] = world[i])
    BY <2>1, <2>4, <2>5
  <2>6. QED
    BY <2>3, <2>5 DEF GatedNeedsApproval
<1>2. CASE UNCHANGED world
  BY <1>2 DEF GatedNeedsApproval
<1>3. QED
  <2>1. \/ UNCHANGED world
        \/ \E obs \in {"ok", "failed"} : ToolRuns(obs)
    BY WorldStep
  <2>2. QED
    BY <1>1, <1>2, <2>1

\* The mapping to the contract: row and world change as its actions let them.
LEMMA ContractStep ==
    TypeOK /\ TypeOK' /\ FlowInv /\ GatedNeedsApproval' /\ [Next]_vars
      => [Contract!Next]_<<row, world>>
<1> SUFFICES ASSUME TypeOK, TypeOK', FlowInv, GatedNeedsApproval', [Next]_vars
             PROVE  Contract!Next \/ UNCHANGED <<row, world>>
  OBVIOUS
<1>1. CASE RunAsync
  BY <1>1 DEF RunAsync, Contract!Next, Contract!Create
<1>2. CASE MarkRunning
  BY <1>2 DEF MarkRunning, Contract!Next, Contract!Start, FlowInv
<1>3. ASSUME NEW approve \in BOOLEAN, ResumeAsync(approve)
      PROVE  Contract!Next
  <2>1. row \in Status /\ row \notin Terminal /\ row \notin {"absent", "created"}
    BY <1>3 DEF ResumeAsync, TypeOK, FlowInv
  <2>2. row \in {"running", "waiting_approval", "cancelled"}
    BY <2>1 DEF Status, Terminal
  <2>3. QED
    BY <1>3, <2>2 DEF ResumeAsync, Contract!Next, Contract!Resume
<1>4. ASSUME NEW obs \in {"ok", "failed"}, ToolRuns(obs)
      PROVE  Contract!Next
  <2> DEFINE w == [call |-> eng.act.call, id |-> eng.act.id,
                   clear |-> eng.act.clear, how |-> eng.how]
  <2>1. world' = Append(world, w) /\ row = "running" /\ row' = row
    BY <1>4 DEF ToolRuns, FlowInv
  <2>2. world \in Seq(Effect)
    BY DEF TypeOK
  <2> HIDE DEF w
  <2>3. Len(world) + 1 \in DOMAIN world' /\ world'[Len(world) + 1] = w
    BY <2>1, <2>2
  <2>4. QED
    BY <2>1, <2>3 DEF GatedNeedsApproval, Contract!Next, Contract!Perform
<1>5. CASE CommitStatus
  <2>1. row = "running" /\ row' = eng.status /\ UNCHANGED world
        /\ eng.status \in Contract!Outcome
    BY <1>5 DEF CommitStatus, FlowInv, Ending, Contract!Outcome
  <2>2. QED
    BY <2>1 DEF Contract!Next, Contract!Stop
<1>6. CASE OpenCheckpoint \/ ResumeLoop \/ ResumeHold \/ ResumeInFlight \/ ResumeApproved
  BY <1>6 DEF OpenCheckpoint, ResumeLoop, ResumeHold, ResumeInFlight, ResumeApproved
<1>7. CASE CallModel \/ ModelFails \/ Fallback \/ ToolCalls \/ WriteInFlight
  BY <1>7 DEF CallModel, ModelFails, Fallback, ToolCalls, WriteInFlight
<1>8. CASE BudgetBlocks \/ ToolRejected \/ ApprovalDenied
  BY <1>8 DEF BudgetBlocks, ToolRejected, ApprovalDenied
<1>9. CASE AwaitApproval \/ RecordObservation \/ RecordApproved
  BY <1>9 DEF AwaitApproval, RecordObservation, RecordApproved
<1>10. CASE FinalCheckpoint \/ Cancel \/ ResetCancel \/ Crash \/ UNCHANGED vars
  BY <1>10 DEF FinalCheckpoint, Cancel, ResetCancel, Crash, vars
<1>11. CASE LoopEnds
  BY <1>11, LoopEndsFrame
<1>12. QED
  BY <1>1, <1>2, <1>3, <1>4, <1>5, <1>6, <1>7, <1>8, <1>9, <1>10, <1>11
     DEF Next, EngineStep, LoopEnds

----------------------------------------------------------------------------
(* SeqInv is preserved.                                                     *)

LEMMA EngFacts ==
    ASSUME NEW e \in EngState
    PROVE  /\ e.round \in Nat /\ e.trace \in Seq(Nat) /\ Len(e.trace) \in Nat
           /\ e.batch \in Seq(Calls) /\ Len(e.batch) \in Nat
           /\ e.seq \in Nat /\ e.act.id \in Nat
<1>1. e.round \in Nat /\ e.trace \in Seq(Nat) /\ e.batch \in Seq(Calls) /\ e.seq \in Nat
      /\ e.act \in Action
  BY DEF EngState
<1>2. e.act.id \in Nat
  BY <1>1 DEF Action
<1>3. QED
  BY <1>1, <1>2, LenProperties

LEMMA SavedFacts ==
    ASSUME NEW s \in SavedState
    PROVE  Len(s.trace) \in Nat /\ s.seq \in Int /\ s.act.id \in Nat
<1>1. s.trace \in Seq(Nat) /\ s.seq \in Int /\ s.act \in Action
  BY DEF SavedState
<1>2. s.act.id \in Nat
  BY <1>1 DEF Action
<1>3. QED
  BY <1>1, <1>2, LenProperties

LEMMA AppendLength ==
    ASSUME NEW S, NEW s \in Seq(S), NEW x \in S
    PROVE  Len(Append(s, x)) = Len(s) + 1 /\ Len(s) \in Nat
BY AppendProperties, LenProperties

\* Within a loop or an execution the next call is logged where CallSeq says.
LEMMA CallSeqNext ==
    ASSUME TypeOK, SeqInv, Looping \/ Executing
    PROVE  CallSeq = Len(eng.trace) + 1
<1>1. eng.loop \in {"portable", "native"} /\ eng.how \in {"model", "approved"}
  BY DEF TypeOK, EngState
<1>2. QED
  BY <1>1 DEF CallSeq, SeqInv, LoopSeq

LEMMA SeqInit == Init => SeqInv
<1>1. Len(<<>>) = 0
  BY EmptySeq
<1>2. QED
  BY <1>1 DEF Init, Off, SeqInv, SavedSeq, LoopSeq, EndSeq, ResumeSeq, Executing, Ending, Approved, Looping

LEMMA SeqStep ==
    TypeOK /\ TypeOK' /\ ActInv /\ FlowInv /\ SeqInv /\ [Next]_vars => SeqInv'
<1> SUFFICES ASSUME TypeOK, TypeOK', ActInv, FlowInv, SeqInv, [Next]_vars PROVE SeqInv'
  OBVIOUS
<1> USE DEF Executing, Ending, Approved, Looping, Is, Holds
<1> USE DEF SavedSeq, LoopSeq, EndSeq, ResumeSeq
<1>a. /\ eng.round \in Nat /\ eng.trace \in Seq(Nat) /\ Len(eng.trace) \in Nat
      /\ eng.batch \in Seq(Calls) /\ Len(eng.batch) \in Nat /\ eng.seq \in Nat
      /\ eng.act.id \in Nat
      /\ Len(saved.trace) \in Nat /\ saved.seq \in Int
  BY EngFacts, SavedFacts DEF TypeOK
<1>p. /\ eng'.round \in Nat /\ Len(eng'.trace) \in Nat /\ Len(eng'.batch) \in Nat
      /\ eng'.seq \in Nat /\ Len(saved'.trace) \in Nat /\ saved'.seq \in Int
  BY EngFacts, SavedFacts DEF TypeOK
<1>b. /\ Len(Append(eng.trace, 0)) = Len(eng.trace) + 1
      /\ Len(Append(eng.trace, eng.act.id)) = Len(eng.trace) + 1
      /\ Len(<<>>) = 0
  BY <1>a, AppendLength, EmptySeq
<1>1. CASE RunAsync
  <2>1. PICK l \in {"portable", "native"} : Is(eng', "created", "model", l, 1, <<>>, <<>>)
    BY <1>1, RunAsyncFields
  <2>2. QED
    BY <1>1, <1>p, <1>b, <2>1 DEF RunAsync, SeqInv
<1>2. CASE MarkRunning
  BY <1>2, MoveFields DEF MarkRunning, SeqInv
<1>3. CASE OpenCheckpoint
  <2>1. eng.trace = <<>> /\ eng.round = 1 /\ saved.seq = -1 /\ eng.pend = "none" /\ eng.batch = <<>>
    BY <1>3 DEF OpenCheckpoint, FlowInv, ActInv
  <2>2. Is(eng', "top", eng.how, eng.loop, eng.round, eng.trace, eng.batch)
    BY <1>3, MoveFields
  <2>3. saved'.seq = 0 /\ saved'.trace = <<>> /\ saved'.pend = "none"
    BY <1>3, <2>1, OpenSaved
  <2>4. QED
    BY <1>b, <2>1, <2>2, <2>3 DEF SeqInv
<1>4. ASSUME NEW approve \in BOOLEAN, ResumeAsync(approve)
      PROVE SeqInv'
  <2>1. PICK l \in {"portable", "native"}, h \in {"model", "approved"} :
          Is(eng', "resuming", h, l, 1, saved.trace, <<>>)
    BY <1>4, ResumeAsyncFields
  <2>2. saved' = saved
    BY <1>4 DEF ResumeAsync
  <2>3. QED
    BY <1>b, <2>1, <2>2 DEF SeqInv
<1>5. CASE ResumeLoop
  BY <1>5, <1>a, <1>p, ResumeFields, SMTT(30) DEF ResumeLoop, SeqInv
<1>6. CASE ResumeHold
  <2>1. /\ Is(eng', "status", eng.how, eng.loop, eng.round, eng.trace, eng.batch)
        /\ Holds(eng', saved.pend, saved.act)
        /\ eng'.seq = Len(eng.trace)
    BY <1>6, HoldFields
  <2>2. saved' = saved /\ eng.pc = "resuming"
    BY <1>6 DEF ResumeHold
  <2>3. SavedSeq' /\ LoopSeq' /\ ResumeSeq'
    BY <2>1, <2>2 DEF SeqInv
  <2>4. (eng.seq <= Len(eng.trace) + 1)'
    BY <1>a, <2>1
  <2>5. saved.pend = "in_flight" => Len(eng.trace) < saved.seq
    BY <1>a, <2>2 DEF SeqInv
  <2>6. EndSeq'
    BY <2>1, <2>2, <2>4, <2>5
  <2>7. QED
    BY <2>3, <2>6 DEF SeqInv
<1>7. CASE ResumeInFlight
  <2>1. /\ Is(eng', "status", eng.how, eng.loop, eng.round, eng.trace, eng.batch)
        /\ Holds(eng', "none", eng.act)
        /\ eng'.seq = Len(eng.trace)
    BY <1>7, InFlightFields DEF ResumeInFlight, ActInv
  <2>2. saved' = saved /\ eng.pc = "resuming"
    BY <1>7 DEF ResumeInFlight
  <2>3. SavedSeq' /\ LoopSeq' /\ ResumeSeq'
    BY <2>1, <2>2 DEF SeqInv
  <2>4. (eng.seq <= Len(eng.trace) + 1)'
    BY <1>a, <2>1
  <2>5. QED
    BY <2>1, <2>3, <2>4 DEF SeqInv
<1>8. CASE ResumeApproved
  <2>1. /\ Is(eng', "exec", eng.how, eng.loop, eng.round, eng.trace, eng.batch)
        /\ Holds(eng', eng.pend, saved.act)
    BY <1>8, ResumeFields
  <2>2. /\ saved' = saved /\ eng.pc = "resuming" /\ eng.how = "approved"
        /\ saved.pend = "awaiting_approval" /\ eng.round = 1
    BY <1>8 DEF ResumeApproved, FlowInv
  <2>3. SavedSeq' /\ EndSeq' /\ ResumeSeq'
    BY <2>1, <2>2 DEF SeqInv
  <2>4. (eng.round <= Len(eng.trace) + 1)'
    BY <1>a, <2>1, <2>2
  <2>5. LoopSeq'
    BY <2>1, <2>2, <2>4 DEF SeqInv
  <2>6. QED
    BY <2>3, <2>5 DEF SeqInv
<1>9. CASE LoopEnds
  <2>1. PICK t \in {eng.trace, Append(eng.trace, 0)} :
          Is(eng', "status", eng.how, eng.loop, eng.round, t, eng.batch)
    BY <1>9, LoopEndsFields
  <2>2. eng'.pend = "none" /\ eng'.seq \in Nat /\ eng'.seq <= eng.round
    BY <1>9, LoopEndsFields, LoopEndsFrame DEF ActInv
  <2>3. Len(t) \in Nat /\ Len(t) >= Len(eng.trace)
    <3>1. CASE t = eng.trace
      BY <1>a, <3>1
    <3>2. CASE t = Append(eng.trace, 0)
      BY <1>a, <1>b, <3>2, SMTT(30)
    <3>3. QED
      BY <2>1, <3>1, <3>2
  <2>4. saved' = saved /\ eng.pc \in {"top", "model"}
    BY <1>9, LoopEndsFrame
  <2>5. eng.round <= Len(eng.trace) + 1
    BY <2>4 DEF SeqInv
  <2>6. eng'.seq <= Len(t) + 1
    BY <1>a, <2>2, <2>3, <2>5, Z3T(30)
  <2>7. SavedSeq' /\ LoopSeq' /\ ResumeSeq'
    BY <2>1, <2>4 DEF SeqInv
  <2>8. QED
    BY <2>1, <2>2, <2>6, <2>7 DEF SeqInv
<1>10. CASE CallModel
  BY <1>10, MoveFields DEF CallModel, SeqInv
<1>11. CASE ModelFails
  <2>1. GoesOn(Append(eng.trace, 0), "none", eng.act)
    BY <1>11, ModelFailsFields DEF ModelFails, ActInv
  <2>2. eng.pc = "model" /\ saved' = saved /\ eng.batch = <<>>
    BY <1>11 DEF ModelFails, ActInv
  <2>3. /\ eng.round <= Len(eng.trace) + 1
        /\ eng.loop = "portable" => eng.round = Len(eng.trace) + 1
    BY <2>2 DEF SeqInv, ActInv
  <2>4. /\ eng'.trace = Append(eng.trace, 0) /\ eng'.pend = "none" /\ eng'.how = "model"
        /\ eng'.loop = eng.loop /\ eng'.batch = <<>>
        /\ \/ eng'.pc = "top" /\ eng'.round = eng.round + 1
           \/ eng'.pc = "status" /\ eng'.seq = eng.round
    BY <1>b, <2>1, <2>2 DEF GoesOn, Holds, ActInv
  <2>5. Len(eng'.trace) = Len(eng.trace) + 1
    BY <1>b, <2>4
  <2>6. LoopSeq'
    <3>1. Len(eng'.batch) <= 1
      BY <1>b, <2>4
    <3>2. CASE eng'.pc = "top"
      <4>1. eng'.round = eng.round + 1 /\ eng'.loop = eng.loop
        BY <2>4, <3>2
      <4>2. (eng.round <= Len(eng.trace) + 1)'
        BY <1>a, <2>3, <2>5, <4>1, SMTT(30)
      <4>3. (eng.loop = "portable" => eng.round = Len(eng.trace) + 1)'
        BY <1>a, <2>3, <2>5, <4>1, Z3
      <4>4. QED
        BY <3>1, <4>2, <4>3
    <3>3. CASE eng'.pc = "status"
      BY <3>1, <3>3
    <3>4. QED
      BY <2>4, <3>2, <3>3
  <2>7. EndSeq'
    BY <1>a, <2>3, <2>4, <2>5, SMTT(30)
  <2>8. SavedSeq' /\ ResumeSeq'
    BY <2>2, <2>4 DEF SeqInv
  <2>9. QED
    BY <2>6, <2>7, <2>8 DEF SeqInv
<1>12. CASE Fallback
  BY <1>12, <1>b, FallbackFields DEF Fallback, SeqInv, ActInv
<1>13. CASE ToolCalls
  <2>1. PICK b \in Seq(Calls) :
          /\ Is(eng', "dispatch", eng.how, eng.loop, eng.round, eng.trace, b)
          /\ eng.loop = "portable" => Len(b) <= 1
    BY <1>13, ToolCallsFields
  <2>2. QED
    BY <1>13, <2>1 DEF ToolCalls, SeqInv
<1>14. CASE WriteInFlight
  <2>1. /\ CallSeq < saved.seq => saved' = saved
        /\ ~(CallSeq < saved.seq) => /\ saved'.seq = CallSeq /\ saved'.trace = eng.trace
                                     /\ saved'.pend = "in_flight"
    BY <1>14, InFlightSaved
  <2>2. CallSeq = Len(eng.trace) + 1 /\ eng.pc = "dispatch" /\ eng.how = "model"
    BY <1>14, CallSeqNext DEF WriteInFlight, ActInv
  <2>3. Is(eng', "exec", eng.how, eng.loop, eng.round, eng.trace, eng.batch)
    BY <1>14, WriteInFlightFields
  <2>4. SavedSeq'
    <3>1. CASE CallSeq < saved.seq
      BY <2>1, <3>1 DEF SeqInv
    <3>2. CASE ~(CallSeq < saved.seq)
      <4>1. saved'.seq = Len(eng.trace) + 1 /\ saved'.trace = eng.trace
        BY <2>1, <2>2, <3>2
      <4>2. saved'.seq = Len(saved'.trace) + 1
        BY <4>1
      <4>3. QED
        BY <1>p, <4>2
    <3>3. QED
      BY <3>1, <3>2
  <2>5. LoopSeq' /\ EndSeq' /\ ResumeSeq'
    BY <2>2, <2>3 DEF SeqInv
  <2>6. QED
    BY <2>4, <2>5 DEF SeqInv
<1>c. ASSUME NEW obs, eng.pc = "exec", Observed(obs), saved' = saved
      PROVE SeqInv'
  BY <1>c, ObservedFields DEF ActInv, SeqInv
<1>15. CASE BudgetBlocks
  BY <1>15, <1>c DEF BudgetBlocks
<1>16. CASE ToolRejected
  BY <1>16, <1>c DEF ToolRejected
<1>17. CASE ApprovalDenied
  BY <1>17, <1>c DEF ApprovalDenied
<1>18. ASSUME NEW obs \in {"ok", "failed"}, ToolRuns(obs)
       PROVE SeqInv'
  BY <1>18, <1>c DEF ToolRuns
<1>d. ASSUME eng.pc = "observe", Checkpoint(CallSeq, Settled)
      PROVE  SavedSeq'
  <2>1. CallSeq = Len(eng.trace) + 1
    BY <1>d, CallSeqNext
  <2>2. /\ CallSeq < saved.seq => saved' = saved
        /\ ~(CallSeq < saved.seq) => /\ saved'.seq = CallSeq
                                     /\ saved'.trace = Append(eng.trace, eng.act.id)
                                     /\ saved'.pend = "none"
    BY <1>d, SettledSaved
  <2>3. CASE CallSeq < saved.seq
    BY <2>2, <2>3 DEF SeqInv
  <2>4. CASE ~(CallSeq < saved.seq)
    BY <1>a, <1>b, <2>1, <2>2, <2>4, SMTT(30)
  <2>5. QED
    BY <2>3, <2>4
<1>19. CASE AwaitApproval
  <2>1. eng.pc = "observe" /\ Checkpoint(CallSeq, Settled) /\ eng.how = "model"
    BY <1>19 DEF AwaitApproval
  <2>2. /\ Is(eng', "status", eng.how, eng.loop, eng.round,
              Append(eng.trace, eng.act.id), eng.batch)
        /\ eng'.pend = "awaiting_approval" /\ eng'.seq = eng.round
    BY <1>19, AwaitFields
  <2>3. QED
    BY <1>a, <1>p, <1>b, <1>d, <2>1, <2>2, SMTT(30) DEF SeqInv
<1>20. CASE RecordObservation
  <2>1. eng.pc = "observe" /\ Checkpoint(CallSeq, Settled) /\ eng.how = "model"
    BY <1>20 DEF RecordObservation
  <2>2. GoesOn(Append(eng.trace, eng.act.id), "none", NoAction)
    BY <1>20, RecordFields
  <2>3. Len(eng.batch) > 1 => Len(Tail(eng.batch)) = Len(eng.batch) - 1
    BY <1>a, TailLength
  <2>4. eng'.how = "model" /\ eng'.loop = eng.loop /\ eng'.trace = Append(eng.trace, eng.act.id)
        /\ eng'.pend = "none"
    BY <2>1, <2>2 DEF GoesOn
  <2>5. eng.round <= Len(eng.trace) + 1
        /\ (eng.loop = "portable" => eng.round = Len(eng.trace) + 1 /\ Len(eng.batch) <= 1)
    BY <2>1 DEF SeqInv
  <2>6. \/ /\ eng'.pc = "dispatch" /\ eng'.round = eng.round
           /\ Len(eng.batch) > 1 /\ eng'.batch = Tail(eng.batch)
        \/ eng'.pc = "top" /\ eng'.round = eng.round + 1 /\ eng'.batch = <<>>
        \/ eng'.pc = "status" /\ eng'.seq = eng.round /\ eng'.batch = eng.batch
    BY <2>2 DEF GoesOn
  <2>7. Len(eng'.trace) = Len(eng.trace) + 1
    BY <1>b, <2>4
  <2>8. LoopSeq'
    <3>1. CASE eng'.pc = "dispatch"
      BY <1>a, <2>3, <2>4, <2>5, <2>6, <2>7, <3>1, SMTT(30)
    <3>2. CASE eng'.pc = "top"
      BY <1>a, <1>b, <2>4, <2>5, <2>6, <2>7, <3>2, SMTT(30)
    <3>3. CASE eng'.pc = "status"
      BY <2>4, <2>5, <2>6, <3>3
    <3>4. QED
      BY <2>6, <3>1, <3>2, <3>3
  <2>9. EndSeq'
    BY <1>a, <2>4, <2>5, <2>6, <2>7, SMTT(30)
  <2>10. SavedSeq' /\ ResumeSeq'
    BY <1>d, <2>1, <2>4, <2>6
  <2>11. QED
    BY <2>8, <2>9, <2>10 DEF SeqInv
<1>21. CASE RecordApproved
  <2>1. eng.pc = "observe" /\ Checkpoint(CallSeq, Settled) /\ eng.how = "approved"
        /\ eng.batch = <<>>
    BY <1>21 DEF RecordApproved, ActInv
  <2>2. /\ eng'.pend = "none"
        /\ \/ Is(eng', "top", "model", eng.loop, Len(eng.trace) + 2,
                 Append(eng.trace, eng.act.id), eng.batch)
           \/ /\ Is(eng', "status", eng.how, eng.loop, eng.round,
                    Append(eng.trace, eng.act.id), eng.batch)
              /\ eng'.seq = Len(eng.trace) + 1
    BY <1>21, ApprovedFields
  <2>3. /\ eng'.trace = Append(eng.trace, eng.act.id) /\ eng'.batch = <<>>
        /\ \/ eng'.pc = "top" /\ eng'.round = Len(eng.trace) + 2
           \/ eng'.pc = "status" /\ eng'.seq = Len(eng.trace) + 1
    BY <2>1, <2>2
  <2>4. Len(eng'.trace) = Len(eng.trace) + 1
    BY <1>b, <2>3
  <2>5. LoopSeq'
    <3>1. Len(eng'.batch) <= 1
      BY <1>b, <2>3
    <3>2. CASE eng'.pc = "top"
      BY <1>a, <2>3, <2>4, <3>1, <3>2, Z3
    <3>3. CASE eng'.pc = "status"
      BY <3>1, <3>3
    <3>4. QED
      BY <2>3, <3>2, <3>3
  <2>6. EndSeq'
    BY <1>a, <2>2, <2>3, <2>4
  <2>7. SavedSeq' /\ ResumeSeq'
    BY <1>d, <2>1, <2>3
  <2>8. QED
    BY <2>5, <2>6, <2>7 DEF SeqInv
<1>22. CASE CommitStatus
  BY <1>22, MoveFields DEF CommitStatus, SeqInv
<1>23. CASE FinalCheckpoint
  <2>1. /\ eng.seq < saved.seq => saved' = saved
        /\ ~(eng.seq < saved.seq) => /\ saved'.seq = eng.seq /\ saved'.trace = eng.trace
                                     /\ saved'.pend = eng.pend
    BY <1>23, FinalSaved
  <2>2. eng' = Off /\ eng.pc = "final"
    BY <1>23 DEF FinalCheckpoint
  <2>3. SavedSeq'
    <3>1. CASE eng.seq < saved.seq
      BY <2>1, <3>1 DEF SeqInv
    <3>2. CASE ~(eng.seq < saved.seq)
      <4>1. eng.seq <= Len(eng.trace) + 1 /\ eng.pend # "in_flight"
        BY <2>2, <3>2 DEF SeqInv
      <4>2. QED
        BY <2>1, <3>2, <4>1
    <3>3. QED
      BY <3>1, <3>2
  <2>4. LoopSeq' /\ EndSeq' /\ ResumeSeq'
    BY <1>b, <2>2, OffFields
  <2>5. QED
    BY <2>3, <2>4 DEF SeqInv
<1>24. CASE Cancel \/ ResetCancel
  BY <1>24 DEF Cancel, ResetCancel, SeqInv
<1>25. CASE Crash
  BY <1>25, <1>b, OffFields DEF Crash, SeqInv
<1>26. CASE UNCHANGED vars
  BY <1>26 DEF vars, SeqInv
<1>27. QED
  BY <1>1, <1>2, <1>3, <1>4, <1>5, <1>6, <1>7, <1>8, <1>9, <1>10, <1>11, <1>12, <1>13,
     <1>14, <1>15, <1>16, <1>17, <1>18, <1>19, <1>20, <1>21, <1>22, <1>23, <1>24, <1>25,
     <1>26 DEF Next, EngineStep, LoopEnds

----------------------------------------------------------------------------
(* LedgerInv is preserved.                                                  *)

LEMMA AppendDomain ==
    ASSUME NEW S, NEW s \in Seq(S), NEW x, NEW t \in Seq(S), t = Append(s, x)
    PROVE  /\ DOMAIN t = DOMAIN s \cup {Len(s) + 1}
           /\ \A i \in DOMAIN s : t[i] = s[i]
           /\ t[Len(s) + 1] = x
OBVIOUS

LEMMA IdsAppend ==
    ASSUME NEW s \in Seq(Nat), NEW x \in Nat
    PROVE  Ids(Append(s, x)) = Ids(s) \cup ({x} \ {0})
<1> DEFINE t == Append(s, x)
<1>1. t \in Seq(Nat)
  BY AppendProperties
<1>2. /\ DOMAIN t = DOMAIN s \cup {Len(s) + 1}
      /\ \A i \in DOMAIN s : t[i] = s[i]
      /\ t[Len(s) + 1] = x
  BY <1>1, AppendDomain, SMTT(30)
<1> HIDE DEF t
<1>3. {t[i] : i \in DOMAIN t} = {s[i] : i \in DOMAIN s} \cup {x}
  <2>1. ASSUME NEW i \in DOMAIN t
        PROVE  t[i] \in {s[j] : j \in DOMAIN s} \cup {x}
    BY <1>2
  <2>2. ASSUME NEW i \in DOMAIN s
        PROVE  s[i] \in {t[j] : j \in DOMAIN t}
    BY <1>2
  <2>3. x \in {t[j] : j \in DOMAIN t}
    BY <1>2
  <2>4. QED
    BY <2>1, <2>2, <2>3
<1>4. QED
  BY <1>3 DEF Ids, t

LEMMA DoneAppend ==
    ASSUME TypeOK, TypeOK', NEW obs, ToolRuns(obs)
    PROVE  Done' = Done \cup {eng.act.id}
<1> DEFINE w == [call |-> eng.act.call, id |-> eng.act.id,
                 clear |-> eng.act.clear, how |-> eng.how]
<1>1. /\ world' = Append(world, w) /\ world \in Seq(Effect) /\ world' \in Seq(Effect)
      /\ w.id = eng.act.id
  BY DEF ToolRuns, TypeOK
<1> HIDE DEF w
<1>2. /\ DOMAIN world' = DOMAIN world \cup {Len(world) + 1}
      /\ \A i \in DOMAIN world : world'[i] = world[i]
      /\ world'[Len(world) + 1] = w
  BY <1>1, AppendDomain
<1>3. QED
  BY <1>1, <1>2 DEF Done

LEMMA DoneStep ==
    ASSUME UNCHANGED world
    PROVE  Done' = Done
BY DEF Done

LEMMA LedgerInit == Init => LedgerInv
<1> SUFFICES ASSUME Init PROVE LedgerInv
  OBVIOUS
<1>1. eng.pc = "off" /\ world = <<>>
  BY DEF Init, Off
<1>2. Done = {}
  BY <1>1 DEF Done
<1>3. QED
  BY <1>1, <1>2 DEF LedgerInv, OnRecord, LoopLedger, ExecLedger, EndLedger, Looping,
                    Executing, Ending

LEMMA LedgerStep ==
    TypeOK /\ TypeOK' /\ ActInv /\ FlowInv /\ SeqInv /\ LedgerInv /\ [Next]_vars => LedgerInv'
<1> SUFFICES ASSUME TypeOK, TypeOK', ActInv, FlowInv, SeqInv, LedgerInv, [Next]_vars
             PROVE  LedgerInv'
  OBVIOUS
<1> USE DEF Executing, Ending, Approved, Looping, Is, Holds, Pending
<1> USE DEF OnRecord, LoopLedger, ExecLedger, EndLedger
<1>a. /\ eng.round \in Nat /\ eng.trace \in Seq(Nat) /\ Len(eng.trace) \in Nat
      /\ eng.act.id \in Nat /\ eng.seq \in Nat
      /\ Len(saved.trace) \in Nat /\ saved.seq \in Int
  BY EngFacts, SavedFacts DEF TypeOK
<1>b. /\ Len(Append(eng.trace, 0)) = Len(eng.trace) + 1
      /\ Len(Append(eng.trace, eng.act.id)) = Len(eng.trace) + 1
      /\ Ids(Append(eng.trace, 0)) = Ids(eng.trace)
      /\ Ids(Append(eng.trace, eng.act.id)) = Ids(eng.trace) \cup ({eng.act.id} \ {0})
  <2>1. /\ Len(Append(eng.trace, 0)) = Len(eng.trace) + 1
        /\ Len(Append(eng.trace, eng.act.id)) = Len(eng.trace) + 1
    BY <1>a, AppendLength
  <2>2. Ids(Append(eng.trace, eng.act.id)) = Ids(eng.trace) \cup ({eng.act.id} \ {0})
    BY <1>a, IdsAppend
  <2>3. Ids(Append(eng.trace, 0)) = Ids(eng.trace) \cup ({0} \ {0})
    BY <1>a, IdsAppend
  <2>4. Ids(eng.trace) \cup ({0} \ {0}) = Ids(eng.trace)
    OBVIOUS
  <2>5. QED
    BY <2>1, <2>2, <2>3, <2>4
<1>1. CASE RunAsync
  <2>1. eng'.pc = "created" /\ saved' = saved /\ hist' = hist /\ Done' = Done
    BY <1>1, RunAsyncFields, DoneStep DEF RunAsync
  <2>2. QED
    BY <2>1 DEF LedgerInv
<1>2. CASE MarkRunning
  <2>1. eng'.pc = "opening" /\ saved' = saved /\ hist' = hist /\ Done' = Done
    BY <1>2, MoveFields, DoneStep DEF MarkRunning
  <2>2. QED
    BY <2>1 DEF LedgerInv
<1>3. CASE OpenCheckpoint
  <2>1. saved.seq = -1 /\ world = <<>> /\ eng.pend = "none" /\ UNCHANGED world
    BY <1>3 DEF OpenCheckpoint, FlowInv, ActInv
  <2>2. Done = {} /\ Done' = Done
    BY <2>1, DoneStep DEF Done
  <2>3. eng'.pc = "top" /\ eng'.trace = eng.trace
    BY <1>3, MoveFields
  <2>4. saved'.seq = 0
    BY <1>3, <2>1, OpenSaved
  <2>5. QED
    BY <1>a, <2>2, <2>3, <2>4 DEF LedgerInv
<1>4. ASSUME NEW approve \in BOOLEAN, ResumeAsync(approve)
      PROVE LedgerInv'
  <2>1. eng'.pc = "resuming"
    <3>1. PICK l \in {"portable", "native"}, h \in {"model", "approved"} :
            Is(eng', "resuming", h, l, 1, saved.trace, <<>>)
      BY <1>4, ResumeAsyncFields
    <3>2. QED
      BY <3>1
  <2>2. saved' = saved /\ hist'.fellBack = hist.fellBack /\ Done' = Done
    BY <1>4, DoneStep DEF ResumeAsync, TypeOK
  <2>3. QED
    BY <2>1, <2>2 DEF LedgerInv
<1>5. CASE ResumeLoop
  <2>1. eng'.pc = "top" /\ eng'.trace = saved.trace
    BY <1>5, ResumeFields DEF ResumeLoop, SeqInv, ResumeSeq
  <2>2. saved' = saved /\ hist' = hist /\ Done' = Done /\ saved.pend = "none"
    BY <1>5, DoneStep DEF ResumeLoop
  <2>3. saved.seq <= Len(saved.trace) + 1
    BY DEF SeqInv, SavedSeq
  <2>4. QED
    BY <2>1, <2>2, <2>3 DEF LedgerInv
<1>6. CASE ResumeHold
  <2>1. eng'.pc = "status" /\ eng'.trace = saved.trace /\ eng'.pend = saved.pend
        /\ eng'.act = saved.act
    BY <1>6, HoldFields DEF ResumeHold, SeqInv, ResumeSeq
  <2>2. saved' = saved /\ hist' = hist /\ Done' = Done
    BY <1>6, DoneStep DEF ResumeHold
  <2>3. QED
    BY <2>1, <2>2 DEF LedgerInv
<1>7. CASE ResumeInFlight
  <2>1. eng'.pc = "status" /\ eng'.seq = Len(saved.trace)
    BY <1>7, InFlightFields DEF ResumeInFlight, SeqInv, ResumeSeq
  <2>2. saved' = saved /\ hist' = hist /\ Done' = Done
    BY <1>7, DoneStep DEF ResumeInFlight
  <2>3. saved.seq = Len(saved.trace) + 1
    BY <1>7 DEF ResumeInFlight, SeqInv, SavedSeq
  <2>4. eng'.seq < saved.seq
    BY <1>a, <2>1, <2>3
  <2>5. QED
    BY <2>1, <2>2, <2>4 DEF LedgerInv
<1>8. CASE ResumeApproved
  <2>1. eng'.pc = "exec" /\ eng'.trace = saved.trace /\ eng'.act = saved.act
    BY <1>8, ResumeFields DEF ResumeApproved, SeqInv, ResumeSeq
  <2>2. saved' = saved /\ hist' = hist /\ Done' = Done /\ saved.pend # "none"
    BY <1>8, DoneStep DEF ResumeApproved
  <2>3. saved.seq <= Len(saved.trace) + 1
    BY DEF SeqInv, SavedSeq
  <2>4. QED
    BY <2>1, <2>2, <2>3 DEF LedgerInv
<1>9. CASE LoopEnds
  <2>1. eng'.pc = "status"
    BY <1>9, LoopEndsFields
  <2>2. Ids(eng'.trace) = Ids(eng.trace)
    <3>1. PICK t \in {eng.trace, Append(eng.trace, 0)} :
            Is(eng', "status", eng.how, eng.loop, eng.round, t, eng.batch)
      BY <1>9, LoopEndsFields
    <3>2. QED
      BY <1>b, <3>1
  <2>3. saved' = saved /\ hist' = hist /\ Done' = Done /\ eng.pc \in {"top", "model"}
    BY <1>9, LoopEndsFrame, DoneStep
  <2>4. QED
    BY <2>1, <2>2, <2>3 DEF LedgerInv
<1>10. CASE CallModel
  <2>1. eng'.pc = "model" /\ eng'.trace = eng.trace /\ eng.pc = "top"
    BY <1>10, MoveFields DEF CallModel
  <2>2. saved' = saved /\ hist' = hist /\ Done' = Done
    BY <1>10, DoneStep DEF CallModel
  <2>3. QED
    BY <2>1, <2>2 DEF LedgerInv
<1>11. CASE ModelFails
  <2>1. /\ eng'.trace = Append(eng.trace, 0) /\ eng'.pc \in {"dispatch", "top", "status"}
        /\ eng.pc = "model"
    BY <1>11, ModelFailsFields DEF GoesOn, ModelFails
  <2>2. saved' = saved /\ hist' = hist /\ Done' = Done
    BY <1>11, DoneStep DEF ModelFails
  <2>3. ~hist.fellBack => saved.seq <= Len(eng.trace) + 1 /\ Done \subseteq Ids(eng.trace)
    BY <2>1 DEF LedgerInv
  <2>4. ~hist.fellBack => saved'.seq <= Len(eng'.trace) + 1
    BY <1>a, <1>b, <2>1, <2>2, <2>3, SMTT(30)
  <2>5. ~hist.fellBack => Done' \subseteq Ids(eng'.trace)
    BY <1>b, <2>1, <2>2, <2>3
  <2>6. QED
    BY <2>1, <2>2, <2>4, <2>5 DEF LedgerInv
<1>12. CASE Fallback
  <2>1. hist'.fellBack
    BY <1>12 DEF Fallback, TypeOK
  <2>2. QED
    BY <2>1 DEF LedgerInv
<1>13. CASE ToolCalls
  <2>1. eng'.pc = "dispatch" /\ eng'.trace = eng.trace /\ eng.pc = "model"
    BY <1>13, ToolCallsFields DEF ToolCalls
  <2>2. saved' = saved /\ hist' = hist /\ Done' = Done
    BY <1>13, DoneStep DEF ToolCalls
  <2>3. QED
    BY <2>1, <2>2 DEF LedgerInv
<1>14. CASE WriteInFlight
  <2>1. CallSeq = Len(eng.trace) + 1 /\ eng.pc = "dispatch"
    BY <1>14, CallSeqNext DEF WriteInFlight
  <2>2. ~hist.fellBack => saved.seq <= Len(eng.trace) + 1 /\ Done \subseteq Ids(eng.trace)
    BY <2>1 DEF LedgerInv
  <2>3. ~hist.fellBack => ~(CallSeq < saved.seq)
    BY <1>a, <2>1, <2>2, Z3T(40)
  <2>4. ~(CallSeq < saved.seq) => /\ saved'.seq = CallSeq /\ saved'.trace = eng.trace
                                  /\ saved'.pend = "in_flight"
                                  /\ saved'.act.id = hist.issued + 1
    BY <1>14, InFlightSaved
  <2>5. /\ eng'.pc = "exec" /\ eng'.trace = eng.trace /\ eng'.act.id = hist.issued + 1
        /\ hist'.fellBack = hist.fellBack /\ Done' = Done
    BY <1>14, WriteInFlightFields, DoneStep DEF WriteInFlight, TypeOK
  <2>6. ~hist.fellBack => saved'.seq <= Len(eng'.trace) + 1
    BY <1>a, <2>1, <2>3, <2>4, <2>5
  <2>7. QED
    BY <2>2, <2>3, <2>4, <2>5, <2>6 DEF LedgerInv
<1>c. ASSUME NEW obs, eng.pc = "exec", Observed(obs), saved' = saved, hist' = hist,
             Done' \subseteq Done \cup {eng.act.id}
      PROVE  LedgerInv'
  <2>1. eng'.pc = "observe" /\ eng'.trace = eng.trace /\ eng'.act = eng.act
    BY <1>c, ObservedFields DEF ActInv
  <2>2. QED
    BY <1>c, <2>1 DEF LedgerInv
<1>15. CASE BudgetBlocks
  BY <1>15, <1>c, DoneStep DEF BudgetBlocks
<1>16. CASE ToolRejected
  BY <1>16, <1>c, DoneStep DEF ToolRejected
<1>17. CASE ApprovalDenied
  BY <1>17, <1>c, DoneStep DEF ApprovalDenied
<1>18. ASSUME NEW obs \in {"ok", "failed"}, ToolRuns(obs)
       PROVE LedgerInv'
  <2>1. Done' = Done \cup {eng.act.id}
    BY <1>18, DoneAppend
  <2>2. QED
    BY <1>18, <1>c, <2>1 DEF ToolRuns
<1>d. ASSUME eng.pc = "observe", Checkpoint(CallSeq, Settled), ~hist.fellBack
      PROVE  /\ saved'.seq = Len(eng.trace) + 1
             /\ saved'.trace = Append(eng.trace, eng.act.id)
             /\ Done \subseteq Ids(Append(eng.trace, eng.act.id))
  <2>1. CallSeq = Len(eng.trace) + 1
    BY <1>d, CallSeqNext
  <2>2. saved.seq <= Len(eng.trace) + 1 /\ Done \subseteq Ids(eng.trace) \cup {eng.act.id}
    BY <1>d DEF LedgerInv
  <2>3. ~(CallSeq < saved.seq)
    BY <1>a, <2>1, <2>2, Z3
  <2>4. saved'.seq = CallSeq /\ saved'.trace = Append(eng.trace, eng.act.id)
    BY <1>d, <2>3, SettledSaved
  <2>5. eng.act.id # 0
    BY <1>a, <1>d DEF ActInv
  <2>6. QED
    BY <1>b, <2>1, <2>2, <2>4, <2>5
<1>e. ASSUME eng.pc = "observe", Checkpoint(CallSeq, Settled), Observe, Done' = Done,
             eng'.trace = Append(eng.trace, eng.act.id), eng'.pc \in {"dispatch", "top", "status"}
      PROVE  LedgerInv'
  <2>1. hist'.fellBack = hist.fellBack
    BY <1>e DEF Observe, TypeOK
  <2>2. ~hist.fellBack => saved'.seq <= Len(eng'.trace) + 1
    BY <1>a, <1>b, <1>d, <1>e
  <2>3. ~hist.fellBack => Done' \subseteq Ids(saved'.trace) /\ Done' \subseteq Ids(eng'.trace)
    BY <1>d, <1>e
  <2>4. QED
    BY <1>e, <2>1, <2>2, <2>3 DEF LedgerInv
<1>19. CASE AwaitApproval
  <2>1. eng'.pc = "status" /\ eng'.trace = Append(eng.trace, eng.act.id)
    BY <1>19, AwaitFields
  <2>2. QED
    BY <1>19, <1>e, <2>1, DoneStep DEF AwaitApproval
<1>20. CASE RecordObservation
  <2>1. eng'.pc \in {"dispatch", "top", "status"} /\ eng'.trace = Append(eng.trace, eng.act.id)
    BY <1>20, RecordFields DEF GoesOn
  <2>2. QED
    BY <1>20, <1>e, <2>1, DoneStep DEF RecordObservation
<1>21. CASE RecordApproved
  <2>1. eng'.pc \in {"top", "status"} /\ eng'.trace = Append(eng.trace, eng.act.id)
    BY <1>21, ApprovedFields
  <2>2. QED
    BY <1>21, <1>e, <2>1, DoneStep DEF RecordApproved
<1>22. CASE CommitStatus
  <2>1. /\ eng'.pc = "final" /\ eng.pc = "status"
        /\ eng'.trace = eng.trace /\ eng'.pend = eng.pend /\ eng'.act = eng.act
        /\ eng'.seq = eng.seq
    BY <1>22, MoveFields DEF CommitStatus
  <2>2. saved' = saved /\ hist' = hist /\ Done' = Done
    BY <1>22, DoneStep DEF CommitStatus
  <2>3. QED
    BY <2>1, <2>2 DEF LedgerInv
<1>23. CASE FinalCheckpoint
  <2>1. /\ eng.seq < saved.seq => saved' = saved
        /\ ~(eng.seq < saved.seq) => /\ saved'.trace = eng.trace /\ saved'.pend = eng.pend
                                     /\ eng.pend # "none" => saved'.act.id = eng.act.id
    BY <1>23, FinalSaved
  <2>2. eng'.pc = "off" /\ eng.pc = "final" /\ hist' = hist /\ Done' = Done
    BY <1>23, OffFields, DoneStep DEF FinalCheckpoint
  <2>3. CASE eng.seq < saved.seq
    BY <2>1, <2>2, <2>3 DEF LedgerInv
  <2>4. CASE ~(eng.seq < saved.seq)
    <3>1. ~hist.fellBack => Done \subseteq Ids(eng.trace) \cup Pending(eng)
      BY <2>2, <2>4 DEF LedgerInv
    <3>2. Pending(saved') = Pending(eng) /\ saved'.trace = eng.trace
      BY <2>1, <2>4
    <3>3. QED
      BY <2>2, <3>1, <3>2 DEF LedgerInv
  <2>5. QED
    BY <2>3, <2>4
<1>24. CASE Cancel \/ ResetCancel
  <2>1. eng' = eng /\ saved' = saved /\ hist' = hist /\ Done' = Done
    BY <1>24, DoneStep DEF Cancel, ResetCancel
  <2>2. QED
    BY <2>1 DEF LedgerInv
<1>25. CASE Crash
  <2>1. eng'.pc = "off" /\ saved' = saved /\ hist'.fellBack = hist.fellBack /\ Done' = Done
    BY <1>25, OffFields, DoneStep DEF Crash, TypeOK
  <2>2. QED
    BY <2>1 DEF LedgerInv
<1>26. CASE UNCHANGED vars
  <2>1. eng' = eng /\ saved' = saved /\ hist' = hist /\ Done' = Done
    BY <1>26, DoneStep DEF vars
  <2>2. QED
    BY <2>1 DEF LedgerInv
<1>27. QED
  BY <1>1, <1>2, <1>3, <1>4, <1>5, <1>6, <1>7, <1>8, <1>9, <1>10, <1>11, <1>12, <1>13,
     <1>14, <1>15, <1>16, <1>17, <1>18, <1>19, <1>20, <1>21, <1>22, <1>23, <1>24, <1>25,
     <1>26 DEF Next, EngineStep, LoopEnds

----------------------------------------------------------------------------
(* RerunInv is preserved.                                                   *)

LEMMA RerunInit == Init => RerunInv
<1> SUFFICES ASSUME Init PROVE RerunInv
  OBVIOUS
<1>1. /\ eng.pc = "off" /\ eng.act.id = 0 /\ world = <<>> /\ hist.issued = 0
      /\ saved.act.id = 0 /\ saved.pend = "none"
  BY DEF Init, Off, NoAction
<1>2. Done = {} /\ DOMAIN world = {}
  BY <1>1 DEF Done
<1>3. QED
  BY <1>1, <1>2 DEF RerunInv, Issued, FreshCall, EndUnrun, SavedUnrun, NoUnapprovedRerun,
                    Executing, Ending, Approved

LEMMA RerunStep ==
    TypeOK /\ TypeOK' /\ ActInv /\ FlowInv /\ SeqInv /\ RerunInv /\ [Next]_vars => RerunInv'
<1> SUFFICES ASSUME TypeOK, TypeOK', ActInv, FlowInv, SeqInv, RerunInv, [Next]_vars
             PROVE  RerunInv'
  OBVIOUS
<1> USE DEF Executing, Ending, Approved, Looping, Is, Holds
<1> USE DEF Issued, FreshCall, EndUnrun, SavedUnrun, Unrun
<1>a. /\ eng.act.id \in Nat /\ hist.issued \in Nat /\ saved.seq \in Int
      /\ Len(eng.trace) \in Nat /\ Len(saved.trace) \in Nat
  BY EngFacts, SavedFacts DEF TypeOK
<1>b. UNCHANGED <<world, hist>> => Done' = Done /\ NoUnapprovedRerun'
  BY DoneStep DEF RerunInv, NoUnapprovedRerun
<1>f. ASSUME hist'.issued = hist.issued, Done' = Done,
             eng'.act = eng.act \/ eng'.act = NoAction \/ eng'.act = saved.act,
             saved' = saved \/ saved'.act.id = 0 \/ saved'.act.id = eng.act.id
      PROVE  Issued'
  <2>1. Done \subseteq 1..hist.issued /\ saved.act.id <= hist.issued
        /\ eng.act.id <= hist.issued /\ 0 <= hist.issued
    BY <1>a DEF RerunInv
  <2>2. eng'.act.id = eng.act.id \/ eng'.act.id = 0 \/ eng'.act.id = saved.act.id
    BY <1>f DEF NoAction
  <2>3. eng'.act.id <= hist.issued
    BY <2>1, <2>2
  <2>4. saved'.act.id <= hist.issued
    BY <1>f, <2>1
  <2>5. QED
    BY <1>f, <2>1, <2>3, <2>4
<1>1. CASE RunAsync
  <2>1. eng'.pc = "created" /\ Holds(eng', "none", NoAction)
    BY <1>1, RunAsyncFields
  <2>2. UNCHANGED <<saved, world, hist>> /\ eng.pc = "off"
    BY <1>1 DEF RunAsync
  <2>3. Issued'
    BY <1>b, <1>f, <2>1, <2>2
  <2>4. FreshCall' /\ EndUnrun'
    BY <1>a, <1>b, <2>1, <2>2 DEF RerunInv, NoAction
  <2>5. SavedUnrun'
    BY <1>a, <1>b, <2>1, <2>2 DEF RerunInv, NoAction
  <2>6. QED
    BY <1>b, <2>2, <2>3, <2>4, <2>5 DEF RerunInv
<1>2. CASE MarkRunning
  <2>1. eng'.pc = "opening" /\ Holds(eng', eng.pend, eng.act)
    BY <1>2, MoveFields
  <2>2. UNCHANGED <<saved, world, hist>> /\ eng.pc = "created"
    BY <1>2 DEF MarkRunning
  <2>3. QED
    BY <1>b, <2>1, <2>2 DEF RerunInv
<1>3. CASE OpenCheckpoint
  <2>1. eng.pend = "none" /\ saved.seq = -1 /\ UNCHANGED <<world, hist>> /\ eng.pc = "opening"
    BY <1>3 DEF OpenCheckpoint, ActInv, FlowInv
  <2>2. eng'.pc = "top" /\ Holds(eng', eng.pend, eng.act)
    BY <1>3, MoveFields
  <2>3. saved'.pend = "none" /\ saved'.act.id = 0
    BY <1>3, <2>1, OpenSaved DEF NoAction
  <2>4. Issued'
    BY <1>b, <1>f, <2>1, <2>2, <2>3
  <2>5. FreshCall' /\ EndUnrun'
    BY <1>a, <1>b, <2>1, <2>2, <2>3 DEF RerunInv
  <2>6. SavedUnrun'
    BY <1>a, <1>b, <2>1, <2>2, <2>3 DEF RerunInv
  <2>7. QED
    BY <1>b, <2>1, <2>4, <2>5, <2>6 DEF RerunInv
<1>4. ASSUME NEW approve \in BOOLEAN, ResumeAsync(approve)
      PROVE RerunInv'
  <2>1. eng'.pc = "resuming" /\ Holds(eng', "none", NoAction)
    <3>1. PICK l \in {"portable", "native"}, h \in {"model", "approved"} :
            Is(eng', "resuming", h, l, 1, saved.trace, <<>>)
      BY <1>4, ResumeAsyncFields
    <3>2. QED
      BY <1>4, <3>1, ResumeAsyncFields
  <2>2. /\ UNCHANGED <<saved, world>> /\ eng.pc = "off"
        /\ hist'.issued = hist.issued /\ hist'.lost = hist.lost
    BY <1>4 DEF ResumeAsync, TypeOK
  <2>3. Done' = Done /\ NoUnapprovedRerun'
    BY <2>2, DoneStep DEF RerunInv, NoUnapprovedRerun
  <2>4. QED
    BY <1>a, <2>1, <2>2, <2>3 DEF RerunInv, NoAction
<1>5. CASE ResumeLoop
  <2>1. eng'.pc = "top" /\ Holds(eng', eng.pend, eng.act)
    BY <1>5, ResumeFields
  <2>2. UNCHANGED <<saved, world, hist>> /\ saved.pend = "none"
    BY <1>5 DEF ResumeLoop
  <2>3. QED
    BY <1>b, <2>1, <2>2 DEF RerunInv
<1>6. CASE ResumeHold
  <2>1. eng'.pc = "status" /\ Holds(eng', saved.pend, saved.act)
    BY <1>6, HoldFields
  <2>2. UNCHANGED <<saved, world, hist>> /\ eng.pc = "resuming"
    BY <1>6 DEF ResumeHold
  <2>3. QED
    BY <1>b, <2>1, <2>2 DEF RerunInv
<1>7. CASE ResumeInFlight
  <2>1. eng'.pc = "status" /\ Holds(eng', eng.pend, eng.act)
    BY <1>7, InFlightFields
  <2>2. UNCHANGED <<saved, world, hist>> /\ eng.pc = "resuming" /\ eng.pend = "none"
    BY <1>7 DEF ResumeInFlight, ActInv
  <2>3. QED
    BY <1>b, <2>1, <2>2 DEF RerunInv
<1>8. CASE ResumeApproved
  <2>1. eng'.pc = "exec" /\ eng'.how = "approved" /\ Holds(eng', eng.pend, saved.act)
    BY <1>8, ResumeFields DEF ResumeApproved
  <2>2. UNCHANGED <<saved, world, hist>> /\ eng.pc = "resuming"
    BY <1>8 DEF ResumeApproved
  <2>3. QED
    BY <1>b, <2>1, <2>2 DEF RerunInv
<1>9. CASE LoopEnds
  <2>1. eng'.pc = "status" /\ Holds(eng', eng.pend, eng.act)
    BY <1>9, LoopEndsFields
  <2>2. UNCHANGED <<saved, world, hist>> /\ eng.pc \in {"top", "model"} /\ eng.pend = "none"
    BY <1>9, LoopEndsFrame DEF ActInv
  <2>3. QED
    BY <1>b, <2>1, <2>2 DEF RerunInv
<1>10. CASE CallModel
  <2>1. eng'.pc = "model" /\ Holds(eng', eng.pend, eng.act)
    BY <1>10, MoveFields
  <2>2. UNCHANGED <<saved, world, hist>> /\ eng.pc = "top"
    BY <1>10 DEF CallModel
  <2>3. QED
    BY <1>b, <2>1, <2>2 DEF RerunInv
<1>11. CASE ModelFails
  <2>1. eng'.pc \in {"dispatch", "top", "status"} /\ Holds(eng', eng.pend, eng.act)
    BY <1>11, ModelFailsFields DEF GoesOn
  <2>2. UNCHANGED <<saved, world, hist>> /\ eng.pc = "model" /\ eng.pend = "none"
    BY <1>11 DEF ModelFails, ActInv
  <2>3. QED
    BY <1>b, <2>1, <2>2 DEF RerunInv
<1>12. CASE Fallback
  <2>1. eng'.pc = "top" /\ Holds(eng', eng.pend, eng.act)
    BY <1>12, FallbackFields
  <2>2. /\ UNCHANGED <<saved, world>> /\ eng.pc = "model"
        /\ hist'.issued = hist.issued /\ hist'.lost = hist.lost
    BY <1>12 DEF Fallback, TypeOK
  <2>3. Done' = Done /\ NoUnapprovedRerun'
    BY <2>2, DoneStep DEF RerunInv, NoUnapprovedRerun
  <2>4. QED
    BY <2>1, <2>2, <2>3 DEF RerunInv
<1>13. CASE ToolCalls
  <2>1. eng'.pc = "dispatch" /\ Holds(eng', eng.pend, eng.act)
    BY <1>13, ToolCallsFields
  <2>2. UNCHANGED <<saved, world, hist>> /\ eng.pc = "model"
    BY <1>13 DEF ToolCalls
  <2>3. QED
    BY <1>b, <2>1, <2>2 DEF RerunInv
<1>14. CASE WriteInFlight
  <2>1. /\ eng'.pc = "exec" /\ eng'.pend = "in_flight" /\ eng'.act.id = hist.issued + 1
        /\ eng'.how = "model" /\ eng.pc = "dispatch"
    BY <1>14, WriteInFlightFields DEF WriteInFlight, ActInv
  <2>2. /\ UNCHANGED world /\ hist'.issued = hist.issued + 1 /\ hist'.lost = hist.lost
    BY <1>14 DEF WriteInFlight, TypeOK
  <2>3. Done' = Done /\ NoUnapprovedRerun'
    BY <2>2, DoneStep DEF RerunInv, NoUnapprovedRerun
  <2>4. saved' = saved \/ (saved'.pend = "in_flight" /\ saved'.act.id = hist.issued + 1)
    BY <1>14, InFlightSaved
  <2>5. saved.act.id \in Nat /\ saved.act.id <= hist.issued /\ Done \subseteq 1..hist.issued
    BY SavedFacts DEF RerunInv, TypeOK
  <2>6. hist.issued + 1 \notin Done
    BY <1>a, <2>5
  <2>7. Issued'
    BY <1>a, <2>1, <2>2, <2>3, <2>4, <2>5, SMTT(30)
  <2>8. FreshCall'
    BY <1>a, <2>1, <2>3, <2>4, <2>5, <2>6, SMTT(30)
  <2>9. EndUnrun' /\ SavedUnrun'
    BY <2>1, <2>2, <2>3, <2>4 DEF RerunInv
  <2>10. QED
    BY <2>3, <2>7, <2>8, <2>9 DEF RerunInv
<1>c. ASSUME NEW obs, eng.pc = "exec", Observed(obs), UNCHANGED <<saved, world, hist>>
      PROVE  RerunInv'
  <2>1. eng'.pc = "observe" /\ eng'.how = eng.how /\ Holds(eng', eng.pend, eng.act)
    BY <1>c, ObservedFields DEF ActInv
  <2>2. QED
    BY <1>b, <1>c, <2>1 DEF RerunInv
<1>15. CASE BudgetBlocks
  BY <1>15, <1>c DEF BudgetBlocks
<1>16. CASE ToolRejected
  BY <1>16, <1>c DEF ToolRejected
<1>17. CASE ApprovalDenied
  BY <1>17, <1>c DEF ApprovalDenied
<1>18. ASSUME NEW obs \in {"ok", "failed"}, ToolRuns(obs)
       PROVE RerunInv'
  <2>1. eng.pc = "exec" /\ UNCHANGED <<saved, hist>> /\ Observed(obs)
    BY <1>18 DEF ToolRuns
  <2>2. /\ eng'.pc = "observe" /\ eng'.how = eng.how /\ Holds(eng', eng.pend, eng.act)
        /\ eng'.obs = obs
    BY <2>1, ObservedFields DEF ActInv
  <2>3. Done' = Done \cup {eng.act.id}
    BY <1>18, DoneAppend
  <2>4. eng.act.id \in 1..hist.issued
    BY <1>a, <2>1 DEF ActInv, RerunInv
  <2>5. eng.how \in {"model", "approved"}
    BY DEF TypeOK, EngState
  <2>6. Unrun(eng.act.id)
    <3>1. CASE eng.how = "model"
      BY <2>1, <3>1 DEF RerunInv
    <3>2. CASE eng.how = "approved"
      BY <2>1, <3>2 DEF RerunInv, SeqInv, ResumeSeq
    <3>3. QED
      BY <2>5, <3>1, <3>2
  <2>7. NoUnapprovedRerun'
    <3> DEFINE w == [call |-> eng.act.call, id |-> eng.act.id,
                     clear |-> eng.act.clear, how |-> eng.how]
    <3>1. /\ world' = Append(world, w) /\ world \in Seq(Effect) /\ world' \in Seq(Effect)
          /\ w.id = eng.act.id
      BY <1>18 DEF ToolRuns, TypeOK
    <3> HIDE DEF w
    <3>2. /\ DOMAIN world' = DOMAIN world \cup {Len(world) + 1}
          /\ \A i \in DOMAIN world : world'[i] = world[i]
          /\ world'[Len(world) + 1] = w
      BY <3>1, AppendDomain
    <3>3. \A i \in DOMAIN world : world[i].id = eng.act.id => eng.act.id \in hist.lost
      BY <2>6 DEF Done
    <3>4. ASSUME NEW i \in DOMAIN world', NEW j \in DOMAIN world', i # j,
                 world'[i].id = world'[j].id
          PROVE  world'[i].id \in hist.lost
      <4>1. CASE i \in DOMAIN world /\ j \in DOMAIN world
        BY <3>2, <3>4, <4>1 DEF RerunInv, NoUnapprovedRerun
      <4>2. CASE i \in DOMAIN world /\ j = Len(world) + 1
        BY <3>1, <3>2, <3>3, <3>4, <4>2
      <4>3. CASE j \in DOMAIN world /\ i = Len(world) + 1
        BY <3>1, <3>2, <3>3, <3>4, <4>3
      <4>4. QED
        BY <3>2, <3>4, <4>1, <4>2, <4>3
    <3>5. QED
      BY <2>1, <3>4 DEF NoUnapprovedRerun
  <2>8. Issued'
    BY <2>1, <2>2, <2>3, <2>4 DEF RerunInv
  <2>9. FreshCall'
    BY <2>1, <2>2 DEF RerunInv
  <2>10. EndUnrun'
    BY <2>2
  <2>11. SavedUnrun'
    <3>1. CASE eng.how = "approved"
      BY <2>2, <3>1
    <3>2. CASE eng.how = "model"
      BY <2>1, <2>3, <3>2 DEF RerunInv
    <3>3. QED
      BY <2>5, <3>1, <3>2
  <2>12. QED
    BY <2>7, <2>8, <2>9, <2>10, <2>11 DEF RerunInv
<1>d. ASSUME eng.pc = "observe", Checkpoint(CallSeq, Settled)
      PROVE  saved' = saved \/ (saved'.pend = "none" /\ saved'.act.id = 0)
  BY <1>d, SettledSaved DEF NoAction
<1>e. Observe /\ UNCHANGED world =>
        /\ hist'.issued = hist.issued /\ hist'.lost = hist.lost
        /\ Done' = Done /\ NoUnapprovedRerun'
  BY DoneStep DEF Observe, TypeOK, RerunInv, NoUnapprovedRerun
<1>19. CASE AwaitApproval
  <2>1. eng'.pc = "status" /\ Holds(eng', "awaiting_approval", eng.act)
    BY <1>19, AwaitFields
  <2>2. /\ eng.pc = "observe" /\ eng.how = "model" /\ eng.obs = "denied"
        /\ Checkpoint(CallSeq, Settled) /\ Observe /\ UNCHANGED world
    BY <1>19 DEF AwaitApproval
  <2>3. Issued'
    BY <1>d, <1>e, <1>f, <2>1, <2>2
  <2>4. FreshCall' /\ EndUnrun'
    BY <1>a, <1>d, <1>e, <2>1, <2>2 DEF RerunInv
  <2>5. SavedUnrun'
    BY <1>a, <1>d, <1>e, <2>1, <2>2 DEF RerunInv
  <2>6. QED
    BY <1>e, <2>2, <2>3, <2>4, <2>5 DEF RerunInv
<1>20. CASE RecordObservation
  <2>1. eng'.pc \in {"dispatch", "top", "status"} /\ Holds(eng', "none", NoAction)
    BY <1>20, RecordFields DEF GoesOn
  <2>2. /\ eng.pc = "observe" /\ eng.how = "model"
        /\ Checkpoint(CallSeq, Settled) /\ Observe /\ UNCHANGED world
    BY <1>20 DEF RecordObservation
  <2>3. Issued'
    BY <1>d, <1>e, <1>f, <2>1, <2>2
  <2>4. FreshCall' /\ EndUnrun'
    BY <1>a, <1>d, <1>e, <2>1, <2>2 DEF RerunInv, NoAction
  <2>5. SavedUnrun'
    BY <1>a, <1>d, <1>e, <2>1, <2>2 DEF RerunInv, NoAction
  <2>6. QED
    BY <1>e, <2>2, <2>3, <2>4, <2>5 DEF RerunInv
<1>21. CASE RecordApproved
  <2>1. eng'.pc \in {"top", "status"} /\ Holds(eng', "none", NoAction)
    BY <1>21, ApprovedFields
  <2>2. /\ eng.pc = "observe" /\ eng.how = "approved"
        /\ Checkpoint(CallSeq, Settled) /\ Observe /\ UNCHANGED world
    BY <1>21 DEF RecordApproved
  <2>3. saved'.pend = "none" /\ saved'.act.id = 0
    <3>1. CallSeq = Len(eng.trace) + 1
      BY <2>2, CallSeqNext
    <3>2. eng.trace = saved.trace /\ saved.seq <= Len(saved.trace) + 1
      BY <2>2 DEF SeqInv, ResumeSeq, SavedSeq
    <3>3. ~(CallSeq < saved.seq)
      BY <1>a, <3>1, <3>2
    <3>4. QED
      BY <2>2, <3>3, SettledSaved DEF NoAction
  <2>4. Issued'
    BY <1>e, <1>f, <2>1, <2>2, <2>3
  <2>5. FreshCall' /\ EndUnrun'
    BY <1>a, <1>e, <2>1, <2>2, <2>3 DEF RerunInv, NoAction
  <2>6. SavedUnrun'
    BY <1>a, <1>e, <2>1, <2>2, <2>3 DEF RerunInv, NoAction
  <2>7. QED
    BY <1>e, <2>2, <2>4, <2>5, <2>6 DEF RerunInv
<1>22. CASE CommitStatus
  <2>1. eng'.pc = "final" /\ Holds(eng', eng.pend, eng.act)
    BY <1>22, MoveFields
  <2>2. UNCHANGED <<saved, world, hist>> /\ eng.pc = "status"
    BY <1>22 DEF CommitStatus
  <2>3. QED
    BY <1>b, <2>1, <2>2 DEF RerunInv
<1>23. CASE FinalCheckpoint
  <2>1. \/ saved' = saved
        \/ /\ saved'.pend = eng.pend
           /\ eng.pend = "none" => saved'.act.id = 0
           /\ eng.pend # "none" => saved'.act.id = eng.act.id
    BY <1>23, FinalSaved DEF NoAction
  <2>2. UNCHANGED <<world, hist>> /\ eng.pc = "final"
    BY <1>23 DEF FinalCheckpoint
  <2>3. eng'.pc = "off" /\ Holds(eng', "none", NoAction)
    BY <1>23, OffFields DEF FinalCheckpoint
  <2>4. Issued'
    BY <1>b, <1>f, <2>1, <2>2, <2>3
  <2>5. FreshCall' /\ EndUnrun'
    BY <1>a, <1>b, <2>1, <2>2, <2>3 DEF RerunInv, NoAction
  <2>6. SavedUnrun'
    BY <1>a, <1>b, <2>1, <2>2, <2>3 DEF RerunInv, NoAction
  <2>7. QED
    BY <1>b, <2>2, <2>4, <2>5, <2>6 DEF RerunInv
<1>24. CASE Cancel \/ ResetCancel
  <2>1. UNCHANGED <<eng, saved, world, hist>>
    BY <1>24 DEF Cancel, ResetCancel
  <2>2. QED
    BY <1>b, <2>1 DEF RerunInv
<1>25. CASE Crash
  <2>1. eng'.pc = "off" /\ Holds(eng', "none", NoAction)
    BY <1>25, OffFields DEF Crash
  <2>2. /\ UNCHANGED <<saved, world>> /\ hist'.issued = hist.issued
        /\ hist'.lost = IF eng.pc = "observe" /\ eng.how = "approved"
                        THEN hist.lost \cup {eng.act.id} ELSE hist.lost
    BY <1>25 DEF Crash, TypeOK
  <2>3. hist.lost \subseteq hist'.lost /\ Done' = Done
    BY <2>2, DoneStep
  <2>4. NoUnapprovedRerun'
    BY <2>2, <2>3 DEF RerunInv, NoUnapprovedRerun
  <2>5. SavedUnrun'
    <3>1. CASE Approved /\ eng.pc = "observe"
      BY <2>2, <3>1 DEF SeqInv, ResumeSeq
    <3>2. CASE ~(Approved /\ eng.pc = "observe")
      BY <2>2, <2>3, <3>2 DEF RerunInv
    <3>3. QED
      BY <3>1, <3>2
  <2>6. QED
    BY <1>a, <2>1, <2>2, <2>3, <2>4, <2>5 DEF RerunInv, NoAction
<1>26. CASE UNCHANGED vars
  <2>1. UNCHANGED <<eng, saved, world, hist>>
    BY <1>26 DEF vars
  <2>2. QED
    BY <1>b, <2>1 DEF RerunInv
<1>27. QED
  BY <1>1, <1>2, <1>3, <1>4, <1>5, <1>6, <1>7, <1>8, <1>9, <1>10, <1>11, <1>12, <1>13,
     <1>14, <1>15, <1>16, <1>17, <1>18, <1>19, <1>20, <1>21, <1>22, <1>23, <1>24, <1>25,
     <1>26 DEF Next, EngineStep, LoopEnds

----------------------------------------------------------------------------
(* The theorems.                                                            *)

\* The inductive invariant holds in every reachable state.
LEMMA Invariance == Spec => [](IndInv /\ GatedNeedsApproval)
<1>1. Init => IndInv /\ GatedNeedsApproval
  <2>1. Init => GatedNeedsApproval
    BY DEF Init, GatedNeedsApproval
  <2>2. QED
    BY <2>1, TypeInit, ActInit, FlowInit, SeqInit, LedgerInit, RerunInit DEF IndInv
<1>2. IndInv /\ GatedNeedsApproval /\ [Next]_vars => (IndInv /\ GatedNeedsApproval)'
  <2> SUFFICES ASSUME IndInv, GatedNeedsApproval, [Next]_vars
               PROVE  IndInv' /\ GatedNeedsApproval'
    OBVIOUS
  <2>1. TypeOK /\ ActInv /\ FlowInv /\ SeqInv /\ LedgerInv /\ RerunInv
    BY DEF IndInv
  <2>2. TypeOK'
    BY <2>1, TypeStep
  <2>3. ActInv' /\ FlowInv' /\ SeqInv' /\ LedgerInv' /\ RerunInv'
    BY <2>1, <2>2, ActStep, FlowStep, SeqStep, LedgerStep, RerunStep
  <2>4. GatedNeedsApproval'
    BY <2>1, GatedStep
  <2>5. QED
    BY <2>2, <2>3, <2>4 DEF IndInv
<1>3. QED
  BY <1>1, <1>2, PTL DEF Spec

\* The variables keep their types, whatever order handlers and crashes come in.
THEOREM TypeCorrect == Spec => []TypeOK
<1>1. IndInv => TypeOK
  BY DEF IndInv
<1>2. QED
  BY <1>1, Invariance, PTL

\* _checkpoint before and after each dispatch keeps every effect on record.
THEOREM EffectsStayAccounted == Spec => []EffectsAccounted
<1>1. IndInv => EffectsAccounted
  BY DEF IndInv, LedgerInv, OnRecord, Pending, EffectsAccounted
<1>2. QED
  BY <1>1, Invariance, PTL

\* resume_async never executes an in_flight action, nor an approved one whose
\* observation it has.
THEOREM NoRerunButLost == Spec => []NoUnapprovedRerun
<1>1. IndInv => NoUnapprovedRerun
  BY DEF IndInv, RerunInv
<1>2. QED
  BY <1>1, Invariance, PTL

\* The temporary change of the permission policy in resume_async lets nothing
\* else through.
THEOREM GateHolds == Spec => []GatedNeedsApproval
BY Invariance, PTL

\* The run, seen through its status row and its effects, implements RunContract.
THEOREM ImplementsContract == Spec => KeepsContract
<1>1. Init => Contract!Init
  BY DEF Init, Contract!Init
<1>2. IndInv /\ IndInv' /\ GatedNeedsApproval' /\ [Next]_vars => [Contract!Next]_<<row, world>>
  BY ContractStep DEF IndInv
<1>3. QED
  BY <1>1, <1>2, Invariance, PTL DEF Spec, KeepsContract, Contract!Spec

----------------------------------------------------------------------------
(* What a durable run says of its past: its trace only grows, what its status *)
(* row says of a run that is over or waits is true, and max_tool_calls holds   *)
(* over all its resumes.                                                       *)

HIDE ConstantsAssumption DEF ConstantsAssumption

\* The invariant on which the theorems about a durable run rest holds in every
\* reachable state, for every instance (engine.py).
THEOREM InvariantHolds == Spec => []IndInv
BY Invariance, PTL

----------------------------------------------------------------------------
(* What the steps of the engine leave alone.                                *)

Flags(e, f) == f.mode = e.mode /\ f.lastFailed = e.lastFailed /\ f.taken = e.taken

\* Going on to the next call or round keeps the flags.
LEMMA ContinueFlags ==
    ASSUME NEW e \in EngState
    PROVE  Flags(e, Continue(e)) /\ Continue(e).pc \in {"dispatch", "top"}
BY DEF EngState, Continue, Flags

\* So does the end of a run.
LEMMA FinishFlags ==
    ASSUME NEW e \in EngState, NEW status, NEW seq
    PROVE  Flags(e, Finish(e, status, seq))
BY DEF EngState, Finish, Flags

\* So does a new entry of the trace.
LEMMA LoggedFlags ==
    ASSUME NEW e \in EngState, NEW id \in Nat
    PROVE  Flags(e, Logged(e, id)) /\ Logged(e, id) \in EngState
<1>1. Flags(e, Logged(e, id))
  BY DEF EngState, Logged, Flags
<1> QED
  BY <1>1, LoggedType

\* After an error the run fails, or the flags are what they were.
LEMMA ErrorFlags ==
    ASSUME NEW e \in EngState
    PROVE  Flags(e, AfterError(e))
<1>1. CASE e.errors + 1 >= MaxErrors
  BY <1>1, FinishFlags DEF AfterError
<1>2. CASE ~(e.errors + 1 >= MaxErrors)
  <2> DEFINE g == [e EXCEPT !.errors = @ + 1]
  <2>1. e.errors + 1 \in Nat
    BY DEF EngState
  <2>2. g \in EngState /\ Flags(e, g)
    BY <2>1 DEF EngState, Flags
  <2>3. AfterError(e) = Continue(g)
    BY <1>2 DEF AfterError
  <2> HIDE DEF g
  <2>4. Flags(g, Continue(g))
    BY <2>2, ContinueFlags
  <2> QED
    BY <2>2, <2>3, <2>4 DEF Flags
<1> QED
  BY <1>1, <1>2

\* So does an observation that is logged.
LEMMA SettledFlags ==
    ASSUME TypeOK
    PROVE  Flags(eng, Settled) /\ Settled \in EngState
<1> DEFINE g == Logged(eng, eng.act.id)
<1>1. g \in EngState /\ Flags(eng, g)
  BY LoggedFlags DEF TypeOK, EngState, Action
<1>2. Settled = [g EXCEPT !.pend = "none", !.act = NoAction, !.obs = "none"]
  BY DEF Settled
<1> HIDE DEF g
<1>3. Flags(g, Settled)
  BY <1>1, <1>2 DEF EngState, Flags
<1> QED
  BY <1>1, <1>3, SettledType DEF TypeOK, Flags

\* What a step does with the mode, the count of calls and the flag of a failed tool.
LEMMA EngineFlags ==
    ASSUME TypeOK, ActInv, EngineStep, ~Fallback, ~FinalCheckpoint
    PROVE  /\ eng'.mode = eng.mode
           /\ eng'.taken = IF eng.pc = "exec" THEN eng.taken + 1 ELSE eng.taken
           /\ ~RecordObservation => eng'.lastFailed = eng.lastFailed
           /\ RecordObservation => eng.obs = "ok" \/ eng'.lastFailed \/ eng'.pc = "status"
<1>0. eng \in EngState
  BY DEF TypeOK
<1>1. CASE MarkRunning \/ OpenCheckpoint \/ CallModel \/ CommitStatus
  BY <1>0, <1>1 DEF MarkRunning, OpenCheckpoint, CallModel, CommitStatus, RecordObservation, EngState
<1>2. CASE ResumeLoop \/ ResumeApproved
  BY <1>0, <1>2 DEF ResumeLoop, ResumeApproved, RecordObservation, EngState
<1>3. CASE ResumeHold \/ ResumeInFlight
  BY <1>0, <1>3 DEF ResumeHold, ResumeInFlight, Finish, RecordObservation, EngState
<1>4. CASE LoopEnds
  <2>1. Flags(eng, Logged(eng, 0)) /\ Logged(eng, 0) \in EngState
    BY <1>0, LoggedFlags
  <2>2. \E e \in {eng, Logged(eng, 0)} : \E status, seq : eng' = Finish(e, status, seq)
    BY <1>4 DEF LoopEnds, LoopExhausted, Deadline, StopCancelled, ContextError, FinalAnswer
  <2>3. Flags(eng, eng')
    BY <1>0, <2>1, <2>2, FinishFlags DEF Flags
  <2>4. ~RecordObservation /\ eng.pc # "exec"
    BY <1>4, LoopEndsFrame DEF RecordObservation
  <2> QED
    BY <2>3, <2>4 DEF Flags
<1>5. CASE ModelFails
  <2>1. Flags(eng, Logged(eng, 0)) /\ Logged(eng, 0) \in EngState
    BY <1>0, LoggedFlags
  <2>2. Flags(eng, eng')
    BY <1>5, <2>1, ErrorFlags DEF ModelFails, Flags
  <2> QED
    BY <1>5, <2>2 DEF ModelFails, RecordObservation, Flags
<1>6. CASE ToolCalls \/ WriteInFlight
  BY <1>0, <1>6 DEF ToolCalls, WriteInFlight, RecordObservation, EngState
<1>7. ASSUME NEW obs, Observed(obs), eng.pc = "exec"
      PROVE  /\ eng'.mode = eng.mode /\ eng'.lastFailed = eng.lastFailed
             /\ eng'.taken = eng.taken + 1 /\ ~RecordObservation
  <2> DEFINE g == Counted(eng)
  <2>1. g.taken = eng.taken + 1 /\ g.mode = eng.mode /\ g.lastFailed = eng.lastFailed
    BY <1>0 DEF Counted, EngState
  <2>2. g \in EngState
    BY <1>0, <1>7, CountedType DEF ActInv, Executing
  <2>3. eng' = [g EXCEPT !.pc = "observe", !.obs = obs]
    BY <1>7 DEF Observed
  <2> HIDE DEF g
  <2> QED
    BY <1>7, <2>1, <2>2, <2>3 DEF EngState, RecordObservation
<1>8. CASE BudgetBlocks \/ ToolRejected \/ ApprovalDenied \/ \E obs \in {"ok", "failed"} : ToolRuns(obs)
  BY <1>7, <1>8 DEF BudgetBlocks, ToolRejected, ApprovalDenied, ToolRuns, Flags
<1>9. CASE AwaitApproval
  <2> DEFINE e == [Settled EXCEPT !.pend = "awaiting_approval", !.act = eng.act]
  <2>1. e \in EngState /\ Flags(eng, e)
    BY <1>0, SettledFlags DEF EngState, Flags, PendStates
  <2>2. eng' = Finish(e, "waiting_approval", eng.round)
    BY <1>9 DEF AwaitApproval
  <2> HIDE DEF e
  <2>3. Flags(eng, eng')
    BY <2>1, <2>2, FinishFlags DEF Flags
  <2> QED
    BY <1>9, <2>3 DEF AwaitApproval, RecordObservation, Flags
<1>10. CASE RecordObservation
  <2>0. eng.pc = "observe"
    BY <1>10 DEF RecordObservation
  <2>1. CASE eng.obs = "ok"
    <3> DEFINE e == [Settled EXCEPT !.errors = 0, !.lastFailed = FALSE]
    <3>1. e \in EngState /\ e.mode = eng.mode /\ e.taken = eng.taken
      BY SettledFlags DEF EngState, Flags
    <3>2. eng' = Continue(e)
      BY <1>10, <2>1 DEF RecordObservation, AfterSuccess
    <3> HIDE DEF e
    <3> QED
      BY <1>10, <2>0, <2>1, <3>1, <3>2, ContinueFlags DEF Flags
  <2>2. CASE eng.obs # "ok"
    <3> DEFINE e == [Settled EXCEPT !.lastFailed = TRUE]
    <3>1. e \in EngState /\ e.mode = eng.mode /\ e.taken = eng.taken /\ e.lastFailed
      BY SettledFlags DEF EngState, Flags
    <3>2. eng' = AfterError(e)
      BY <1>10, <2>2 DEF RecordObservation
    <3> HIDE DEF e
    <3> QED
      BY <1>10, <2>0, <3>1, <3>2, ErrorFlags DEF Flags
  <2> QED
    BY <2>1, <2>2
<1>11. CASE RecordApproved
  <2>1. CASE eng.obs = "ok"
    BY <1>11, <2>1, SettledFlags DEF RecordApproved, RecordObservation, EngState, Flags
  <2>2. CASE eng.obs # "ok"
    BY <1>11, <2>2, SettledFlags, FinishFlags DEF RecordApproved, RecordObservation, Flags
  <2> QED
    BY <2>1, <2>2
<1> QED
  BY <1>1, <1>2, <1>3, <1>4, <1>5, <1>6, <1>8, <1>9, <1>10, <1>11 DEF EngineStep, LoopEnds, Flags

----------------------------------------------------------------------------
(* The durable trace.                                                       *)

Extends(t, s) == Len(s) <= Len(t) /\ s = SubSeq(t, 1, Len(s))

\* A trace extends itself, the empty one, and what an earlier part of it extends.
LEMMA ExtendsLaws ==
    ASSUME NEW s \in Seq(Nat), NEW t \in Seq(Nat), NEW x \in Nat
    PROVE  /\ Extends(t, t) /\ Extends(t, <<>>)
           /\ Extends(t, s) => Extends(Append(t, x), s)
<1>1. Extends(t, t)
  <2>1. Len(t) \in Nat /\ SubSeq(t, 1, Len(t)) = t
    BY LenProperties, SubSeqFull
  <2> QED
    BY <2>1 DEF Extends
<1>2. Extends(t, <<>>)
  BY DEF Extends
<1>3. ASSUME Extends(t, s) PROVE Extends(Append(t, x), s)
  <2>1. Len(s) \in Nat /\ Len(t) \in Nat /\ Len(s) <= Len(t) /\ Len(Append(t, x)) = Len(t) + 1
    BY <1>3 DEF Extends
  <2>2. SubSeq(Append(t, x), 1, Len(s)) = SubSeq(t, 1, Len(s))
    BY <2>1
  <2> QED
    BY <1>3, <2>1, <2>2 DEF Extends
<1> QED
  BY <1>1, <1>2, <1>3

\* The engine extends what is saved, as long as the auto mode has not fallen back.
TraceInv ==
    /\ saved.seq = -1 => saved.trace = <<>>
    /\ ~hist.fellBack /\ eng.pc \notin {"off", "created", "opening"} => Extends(eng.trace, saved.trace)

\* A step of the engine logs one entry or none, and saves the trace it then has.
LEMMA EngineLogs ==
    ASSUME TypeOK, TypeOK', ActInv, FlowInv, EngineStep, ~Fallback, ~FinalCheckpoint
    PROVE  /\ eng'.trace = eng.trace \/ \E x \in Nat : eng'.trace = Append(eng.trace, x)
           /\ saved' = saved \/ (saved'.seq # -1 /\ saved'.trace = eng'.trace)
           /\ hist'.fellBack = hist.fellBack
           /\ eng'.pc \notin {"off", "created"}
<1>0. eng \in EngState /\ eng.act.id \in Nat /\ hist.fellBack \in BOOLEAN /\ CallSeq \in Nat /\ 0 \in Nat
  BY CallSeqNat DEF TypeOK, EngState, Action
<1>1. CASE MarkRunning \/ CallModel \/ CommitStatus
  BY <1>1, MoveFields DEF MarkRunning, CallModel, CommitStatus, Is
<1>2. CASE OpenCheckpoint
  BY <1>0, <1>2, MoveFields, OpenSaved DEF OpenCheckpoint, Is
<1>3. CASE ResumeLoop \/ ResumeApproved
  BY <1>3, ResumeFields DEF ResumeLoop, ResumeApproved, Is
<1>4. CASE ResumeHold
  BY <1>4, HoldFields DEF ResumeHold, Is
<1>5. CASE ResumeInFlight
  BY <1>5, InFlightFields DEF ResumeInFlight, Is
<1>6. CASE LoopEnds
  BY <1>0, <1>6, LoopEndsFields, LoopEndsFrame DEF Is
<1>7. CASE ModelFails
  BY <1>0, <1>7, ModelFailsFields DEF ModelFails, GoesOn
<1>8. CASE ToolCalls
  BY <1>8, ToolCallsFields DEF ToolCalls, Is
<1>9. CASE WriteInFlight
  <2>1. hist'.fellBack = hist.fellBack
    BY <1>9 DEF WriteInFlight, TypeOK
  <2> QED
    BY <1>0, <1>9, <2>1, WriteInFlightFields, InFlightSaved DEF Is
<1>10. CASE BudgetBlocks \/ ToolRejected \/ ApprovalDenied \/ \E obs \in {"ok", "failed"} : ToolRuns(obs)
  <2>1. eng.act.call \in Calls /\ (\E obs : Observed(obs)) /\ UNCHANGED <<saved, hist>>
    BY <1>10 DEF BudgetBlocks, ToolRejected, ApprovalDenied, ToolRuns, ActInv, Executing
  <2> QED
    BY <2>1, ObservedFields DEF Is
<1>11. CASE AwaitApproval \/ RecordObservation \/ RecordApproved
  <2>1. Checkpoint(CallSeq, Settled) /\ hist'.fellBack = hist.fellBack
    BY <1>11 DEF AwaitApproval, RecordObservation, RecordApproved, Observe, TypeOK
  <2>2. eng'.trace = Append(eng.trace, eng.act.id) /\ eng'.pc \notin {"off", "created"}
    BY <1>11, AwaitFields, RecordFields, ApprovedFields DEF Is, GoesOn
  <2>3. saved' = saved \/ (saved'.seq = CallSeq /\ saved'.trace = Append(eng.trace, eng.act.id))
    BY <2>1, SettledSaved
  <2> QED
    BY <1>0, <2>1, <2>2, <2>3
<1> QED
  BY <1>1, <1>2, <1>3, <1>4, <1>5, <1>6, <1>7, <1>8, <1>9, <1>10, <1>11 DEF EngineStep, LoopEnds

\* What is saved is extended, and what the engine has extends it.
LEMMA TraceStep ==
    ASSUME TypeOK, TypeOK', ActInv, FlowInv, TraceInv, [Next]_vars
    PROVE  TraceInv' /\ (~hist'.fellBack => Extends(saved'.trace, saved.trace))
<1>0. /\ eng.trace \in Seq(Nat) /\ saved.trace \in Seq(Nat) /\ eng'.trace \in Seq(Nat)
      /\ saved'.trace \in Seq(Nat) /\ Extends(saved.trace, saved.trace)
  BY ExtendsLaws DEF TypeOK, EngState, SavedState
<1>1. CASE EngineStep /\ ~Fallback /\ ~FinalCheckpoint
  <2>1. /\ eng'.trace = eng.trace \/ \E x \in Nat : eng'.trace = Append(eng.trace, x)
        /\ saved' = saved \/ (saved'.seq # -1 /\ saved'.trace = eng'.trace)
        /\ hist'.fellBack = hist.fellBack
        /\ eng'.pc \notin {"off", "created"}
    BY <1>1, EngineLogs
  <2>2. CASE ~(eng.pc \in {"off", "created", "opening"}) /\ ~hist.fellBack
    <3>1. Extends(eng.trace, saved.trace)
      BY <2>2 DEF TraceInv
    <3>2. Extends(eng'.trace, saved.trace)
      <4>1. \A x \in Nat : Extends(Append(eng.trace, x), saved.trace)
        BY <1>0, <3>1, ExtendsLaws
      <4> QED
        BY <2>1, <3>1, <4>1
    <3>3. Extends(eng'.trace, eng'.trace)
      BY <1>0, ExtendsLaws
    <3> QED
      BY <1>0, <2>1, <3>2, <3>3 DEF TraceInv
  <2>3. CASE eng.pc \in {"created", "opening"}
    <3>1. saved.trace = <<>>
      BY <2>3 DEF TraceInv, FlowInv
    <3>2. Extends(eng'.trace, eng'.trace) /\ Extends(eng'.trace, <<>>) /\ Extends(saved'.trace, <<>>)
      BY <1>0, ExtendsLaws
    <3> QED
      BY <2>1, <3>1, <3>2 DEF TraceInv
  <2>4. CASE hist.fellBack
    BY <2>1, <2>4 DEF TraceInv
  <2>5. eng.pc # "off"
    BY <1>1 DEF EngineStep, MarkRunning, OpenCheckpoint, ResumeLoop, ResumeHold, ResumeInFlight,
                ResumeApproved, LoopExhausted, Deadline, StopCancelled, ContextError, CallModel,
                ModelFails, FinalAnswer, ToolCalls, WriteInFlight, BudgetBlocks, ToolRejected,
                ApprovalDenied, ToolRuns, AwaitApproval, RecordObservation, RecordApproved, CommitStatus
  <2> QED
    BY <2>2, <2>3, <2>4, <2>5
<1>2. CASE Fallback
  BY <1>0, <1>2 DEF Fallback, TraceInv, TypeOK
<1>3. CASE FinalCheckpoint
  <2>1. eng.pc = "final" /\ eng'.pc = "off" /\ UNCHANGED hist
    BY <1>3 DEF FinalCheckpoint, Off
  <2>2. saved' = saved \/ (saved'.seq = eng.seq /\ saved'.trace = eng.trace)
    BY <1>3, FinalSaved
  <2>3. eng.seq # -1
    BY DEF TypeOK, EngState
  <2> QED
    BY <1>0, <2>1, <2>2, <2>3 DEF TraceInv
<1>4. CASE RunAsync \/ Crash
  <2>1. saved' = saved /\ eng'.pc \in {"off", "created"} /\ hist'.fellBack = hist.fellBack
    <3>1. CASE RunAsync
      BY <3>1, RunAsyncFields DEF RunAsync, Is
    <3>2. CASE Crash
      <4>1. hist'.fellBack = hist.fellBack
        BY <3>2 DEF Crash, TypeOK
      <4> QED
        BY <3>2, <4>1, OffFields DEF Crash, Is
    <3> QED
      BY <1>4, <3>1, <3>2
  <2> QED
    BY <1>0, <2>1 DEF TraceInv
<1>5. ASSUME NEW approve \in BOOLEAN, ResumeAsync(approve)
      PROVE  TraceInv' /\ (~hist'.fellBack => Extends(saved'.trace, saved.trace))
  <2>1. saved' = saved /\ eng'.trace = saved.trace
    BY <1>5, ResumeAsyncFields DEF ResumeAsync, Is
  <2> QED
    BY <1>0, <2>1 DEF TraceInv
<1>6. CASE Cancel \/ ResetCancel \/ UNCHANGED vars
  BY <1>0, <1>6 DEF Cancel, ResetCancel, vars, TraceInv
<1> QED
  BY <1>1, <1>2, <1>3, <1>4, <1>5, <1>6 DEF Next

\* Whatever resumes, crashes and late checkpoints come, the trace in the store
\* is only extended (_checkpoint, resume_async).
THEOREM DurableTraceGrows == Spec => TraceOnlyGrows
<1>1. Init => TraceInv
  BY DEF Init, Off, TraceInv
<1>2. IndInv /\ IndInv' /\ TraceInv /\ [Next]_vars => TraceInv'
  BY TraceStep DEF IndInv
<1>3. IndInv /\ IndInv' /\ TraceInv /\ [Next]_vars =>
        [~hist'.fellBack =>
          /\ Len(saved.trace) <= Len(saved'.trace)
          /\ saved.trace = SubSeq(saved'.trace, 1, Len(saved.trace))]_saved
  BY TraceStep DEF IndInv, Extends
<1> QED
  BY <1>1, <1>2, <1>3, InvariantHolds, PTL DEF Spec, TraceOnlyGrows

----------------------------------------------------------------------------
(* What the status row says of a run that is over.                          *)

\* In a first session the flag of a failed tool is up whenever the last tool
\* did not succeed, so that no final answer passes for a success.
Honest ==
    /\ eng.how = "model" /\ eng.pc # "resuming"
    /\ row \in {"absent", "created"} \/ eng.pc = "opening" => ~hist.unresolved
    /\ Looping \/ Executing => (hist.unresolved => eng.lastFailed)
    /\ Ending /\ eng.status = "completed" => ~hist.unresolved
    /\ row = "completed" => ~hist.unresolved

HonestInv == hist.resumes = 0 /\ ~hist.fellBack => Honest

\* No step goes back to a first session.
LEMMA FirstSession ==
    ASSUME TypeOK, [Next]_vars, hist'.resumes = 0, ~hist'.fellBack
    PROVE  /\ hist.resumes = 0 /\ ~hist.fellBack
           /\ ~Fallback /\ \A approve \in BOOLEAN : ~ResumeAsync(approve)
           /\ AwaitApproval \/ RecordObservation \/ RecordApproved
              \/ hist'.unresolved = hist.unresolved
<1>0. hist \in [issued : Nat, resumes : Nat, crashes : Nat, lost : SUBSET Nat,
                fellBack : BOOLEAN, held : BOOLEAN, unresolved : BOOLEAN]
  BY DEF TypeOK
<1>1. ~Fallback
  BY <1>0 DEF Fallback
<1>2. ASSUME NEW approve \in BOOLEAN, ResumeAsync(approve) PROVE FALSE
  <2>1. hist.resumes \in Nat /\ hist'.resumes = hist.resumes + 1
    BY <1>0, <1>2 DEF ResumeAsync
  <2> QED
    BY <2>1
<1>3. CASE WriteInFlight \/ Crash
  BY <1>0, <1>1, <1>2, <1>3 DEF WriteInFlight, Crash
<1>4. CASE AwaitApproval \/ RecordObservation \/ RecordApproved
  BY <1>0, <1>1, <1>2, <1>4 DEF AwaitApproval, RecordObservation, RecordApproved, Observe
<1>5. CASE UNCHANGED hist
  BY <1>1, <1>2, <1>5
<1>6. CASE LoopEnds
  BY <1>5, <1>6, LoopEndsFrame
<1> QED
  BY <1>1, <1>2, <1>3, <1>4, <1>5, <1>6
     DEF Next, EngineStep, LoopEnds, vars, RunAsync, Cancel, ResetCancel, MarkRunning, OpenCheckpoint,
         ResumeLoop, ResumeHold, ResumeInFlight, ResumeApproved, CallModel, ModelFails, ToolCalls,
         BudgetBlocks, ToolRejected, ApprovalDenied, ToolRuns, CommitStatus, FinalCheckpoint

\* The row of a run changes where it is created, taken up and ended.
LEMMA RowStep ==
    [Next]_vars => \/ UNCHANGED row
                   \/ RunAsync \/ MarkRunning \/ CommitStatus
                   \/ \E approve \in BOOLEAN : ResumeAsync(approve)
<1>1. LoopEnds => UNCHANGED row
  BY LoopEndsFrame
<1> QED
  BY <1>1 DEF Next, EngineStep, LoopEnds, vars, Cancel, ResetCancel, Crash, OpenCheckpoint,
        ResumeLoop, ResumeHold, ResumeInFlight, ResumeApproved, CallModel, ModelFails, Fallback, ToolCalls,
        WriteInFlight, BudgetBlocks, ToolRejected, ApprovalDenied, ToolRuns, AwaitApproval,
        RecordObservation, RecordApproved, FinalCheckpoint

\* HonestInv is preserved (_run_portable, _run_native, _result).
LEMMA HonestStep ==
    ASSUME TypeOK, TypeOK', ActInv, FlowInv, HonestInv, [Next]_vars
    PROVE  HonestInv'
<1> SUFFICES ASSUME hist'.resumes = 0, ~hist'.fellBack PROVE Honest'
  BY DEF HonestInv
<1>0. /\ Honest /\ ~Fallback /\ \A approve \in BOOLEAN : ~ResumeAsync(approve)
      /\ AwaitApproval \/ RecordObservation \/ RecordApproved \/ hist'.unresolved = hist.unresolved
  BY FirstSession DEF HonestInv
<1> USE DEF Looping, Executing, Ending
<1>1. CASE RunAsync
  BY <1>0, <1>1, RunAsyncFields DEF RunAsync, Honest, Is
<1>2. CASE MarkRunning
  BY <1>0, <1>2, MoveFields DEF MarkRunning, Honest, Is, FlowInv
<1>3. CASE OpenCheckpoint
  <2>1. row = "running"
    BY <1>3 DEF OpenCheckpoint, FlowInv
  <2> QED
    BY <1>0, <1>3, <2>1, MoveFields DEF OpenCheckpoint, Honest, Is
<1>4. CASE CommitStatus
  BY <1>0, <1>4, MoveFields DEF CommitStatus, Honest, Is, FlowInv
<1>5. CASE FinalCheckpoint \/ Crash
  <2>1. eng'.pc = "off" /\ eng'.how = "model" /\ UNCHANGED row
    BY <1>5, OffFields DEF FinalCheckpoint, Crash, Is
  <2>2. hist'.unresolved = hist.unresolved
    BY <1>0, <1>5 DEF FinalCheckpoint, Crash, AwaitApproval, RecordObservation, RecordApproved, TypeOK
  <2> QED
    BY <1>0, <2>1, <2>2 DEF Honest
<1>6. CASE Cancel \/ ResetCancel \/ UNCHANGED vars
  BY <1>0, <1>6 DEF Cancel, ResetCancel, vars, Honest
<1>7. CASE EngineStep /\ ~(MarkRunning \/ OpenCheckpoint \/ CommitStatus \/ FinalCheckpoint)
  <2>1. /\ ~RecordObservation => eng'.lastFailed = eng.lastFailed
        /\ RecordObservation => eng.obs = "ok" \/ eng'.lastFailed \/ eng'.pc = "status"
    BY <1>0, <1>7, EngineFlags
  <2>2. UNCHANGED row
    BY <1>0, <1>7, RowStep DEF EngineStep, RunAsync, MarkRunning, OpenCheckpoint, ResumeLoop, ResumeHold,
       ResumeInFlight, ResumeApproved, LoopExhausted, Deadline, StopCancelled, ContextError, CallModel,
       ModelFails, FinalAnswer, ToolCalls, WriteInFlight, BudgetBlocks, ToolRejected, ApprovalDenied,
       ToolRuns, AwaitApproval, RecordObservation, RecordApproved
  <2>3. ~ResumeLoop /\ ~ResumeHold /\ ~ResumeInFlight /\ ~ResumeApproved /\ ~RecordApproved
    BY <1>0 DEF Honest, ResumeLoop, ResumeHold, ResumeInFlight, ResumeApproved, RecordApproved
  <2>4. Looping \/ Executing
    BY <1>7, <2>3 DEF EngineStep, LoopExhausted, Deadline, StopCancelled, ContextError, CallModel,
       ModelFails, FinalAnswer, Fallback, ToolCalls, WriteInFlight, BudgetBlocks, ToolRejected,
       ApprovalDenied, ToolRuns, AwaitApproval, RecordObservation
  <2>5. row = "running"
    BY <2>4 DEF FlowInv
  <2>6. CASE LoopEnds
    <3>1. hist'.unresolved = hist.unresolved
      BY <2>6, LoopEndsFrame
    <3>2. eng'.pc = "status" /\ eng'.how = eng.how
      BY <2>6, LoopEndsFields DEF Is
    <3>3. eng'.status = "completed" => ~eng.lastFailed
      <4> DEFINE e == Logged(eng, 0)
      <4>1. eng \in EngState /\ e \in EngState
        BY LoggedFlags DEF TypeOK
      <4>2. ASSUME NEW f \in EngState, NEW status, NEW seq
            PROVE  Finish(f, status, seq).status = status
        BY DEF Finish, EngState
      <4>3. CASE FinalAnswer
        <5>1. eng' = Finish(e, IF eng.lastFailed THEN "failed" ELSE "completed", eng.round)
          BY <4>3 DEF FinalAnswer
        <5> HIDE DEF e
        <5>2. eng'.status = IF eng.lastFailed THEN "failed" ELSE "completed"
          BY <4>1, <4>2, <5>1
        <5> QED
          BY <5>2
      <4>4. CASE LoopExhausted \/ Deadline \/ StopCancelled \/ ContextError
        <5>1. \E f \in {eng, e}, status \in {"failed", "cancelled"} : \E seq : eng' = Finish(f, status, seq)
          BY <4>4 DEF LoopExhausted, Deadline, StopCancelled, ContextError
        <5> HIDE DEF e
        <5>2. eng'.status \in {"failed", "cancelled"}
          BY <4>1, <4>2, <5>1
        <5> QED
          BY <5>2
      <4> QED
        BY <2>6, <4>3, <4>4 DEF LoopEnds
    <3> QED
      BY <1>0, <2>2, <2>4, <2>5, <3>1, <3>2, <3>3 DEF Honest
  <2>7. CASE ModelFails
    BY <1>0, <2>1, <2>2, <2>4, <2>5, <2>7, ModelFailsFields
       DEF ModelFails, AwaitApproval, RecordObservation, RecordApproved, GoesOn, Honest
  <2>8. CASE CallModel \/ ToolCalls \/ WriteInFlight
    <3>1. eng'.how = eng.how /\ eng'.pc \in {"model", "dispatch", "exec"}
      BY <2>8, MoveFields, ToolCallsFields, WriteInFlightFields DEF Is
    <3>2. hist'.unresolved = hist.unresolved /\ eng'.lastFailed = eng.lastFailed
      BY <1>0, <2>1, <2>8 DEF CallModel, ToolCalls, WriteInFlight, AwaitApproval, RecordObservation, RecordApproved
    <3> QED
      BY <1>0, <2>2, <2>4, <2>5, <3>1, <3>2 DEF Honest
  <2>9. CASE BudgetBlocks \/ ToolRejected \/ ApprovalDenied \/ \E obs \in {"ok", "failed"} : ToolRuns(obs)
    <3>1. eng.act.call \in Calls /\ (\E obs : Observed(obs)) /\ UNCHANGED hist /\ ~RecordObservation
      BY <2>9 DEF BudgetBlocks, ToolRejected, ApprovalDenied, ToolRuns, ActInv, RecordObservation
    <3>2. eng'.pc = "observe" /\ eng'.how = eng.how
      BY <3>1, ObservedFields DEF Is
    <3> QED
      BY <1>0, <2>1, <2>2, <2>4, <2>5, <3>1, <3>2 DEF Honest
  <2>10. CASE AwaitApproval
    BY <1>0, <2>2, <2>5, <2>10, AwaitFields DEF Is, Honest
  <2>11. CASE RecordObservation
    <3>1. hist'.unresolved <=> eng.obs # "ok"
      BY <2>11 DEF RecordObservation, Observe, TypeOK
    <3>2. /\ eng'.how = eng.how
          /\ eng'.pc \in {"dispatch", "top"} \/ (eng'.pc = "status" /\ eng'.status = "failed")
      BY <2>11, RecordFields DEF GoesOn
    <3> QED
      BY <1>0, <2>1, <2>2, <2>5, <2>11, <3>1, <3>2 DEF Honest
  <2> QED
    BY <1>0, <1>7, <2>3, <2>6, <2>7, <2>8, <2>9, <2>10, <2>11 DEF EngineStep, LoopEnds
<1> QED
  BY <1>0, <1>1, <1>2, <1>3, <1>4, <1>5, <1>6, <1>7 DEF Next

\* A run stored as completed, without a restart or a fallback, has no failed
\* tool after its last successful one (_run_portable, _run_native).
THEOREM CompletedIsHonest == Spec => []HonestCompletion
<1>1. Init => HonestInv
  BY DEF Init, Off, HonestInv, Honest, Looping, Executing, Ending
<1>2. IndInv /\ IndInv' /\ HonestInv /\ [Next]_vars => HonestInv'
  BY HonestStep DEF IndInv
<1>3. HonestInv => HonestCompletion
  BY DEF HonestInv, Honest, HonestCompletion
<1> QED
  BY <1>1, <1>2, <1>3, InvariantHolds, PTL DEF Spec

----------------------------------------------------------------------------
(* A run that waits has the action it waits for on record.                  *)

\* The loop that runs is the one of the saved mode, and the last thing a run
\* does, it does with the status it has just stored.
ModeInv ==
    /\ eng.pc # "off" /\ eng.mode = "portable" => eng.loop = "portable"
    /\ ~hist.fellBack /\ eng.pc \notin {"off", "created", "opening"} => eng.mode = saved.mode
    /\ eng.pc = "final" => row = eng.status
    /\ saved.seq = -1 => saved.mode = "portable" /\ saved.pend = "none"

\* Of a portable run without a crash or a fallback: in_flight is on record only
\* while the tool is executed, and the checkpoint of a wait is the highest one.
WaitInv ==
    /\ saved.pend = "in_flight" => Executing /\ eng.how = "model"
    /\ saved.pend = "awaiting_approval" => saved.seq = Len(saved.trace)
    /\ Ending /\ eng.pend = "awaiting_approval" => eng.seq = Len(eng.trace)
    /\ Ending /\ eng.status = "waiting_approval" =>
          eng.pend = "awaiting_approval" /\ saved.seq <= eng.seq
    /\ row = "waiting_approval" /\ eng.pc = "off" => saved.pend = "awaiting_approval"

Waits == hist.crashes = 0 /\ ~hist.fellBack /\ saved.mode = "portable"

HeldInv == ModeInv /\ (Waits => WaitInv)

\* A checkpoint that is read back has the mode of the engine that wrote it.
LEMMA SavedMode ==
    ASSUME NEW e \in EngState, NEW seq \in Nat, Checkpoint(seq, e)
    PROVE  saved' = saved \/ (saved'.mode = e.mode /\ saved'.seq # -1)
<1>1. seq # -1
  OBVIOUS
<1> QED
  BY <1>1 DEF Checkpoint

\* A step of the engine changes neither its mode nor its loop, but for a fallback.
LEMMA EngineModes ==
    ASSUME TypeOK, TypeOK', ActInv, FlowInv, EngineStep, ~Fallback, ~FinalCheckpoint
    PROVE  /\ eng'.mode = eng.mode /\ eng'.loop = eng.loop
           /\ saved' = saved \/ (saved'.mode = eng.mode /\ saved'.seq # -1)
           /\ hist'.fellBack = hist.fellBack /\ hist'.crashes = hist.crashes
           /\ eng'.pc \notin {"off", "created"}
           /\ eng'.pc = "final" => row' = eng'.status
<1>0. eng \in EngState /\ eng' \in EngState /\ eng'.mode = eng.mode /\ CallSeq \in Nat /\ 0 \in Nat
  BY CallSeqNat, EngineFlags DEF TypeOK
<1>1. CASE MarkRunning \/ CallModel \/ CommitStatus
  BY <1>0, <1>1, MoveFields DEF MarkRunning, CallModel, CommitStatus, Is
<1>2. CASE OpenCheckpoint
  BY <1>0, <1>2, MoveFields, SavedMode DEF OpenCheckpoint, Is
<1>3. CASE ResumeLoop \/ ResumeApproved
  BY <1>0, <1>3, ResumeFields DEF ResumeLoop, ResumeApproved, Is
<1>4. CASE ResumeHold
  BY <1>0, <1>4, HoldFields DEF ResumeHold, Is
<1>5. CASE ResumeInFlight
  BY <1>0, <1>5, InFlightFields DEF ResumeInFlight, Is
<1>6. CASE LoopEnds
  BY <1>0, <1>6, LoopEndsFields, LoopEndsFrame DEF Is
<1>7. CASE ModelFails
  BY <1>0, <1>7, ModelFailsFields DEF ModelFails, GoesOn
<1>8. CASE ToolCalls
  BY <1>0, <1>8, ToolCallsFields DEF ToolCalls, Is
<1>9. CASE WriteInFlight
  <2>1. hist'.fellBack = hist.fellBack /\ hist'.crashes = hist.crashes
    BY <1>9 DEF WriteInFlight, TypeOK
  <2>2. Checkpoint(CallSeq, eng')
    BY <1>9 DEF WriteInFlight
  <2> QED
    BY <1>0, <1>9, <2>1, <2>2, SavedMode, WriteInFlightFields DEF Is
<1>10. CASE BudgetBlocks \/ ToolRejected \/ ApprovalDenied \/ \E obs \in {"ok", "failed"} : ToolRuns(obs)
  <2>1. eng.act.call \in Calls /\ (\E obs : Observed(obs)) /\ UNCHANGED <<saved, hist>>
    BY <1>10 DEF BudgetBlocks, ToolRejected, ApprovalDenied, ToolRuns, ActInv, Executing
  <2> QED
    BY <1>0, <2>1, ObservedFields DEF Is
<1>11. CASE AwaitApproval \/ RecordObservation \/ RecordApproved
  <2>1. /\ Checkpoint(CallSeq, Settled)
        /\ hist'.fellBack = hist.fellBack /\ hist'.crashes = hist.crashes
    BY <1>11 DEF AwaitApproval, RecordObservation, RecordApproved, Observe, TypeOK
  <2>2. eng'.loop = eng.loop /\ eng'.pc \notin {"off", "created", "final"}
    BY <1>11, AwaitFields, RecordFields, ApprovedFields DEF Is, GoesOn
  <2>3. saved' = saved \/ (saved'.mode = eng.mode /\ saved'.seq # -1)
    BY <1>0, <2>1, SettledFlags, SavedMode DEF Flags
  <2> QED
    BY <1>0, <2>1, <2>2, <2>3
<1> QED
  BY <1>1, <1>2, <1>3, <1>4, <1>5, <1>6, <1>7, <1>8, <1>9, <1>10, <1>11 DEF EngineStep, LoopEnds

\* ModeInv is preserved, and no step leads back into a run of the kind WaitInv is about.
LEMMA ModeStep ==
    ASSUME TypeOK, TypeOK', ActInv, FlowInv, ModeInv, [Next]_vars
    PROVE  ModeInv' /\ (Waits' => Waits)
<1>1. CASE EngineStep /\ ~Fallback /\ ~FinalCheckpoint
  <2>1. /\ eng'.mode = eng.mode /\ eng'.loop = eng.loop
        /\ saved' = saved \/ (saved'.mode = eng.mode /\ saved'.seq # -1)
        /\ hist'.fellBack = hist.fellBack /\ hist'.crashes = hist.crashes
        /\ eng'.pc \notin {"off", "created"}
        /\ eng'.pc = "final" => row' = eng'.status
    BY <1>1, EngineModes
  <2>2. eng.pc # "off"
    BY <1>1 DEF EngineStep, MarkRunning, OpenCheckpoint, ResumeLoop, ResumeHold, ResumeInFlight,
                ResumeApproved, LoopExhausted, Deadline, StopCancelled, ContextError, CallModel,
                ModelFails, FinalAnswer, ToolCalls, WriteInFlight, BudgetBlocks, ToolRejected,
                ApprovalDenied, ToolRuns, AwaitApproval, RecordObservation, RecordApproved, CommitStatus
  <2>3. CASE eng.pc \notin {"created", "opening"}
    BY <2>1, <2>2, <2>3 DEF ModeInv, Waits
  <2>4. CASE eng.pc = "created"
    <3>1. MarkRunning
      BY <1>1, <2>4
         DEF EngineStep, MarkRunning, OpenCheckpoint, ResumeLoop, ResumeHold, ResumeInFlight,
             ResumeApproved, LoopExhausted, Deadline, StopCancelled, ContextError, CallModel,
             ModelFails, FinalAnswer, ToolCalls, WriteInFlight, BudgetBlocks, ToolRejected,
             ApprovalDenied, ToolRuns, AwaitApproval, RecordObservation, RecordApproved, CommitStatus
    <3>2. eng'.pc = "opening" /\ saved' = saved
      BY <3>1, MoveFields DEF MarkRunning, Is
    <3> QED
      BY <2>1, <2>4, <3>2 DEF ModeInv, Waits
  <2>5. CASE eng.pc = "opening"
    <3>1. OpenCheckpoint
      BY <1>1, <2>5
         DEF EngineStep, MarkRunning, OpenCheckpoint, ResumeLoop, ResumeHold, ResumeInFlight,
             ResumeApproved, LoopExhausted, Deadline, StopCancelled, ContextError, CallModel,
             ModelFails, FinalAnswer, ToolCalls, WriteInFlight, BudgetBlocks, ToolRejected,
             ApprovalDenied, ToolRuns, AwaitApproval, RecordObservation, RecordApproved, CommitStatus
    <3>2. saved.seq = -1
      BY <2>5 DEF FlowInv
    <3>3. saved'.seq = 0
      BY <3>1, <3>2, OpenSaved
    <3>4. saved'.mode = eng.mode
      BY <2>1, <3>2, <3>3
    <3> QED
      BY <2>1, <2>2, <2>5, <3>2, <3>3, <3>4 DEF ModeInv, Waits
  <2> QED
    BY <2>3, <2>4, <2>5
<1>2. CASE Fallback
  <2>1. eng'.pc = "top" /\ eng'.loop = "portable" /\ saved' = saved /\ hist'.fellBack
    BY <1>2, FallbackFields DEF Fallback, Is, TypeOK
  <2> QED
    BY <2>1 DEF ModeInv, Waits
<1>3. CASE FinalCheckpoint
  <2>1. eng.pc = "final" /\ eng'.pc = "off" /\ UNCHANGED hist
    BY <1>3, OffFields DEF FinalCheckpoint, Is
  <2>2. saved' = saved \/ (saved'.mode = eng.mode /\ saved'.seq # -1)
    BY <1>3, SavedMode DEF FinalCheckpoint, TypeOK, EngState
  <2> QED
    BY <2>1, <2>2 DEF ModeInv, Waits
<1>4. CASE RunAsync
  <2>1. eng'.pc = "created" /\ (eng'.mode = "portable" => eng'.loop = "portable")
    BY <1>4 DEF RunAsync, Off
  <2> QED
    BY <1>4, <2>1 DEF RunAsync, ModeInv, Waits
<1>5. ASSUME NEW approve \in BOOLEAN, ResumeAsync(approve)
      PROVE  ModeInv' /\ (Waits' => Waits)
  <2>1. eng'.pc = "resuming" /\ eng'.mode = saved.mode /\ (eng'.mode = "portable" => eng'.loop = "portable")
    BY <1>5 DEF ResumeAsync, Off
  <2>2. saved' = saved /\ hist'.fellBack = hist.fellBack /\ hist'.crashes = hist.crashes
    BY <1>5 DEF ResumeAsync, TypeOK
  <2> QED
    BY <2>1, <2>2 DEF ModeInv, Waits
<1>6. CASE Crash
  <2>1. eng'.pc = "off" /\ saved' = saved /\ hist'.fellBack = hist.fellBack
    BY <1>6, OffFields DEF Crash, Is, TypeOK
  <2>2. hist'.crashes = hist.crashes + 1 /\ hist.crashes \in Nat
    BY <1>6 DEF Crash, TypeOK
  <2>3. hist'.crashes # 0
    BY <2>2
  <2> QED
    BY <2>1, <2>3 DEF ModeInv, Waits
<1>7. CASE Cancel \/ ResetCancel \/ UNCHANGED vars
  BY <1>7 DEF Cancel, ResetCancel, vars, ModeInv, Waits
<1> QED
  BY <1>1, <1>2, <1>3, <1>4, <1>5, <1>6, <1>7 DEF Next

\* WaitInv is preserved (resume_async, _run_portable, _result).
LEMMA WaitStep ==
    ASSUME TypeOK, TypeOK', ActInv, FlowInv, SeqInv, LedgerInv, ModeInv, WaitInv, Waits, Waits', [Next]_vars
    PROVE  WaitInv'
<1>0. /\ eng \in EngState /\ eng.round \in Nat /\ Len(eng.trace) \in Nat /\ eng.act.id \in Nat
      /\ saved.seq \in Int /\ eng.trace \in Seq(Nat) /\ eng.seq \in Nat
  BY EngFacts, SavedFacts DEF TypeOK
<1>a. eng.pc \notin {"off", "created", "opening"} => eng.mode = "portable" /\ eng.loop = "portable"
  BY DEF ModeInv, Waits
<1>b. hist'.crashes = 0 /\ ~hist'.fellBack /\ ~hist.fellBack
  BY DEF Waits
<1> USE DEF Executing, Looping, Ending
\* An observation clears what is pending.
<1>c. ASSUME eng.pc = "observe", Checkpoint(CallSeq, Settled)
      PROVE  saved'.pend = "none" /\ saved'.seq = CallSeq /\ CallSeq = Len(eng.trace) + 1
  <2>1. CallSeq = Len(eng.trace) + 1
    BY <1>c, CallSeqNext
  <2>2. saved.seq <= Len(eng.trace) + 1
    BY <1>b, <1>c DEF LedgerInv, ExecLedger
  <2>3. ~(CallSeq < saved.seq)
    BY <1>0, <2>1, <2>2
  <2> QED
    BY <1>c, <2>1, <2>3, SettledSaved
\* A step that saves nothing and neither executes nor ends a run.
<1>d. ASSUME saved' = saved, eng'.pc \notin {"off", "exec", "observe", "status", "final"},
             ~Executing \/ eng.how = "approved"
      PROVE  WaitInv'
  BY <1>d DEF WaitInv
<1>1. CASE RunAsync
  BY <1>1, <1>d, RunAsyncFields DEF RunAsync, Is
<1>2. CASE MarkRunning \/ CallModel \/ ToolCalls
  <2>1. /\ saved' = saved /\ ~Executing
        /\ eng'.pc \in {"opening", "model", "dispatch"}
    BY <1>2, MoveFields, ToolCallsFields DEF MarkRunning, CallModel, ToolCalls, Is
  <2> QED
    BY <1>d, <2>1
<1>3. CASE OpenCheckpoint
  <2>1. saved.seq = -1 /\ eng.pend = "none"
    BY <1>3 DEF OpenCheckpoint, FlowInv, ActInv
  <2>2. saved'.pend = "none" /\ eng'.pc = "top"
    BY <1>3, <2>1, OpenSaved, MoveFields DEF Is
  <2> QED
    BY <2>2 DEF WaitInv
<1>4. ASSUME NEW approve \in BOOLEAN, ResumeAsync(approve) PROVE WaitInv'
  <2>1. saved' = saved /\ eng'.pc = "resuming" /\ eng.pc = "off"
    BY <1>4, ResumeAsyncFields DEF ResumeAsync, Is
  <2> QED
    BY <1>d, <2>1
<1>5. CASE ResumeLoop
  <2>1. saved' = saved /\ eng'.pc = "top" /\ eng.pc = "resuming"
    BY <1>5, ResumeFields DEF ResumeLoop, Is
  <2> QED
    BY <1>d, <2>1
<1>6. CASE ResumeHold
  <2>1. saved' = saved /\ eng.pc = "resuming" /\ saved.pend # "none"
    BY <1>6 DEF ResumeHold
  <2>2. saved.pend = "awaiting_approval" /\ saved.seq = Len(saved.trace) /\ eng.trace = saved.trace
    BY <2>1 DEF WaitInv, TypeOK, SavedState, PendStates, SeqInv, ResumeSeq
  <2>3. /\ eng'.pc = "status" /\ eng'.trace = eng.trace /\ eng'.pend = "awaiting_approval"
        /\ eng'.seq = Len(eng.trace)
    BY <1>6, <2>2, HoldFields DEF Is, Holds
  <2> QED
    BY <1>0, <2>1, <2>2, <2>3 DEF WaitInv
<1>7. CASE ResumeInFlight
  BY <1>7 DEF ResumeInFlight, WaitInv
<1>8. CASE ResumeApproved
  <2>1. saved' = saved /\ eng'.pc = "exec" /\ saved.pend = "awaiting_approval"
    BY <1>8, ResumeFields DEF ResumeApproved, Is
  <2> QED
    BY <2>1 DEF WaitInv
<1>9. CASE LoopEnds
  <2>1. saved' = saved /\ eng.pend = "none" /\ ~Executing
    BY <1>9, LoopEndsFrame DEF ActInv
  <2>2. eng'.pc = "status" /\ eng'.pend = "none" /\ eng'.status # "waiting_approval"
    BY <1>9, <2>1, LoopEndsFields DEF Is, Holds
  <2> QED
    BY <2>1, <2>2 DEF WaitInv
<1>10. CASE ModelFails
  <2>1. saved' = saved /\ eng.pend = "none" /\ ~Executing
    BY <1>10 DEF ModelFails, ActInv
  <2>2. /\ eng'.pend = "none"
        /\ eng'.pc \in {"dispatch", "top"} \/ (eng'.pc = "status" /\ eng'.status = "failed")
    BY <1>10, <2>1, ModelFailsFields DEF GoesOn, Holds
  <2> QED
    BY <2>1, <2>2 DEF WaitInv
<1>11. CASE Fallback
  BY <1>b, <1>11 DEF Fallback, TypeOK
<1>12. CASE WriteInFlight
  <2>1. eng'.pc = "exec" /\ eng'.how = "model" /\ eng.pc = "dispatch"
    BY <1>12, WriteInFlightFields DEF WriteInFlight, ActInv, Is
  <2>2. saved' = saved \/ saved'.pend = "in_flight"
    BY <1>12, InFlightSaved
  <2> QED
    BY <2>1, <2>2 DEF WaitInv
<1>13. CASE BudgetBlocks \/ ToolRejected \/ ApprovalDenied \/ \E obs \in {"ok", "failed"} : ToolRuns(obs)
  <2>1. eng.act.call \in Calls /\ (\E obs : Observed(obs)) /\ saved' = saved /\ eng.pc = "exec"
    BY <1>13 DEF BudgetBlocks, ToolRejected, ApprovalDenied, ToolRuns, ActInv
  <2>2. eng'.pc = "observe" /\ eng'.how = eng.how
    BY <2>1, ObservedFields DEF Is
  <2> QED
    BY <2>1, <2>2 DEF WaitInv
<1>14. CASE AwaitApproval
  <2>1. eng.pc = "observe" /\ eng.how = "model" /\ Checkpoint(CallSeq, Settled)
    BY <1>14 DEF AwaitApproval
  <2>2. saved'.pend = "none" /\ saved'.seq = Len(eng.trace) + 1
    BY <1>c, <2>1
  <2>3. /\ eng'.pc = "status" /\ eng'.trace = Append(eng.trace, eng.act.id)
        /\ eng'.pend = "awaiting_approval" /\ eng'.seq = eng.round
    BY <1>14, AwaitFields DEF Is, Holds
  <2>4. eng.round = Len(eng.trace) + 1
    BY <1>a, <2>1 DEF SeqInv, LoopSeq
  <2>5. Len(eng'.trace) = Len(eng.trace) + 1
    BY <1>0, <2>3, AppendLength
  <2>6. saved'.seq <= eng'.seq
    BY <1>0, <2>2, <2>3, <2>4
  <2> QED
    BY <2>2, <2>3, <2>4, <2>5, <2>6 DEF WaitInv
<1>15. CASE RecordObservation
  <2>1. saved'.pend = "none"
    BY <1>c, <1>15 DEF RecordObservation
  <2>2. /\ eng'.pend = "none"
        /\ eng'.pc \in {"dispatch", "top"} \/ (eng'.pc = "status" /\ eng'.status = "failed")
    BY <1>15, RecordFields DEF GoesOn, Holds
  <2> QED
    BY <2>1, <2>2 DEF WaitInv
<1>16. CASE RecordApproved
  <2>1. saved'.pend = "none"
    BY <1>c, <1>16 DEF RecordApproved
  <2>2. /\ eng'.pend = "none"
        /\ eng'.pc = "top" \/ (eng'.pc = "status" /\ eng'.status = "failed")
    BY <1>16, ApprovedFields DEF Is, Holds
  <2> QED
    BY <2>1, <2>2 DEF WaitInv
<1>17. CASE CommitStatus
  <2>1. /\ saved' = saved /\ eng.pc = "status" /\ eng'.pc = "final"
        /\ eng'.trace = eng.trace /\ eng'.pend = eng.pend
        /\ eng'.status = eng.status /\ eng'.seq = eng.seq
    BY <1>17, MoveFields DEF CommitStatus, Is, Holds
  <2> QED
    BY <2>1 DEF WaitInv
<1>18. CASE FinalCheckpoint
  <2>1. eng.pc = "final" /\ eng'.pc = "off" /\ row' = row /\ row = eng.status
    BY <1>18, OffFields DEF FinalCheckpoint, Is, ModeInv
  <2>2. CASE eng.seq < saved.seq
    <3>1. saved' = saved /\ eng.status # "waiting_approval"
      BY <1>0, <1>18, <2>1, <2>2, FinalSaved DEF WaitInv
    <3> QED
      BY <2>1, <3>1 DEF WaitInv
  <2>3. CASE ~(eng.seq < saved.seq)
    <3>1. saved'.seq = eng.seq /\ saved'.trace = eng.trace /\ saved'.pend = eng.pend
      BY <1>18, <2>3, FinalSaved
    <3>2. eng.pend # "in_flight"
      BY <2>1, <2>3 DEF SeqInv, EndSeq
    <3> QED
      BY <2>1, <3>1, <3>2 DEF WaitInv
  <2> QED
    BY <2>2, <2>3
<1>19. CASE Crash
  <2>1. hist'.crashes = hist.crashes + 1 /\ hist.crashes \in Nat
    BY <1>19 DEF Crash, TypeOK
  <2> QED
    BY <1>b, <2>1
<1>20. CASE Cancel \/ ResetCancel \/ UNCHANGED vars
  BY <1>20 DEF Cancel, ResetCancel, vars, WaitInv
<1> QED
  BY <1>1, <1>2, <1>3, <1>4, <1>5, <1>6, <1>7, <1>8, <1>9, <1>10, <1>11, <1>12, <1>13,
     <1>14, <1>15, <1>16, <1>17, <1>18, <1>19, <1>20 DEF Next, EngineStep, LoopEnds

\* A portable run that waits for approval has the action on record for the caller
\* to approve (_run_portable, _result), unless a crash fell between the commits.
THEOREM WaitHasItsAction == Spec => []WaitingHasAction
<1>1. Init => HeldInv
  <2>1. Init => ModeInv
    BY DEF Init, Off, ModeInv
  <2>2. Init => WaitInv
    BY DEF Init, Off, WaitInv, Executing, Ending
  <2> QED
    BY <2>1, <2>2 DEF HeldInv
<1>2. IndInv /\ IndInv' /\ HeldInv /\ [Next]_vars => HeldInv'
  BY ModeStep, WaitStep DEF IndInv, HeldInv
<1>3. HeldInv => WaitingHasAction
  BY DEF HeldInv, Waits, WaitInv, WaitingHasAction
<1> QED
  BY <1>1, <1>2, <1>3, InvariantHolds, PTL DEF Spec

----------------------------------------------------------------------------
(* The budget of a run.                                                     *)

\* Only the entries of tools count (_tool_steps of a restored trace).
LEMMA ToolStepsAppend ==
    ASSUME NEW s \in Seq(Nat), NEW x \in Nat
    PROVE  /\ ToolSteps(s) \in Nat /\ ToolSteps(<<>>) = 0
           /\ ToolSteps(Append(s, x)) = IF x = 0 THEN ToolSteps(s) ELSE ToolSteps(s) + 1
<1> DEFINE t == Append(s, x)
           S == {i \in DOMAIN s : s[i] # 0}
           n == Len(s) + 1
<1>1. /\ t \in Seq(Nat) /\ DOMAIN t = DOMAIN s \cup {n}
      /\ \A i \in DOMAIN s : t[i] = s[i]
      /\ t[n] = x
  BY AppendDomain, AppendProperties, SMTT(30)
<1>2. n \notin DOMAIN s
  BY LenProperties
<1>3. IsFiniteSet(S)
  <2>1. IsFiniteSet(1..Len(s)) /\ DOMAIN s = 1..Len(s)
    BY FS_Interval, LenProperties
  <2> QED
    BY <2>1, FS_Subset
<1>4. {i \in DOMAIN t : t[i] # 0} = IF x = 0 THEN S ELSE S \cup {n}
  <2> HIDE DEF t, n
  <2> QED
    BY <1>1, <1>2
<1>5. Cardinality(S \cup {n}) = Cardinality(S) + 1
  BY <1>2, <1>3, FS_AddElement
<1>6. ToolSteps(<<>>) = 0
  <2>1. {i \in DOMAIN <<>> : <<>>[i] # 0} = {}
    OBVIOUS
  <2> QED
    BY <2>1, FS_EmptySet DEF ToolSteps
<1> QED
  BY <1>4, <1>5, <1>6, ToolStepsNat DEF ToolSteps

\* What _execute_budgeted has counted is what the trace has and what is under way.
Counts ==
    /\ eng.pc \in {"created", "opening"} => eng.taken = 0
    /\ eng.pc \in {"resuming", "exec"} \/ Looping => eng.taken = ToolSteps(eng.trace)
    /\ eng.pc = "observe" => eng.taken = ToolSteps(eng.trace) + 1

\* The executions a trace does not have were lost in a crash, but for the one
\* under way.
Beyond(trace, n) == Len(world) <= ToolSteps(trace) + hist.crashes + n

Within ==
    /\ Len(world) <= MaxToolCalls + hist.crashes
    /\ Looping \/ eng.pc = "exec" => Beyond(eng.trace, 0)
    /\ eng.pc = "observe" => Beyond(eng.trace, 1)
    /\ Ending => eng.seq < saved.seq \/ Beyond(eng.trace, 0)
    /\ saved.pend # "in_flight" => Beyond(saved.trace, IF Approved /\ eng.pc = "observe" THEN 1 ELSE 0)

BudgetInv == ~hist.fellBack => Counts /\ Within

\* The counter follows the trace, through every resume (resume_async).
LEMMA CountsStep ==
    ASSUME TypeOK, TypeOK', ActInv, FlowInv, Counts, ~hist'.fellBack, [Next]_vars
    PROVE  Counts'
<1>0. /\ eng.trace \in Seq(Nat) /\ eng.act.id \in Nat /\ ToolSteps(eng.trace) \in Nat
      /\ ToolSteps(<<>>) = 0 /\ ToolSteps(Append(eng.trace, 0)) = ToolSteps(eng.trace)
      /\ Executing => ToolSteps(Append(eng.trace, eng.act.id)) = ToolSteps(eng.trace) + 1
  <2>1. eng.trace \in Seq(Nat) /\ eng.act.id \in Nat /\ (Executing => eng.act.id # 0)
    BY EngFacts DEF TypeOK, ActInv
  <2> QED
    BY <2>1, ToolStepsAppend
<1>a. ~Fallback
  BY DEF Fallback, TypeOK
<1>b. EngineStep /\ ~FinalCheckpoint => eng'.taken = IF eng.pc = "exec" THEN eng.taken + 1 ELSE eng.taken
  BY <1>a, EngineFlags
<1> USE DEF Looping
<1>1. CASE RunAsync
  BY <1>1 DEF RunAsync, Off, Counts
<1>2. ASSUME NEW approve \in BOOLEAN, ResumeAsync(approve) PROVE Counts'
  <2>1. eng'.pc = "resuming" /\ eng'.trace = saved.trace /\ eng'.taken = ToolSteps(saved.trace)
    BY <1>2 DEF ResumeAsync, Off
  <2> QED
    BY <2>1 DEF Counts
<1>3. CASE MarkRunning
  <2>1. eng'.pc = "opening" /\ eng'.taken = eng.taken /\ eng.pc = "created"
    BY <1>b, <1>3, MoveFields DEF EngineStep, MarkRunning, FinalCheckpoint, Is
  <2> QED
    BY <2>1 DEF Counts
<1>4. CASE OpenCheckpoint
  <2>1. eng'.pc = "top" /\ eng'.taken = eng.taken /\ eng.pc = "opening" /\ eng'.trace = eng.trace
    BY <1>b, <1>4, MoveFields DEF EngineStep, OpenCheckpoint, FinalCheckpoint, Is
  <2>2. eng.trace = <<>>
    BY <2>1 DEF FlowInv
  <2> QED
    BY <1>0, <2>1, <2>2 DEF Counts
<1>5. CASE CallModel \/ ToolCalls \/ WriteInFlight \/ ResumeLoop \/ ResumeApproved
  <2>1. eng'.trace = eng.trace /\ eng'.pc \in {"model", "dispatch", "exec", "top"}
    BY <1>5, MoveFields, ToolCallsFields, WriteInFlightFields, ResumeFields DEF Is
  <2>2. eng.pc = "resuming" \/ Looping
    BY <1>5 DEF CallModel, ToolCalls, WriteInFlight, ResumeLoop, ResumeApproved
  <2>3. eng'.taken = eng.taken
    BY <1>b, <1>5, <2>2 DEF EngineStep, FinalCheckpoint
  <2> QED
    BY <2>1, <2>2, <2>3 DEF Counts
<1>6. CASE ResumeHold \/ ResumeInFlight \/ LoopEnds \/ AwaitApproval \/ CommitStatus \/ FinalCheckpoint
  <2>1. eng'.pc \in {"status", "final", "off"}
    BY <1>6, HoldFields, InFlightFields, LoopEndsFields, AwaitFields, MoveFields, OffFields
       DEF FinalCheckpoint, Is
  <2> QED
    BY <2>1 DEF Counts
<1>7. CASE ModelFails
  <2>1. eng.pc = "model" /\ eng'.taken = eng.taken
    BY <1>b, <1>7 DEF EngineStep, FinalCheckpoint, ModelFails
  <2>2. eng'.trace = Append(eng.trace, 0) /\ eng'.pc \in {"dispatch", "top", "status"}
    BY <1>7, ModelFailsFields DEF GoesOn
  <2> QED
    BY <1>0, <2>1, <2>2 DEF Counts
<1>8. CASE BudgetBlocks \/ ToolRejected \/ ApprovalDenied \/ \E obs \in {"ok", "failed"} : ToolRuns(obs)
  <2>1. eng.pc = "exec" /\ eng.act.call \in Calls /\ (\E obs : Observed(obs)) /\ eng'.taken = eng.taken + 1
    BY <1>b, <1>8 DEF BudgetBlocks, ToolRejected, ApprovalDenied, ToolRuns, ActInv, Executing, EngineStep,
       FinalCheckpoint
  <2>2. eng'.pc = "observe" /\ eng'.trace = eng.trace
    BY <2>1, ObservedFields DEF Is
  <2> QED
    BY <2>1, <2>2 DEF Counts
<1>9. CASE RecordObservation \/ RecordApproved
  <2>1. eng.pc = "observe" /\ eng'.taken = eng.taken
    BY <1>b, <1>9 DEF EngineStep, FinalCheckpoint, RecordObservation, RecordApproved
  <2>2. eng'.trace = Append(eng.trace, eng.act.id) /\ eng'.pc \in {"dispatch", "top", "status"}
    BY <1>9, RecordFields, ApprovedFields DEF GoesOn, Is
  <2> QED
    BY <1>0, <2>1, <2>2 DEF Counts, Executing
<1>10. CASE Crash
  BY <1>10, OffFields DEF Crash, Counts, Is
<1>11. CASE Cancel \/ ResetCancel \/ UNCHANGED vars
  BY <1>11 DEF Cancel, ResetCancel, vars, Counts
<1> QED
  BY <1>a, <1>1, <1>2, <1>3, <1>4, <1>5, <1>6, <1>7, <1>8, <1>9, <1>10, <1>11
     DEF Next, EngineStep, LoopEnds

\* No tool runs beyond the count, and what ran is in the trace that is saved
\* (_execute_budgeted, resume_async).
LEMMA WithinStep ==
    ASSUME TypeOK, TypeOK', ActInv, FlowInv, SeqInv, LedgerInv, RerunInv, Counts, Within,
           ~hist.fellBack, ~hist'.fellBack, [Next]_vars
    PROVE  Within'
<1> DEFINE k == ToolSteps(eng.trace)
           n == Len(world)
           c == hist.crashes
<1>0. /\ k \in Nat /\ n \in Nat /\ c \in Nat /\ ToolSteps(saved.trace) \in Nat
      /\ ToolSteps(<<>>) = 0 /\ ToolSteps(Append(eng.trace, 0)) = k
      /\ Executing => ToolSteps(Append(eng.trace, eng.act.id)) = k + 1
  <2>1. eng.trace \in Seq(Nat) /\ eng.act.id \in Nat /\ (Executing => eng.act.id # 0)
    BY EngFacts DEF TypeOK, ActInv
  <2>2. saved.trace \in Seq(Nat) /\ world \in Seq(Effect) /\ c \in Nat
    BY DEF TypeOK, SavedState
  <2> QED
    BY <2>1, <2>2, ToolStepsAppend, LenProperties
<1>1. Len(eng.trace) \in Nat /\ saved.seq \in Int /\ eng.seq \in Nat /\ MaxToolCalls \in Nat
  <2>1. MaxToolCalls \in Nat
    BY ConstantsAssumption DEF ConstantsAssumption
  <2> QED
    BY <2>1, EngFacts, SavedFacts DEF TypeOK
<1>2. ~Fallback
  BY DEF Fallback, TypeOK
<1>3. Executing /\ eng.how = "model" => saved.pend = "in_flight"
  BY DEF LedgerInv, ExecLedger, RerunInv, FreshCall, TypeOK, SavedState, PendStates, Executing, Observations
<1> USE DEF Looping, Executing, Ending, Approved
\* What a step does that neither runs a tool nor crashes nor saves.
<1>a. ASSUME UNCHANGED world, hist'.crashes = hist.crashes, saved' = saved,
             \/ eng.pc # "observe" /\ eng'.pc # "observe"
             \/ eng.pc = "exec" /\ eng'.pc = "observe" /\ eng'.how = eng.how /\ eng'.trace = eng.trace,
             eng'.pc \in {"top", "model", "dispatch", "exec"} => n <= ToolSteps(eng'.trace) + c,
             eng'.pc \in {"status", "final"} => eng'.seq < saved.seq \/ n <= ToolSteps(eng'.trace) + c
      PROVE  Within'
  <2>1. /\ n <= MaxToolCalls + c
        /\ eng.pc = "exec" => n <= k + c
        /\ saved.pend # "in_flight" /\ eng.pc # "observe" => n <= ToolSteps(saved.trace) + c
    BY <1>0 DEF Within, Beyond
  <2>2. CASE eng'.pc = "observe"
    <3>1. eng.pc = "exec" /\ eng'.how = eng.how /\ eng'.trace = eng.trace
      BY <1>a, <2>2
    <3>2. n <= k + c + 1 /\ (saved.pend # "in_flight" =>
             n <= ToolSteps(saved.trace) + c + 0 /\ n <= ToolSteps(saved.trace) + c + 1)
      BY <1>0, <2>1, <3>1
    <3> QED
      BY <1>a, <2>1, <2>2, <3>1, <3>2 DEF Within, Beyond
  <2>3. CASE eng'.pc # "observe"
    <3>1. /\ saved.pend # "in_flight" => n <= ToolSteps(saved.trace) + c + 0
          /\ ToolSteps(eng'.trace) \in Nat
      BY <1>0, <1>a, <2>1, <2>3, EngFacts, ToolStepsAppend DEF TypeOK
    <3>2. ToolSteps(eng'.trace) + c + 0 = ToolSteps(eng'.trace) + c
      BY <1>0, <3>1
    <3> QED
      BY <1>a, <2>1, <2>3, <3>1, <3>2 DEF Within, Beyond
  <2> QED
    BY <2>2, <2>3
<1>4. CASE RunAsync \/ MarkRunning \/ \E approve \in BOOLEAN : ResumeAsync(approve)
  <2>1. eng'.pc \in {"created", "opening", "resuming"} /\ eng.pc \in {"off", "created"}
    BY <1>4, RunAsyncFields, MoveFields, ResumeAsyncFields DEF RunAsync, MarkRunning, ResumeAsync, Is
  <2>2. UNCHANGED world /\ hist'.crashes = hist.crashes /\ saved' = saved
    BY <1>4 DEF RunAsync, MarkRunning, ResumeAsync, TypeOK
  <2> QED
    BY <1>a, <2>1, <2>2
<1>5. CASE OpenCheckpoint
  <2>1. world = <<>> /\ eng.trace = <<>> /\ saved.seq = -1 /\ UNCHANGED <<world, hist>>
    BY <1>5 DEF OpenCheckpoint, FlowInv
  <2>2. eng'.trace = <<>> /\ eng'.pc = "top" /\ saved'.trace = <<>>
    BY <1>5, <2>1, MoveFields, OpenSaved DEF Is
  <2>3. n = 0
    BY <2>1, EmptySeq
  <2> QED
    BY <1>0, <1>1, <2>1, <2>2, <2>3 DEF Within, Beyond
<1>6. CASE ResumeLoop \/ ResumeApproved
  <2>1. /\ UNCHANGED <<world, hist, saved>> /\ eng.pc = "resuming" /\ saved.pend # "in_flight"
    BY <1>6 DEF ResumeLoop, ResumeApproved
  <2>2. eng'.pc \in {"top", "exec"} /\ eng'.trace = eng.trace
    BY <1>6, ResumeFields DEF Is
  <2>3. n <= k + c
    BY <1>0, <2>1 DEF SeqInv, ResumeSeq, Within, Beyond
  <2> QED
    BY <1>a, <2>1, <2>2, <2>3
<1>7. CASE ResumeHold \/ ResumeInFlight
  <2>1. /\ UNCHANGED <<world, hist, saved>> /\ eng.pc = "resuming"
        /\ eng.trace = saved.trace
    BY <1>7 DEF ResumeHold, ResumeInFlight, SeqInv, ResumeSeq
  <2>2. eng'.pc = "status" /\ eng'.trace = eng.trace /\ eng'.seq = Len(eng.trace)
    BY <1>7, HoldFields, InFlightFields DEF Is
  <2>3. CASE saved.pend = "in_flight"
    <3>1. eng'.seq < saved.seq
      BY <1>1, <2>1, <2>2, <2>3 DEF SeqInv, SavedSeq
    <3> QED
      BY <1>a, <2>1, <2>2, <3>1
  <2>4. CASE saved.pend # "in_flight"
    <3>1. n <= k + c
      BY <1>0, <2>1, <2>4 DEF Within, Beyond
    <3> QED
      BY <1>a, <2>1, <2>2, <3>1
  <2> QED
    BY <2>3, <2>4
<1>8. CASE CallModel \/ ToolCalls \/ LoopEnds \/ ModelFails
  <2>1. UNCHANGED <<world, hist, saved>> /\ eng.pc \in {"top", "model"}
    BY <1>8, LoopEndsFrame DEF CallModel, ToolCalls, ModelFails
  <2>2. /\ eng'.trace \in {eng.trace, Append(eng.trace, 0)}
        /\ eng'.pc \in {"model", "dispatch", "top", "status"}
    BY <1>8, MoveFields, ToolCallsFields, LoopEndsFields, ModelFailsFields DEF Is, GoesOn
  <2>3. n <= k + c
    BY <1>0, <2>1 DEF Within, Beyond
  <2>4. ToolSteps(eng'.trace) = k
    BY <1>0, <2>2
  <2> QED
    BY <1>a, <2>1, <2>2, <2>3, <2>4
<1>9. CASE WriteInFlight
  <2>1. eng.pc = "dispatch" /\ UNCHANGED world /\ hist'.crashes = hist.crashes
    BY <1>9 DEF WriteInFlight, TypeOK
  <2>2. ~(CallSeq < saved.seq)
    BY <1>1, <2>1, CallSeqNext DEF LedgerInv, LoopLedger
  <2>3. saved'.pend = "in_flight" /\ eng'.pc = "exec" /\ eng'.trace = eng.trace
    BY <1>9, <2>2, InFlightSaved, WriteInFlightFields DEF Is
  <2> QED
    BY <1>0, <2>1, <2>3 DEF Within, Beyond
<1>10. CASE BudgetBlocks \/ ToolRejected \/ ApprovalDenied
  <2>1. /\ UNCHANGED <<world, hist, saved>> /\ eng.pc = "exec" /\ eng.act.call \in Calls
        /\ \E obs : Observed(obs)
    BY <1>10 DEF BudgetBlocks, ToolRejected, ApprovalDenied, ActInv
  <2>2. eng'.pc = "observe" /\ eng'.how = eng.how /\ eng'.trace = eng.trace
    BY <2>1, ObservedFields DEF Is
  <2> QED
    BY <1>a, <2>1, <2>2
<1>11. ASSUME NEW obs \in {"ok", "failed"}, ToolRuns(obs) PROVE Within'
  <2>1. UNCHANGED <<hist, saved>> /\ eng.pc = "exec" /\ eng.act.call \in Calls /\ Observed(obs)
    BY <1>11 DEF ToolRuns, ActInv
  <2>2. eng'.pc = "observe" /\ eng'.how = eng.how /\ eng'.trace = eng.trace
    BY <2>1, ObservedFields DEF Is
  <2>3. Len(world') = n + 1
    <3>1. \E w : world' = Append(world, w)
      BY <1>11 DEF ToolRuns
    <3> QED
      BY <3>1 DEF TypeOK
  <2>4. k + 1 <= MaxToolCalls
    <3>1. Counted(eng).taken = eng.taken + 1 /\ eng.taken = k
      BY <2>1 DEF Counted, TypeOK, EngState, Counts
    <3>2. ~(Counted(eng).taken > MaxToolCalls)
      BY <1>11 DEF ToolRuns, OverBudget
    <3> QED
      BY <1>0, <1>1, <3>1, <3>2
  <2>5. n <= k + c
    BY <1>0, <2>1 DEF Within, Beyond
  <2>6. n + 1 <= MaxToolCalls + c /\ n + 1 <= k + c + 1
    BY <1>0, <1>1, <2>4, <2>5
  <2>7. saved.pend # "in_flight" => eng.how = "approved" /\ n + 1 <= ToolSteps(saved.trace) + c + 1
    <3>1. saved.pend # "in_flight" => eng.how = "approved"
      BY <1>3, <2>1 DEF TypeOK, EngState
    <3>2. saved.pend # "in_flight" => n <= ToolSteps(saved.trace) + c
      BY <1>0, <2>1 DEF Within, Beyond
    <3> QED
      BY <1>0, <3>1, <3>2
  <2> QED
    BY <2>1, <2>2, <2>3, <2>6, <2>7 DEF Within, Beyond
<1>12. CASE AwaitApproval \/ RecordObservation \/ RecordApproved
  <2>1. /\ eng.pc = "observe" /\ Checkpoint(CallSeq, Settled)
        /\ UNCHANGED world /\ hist'.crashes = hist.crashes
    BY <1>12 DEF AwaitApproval, RecordObservation, RecordApproved, Observe, TypeOK
  <2>2. ~(CallSeq < saved.seq)
    BY <1>1, <2>1, CallSeqNext DEF LedgerInv, ExecLedger
  <2>3. saved'.pend = "none" /\ saved'.trace = Append(eng.trace, eng.act.id)
    BY <2>1, <2>2, SettledSaved
  <2>4. eng'.trace = Append(eng.trace, eng.act.id) /\ eng'.pc \in {"top", "dispatch", "status"}
    BY <1>12, AwaitFields, RecordFields, ApprovedFields DEF GoesOn, Is
  <2>5. n <= k + c + 1 /\ n <= MaxToolCalls + c
    BY <2>1 DEF Within, Beyond
  <2>6. n <= ToolSteps(Append(eng.trace, eng.act.id)) + c
    BY <1>0, <2>1, <2>5
  <2>7. n <= ToolSteps(Append(eng.trace, eng.act.id)) + c + 0
    BY <1>0, <2>1, <2>6
  <2> QED
    BY <2>1, <2>3, <2>4, <2>5, <2>7 DEF Within, Beyond
<1>13. CASE CommitStatus
  <2>1. /\ UNCHANGED <<world, hist, saved>> /\ eng.pc = "status" /\ eng'.pc = "final"
        /\ eng'.trace = eng.trace /\ eng'.seq = eng.seq
    BY <1>13, MoveFields DEF CommitStatus, Is
  <2>2. eng.seq < saved.seq \/ n <= k + c
    BY <1>0, <2>1 DEF Within, Beyond
  <2> QED
    BY <1>a, <2>1, <2>2
<1>14. CASE FinalCheckpoint
  <2>1. UNCHANGED <<world, hist>> /\ eng.pc = "final" /\ eng'.pc = "off"
    BY <1>14, OffFields DEF FinalCheckpoint, Is
  <2>2. CASE eng.seq < saved.seq
    BY <1>14, <1>a, <2>1, <2>2, FinalSaved
  <2>3. CASE ~(eng.seq < saved.seq)
    <3>1. saved'.trace = eng.trace
      BY <1>14, <2>3, FinalSaved
    <3> QED
      BY <2>1, <2>3, <3>1 DEF Within, Beyond
  <2> QED
    BY <2>2, <2>3
<1>15. CASE Crash
  <2>1. eng'.pc = "off" /\ saved' = saved /\ UNCHANGED world /\ hist'.crashes = c + 1
    BY <1>15, OffFields DEF Crash, Is, TypeOK
  <2>2. /\ n <= MaxToolCalls + (c + 1)
        /\ saved.pend # "in_flight" => n <= ToolSteps(saved.trace) + (c + 1) + 0
    <3>1. n <= MaxToolCalls + c
      BY DEF Within
    <3>2. saved.pend # "in_flight" =>
             n <= ToolSteps(saved.trace) + c + 1 \/ n <= ToolSteps(saved.trace) + c + 0
      BY DEF Within, Beyond
    <3>3. n \in Nat /\ c \in Nat /\ MaxToolCalls \in Nat /\ ToolSteps(saved.trace) \in Nat
      BY <1>0, <1>1
    <3> QED
      BY <3>1, <3>2, <3>3, SMTT(20)
  <2> QED
    BY <2>1, <2>2 DEF Within, Beyond
<1>16. CASE Cancel \/ ResetCancel \/ UNCHANGED vars
  BY <1>16 DEF Cancel, ResetCancel, vars, Within, Beyond
<1> QED
  BY <1>2, <1>4, <1>5, <1>6, <1>7, <1>8, <1>9, <1>10, <1>11, <1>12, <1>13, <1>14, <1>15, <1>16
     DEF Next, EngineStep, LoopEnds

\* A run that has fallen back stays one that has.
LEMMA FellBackStays ==
    ASSUME TypeOK, TypeOK', ActInv, FlowInv, [Next]_vars, ~hist'.fellBack PROVE ~hist.fellBack
<1>1. CASE EngineStep /\ ~Fallback /\ ~FinalCheckpoint
  BY <1>1, EngineLogs
<1>2. CASE Fallback \/ FinalCheckpoint
  BY <1>2 DEF Fallback, FinalCheckpoint, TypeOK
<1>3. CASE ~EngineStep
  BY <1>3 DEF Next, RunAsync, ResumeAsync, Cancel, ResetCancel, Crash, vars, TypeOK
<1> QED
  BY <1>1, <1>2, <1>3

\* Over all the resumes of a run together no more tools run than max_tool_calls,
\* but for one per crash (_execute_budgeted, and the count resume_async restores).
THEOREM BudgetOverResumes == Spec => []BudgetHolds
<1>1. Init => BudgetInv
  <2>1. Len(<<>>) = 0 /\ ToolSteps(<<>>) = 0
    BY EmptySeq, ToolStepsAppend
  <2>2. Init => eng.pc = "off" /\ world = <<>> /\ saved.trace = <<>> /\ hist.crashes = 0
    BY DEF Init, Off
  <2>3. MaxToolCalls \in Nat
    BY ConstantsAssumption DEF ConstantsAssumption
  <2> QED
    BY <2>1, <2>2, <2>3 DEF BudgetInv, Counts, Within, Beyond, Looping, Ending, Approved, Executing
<1>2. ASSUME IndInv, IndInv', BudgetInv, [Next]_vars PROVE BudgetInv'
  <2> SUFFICES ASSUME ~hist'.fellBack PROVE (Counts /\ Within)'
    BY DEF BudgetInv
  <2>1. ~hist.fellBack
    BY <1>2, FellBackStays DEF IndInv
  <2> QED
    BY <1>2, <2>1, CountsStep, WithinStep DEF IndInv, BudgetInv
<1>3. BudgetInv => BudgetHolds
  BY DEF BudgetInv, Within, BudgetHolds
<1> QED
  BY <1>1, <1>2, <1>3, InvariantHolds, PTL DEF Spec
=============================================================================
