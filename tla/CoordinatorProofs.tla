------------------------- MODULE CoordinatorProofs -------------------------
(***************************************************************************)
(* Theorems about Coordinator, for all tasks, texts and reviews, and all    *)
(* numbers of retries and runs: the variables keep their types, a           *)
(* successful run returns the code that was reviewed, a retry carries the   *)
(* review of the code it is to correct, and a result accounts for the calls *)
(* that were made.                                                          *)
(***************************************************************************)
EXTENDS Coordinator, PickedFacts

USE ConstantsAssumption DEF ConstantsAssumption

\* What run() knows when it calls an agent: how many calls it has made, and
\* that its variables still hold what the last of them returned.
Shape ==
    /\ pc = "planner" => calls = <<>>
    /\ pc = "coder" =>
          /\ local.attempt >= 1
          /\ Len(calls) = 2 * local.attempt - 1
          /\ local.attempt > 1 =>
                /\ local.feedback # <<>>
                /\ local.feedback[Len(local.feedback)] = calls[Len(calls)].answer.review
                /\ local.code = calls[Len(calls) - 1].answer.text
    /\ pc = "reviewer" =>
          /\ local.attempt >= 1
          /\ Len(calls) = 2 * local.attempt
          /\ calls[Len(calls)].role = "coder"
          /\ calls[Len(calls)].ok
          /\ calls[Len(calls)].answer.text = local.code

----------------------------------------------------------------------------
(* Types.                                                                   *)

\* An answer in one of its two forms is an answer.
LEMMA AnswerTypes ==
    /\ \A text \in Texts : [Nothing EXCEPT !.text = text] \in TextsOrReviews
    /\ \A review \in Reviews : [Nothing EXCEPT !.review = review] \in TextsOrReviews
    /\ Nothing \in TextsOrReviews
<1>1. <<>> \in Seq(Words)
  OBVIOUS
<1>2. \A text \in Texts, review \in Seq(Words) : [text |-> text, review |-> review] \in TextsOrReviews
  BY DEF TextsOrReviews
<1>3. ASSUME NEW text \in Texts PROVE [Nothing EXCEPT !.text = text] \in TextsOrReviews
  <2>1. [Nothing EXCEPT !.text = text] = [text |-> text, review |-> <<>>]
    BY DEF Nothing
  <2> QED
    BY <1>1, <1>2, <2>1
<1>4. ASSUME NEW review \in Reviews PROVE [Nothing EXCEPT !.review = review] \in TextsOrReviews
  <2>1. [Nothing EXCEPT !.review = review] = [text |-> Empty, review |-> review]
    BY DEF Nothing
  <2> QED
    BY <1>2, <2>1
<1>5. Nothing \in TextsOrReviews
  BY <1>1, <1>2 DEF Nothing
<1> QED
  BY <1>3, <1>4, <1>5

\* The calls of a run keep their type when one more is made.
LEMMA CallsType ==
    ASSUME TypeOK, pc \in Roles,
           NEW ok \in BOOLEAN, NEW answer \in TextsOrReviews, NEW steps \in Nat,
           Returned(ok, answer, steps)
    PROVE  calls' \in Seq(CallType)
<1>1. CoderInput(local) \in InputType /\ ReviewerInput(local) \in InputType
  <2>1. local \in LocalType
    BY DEF TypeOK
  <2>2. /\ local.task \in Tasks /\ local.plan \in Texts /\ local.code \in Texts
        /\ local.feedback \in Seq(Seq(Words)) /\ <<>> \in Seq(Words) /\ Empty \in Texts
    BY <2>1 DEF LocalType
  <2>3. local.feedback # <<>> => local.feedback[Len(local.feedback)] \in Seq(Words)
    BY <2>2
  <2> QED
    BY <2>2, <2>3 DEF CoderInput, ReviewerInput, InputType
<1>2. Call(pc, IF pc = "reviewer" THEN ReviewerInput(local) ELSE CoderInput(local), ok, answer, steps)
         \in CallType
  BY <1>1 DEF Call, CallType
<1> QED
  BY <1>2 DEF Returned, TypeOK

\* The types hold at the beginning.
LEMMA TypeInit == Init => TypeOK
BY DEF Init, TypeOK, Fresh, NoResult, LocalType, ResultType, Roles

\* A step keeps them.
LEMMA TypeStep == TypeOK /\ [Next]_vars => TypeOK'
<1> SUFFICES ASSUME TypeOK, [Next]_vars PROVE TypeOK'
  OBVIOUS
<1>0. /\ local \in LocalType /\ result \in ResultType /\ NoResult \in ResultType
      /\ runs \in 0..MaxRuns /\ runs \in Nat
      /\ local.attempt \in 0..MaxRetries + 1
      /\ \A steps \in Nat : local.steps + steps \in Nat
  BY DEF TypeOK, NoResult, ResultType, LocalType
<1>1. ASSUME NEW task \in Tasks, Run(task) PROVE TypeOK'
  BY <1>0, <1>1 DEF Run, TypeOK, Fresh, LocalType, Roles
<1>2. CASE PlannerReturns
  <2>1. PICK ok \in BOOLEAN, plan \in Texts, steps \in 1..RoleSteps["planner"] : PlannerReturns!2!(ok, plan, steps)
    BY <1>2 DEF PlannerReturns
  <2>2. steps \in Nat
    BY <2>1 DEF Roles
  <2>3. calls' \in Seq(CallType)
    BY <1>2, <2>1, <2>2, AnswerTypes, CallsType DEF PlannerReturns, Roles
  <2>4. local' \in LocalType
    <3>1. /\ (IF ok THEN plan ELSE local.plan) \in Texts
          /\ (IF ok THEN 1 ELSE local.attempt) \in 0..MaxRetries + 1
      <4>1. local.plan \in Texts /\ 1 \in 0..MaxRetries + 1
        BY <1>0 DEF LocalType
      <4> QED
        BY <1>0, <4>1, Zenon
    <3>2. local' = [local EXCEPT !.plan = IF ok THEN plan ELSE local.plan,
                                 !.attempt = IF ok THEN 1 ELSE local.attempt,
                                 !.steps = local.steps + steps]
      BY <2>1
    <3> QED
      BY <1>0, <2>2, <3>1, <3>2 DEF LocalType
  <2>5. local'.steps \in Nat
    BY <2>4 DEF LocalType
  <2>6. runs' \in 0..MaxRuns /\ pc' \in Roles \cup {"idle"}
    BY <1>0, <2>1 DEF Finish, Roles
  <2>7. result' \in ResultType
    BY <1>0, <2>1, <2>5 DEF Finish, ResultType
  <2> QED
    BY <2>3, <2>4, <2>6, <2>7 DEF TypeOK
<1>3. CASE CoderReturns
  <2>1. PICK ok \in BOOLEAN, code \in Texts, steps \in 1..RoleSteps["coder"] : CoderReturns!2!(ok, code, steps)
    BY <1>3 DEF CoderReturns
  <2>2. steps \in Nat
    BY <2>1 DEF Roles
  <2>3. calls' \in Seq(CallType)
    BY <1>3, <2>1, <2>2, AnswerTypes, CallsType DEF CoderReturns, Roles
  <2>4. local' \in LocalType
    BY <1>0, <2>1, <2>2 DEF LocalType
  <2>5. local'.steps \in Nat /\ local.plan \in Texts /\ local.feedback \in Seq(Seq(Words))
        /\ local.attempt \in 0..MaxRetries + 1
    BY <1>0, <2>4 DEF LocalType
  <2>6. runs' \in 0..MaxRuns /\ pc' \in Roles \cup {"idle"}
    BY <1>0, <2>1 DEF Finish, Roles
  <2>7. result' \in ResultType
    <3>1. CASE ok
      BY <1>0, <2>1, <3>1
    <3>2. CASE ~ok
      <4>1. result' = [NoResult EXCEPT !.plan = local.plan, !.error = "coder",
                                       !.steps = local'.steps, !.attempts = local.attempt,
                                       !.feedback = local.feedback]
        BY <2>1, <3>2 DEF Finish
      <4> QED
        BY <1>0, <2>5, <4>1 DEF ResultType
    <3> QED
      BY <3>1, <3>2
  <2> QED
    BY <2>3, <2>4, <2>6, <2>7 DEF TypeOK
<1>4. CASE ReviewerReturns
  <2>1. PICK steps \in 1..RoleSteps["reviewer"] : ReviewerReturns!2!(steps)
    BY <1>4 DEF ReviewerReturns
  <2>2. steps \in Nat
    BY <2>1 DEF Roles
  <2>3. ASSUME NEW review \in Reviews, Returned(TRUE, [Nothing EXCEPT !.review = review], steps),
               IF IsApproved(review) THEN Approve(Reviewed(review, steps)) ELSE Refuse(Reviewed(review, steps))
        PROVE  TypeOK'
    <3> DEFINE l == Reviewed(review, steps)
    <3>1. calls' \in Seq(CallType)
      BY <1>4, <2>2, <2>3, AnswerTypes, CallsType DEF ReviewerReturns, Roles
    <3>2. l \in LocalType /\ review \in Seq(Words) /\ local.steps + steps \in Nat
      BY <1>0, <2>2 DEF Reviewed, LocalType
    <3> HIDE DEF l
    <3>3. [l EXCEPT !.feedback = Append(@, l.review)] \in LocalType
      <4>1. Append(l.feedback, l.review) \in Seq(Seq(Words))
        BY <3>2 DEF LocalType
      <4> QED
        BY <3>2, <4>1 DEF LocalType
    <3>4. \A m \in LocalType, n \in 0..MaxRetries + 1 : Reported(m, n) \in ResultType
      BY <1>0 DEF Reported, ResultType, LocalType
    <3>5. CASE IsApproved(review)
      <4>1. Approve(l)
        BY <2>3, <3>5 DEF l
      <4>2. l.attempt \in 0..MaxRetries + 1 /\ l.review \in Seq(Words)
        BY <3>2 DEF LocalType
      <4>3. result' \in ResultType
        <5>1. Reported(l, l.attempt) \in ResultType
          BY <3>2, <3>4, <4>2
        <5>2. result' = [Reported(l, l.attempt) EXCEPT !.success = TRUE, !.review = l.review,
                                                       !.final = l.review]
          BY <4>1 DEF Approve, Finish
        <5> QED
          BY <4>2, <5>1, <5>2 DEF ResultType
      <4> QED
        BY <1>0, <3>1, <3>2, <4>1, <4>3 DEF Approve, Finish, TypeOK
    <3>6. CASE ~IsApproved(review)
      <4> DEFINE next == [l EXCEPT !.feedback = Append(@, l.review)]
      <4>1. Refuse(l)
        BY <2>3, <3>6 DEF l
      <4>2. next \in LocalType /\ l.review \in Seq(Words) /\ l.attempt \in 0..MaxRetries + 1
            /\ next.attempt = l.attempt
        BY <3>2, <3>3 DEF LocalType
      <4> HIDE DEF next
      <4>3. CASE l.attempt <= MaxRetries
        <5>1. /\ local' = [next EXCEPT !.attempt = @ + 1]
              /\ pc' = "coder" /\ UNCHANGED <<runs, result>>
          BY <4>1, <4>3 DEF Refuse, next
        <5>2. local' \in LocalType
          <6>1. next.attempt + 1 \in 0..MaxRetries + 1
            BY <4>2, <4>3
          <6> QED
            BY <4>2, <5>1, <6>1 DEF LocalType
        <5> QED
          BY <1>0, <3>1, <5>1, <5>2 DEF TypeOK, Roles
      <4>4. CASE ~(l.attempt <= MaxRetries)
        <5>1. /\ local' = next
              /\ Finish([Reported(next, MaxRetries + 1) EXCEPT !.review = l.review, !.error = "retries"])
          BY <4>1, <4>4 DEF Refuse, next
        <5>2. Reported(next, MaxRetries + 1) \in ResultType
          BY <3>4, <4>2
        <5>3. result' \in ResultType
          BY <4>2, <5>1, <5>2 DEF Finish, ResultType
        <5> QED
          BY <1>0, <3>1, <4>2, <5>1, <5>3 DEF Finish, TypeOK
      <4> QED
        BY <4>3, <4>4
    <3> QED
      BY <3>5, <3>6
  <2>4. ASSUME Returned(FALSE, Nothing, steps), local' = [local EXCEPT !.steps = @ + steps],
               Finish([Reported(local', local.attempt) EXCEPT !.error = "reviewer"])
        PROVE  TypeOK'
    <3>1. calls' \in Seq(CallType)
      BY <1>4, <2>2, <2>4, AnswerTypes, CallsType DEF ReviewerReturns, Roles
    <3>2. local' \in LocalType /\ local.attempt \in 0..MaxRetries + 1
      BY <1>0, <2>2, <2>4 DEF LocalType
    <3>3. Reported(local', local.attempt) \in ResultType
      BY <1>0, <3>2 DEF Reported, ResultType, LocalType
    <3>4. result' \in ResultType
      BY <2>4, <3>3 DEF Finish, ResultType
    <3> QED
      BY <1>0, <2>4, <3>1, <3>2, <3>4 DEF Finish, TypeOK
  <2> QED
    BY <2>1, <2>3, <2>4
<1>5. CASE UNCHANGED vars
  BY <1>5 DEF vars, TypeOK
<1> QED
  BY <1>1, <1>2, <1>3, <1>4, <1>5 DEF Next, AgentReturns

\* Every variable of a pipeline keeps its type, whatever the agents answer.
THEOREM TypeCorrect == Spec => []TypeOK
<1> QED
  BY TypeInit, TypeStep, PTL DEF Spec

----------------------------------------------------------------------------
(* What the calls of a run have to do with each other.                      *)

\* A verdict that counts as an approval has nothing against it.
LEMMA ApprovalIsClear ==
    ASSUME NEW r \in Seq(Words), IsApproved(r)
    PROVE  ~Objects(r)
<1>1. /\ ~Refuses(r)
      /\ \E i \in DOMAIN r : r[i] = "APPROVED"
  BY DEF IsApproved
<1>2. ASSUME NEW i \in 2..Len(r), r[i] = "APPROVED", r[i - 1] = "NOT" PROVE FALSE
  <2>1. i - 1 \in DOMAIN r /\ i \in DOMAIN r /\ Adjacent(r, i - 1, i)
    BY DEF Adjacent
  <2> QED
    BY <1>1, <1>2, <2>1 DEF Refuses
<1>3. ~\E i \in DOMAIN r : r[i] = "NEEDS_FIXES"
  BY <1>1 DEF Refuses
<1> QED
  BY <1>1, <1>2, <1>3 DEF Objects

\* An agent that returns adds its call and leaves the others alone.
LEMMA OneCallMore ==
    ASSUME TypeOK, NEW ok, NEW answer, NEW steps, Returned(ok, answer, steps)
    PROVE  /\ Len(calls) \in Nat /\ Len(calls') = Len(calls) + 1
           /\ DOMAIN calls = 1..Len(calls) /\ DOMAIN calls' = 1..Len(calls) + 1
           /\ \A i \in 1..Len(calls) : calls'[i] = calls[i]
           /\ calls'[Len(calls) + 1].role = pc
           /\ calls'[Len(calls) + 1].input = IF pc = "reviewer" THEN ReviewerInput(local)
                                             ELSE CoderInput(local)
           /\ calls'[Len(calls) + 1].ok = ok
           /\ calls'[Len(calls) + 1].answer = answer
<1> DEFINE new == Call(pc, IF pc = "reviewer" THEN ReviewerInput(local) ELSE CoderInput(local),
                       ok, answer, steps)
<1>1. calls \in Seq(CallType) /\ calls' = Append(calls, new)
  BY DEF TypeOK, Returned
<1>2. /\ new.role = pc /\ new.ok = ok /\ new.answer = answer
      /\ new.input = IF pc = "reviewer" THEN ReviewerInput(local) ELSE CoderInput(local)
  BY DEF Call
<1> HIDE DEF new
<1>3. /\ Len(calls) \in Nat /\ Len(calls') = Len(calls) + 1 /\ calls'[Len(calls) + 1] = new
      /\ DOMAIN calls = 1..Len(calls) /\ DOMAIN calls' = 1..Len(calls) + 1
      /\ \A i \in 1..Len(calls) : calls'[i] = calls[i]
  BY <1>1
<1> QED
  BY <1>2, <1>3

\* A planner or a reviewer that returns does not disturb what was said of the
\* coder's calls.
LEMMA OtherCallMore ==
    ASSUME TypeOK, RetryCarriesFeedback, pc # "coder",
           NEW ok, NEW answer, NEW steps, Returned(ok, answer, steps)
    PROVE  RetryCarriesFeedback'
<1> DEFINE n == Len(calls)
<1>1. /\ calls'[n + 1].role # "coder" /\ n \in Nat
      /\ DOMAIN calls = 1..n /\ DOMAIN calls' = 1..n + 1
      /\ \A i \in 1..n : calls'[i] = calls[i]
  BY OneCallMore
<1> HIDE DEF n
<1>2. SUFFICES ASSUME NEW i \in DOMAIN calls', calls'[i].role = "coder", i > 2,
                      calls'[i - 2].answer.text # Empty
               PROVE  /\ calls'[i].input.code = calls'[i - 2].answer.text
                      /\ calls'[i].input.feedback = calls'[i - 1].answer.review
  BY DEF RetryCarriesFeedback
<1>3. i \in 1..n
  BY <1>1, <1>2
<1>4. i - 1 \in 1..n /\ i - 2 \in 1..n
  BY <1>1, <1>2, <1>3
<1> QED
  BY <1>1, <1>2, <1>3, <1>4 DEF RetryCarriesFeedback

\* A step keeps the shape of the run.
LEMMA ShapeStep == TypeOK /\ Shape /\ [Next]_vars => Shape'
<1> SUFFICES ASSUME TypeOK, Shape, [Next]_vars PROVE Shape'
  OBVIOUS
<1>0. local \in LocalType /\ local.attempt \in Nat /\ local.feedback \in Seq(Seq(Words))
  BY DEF TypeOK, LocalType
<1>1. ASSUME NEW task \in Tasks, Run(task) PROVE Shape'
  BY <1>1 DEF Run, Shape
<1>2. CASE PlannerReturns
  <2>1. PICK ok \in BOOLEAN, plan \in Texts, steps \in 1..RoleSteps["planner"] : PlannerReturns!2!(ok, plan, steps)
    BY <1>2 DEF PlannerReturns
  <2>2. Len(calls') = 1
    <3>1. Len(calls) = 0
      BY <1>2 DEF PlannerReturns, Shape
    <3> QED
      BY <2>1, <3>1, OneCallMore
  <2>3. CASE ok
    <3>1. pc' = "coder" /\ local'.attempt = 1
      BY <1>0, <2>1, <2>3 DEF LocalType
    <3> QED
      BY <2>2, <3>1 DEF Shape
  <2>4. CASE ~ok
    BY <2>1, <2>4 DEF Finish, Shape
  <2> QED
    BY <2>3, <2>4
<1>3. CASE CoderReturns
  <2>1. PICK ok \in BOOLEAN, code \in Texts, steps \in 1..RoleSteps["coder"] : CoderReturns!2!(ok, code, steps)
    BY <1>3 DEF CoderReturns
  <2>2. /\ pc = "coder" /\ Len(calls) = 2 * local.attempt - 1 /\ local.attempt >= 1
    BY <1>3 DEF CoderReturns, Shape
  <2>3. CASE ok
    <3>1. pc' = "reviewer" /\ local'.code = code /\ local'.attempt = local.attempt
      BY <1>0, <2>1, <2>3 DEF LocalType
    <3>2. /\ Len(calls') = 2 * local'.attempt
          /\ calls'[Len(calls')].role = "coder" /\ calls'[Len(calls')].ok
          /\ calls'[Len(calls')].answer.text = code
      <4>1. [Nothing EXCEPT !.text = code].text = code
        BY DEF Nothing
      <4>2. /\ Len(calls') = Len(calls) + 1 /\ calls'[Len(calls) + 1].role = pc
            /\ calls'[Len(calls) + 1].ok = ok
            /\ calls'[Len(calls) + 1].answer = [Nothing EXCEPT !.text = code]
        BY <2>1, OneCallMore
      <4>3. Len(calls) + 1 = 2 * local'.attempt
        BY <1>0, <2>2, <3>1
      <4>4. calls'[Len(calls')].ok
        BY <2>3, <4>2, Zenon
      <4> QED
        BY <2>2, <4>1, <4>2, <4>3, <4>4
    <3> QED
      BY <2>2, <3>1, <3>2 DEF Shape
  <2>4. CASE ~ok
    BY <2>1, <2>4 DEF Finish, Shape
  <2> QED
    BY <2>3, <2>4
<1>4. CASE ReviewerReturns
  <2>1. PICK steps \in 1..RoleSteps["reviewer"] : ReviewerReturns!2!(steps)
    BY <1>4 DEF ReviewerReturns
  <2>2. /\ pc = "reviewer" /\ Len(calls) = 2 * local.attempt /\ local.attempt >= 1
        /\ calls[Len(calls)].answer.text = local.code
    BY <1>4 DEF ReviewerReturns, Shape
  <2>3. ASSUME NEW review \in Reviews, Returned(TRUE, [Nothing EXCEPT !.review = review], steps),
               IF IsApproved(review) THEN Approve(Reviewed(review, steps)) ELSE Refuse(Reviewed(review, steps))
        PROVE  Shape'
    <3> DEFINE l == Reviewed(review, steps)
    <3>1. CASE pc' = "idle"
      BY <3>1 DEF Shape
    <3>2. CASE pc' # "idle"
      <4>1. /\ pc' = "coder"
            /\ local' = [[l EXCEPT !.feedback = Append(@, l.review)] EXCEPT !.attempt = @ + 1]
        BY <2>3, <3>2 DEF Approve, Refuse, Finish
      <4>2. /\ l.attempt = local.attempt /\ l.code = local.code /\ l.review = review
            /\ l.feedback = local.feedback /\ l \in [DOMAIN local -> {l[f] : f \in DOMAIN local}]
            /\ DOMAIN local = {"task", "plan", "code", "review", "attempt", "feedback", "steps"}
        BY <1>0 DEF Reviewed, LocalType
      <4> HIDE DEF l
      <4>3. /\ local'.attempt = local.attempt + 1 /\ local'.code = local.code
            /\ local'.feedback = Append(local.feedback, review)
        BY <4>1, <4>2
      <4>4. /\ local'.feedback # <<>>
            /\ local'.feedback[Len(local'.feedback)] = review
        <5>1. review \in Seq(Words)
          OBVIOUS
        <5>2. /\ Len(local.feedback) \in Nat
              /\ Len(Append(local.feedback, review)) = Len(local.feedback) + 1
              /\ Append(local.feedback, review)[Len(local.feedback) + 1] = review
          BY <1>0, <5>1
        <5>3. Append(local.feedback, review) # <<>>
          BY <1>0, <5>1
        <5> QED
          BY <4>3, <5>2, <5>3
      <4>5. /\ Len(calls') = Len(calls) + 1
            /\ calls'[Len(calls')].answer.review = review
            /\ calls'[Len(calls') - 1] = calls[Len(calls)]
        <5>1. [Nothing EXCEPT !.review = review].review = review
          BY DEF Nothing
        <5>2. Len(calls) \in Nat /\ Len(calls) \in 1..Len(calls)
          BY <1>0, <2>2
        <5>3. /\ Len(calls') = Len(calls) + 1
              /\ calls'[Len(calls) + 1].answer = [Nothing EXCEPT !.review = review]
              /\ calls'[Len(calls)] = calls[Len(calls)]
          BY <2>3, <5>2, OneCallMore
        <5>4. Len(calls) + 1 - 1 = Len(calls)
          BY <5>2
        <5> QED
          BY <5>1, <5>3, <5>4
      <4> QED
        <5>1. local'.attempt >= 1 /\ Len(calls') = 2 * local'.attempt - 1
          <6>1. /\ local'.attempt = local.attempt + 1 /\ Len(calls') = 2 * local.attempt + 1
            BY <2>2, <4>3, <4>5
          <6>2. local.attempt + 1 >= 1 /\ 2 * local.attempt + 1 = 2 * (local.attempt + 1) - 1
            BY <1>0
          <6> QED
            BY <6>1, <6>2
        <5>2. local'.code = calls'[Len(calls') - 1].answer.text
          BY <2>2, <4>3, <4>5
        <5> QED
          BY <4>1, <4>4, <4>5, <5>1, <5>2 DEF Shape
    <3> QED
      BY <3>1, <3>2
  <2>4. CASE pc' = "idle"
    BY <2>4 DEF Shape
  <2> QED
    BY <2>1, <2>3, <2>4 DEF Finish
<1>5. CASE UNCHANGED vars
  BY <1>5 DEF vars, Shape
<1> QED
  BY <1>1, <1>2, <1>3, <1>4, <1>5 DEF Next, AgentReturns

\* The types and the shape hold at every step.
LEMMA Invariance == Spec => [](TypeOK /\ Shape)
<1>1. Init => Shape
  BY DEF Init, Shape
<1> QED
  BY <1>1, TypeInit, TypeStep, ShapeStep, PTL DEF Spec
----------------------------------------------------------------------------

\* The calls of a run stay what RetryCarriesFeedback says of them.
LEMMA FeedbackStep == TypeOK /\ Shape /\ RetryCarriesFeedback /\ [Next]_vars => RetryCarriesFeedback'
<1> SUFFICES ASSUME TypeOK, Shape, RetryCarriesFeedback, [Next]_vars PROVE RetryCarriesFeedback'
  OBVIOUS
<1>1. ASSUME NEW task \in Tasks, Run(task) PROVE RetryCarriesFeedback'
  BY <1>1 DEF Run, RetryCarriesFeedback
<1>2. CASE PlannerReturns
  BY <1>2, OtherCallMore DEF PlannerReturns
<1>3. CASE CoderReturns
  <2>1. PICK ok \in BOOLEAN, code \in Texts, steps \in 1..RoleSteps["coder"] : CoderReturns!2!(ok, code, steps)
    BY <1>3 DEF CoderReturns
  <2>2. calls'[Len(calls) + 1].input = CoderInput(local)
    BY <1>3, <2>1, OneCallMore DEF CoderReturns
  <2>3. /\ Len(calls) \in Nat /\ DOMAIN calls = 1..Len(calls) /\ DOMAIN calls' = 1..Len(calls) + 1
        /\ \A i \in 1..Len(calls) : calls'[i] = calls[i]
    BY <2>1, OneCallMore
  <2>4. SUFFICES ASSUME NEW i \in DOMAIN calls', calls'[i].role = "coder", i > 2,
                        calls'[i - 2].answer.text # Empty
                 PROVE  /\ calls'[i].input.code = calls'[i - 2].answer.text
                        /\ calls'[i].input.feedback = calls'[i - 1].answer.review
    BY DEF RetryCarriesFeedback
  <2>5. CASE i \in DOMAIN calls
    <3>1. calls'[i] = calls[i] /\ calls'[i - 1] = calls[i - 1] /\ calls'[i - 2] = calls[i - 2]
      BY <2>3, <2>4, <2>5
    <3> QED
      BY <2>4, <2>5, <3>1 DEF RetryCarriesFeedback
  <2>6. CASE i = Len(calls) + 1
    <3>1. calls'[i - 1] = calls[Len(calls)] /\ calls'[i - 2] = calls[Len(calls) - 1] /\ Len(calls) > 1
      BY <2>3, <2>4, <2>6
    <3>2. local.attempt > 1
      <4>1. Len(calls) = 2 * local.attempt - 1 /\ local.attempt \in Nat
        BY <1>3 DEF CoderReturns, Shape, TypeOK, LocalType
      <4> QED
        BY <3>1, <4>1
    <3>3. /\ local.feedback # <<>>
          /\ local.feedback[Len(local.feedback)] = calls[Len(calls)].answer.review
          /\ local.code = calls[Len(calls) - 1].answer.text
      BY <1>3, <3>2 DEF CoderReturns, Shape
    <3>4. local.code # Empty
      BY <2>4, <3>1, <3>3
    <3>5. CoderInput(local).code = local.code
          /\ CoderInput(local).feedback = local.feedback[Len(local.feedback)]
      BY <3>3, <3>4 DEF CoderInput
    <3> QED
      BY <2>2, <2>6, <3>1, <3>3, <3>5
  <2> QED
    BY <2>3, <2>5, <2>6
<1>4. CASE ReviewerReturns
  BY <1>4, OtherCallMore DEF ReviewerReturns
<1>5. CASE UNCHANGED vars
  BY <1>5 DEF vars, RetryCarriesFeedback
<1> QED
  BY <1>1, <1>2, <1>3, <1>4, <1>5 DEF Next, AgentReturns

\* _build_coder_input gives a retry the last review of the last code, in
\* every run and however many retries there are.
THEOREM FeedbackReachesCoder == Spec => []RetryCarriesFeedback
<1>1. Init => RetryCarriesFeedback
  BY DEF Init, RetryCarriesFeedback
<1> QED
  BY <1>1, FeedbackStep, Invariance, PTL DEF Spec

\* A run ends with success only on an approval of the code it returns.
LEMMA ApprovedStep == TypeOK /\ Shape /\ ApprovedCodeReturned /\ [Next]_vars => ApprovedCodeReturned'
<1> SUFFICES ASSUME TypeOK, Shape, ApprovedCodeReturned, [Next]_vars PROVE ApprovedCodeReturned'
  OBVIOUS
<1>1. ASSUME NEW task \in Tasks, Run(task) PROVE ApprovedCodeReturned'
  BY <1>1 DEF Run, ApprovedCodeReturned
<1>2. CASE PlannerReturns
  <2>1. pc' # "idle" \/ result'.success = FALSE
    BY <1>2 DEF PlannerReturns, Finish, NoResult
  <2> QED
    BY <2>1 DEF ApprovedCodeReturned
<1>3. CASE CoderReturns
  <2>1. pc' # "idle" \/ result'.success = FALSE
    BY <1>3 DEF CoderReturns, Finish, NoResult
  <2> QED
    BY <2>1 DEF ApprovedCodeReturned
<1>4. CASE ReviewerReturns
  <2>1. PICK steps \in 1..RoleSteps["reviewer"] : ReviewerReturns!2!(steps)
    BY <1>4 DEF ReviewerReturns
  <2>2. CASE pc' # "idle" \/ result'.success = FALSE
    BY <2>2 DEF ApprovedCodeReturned
  <2>3. ASSUME NEW review \in Reviews, Returned(TRUE, [Nothing EXCEPT !.review = review], steps),
               IsApproved(review), Approve(Reviewed(review, steps))
        PROVE  ApprovedCodeReturned'
    <3>1. /\ pc = "reviewer" /\ Len(calls) = 2 * local.attempt /\ local.attempt >= 1
          /\ calls[Len(calls)].role = "coder" /\ calls[Len(calls)].ok
          /\ calls[Len(calls)].answer.text = local.code
      BY <1>4 DEF ReviewerReturns, Shape
    <3>2. Len(calls) \in Nat /\ Len(calls) >= 2 /\ Len(calls) \in 1..Len(calls)
      <4>1. local.attempt \in Nat
        BY DEF TypeOK, LocalType
      <4> QED
        BY <3>1, <4>1
    <3>3. /\ Len(calls') = Len(calls) + 1 /\ Len(calls') - 1 = Len(calls)
          /\ calls'[Len(calls)] = calls[Len(calls)]
          /\ calls'[Len(calls) + 1].role = "reviewer"
          /\ calls'[Len(calls) + 1].input = ReviewerInput(local)
          /\ calls'[Len(calls) + 1].answer.review = review
      <4>1. [Nothing EXCEPT !.review = review].review = review
        BY DEF Nothing
      <4>2. /\ Len(calls') = Len(calls) + 1
            /\ calls'[Len(calls)] = calls[Len(calls)]
            /\ calls'[Len(calls) + 1].role = pc
            /\ calls'[Len(calls) + 1].input = IF pc = "reviewer" THEN ReviewerInput(local)
                                              ELSE CoderInput(local)
            /\ calls'[Len(calls) + 1].answer = [Nothing EXCEPT !.review = review]
        BY <2>3, <3>2, OneCallMore
      <4>3. Len(calls) + 1 - 1 = Len(calls)
        BY <3>2
      <4> QED
        BY <3>1, <4>1, <4>2, <4>3
    <3>4. calls'[Len(calls) + 1].ok = TRUE
      BY <2>3, OneCallMore
    <3>5. /\ ReviewerInput(local).code = local.code /\ ReviewerInput(local).plan = local.plan
          /\ result'.code = local.code /\ result'.plan = local.plan /\ result'.final = review
      <4>1. DOMAIN local = {"task", "plan", "code", "review", "attempt", "feedback", "steps"}
        BY DEF TypeOK, LocalType
      <4> QED
        BY <2>3, <4>1 DEF Approve, Finish, Reported, Reviewed, NoResult, ReviewerInput
    <3>6. ~Objects(review)
      BY <2>3, ApprovalIsClear
    <3>7. calls'[Len(calls')].ok /\ calls'[Len(calls') - 1].ok
      BY <3>1, <3>3, <3>4, Zenon
    <3>8. /\ Len(calls') >= 3
          /\ calls'[Len(calls')].role = "reviewer" /\ calls'[Len(calls') - 1].role = "coder"
          /\ calls'[Len(calls') - 1].answer.text = result'.code
          /\ calls'[Len(calls')].input.code = result'.code /\ calls'[Len(calls')].input.plan = result'.plan
          /\ calls'[Len(calls')].answer.review = result'.final /\ ~Objects(result'.final)
      <4>1. Len(calls') >= 3
        BY <3>2, <3>3
      <4>2. calls'[Len(calls')] = calls'[Len(calls) + 1] /\ calls'[Len(calls') - 1] = calls[Len(calls)]
        BY <3>3
      <4>3. ~Objects(result'.final)
        BY <3>5, <3>6, Zenon
      <4> QED
        BY <3>1, <3>3, <3>5, <4>1, <4>2, <4>3
    <3> QED
      BY <3>7, <3>8, Zenon DEF ApprovedCodeReturned
  <2>4. ASSUME ~(pc' # "idle" \/ result'.success = FALSE)
        PROVE  \E review \in Reviews :
                  /\ Returned(TRUE, [Nothing EXCEPT !.review = review], steps)
                  /\ IsApproved(review) /\ Approve(Reviewed(review, steps))
    BY <2>1, <2>4 DEF Refuse, Finish, Reported, NoResult
  <2> QED
    BY <2>2, <2>3, <2>4
<1>5. CASE UNCHANGED vars
  BY <1>5 DEF vars, ApprovedCodeReturned
<1> QED
  BY <1>1, <1>2, <1>3, <1>4, <1>5 DEF Next, AgentReturns

\* run returns success only with the code its reviewer has seen and approved.
THEOREM OnlyApprovedCode == Spec => []ApprovedCodeReturned
<1>1. Init => ApprovedCodeReturned
  BY DEF Init, ApprovedCodeReturned, NoResult
<1> QED
  BY <1>1, ApprovedStep, Invariance, PTL DEF Spec

----------------------------------------------------------------------------
(* The account of a run.                                                    *)

From0(g, m) == g = [k \in 0..m |-> g[k]]

\* g[k] is the number of steps that the first k calls of s took.
IsTotal(s, g) ==
    /\ From0(g, Len(s)) /\ g[0] = 0
    /\ \A k \in 1..Len(s) : g[k] \in Nat /\ g[k] = g[k - 1] + s[k].steps

\* The recursion of StepsTaken has a solution.
LEMMA TotalExists ==
    ASSUME NEW s \in Seq(CallType)
    PROVE  \E g : IsTotal(s, g)
<1> DEFINE P(m, g) == /\ From0(g, m) /\ g[0] = 0
                      /\ \A k \in 1..m : g[k] \in Nat /\ g[k] = g[k - 1] + s[k].steps
           Bad == {m \in 0..Len(s) : ~ \E g : P(m, g)}
<1>1. Len(s) \in Nat /\ \A k \in 1..Len(s) : s[k].steps \in Nat
  <2>1. Len(s) \in Nat /\ \A k \in 1..Len(s) : s[k] \in CallType
    OBVIOUS
  <2> QED BY <2>1 DEF CallType
<1>2. Bad = {}
  <2> SUFFICES ASSUME Bad # {} PROVE FALSE
    OBVIOUS
  <2>1. PICK m \in Bad : \A l \in Bad : m <= l
    <3>1. Bad \subseteq Nat
      BY <1>1
    <3> HIDE DEF Bad
    <3> QED BY <3>1, LeastNat
  <2>2. m \in 0..Len(s) /\ ~ \E g : P(m, g)
    OBVIOUS
  <2>3. m # 0
    <3> SUFFICES ASSUME m = 0 PROVE FALSE
      OBVIOUS
    <3> DEFINE g == [k \in 0..0 |-> 0]
    <3>1. From0(g, m) /\ g[0] = 0 /\ 1..m = {}
      BY DEF From0
    <3> HIDE DEF g
    <3>2. P(m, g)
      BY <3>1
    <3> QED BY <2>2, <3>2
  <2>4. m - 1 \in 0..Len(s) /\ m \in Nat /\ m \in 1..Len(s) /\ ~ (m <= m - 1)
    BY <1>1, <2>2, <2>3
  <2>5. PICK f : P(m - 1, f)
    <3>1. m - 1 \notin Bad
      <4> HIDE DEF Bad
      <4> QED BY <2>1, <2>4
    <3> HIDE DEF P
    <3> QED BY <2>4, <3>1
  <2>6. f[m - 1] \in Nat
    <3>1. m - 1 = 0 \/ m - 1 \in 1..m - 1
      BY <2>4
    <3> QED BY <2>5, <3>1
  <2> DEFINE g == [k \in 0..m |-> IF k = m THEN f[m - 1] + s[m].steps ELSE f[k]]
  <2>7. /\ From0(g, m) /\ g[m] = f[m - 1] + s[m].steps
        /\ \A k \in 0..m - 1 : g[k] = f[k]
    BY <2>4 DEF From0
  <2> HIDE DEF g
  <2>8. g[0] = 0
    BY <2>4, <2>5, <2>7
  <2>9. \A k \in 1..m : g[k] \in Nat /\ g[k] = g[k - 1] + s[k].steps
    <3> TAKE k \in 1..m
    <3>1. CASE k = m
      <4>1. g[m - 1] = f[m - 1] /\ s[m].steps \in Nat
        BY <1>1, <2>4, <2>7
      <4> QED BY <2>6, <2>7, <3>1, <4>1
    <3>2. CASE k # m
      <4>1. k \in 1..m - 1 /\ k \in 0..m - 1 /\ k - 1 \in 0..m - 1
        BY <2>4, <3>2
      <4> QED BY <2>5, <2>7, <4>1
    <3> QED BY <3>1, <3>2
  <2>10. P(m, g)
    BY <2>7, <2>8, <2>9
  <2> QED BY <2>2, <2>10
<1>3. Len(s) \notin Bad /\ Len(s) \in 0..Len(s)
  BY <1>1, <1>2
<1>4. \E g : P(Len(s), g)
  <2> HIDE DEF P
  <2> QED BY <1>3
<1> QED BY <1>4 DEF IsTotal

\* Whatever solves it says what StepsTaken is.
LEMMA TotalIsSum ==
    ASSUME NEW s \in Seq(CallType), NEW g, IsTotal(s, g)
    PROVE  StepsTaken(s) = g[Len(s)] /\ g[Len(s)] \in Nat
<1> DEFINE n == Len(s)
           Def(f) == f = [k \in 0..n |-> IF k = 0 THEN 0 ELSE f[k - 1] + s[k].steps]
           sum == CHOOSE f : Def(f)
<1>1. n \in Nat
  OBVIOUS
<1>2. StepsTaken(s) = sum[n]
  BY DEF StepsTaken
<1>3. /\ From0(g, n) /\ g[0] = 0
      /\ \A k \in 1..n : g[k] \in Nat /\ g[k] = g[k - 1] + s[k].steps
  BY DEF IsTotal
<1>4. Def(g)
  <2>1. g = [k \in 0..n |-> g[k]]
    BY <1>3, Zenon DEF From0
  <2>2. \A k \in 0..n : g[k] = IF k = 0 THEN 0 ELSE g[k - 1] + s[k].steps
    BY <1>1, <1>3
  <2> HIDE DEF n
  <2> QED BY <2>1, <2>2, Zenon
<1>5. Def(sum)
  <2> HIDE DEF Def
  <2> QED BY <1>4
<1> HIDE DEF sum
<1>6. \A k \in 0..n : sum[k] = IF k = 0 THEN 0 ELSE sum[k - 1] + s[k].steps
  <2> HIDE DEF n
  <2> QED BY <1>5
<1> HIDE DEF Def, n
<1> DEFINE Bad == {k \in 0..n : sum[k] # g[k]}
<1>7. Bad = {}
  <2> SUFFICES ASSUME Bad # {} PROVE FALSE
    OBVIOUS
  <2>1. PICK k \in Bad : \A l \in Bad : k <= l
    <3>1. Bad \subseteq Nat
      BY <1>1
    <3> HIDE DEF Bad
    <3> QED BY <3>1, LeastNat
  <2>2. k \in 0..n /\ sum[k] # g[k]
    OBVIOUS
  <2>3. k # 0
    BY <1>3, <1>6, <2>2
  <2>4. k - 1 \in 0..n /\ k \in 1..n /\ ~ (k <= k - 1)
    BY <1>1, <2>2, <2>3
  <2>5. k - 1 \notin Bad
    <3> HIDE DEF Bad
    <3> QED BY <2>1, <2>4
  <2>6. sum[k - 1] = g[k - 1]
    BY <2>4, <2>5
  <2> QED BY <1>3, <1>6, <2>2, <2>3, <2>4, <2>6
<1>8. n \in 0..n /\ (n = 0 \/ n \in 1..n)
  BY <1>1
<1>9. sum[n] = g[n]
  BY <1>7, <1>8
<1>10. g[n] \in Nat
  BY <1>3, <1>8
<1> QED BY <1>2, <1>9, <1>10 DEF n

\* A call adds its steps to those of the calls before it.
LEMMA StepsTakenFacts ==
    /\ StepsTaken(<<>>) = 0
    /\ \A s \in Seq(CallType), c \in CallType :
          /\ StepsTaken(s) \in Nat
          /\ StepsTaken(Append(s, c)) = StepsTaken(s) + c.steps
<1>1. StepsTaken(<<>>) = 0
  <2>1. <<>> \in Seq(CallType) /\ Len(<<>>) = 0
    OBVIOUS
  <2>2. PICK g : IsTotal(<<>>, g)
    BY <2>1, TotalExists
  <2> QED BY <2>1, <2>2, TotalIsSum DEF IsTotal
<1>2. ASSUME NEW s \in Seq(CallType), NEW c \in CallType
      PROVE  /\ StepsTaken(s) \in Nat
             /\ StepsTaken(Append(s, c)) = StepsTaken(s) + c.steps
  <2> DEFINE t == Append(s, c)
             n == Len(s)
  <2>1. /\ n \in Nat /\ t \in Seq(CallType) /\ Len(t) = n + 1 /\ t[n + 1] = c
        /\ \A k \in 1..n : t[k] = s[k]
    OBVIOUS
  <2>2. PICK g : IsTotal(t, g)
    BY <2>1, TotalExists
  <2>3. StepsTaken(t) = g[n + 1]
    BY <2>1, <2>2, TotalIsSum
  <2> DEFINE f == [k \in 0..n |-> g[k]]
  <2>4. IsTotal(s, f)
    <3>1. From0(f, n) /\ \A k \in 0..n : f[k] = g[k]
      BY DEF From0
    <3> HIDE DEF f, t
    <3>2. f[0] = 0
      BY <2>1, <2>2, <3>1 DEF IsTotal
    <3>3. \A k \in 1..n : f[k] \in Nat /\ f[k] = f[k - 1] + s[k].steps
      <4> TAKE k \in 1..n
      <4>1. k \in 0..n /\ k - 1 \in 0..n /\ k \in 1..Len(t)
        BY <2>1
      <4> QED BY <2>1, <2>2, <3>1, <4>1 DEF IsTotal
    <3> QED BY <3>1, <3>2, <3>3 DEF IsTotal
  <2>5. StepsTaken(s) = f[n] /\ f[n] \in Nat
    BY <2>4, TotalIsSum
  <2>6. f[n] = g[n]
    BY <2>1
  <2>7. g[n + 1] = g[n] + c.steps
    <3>1. n + 1 \in 1..n + 1 /\ (n + 1) - 1 = n
      BY <2>1
    <3> HIDE DEF t, n, f
    <3> QED BY <2>1, <2>2, <3>1 DEF IsTotal
  <2> QED BY <2>3, <2>5, <2>6, <2>7
<1> QED BY <1>1, <1>2

Coders == Cardinality(Made("coder"))
Answers == Cardinality({i \in Made("reviewer") : calls[i].ok})

\* The reviews that run() keeps for the coder are those its reviewer has given.
Kept(feedback) ==
    \A k \in DOMAIN feedback :
        2 * k + 1 \in DOMAIN calls /\ feedback[k] = calls[2 * k + 1].answer.review

\* What run() has counted when it calls an agent.
Tally ==
    pc # "idle" =>
        /\ local.steps = StepsTaken(calls)
        /\ Len(local.feedback) = Answers
        /\ Answers = IF pc = "planner" THEN 0 ELSE local.attempt - 1
        /\ Coders = IF pc = "coder" THEN local.attempt - 1 ELSE local.attempt
        /\ Kept(local.feedback)

\* Only finitely many calls are made, and without calls there is nothing to count.
LEMMA CountFacts ==
    ASSUME TypeOK
    PROVE  /\ IsFiniteSet(Made("coder")) /\ IsFiniteSet({i \in Made("reviewer") : calls[i].ok})
           /\ Coders \in Nat /\ Answers \in Nat
           /\ calls = <<>> => Coders = 0 /\ Answers = 0
<1>1. DOMAIN calls = 1..Len(calls) /\ Len(calls) \in Nat
  BY DEF TypeOK
<1>2. IsFiniteSet(1..Len(calls))
  <2>1. \A a, b \in Int : IsFiniteSet(a..b)
    BY FS_Interval
  <2> QED BY <1>1, <2>1
<1>3. IsFiniteSet(Made("coder")) /\ IsFiniteSet({i \in Made("reviewer") : calls[i].ok})
  <2>1. Made("coder") \in SUBSET (1..Len(calls))
        /\ {i \in Made("reviewer") : calls[i].ok} \in SUBSET (1..Len(calls))
    BY <1>1 DEF Made
  <2> QED BY <1>2, <2>1, FS_Subset
<1>4. calls = <<>> => Made("coder") = {} /\ {i \in Made("reviewer") : calls[i].ok} = {}
  BY DEF Made
<1>5. Cardinality({}) = 0
  BY FS_EmptySet
<1> QED BY <1>3, <1>4, <1>5, FS_CardinalityType DEF Coders, Answers

\* What an agent that returns adds to the counts.
LEMMA CountMore ==
    ASSUME TypeOK, TypeOK', NEW ok \in BOOLEAN, NEW answer, NEW steps \in Nat,
           Returned(ok, answer, steps)
    PROVE  /\ StepsTaken(calls') = StepsTaken(calls) + steps
           /\ Coders' = Coders + (IF pc = "coder" THEN 1 ELSE 0)
           /\ Answers' = Answers + (IF pc = "reviewer" /\ ok THEN 1 ELSE 0)
           /\ \A feedback : Kept(feedback) => Kept(feedback)'
<1> DEFINE n == Len(calls)
           A == {i \in Made("reviewer") : calls[i].ok}
<1>1. /\ n \in Nat /\ Len(calls') = n + 1 /\ DOMAIN calls = 1..n /\ DOMAIN calls' = 1..n + 1
      /\ \A i \in 1..n : calls'[i] = calls[i]
      /\ calls'[n + 1].role = pc
  BY OneCallMore
<1>2. calls'[n + 1].ok = ok
  BY OneCallMore
<1>3. StepsTaken(calls') = StepsTaken(calls) + steps
  <2> DEFINE c == Call(pc, IF pc = "reviewer" THEN ReviewerInput(local) ELSE CoderInput(local),
                       ok, answer, steps)
  <2>1. calls' = Append(calls, c) /\ calls \in Seq(CallType) /\ c.steps = steps
    BY DEF Returned, TypeOK, Call
  <2> HIDE DEF c
  <2>2. calls' \in Seq(CallType) /\ calls'[n + 1] = c /\ n + 1 \in 1..n + 1
    <3>1. calls' \in Seq(CallType)
      BY DEF TypeOK
    <3>2. calls'[n + 1] = c
      BY <2>1
    <3> QED BY <1>1, <3>1, <3>2
  <2>3. c \in CallType
    <3>1. \A i \in DOMAIN calls' : calls'[i] \in CallType
      BY <2>2
    <3> HIDE DEF n
    <3> QED BY <1>1, <2>2, <3>1
  <2> QED BY <2>1, <2>3, StepsTakenFacts
<1>4. \A i \in DOMAIN calls' : i \in DOMAIN calls \/ i = n + 1
  <2> HIDE DEF n
  <2> QED BY <1>1
<1>5. n + 1 \in DOMAIN calls' /\ n + 1 \notin DOMAIN calls /\ DOMAIN calls \subseteq DOMAIN calls'
  <2> HIDE DEF n
  <2> QED BY <1>1
<1>6. \A i \in DOMAIN calls : calls'[i] = calls[i]
  BY <1>1
<1>7. /\ IsFiniteSet(Made("coder")) /\ IsFiniteSet(A)
      /\ Coders \in Nat /\ Answers \in Nat
      /\ Coders = Cardinality(Made("coder")) /\ Answers = Cardinality(A)
  BY CountFacts DEF Coders, Answers
<1>8. n + 1 \notin Made("coder") /\ n + 1 \notin A
  BY <1>5 DEF Made
<1>9. /\ Cardinality(Made("coder") \cup {n + 1}) = Coders + 1
      /\ Cardinality(A \cup {n + 1}) = Answers + 1
  <2> HIDE DEF A, n
  <2> QED BY <1>7, <1>8, FS_AddElement
<1>10. Made("coder")' = IF pc = "coder" THEN Made("coder") \cup {n + 1} ELSE Made("coder")
  <2> HIDE DEF n
  <2> QED BY <1>1, <1>4, <1>5, <1>6 DEF Made
<1>11. A' = IF pc = "reviewer" /\ ok THEN A \cup {n + 1} ELSE A
  <2>1. \A i \in DOMAIN calls : i \in A' <=> i \in A
    BY <1>5, <1>6 DEF Made
  <2>2. n + 1 \in A' <=> pc = "reviewer" /\ ok
    <3>1. n + 1 \in A' <=> (n + 1 \in DOMAIN calls' /\ calls'[n + 1].role = "reviewer")
                           /\ calls'[n + 1].ok
      BY DEF Made
    <3> HIDE DEF A, n
    <3> QED BY <1>1, <1>2, <1>5, <3>1, Zenon
  <2>3. A \subseteq DOMAIN calls /\ A' \subseteq DOMAIN calls'
    BY DEF Made
  <2> HIDE DEF A, n
  <2> QED BY <1>4, <1>5, <2>1, <2>2, <2>3
<1>12. Coders' = Coders + (IF pc = "coder" THEN 1 ELSE 0)
  <2>1. Coders' = Cardinality(Made("coder")')
    BY DEF Coders
  <2>2. CASE pc = "coder"
    <3>1. Coders' = Cardinality(Made("coder") \cup {n + 1})
      BY <1>10, <2>1, <2>2
    <3> QED BY <1>9, <2>2, <3>1
  <2>3. CASE pc # "coder"
    <3>1. Coders' = Cardinality(Made("coder"))
      BY <1>10, <2>1, <2>3
    <3> QED BY <1>7, <2>3, <3>1
  <2> QED BY <2>2, <2>3
<1>13. Answers' = Answers + (IF pc = "reviewer" /\ ok THEN 1 ELSE 0)
  <2>1. Answers' = Cardinality(A')
    BY DEF Answers
  <2> HIDE DEF A, n
  <2> QED BY <1>7, <1>9, <1>11, <2>1
<1>14. ASSUME NEW feedback, Kept(feedback)
       PROVE  Kept(feedback)'
  <2> SUFFICES ASSUME NEW k \in DOMAIN feedback
               PROVE  2 * k + 1 \in DOMAIN calls' /\ feedback[k] = calls'[2 * k + 1].answer.review
    BY DEF Kept
  <2>1. 2 * k + 1 \in DOMAIN calls /\ feedback[k] = calls[2 * k + 1].answer.review
    BY <1>14 DEF Kept
  <2> QED BY <1>5, <1>6, <2>1
<1> QED BY <1>3, <1>12, <1>13, <1>14

\* A step keeps the account.
LEMMA TallyStep ==
    TypeOK /\ TypeOK' /\ Shape /\ Tally /\ Accounted /\ [Next]_vars => Tally' /\ Accounted'
<1> SUFFICES ASSUME TypeOK, TypeOK', Shape, Tally, Accounted, [Next]_vars
             PROVE  Tally' /\ Accounted'
  OBVIOUS
<1>0. /\ local \in LocalType /\ local.attempt \in 0..MaxRetries + 1 /\ local.attempt \in Nat
      /\ local.feedback \in Seq(Seq(Words)) /\ local.steps \in Nat
      /\ Coders \in Nat /\ Answers \in Nat /\ StepsTaken(calls) \in Nat /\ Answers' \in Nat
      /\ DOMAIN local = {"task", "plan", "code", "review", "attempt", "feedback", "steps"}
  <2>1. local \in LocalType /\ calls \in Seq(CallType)
    BY DEF TypeOK
  <2>2. StepsTaken(calls) \in Nat
    <3>1. PICK g : IsTotal(calls, g)
      BY <2>1, TotalExists
    <3> QED BY <2>1, <3>1, TotalIsSum
  <2>3. local.attempt \in 0..MaxRetries + 1 /\ local.feedback \in Seq(Seq(Words))
        /\ local.steps \in Nat
        /\ DOMAIN local = {"task", "plan", "code", "review", "attempt", "feedback", "steps"}
    BY <2>1 DEF LocalType
  <2>4. Answers' \in Nat
    <3>1. (Answers \in Nat)'
      BY CountFacts, PTL
    <3> QED BY <3>1
  <2> QED BY <2>1, <2>2, <2>3, <2>4, CountFacts
<1> PICK given : given = local.feedback
  OBVIOUS
<1>1. ASSUME pc' = "idle", NEW r, result' = r,
             r.attempts = Coders', r.steps = StepsTaken(calls'), Kept(r.feedback)',
             \/ r.success = TRUE /\ Len(r.feedback) = Answers' - 1
             \/ r.success = FALSE /\ Len(r.feedback) = Answers'
      PROVE  Tally' /\ Accounted'
  <2>1. Len(r.feedback) = Answers' - (IF r.success THEN 1 ELSE 0)
    <3>1. CASE r.success = TRUE /\ Len(r.feedback) = Answers' - 1
      <4>1. (IF r.success THEN 1 ELSE 0) = 1
        BY <3>1, Zenon
      <4> QED BY <3>1, <4>1
    <3>2. CASE r.success = FALSE /\ Len(r.feedback) = Answers'
      <4>1. (IF r.success THEN 1 ELSE 0) = 0
        BY <3>2, Zenon
      <4>2. \A a \in Nat : a - 0 = a
        OBVIOUS
      <4>3. Answers' - 0 = Answers'
        BY <1>0, <4>2, Zenon
      <4> QED BY <3>2, <4>1, <4>3
    <3> QED BY <1>1, <3>1, <3>2
  <2>2. \A k \in DOMAIN r.feedback : r.feedback[k] = calls'[2 * k + 1].answer.review
    BY <1>1 DEF Kept
  <2>3. Accounted'
    BY <1>1, <2>1, <2>2, Zenon DEF Accounted, Coders, Answers
  <2> QED BY <1>1, <2>3 DEF Tally
<1>2. ASSUME pc' # "idle" PROVE Accounted'
  BY <1>2 DEF Accounted
<1>3. ASSUME NEW task \in Tasks, Run(task) PROVE Tally' /\ Accounted'
  <2>1. /\ pc' = "planner" /\ calls' = <<>> /\ local' = Fresh(task)
    BY <1>3 DEF Run
  <2>2. local'.attempt = 0 /\ local'.feedback = <<>> /\ local'.steps = 0
    BY <2>1 DEF Fresh
  <2>3. Coders' = 0 /\ Answers' = 0
    <3>1. (calls = <<>> => Coders = 0 /\ Answers = 0)'
      BY CountFacts, PTL
    <3> QED BY <2>1, <3>1
  <2>4. Tally'
    BY <2>1, <2>2, <2>3, StepsTakenFacts DEF Tally, Kept
  <2> QED BY <1>2, <2>1, <2>4
<1>4. CASE PlannerReturns
  <2>1. PICK ok \in BOOLEAN, plan \in Texts, steps \in 1..RoleSteps["planner"] :
           PlannerReturns!2!(ok, plan, steps)
    BY <1>4 DEF PlannerReturns
  <2>2. pc = "planner" /\ calls = <<>> /\ steps \in Nat
    BY <1>4, <2>1 DEF PlannerReturns, Shape, Roles
  <2>3. /\ Coders = 0 /\ Answers = 0 /\ local.attempt = 0 /\ Len(local.feedback) = 0
        /\ local.steps = StepsTaken(calls) /\ Kept(given)
    BY <2>2, CountFacts DEF Tally
  <2>4. /\ StepsTaken(calls') = local.steps + steps /\ Coders' = 0 /\ Answers' = 0
        /\ Kept(given)'
    BY <2>1, <2>2, <2>3, CountMore
  <2>5. CASE ok
    <3>1. /\ pc' = "coder" /\ local'.attempt = 1 /\ local'.steps = local.steps + steps
          /\ local'.feedback = local.feedback
      BY <1>0, <2>1, <2>5
    <3>2. Tally'
      BY <2>3, <2>4, <3>1 DEF Tally, Kept
    <3> QED BY <1>2, <3>1, <3>2
  <2>6. CASE ~ok
    <3>1. /\ pc' = "idle" /\ result' = [NoResult EXCEPT !.error = "planner", !.steps = local'.steps]
          /\ local'.steps = local.steps + steps
      BY <1>0, <2>1, <2>6 DEF Finish
    <3>2. result'.attempts = 0 /\ result'.steps = local'.steps /\ result'.feedback = <<>>
          /\ result'.success = FALSE
      BY <3>1 DEF NoResult
    <3> QED
      <4> PICK r : r = result'
        OBVIOUS
      <4>1. Kept(r.feedback)' /\ Len(r.feedback) = Answers'
        BY <2>4, <3>2 DEF Kept
      <4>2. r.attempts = Coders' /\ r.steps = StepsTaken(calls') /\ r.success = FALSE
        BY <2>4, <3>1, <3>2
      <4> QED BY <1>1, <3>1, <4>1, <4>2
  <2> QED BY <2>5, <2>6
<1>5. CASE CoderReturns
  <2>1. PICK ok \in BOOLEAN, code \in Texts, steps \in 1..RoleSteps["coder"] :
           CoderReturns!2!(ok, code, steps)
    BY <1>5 DEF CoderReturns
  <2>2. pc = "coder" /\ steps \in Nat /\ local.attempt >= 1
    BY <1>5, <2>1 DEF CoderReturns, Shape, Roles
  <2>3. /\ Coders = local.attempt - 1 /\ Answers = local.attempt - 1
        /\ Len(local.feedback) = Answers
        /\ local.steps = StepsTaken(calls) /\ Kept(given)
    BY <2>2 DEF Tally
  <2>4. /\ StepsTaken(calls') = local.steps + steps
        /\ Coders' = local.attempt /\ Answers' = local.attempt - 1
        /\ Kept(given)'
    <3>1. /\ StepsTaken(calls') = StepsTaken(calls) + steps
          /\ Coders' = Coders + 1 /\ Answers' = Answers + 0 /\ Kept(given)'
      BY <2>1, <2>2, <2>3, CountMore
    <3> QED BY <1>0, <2>3, <3>1
  <2>5. CASE ok
    <3>1. /\ pc' = "reviewer" /\ local'.attempt = local.attempt
          /\ local'.steps = local.steps + steps /\ local'.feedback = local.feedback
      BY <1>0, <2>1, <2>5
    <3>2. Tally'
      BY <2>3, <2>4, <3>1 DEF Tally, Kept
    <3> QED BY <1>2, <3>1, <3>2
  <2>6. CASE ~ok
    <3>1. /\ pc' = "idle"
          /\ result' = [NoResult EXCEPT !.plan = local.plan, !.error = "coder",
                                        !.steps = local'.steps, !.attempts = local.attempt,
                                        !.feedback = local.feedback]
          /\ local'.steps = local.steps + steps
      BY <1>0, <2>1, <2>6 DEF Finish
    <3>2. result'.attempts = local.attempt /\ result'.steps = local'.steps
          /\ result'.feedback = local.feedback /\ result'.success = FALSE
      BY <3>1 DEF NoResult
    <3> QED
      <4> PICK r : r = result'
        OBVIOUS
      <4>1. r.feedback = given /\ Kept(r.feedback)' /\ Len(r.feedback) = Answers'
        <5>1. r.feedback = given
          BY <3>2
        <5> QED BY <2>3, <2>4, <5>1
      <4>2. r.attempts = Coders' /\ r.steps = StepsTaken(calls') /\ r.success = FALSE
        BY <2>4, <3>1, <3>2
      <4> QED BY <1>1, <3>1, <4>1, <4>2
  <2> QED BY <2>5, <2>6
<1>6. CASE ReviewerReturns
  <2>1. PICK steps \in 1..RoleSteps["reviewer"] : ReviewerReturns!2!(steps)
    BY <1>6 DEF ReviewerReturns
  <2>2. /\ pc = "reviewer" /\ steps \in Nat /\ local.attempt >= 1
        /\ Len(calls) = 2 * local.attempt
    BY <1>6, <2>1 DEF ReviewerReturns, Shape, Roles
  <2>3. /\ Coders = local.attempt /\ Answers = local.attempt - 1
        /\ Len(local.feedback) = Answers
        /\ local.steps = StepsTaken(calls) /\ Kept(given)
    BY <2>2 DEF Tally
  <2>4. ASSUME NEW review \in Reviews, Returned(TRUE, [Nothing EXCEPT !.review = review], steps),
               IF IsApproved(review) THEN Approve(Reviewed(review, steps))
               ELSE Refuse(Reviewed(review, steps))
        PROVE  Tally' /\ Accounted'
    <3> DEFINE l == Reviewed(review, steps)
    <3>1. /\ StepsTaken(calls') = local.steps + steps
          /\ Coders' = local.attempt /\ Answers' = local.attempt /\ Kept(given)'
      <4>1. /\ StepsTaken(calls') = StepsTaken(calls) + steps
            /\ Coders' = Coders + 0 /\ Answers' = Answers + 1 /\ Kept(given)'
        BY <2>2, <2>3, <2>4, CountMore
      <4> QED BY <1>0, <2>3, <4>1
    <3>2. /\ l \in LocalType /\ l.review = review /\ l.attempt = local.attempt
          /\ l.feedback = local.feedback /\ l.steps = local.steps + steps
          /\ review \in Seq(Words)
      <4>1. PICK n \in Nat : n = local.steps + steps
        BY <1>0, <2>2
      <4>2. review \in Seq(Words)
        BY ConstantsAssumption
      <4>3. l = [local EXCEPT !.review = review, !.steps = n]
        BY <1>0, <4>1 DEF Reviewed
      <4> HIDE DEF l
      <4> QED BY <1>0, <4>1, <4>2, <4>3 DEF LocalType
    <3> HIDE DEF l
    <3>3. CASE IsApproved(review)
      <4>1. /\ pc' = "idle"
            /\ result' = [Reported(l, l.attempt) EXCEPT !.success = TRUE, !.review = l.review,
                                                        !.final = l.review]
        BY <2>4, <3>3 DEF Approve, Finish, l
      <4>2. /\ result'.attempts = l.attempt /\ result'.steps = l.steps
            /\ result'.feedback = l.feedback /\ result'.success = TRUE
        BY <4>1 DEF Reported, NoResult
      <4> QED
        <5> PICK r : r = result'
          OBVIOUS
        <5>1. r.feedback = given /\ Kept(r.feedback)' /\ Len(r.feedback) = Answers' - 1
          <6>1. r.feedback = given
            BY <3>2, <4>2
          <6> QED BY <2>3, <3>1, <6>1
        <5>2. r.attempts = Coders' /\ r.steps = StepsTaken(calls') /\ r.success = TRUE
          BY <3>1, <3>2, <4>2
        <5> QED BY <1>1, <4>1, <5>1, <5>2
    <3>4. CASE ~IsApproved(review)
      <4>0. PICK f : f = Append(local.feedback, review)
        OBVIOUS
      <4> DEFINE next == [l EXCEPT !.feedback = f]
      <4>1. /\ IF l.attempt <= MaxRetries
               THEN local' = [next EXCEPT !.attempt = @ + 1] /\ pc' = "coder"
               ELSE local' = next /\ pc' = "idle"
                    /\ result' = [Reported(next, MaxRetries + 1) EXCEPT !.review = l.review,
                                                                        !.error = "retries"]
        <5>1. Refuse(l)
          BY <2>4, <3>4 DEF l
        <5> QED BY <3>2, <4>0, <5>1 DEF Refuse, Finish
      <4>2. f \in Seq(Seq(Words)) /\ Len(f) = local.attempt /\ DOMAIN f = 1..local.attempt
            /\ f[local.attempt] = review
            /\ \A k \in 1..local.attempt - 1 : f[k] = local.feedback[k] /\ k \in DOMAIN local.feedback
        BY SMTT(30), <1>0, <2>3, <3>2, <4>0
      <4>3. /\ next \in LocalType /\ next.attempt = local.attempt /\ next.feedback = f
            /\ next.steps = l.steps
        BY <3>2, <4>2 DEF LocalType
      <4> HIDE DEF next
      <4>4. Kept(f)'
        <5>1. /\ calls'[2 * local.attempt + 1].answer.review = review
              /\ 2 * local.attempt + 1 \in DOMAIN calls'
          <6>1. /\ calls'[Len(calls) + 1].answer = [Nothing EXCEPT !.review = review]
                /\ DOMAIN calls' = 1..Len(calls) + 1
            BY <2>4, OneCallMore
          <6>2. [Nothing EXCEPT !.review = review].review = review
            BY DEF Nothing
          <6> QED BY SMTT(30), <1>0, <2>2, <6>1, <6>2
        <5>2. ASSUME NEW k \in DOMAIN f
              PROVE  2 * k + 1 \in DOMAIN calls' /\ f[k] = calls'[2 * k + 1].answer.review
          <6>1. CASE k = local.attempt
            BY <4>2, <5>1, <6>1
          <6>2. CASE k # local.attempt
            <7>1. k \in 1..local.attempt - 1
              BY <1>0, <4>2, <6>2
            <7>2. f[k] = local.feedback[k] /\ k \in DOMAIN local.feedback
              BY <4>2, <7>1
            <7> QED BY <3>1, <7>2 DEF Kept
          <6> QED BY <6>1, <6>2
        <5> QED BY <5>2 DEF Kept
      <4>5. CASE l.attempt <= MaxRetries
        <5>1. /\ pc' = "coder" /\ local'.attempt = local.attempt + 1 /\ local'.feedback = f
              /\ local'.steps = l.steps
          BY <4>1, <4>3, <4>5 DEF LocalType
        <5>2. local.attempt + 1 - 1 = local.attempt
          BY <1>0
        <5>3. Tally'
          BY <3>1, <3>2, <4>2, <4>4, <5>1, <5>2 DEF Tally, Kept
        <5> QED BY <1>2, <5>1, <5>3
      <4>6. CASE ~ (l.attempt <= MaxRetries)
        <5>1. /\ pc' = "idle"
              /\ result' = [Reported(next, MaxRetries + 1) EXCEPT !.review = l.review,
                                                                  !.error = "retries"]
          BY <4>1, <4>6
        <5>2. local.attempt = MaxRetries + 1
          BY <1>0, <3>2, <4>6
        <5>3. /\ result'.attempts = local.attempt /\ result'.steps = l.steps
              /\ result'.feedback = f /\ result'.success = FALSE
          BY <4>3, <5>1, <5>2 DEF Reported, NoResult
        <5> QED
          <6> PICK r : r = result'
            OBVIOUS
          <6>1. r.feedback = f
            BY <5>3
          <6>2. Kept(r.feedback)' /\ Len(r.feedback) = Answers'
            BY <3>1, <4>2, <4>4, <6>1
          <6>3. r.attempts = Coders' /\ r.steps = StepsTaken(calls') /\ r.success = FALSE
            BY <3>1, <3>2, <5>3
          <6> QED BY <1>1, <5>1, <6>2, <6>3
      <4> QED BY <4>5, <4>6
    <3> QED BY <3>3, <3>4
  <2>5. ASSUME Returned(FALSE, Nothing, steps), local' = [local EXCEPT !.steps = @ + steps],
               Finish([Reported(local', local.attempt) EXCEPT !.error = "reviewer"])
        PROVE  Tally' /\ Accounted'
    <3>1. /\ StepsTaken(calls') = local.steps + steps
          /\ Coders' = local.attempt /\ Answers' = local.attempt - 1 /\ Kept(given)'
      <4>1. /\ StepsTaken(calls') = StepsTaken(calls) + steps
            /\ Coders' = Coders + 0 /\ Answers' = Answers + 0 /\ Kept(given)'
        BY <2>2, <2>3, <2>5, CountMore
      <4> QED BY <1>0, <2>3, <4>1
    <3>2. /\ local'.steps = local.steps + steps /\ local'.feedback = local.feedback
          /\ pc' = "idle"
          /\ result' = [Reported(local', local.attempt) EXCEPT !.error = "reviewer"]
      BY <1>0, <2>5 DEF Finish
    <3>3. /\ result'.attempts = local.attempt /\ result'.steps = local'.steps
          /\ result'.feedback = local'.feedback /\ result'.success = FALSE
      BY <3>2 DEF Reported, NoResult
    <3> QED
      <4> PICK r : r = result'
        OBVIOUS
      <4>1. r.feedback = given
        BY <3>2, <3>3
      <4>2. Kept(r.feedback)' /\ Len(r.feedback) = Answers'
        BY <2>3, <3>1, <4>1
      <4>3. r.attempts = Coders' /\ r.steps = StepsTaken(calls') /\ r.success = FALSE
        BY <3>1, <3>2, <3>3
      <4> QED BY <1>1, <3>2, <4>2, <4>3
  <2> QED BY <2>1, <2>4, <2>5
<1>7. CASE UNCHANGED vars
  BY <1>7 DEF vars, Tally, Accounted, Coders, Answers, Kept, Made
<1> QED BY <1>3, <1>4, <1>5, <1>6, <1>7 DEF Next, AgentReturns

\* Whichever return ends a run, its result counts the attempts that were begun and
\* the steps that were taken, and lists the reviews that sent the coder back.
THEOREM ResultsAccountForCalls == Spec => []Accounted
<1>1. Init => Tally /\ Accounted
  BY DEF Init, Tally, Accounted
<1> QED BY <1>1, TallyStep, Invariance, PTL DEF Spec
=============================================================================
