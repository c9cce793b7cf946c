---------------------------- MODULE Coordinator ----------------------------
(***************************************************************************)
(* The pipeline of multiagent/coordinator.py: a planner, then a coder and a *)
(* reviewer in turn until the reviewer approves or the retries are used up. *)
(*                                                                         *)
(* The three roles are agents of the engine (multiagent/agents.py): a call  *)
(* ends with success and an answer, or without; AgentRun.SessionEnds says   *)
(* that it ends.  An answer that matters only as a whole is a member of     *)
(* Texts; a review is the sequence of its words, since _is_approved reads   *)
(* it.  Prompts and logging are left out.                                   *)
(*                                                                         *)
(* A definition named A_B is A with a bug, and no part of the model.        *)
(***************************************************************************)
EXTENDS Integers, Sequences, FiniteSets

CONSTANTS
    Tasks,      \* what run may be given
    Texts,      \* plans and code
    Empty,      \* a model value: the text ""
    Reviews,    \* what the reviewer may answer
    RoleSteps,  \* max_steps of the agent of each role
    MaxRetries, \* max_retries
    MaxRuns     \* bound: runs of one coordinator

Roles == {"planner", "coder", "reviewer"}

\* The words of a review that its verdict may depend on.
Words == {"APPROVED", "NOT", "NEEDS_FIXES", "verdict:", "**verdict**:", "newline", "other"}

ASSUME ConstantsAssumption ==
    /\ Empty \in Texts
    /\ Reviews \subseteq Seq(Words)
    /\ RoleSteps \in [Roles -> Nat \ {0}]
    /\ MaxRetries \in Nat
    /\ MaxRuns \in Nat

VARIABLES
    pc,       \* "idle", or the role whose agent is at work
    runs,     \* the number of runs begun
    local,    \* the variables of run()
    calls,    \* the calls made by this run: role, input, outcome
    result    \* the PipelineResult, once the run has returned

vars == <<pc, runs, local, calls, result>>

----------------------------------------------------------------------------
(* _is_approved: two regular expressions over the review.                   *)

\* Only whitespace lies between the words i and j of r.
Adjacent(r, i, j) == i < j /\ \A k \in i + 1..j - 1 : r[k] = "newline"

BeginsLine(r, i) == i = 1 \/ r[i - 1] = "newline"

Refuses(r) ==
    \/ \E i \in DOMAIN r : r[i] = "NEEDS_FIXES"
    \/ \E i, j \in DOMAIN r : r[i] = "NOT" /\ r[j] = "APPROVED" /\ Adjacent(r, i, j)

\* Bug: the refusal is not looked for.
IsApproved_Anywhere(r) == \E i \in DOMAIN r : r[i] = "APPROVED"

\* The word stands at the start of a line, or after "verdict:" that does.
IsApproved(r) ==
    /\ ~Refuses(r)
    /\ \E i \in DOMAIN r :
          /\ r[i] = "APPROVED"
          /\ \/ BeginsLine(r, i)
             \/ \E k \in DOMAIN r : r[k] = "verdict:" /\ BeginsLine(r, k) /\ Adjacent(r, k, i)

----------------------------------------------------------------------------
(* The inputs of the agents and what they return.                           *)

Call(role, input, ok, answer, steps) ==
    [role |-> role, input |-> input, ok |-> ok, answer |-> answer, steps |-> steps]

Nothing == [text |-> Empty, review |-> <<>>]

\* Bug: every retry is given the first review.
CoderInput_FirstFeedback(l) ==
    LET fix == l.code # Empty /\ l.feedback # <<>>
    IN  [task |-> l.task, plan |-> l.plan, code |-> IF fix THEN l.code ELSE Empty,
         feedback |-> IF fix THEN l.feedback[1] ELSE <<>>]

\* _build_coder_input: previous code and last review, if both are there.
CoderInput(l) ==
    LET fix == l.code # Empty /\ l.feedback # <<>>
    IN  [task |-> l.task, plan |-> l.plan, code |-> IF fix THEN l.code ELSE Empty,
         feedback |-> IF fix THEN l.feedback[Len(l.feedback)] ELSE <<>>]

ReviewerInput(l) == [task |-> l.task, plan |-> l.plan, code |-> l.code, feedback |-> <<>>]

\* The agent at work has returned after the given number of steps.
Returned(ok, answer, steps) ==
    /\ steps \in 1..RoleSteps[pc]
    /\ calls' = Append(calls, Call(pc, IF pc = "reviewer" THEN ReviewerInput(local)
                                       ELSE CoderInput(local), ok, answer, steps))

Fresh(task) ==
    [task |-> task, plan |-> Empty, code |-> Empty, review |-> <<>>,
     attempt |-> 0, feedback |-> <<>>, steps |-> 0]

NoResult ==
    [success |-> FALSE, plan |-> Empty, code |-> Empty, review |-> <<>>, final |-> <<>>,
     error |-> "none", steps |-> 0, attempts |-> 0, feedback |-> <<>>]

Init ==
    /\ pc = "idle" /\ runs = 0 /\ calls = <<>> /\ result = NoResult
    /\ \E task \in Tasks : local = Fresh(task)

----------------------------------------------------------------------------
(* run(task).                                                               *)

Run(task) ==
    /\ pc = "idle" /\ runs < MaxRuns
    /\ pc' = "planner" /\ runs' = runs + 1
    /\ local' = Fresh(task)
    /\ calls' = <<>>
    /\ result' = NoResult

\* The run is over; what r does not set has the default of PipelineResult.
Finish(r) == pc' = "idle" /\ result' = r /\ UNCHANGED runs

PlannerReturns ==
    /\ pc = "planner"
    /\ \E ok \in BOOLEAN, plan \in Texts, steps \in 1..RoleSteps["planner"] :
          /\ Returned(ok, [Nothing EXCEPT !.text = plan], steps)
          /\ local' = [local EXCEPT !.plan = IF ok THEN plan ELSE @, !.attempt = IF ok THEN 1 ELSE @,
                                    !.steps = @ + steps]
          /\ IF ok THEN pc' = "coder" /\ UNCHANGED <<runs, result>>
             ELSE Finish([NoResult EXCEPT !.error = "planner", !.steps = local'.steps])

\* Bug: a failed coder is reported without the attempt it failed in.
CoderReturns_UncountedFailure ==
    /\ pc = "coder" /\ local.attempt \in 1..MaxRetries + 1
    /\ \E ok \in BOOLEAN, code \in Texts, steps \in 1..RoleSteps["coder"] :
          /\ Returned(ok, [Nothing EXCEPT !.text = code], steps)
          /\ local' = [local EXCEPT !.code = IF ok THEN code ELSE @, !.steps = @ + steps]
          /\ IF ok THEN pc' = "reviewer" /\ UNCHANGED <<runs, result>>
             ELSE Finish([NoResult EXCEPT !.plan = local.plan, !.error = "coder",
                                          !.steps = local'.steps, !.attempts = local.attempt - 1,
                                          !.feedback = local.feedback])

CoderReturns ==
    /\ pc = "coder" /\ local.attempt \in 1..MaxRetries + 1
    /\ \E ok \in BOOLEAN, code \in Texts, steps \in 1..RoleSteps["coder"] :
          /\ Returned(ok, [Nothing EXCEPT !.text = code], steps)
          /\ local' = [local EXCEPT !.code = IF ok THEN code ELSE @, !.steps = @ + steps]
          /\ IF ok THEN pc' = "reviewer" /\ UNCHANGED <<runs, result>>
             ELSE Finish([NoResult EXCEPT !.plan = local.plan, !.error = "coder",
                                          !.steps = local'.steps, !.attempts = local.attempt,
                                          !.feedback = local.feedback])

\* Bug: the attempt that would come next is counted.
Reported_CountsNext(l, attempts) ==
    [NoResult EXCEPT !.plan = l.plan, !.code = l.code, !.steps = l.steps,
                     !.attempts = attempts + 1, !.feedback = l.feedback]

\* What the returns after the reviewer have in common.
Reported(l, attempts) ==
    [NoResult EXCEPT !.plan = l.plan, !.code = l.code, !.steps = l.steps,
                     !.attempts = attempts, !.feedback = l.feedback]

\* The local variables once the review is there.
Reviewed(review, steps) == [local EXCEPT !.review = review, !.steps = @ + steps]

Approve(l) ==
    /\ local' = l
    /\ Finish([Reported(l, l.attempt) EXCEPT !.success = TRUE, !.review = l.review,
                                             !.final = l.review])

\* Bug: one retry too many is prepared, for which the loop has no round.
Refuse_OffByOne(l) ==
    LET next == [l EXCEPT !.feedback = Append(@, l.review)]
    IN  IF l.attempt <= MaxRetries + 1
        THEN local' = [next EXCEPT !.attempt = @ + 1] /\ pc' = "coder" /\ UNCHANGED <<runs, result>>
        ELSE /\ local' = next
             /\ Finish([Reported(next, MaxRetries + 1) EXCEPT !.review = l.review, !.error = "retries"])

\* The review becomes feedback; the coder is called again, or the retries are up.
Refuse(l) ==
    LET next == [l EXCEPT !.feedback = Append(@, l.review)]
    IN  IF l.attempt <= MaxRetries
        THEN local' = [next EXCEPT !.attempt = @ + 1] /\ pc' = "coder" /\ UNCHANGED <<runs, result>>
        ELSE /\ local' = next
             /\ Finish([Reported(next, MaxRetries + 1) EXCEPT !.review = l.review, !.error = "retries"])

ReviewerReturns ==
    /\ pc = "reviewer"
    /\ \E steps \in 1..RoleSteps["reviewer"] :
          \/ \E review \in Reviews :
                /\ Returned(TRUE, [Nothing EXCEPT !.review = review], steps)
                /\ IF IsApproved(review) THEN Approve(Reviewed(review, steps))
                   ELSE Refuse(Reviewed(review, steps))
          \/ /\ Returned(FALSE, Nothing, steps)
             /\ local' = [local EXCEPT !.steps = @ + steps]
             /\ Finish([Reported(local', local.attempt) EXCEPT !.error = "reviewer"])

AgentReturns == PlannerReturns \/ CoderReturns \/ ReviewerReturns

Next == AgentReturns \/ \E task \in Tasks : Run(task)

\* An agent that was called returns (AgentRun.SessionEnds).
Spec == Init /\ [][Next]_vars /\ WF_vars(AgentReturns)
----------------------------------------------------------------------------
(* Properties.                                                              *)

TextsOrReviews == [text : Texts, review : Seq(Words)]
InputType == [task : Tasks, plan : Texts, code : Texts, feedback : Seq(Words)]
CallType == [role : Roles, input : InputType, ok : BOOLEAN, answer : TextsOrReviews, steps : Nat]

LocalType ==
    [task : Tasks, plan : Texts, code : Texts, review : Seq(Words),
     attempt : 0..MaxRetries + 1, feedback : Seq(Seq(Words)), steps : Nat]

ResultType ==
    [success : BOOLEAN, plan : Texts, code : Texts, review : Seq(Words), final : Seq(Words),
     error : {"none", "planner", "coder", "reviewer", "retries"}, steps : Nat,
     attempts : 0..MaxRetries + 1, feedback : Seq(Seq(Words))]

\* The variables have their types.
TypeOK ==
    /\ pc \in Roles \cup {"idle"}
    /\ runs \in 0..MaxRuns
    /\ local \in LocalType
    /\ calls \in Seq(CallType)
    /\ result \in ResultType

\* What a reader of the review would not take for an approval.
Objects(r) ==
    \/ \A i \in DOMAIN r : r[i] # "APPROVED"
    \/ \E i \in DOMAIN r : r[i] = "NEEDS_FIXES"
    \/ \E i \in 2..Len(r) : r[i] = "APPROVED" /\ r[i - 1] = "NOT"

\* The code that a successful run returns is the last one the coder wrote, the
\* reviewer was shown this code and this plan, and did not object to it.
ApprovedCodeReturned ==
    pc = "idle" /\ result.success =>
        LET n == Len(calls)
        IN  /\ n >= 3
            /\ calls[n].role = "reviewer" /\ calls[n].ok /\ calls[n - 1].role = "coder"
            /\ calls[n - 1].ok /\ calls[n - 1].answer.text = result.code
            /\ calls[n].input.code = result.code /\ calls[n].input.plan = result.plan
            /\ calls[n].answer.review = result.final /\ ~Objects(result.final)

\* A retry shows the coder its last code with the review of that code, unless
\* the code was empty: that review reaches nobody.
RetryCarriesFeedback ==
    \A i \in DOMAIN calls :
        calls[i].role = "coder" /\ i > 2 /\ calls[i - 2].answer.text # Empty =>
            /\ calls[i].input.code = calls[i - 2].answer.text
            /\ calls[i].input.feedback = calls[i - 1].answer.review

Made(role) == {i \in DOMAIN calls : calls[i].role = role}

\* The steps that the calls of s took together.
StepsTaken(s) ==
    LET sum[k \in 0..Len(s)] == IF k = 0 THEN 0 ELSE sum[k - 1] + s[k].steps
    IN  sum[Len(s)]

\* Whichever of the five returns ends the run, its result counts the attempts
\* that were begun and lists the reviews that sent the coder back, in order.
Accounted ==
    pc = "idle" /\ runs > 0 =>
        /\ result.attempts = Cardinality(Made("coder"))
        /\ result.steps = StepsTaken(calls)
        /\ Len(result.feedback) = Cardinality({i \in Made("reviewer") : calls[i].ok})
                                  - (IF result.success THEN 1 ELSE 0)
        /\ \A k \in DOMAIN result.feedback : result.feedback[k] = calls[2 * k + 1].answer.review

\* A run comes to its end: no answer of the reviewer leaves it without a next
\* step, and the retries run out.
PipelineEnds == (pc # "idle") ~> (pc = "idle")
=============================================================================
