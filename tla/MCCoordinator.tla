--------------------------- MODULE MCCoordinator ---------------------------
(* Instances of Coordinator for TLC.                                        *)
EXTENDS Coordinator

CONSTANTS task, other, x, y

\* One step for the planner and the reviewer, up to two for the coder.
Steps == [r \in Roles |-> IF r = "coder" THEN 2 ELSE 1]

\* Approvals, refusals, and answers that mean one and look like the other.
SomeReviews ==
    {<<"other", "newline", "APPROVED">>,
     <<"verdict:", "newline", "APPROVED">>,
     <<"other", "APPROVED">>,
     <<"verdict:", "NOT", "APPROVED">>,
     <<"APPROVED", "newline", "NEEDS_FIXES">>,
     <<"other", "newline", "**verdict**:", "APPROVED">>}
=============================================================================
