-------------------------- MODULE MCWorkflowScheduler --------------------------
(***************************************************************************)
(* Workflows of three nodes.                                               *)
(***************************************************************************)
EXTENDS WorkflowScheduler

NoDeps == [n \in Nodes |-> {}]

Plain ==
  [deps |-> NoDeps, when |-> [n \in Nodes |-> [d \in Nodes |-> "terminal"]],
   writes |-> {}, verify |-> {}, h11 |-> {}, human |-> {}, roles |-> {},
   tools |-> {},
   key |-> [n \in Nodes |-> n],
   outcomes |-> [n \in Nodes |-> {"done", "failed"}],
   readonly |-> FALSE, pool |-> FALSE, harness |-> FALSE,
   shared |-> FALSE]

\* A write, its verification if it succeeded, and a read if it was blocked.
Verified ==
  [Plain EXCEPT !.deps = <<{}, {1}, {2}>>, !.writes = {1, 2}, !.verify = {2},
                !.when[2][1] = "succeeded", !.when[3][2] = "blocked",
                !.outcomes[2] = {"done", "failed", "doneFailing"}]

\* Three writes that compete for the slot.
Writers ==
  [Plain EXCEPT !.writes = {1, 2, 3}, !.verify = {3},
                !.outcomes = [n \in Nodes |-> {"done"}]]

\* Two writes, one verification after both.
Joined ==
  [Plain EXCEPT !.deps = <<{}, {}, {1, 2}>>, !.writes = {1, 2, 3},
                !.verify = {3}, !.when[3][1] = "succeeded"]

\* A review that accepts or rejects, and a node for each.
Reviewed ==
  [Plain EXCEPT !.deps = <<{}, {1}, {1}>>, !.when[2][1] = "accepted",
                !.when[3][1] = "rejected",
                !.outcomes[1] = {"accepted", "rejected", "failed"}]

\* A harness run: a human node after a read, a role node beside.
Approved ==
  [Plain EXCEPT !.deps = <<{}, {1}, {}>>, !.h11 = {2, 3}, !.human = {2},
                !.roles = {3}, !.harness = TRUE, !.outcomes[3] = {"done"}]

\* A write in a readonly workflow.
Readonly ==
  [Plain EXCEPT !.deps = <<{}, {1}, {}>>, !.writes = {1}, !.readonly = TRUE,
                !.when[2][1] = "failed"]

\* A pool: a write, a tool node of the harness and a verification of that one.
Owned ==
  [Plain EXCEPT !.deps = <<{}, {1}, {2}>>, !.writes = {1, 3}, !.verify = {3},
                !.h11 = {2}, !.tools = {2}, !.harness = TRUE, !.pool = TRUE,
                !.when[3][2] = "succeeded",
                !.outcomes = [n \in Nodes |-> {"done"}]]

AllSpecs == {Verified, Writers, Joined, Reviewed, Approved, Readonly, Owned}

\* Two reads with the same handler and input, and a node after the second.
SharedRead ==
  [Plain EXCEPT !.deps = <<{}, {1}, {2}>>, !.key = <<1, 1, 3>>]

SharedReadOnly == {SharedRead}
=============================================================================
