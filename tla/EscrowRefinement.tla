--------------------------- MODULE EscrowRefinement ---------------------------
(***************************************************************************)
(* The escrow implements a pot of money, and the queues of the agents who  *)
(* compete for its milestones.                                             *)
(***************************************************************************)
EXTENDS Escrow

Pot == INSTANCE CommissionPot WITH
           put_in <- total_pledged, taken_out <- released + refunded

(* Pledge puts in; ReleaseMilestone and Refund take out, and never more    *)
(* than is left however their roundings fall.                              *)
ImplementsPot == Pot!Spec

-----------------------------------------------------------------------------
\* The agents whose delivery waits, in the order of their sequence numbers.
line_of(i) ==
    LET waiting == {a \in Agents : submission[i][a].state = "Pending"}
        ahead(a) == {b \in waiting :
                        submission[i][b].sequence < submission[i][a].sequence}
    IN  [k \in 1 .. Cardinality(waiting) |->
            CHOOSE a \in waiting : Cardinality(ahead(a)) = k - 1]

\* Ended, or too late for work and past the protection of the last delivery.
contest_over ==
    \/ status \in {"Cancelled", "Delivered"}
    \/ work_closed /\ now >= latest_submitted_at + terms.review_window
                                + CLAIM_GRACE_WINDOW

Queues == INSTANCE JudgingQueues WITH
              lines <- [i \in Milestones |-> line_of(i)],
              won <- milestones_done, paid <- earned, over <- contest_over

(* SubmitDelivery joins, RejectDelivery and ReleaseMilestone judge the     *)
(* head, CloseSubmission lets a delivery go: the two counters per          *)
(* milestone keep the order of arrival without a list.                     *)
ImplementsQueues == Queues!Spec
=============================================================================
