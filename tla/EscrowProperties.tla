-------------------------- MODULE EscrowProperties --------------------------
(***************************************************************************)
(* What the escrow promises backers, agents and the creator.               *)
(***************************************************************************)
EXTENDS Escrow

(* Every variable has its type, and the clocks and counters their ranges.  *)
SubmissionAccounts ==
    [ state : {"Empty", "Pending", "Released", "Rejected"},
      sequence : Nat, submitted_at : Nat ]
IntentAccounts == {"Empty", "Signalled", "Withdrawn"}
TypeOK ==
    /\ now \in Nat \ {0}
    /\ config \in {"Absent", "Open", "Paused"}
    /\ terms \in [ goal : Nat, milestone_bps : Seq(Nat), deadline : Nat,
                   work_window : Nat, review_window : Nat ]
    /\ status \in {"Uncreated", "Funding", "Funded", "Delivered", "Cancelled"}
    /\ work_deadline \in Nat
    /\ milestones_done \subseteq Milestones
    /\ auto_releases \in Nat
    /\ total_pledged \in Nat /\ released \in Nat /\ refunded \in Nat
    /\ pledger_count \in Nat /\ refunded_pledger_count \in Nat
    /\ pledges \in [Backers -> Nat]
    /\ invited_agent \in Agents \union {NoAgent}
    /\ intent \in [Agents -> IntentAccounts]
    /\ intents \in Nat
    /\ milestone_submitted \in [Milestones -> Nat]
    /\ milestone_rejected \in [Milestones -> Nat]
    /\ unresolved_submissions \in Nat
    /\ latest_submitted_at \in Nat
    /\ submissions \in Nat /\ rejections \in Nat
    /\ submission \in [Milestones -> [Agents -> SubmissionAccounts]]
    /\ vault_owned \in BOOLEAN
    /\ vault_lamports \in Nat
    /\ earned \in [Agents -> Nat]
    /\ returned \in [Backers -> Nat]
    /\ fees \in Nat

live_pledges == {b \in Backers : pledges[b] # 0}
pending == {p \in Milestones \X Agents : submission[p[1]][p[2]].state = "Pending"}
matured_claim(i, a) ==
    /\ at_front(i, a)
    /\ ~milestone_released(i)
    /\ review_expired(submission[i][a])

-----------------------------------------------------------------------------
(* Money.                                                                  *)

(* The escrow never owes more than it was pledged, and while the vault is  *)
(* this program's it holds everything owed on top of its rent; once closed *)
(* nothing is owed, and the only records left are of a shipped commission, *)
(* which ClosePledge settles without the vault.                            *)
VaultBacked ==
    /\ escrow_remaining >= 0
    /\ vault_owned => vault_lamports >= VAULT_RENT + escrow_remaining
    /\ ~vault_owned => /\ escrow_remaining = 0
                       /\ live_pledges # {} => status = "Delivered"

(* Every lamport released or refunded reached an agent, a backer or the    *)
(* treasury: splitting off the fee neither makes nor loses one.            *)
Conservation ==
    SumFunction(earned) + SumFunction(returned) + fees = released + refunded

(* The treasury takes at most one per cent of what leaves the escrow, each *)
(* lamport charged once, and nothing from one that saw no delivery.        *)
FeeOncePerLamport ==
    /\ fees * BPS_DENOMINATOR <= FEE_BPS * (released + refunded)
    /\ submissions = 0 => fees = 0

(* When every pledge is settled, or every milestone paid, nothing is left  *)
(* behind: the last refund sweeps what flooring and clamping withheld.     *)
NoStrandedEscrow ==
    /\ refunded_pledger_count + Cardinality(live_pledges) = pledger_count
    /\ live_pledges = {} \/ status = "Delivered" => escrow_remaining = 0

(* A refund returns at most the pledge plus the dust of the other shares,  *)
(* whatever releases came between the refunds before it.                   *)
RefundWithinDust ==
    [][ \A b \in Backers :
          pledges[b] # 0 /\ pledges'[b] = 0 =>
            refunded' - refunded <= pledges[b] + pledger_count - 1 ]_vars

(* Pledge and Refund are never both possible: no money enters a commission *)
(* any pledge of which was settled or any milestone of which was paid.     *)
NoPledgeAfterExit ==
    [][ total_pledged' > total_pledged =>
          refunded_pledger_count = 0 /\ released = 0 ]_vars

(* The longest anybody waits: once all four windows of this commission     *)
(* have run out, each live pledge can be settled at once and each account  *)
(* of an agent closed, and with the last pledge gone the vault can be      *)
(* closed too, after a cancellation that waits for nothing any more.       *)
WorstCaseHold ==
    status # "Uncreated" /\ now >= terms.deadline + terms.work_window
                                   + terms.review_window + CLAIM_GRACE_WINDOW
    => /\ \A b \in live_pledges :
             \/ may_refund(b) /\ vault_lamports >= refund_amount(b)
             \/ may_close_pledge(b)
       /\ \A i \in Milestones, a \in Agents :
             submission[i][a].state # "Empty" => may_close_submission(i, a)
       /\ \A a \in Agents : intent[a] # "Empty" => intent_over(a)
       /\ vault_owned /\ live_pledges = {} => vault_settled \/ may_cancel(FALSE)

-----------------------------------------------------------------------------
(* Judging.                                                                *)

(* The counter that blocks every exit is the number of Submission accounts *)
(* awaiting judgement, and its clock is not older than any of theirs.      *)
UnresolvedExact ==
    /\ unresolved_submissions = Cardinality(pending)
    /\ \A p \in pending :
          submission[p[1]][p[2]].submitted_at <= latest_submitted_at

(* While a milestone can still be judged its pending deliveries hold the   *)
(* places rejected .. submitted - 1, one each: there is always a front.    *)
QueueIntact ==
    \A i \in Milestones :
        LET places == milestone_rejected[i] .. milestone_submitted[i] - 1
            waiting == {a \in Agents : submission[i][a].state = "Pending"}
        IN  status = "Funded" /\ ~milestone_released(i)
                /\ (work_closed => claim_protected)
            => /\ \A a \in waiting : submission[i][a].sequence \in places
               /\ \A k \in places : \E a \in waiting :
                     submission[i][a].sequence = k
               /\ \A a, b \in waiting :
                     submission[i][a].sequence = submission[i][b].sequence
                     => a = b

(* First delivered, first judged: no delivery is paid or rejected while an *)
(* earlier one of its milestone still waits.                               *)
FirstDeliveredFirstJudged ==
    [][ \A i \in Milestones, a, b \in Agents :
          /\ submission[i][a].state = "Pending"
          /\ submission'[i][a].state \in {"Released", "Rejected"}
          /\ submission[i][b].state = "Pending"
          => submission[i][a].submitted_at <= submission[i][b].submitted_at ]_vars

(* Silence pays: a delivery at the front that outlasted its review window  *)
(* can be paid by anyone, as long as no backer has taken a refund.         *)
EarnedClaimPayable ==
    \A i \in Milestones, a \in Agents :
        matured_claim(i, a) /\ refunded = 0
        => may_release(i, a, FALSE) /\ vault_lamports >= gross_of(i)

(* While the claims are protected, nothing but its own payment removes a   *)
(* matured claim: not a rejection, a resubmission, a close or a cancel.    *)
ClaimDurable ==
    [][ \A i \in Milestones, a \in Agents :
          matured_claim(i, a) /\ claim_protected =>
            \/ submission'[i][a].state = "Released"
            \/ /\ submission'[i][a] = submission[i][a]
               /\ milestone_rejected'[i] = milestone_rejected[i]
               /\ i \notin milestones_done' ]_vars

(* No exit opens around a delivery that is still inside its review window  *)
(* and grace period, not even one some other delivery outlived.            *)
ExitsWaitForClaims ==
    [][ (\E p \in pending :
            now < submission[p[1]][p[2]].submitted_at + terms.review_window
                  + CLAIM_GRACE_WINDOW)
        => /\ refunded' = refunded
           /\ status' = "Cancelled" => status = "Cancelled" ]_vars

(* The public record of who said they would work: while work can be done   *)
(* there is one Intent account per wallet ever counted, and none is erased. *)
IntentRecordKept ==
    /\ Cardinality({a \in Agents : intent[a] # "Empty"}) <= intents
    /\ status = "Funded" /\ ~work_closed =>
          Cardinality({a \in Agents : intent[a] # "Empty"}) = intents

-----------------------------------------------------------------------------
(* Liveness, for parties who keep trying: each backer refunds, anyone      *)
(* closes what may be closed and cancels what has expired.                 *)

BackersTry == \A b \in Backers : WF_vars(Refund(b)) /\ WF_vars(ClosePledge(b))
CranksTurn ==
    /\ WF_vars(Cancel(FALSE))
    /\ WF_vars(CloseVault)
    /\ \A a \in Agents :
          /\ WF_vars(CloseIntent(a))
          /\ \A i \in Milestones : WF_vars(CloseSubmission(i, a))
FairSpec == Spec /\ WF_vars(Tick) /\ BackersTry /\ CranksTurn

(* Whatever is pledged leaves the escrow in the end: no silent creator,    *)
(* silent agent or stream of deliveries can hold it for ever.              *)
EscrowDrains == total_pledged > 0 ~> escrow_remaining = 0 /\ live_pledges = {}

(* Every deposit of a commission is reclaimed in the end: vault, pledge,   *)
(* submission and intent accounts are all closed.                          *)
DepositsReclaimed ==
    status # "Uncreated" ~>
        /\ ~vault_owned
        /\ live_pledges = {}
        /\ \A a \in Agents :
              /\ intent[a] = "Empty"
              /\ \A i \in Milestones : submission[i][a].state = "Empty"
=============================================================================
