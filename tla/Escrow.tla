------------------------------ MODULE Escrow ------------------------------
(***************************************************************************)
(* One commission of the on-chain escrow program, program/src/lib.rs.      *)
(*                                                                         *)
(* Backers pledge lamports into a vault until a goal is met.  From then on *)
(* any agent may submit a delivery against a milestone; deliveries queue   *)
(* per milestone and only the front of a queue may be judged.  The creator *)
(* pays or rejects it; once it has waited out the review window anyone may *)
(* pay it.  When a clock runs out, backers take back what is left.         *)
(*                                                                         *)
(* An instruction runs alone, to completion or to no effect, so each is    *)
(* one action; the interleaving is that of the transactions of backers,    *)
(* agents, the creator and passers-by, with the cluster's clock.           *)
(* Milestones are numbered from 1 here and from 0 in the code.             *)
(*                                                                         *)
(* A definition marked SLIP is not part of the specification: it is the    *)
(* form the definition after it would take if the handler lost a guard, a  *)
(* clamp or an update, kept to show that a property fails then.            *)
(***************************************************************************)
EXTENDS EscrowState

-----------------------------------------------------------------------------
Init ==
    /\ now = 1
    /\ config = "Absent"
    /\ terms = NoTerms
    /\ status = "Uncreated"
    /\ work_deadline = 0
    /\ milestones_done = {}
    /\ auto_releases = 0
    /\ total_pledged = 0 /\ released = 0 /\ refunded = 0
    /\ pledger_count = 0 /\ refunded_pledger_count = 0
    /\ pledges = [b \in Backers |-> 0]
    /\ invited_agent = NoAgent
    /\ intent = [a \in Agents |-> "Empty"]
    /\ intents = 0
    /\ milestone_submitted = [i \in Milestones |-> 0]
    /\ milestone_rejected = [i \in Milestones |-> 0]
    /\ unresolved_submissions = 0
    /\ latest_submitted_at = 0
    /\ submissions = 0 /\ rejections = 0
    /\ submission = [i \in Milestones |-> [a \in Agents |-> NoSubmission]]
    /\ vault_owned = FALSE
    /\ vault_lamports = 0
    /\ earned = [a \in Agents |-> 0]
    /\ returned = [b \in Backers |-> 0]
    /\ fees = 0

\* The cluster's clock, up to the bound MaxTime.
Tick ==
    /\ now < MaxTime
    /\ now' = now + 1
    /\ UNCHANGED <<config, terms, life, money, board, queue, vault, paid>>

InitConfig ==
    /\ config = "Absent"
    /\ config' = "Open"
    /\ UNCHANGED <<now, terms, life, money, board, queue, vault, paid>>

SetPaused(p) ==
    /\ config # "Absent"
    /\ config' = IF p THEN "Paused" ELSE "Open"
    /\ UNCHANGED <<now, terms, life, money, board, queue, vault, paid>>

\* A zero window asks for the default.
or_default(window, default) == IF window = 0 THEN default ELSE window

offer_accepted(o) ==
    /\ o.goal >= BPS_DENOMINATOR
    /\ o.goal <= MAX_COMMISSION_LAMPORTS
    /\ o.deadline > now
    /\ o.deadline <= now + MAX_FUNDING_DURATION
    /\ or_default(o.work_window, DEFAULT_WORK_WINDOW)
           \in MIN_WORK_WINDOW .. MAX_WORK_WINDOW
    /\ or_default(o.review_window, DEFAULT_REVIEW_WINDOW)
           \in MIN_REVIEW_WINDOW .. MAX_REVIEW_WINDOW
    /\ Len(o.milestone_bps) \in Milestones
    /\ \A i \in DOMAIN o.milestone_bps : o.milestone_bps[i] # 0
    /\ SumFunction(o.milestone_bps) = BPS_DENOMINATOR

may_create(o) ==
    /\ config = "Open"
    /\ status = "Uncreated"
    /\ ~vault_owned
    /\ offer_accepted(o)

CreateCommission(o) ==
    /\ may_create(o)
    /\ terms' = [o EXCEPT
           !.work_window = or_default(@, DEFAULT_WORK_WINDOW),
           !.review_window = or_default(@, DEFAULT_REVIEW_WINDOW)]
    /\ status' = "Funding"
    /\ vault_owned' = TRUE
    /\ vault_lamports' = VAULT_RENT
    /\ UNCHANGED <<now, config, work_deadline, milestones_done, auto_releases,
                   money, board, queue, paid>>

-----------------------------------------------------------------------------
(* Money in.                                                               *)

\* SLIP: pledges still taken after the funding deadline.
may_pledge_late(amount) ==
    /\ amount # 0
    /\ config = "Open"
    /\ status = "Funding"
    /\ vault_owned
    /\ total_pledged + amount <= MAX_COMMISSION_LAMPORTS

may_pledge(amount) ==
    /\ amount # 0
    /\ config = "Open"
    /\ status = "Funding"
    /\ now < terms.deadline
    /\ vault_owned
    /\ total_pledged + amount <= MAX_COMMISSION_LAMPORTS

Pledge(b, amount) ==
    /\ may_pledge(amount)
    /\ pledges' = [pledges EXCEPT ![b] = @ + amount]
    /\ total_pledged' = total_pledged + amount
    /\ pledger_count' = pledger_count + (IF pledges[b] = 0 THEN 1 ELSE 0)
    /\ vault_lamports' = vault_lamports + amount
    /\ IF total_pledged' >= terms.goal
       THEN /\ status' = "Funded"
            /\ work_deadline' = now + terms.work_window
       ELSE UNCHANGED <<status, work_deadline>>
    /\ UNCHANGED <<now, config, terms, milestones_done, auto_releases, released,
                   refunded, refunded_pledger_count, board, queue, vault_owned,
                   paid>>

\* Anyone may send lamports to the vault's address without this program.
Donate ==
    /\ vault_owned
    /\ vault_lamports < VAULT_RENT + escrow_remaining + MaxDonation
    /\ vault_lamports' = vault_lamports + 1
    /\ UNCHANGED <<now, config, terms, life, money, board, queue, vault_owned,
                   paid>>

-----------------------------------------------------------------------------
(* The board: who may work, who says they will, and what they deliver.     *)

\* SLIP: the creator can be invited to its own commission.
invitation_of_anyone(k) == k

\* The creator naming itself reopens the board.
invitation(k) == IF k = Creator THEN NoAgent ELSE k

InviteAgent(k) ==
    /\ status \in {"Funding", "Funded"}
    /\ invited_agent' = invitation(k)
    /\ UNCHANGED <<now, config, terms, life, money, intent, intents, queue,
                   vault, paid>>

SignalIntent(a) ==
    /\ workable(a)
    /\ intents' = intents + (IF intent[a] = "Empty" THEN 1 ELSE 0)
    /\ intent' = [intent EXCEPT ![a] = "Signalled"]
    /\ UNCHANGED <<now, config, terms, life, money, invited_agent, queue, vault,
                   paid>>

WithdrawIntent(a) ==
    /\ intent[a] # "Empty"
    /\ intent' = [intent EXCEPT ![a] = "Withdrawn"]
    /\ UNCHANGED <<now, config, terms, life, money, invited_agent, intents,
                   queue, vault, paid>>

\* An agent whose last attempt was rejected may replace it; a pending one may not.
may_submit(i, a) ==
    /\ workable(a)
    /\ i <= milestone_count
    /\ ~milestone_released(i)
    /\ milestone_submitted[i] < MAX_SUBMISSIONS_PER_MILESTONE
    /\ submission[i][a].state \in {"Empty", "Rejected"}

SubmitDelivery(i, a) ==
    /\ may_submit(i, a)
    /\ submission' = [submission EXCEPT ![i][a] =
           [ state |-> "Pending", sequence |-> milestone_submitted[i],
             submitted_at |-> now ]]
    /\ milestone_submitted' = [milestone_submitted EXCEPT ![i] = @ + 1]
    /\ submissions' = submissions + 1
    /\ unresolved_submissions' = unresolved_submissions + 1
    /\ latest_submitted_at' = now
    /\ UNCHANGED <<now, config, terms, life, money, board, milestone_rejected,
                   rejections, vault, paid>>

-----------------------------------------------------------------------------
(* Judging.                                                                *)

\* SLIP: any pending delivery can be judged, in any order.
pending_anywhere(i, a) == submission[i][a].state = "Pending"

at_front(i, a) ==
    /\ submission[i][a].state = "Pending"
    /\ submission[i][a].sequence = milestone_rejected[i]

\* SLIP: a matured delivery can still be rejected.
may_reject_matured(i, a) ==
    /\ submission[i][a].state = "Pending"
    /\ submission[i][a].sequence = milestone_rejected[i]

may_reject(i, a) == at_front(i, a) /\ ~review_expired(submission[i][a])

RejectDelivery(i, a) ==
    /\ may_reject(i, a)
    /\ submission' = [submission EXCEPT ![i][a].state = "Rejected"]
    /\ milestone_rejected' = [milestone_rejected EXCEPT ![i] = @ + 1]
    /\ rejections' = rejections + 1
    /\ unresolved_submissions' = less_one(unresolved_submissions)
    /\ UNCHANGED <<now, config, terms, life, money, board, milestone_submitted,
                   latest_submitted_at, submissions, vault, paid>>

completes_schedule(i) == milestones_done \union {i} = 1 .. milestone_count

\* SLIP: slices rounded up, and no sweep by the last milestone.
gross_rounded_up(i) ==
    mul_div(total_pledged, terms.milestone_bps[i], BPS_DENOMINATOR) + 1

\* The last milestone takes whatever is left, so no dust stays behind.
gross_of(i) ==
    IF completes_schedule(i)
    THEN escrow_remaining
    ELSE mul_div(total_pledged, terms.milestone_bps[i], BPS_DENOMINATOR)

may_release(i, a, byCreator) ==
    /\ at_front(i, a)
    /\ byCreator \/ review_expired(submission[i][a])
    /\ work_closed => review_expired(submission[i][a])
    /\ ~milestone_released(i)
    /\ vault_owned
    /\ gross_of(i) # 0
    /\ gross_of(i) <= escrow_remaining

ReleaseMilestone(i, a, byCreator) ==
    LET gross == gross_of(i) IN
    /\ may_release(i, a, byCreator)
    /\ vault_lamports >= gross
    /\ submission' = [submission EXCEPT ![i][a].state = "Released"]
    /\ milestones_done' = milestones_done \union {i}
    /\ released' = released + gross
    /\ unresolved_submissions' = less_one(unresolved_submissions)
    /\ auto_releases' = auto_releases + (IF byCreator THEN 0 ELSE 1)
    /\ status' = IF completes_schedule(i) THEN "Delivered" ELSE status
    /\ vault_lamports' = vault_lamports - gross
    /\ earned' = [earned EXCEPT ![a] = @ + split_fee(gross).net]
    /\ fees' = fees + split_fee(gross).fee
    /\ UNCHANGED <<now, config, terms, work_deadline, total_pledged, refunded,
                   pledger_count, refunded_pledger_count, pledges, board,
                   milestone_submitted, milestone_rejected, latest_submitted_at,
                   submissions, rejections, vault_owned, returned>>

-----------------------------------------------------------------------------
(* Money out, and the ways a commission ends.                              *)

refundable ==
    \/ status = "Cancelled"
    \/ status \in {"Funding", "Funded"} /\ now >= terms.deadline
    \/ work_closed

may_refund(b) ==
    /\ refundable
    /\ ~claim_protected
    /\ vault_owned
    /\ pledges[b] # 0

\* The share of a pool that releases shrink but refunds do not.
entitled(b) == mul_div(total_pledged - released, pledges[b], total_pledged)
clamped(b) == IF entitled(b) <= escrow_remaining THEN entitled(b) ELSE escrow_remaining

\* SLIP: the last refund does not sweep the dust.
refund_amount_unswept(b) == clamped(b)

\* SLIP: the sweep comes one refund early.
refund_amount_early_sweep(b) ==
    IF refunded_pledger_count + 2 >= pledger_count
    THEN escrow_remaining
    ELSE clamped(b)

\* SLIP: a share larger than what is left is refused instead of clamped.
refund_amount_unclamped(b) ==
    IF refunded_pledger_count + 1 = pledger_count
    THEN escrow_remaining
    ELSE entitled(b)

refund_amount(b) ==
    IF refunded_pledger_count + 1 = pledger_count
    THEN escrow_remaining
    ELSE clamped(b)

\* SLIP: the connection fee is charged although nobody delivered.
refund_split_always(amount) == split_fee(amount)

\* One per cent is kept only where something was delivered.
refund_split(amount) ==
    IF submissions > 0 THEN split_fee(amount) ELSE [fee |-> 0, net |-> amount]

Refund(b) ==
    LET amount == refund_amount(b) IN
    /\ may_refund(b)
    /\ vault_lamports >= amount
    /\ pledges' = [pledges EXCEPT ![b] = 0]
    /\ refunded' = refunded + amount
    /\ refunded_pledger_count' = refunded_pledger_count + 1
    /\ vault_lamports' = vault_lamports - amount
    /\ returned' = [returned EXCEPT ![b] = @ + refund_split(amount).net]
    /\ fees' = fees + refund_split(amount).fee
    /\ UNCHANGED <<now, config, terms, life, total_pledged, released,
                   pledger_count, board, queue, vault_owned, earned>>

cancel_expiry ==
    IF work_deadline > 0 /\ work_deadline < terms.deadline
    THEN work_deadline
    ELSE terms.deadline

\* SLIP: a cancellation does not wait for deliveries.
may_cancel_around_claims(byCreator) ==
    /\ status \in {"Funding", "Funded"}
    /\ (byCreator /\ status = "Funding") \/ now >= cancel_expiry

may_cancel(byCreator) ==
    /\ status \in {"Funding", "Funded"}
    /\ (byCreator /\ status = "Funding") \/ now >= cancel_expiry
    /\ ~claim_protected

Cancel(byCreator) ==
    /\ may_cancel(byCreator)
    /\ status' = "Cancelled"
    /\ UNCHANGED <<now, config, terms, work_deadline, milestones_done,
                   auto_releases, money, board, queue, vault, paid>>

\* Refund closes its own pledge account, so a live one is never fully refunded.
may_close_pledge(b) == pledges[b] # 0 /\ status = "Delivered" /\ escrow_remaining = 0

ClosePledge(b) ==
    /\ may_close_pledge(b)
    /\ refunded_pledger_count' = refunded_pledger_count + 1
    /\ pledges' = [pledges EXCEPT ![b] = 0]
    /\ UNCHANGED <<now, config, terms, life, total_pledged, released, refunded,
                   pledger_count, board, queue, vault, paid>>

\* SLIP: the vault of a cancelled commission closes on backers who have not settled.
vault_settled_early ==
    escrow_remaining = 0 /\ status \in {"Delivered", "Cancelled"}

vault_settled ==
    /\ escrow_remaining = 0
    /\ status \in {"Delivered", "Cancelled"}
    /\ status = "Cancelled" => refunded_pledger_count = pledger_count

\* Every lamport in the vault goes to the creator, donations included.
CloseVault ==
    /\ vault_owned
    /\ vault_settled
    /\ vault_owned' = FALSE
    /\ vault_lamports' = 0
    /\ UNCHANGED <<now, config, terms, life, money, board, queue, paid>>

\* SLIP: a pending delivery can be closed as soon as the work window is over.
submission_settled_unprotected(i, a) ==
    \/ submission[i][a].state # "Pending"
    \/ milestone_released(i)
    \/ status = "Cancelled"
    \/ work_closed

\* SLIP: only a judged or beaten delivery can be closed.
submission_settled_if_judged(i, a) ==
    submission[i][a].state # "Pending" \/ milestone_released(i)

submission_settled(i, a) ==
    \/ submission[i][a].state # "Pending"
    \/ milestone_released(i)
    \/ status = "Cancelled"
    \/ work_closed /\ ~claim_protected

\* SLIP: closing a pending delivery forgets the counter.
unresolved_uncounted(i, a) == unresolved_submissions

\* A pending delivery nobody will judge must stop counting against the exits.
unresolved_without(i, a) ==
    IF submission[i][a].state = "Pending"
    THEN less_one(unresolved_submissions)
    ELSE unresolved_submissions

may_close_submission(i, a) == submission[i][a].state # "Empty" /\ submission_settled(i, a)

CloseSubmission(i, a) ==
    /\ may_close_submission(i, a)
    /\ unresolved_submissions' = unresolved_without(i, a)
    /\ submission' = [submission EXCEPT ![i][a] = NoSubmission]
    /\ UNCHANGED <<now, config, terms, life, money, board, milestone_submitted,
                   milestone_rejected, latest_submitted_at, submissions,
                   rejections, vault, paid>>

\* SLIP: a withdrawn intent can be erased while work goes on.
intent_over_if_withdrawn(a) ==
    \/ intent[a] = "Withdrawn"
    \/ status \in {"Delivered", "Cancelled"}
    \/ work_closed

intent_over(a) == status \in {"Delivered", "Cancelled"} \/ work_closed

CloseIntent(a) ==
    /\ intent[a] # "Empty"
    /\ intent_over(a)
    /\ intent' = [intent EXCEPT ![a] = "Empty"]
    /\ UNCHANGED <<now, config, terms, life, money, invited_agent, intents,
                   queue, vault, paid>>

-----------------------------------------------------------------------------
AgentStep(a) ==
    \/ SignalIntent(a) \/ WithdrawIntent(a) \/ CloseIntent(a)
    \/ \E i \in Milestones :
          \/ SubmitDelivery(i, a) \/ RejectDelivery(i, a) \/ CloseSubmission(i, a)
          \/ \E byCreator \in BOOLEAN : ReleaseMilestone(i, a, byCreator)

BackerStep(b) ==
    \/ \E amount \in PledgeAmounts : Pledge(b, amount)
    \/ Refund(b)
    \/ ClosePledge(b)

Next ==
    \/ Tick
    \/ InitConfig
    \/ \E p \in BOOLEAN : SetPaused(p)
    \/ \E o \in Offers : CreateCommission(o)
    \/ \E b \in Backers : BackerStep(b)
    \/ \E a \in Agents : AgentStep(a)
    \/ \E k \in Agents \union {Creator} : InviteAgent(k)
    \/ \E byCreator \in BOOLEAN : Cancel(byCreator)
    \/ CloseVault
    \/ Donate

Spec == Init /\ [][Next]_vars
=============================================================================
