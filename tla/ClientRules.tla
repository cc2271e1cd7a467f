---------------------------- MODULE ClientRules ----------------------------
(***************************************************************************)
(* The rules server, browser and agents share, shared/escrow.js: what a    *)
(* wallet may do next, what a commission waits for, and which deposits can *)
(* come home, worked out from decoded accounts and a clock of their own.   *)
(*                                                                         *)
(* c is a decoded Commission, subs the decoded Submission accounts, t the  *)
(* reader's clock.  A front is a set: empty, or the one delivery found.    *)
(***************************************************************************)
EXTENDS Escrow, FiniteSetsExt

STATUS == [ Funding |-> "funding", Funded |-> "funded",
            Delivered |-> "shipped", Cancelled |-> "refunded" ]

decodeCommission ==
    [ status |-> STATUS[status],
      pledged |-> total_pledged, released |-> released, refunded |-> refunded,
      pledgerCount |-> pledger_count, refundedPledgerCount |-> refunded_pledger_count,
      invitedAgent |-> invited_agent,
      milestoneBps |-> terms.milestone_bps, milestonesDone |-> milestones_done,
      deadline |-> terms.deadline, workDeadline |-> work_deadline,
      reviewWindow |-> terms.review_window,
      milestoneRejected |-> milestone_rejected,
      unresolvedSubmissions |-> unresolved_submissions,
      latestSubmittedAt |-> latest_submitted_at, submissions |-> submissions ]

decodeSubmission(i, a) ==
    [ milestoneIndex |-> i, agent |-> a, state |-> submission[i][a].state,
      sequence |-> submission[i][a].sequence,
      submittedAt |-> submission[i][a].submitted_at ]

submissionsFor ==
    { decodeSubmission(p[1], p[2]) :
      p \in { q \in Milestones \X Agents : submission[q[1]][q[2]].state # "Empty" } }

reviewEndsAt(s, window) == s.submittedAt + window
reviewExpired(s, window, t) == s.state = "Pending" /\ t >= reviewEndsAt(s, window)

frontOfQueue(c, subs, i) ==
    { s \in subs : /\ s.milestoneIndex = i /\ s.state = "Pending"
                   /\ s.sequence = c.milestoneRejected[i] }

\* SLIP: the grace period is left out.
claimProtected_no_grace(c, t) ==
    c.unresolvedSubmissions > 0 /\ t < c.latestSubmittedAt + c.reviewWindow

claimProtected(c, t) ==
    /\ c.unresolvedSubmissions > 0
    /\ t < c.latestSubmittedAt + c.reviewWindow + CLAIM_GRACE_WINDOW

workClosed(c, t) == c.workDeadline > 0 /\ t >= c.workDeadline

canWork(c, w, t) ==
    /\ c.status = "funded"
    /\ ~workClosed(c, t)
    /\ w # Creator
    /\ c.invitedAgent \in {NoAgent, w}

\* The accounts whose deposit could go home; a pledge is offered to any wallet.
reclaimableRent(c) ==
    LET settled == c.released + c.refunded >= c.pledged
        everyBackerSettled == c.refundedPledgerCount >= c.pledgerCount
    IN  (IF c.status = "shipped" /\ settled /\ c.pledgerCount > 0 THEN {"pledge"} ELSE {})
        \union
        (IF /\ settled
            /\ c.status = "shipped" \/ (c.status = "refunded" /\ everyBackerSettled)
         THEN {"vault"} ELSE {})

escrowRemaining(c) == c.pledged - c.released - c.refunded
refundCarriesFee(c) == c.submissions > 0

-----------------------------------------------------------------------------
(* What a wallet may do now.                                               *)

unreleased(c) == DOMAIN c.milestoneBps \ c.milestonesDone

\* SLIP: milestones are looked at in order, up to the first not released.
fronts_in_turn(c, subs) ==
    UNION { frontOfQueue(c, subs, i) :
            i \in { j \in unreleased(c) : \A k \in unreleased(c) : j <= k } }

fronts(c, subs) == UNION { frontOfQueue(c, subs, i) : i \in unreleased(c) }

actions_for_work(c, w, t) ==
    IF canWork(c, w, t) /\ unreleased(c) # {}
    THEN {"submitDelivery", "signalIntent"} ELSE {}

actions_for_judging(c, w, subs, t) ==
    UNION { LET matured == reviewExpired(s, c.reviewWindow, t) IN
            (IF w = Creator \/ matured THEN {"releaseMilestone"} ELSE {})
            \union (IF w = Creator /\ ~matured THEN {"rejectDelivery"} ELSE {}) :
            s \in fronts(c, subs) }

actions_for_leaving(c, w, t) ==
    IF claimProtected(c, t) THEN {}
    ELSE LET over == t >= c.deadline \/ workClosed(c, t) IN
         (IF \/ w = Creator /\ c.status = "funding"
             \/ c.status \in {"funding", "funded"} /\ over
          THEN {"cancel"} ELSE {})
         \union (IF \/ c.status = "refunded"
                    \/ t >= c.deadline /\ c.status \in {"funding", "funded"}
                    \/ workClosed(c, t)
                 THEN {"refund"} ELSE {})

\* SLIP: only a delivery that was judged is done with.
settledForMe_judged(c, w, subs, t) == { s \in subs : s.agent = w /\ s.state # "Pending" }

settledForMe(c, w, subs, t) ==
    { s \in subs : /\ s.agent = w
                   /\ \/ s.state # "Pending"
                      \/ s.milestoneIndex \in c.milestonesDone
                      \/ c.status = "refunded"
                      \/ workClosed(c, t) /\ ~claimProtected(c, t) }

actions_for_deposits(c, w, subs, t) ==
    (IF settledForMe(c, w, subs, t) # {} THEN {"closeSubmission"} ELSE {})
    \union (IF "pledge" \in reclaimableRent(c) THEN {"closePledge"} ELSE {})
    \union (IF "vault" \in reclaimableRent(c) THEN {"closeVault"} ELSE {})

availableActions(c, w, subs, t) ==
    UNION { IF c.status = "funding" /\ t < c.deadline THEN {"pledge"} ELSE {},
            actions_for_work(c, w, t),
            IF w = Creator /\ c.status \in {"funding", "funded"} THEN {"inviteAgent"} ELSE {},
            actions_for_judging(c, w, subs, t),
            actions_for_leaving(c, w, t),
            actions_for_deposits(c, w, subs, t) }

-----------------------------------------------------------------------------
(* What a commission waits on a wallet for: the first that applies.        *)

places_ahead(c, w, subs) ==
    MapThenSumSet(LAMBDA s : s.sequence - c.milestoneRejected[s.milestoneIndex],
                  { s \in subs : s.agent = w /\ s.state = "Pending" })

pendingAttention(c, w, subs, t) ==
    LET waiting == { s \in fronts(c, subs) : ~reviewExpired(s, c.reviewWindow, t) }
        matured == fronts(c, subs) \ waiting
        untouched == c.status = "funded" /\ ~workClosed(c, t) /\ c.submissions = 0
    IN  IF w = Creator /\ waiting # {} THEN "review"
        ELSE IF \E s \in matured : w \in {s.agent, Creator} THEN "claimable"
        ELSE IF places_ahead(c, w, subs) > 0 THEN "queued"
        ELSE IF untouched /\ w = Creator THEN "awaiting-work"
        ELSE IF untouched /\ canWork(c, w, t) THEN "open"
        ELSE "none"
=============================================================================
