---------------------------- MODULE EscrowProofs ----------------------------
(***************************************************************************)
(* The escrow keeps its types, and its money is always there, is never     *)
(* stranded and moves one way: for every number of backers and milestones, *)
(* every amount and every window.  The first part holds the facts about    *)
(* its arithmetic that the other proofs share.                             *)
(***************************************************************************)
EXTENDS EscrowProperties, EscrowRefinement, TLAPS, FiniteSetTheorems

(* The quotient of an integer division, and what it leaves.                *)
LEMMA DivBounds ==
    ASSUME NEW x \in Nat, NEW d \in Nat \ {0}
    PROVE  /\ x \div d \in Nat
           /\ d * (x \div d) <= x
           /\ x < d * (x \div d) + d
  OBVIOUS

(* mul_div never scales an amount up when the fraction is at most one.     *)
LEMMA ScaledDown ==
    ASSUME NEW x \in Nat, NEW n \in Nat, NEW d \in Nat \ {0}, n <= d
    PROVE  /\ mul_div(x, n, d) \in Nat
           /\ mul_div(x, n, d) <= x
<1>1. x * n \in Nat /\ x * n <= x * d
  OBVIOUS
<1>2. PICK q \in Nat : q = (x * n) \div d /\ d * q <= x * n
  BY <1>1, DivBounds
<1>3. d * q <= d * x
  BY <1>1, <1>2
<1>4. q <= x
  BY <1>3
<1> QED
  BY <1>2, <1>4 DEF mul_div

(* split_fee parts an amount without making or losing a lamport.           *)
LEMMA SplitFee ==
    ASSUME NEW gross \in Nat
    PROVE  /\ split_fee(gross).fee \in Nat
           /\ split_fee(gross).net \in Nat
           /\ split_fee(gross).fee + split_fee(gross).net = gross
<1>1. /\ mul_div(gross, FEE_BPS, BPS_DENOMINATOR) \in Nat
      /\ mul_div(gross, FEE_BPS, BPS_DENOMINATOR) <= gross
  BY ScaledDown, FeeAssumption
<1> QED
  BY <1>1 DEF split_fee

-----------------------------------------------------------------------------
(* What keeps the subtractions of lib.rs from going below zero: payouts    *)
(* stay within the pledges, a share within the whole, and only a funded    *)
(* commission ever has work against it.                                    *)
Bookkeeping ==
    /\ released + refunded <= total_pledged
    /\ \A b \in Backers : pledges[b] <= total_pledged
    /\ status \in {"Uncreated", "Funding"} => work_deadline = 0
    /\ \A i \in Milestones, a \in Agents :
          submission[i][a].state = "Pending" =>
            /\ i <= milestone_count
            /\ status \notin {"Uncreated", "Funding"}

TypeInv == TypeOK /\ Bookkeeping

(* No account exists yet, so everything is zero or empty.                  *)
LEMMA InitTypeInv == Init => TypeInv
<1> SUFFICES ASSUME Init PROVE TypeInv
  OBVIOUS
<1>1. TypeOK
  <2>1. terms \in [ goal : Nat, milestone_bps : Seq(Nat), deadline : Nat,
                   work_window : Nat, review_window : Nat ]
    BY DEF Init, NoTerms
  <2>2. submission \in [Milestones -> [Agents -> SubmissionAccounts]]
    BY DEF Init, NoSubmission, SubmissionAccounts
  <2>3. intent \in [Agents -> IntentAccounts]
    BY DEF Init, IntentAccounts
  <2>4. /\ pledges \in [Backers -> Nat]
        /\ milestone_submitted \in [Milestones -> Nat]
        /\ milestone_rejected \in [Milestones -> Nat]
        /\ earned \in [Agents -> Nat]
        /\ returned \in [Backers -> Nat]
    BY DEF Init
  <2>5. vault_owned \in BOOLEAN
    BY Zenon DEF Init
  <2> QED
    BY <2>1, <2>2, <2>3, <2>4, <2>5 DEF Init, TypeOK
<1>2. Bookkeeping
  BY DEF Init, Bookkeeping, NoSubmission
<1> QED
  BY <1>1, <1>2 DEF TypeInv

(* What release_milestone pays is a natural number of lamports.            *)
LEMMA GrossType ==
    ASSUME TypeInv, NEW i \in Milestones, NEW a \in Agents, at_front(i, a)
    PROVE  gross_of(i) \in Nat
<1> USE DEF TypeInv, TypeOK, Bookkeeping, at_front
<1>1. i \in DOMAIN terms.milestone_bps /\ terms.milestone_bps[i] \in Nat
  BY DEF milestone_count, Milestones
<1>2. total_pledged * terms.milestone_bps[i] \in Nat
  BY <1>1
<1>3. mul_div(total_pledged, terms.milestone_bps[i], BPS_DENOMINATOR) \in Nat
  BY <1>2, DivBounds, FeeAssumption DEF mul_div
<1>4. escrow_remaining \in Nat
  BY DEF escrow_remaining
<1> QED
  BY <1>3, <1>4 DEF gross_of

(* A refund never exceeds what is left in escrow: the clamp of refund.     *)
LEMMA RefundType ==
    ASSUME TypeInv, NEW b \in Backers, pledges[b] # 0
    PROVE  refund_amount(b) \in Nat /\ refund_amount(b) <= escrow_remaining
<1> USE DEF TypeInv, TypeOK, Bookkeeping
<1>1. total_pledged - released \in Nat /\ total_pledged \in Nat \ {0}
      /\ pledges[b] \in Nat /\ pledges[b] <= total_pledged
  OBVIOUS
<1>2. entitled(b) \in Nat
  BY <1>1, ScaledDown DEF entitled
<1>3. escrow_remaining \in Nat
  BY DEF escrow_remaining
<1> QED
  BY <1>2, <1>3 DEF refund_amount, clamped

(* A refund reaches the backer and the treasury whole.                     *)
LEMMA RefundSplit ==
    ASSUME NEW amount \in Nat
    PROVE  /\ refund_split(amount).fee \in Nat
           /\ refund_split(amount).net \in Nat
           /\ refund_split(amount).fee + refund_split(amount).net = amount
  BY SplitFee DEF refund_split

\* What the EXCEPT of RejectDelivery and ReleaseMilestone does to the accounts.
Judged(i, a, st) == submission' = [submission EXCEPT ![i][a].state = st]

(* Judging a delivery changes the state of that one account, nothing else. *)
LEMMA JudgedAccount ==
    ASSUME TypeOK,
           NEW i \in Milestones, NEW a \in Agents, NEW st \in {"Released", "Rejected"},
           Judged(i, a, st)
    PROVE  /\ submission' \in [Milestones -> [Agents -> SubmissionAccounts]]
           /\ \A j \in Milestones, b \in Agents :
                 /\ submission'[j][b].state =
                       IF j = i /\ b = a THEN st ELSE submission[j][b].state
                 /\ submission'[j][b].sequence = submission[j][b].sequence
                 /\ submission'[j][b].submitted_at = submission[j][b].submitted_at
                 /\ (j # i \/ b # a) => submission'[j][b] = submission[j][b]
<1> DEFINE s == [submission[i][a] EXCEPT !.state = st]
<1>0. submission \in [Milestones -> [Agents -> SubmissionAccounts]]
  BY DEF TypeOK
<1>1. submission[i][a] \in SubmissionAccounts
  BY <1>0
<1>2. /\ s \in SubmissionAccounts
      /\ s.state = st
      /\ s.sequence = submission[i][a].sequence
      /\ s.submitted_at = submission[i][a].submitted_at
  BY <1>1 DEF SubmissionAccounts
<1>3. submission' = [submission EXCEPT ![i] = [@ EXCEPT ![a] = s]]
  BY DEF Judged
<1> HIDE DEF s
<1>4. submission' \in [Milestones -> [Agents -> SubmissionAccounts]]
  BY <1>0, <1>2, <1>3
<1>5. \A j \in Milestones, b \in Agents :
          submission'[j][b] = IF j = i /\ b = a THEN s ELSE submission[j][b]
  BY <1>0, <1>3
<1> QED
  BY <1>2, <1>4, <1>5

(* One step per instruction of process_instruction, plus the clock and     *)
(* the stranger who sends lamports to the vault.                           *)
LEMMA StepTypeInv == TypeInv /\ [Next]_vars => TypeInv'
<1> SUFFICES ASSUME TypeInv, [Next]_vars PROVE TypeInv'
  OBVIOUS
<1> USE DEF TypeInv, life, money, board, queue, vault, paid
<1>1. CASE Tick
  BY <1>1 DEF TypeOK, Bookkeeping, Tick, milestone_count
<1>2. CASE InitConfig
  BY <1>2 DEF TypeOK, Bookkeeping, InitConfig, milestone_count
<1>3. ASSUME NEW p \in BOOLEAN, SetPaused(p) PROVE TypeInv'
  BY <1>3 DEF TypeOK, Bookkeeping, SetPaused, milestone_count
<1>4. ASSUME NEW o \in Offers, CreateCommission(o) PROVE TypeInv'
  <2>1. o \in [ goal : Nat, milestone_bps : Seq(Nat), deadline : Int,
                work_window : Int, review_window : Int ]
    BY PartyAssumption
  <2>2. terms' \in [ goal : Nat, milestone_bps : Seq(Nat), deadline : Nat,
                     work_window : Nat, review_window : Nat ]
    <3> DEFINE work == or_default(o.work_window, DEFAULT_WORK_WINDOW)
               review == or_default(o.review_window, DEFAULT_REVIEW_WINDOW)
    <3>1. terms' = [ goal |-> o.goal, milestone_bps |-> o.milestone_bps,
                     deadline |-> o.deadline, work_window |-> work,
                     review_window |-> review ]
      BY <1>4, <2>1 DEF CreateCommission, may_create
    <3>2. work \in Nat /\ review \in Nat
      BY <1>4, WindowAssumption DEF CreateCommission, may_create, offer_accepted
    <3>3. o.deadline > now /\ now \in Nat /\ o.deadline \in Int
      BY <1>4, <2>1 DEF CreateCommission, may_create, offer_accepted, TypeOK
    <3> HIDE DEF work, review
    <3> QED
      BY <2>1, <3>1, <3>2, <3>3
  <2>3. vault_owned' \in BOOLEAN
    BY <1>4, Zenon DEF CreateCommission, may_create
  <2>4. vault_lamports' \in Nat
    BY <1>4, LimitAssumption DEF CreateCommission, may_create
  <2>5. TypeOK'
    BY <1>4, <2>2, <2>3, <2>4 DEF CreateCommission, may_create, TypeOK
  <2>6. Bookkeeping'
    BY <1>4 DEF CreateCommission, may_create, TypeOK, Bookkeeping
  <2> QED
    BY <2>5, <2>6
<1>5. ASSUME NEW b \in Backers, NEW amount \in PledgeAmounts, Pledge(b, amount)
      PROVE  TypeInv'
  <2>1. amount \in Nat
    BY PartyAssumption
  <2>2. /\ pledges' = [pledges EXCEPT ![b] = @ + amount]
        /\ total_pledged' = total_pledged + amount
        /\ pledger_count' = pledger_count + (IF pledges[b] = 0 THEN 1 ELSE 0)
        /\ vault_lamports' = vault_lamports + amount
        /\ status = "Funding"
        /\ \/ status' = "Funded" /\ work_deadline' = now + terms.work_window
           \/ UNCHANGED <<status, work_deadline>>
        /\ UNCHANGED <<now, config, terms, milestones_done, auto_releases, released,
                       refunded, refunded_pledger_count, board, queue, vault_owned,
                       paid>>
    BY <1>5 DEF Pledge, may_pledge
  <2>3. pledges' \in [Backers -> Nat]
    BY <2>1, <2>2 DEF TypeOK
  <2>4. /\ total_pledged' \in Nat /\ pledger_count' \in Nat
        /\ vault_lamports' \in Nat /\ work_deadline' \in Nat
        /\ status' \in {"Funding", "Funded"}
    BY <2>1, <2>2 DEF TypeOK
  <2>5. TypeOK'
    BY <2>2, <2>3, <2>4 DEF TypeOK
  <2>6. Bookkeeping'
    <3>1. released' + refunded' <= total_pledged'
      BY <2>1, <2>2 DEF TypeOK, Bookkeeping
    <3>2. ASSUME NEW c \in Backers PROVE pledges'[c] <= total_pledged'
      <4>1. PICK held \in Nat, total \in Nat :
                held = pledges[c] /\ total = total_pledged /\ held <= total
        BY DEF TypeOK, Bookkeeping
      <4>2. pledges'[c] = held \/ pledges'[c] = held + amount
        BY <2>2, <4>1 DEF TypeOK
      <4>3. total_pledged' = total + amount
        BY <2>2, <4>1
      <4> QED
        BY <2>1, <4>1, <4>2, <4>3
    <3>3. status' = "Funding" => work_deadline' = 0
      BY <2>2 DEF Bookkeeping
    <3>4. /\ status' \in {"Uncreated", "Funding"} => work_deadline' = 0
          /\ \A i \in Milestones, a \in Agents : submission'[i][a].state # "Pending"
      BY <2>2, <2>4, <3>3 DEF Bookkeeping
    <3> QED
      BY <3>1, <3>2, <3>4 DEF Bookkeeping
  <2> QED
    BY <2>5, <2>6
<1>6. CASE Donate
  BY <1>6 DEF TypeOK, Bookkeeping, Donate, milestone_count
<1>7. ASSUME NEW k \in Agents \union {Creator}, InviteAgent(k) PROVE TypeInv'
  BY <1>7 DEF TypeOK, Bookkeeping, InviteAgent, invitation, milestone_count
<1>8. ASSUME NEW a \in Agents,
             SignalIntent(a) \/ WithdrawIntent(a) \/ CloseIntent(a)
      PROVE  TypeInv'
  <2>1. intent' \in [Agents -> IntentAccounts] /\ intents' \in Nat
    <3>1. CASE SignalIntent(a)
      BY <3>1 DEF TypeOK, SignalIntent, IntentAccounts
    <3>2. CASE WithdrawIntent(a)
      BY <3>2 DEF TypeOK, WithdrawIntent, IntentAccounts
    <3>3. CASE CloseIntent(a)
      BY <3>3 DEF TypeOK, CloseIntent, IntentAccounts
    <3> QED
      BY <1>8, <3>1, <3>2, <3>3
  <2> QED
    BY <1>8, <2>1
    DEF TypeOK, Bookkeeping, SignalIntent, WithdrawIntent, CloseIntent, milestone_count
<1>9. ASSUME NEW i \in Milestones, NEW a \in Agents, SubmitDelivery(i, a)
      PROVE  TypeInv'
  <2>1. submission' \in [Milestones -> [Agents -> SubmissionAccounts]]
    BY <1>9 DEF TypeOK, SubmitDelivery, may_submit, SubmissionAccounts
  <2>2. TypeOK'
    BY <1>9, <2>1 DEF TypeOK, SubmitDelivery, may_submit
  <2>3. Bookkeeping'
    BY <1>9 DEF TypeOK, Bookkeeping, SubmitDelivery, may_submit, workable, milestone_count
  <2> QED
    BY <2>2, <2>3
<1>10. ASSUME NEW i \in Milestones, NEW a \in Agents, RejectDelivery(i, a)
       PROVE  TypeInv'
  <2>1. Judged(i, a, "Rejected")
    BY <1>10 DEF RejectDelivery, Judged
  <2>2. /\ submission' \in [Milestones -> [Agents -> SubmissionAccounts]]
        /\ \A j \in Milestones, b \in Agents :
              submission'[j][b].state = "Pending" => submission[j][b].state = "Pending"
    BY <2>1, JudgedAccount
  <2>5. /\ milestone_rejected' = [milestone_rejected EXCEPT ![i] = @ + 1]
        /\ rejections' = rejections + 1
        /\ unresolved_submissions' = less_one(unresolved_submissions)
        /\ UNCHANGED <<now, config, terms, life, money, board,
                       milestone_submitted, latest_submitted_at, submissions,
                       vault, paid>>
    BY <1>10 DEF RejectDelivery
  <2>3. TypeOK'
    BY <2>2, <2>5 DEF TypeOK, less_one
  <2>4. Bookkeeping'
    BY <2>2, <2>5 DEF TypeOK, Bookkeeping, milestone_count
  <2> QED
    BY <2>3, <2>4
<1>11. ASSUME NEW i \in Milestones, NEW a \in Agents, CloseSubmission(i, a)
       PROVE  TypeInv'
  <2>1. submission' \in [Milestones -> [Agents -> SubmissionAccounts]]
    BY <1>11 DEF TypeOK, CloseSubmission, may_close_submission, SubmissionAccounts,
       NoSubmission
  <2>2. TypeOK'
    BY <1>11, <2>1 DEF TypeOK, CloseSubmission, may_close_submission, unresolved_without,
       less_one
  <2>3. Bookkeeping'
    BY <1>11 DEF TypeOK, Bookkeeping, CloseSubmission, may_close_submission,
       milestone_count, NoSubmission
  <2> QED
    BY <2>2, <2>3
<1>12. ASSUME NEW i \in Milestones, NEW a \in Agents, NEW byCreator \in BOOLEAN,
              ReleaseMilestone(i, a, byCreator)
       PROVE  TypeInv'
  <2>1. PICK gross \in Nat : gross = gross_of(i) /\ gross <= escrow_remaining
    BY <1>12, GrossType DEF ReleaseMilestone, may_release
  <2>2. PICK fee \in Nat, net \in Nat :
            fee = split_fee(gross).fee /\ net = split_fee(gross).net
    BY SplitFee
  <2>3. Judged(i, a, "Released")
    BY <1>12 DEF ReleaseMilestone, Judged
  <2>4. /\ submission' \in [Milestones -> [Agents -> SubmissionAccounts]]
        /\ \A j \in Milestones, b \in Agents :
              submission'[j][b].state = "Pending" => submission[j][b].state = "Pending"
    BY <2>3, JudgedAccount
  <2>5. /\ vault_lamports >= gross /\ vault_lamports' = vault_lamports - gross
        /\ released' = released + gross
        /\ earned' = [earned EXCEPT ![a] = @ + net]
        /\ fees' = fees + fee
        /\ unresolved_submissions' = less_one(unresolved_submissions)
        /\ milestones_done' = milestones_done \union {i}
        /\ UNCHANGED <<now, config, terms, work_deadline, total_pledged, refunded,
                       pledger_count, refunded_pledger_count, pledges, board,
                       milestone_submitted, milestone_rejected,
                       latest_submitted_at, submissions, rejections,
                       vault_owned, returned>>
    BY <1>12, <2>1, <2>2 DEF ReleaseMilestone
  <2>6. auto_releases' \in Nat /\ status' \in {"Delivered", status}
    <3>1. /\ auto_releases' = auto_releases + (IF byCreator THEN 0 ELSE 1)
          /\ status' = IF completes_schedule(i) THEN "Delivered" ELSE status
      BY <1>12 DEF ReleaseMilestone
    <3> QED
      BY <3>1 DEF TypeOK
  <2>7. earned' \in [Agents -> Nat]
    BY <2>5 DEF TypeOK
  <2>8. /\ vault_lamports' \in Nat /\ released' \in Nat /\ fees' \in Nat
        /\ unresolved_submissions' \in Nat
        /\ milestones_done' \subseteq Milestones
    BY <2>5 DEF TypeOK, less_one
  <2>9. TypeOK'
    BY <2>4, <2>5, <2>6, <2>7, <2>8 DEF TypeOK
  <2>10. Bookkeeping'
    <3>1. at_front(i, a)
      BY <1>12 DEF ReleaseMilestone, may_release
    <3>2. status \notin {"Uncreated", "Funding"}
      BY <3>1 DEF Bookkeeping, at_front
    <3>3. status' \notin {"Uncreated", "Funding"}
      BY <2>6, <3>2
    <3>4. released' + refunded' <= total_pledged'
      <4>1. /\ released' = released + gross
            /\ UNCHANGED <<refunded, total_pledged>>
        BY <2>5
      <4>2. /\ total_pledged \in Nat /\ released \in Nat /\ refunded \in Nat
            /\ gross \in Nat /\ gross <= total_pledged - released - refunded
        BY <2>1 DEF TypeOK, escrow_remaining
      <4> QED
        BY <4>1, <4>2
    <3>5. \A j \in Milestones, b \in Agents :
              submission'[j][b].state = "Pending" => j <= milestone_count'
      BY <2>4, <2>5 DEF Bookkeeping, milestone_count
    <3> QED
      BY <2>5, <3>3, <3>4, <3>5 DEF Bookkeeping
  <2> QED
    BY <2>9, <2>10
<1>13. ASSUME NEW b \in Backers, Refund(b) PROVE TypeInv'
  <2> DEFINE amount == refund_amount(b)
  <2>1. amount \in Nat /\ amount <= escrow_remaining
    BY <1>13, RefundType DEF Refund, may_refund
  <2>2. refund_split(amount).fee \in Nat /\ refund_split(amount).net \in Nat
    BY <2>1, RefundSplit
  <2> HIDE DEF amount
  <2>3. /\ vault_lamports >= amount /\ vault_lamports' = vault_lamports - amount
        /\ refunded' = refunded + amount
        /\ returned' = [returned EXCEPT ![b] = @ + refund_split(amount).net]
        /\ fees' = fees + refund_split(amount).fee
        /\ pledges' = [pledges EXCEPT ![b] = 0]
        /\ refunded_pledger_count' = refunded_pledger_count + 1
        /\ UNCHANGED <<now, config, terms, life, total_pledged, released,
                       pledger_count, board, queue, vault_owned, earned>>
    BY <1>13 DEF Refund, amount
  <2>6. returned' \in [Backers -> Nat]
    <3>1. returned \in [Backers -> Nat] /\ returned[b] + refund_split(amount).net \in Nat
      BY <2>2 DEF TypeOK
    <3> QED
      BY <2>3, <3>1
  <2>7. /\ vault_lamports' \in Nat /\ refunded' \in Nat /\ fees' \in Nat
        /\ pledges' \in [Backers -> Nat] /\ refunded_pledger_count' \in Nat
    BY <2>1, <2>2, <2>3 DEF TypeOK
  <2>4. TypeOK'
    BY <2>3, <2>6, <2>7 DEF TypeOK
  <2>5. Bookkeeping'
    BY <2>1, <2>3 DEF TypeOK, Bookkeeping, milestone_count, escrow_remaining
  <2> QED
    BY <2>4, <2>5
<1>14. ASSUME NEW byCreator \in BOOLEAN, Cancel(byCreator) PROVE TypeInv'
  BY <1>14 DEF TypeOK, Bookkeeping, Cancel, milestone_count
<1>15. ASSUME NEW b \in Backers, ClosePledge(b) PROVE TypeInv'
  BY <1>15 DEF TypeOK, Bookkeeping, ClosePledge, may_close_pledge, milestone_count
<1>16. CASE CloseVault
  <2>1. vault_owned' \in BOOLEAN
    BY <1>16, Zenon DEF CloseVault
  <2> QED
    BY <1>16, <2>1 DEF TypeOK, Bookkeeping, CloseVault, milestone_count
<1>17. CASE UNCHANGED vars
  BY <1>17 DEF vars, TypeOK, Bookkeeping, milestone_count
<1> QED
  BY <1>1, <1>2, <1>3, <1>4, <1>5, <1>6, <1>7, <1>8, <1>9, <1>10, <1>11,
     <1>12, <1>13, <1>14, <1>15, <1>16, <1>17
  DEF Next, AgentStep, BackerStep

(* Every variable keeps its type, whatever the constants: no balance and   *)
(* no counter of lib.rs ever goes below zero.                              *)
THEOREM TypeCorrect == Spec => []TypeOK
<1>1. Spec => []TypeInv
  BY InitTypeInv, StepTypeInv, PTL DEF Spec
<1>2. TypeInv => TypeOK
  BY DEF TypeInv
<1> QED
  BY <1>1, <1>2, PTL

-----------------------------------------------------------------------------
untouched == released = 0 /\ refunded = 0 /\ refunded_pledger_count = 0

(* The strengthening.  A commission that still takes pledges has paid      *)
(* nothing; the pledge accounts alive are the ones not counted as settled; *)
(* and a vault given back to the creator had nobody left to serve.         *)
MoneyInv ==
    /\ vault_owned => vault_lamports >= VAULT_RENT + escrow_remaining
    /\ refunded_pledger_count + Cardinality(live_pledges) = pledger_count
    /\ live_pledges = {} \/ status = "Delivered" => escrow_remaining = 0
    /\ status = "Uncreated" => total_pledged = 0 /\ live_pledges = {} /\ untouched
    /\ status = "Funding" /\ now < terms.deadline => untouched
    /\ status = "Uncreated" => ~vault_owned
    /\ ~vault_owned => /\ escrow_remaining = 0
                       /\ live_pledges = {} \/ status = "Delivered"
                       /\ status \notin {"Funding", "Funded"}

(* There are finitely many backers, so live pledges can be counted.        *)
LEMMA LivePledgesFinite == IsFiniteSet(live_pledges) /\ Cardinality(live_pledges) \in Nat
  BY PartyAssumption, FS_Subset, FS_CardinalityType DEF live_pledges

(* What Refund and ClosePledge do to the pledge accounts.                  *)
LEMMA PledgeClosed ==
    ASSUME NEW b \in Backers, pledges \in [Backers -> Nat], pledges[b] # 0,
           pledges' = [pledges EXCEPT ![b] = 0]
    PROVE  /\ live_pledges' = live_pledges \ {b}
           /\ Cardinality(live_pledges') = Cardinality(live_pledges) - 1
<1>1. live_pledges' = live_pledges \ {b} /\ b \in live_pledges
  BY DEF live_pledges
<1> QED
  BY <1>1, LivePledgesFinite, FS_RemoveElement

(* What Pledge does to them.                                               *)
LEMMA PledgeGrown ==
    ASSUME NEW b \in Backers, NEW amount \in Nat \ {0},
           pledges \in [Backers -> Nat],
           pledges' = [pledges EXCEPT ![b] = @ + amount]
    PROVE  /\ live_pledges' = live_pledges \union {b}
           /\ Cardinality(live_pledges')
                 = Cardinality(live_pledges) + (IF pledges[b] = 0 THEN 1 ELSE 0)
<1>1. live_pledges' = live_pledges \union {b}
  BY DEF live_pledges
<1>2. b \in live_pledges <=> pledges[b] # 0
  BY DEF live_pledges
<1> QED
  BY <1>1, <1>2, LivePledgesFinite, FS_AddElement

(* No pledge account exists yet.                                           *)
LEMMA InitMoneyInv == Init => MoneyInv
<1> SUFFICES ASSUME Init PROVE MoneyInv
  OBVIOUS
<1>1. live_pledges = {}
  BY DEF Init, live_pledges
<1>2. Cardinality(live_pledges) = 0
  BY <1>1, FS_EmptySet
<1> QED
  BY <1>1, <1>2 DEF Init, MoneyInv, untouched, escrow_remaining

(* An instruction that touches neither balances nor status keeps it.       *)
LEMMA QuietMoneyInv ==
    ASSUME MoneyInv, UNCHANGED <<terms, life, money, vault>>, now' = now
    PROVE  MoneyInv'
<1>1. live_pledges' = live_pledges
  BY DEF live_pledges, money
<1> QED
  BY <1>1 DEF MoneyInv, untouched, escrow_remaining, life, money, vault

(* One step per instruction that does.                                     *)
LEMMA StepMoneyInv == TypeInv /\ MoneyInv /\ [Next]_vars => MoneyInv'
<1> SUFFICES ASSUME TypeInv, MoneyInv, [Next]_vars PROVE MoneyInv'
  OBVIOUS
<1> USE DEF life, money, board, queue, vault, paid
<1>0. /\ total_pledged \in Nat /\ released \in Nat /\ refunded \in Nat
      /\ escrow_remaining = total_pledged - released - refunded
      /\ escrow_remaining \in Nat
      /\ pledger_count \in Nat /\ refunded_pledger_count \in Nat
      /\ pledges \in [Backers -> Nat]
      /\ vault_lamports \in Nat /\ now \in Nat /\ VAULT_RENT \in Nat
  BY LimitAssumption DEF TypeInv, TypeOK, Bookkeeping, escrow_remaining
<1>1. CASE Tick
  <2>1. live_pledges' = live_pledges
    BY <1>1 DEF Tick, live_pledges
  <2>2. terms.deadline \in Nat
    BY DEF TypeInv, TypeOK
  <2> QED
    BY <1>0, <1>1, <2>1, <2>2 DEF Tick, MoneyInv, untouched, escrow_remaining
<1>2. CASE InitConfig \/ \E p \in BOOLEAN : SetPaused(p)
  BY <1>2, QuietMoneyInv DEF InitConfig, SetPaused
<1>3. CASE \E k \in Agents \union {Creator} : InviteAgent(k)
  BY <1>3, QuietMoneyInv DEF InviteAgent
<1>4. ASSUME NEW a \in Agents,
             SignalIntent(a) \/ WithdrawIntent(a) \/ CloseIntent(a)
      PROVE  MoneyInv'
  BY <1>4, QuietMoneyInv DEF SignalIntent, WithdrawIntent, CloseIntent
<1>5. ASSUME NEW i \in Milestones, NEW a \in Agents,
             SubmitDelivery(i, a) \/ RejectDelivery(i, a) \/ CloseSubmission(i, a)
      PROVE  MoneyInv'
  BY <1>5, QuietMoneyInv DEF SubmitDelivery, may_submit, RejectDelivery, CloseSubmission,
     may_close_submission
<1>6. ASSUME NEW o \in Offers, CreateCommission(o) PROVE MoneyInv'
  <2>1. live_pledges' = live_pledges
    BY <1>6 DEF CreateCommission, may_create, live_pledges
  <2>2. total_pledged = 0 /\ live_pledges = {} /\ untouched
    BY <1>6 DEF CreateCommission, may_create, MoneyInv
  <2> QED
    BY <1>0, <1>6, <2>1, <2>2
    DEF CreateCommission, may_create, MoneyInv, untouched, escrow_remaining
<1>7. ASSUME NEW b \in Backers, NEW amount \in PledgeAmounts, Pledge(b, amount)
      PROVE  MoneyInv'
  <2>1. amount \in Nat \ {0} /\ vault_owned /\ status = "Funding" /\ untouched
    BY <1>7, PartyAssumption DEF Pledge, may_pledge, MoneyInv
  <2>2. /\ live_pledges' = live_pledges \union {b}
        /\ Cardinality(live_pledges')
              = Cardinality(live_pledges) + (IF pledges[b] = 0 THEN 1 ELSE 0)
    BY <1>0, <1>7, <2>1, PledgeGrown DEF Pledge
  <2>3. status' \in {"Funding", "Funded"}
    BY <1>7, <2>1 DEF Pledge
  <2>4. /\ refunded_pledger_count' + Cardinality(live_pledges') = pledger_count'
        /\ vault_lamports' >= VAULT_RENT + escrow_remaining'
    BY <1>0, <1>7, <2>1, <2>2, LivePledgesFinite
    DEF Pledge, MoneyInv, escrow_remaining
  <2> QED
    BY <1>7, <2>1, <2>2, <2>3, <2>4 DEF Pledge, MoneyInv, untouched
<1>8. CASE Donate
  <2>1. live_pledges' = live_pledges
    BY <1>8 DEF Donate, live_pledges
  <2> QED
    BY <1>0, <1>8, <2>1 DEF Donate, MoneyInv, untouched, escrow_remaining
<1>9. ASSUME NEW i \in Milestones, NEW a \in Agents, NEW byCreator \in BOOLEAN,
             ReleaseMilestone(i, a, byCreator)
      PROVE  MoneyInv'
  <2>1. at_front(i, a) /\ vault_owned
    BY <1>9 DEF ReleaseMilestone, may_release
  <2>2. PICK gross \in Nat :
            gross = gross_of(i) /\ gross <= escrow_remaining /\ gross # 0
    BY <1>9, <2>1, GrossType DEF ReleaseMilestone, may_release
  <2>3. /\ released' = released + gross
        /\ vault_lamports' = vault_lamports - gross
        /\ status' = IF completes_schedule(i) THEN "Delivered" ELSE status
        /\ UNCHANGED <<now, terms, total_pledged, refunded, pledger_count,
                       refunded_pledger_count, pledges, vault_owned>>
    BY <1>9, <2>2 DEF ReleaseMilestone
  <2>4. live_pledges' = live_pledges
    BY <2>3 DEF live_pledges
  <2>5. live_pledges # {} /\ status # "Delivered"
    BY <1>0, <2>2 DEF MoneyInv
  <2>6. status \notin {"Uncreated", "Funding"}
    BY <2>1 DEF TypeInv, Bookkeeping, at_front
  <2>7. escrow_remaining' = escrow_remaining - gross
    BY <1>0, <2>2, <2>3 DEF escrow_remaining
  <2>8. status' = "Delivered" => escrow_remaining' = 0
    BY <1>0, <2>2, <2>3, <2>5, <2>7 DEF gross_of
  <2>9. vault_lamports' >= VAULT_RENT + escrow_remaining'
    BY <1>0, <2>1, <2>2, <2>3, <2>7 DEF MoneyInv
  <2>10. status' \notin {"Uncreated", "Funding"}
    BY <2>3, <2>6
  <2> QED
    BY <2>1, <2>3, <2>4, <2>5, <2>6, <2>8, <2>9, <2>10 DEF MoneyInv
<1>10. ASSUME NEW b \in Backers, Refund(b) PROVE MoneyInv'
  <2>1. pledges[b] # 0 /\ vault_owned /\ refundable
    BY <1>10 DEF Refund, may_refund
  <2>2. PICK amount \in Nat : amount = refund_amount(b) /\ amount <= escrow_remaining
    BY <2>1, RefundType
  <2>3. /\ refunded' = refunded + amount
        /\ vault_lamports' = vault_lamports - amount
        /\ pledges' = [pledges EXCEPT ![b] = 0]
        /\ refunded_pledger_count' = refunded_pledger_count + 1
        /\ UNCHANGED <<now, terms, status, total_pledged, released,
                       pledger_count, vault_owned>>
    BY <1>10, <2>2 DEF Refund
  <2>4. /\ live_pledges' = live_pledges \ {b}
        /\ Cardinality(live_pledges') = Cardinality(live_pledges) - 1
    BY <1>0, <2>1, <2>3, PledgeClosed
  <2>5. escrow_remaining' = escrow_remaining - amount
    BY <1>0, <2>2, <2>3 DEF escrow_remaining
  <2>6. ASSUME live_pledges' = {} PROVE escrow_remaining' = 0
    <3>1. Cardinality(live_pledges') = 0
      BY <2>6, FS_EmptySet
    <3>2. refunded_pledger_count + 1 = pledger_count
      BY <1>0, <2>4, <3>1, LivePledgesFinite DEF MoneyInv
    <3> QED
      BY <1>0, <2>2, <2>5, <3>2 DEF refund_amount
  <2>7. status = "Delivered" => escrow_remaining' = 0
    BY <1>0, <2>2, <2>5 DEF MoneyInv
  <2>8. status # "Uncreated" /\ ~(status = "Funding" /\ now < terms.deadline)
    <3>1. b \in live_pledges
      BY <2>1 DEF live_pledges
    <3>2. status = "Funding" => work_deadline = 0
      BY DEF TypeInv, Bookkeeping
    <3>3. terms.deadline \in Nat
      BY DEF TypeInv, TypeOK
    <3> QED
      BY <1>0, <2>1, <3>1, <3>2, <3>3 DEF MoneyInv, refundable, work_closed
  <2>9. refunded_pledger_count' + Cardinality(live_pledges') = pledger_count'
    BY <1>0, <2>3, <2>4, LivePledgesFinite DEF MoneyInv
  <2>13. vault_lamports' >= VAULT_RENT + escrow_remaining'
    BY <1>0, <2>1, <2>2, <2>3, <2>5 DEF MoneyInv
  <2>10. live_pledges' = {} \/ status' = "Delivered" => escrow_remaining' = 0
    BY <2>3, <2>6, <2>7
  <2>11. status' # "Uncreated" /\ ~(status' = "Funding" /\ now' < terms'.deadline)
    BY <2>3, <2>8
  <2>12. vault_owned'
    BY <2>1, <2>3
  <2> QED
    BY <2>9, <2>10, <2>11, <2>12, <2>13 DEF MoneyInv
<1>11. ASSUME NEW byCreator \in BOOLEAN, Cancel(byCreator) PROVE MoneyInv'
  <2>1. live_pledges' = live_pledges
    BY <1>11 DEF Cancel, live_pledges
  <2>2. status \in {"Funding", "Funded"} /\ vault_owned
    BY <1>11 DEF Cancel, may_cancel, MoneyInv
  <2> QED
    BY <1>11, <2>1, <2>2 DEF Cancel, MoneyInv, untouched, escrow_remaining
<1>12. ASSUME NEW b \in Backers, ClosePledge(b) PROVE MoneyInv'
  <2>1. /\ live_pledges' = live_pledges \ {b}
        /\ Cardinality(live_pledges') = Cardinality(live_pledges) - 1
    BY <1>0, <1>12, PledgeClosed DEF ClosePledge, may_close_pledge
  <2>2. refunded_pledger_count' + Cardinality(live_pledges') = pledger_count'
    BY <1>0, <1>12, <2>1, LivePledgesFinite DEF ClosePledge, may_close_pledge, MoneyInv
  <2> QED
    BY <1>12, <2>1, <2>2 DEF ClosePledge, may_close_pledge, MoneyInv, untouched,
       escrow_remaining
<1>13. CASE CloseVault
  <2>1. live_pledges' = live_pledges
    BY <1>13 DEF CloseVault, live_pledges
  <2>2. status = "Cancelled" => live_pledges = {}
    BY <1>0, <1>13, LivePledgesFinite, FS_EmptySet
    DEF CloseVault, vault_settled, MoneyInv
  <2> QED
    BY <1>13, <2>1, <2>2
    DEF CloseVault, vault_settled, MoneyInv, untouched, escrow_remaining
<1>14. CASE UNCHANGED vars
  BY <1>14, QuietMoneyInv DEF vars
<1> QED
  BY <1>1, <1>2, <1>3, <1>4, <1>5, <1>6, <1>7, <1>8, <1>9, <1>10, <1>11,
     <1>12, <1>13, <1>14
  DEF Next, AgentStep, BackerStep

(* The two invariants together are inductive.                              *)
LEMMA MoneyAlways == Spec => [](TypeInv /\ MoneyInv)
<1>1. Init => TypeInv /\ MoneyInv
  BY InitTypeInv, InitMoneyInv
<1>2. (TypeInv /\ MoneyInv) /\ [Next]_vars => (TypeInv /\ MoneyInv)'
  BY StepTypeInv, StepMoneyInv
<1> QED
  BY <1>1, <1>2, PTL DEF Spec

-----------------------------------------------------------------------------
(* However releases and refunds interleave, the vault holds at least what  *)
(* is owed and the program never owes more than it was pledged.            *)
THEOREM VaultAlwaysBacked == Spec => []VaultBacked
<1>1. TypeInv /\ MoneyInv => VaultBacked
  BY DEF TypeInv, TypeOK, Bookkeeping, MoneyInv, VaultBacked, escrow_remaining
<1> QED
  BY <1>1, MoneyAlways, PTL

(* Whatever the order of refunds, their roundings and their clamps leave   *)
(* nothing behind, and neither does the last milestone.                    *)
THEOREM NothingStranded == Spec => []NoStrandedEscrow
<1>1. TypeInv /\ MoneyInv => NoStrandedEscrow
  BY DEF MoneyInv, NoStrandedEscrow
<1> QED
  BY <1>1, MoneyAlways, PTL

(* Only Pledge raises what was pledged, and it needs an untouched escrow.  *)
LEMMA PledgesIntoUntouched ==
    ASSUME TypeInv, MoneyInv, Next, total_pledged' # total_pledged
    PROVE  /\ untouched
           /\ \E amount \in Nat \ {0} : total_pledged' = total_pledged + amount
           /\ UNCHANGED <<released, refunded>>
<1> USE DEF life, money, board, queue, vault, paid
<1> DEFINE goal == /\ untouched
                   /\ \E amount \in Nat \ {0} : total_pledged' = total_pledged + amount
                   /\ UNCHANGED <<released, refunded>>
<1>1. ASSUME NEW b \in Backers, NEW amount \in PledgeAmounts, Pledge(b, amount)
      PROVE  goal
  <2>1. amount \in Nat \ {0} /\ untouched
    BY <1>1, PartyAssumption DEF Pledge, may_pledge, MoneyInv
  <2> QED
    BY <1>1, <2>1 DEF Pledge
<1>2. ASSUME NEW i \in Milestones, NEW a \in Agents, NEW byCreator \in BOOLEAN,
             ReleaseMilestone(i, a, byCreator)
      PROVE  UNCHANGED total_pledged
  BY <1>2 DEF ReleaseMilestone
<1>3. ASSUME NEW b \in Backers, Refund(b) PROVE UNCHANGED total_pledged
  BY <1>3 DEF Refund
<1> HIDE DEF goal
<1>4. goal \/ UNCHANGED total_pledged
  BY <1>1, <1>2, <1>3
  DEF Next, AgentStep, BackerStep, Tick, InitConfig, SetPaused,
      CreateCommission, may_create, ClosePledge, may_close_pledge, SignalIntent,
      WithdrawIntent, CloseIntent,
      SubmitDelivery, may_submit, RejectDelivery, CloseSubmission, may_close_submission,
      InviteAgent, Cancel,
      CloseVault, Donate
<1> QED
  BY <1>4 DEF goal

(* Only ReleaseMilestone and Refund change what was paid out, and add.     *)
LEMMA OutflowsGrow ==
    ASSUME TypeInv, Next
    PROVE  released' + refunded' >= released + refunded
<1> USE DEF life, money, board, queue, vault, paid
<1>0. released \in Nat /\ refunded \in Nat
  BY DEF TypeInv, TypeOK
<1>1. ASSUME NEW i \in Milestones, NEW a \in Agents, NEW byCreator \in BOOLEAN,
             ReleaseMilestone(i, a, byCreator)
      PROVE  released' + refunded' >= released + refunded
  <2>1. PICK gross \in Nat : gross = gross_of(i)
    BY <1>1, GrossType DEF ReleaseMilestone, may_release
  <2>2. released' = released + gross /\ refunded' = refunded
    BY <1>1, <2>1 DEF ReleaseMilestone
  <2> QED
    BY <1>0, <2>2
<1>2. ASSUME NEW b \in Backers, Refund(b)
      PROVE  released' + refunded' >= released + refunded
  <2>1. PICK amount \in Nat : amount = refund_amount(b)
    BY <1>2, RefundType DEF Refund, may_refund
  <2>2. refunded' = refunded + amount /\ released' = released
    BY <1>2, <2>1 DEF Refund
  <2> QED
    BY <1>0, <2>2
<1>3. CASE UNCHANGED <<released, refunded>>
  BY <1>0, <1>3
<1> QED
  BY <1>1, <1>2, <1>3
  DEF Next, AgentStep, BackerStep, Tick, InitConfig, SetPaused,
      CreateCommission, may_create, Pledge, ClosePledge, may_close_pledge, SignalIntent,
      WithdrawIntent,
      CloseIntent, SubmitDelivery, may_submit, RejectDelivery, CloseSubmission,
      may_close_submission,
      InviteAgent, Cancel, CloseVault, Donate

(* No pledge is taken by a commission that has paid or refunded anything,  *)
(* so the two ways out never race the way in.                              *)
THEOREM PledgesComeFirst == Spec => NoPledgeAfterExit
<1>1. TypeInv /\ MoneyInv /\ [Next]_vars =>
          [ total_pledged' > total_pledged =>
              refunded_pledger_count = 0 /\ released = 0 ]_vars
  <2> SUFFICES ASSUME TypeInv, MoneyInv, Next, total_pledged' > total_pledged
               PROVE  refunded_pledger_count = 0 /\ released = 0
    BY DEF vars
  <2> QED
    BY PledgesIntoUntouched DEF untouched, TypeInv, TypeOK
<1> QED
  BY <1>1, MoneyAlways, PTL DEF Spec, NoPledgeAfterExit

(* The escrow implements a pot: every instruction puts lamports into an    *)
(* unopened pot, takes some out of what is left, or moves none.            *)
THEOREM EscrowImplementsPot == Spec => ImplementsPot
<1>1. Init => Pot!Init
  BY DEF Init, Pot!Init
<1>2. TypeInv /\ TypeInv' /\ MoneyInv /\ [Next]_vars
          => [Pot!Next]_<<total_pledged, released + refunded>>
  <2> SUFFICES ASSUME TypeInv, TypeInv', MoneyInv, [Next]_vars
               PROVE  [Pot!Next]_<<total_pledged, released + refunded>>
    OBVIOUS
  <2>0. /\ total_pledged \in Nat /\ released \in Nat /\ refunded \in Nat
        /\ released' \in Nat /\ refunded' \in Nat
        /\ released' + refunded' <= total_pledged'
    BY DEF TypeInv, TypeOK, Bookkeeping
  <2>1. CASE total_pledged' # total_pledged /\ Next
    BY <2>0, <2>1, PledgesIntoUntouched DEF Pot!Next, Pot!PutIn, untouched
  <2>2. ASSUME total_pledged' = total_pledged, Next
        PROVE  Pot!TakeOut
    <3>1. released' + refunded' >= released + refunded
      BY <2>2, OutflowsGrow
    <3>2. PICK r \in Nat, f \in Nat : r = released' /\ f = refunded'
      BY <2>0
    <3>3. r + f >= released + refunded /\ r + f <= total_pledged
      BY <2>0, <2>2, <3>1, <3>2
    <3>4. r + f \in (released + refunded) .. total_pledged
      BY <2>0, <3>3
    <3> QED
      BY <2>2, <3>2, <3>4 DEF Pot!TakeOut
  <2>3. CASE UNCHANGED vars
    BY <2>3 DEF vars, money
  <2> QED
    BY <2>1, <2>2, <2>3 DEF Pot!Next
<1> QED
  BY <1>1, <1>2, MoneyAlways, PTL DEF Spec, ImplementsPot, Pot!Spec
=============================================================================
