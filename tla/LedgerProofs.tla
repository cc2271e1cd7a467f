---------------------------- MODULE LedgerProofs ----------------------------
(***************************************************************************)
(* How long a backer can be held, what the treasury may take, what the     *)
(* record of intents keeps and what each party is owed, for any windows,   *)
(* amounts and parties.                                                    *)
(***************************************************************************)
EXTENDS QueueProofs, SumFacts

\* Deliveries stop at the work deadline, and that is fixed when the goal is met.
ClockInv ==
    /\ latest_submitted_at <= work_deadline
    /\ status # "Uncreated" => work_deadline <= terms.deadline + terms.work_window
    /\ status = "Funded" => work_deadline > 0
    /\ \A i \in Milestones, a \in Agents :
          submission[i][a].state = "Pending" => work_deadline > 0

\* What was charged stays below the rate, and is charged only after a delivery.
FeeInv ==
    /\ fees * BPS_DENOMINATOR <= FEE_BPS * (released + refunded)
    /\ submissions = 0 => fees = 0 /\ pending = {}

signed_up == {a \in Agents : intent[a] # "Empty"}
working == status = "Funded" /\ ~work_closed

\* Nobody signs up before the goal is met, and nobody is erased while they work.
IntentInv ==
    /\ Cardinality(signed_up) <= intents
    /\ status \in {"Uncreated", "Funding"} \/ working => Cardinality(signed_up) = intents
    /\ status \in {"Uncreated", "Funding"} => signed_up = {}

-----------------------------------------------------------------------------
\* Nothing is recorded before the first creation.
LEMMA InitLedger == Init => ClockInv /\ FeeInv /\ IntentInv
<1> SUFFICES ASSUME Init PROVE ClockInv /\ FeeInv /\ IntentInv
  OBVIOUS
<1>1. pending = {} /\ signed_up = {}
  BY DEF Init, pending, signed_up, NoSubmission
<1>2. Cardinality(signed_up) = 0
  BY <1>1, FS_EmptySet
<1>3. \A i \in Milestones, a \in Agents : submission[i][a].state # "Pending"
  BY DEF Init, NoSubmission
<1> QED
  BY <1>1, <1>2, <1>3, FeeAssumption DEF Init, ClockInv, FeeInv, IntentInv

(* The deadline of work is set once, within the window of the terms.       *)
LEMMA StepClockInv == TypeInv /\ ClockInv /\ [Next]_vars => ClockInv'
<1> SUFFICES ASSUME TypeInv, ClockInv, [Next]_vars PROVE ClockInv'
  OBVIOUS
<1> USE DEF life, queue
<1>0. /\ now \in Nat /\ work_deadline \in Nat /\ latest_submitted_at \in Nat
      /\ terms.deadline \in Nat /\ terms.work_window \in Nat
      /\ status \in {"Uncreated", "Funding", "Funded", "Delivered", "Cancelled"}
      /\ status \in {"Uncreated", "Funding"} => work_deadline = 0
  BY DEF TypeInv, TypeOK, Bookkeeping
<1>1. CASE Tick \/ InitConfig \/ CloseVault \/ Donate \/ \E p \in BOOLEAN : SetPaused(p)
  BY <1>1 DEF ClockInv, Tick, InitConfig, CloseVault, Donate, SetPaused
<1>2. ASSUME NEW o \in Offers, CreateCommission(o) PROVE ClockInv'
  <2>1. terms' \in [ goal : Nat, milestone_bps : Seq(Nat), deadline : Nat,
                     work_window : Nat, review_window : Nat ]
    BY <1>2, StepTypeInv DEF TypeInv, TypeOK
  <2>2. /\ work_deadline' = 0 /\ latest_submitted_at' = 0 /\ status' = "Funding"
        /\ UNCHANGED submission
    BY <1>0, <1>2 DEF CreateCommission, may_create, ClockInv
  <2>3. \A i \in Milestones, a \in Agents : submission[i][a].state # "Pending"
    BY <1>0, <1>2 DEF ClockInv, CreateCommission, may_create
  <2> QED
    BY <2>1, <2>2, <2>3 DEF ClockInv
<1>3. CASE \/ \E k \in Agents \union {Creator} : InviteAgent(k)
           \/ \E byCreator \in BOOLEAN : Cancel(byCreator)
  BY <1>3 DEF ClockInv, InviteAgent, Cancel, may_cancel
<1>4. ASSUME NEW b \in Backers, BackerStep(b) PROVE ClockInv'
  <2>1. ASSUME NEW amount \in PledgeAmounts, Pledge(b, amount) PROVE ClockInv'
    <3>1. /\ status = "Funding" /\ now < terms.deadline /\ work_deadline = 0
          /\ UNCHANGED <<terms, latest_submitted_at, submission>>
      BY <1>0, <2>1 DEF Pledge, may_pledge
    <3>2. CASE total_pledged' >= terms.goal
      <4>1. work_deadline' = now + terms.work_window /\ status' = "Funded"
        BY <2>1, <3>2 DEF Pledge
      <4>2. terms.work_window > 0 \/ now > 0
        BY DEF TypeInv, TypeOK
      <4> QED
        BY <1>0, <3>1, <4>1, <4>2 DEF ClockInv
    <3>3. CASE ~(total_pledged' >= terms.goal)
      <4>1. UNCHANGED <<status, work_deadline>>
        BY <2>1, <3>3 DEF Pledge
      <4> QED
        BY <3>1, <4>1 DEF ClockInv
    <3> QED
      BY <3>2, <3>3
  <2>2. CASE Refund(b) \/ ClosePledge(b)
    BY <2>2 DEF ClockInv, Refund, ClosePledge, may_close_pledge
  <2> QED
    BY <1>4, <2>1, <2>2 DEF BackerStep
<1>5. ASSUME NEW a \in Agents, AgentStep(a) PROVE ClockInv'
  <2>1. CASE SignalIntent(a) \/ WithdrawIntent(a) \/ CloseIntent(a)
    BY <2>1 DEF ClockInv, SignalIntent, WithdrawIntent, CloseIntent
  <2>2. ASSUME NEW i \in Milestones, RejectDelivery(i, a) \/ CloseSubmission(i, a)
        PROVE  ClockInv'
    <3>1. /\ UNCHANGED <<status, work_deadline, terms, latest_submitted_at>>
          /\ \/ submission' = [submission EXCEPT ![i][a].state = "Rejected"]
             \/ submission' = [submission EXCEPT ![i] = [@ EXCEPT ![a] = NoSubmission]]
      BY <2>2 DEF RejectDelivery, CloseSubmission
    <3>2. submission \in [Milestones -> [Agents -> SubmissionAccounts]]
      BY DEF TypeInv, TypeOK
    <3>3. ASSUME submission' = [submission EXCEPT ![i][a].state = "Rejected"]
          PROVE  \A j \in Milestones, k \in Agents :
             submission'[j][k].state = "Pending" => submission[j][k].state = "Pending"
      BY <3>2, <3>3
    <3>4. ASSUME submission' = [submission EXCEPT ![i] = [@ EXCEPT ![a] = NoSubmission]]
          PROVE  \A j \in Milestones, k \in Agents :
             submission'[j][k].state = "Pending" => submission[j][k].state = "Pending"
      BY <3>2, <3>4 DEF NoSubmission
    <3> QED
      BY <3>1, <3>3, <3>4 DEF ClockInv
  <2>3. ASSUME NEW i \in Milestones, SubmitDelivery(i, a) PROVE ClockInv'
    <3>1. work_deadline > 0 /\ now < work_deadline
      BY <1>0, <2>3 DEF SubmitDelivery, may_submit, workable, work_closed, ClockInv
    <3>2. latest_submitted_at' = now /\ UNCHANGED <<status, work_deadline, terms>>
      BY <2>3 DEF SubmitDelivery, may_submit
    <3> QED
      BY <1>0, <3>1, <3>2 DEF ClockInv
  <2>4. ASSUME NEW i \in Milestones, NEW c \in BOOLEAN, ReleaseMilestone(i, a, c)
        PROVE  ClockInv'
    <3>1. status # "Uncreated"
      BY <2>4 DEF TypeInv, Bookkeeping, ReleaseMilestone, may_release, at_front
    <3>2. /\ status' \in {status, "Delivered"}
          /\ UNCHANGED <<work_deadline, terms, latest_submitted_at>>
          /\ submission' = [submission EXCEPT ![i][a].state = "Released"]
      BY <2>4 DEF ReleaseMilestone
    <3>3. \A j \in Milestones, k \in Agents :
             submission'[j][k].state = "Pending" => submission[j][k].state = "Pending"
      BY <3>2 DEF TypeInv, TypeOK
    <3> QED
      BY <3>1, <3>2, <3>3 DEF ClockInv
  <2> QED
    BY <1>5, <2>1, <2>2, <2>3, <2>4 DEF AgentStep
<1>6. CASE UNCHANGED vars
  BY <1>6 DEF vars, ClockInv
<1> QED
  BY <1>1, <1>2, <1>3, <1>4, <1>5, <1>6 DEF Next

(* One per cent of a payout, floored, is at most one per cent of it.       *)
LEMMA FeeWithinRate ==
    ASSUME NEW gross \in Nat
    PROVE  /\ split_fee(gross).fee \in Nat
           /\ split_fee(gross).fee * BPS_DENOMINATOR <= FEE_BPS * gross
<1>1. PICK x \in Nat : x = gross * FEE_BPS
  BY FeeAssumption
<1>2. BPS_DENOMINATOR \in Nat \ {0} /\ FEE_BPS \in Nat
  BY FeeAssumption
<1>3. /\ x \div BPS_DENOMINATOR \in Nat
      /\ BPS_DENOMINATOR * (x \div BPS_DENOMINATOR) <= x
  BY <1>2, DivBounds
<1>4. split_fee(gross).fee = x \div BPS_DENOMINATOR
  BY <1>1 DEF split_fee, mul_div
<1> QED
  BY <1>1, <1>2, <1>3, <1>4

(* Charging it for what just left keeps the total within the rate.         *)
LEMMA RateKept ==
    ASSUME NEW f \in Nat, NEW g \in Nat, NEW out \in Nat, NEW amount \in Nat,
           f * BPS_DENOMINATOR <= FEE_BPS * out,
           g * BPS_DENOMINATOR <= FEE_BPS * amount
    PROVE  (f + g) * BPS_DENOMINATOR <= FEE_BPS * (out + amount)
<1>1. BPS_DENOMINATOR \in Nat \ {0} /\ FEE_BPS \in Nat
  BY FeeAssumption
<1>2. /\ (f + g) * BPS_DENOMINATOR = f * BPS_DENOMINATOR + g * BPS_DENOMINATOR
      /\ FEE_BPS * (out + amount) = FEE_BPS * out + FEE_BPS * amount
  BY <1>1
<1>3. /\ f * BPS_DENOMINATOR \in Nat /\ g * BPS_DENOMINATOR \in Nat
      /\ FEE_BPS * out \in Nat /\ FEE_BPS * amount \in Nat
  BY <1>1
<1> QED
  BY <1>2, <1>3

(* Fees are taken by the two payouts, at one rate, of what they pay out.   *)
LEMMA StepFeeInv == TypeInv /\ FeeInv /\ [Next]_vars => FeeInv'
<1> SUFFICES ASSUME TypeInv, FeeInv, [Next]_vars PROVE FeeInv'
  OBVIOUS
<1> USE DEF money, queue, paid
<1>0. /\ fees \in Nat /\ released \in Nat /\ refunded \in Nat
      /\ submissions \in Nat /\ submission \in [Milestones -> [Agents -> SubmissionAccounts]]
      /\ released + refunded \in Nat
  BY DEF TypeInv, TypeOK
<1>1. CASE Tick \/ InitConfig \/ CloseVault \/ Donate \/ \E p \in BOOLEAN : SetPaused(p)
  BY <1>1 DEF FeeInv, pending, Tick, InitConfig, CloseVault, Donate, SetPaused
<1>2. CASE \/ \E o \in Offers : CreateCommission(o)
           \/ \E k \in Agents \union {Creator} : InviteAgent(k)
           \/ \E byCreator \in BOOLEAN : Cancel(byCreator)
  BY <1>2 DEF FeeInv, pending, CreateCommission, may_create, InviteAgent, Cancel
<1>3. ASSUME NEW b \in Backers, BackerStep(b) PROVE FeeInv'
  <2>1. CASE ClosePledge(b) \/ \E amount \in PledgeAmounts : Pledge(b, amount)
    BY <2>1 DEF FeeInv, pending, Pledge, ClosePledge, may_close_pledge
  <2>2. CASE Refund(b)
    <3>1. PICK amount \in Nat : amount = refund_amount(b)
      BY <2>2, RefundType DEF Refund, may_refund
    <3>2. PICK g \in Nat : g = refund_split(amount).fee
      BY RefundSplit
    <3>3. /\ fees' = fees + g /\ refunded' = refunded + amount
          /\ UNCHANGED <<released, submissions, submission>>
      BY <2>2, <3>1, <3>2 DEF Refund
    <3>4. g * BPS_DENOMINATOR <= FEE_BPS * amount /\ (submissions = 0 => g = 0)
      BY <3>2, <1>0, FeeWithinRate, FeeAssumption DEF refund_split
    <3>5. (fees + g) * BPS_DENOMINATOR <= FEE_BPS * ((released + refunded) + amount)
      BY <1>0, <3>4, RateKept DEF FeeInv
    <3>6. released' + refunded' = (released + refunded) + amount
      BY <1>0, <3>3
    <3>7. pending' = pending
      BY <3>3 DEF pending
    <3> QED
      BY <1>0, <3>3, <3>4, <3>5, <3>6, <3>7 DEF FeeInv
  <2> QED
    BY <1>3, <2>1, <2>2 DEF BackerStep
<1>4. ASSUME NEW a \in Agents, AgentStep(a) PROVE FeeInv'
  <2>1. CASE SignalIntent(a) \/ WithdrawIntent(a) \/ CloseIntent(a)
    BY <2>1 DEF FeeInv, pending, SignalIntent, WithdrawIntent, CloseIntent
  <2>2. ASSUME NEW i \in Milestones, SubmitDelivery(i, a) PROVE FeeInv'
    <3>1. /\ submissions' = submissions + 1 /\ submissions' # 0
          /\ UNCHANGED <<fees, released, refunded>>
      BY <1>0, <2>2 DEF SubmitDelivery, may_submit
    <3> QED
      BY <3>1 DEF FeeInv
  <2>3. ASSUME NEW i \in Milestones, RejectDelivery(i, a) PROVE FeeInv'
    <3>1. <<i, a>> \in pending
      BY <2>3 DEF RejectDelivery, may_reject, at_front, pending
    <3>2. submissions # 0 /\ UNCHANGED <<fees, released, refunded, submissions>>
      BY <2>3, <3>1 DEF RejectDelivery, FeeInv
    <3> QED
      BY <3>2 DEF FeeInv
  <2>4. ASSUME NEW i \in Milestones, CloseSubmission(i, a) PROVE FeeInv'
    <3>1. submission' = [submission EXCEPT ![i] = [@ EXCEPT ![a] = NoSubmission]]
      BY <2>4 DEF CloseSubmission, may_close_submission
    <3>2. pending' \subseteq pending
      BY <1>0, <3>1 DEF pending, NoSubmission
    <3>3. UNCHANGED <<fees, released, refunded, submissions>>
      BY <2>4 DEF CloseSubmission, may_close_submission
    <3> QED
      BY <3>2, <3>3 DEF FeeInv
  <2>5. ASSUME NEW i \in Milestones, NEW c \in BOOLEAN, ReleaseMilestone(i, a, c)
        PROVE  FeeInv'
    <3>0. <<i, a>> \in pending
      BY <2>5 DEF ReleaseMilestone, may_release, at_front, pending
    <3>1. PICK amount \in Nat : amount = gross_of(i)
      BY <2>5, GrossType DEF ReleaseMilestone, may_release
    <3>2. PICK g \in Nat : g = split_fee(amount).fee
      BY FeeWithinRate
    <3>3. /\ fees' = fees + g /\ released' = released + amount
          /\ UNCHANGED <<refunded, submissions>>
      BY <2>5, <3>1, <3>2 DEF ReleaseMilestone
    <3>4. (fees + g) * BPS_DENOMINATOR <= FEE_BPS * ((released + refunded) + amount)
      BY <1>0, <3>2, FeeWithinRate, RateKept DEF FeeInv
    <3>5. released' + refunded' = (released + refunded) + amount
      BY <1>0, <3>3
    <3>6. submissions # 0
      BY <3>0 DEF FeeInv
    <3> QED
      BY <3>3, <3>4, <3>5, <3>6 DEF FeeInv
  <2> QED
    BY <1>4, <2>1, <2>2, <2>3, <2>4, <2>5 DEF AgentStep
<1>5. CASE UNCHANGED vars
  BY <1>5 DEF vars, FeeInv, pending
<1> QED
  BY <1>1, <1>2, <1>3, <1>4, <1>5 DEF Next

(* An intent that exists can be counted, and is counted once.              *)
LEMMA SignedUpFinite == IsFiniteSet(signed_up) /\ Cardinality(signed_up) \in Nat
  BY PartyAssumption, FS_Subset, FS_CardinalityType DEF signed_up

(* Only an account that comes or goes changes how many signed up.          *)
LEMMA StepIntentInv == TypeInv /\ IntentInv /\ [Next]_vars => IntentInv'
<1> SUFFICES ASSUME TypeInv, IntentInv, [Next]_vars PROVE IntentInv'
  OBVIOUS
<1>0. /\ intents \in Nat /\ intent \in [Agents -> IntentAccounts]
      /\ now \in Nat /\ work_deadline \in Nat
      /\ status \in {"Uncreated", "Funding"} => work_deadline = 0
  BY DEF TypeInv, TypeOK, Bookkeeping
<1>1. CASE UNCHANGED <<intent, intents>> /\ Next
  <2>1. signed_up' = signed_up
    BY <1>1 DEF signed_up
  <2>2. LifeGoesOn
    BY <1>1, NextLife DEF TypeInv
  <2>3. now' \in Nat
    BY <1>1, StepTypeInv DEF TypeInv, TypeOK
  <2>4. working' => status = "Funding" \/ working
    BY <1>0, <2>2, <2>3 DEF working, work_closed, LifeGoesOn
  <2> QED
    BY <1>1, <2>1, <2>2, <2>4 DEF IntentInv, LifeGoesOn
<1>2. ASSUME NEW a \in Agents, SignalIntent(a) PROVE IntentInv'
  <2>1. /\ working /\ UNCHANGED <<status, work_deadline, now>>
        /\ intent' = [intent EXCEPT ![a] = "Signalled"]
        /\ intents' = intents + (IF intent[a] = "Empty" THEN 1 ELSE 0)
    BY <1>2 DEF SignalIntent, workable, working, life
  <2>2. signed_up' = signed_up \union {a}
    BY <1>0, <2>1 DEF signed_up
  <2>3. a \in signed_up <=> intent[a] # "Empty"
    BY DEF signed_up
  <2>4. Cardinality(signed_up') =
            Cardinality(signed_up) + (IF intent[a] = "Empty" THEN 1 ELSE 0)
    <3>1. CASE intent[a] = "Empty"
      BY <2>2, <2>3, <3>1, SignedUpFinite, FS_AddElement
    <3>2. CASE intent[a] # "Empty"
      <4>1. signed_up' = signed_up
        BY <2>2, <2>3, <3>2
      <4> QED
        BY <3>2, <4>1, SignedUpFinite
    <3> QED
      BY <3>1, <3>2
  <2>5. status = "Funded"
    BY <2>1 DEF working
  <2> QED
    BY <1>0, <2>1, <2>4, <2>5, SignedUpFinite DEF IntentInv
<1>3. ASSUME NEW a \in Agents, WithdrawIntent(a) PROVE IntentInv'
  <2>1. /\ UNCHANGED <<intents, status, work_deadline, now>>
        /\ intent[a] # "Empty" /\ intent' = [intent EXCEPT ![a] = "Withdrawn"]
    BY <1>3 DEF WithdrawIntent, life
  <2>2. signed_up' = signed_up
    BY <1>0, <2>1 DEF signed_up
  <2> QED
    BY <2>1, <2>2 DEF IntentInv, working, work_closed
<1>4. ASSUME NEW a \in Agents, CloseIntent(a) PROVE IntentInv'
  <2>1. /\ UNCHANGED <<intents, status, work_deadline, now>>
        /\ intent[a] # "Empty" /\ intent' = [intent EXCEPT ![a] = "Empty"]
        /\ intent_over(a)
    BY <1>4 DEF CloseIntent, life
  <2>2. signed_up' = signed_up \ {a} /\ a \in signed_up
    BY <1>0, <2>1 DEF signed_up
  <2>3. Cardinality(signed_up') = Cardinality(signed_up) - 1
    BY <2>2, SignedUpFinite, FS_RemoveElement
  <2>4. ~working' /\ status' \notin {"Uncreated", "Funding"}
    BY <1>0, <2>1 DEF intent_over, working, work_closed
  <2> QED
    BY <1>0, <2>1, <2>3, <2>4, SignedUpFinite DEF IntentInv
<1>5. CASE UNCHANGED vars
  BY <1>5 DEF vars, life, board, IntentInv, signed_up, working, work_closed
<1>6. ASSUME Next PROVE \/ UNCHANGED <<intent, intents>>
                        \/ \E a \in Agents :
                              SignalIntent(a) \/ WithdrawIntent(a) \/ CloseIntent(a)
  <2> USE DEF board
  <2>1. CASE Tick \/ InitConfig \/ CloseVault \/ Donate \/ \E p \in BOOLEAN : SetPaused(p)
    BY <2>1 DEF Tick, InitConfig, CloseVault, Donate, SetPaused
  <2>2. CASE \/ \E o \in Offers : CreateCommission(o)
             \/ \E k \in Agents \union {Creator} : InviteAgent(k)
             \/ \E byCreator \in BOOLEAN : Cancel(byCreator)
    BY <2>2 DEF CreateCommission, may_create, InviteAgent, Cancel
  <2>3. ASSUME NEW b \in Backers, BackerStep(b) PROVE UNCHANGED <<intent, intents>>
    BY <2>3 DEF BackerStep, Pledge, Refund, ClosePledge, may_close_pledge
  <2>4. ASSUME NEW a \in Agents, NEW i \in Milestones, LineStep(i, a)
        PROVE  UNCHANGED <<intent, intents>>
    BY <2>4 DEF LineStep, SubmitDelivery, may_submit, RejectDelivery, CloseSubmission,
       may_close_submission, ReleaseMilestone
  <2> QED
    BY <1>6, <2>1, <2>2, <2>3, <2>4 DEF Next, AgentStep, LineStep
<1> QED
  BY <1>1, <1>2, <1>3, <1>4, <1>5, <1>6

\* The clocks, the fees and the sign-ups add up in every state.
LEMMA LedgerAlways == Spec => [](TypeInv /\ MoneyInv /\ ClockInv /\ FeeInv /\ IntentInv)
<1>1. Init => TypeInv /\ ClockInv /\ FeeInv /\ IntentInv
  BY InitTypeInv, InitLedger
<1>2. /\ TypeInv /\ ClockInv /\ FeeInv /\ IntentInv
      /\ [Next]_vars
      => (TypeInv /\ ClockInv /\ FeeInv /\ IntentInv)'
  BY StepTypeInv, StepClockInv, StepFeeInv, StepIntentInv
<1>3. Spec => [](TypeInv /\ ClockInv /\ FeeInv /\ IntentInv)
  BY <1>1, <1>2, PTL DEF Spec
<1> QED
  BY <1>3, MoneyAlways, PTL

-----------------------------------------------------------------------------
(* However late the goal was met and however deliveries kept renewing the  *)
(* protection, the four windows end it: each backer then gets out at once, *)
(* and no deposit is out of its owner's reach.                             *)
THEOREM HoldIsBounded == Spec => []WorstCaseHold
<1>1. TypeInv /\ MoneyInv /\ ClockInv /\ IntentInv => WorstCaseHold
  <2> SUFFICES ASSUME TypeInv, MoneyInv, ClockInv, IntentInv, status # "Uncreated",
                      now >= terms.deadline + terms.work_window
                                + terms.review_window + CLAIM_GRACE_WINDOW
               PROVE
        /\ \A b \in live_pledges :
              \/ may_refund(b) /\ vault_lamports >= refund_amount(b)
              \/ may_close_pledge(b)
        /\ \A i \in Milestones, a \in Agents :
              submission[i][a].state # "Empty" => may_close_submission(i, a)
        /\ \A a \in Agents : intent[a] # "Empty" => intent_over(a)
        /\ vault_owned /\ live_pledges = {} => vault_settled \/ may_cancel(FALSE)
    BY DEF WorstCaseHold
  <2>1. /\ now \in Nat /\ terms.deadline \in Nat /\ terms.work_window \in Nat
        /\ terms.review_window \in Nat /\ CLAIM_GRACE_WINDOW \in Nat
        /\ work_deadline \in Nat /\ latest_submitted_at \in Nat
        /\ vault_lamports \in Nat /\ VAULT_RENT \in Nat
        /\ pledger_count \in Nat /\ refunded_pledger_count \in Nat
        /\ status \in {"Funding", "Funded", "Delivered", "Cancelled"}
    BY WindowAssumption, LimitAssumption DEF TypeInv, TypeOK
  <2>2. /\ latest_submitted_at <= terms.deadline + terms.work_window
        /\ work_deadline <= terms.deadline + terms.work_window
    BY <2>1 DEF ClockInv
  <2>3. ~claim_protected /\ now >= terms.deadline /\ now >= work_deadline
    BY <2>1, <2>2 DEF claim_protected
  <2>4. ASSUME NEW b \in live_pledges
        PROVE  \/ may_refund(b) /\ vault_lamports >= refund_amount(b)
               \/ may_close_pledge(b)
    <3>1. CASE status = "Delivered"
      BY <3>1 DEF MoneyInv, may_close_pledge, live_pledges
    <3>2. CASE status # "Delivered"
      <4>1. vault_owned /\ refundable /\ b \in Backers /\ pledges[b] # 0
        BY <2>1, <2>3, <3>2 DEF MoneyInv, refundable, live_pledges
      <4>2. refund_amount(b) \in Nat /\ refund_amount(b) <= escrow_remaining
        BY <4>1, RefundType
      <4>3. escrow_remaining \in Int
        BY DEF TypeInv, TypeOK, escrow_remaining
      <4>4. vault_lamports >= refund_amount(b)
        BY <2>1, <4>1, <4>2, <4>3 DEF MoneyInv
      <4> QED
        BY <2>3, <4>1, <4>4 DEF may_refund
    <3> QED
      BY <3>1, <3>2
  <2>5. work_deadline > 0 => work_closed
    BY <2>1, <2>3 DEF work_closed
  <2>6. ASSUME NEW i \in Milestones, NEW a \in Agents, submission[i][a].state # "Empty"
        PROVE  may_close_submission(i, a)
    <3>1. CASE submission[i][a].state # "Pending"
      BY <2>6, <3>1 DEF may_close_submission, submission_settled
    <3>2. CASE submission[i][a].state = "Pending"
      <4>1. work_deadline > 0
        BY <2>6, <3>2 DEF ClockInv
      <4> QED
        BY <2>3, <2>5, <2>6, <4>1 DEF may_close_submission, submission_settled
    <3> QED
      BY <3>1, <3>2
  <2>7. ASSUME NEW a \in Agents, intent[a] # "Empty" PROVE intent_over(a)
    <3>1. status # "Funding"
      BY <2>7 DEF IntentInv, signed_up
    <3> QED
      BY <2>1, <2>5, <3>1 DEF ClockInv, intent_over
  <2>8. ASSUME vault_owned, live_pledges = {} PROVE vault_settled \/ may_cancel(FALSE)
    <3>1. escrow_remaining = 0 /\ refunded_pledger_count = pledger_count
      BY <2>1, <2>8, FS_EmptySet DEF MoneyInv
    <3>2. now >= cancel_expiry
      BY <2>1, <2>3 DEF cancel_expiry
    <3> QED
      BY <2>1, <2>3, <3>1, <3>2 DEF vault_settled, may_cancel
  <2> QED
    BY <2>4, <2>6, <2>7, <2>8
<1> QED
  BY <1>1, LedgerAlways, PTL

(* However payments and refunds interleave, the treasury is paid at most   *)
(* one per cent of what left, and nothing when nobody delivered.           *)
THEOREM FeesAreBounded == Spec => []FeeOncePerLamport
<1>1. FeeInv => FeeOncePerLamport
  BY DEF FeeInv, FeeOncePerLamport
<1> QED
  BY <1>1, LedgerAlways, PTL

(* While work can be done, no sequence of withdrawals and closes takes a   *)
(* wallet off the record of those who said they would do it.               *)
THEOREM IntentsAreKept == Spec => []IntentRecordKept
<1>1. IntentInv => IntentRecordKept
  BY DEF IntentInv, IntentRecordKept, signed_up, working
<1> QED
  BY <1>1, LedgerAlways, PTL

-----------------------------------------------------------------------------
(* The sums.                                                               *)

\* The pledges still standing bound what is left for them.  A refund leaves less
\* than one lamport of its share behind, and a release shrinks what is left by
\* at least as much as it shrinks the shares of those still waiting.
ShareInv ==
    /\ SumFunction(pledges) <= total_pledged
    /\ untouched => SumFunction(pledges) = total_pledged
    /\ total_pledged * escrow_remaining
          <= (total_pledged - released) * SumFunction(pledges)
             + total_pledged * refunded_pledger_count

\* The slices of the milestones paid so far, in basis points.
slices_paid == SumFunctionOnSet(terms.milestone_bps, milestones_done)

\* Until the last milestone sweeps, what was released is within the slices paid.
ScheduleInv ==
    /\ status # "Uncreated" =>
          /\ terms.goal >= BPS_DENOMINATOR
          /\ SumFunction(terms.milestone_bps) = BPS_DENOMINATOR
          /\ \A i \in 1 .. milestone_count : terms.milestone_bps[i] # 0
    /\ status \in {"Uncreated", "Funding"} => milestones_done = {}
    /\ status = "Funded" \/ submissions # 0 => total_pledged >= BPS_DENOMINATOR
    /\ milestones_done \subseteq 1 .. milestone_count
    /\ milestones_done # 1 .. milestone_count =>
          BPS_DENOMINATOR * released <= total_pledged * slices_paid

(* Five instructions touch the sums; the others leave them all alone.      *)
SumsStay ==
    UNCHANGED <<total_pledged, released, refunded, refunded_pledger_count, pledges,
                milestones_done, paid>>
\* Only a backer's step and a release move what the sums are about.
LEMMA NextSums ==
    ASSUME Next
    PROVE  \/ SumsStay
           \/ \E b \in Backers : BackerStep(b)
           \/ \E i \in Milestones, a \in Agents, c \in BOOLEAN : ReleaseMilestone(i, a, c)
<1> USE DEF SumsStay, life, money
<1>1. CASE Tick \/ InitConfig \/ CloseVault \/ Donate \/ \E p \in BOOLEAN : SetPaused(p)
  BY <1>1 DEF Tick, InitConfig, CloseVault, Donate, SetPaused
<1>2. CASE \/ \E o \in Offers : CreateCommission(o)
           \/ \E k \in Agents \union {Creator} : InviteAgent(k)
           \/ \E byCreator \in BOOLEAN : Cancel(byCreator)
  BY <1>2 DEF CreateCommission, may_create, InviteAgent, Cancel
<1>3. ASSUME NEW a \in Agents, SignalIntent(a) \/ WithdrawIntent(a) \/ CloseIntent(a)
      PROVE  SumsStay
  BY <1>3 DEF SignalIntent, WithdrawIntent, CloseIntent
<1>4. ASSUME NEW a \in Agents, NEW i \in Milestones,
             SubmitDelivery(i, a) \/ RejectDelivery(i, a) \/ CloseSubmission(i, a)
      PROVE  SumsStay
  BY <1>4 DEF SubmitDelivery, may_submit, RejectDelivery, CloseSubmission,
     may_close_submission
<1> QED
  BY <1>1, <1>2, <1>3, <1>4 DEF Next, AgentStep

(* What each of the payouts does to the sums.                              *)
LEMMA ReleaseSums ==
    ASSUME TypeInv, NEW i \in Milestones, NEW a \in Agents, NEW c \in BOOLEAN,
           ReleaseMilestone(i, a, c)
    PROVE  \E gross \in Nat, fee \in Nat, net \in Nat :
              /\ gross = gross_of(i) /\ gross <= escrow_remaining /\ fee + net = gross
              /\ released' = released + gross
              /\ earned' = [earned EXCEPT ![a] = @ + net] /\ fees' = fees + fee
              /\ milestones_done' = milestones_done \union {i}
              /\ UNCHANGED <<terms, total_pledged, refunded, refunded_pledger_count,
                             pledges, returned>>
<1>1. at_front(i, a)
  BY DEF ReleaseMilestone, may_release
<1>2. PICK gross \in Nat : gross = gross_of(i) /\ gross <= escrow_remaining
  BY <1>1, GrossType DEF ReleaseMilestone, may_release
<1>3. PICK fee \in Nat, net \in Nat :
          fee = split_fee(gross).fee /\ net = split_fee(gross).net /\ fee + net = gross
  BY SplitFee
<1> QED
  BY <1>2, <1>3 DEF ReleaseMilestone

\* What a refund moves, each figure by itself.
LEMMA RefundSums ==
    ASSUME TypeInv, NEW b \in Backers, Refund(b)
    PROVE  \E amount \in Nat, fee \in Nat, net \in Nat :
              /\ amount = refund_amount(b) /\ amount <= escrow_remaining
              /\ fee + net = amount /\ refunded' = refunded + amount
              /\ returned' = [returned EXCEPT ![b] = @ + net] /\ fees' = fees + fee
              /\ pledges' = [pledges EXCEPT ![b] = 0]
              /\ refunded_pledger_count' = refunded_pledger_count + 1
              /\ UNCHANGED <<terms, life, total_pledged, released, submission, earned>>
<1>1. pledges[b] # 0
  BY DEF Refund, may_refund
<1>2. PICK amount \in Nat : amount = refund_amount(b) /\ amount <= escrow_remaining
  BY <1>1, RefundType
<1>3. PICK fee \in Nat, net \in Nat : /\ fee = refund_split(amount).fee
                                      /\ net = refund_split(amount).net
                                      /\ fee + net = amount
  BY RefundSplit
<1> QED
  BY <1>2, <1>3 DEF Refund, queue

\* Before the first pledge every sum is nothing.
LEMMA InitSums == Init => Conservation /\ ShareInv /\ ScheduleInv
<1> SUFFICES ASSUME Init PROVE Conservation /\ ShareInv /\ ScheduleInv
  OBVIOUS
<1>1. /\ SumFunction(earned) = 0 /\ SumFunction(returned) = 0
      /\ SumFunction(pledges) = 0
  BY PartyAssumption, SumOfZeros DEF Init, SumFunction
<1>2. milestones_done = {} /\ SumFunctionOnSet(terms.milestone_bps, {}) = 0
  BY SumEmpty DEF Init
<1> QED
  BY <1>1, <1>2, FeeAssumption
  DEF Init, Conservation, ShareInv, ScheduleInv, untouched,
      escrow_remaining, slices_paid

(* The fee and the net of each payout add up to it.                        *)
LEMMA StepConservation == TypeInv /\ TypeInv' /\ Conservation /\ [Next]_vars => Conservation'
<1> SUFFICES ASSUME TypeInv, TypeInv', Conservation, [Next]_vars PROVE Conservation'
  OBVIOUS
<1> USE DEF Conservation
<1>0. /\ earned \in [Agents -> Nat] /\ returned \in [Backers -> Nat] /\ fees \in Nat
      /\ earned' \in [Agents -> Nat] /\ returned' \in [Backers -> Nat]
      /\ released \in Nat /\ refunded \in Nat
  BY DEF TypeInv, TypeOK
<1>6. IsFiniteSet(Agents) /\ IsFiniteSet(Backers)
  BY PartyAssumption
<1>1. SumFunction(earned) \in Nat /\ SumFunction(returned) \in Nat
  BY <1>0, <1>6, SumOfNaturals
<1>2. CASE UNCHANGED <<released, refunded, paid>>
  BY <1>2 DEF paid
<1>3. ASSUME NEW i \in Milestones, NEW a \in Agents, NEW c \in BOOLEAN,
             ReleaseMilestone(i, a, c)
      PROVE  Conservation'
  <2>1. PICK gross \in Nat, fee \in Nat, net \in Nat :
            /\ fee + net = gross /\ released' = released + gross
            /\ earned' = [earned EXCEPT ![a] = @ + net] /\ fees' = fees + fee
            /\ UNCHANGED <<refunded, returned>>
    BY <1>3, ReleaseSums
  <2>2. SumFunction(earned') = SumFunction(earned) + net
    <3>1. PICK f \in [Agents -> Int], h \in [Agents -> Int] : f = earned /\ h = earned'
      BY <1>0
    <3>2. h[a] = f[a] + net /\ \A y \in Agents \ {a} : h[y] = f[y]
      BY <1>0, <2>1, <3>1
    <3>3. SumFunction(h) = SumFunction(f) - f[a] + h[a]
      BY <1>6, <3>2, SumOneChanged
    <3>4. f[a] \in Nat
      BY <1>0, <3>1
    <3> QED
      BY <1>1, <3>1, <3>2, <3>3, <3>4
  <2>3. SumFunction(returned') = SumFunction(returned)
    BY <2>1
  <2> QED
    BY <1>0, <1>1, <2>1, <2>2, <2>3
<1>4. ASSUME NEW b \in Backers, Refund(b) PROVE Conservation'
  <2>1. PICK amount \in Nat, fee \in Nat, net \in Nat :
            /\ fee + net = amount /\ refunded' = refunded + amount
            /\ returned' = [returned EXCEPT ![b] = @ + net] /\ fees' = fees + fee
            /\ UNCHANGED <<released, earned>>
    BY <1>4, RefundSums
  <2>2. SumFunction(returned') = SumFunction(returned) + net
    <3>1. PICK f \in [Backers -> Int], h \in [Backers -> Int] : f = returned /\ h = returned'
      BY <1>0
    <3>2. h[b] = f[b] + net /\ \A y \in Backers \ {b} : h[y] = f[y]
      BY <1>0, <2>1, <3>1
    <3>3. SumFunction(h) = SumFunction(f) - f[b] + h[b]
      BY <1>6, <3>2, SumOneChanged
    <3>4. f[b] \in Nat
      BY <1>0, <3>1
    <3> QED
      BY <1>1, <3>1, <3>2, <3>3, <3>4
  <2>3. SumFunction(earned') = SumFunction(earned)
    BY <2>1
  <2> QED
    BY <1>0, <1>1, <2>1, <2>2, <2>3
<1>5. ASSUME NEW b \in Backers, BackerStep(b)
      PROVE  Refund(b) \/ UNCHANGED <<released, refunded, paid>>
  BY <1>5 DEF BackerStep, Pledge, ClosePledge, may_close_pledge
<1> QED
  BY <1>2, <1>3, <1>4, <1>5, NextSums DEF SumsStay, vars, money

-----------------------------------------------------------------------------
(* The arithmetic of a share: t pledged, r released, e left, p the pledges *)
(* standing, c the refunds so far.                                         *)
LEMMA RefundShare ==
    ASSUME NEW t \in Nat \ {0}, NEW r \in Nat, r <= t, NEW e \in Nat, NEW p \in Nat,
           NEW q \in Nat, q <= p, NEW c \in Nat, t * e <= (t - r) * p + t * c,
           NEW amount \in Nat, amount = e \/ amount = mul_div(t - r, q, t)
    PROVE  t * (e - amount) <= (t - r) * (p - q) + t * (c + 1)
<1>0. PICK s \in Nat : s = t - r
  OBVIOUS
<1>1. /\ s * p \in Nat /\ s * q \in Nat /\ t * c \in Nat /\ t * e \in Nat
      /\ t * amount \in Nat /\ s * (p - q) \in Nat /\ t * (c + 1) \in Nat
  OBVIOUS
<1>2. /\ s * (p - q) = s * p - s * q /\ t * (c + 1) = t * c + t
      /\ t * (e - amount) = t * e - t * amount
  OBVIOUS
<1>3. CASE amount = e
  BY <1>0, <1>1, <1>3
<1>4. CASE amount = mul_div(t - r, q, t)
  <2>1. s * q < t * amount + t
    <3>1. PICK x \in Nat : x = s * q
      BY <1>1
    <3>2. amount = x \div t
      BY <1>0, <1>4, <3>1 DEF mul_div
    <3> QED
      BY <3>1, <3>2, DivBounds
  <2> QED
    BY <1>0, <1>1, <1>2, <2>1
<1> QED
  BY <1>3, <1>4

\* Paying g out of the vault keeps a backer's share within what is left of it.
LEMMA ReleaseShare ==
    ASSUME NEW t \in Nat, NEW r \in Nat, NEW e \in Nat, NEW p \in Nat, p <= t,
           NEW c \in Nat, t * e <= (t - r) * p + t * c, NEW g \in Nat
    PROVE  t * (e - g) <= (t - (r + g)) * p + t * c
<1>1. /\ t * p \in Nat /\ r * p \in Nat /\ g * p \in Nat /\ t * c \in Nat
      /\ t * e \in Nat /\ t * g \in Nat
  OBVIOUS
<1>2. g * p <= g * t
  OBVIOUS
<1>3. /\ t * (e - g) = t * e - t * g /\ (t - r) * p = t * p - r * p
      /\ (t - (r + g)) * p = t * p - r * p - g * p /\ g * t = t * g
  OBVIOUS
<1> QED
  BY <1>1, <1>2, <1>3

\* What is left covers the share that is asked for last.
LEMMA LastShare ==
    ASSUME NEW t \in Nat \ {0}, NEW r \in Nat, NEW e \in Nat, NEW q \in Nat,
           NEW c \in Nat, t * e <= (t - r) * q + t * c
    PROVE  e <= q + c
<1>1. (t - r) * q <= t * q
  <2>1. t * q \in Nat /\ r * q \in Nat /\ (t - r) * q = t * q - r * q
    OBVIOUS
  <2> QED
    BY <2>1
<1>2. t * (q + c) = t * q + t * c /\ t * q \in Nat /\ t * c \in Nat /\ (t - r) * q \in Int
  OBVIOUS
<1>3. t * e <= t * (q + c)
  BY <1>1, <1>2
<1>4. ASSUME e > q + c PROVE FALSE
  <2>1. PICK d \in Nat \ {0} : e = q + c + d
    <3>1. e - (q + c) \in Nat \ {0} /\ e = q + c + (e - (q + c))
      BY <1>4
    <3> QED
      BY <3>1
  <2>2. t * e = t * (q + c) + t * d /\ t * d > 0 /\ t * (q + c) \in Nat /\ t * d \in Nat
    BY <2>1
  <2> QED
    BY <1>3, <2>2
<1> QED
  BY <1>4

(* A refund closes one pledge, a pledge grows one, a release none.         *)
LEMMA StepShareInv == TypeInv /\ TypeInv' /\ MoneyInv /\ ShareInv /\ [Next]_vars => ShareInv'
<1> SUFFICES ASSUME TypeInv, TypeInv', MoneyInv, ShareInv, [Next]_vars PROVE ShareInv'
  OBVIOUS
<1> DEFINE standing == SumFunction(pledges)
<1>0. /\ pledges \in [Backers -> Nat] /\ pledges' \in [Backers -> Nat]
      /\ IsFiniteSet(Backers)
      /\ total_pledged \in Nat /\ released \in Nat /\ refunded \in Nat
      /\ refunded_pledger_count \in Nat /\ escrow_remaining \in Nat
      /\ escrow_remaining = total_pledged - released - refunded
  <2>1. IsFiniteSet(Backers)
    BY PartyAssumption
  <2>2. pledges \in [Backers -> Nat] /\ pledges' \in [Backers -> Nat]
    BY DEF TypeInv, TypeOK
  <2>3. /\ total_pledged \in Nat /\ released \in Nat /\ refunded \in Nat
        /\ refunded_pledger_count \in Nat /\ released + refunded <= total_pledged
    BY DEF TypeInv, TypeOK, Bookkeeping
  <2> QED
    BY <2>1, <2>2, <2>3 DEF escrow_remaining
<1>1. standing \in Nat /\ \A b \in Backers : pledges[b] <= standing
  BY <1>0, SumOfNaturals
<1>2. ASSUME NEW b \in Backers, \A c \in Backers \ {b} : pledges'[c] = pledges[c]
      PROVE  standing' = standing - pledges[b] + pledges'[b]
  <2>1. PICK f \in [Backers -> Int], h \in [Backers -> Int] : f = pledges /\ h = pledges'
    BY <1>0
  <2>2. SumFunction(h) = SumFunction(f) - f[b] + h[b]
    BY <1>0, <1>2, <2>1, SumOneChanged
  <2> QED
    BY <2>1, <2>2
<1>3. /\ standing <= total_pledged
      /\ untouched => standing = total_pledged
      /\ total_pledged * escrow_remaining
            <= (total_pledged - released) * standing + total_pledged * refunded_pledger_count
  BY DEF ShareInv
<1>4. CASE UNCHANGED <<total_pledged, released, refunded, refunded_pledger_count, pledges>>
  BY <1>4 DEF ShareInv, untouched, escrow_remaining
<1>5. ASSUME NEW b \in Backers, NEW amount \in PledgeAmounts, Pledge(b, amount)
      PROVE  ShareInv'
  <2>1. amount \in Nat /\ untouched
    BY <1>5, PartyAssumption DEF Pledge, may_pledge, MoneyInv
  <2>2. /\ pledges' = [pledges EXCEPT ![b] = @ + amount]
        /\ total_pledged' = total_pledged + amount
        /\ UNCHANGED <<released, refunded, refunded_pledger_count>>
    BY <1>5 DEF Pledge
  <2>3. pledges'[b] = pledges[b] + amount /\ \A c \in Backers \ {b} : pledges'[c] = pledges[c]
    BY <1>0, <2>2
  <2>4. standing' = standing + amount
    <3>1. pledges[b] \in Nat
      BY <1>0
    <3> HIDE DEF standing
    <3> QED
      BY <1>1, <1>2, <2>1, <2>3, <3>1
  <2>5. standing' = total_pledged'
    BY <1>3, <2>1, <2>2, <2>4
  <2>6. escrow_remaining' = total_pledged' /\ total_pledged' \in Nat /\ released' = 0
    BY <1>0, <2>1, <2>2 DEF untouched, escrow_remaining
  <2>7. total_pledged' * escrow_remaining'
            <= (total_pledged' - released') * standing' + total_pledged' * refunded_pledger_count'
    <3>1. refunded_pledger_count' = 0
      BY <2>1, <2>2 DEF untouched
    <3>2. PICK t \in Nat : t = total_pledged'
      BY <2>6
    <3>3. t * t <= (t - 0) * t + t * 0
      OBVIOUS
    <3> QED
      BY <2>5, <2>6, <3>1, <3>2, <3>3
  <2> QED
    BY <2>5, <2>6, <2>7 DEF ShareInv
<1>6. ASSUME NEW i \in Milestones, NEW a \in Agents, NEW c \in BOOLEAN,
             ReleaseMilestone(i, a, c)
      PROVE  ShareInv'
  <2>1. PICK gross \in Nat :
            /\ gross = gross_of(i) /\ gross <= escrow_remaining /\ released' = released + gross
            /\ UNCHANGED <<total_pledged, refunded, refunded_pledger_count, pledges>>
    BY <1>6, ReleaseSums
  <2>2. gross # 0
    BY <1>6, <2>1 DEF ReleaseMilestone, may_release
  <2>3. escrow_remaining' = escrow_remaining - gross /\ ~untouched'
    BY <1>0, <2>1, <2>2 DEF escrow_remaining, untouched
  <2>4. standing' = standing
    BY <2>1
  <2> HIDE DEF standing
  <2>5. total_pledged * (escrow_remaining - gross)
            <= (total_pledged - (released + gross)) * standing
               + total_pledged * refunded_pledger_count
    BY <1>0, <1>1, <1>3, <2>1, ReleaseShare
  <2> QED
    BY <1>3, <2>1, <2>3, <2>4, <2>5 DEF ShareInv, standing
<1>7. ASSUME NEW b \in Backers, Refund(b) \/ ClosePledge(b) PROVE ShareInv'
  <2>0. /\ pledges[b] # 0 /\ pledges' = [pledges EXCEPT ![b] = 0]
        /\ refunded_pledger_count' = refunded_pledger_count + 1
        /\ UNCHANGED <<total_pledged, released>>
    BY <1>7 DEF Refund, ClosePledge, may_close_pledge, may_refund
  <2>1. pledges'[b] = 0 /\ \A c \in Backers \ {b} : pledges'[c] = pledges[c]
    BY <1>0, <2>0
  <2>2. pledges[b] \in Nat \ {0}
    BY <1>0, <2>0
  <2>3. standing' = standing - pledges[b] /\ standing' <= total_pledged'
    <3> HIDE DEF standing
    <3> QED
      BY <1>0, <1>1, <1>2, <1>3, <2>0, <2>1, <2>2
  <2>4. total_pledged \in Nat \ {0}
    <3> HIDE DEF standing
    <3> QED
      BY <1>0, <1>1, <1>3, <2>2
  <2>5. PICK amount \in Nat :
            /\ amount = escrow_remaining
               \/ amount = mul_div(total_pledged - released, pledges[b], total_pledged)
            /\ escrow_remaining' = escrow_remaining - amount
    <3>1. CASE Refund(b)
      <4>1. PICK amount \in Nat : amount = refund_amount(b) /\ refunded' = refunded + amount
        BY <3>1, RefundSums
      <4>2. amount = escrow_remaining
            \/ amount = mul_div(total_pledged - released, pledges[b], total_pledged)
        BY <4>1 DEF refund_amount, clamped, entitled
      <4> QED
        BY <1>0, <2>0, <4>1, <4>2 DEF escrow_remaining
    <3>2. CASE ClosePledge(b)
      BY <1>0, <2>0, <3>2 DEF ClosePledge, may_close_pledge, escrow_remaining
    <3> QED
      BY <1>7, <3>1, <3>2
  <2>6. ~untouched'
    BY <1>0, <2>0 DEF untouched
  <2>7. released <= total_pledged
    BY <1>0
  <2> HIDE DEF standing
  <2>8. total_pledged * (escrow_remaining - amount)
            <= (total_pledged - released) * (standing - pledges[b])
               + total_pledged * (refunded_pledger_count + 1)
    BY <1>0, <1>1, <1>3, <2>2, <2>4, <2>5, <2>7, RefundShare
  <2> QED
    BY <2>0, <2>3, <2>5, <2>6, <2>8 DEF ShareInv, standing
<1>8. SumsStay \/ UNCHANGED vars
      => UNCHANGED <<total_pledged, released, refunded, refunded_pledger_count, pledges>>
  BY DEF SumsStay, vars, money
<1> QED
  BY <1>4, <1>5, <1>6, <1>7, <1>8, NextSums DEF BackerStep

(* The slices of a schedule sum to at most the whole, and paying one more  *)
(* milestone adds its slice.                                               *)
Schedule == 1 .. milestone_count
\* One more slice of the schedule adds its own part, and never more than the whole.
LEMMA SlicesSum ==
    ASSUME TypeOK, NEW done \in SUBSET Schedule, NEW i \in Schedule, i \notin done
    PROVE  /\ SumFunctionOnSet(terms.milestone_bps, done) \in Nat
           /\ SumFunctionOnSet(terms.milestone_bps, done \union {i})
                 = terms.milestone_bps[i] + SumFunctionOnSet(terms.milestone_bps, done)
           /\ SumFunctionOnSet(terms.milestone_bps, done \union {i})
                 <= SumFunction(terms.milestone_bps)
<1> DEFINE bps == terms.milestone_bps
<1>1. bps \in Seq(Nat) /\ DOMAIN bps = Schedule /\ milestone_count \in Nat
  BY DEF TypeOK, Schedule, milestone_count
<1>2. \A k \in Schedule : bps[k] \in Nat
  BY <1>1
<1>3. IsFiniteSet(Schedule) /\ IsFiniteSet(done \union {i}) /\ done \union {i} \in SUBSET Schedule
  <2>1. IsFiniteSet(1 .. milestone_count)
    BY <1>1, FS_Interval
  <2>2. IsFiniteSet(Schedule) /\ done \union {i} \in SUBSET Schedule
    BY <2>1 DEF Schedule
  <2> QED
    BY <2>2, FS_Subset
<1> HIDE DEF bps
<1>4. SumFunctionOnSet(bps, done) \in Nat
  BY <1>2, <1>3, SumMonotone
<1>5. SumFunctionOnSet(bps, done \union {i}) <= SumFunctionOnSet(bps, Schedule)
  BY <1>2, <1>3, SumMonotone
<1>6. SumFunctionOnSet(bps, done \union {i}) = bps[i] + SumFunctionOnSet(bps, (done \union {i}) \ {i})
  <2>1. \A k \in done \union {i} : bps[k] \in Int
    BY <1>2
  <2> QED
    BY <1>3, <2>1, SumTerm
<1>7. (done \union {i}) \ {i} = done
  OBVIOUS
<1>8. SumFunction(bps) = SumFunctionOnSet(bps, Schedule)
  BY <1>1 DEF SumFunction
<1> QED
  BY <1>4, <1>5, <1>6, <1>7, <1>8 DEF bps

(* A slice, floored, is within the slice: d the whole, b one slice of it.  *)
LEMMA SliceWithin ==
    ASSUME NEW d \in Nat \ {0}, NEW t \in Nat, NEW b \in Nat, NEW s \in Nat, NEW r \in Nat,
           d * r <= t * s
    PROVE  /\ mul_div(t, b, d) \in Nat
           /\ d * (r + mul_div(t, b, d)) <= t * (b + s)
<1>1. PICK x \in Nat : x = t * b
  OBVIOUS
<1>2. PICK g \in Nat : g = x \div d /\ d * g <= x
  BY DivBounds
<1>3. mul_div(t, b, d) = g
  BY <1>1, <1>2 DEF mul_div
<1>4. d * (r + g) = d * r + d * g /\ t * (b + s) = t * b + t * s
  OBVIOUS
<1>5. d * r \in Nat /\ d * g \in Nat /\ t * b \in Nat /\ t * s \in Nat
  OBVIOUS
<1> QED
  BY <1>1, <1>2, <1>3, <1>4, <1>5

(* Terms are set once; slices are paid one at a time, and the last sweeps. *)
LEMMA StepScheduleInv == TypeInv /\ TypeInv' /\ MoneyInv /\ ScheduleInv /\ [Next]_vars => ScheduleInv'
<1> SUFFICES ASSUME TypeInv, TypeInv', MoneyInv, ScheduleInv, [Next]_vars PROVE ScheduleInv'
  OBVIOUS
<1>0. /\ total_pledged \in Nat /\ released \in Nat /\ submissions \in Nat
      /\ BPS_DENOMINATOR \in Nat \ {0}
  BY FeeAssumption DEF TypeInv, TypeOK
<1> DEFINE quiet == /\ UNCHANGED <<terms, milestones_done, total_pledged, released, submissions>>
                    /\ status' = status \/ (status # "Uncreated" /\ status' = "Cancelled")
<1>1. ASSUME quiet PROVE ScheduleInv'
  BY <1>1 DEF ScheduleInv, slices_paid, milestone_count
<1> USE DEF life, money, queue
<1>2. CASE Tick \/ InitConfig \/ CloseVault \/ Donate \/ \E p \in BOOLEAN : SetPaused(p)
  BY <1>1, <1>2 DEF Tick, InitConfig, CloseVault, Donate, SetPaused
<1>3. CASE \/ \E k \in Agents \union {Creator} : InviteAgent(k)
           \/ \E c \in BOOLEAN : Cancel(c)
  <2>1. quiet
    BY <1>3 DEF InviteAgent, Cancel, may_cancel
  <2> QED
    BY <1>1, <2>1
<1>4. ASSUME NEW a \in Agents, SignalIntent(a) \/ WithdrawIntent(a) \/ CloseIntent(a)
      PROVE  ScheduleInv'
  BY <1>1, <1>4 DEF SignalIntent, WithdrawIntent, CloseIntent
<1>5. ASSUME NEW a \in Agents, NEW i \in Milestones, RejectDelivery(i, a) \/ CloseSubmission(i, a)
      PROVE  ScheduleInv'
  BY <1>1, <1>5 DEF RejectDelivery, CloseSubmission, may_close_submission
<1>6. ASSUME NEW b \in Backers, Refund(b) \/ ClosePledge(b) PROVE ScheduleInv'
  BY <1>1, <1>6 DEF Refund, ClosePledge, may_close_pledge
<1>7. ASSUME NEW o \in Offers, CreateCommission(o) PROVE ScheduleInv'
  <2>1. /\ status = "Uncreated" /\ status' = "Funding" /\ offer_accepted(o)
        /\ UNCHANGED <<milestones_done, total_pledged, released, submissions>>
    BY <1>7 DEF CreateCommission, may_create
  <2>2. o \in [ goal : Nat, milestone_bps : Seq(Nat), deadline : Int,
                work_window : Int, review_window : Int ]
    BY PartyAssumption
  <2>3. terms'.goal = o.goal /\ terms'.milestone_bps = o.milestone_bps
    BY <1>7, <2>2 DEF CreateCommission, may_create
  <2>4. milestones_done = {} /\ released = 0 /\ total_pledged = 0
    BY <2>1 DEF ScheduleInv, MoneyInv, untouched
  <2>5. slices_paid' = 0
    BY <2>1, <2>4, SumEmpty DEF slices_paid
  <2>6. /\ o.goal >= BPS_DENOMINATOR /\ SumFunction(o.milestone_bps) = BPS_DENOMINATOR
        /\ \A i \in DOMAIN o.milestone_bps : o.milestone_bps[i] # 0
        /\ DOMAIN o.milestone_bps = 1 .. Len(o.milestone_bps)
    BY <2>1, <2>2 DEF offer_accepted
  <2>7. submissions' # 0 => total_pledged' >= BPS_DENOMINATOR
    BY <2>1 DEF ScheduleInv
  <2> QED
    BY <1>0, <2>1, <2>3, <2>4, <2>5, <2>6, <2>7 DEF ScheduleInv, milestone_count
<1>8. ASSUME NEW b \in Backers, NEW amount \in PledgeAmounts, Pledge(b, amount)
      PROVE  ScheduleInv'
  <2>1. amount \in Nat /\ untouched /\ status = "Funding"
    BY <1>8, PartyAssumption DEF Pledge, may_pledge, MoneyInv
  <2>2. /\ total_pledged' = total_pledged + amount
        /\ status' \in {"Funding", "Funded"}
        /\ status' = "Funded" => total_pledged' >= terms.goal
        /\ UNCHANGED <<terms, milestones_done, released, submissions>>
    BY <1>8, <2>1 DEF Pledge
  <2>3. milestones_done = {} /\ released = 0
    BY <2>1 DEF ScheduleInv, untouched
  <2>4. slices_paid' = 0
    BY <2>2, <2>3, SumEmpty DEF slices_paid
  <2>5. terms.goal \in Nat
    BY DEF TypeInv, TypeOK
  <2>6. status' = "Funded" \/ submissions' # 0 => total_pledged' >= BPS_DENOMINATOR
    BY <1>0, <2>1, <2>2, <2>5 DEF ScheduleInv
  <2>7. BPS_DENOMINATOR * released' <= total_pledged' * slices_paid'
    BY <1>0, <2>1, <2>2, <2>3, <2>4
  <2> QED
    BY <2>1, <2>2, <2>3, <2>6, <2>7 DEF ScheduleInv, milestone_count
<1>9. ASSUME NEW i \in Milestones, NEW a \in Agents, SubmitDelivery(i, a)
      PROVE  ScheduleInv'
  <2>1. /\ status = "Funded"
        /\ UNCHANGED <<terms, status, milestones_done, total_pledged, released>>
    BY <1>9 DEF SubmitDelivery, may_submit, workable
  <2> QED
    BY <2>1 DEF ScheduleInv, milestone_count, slices_paid
<1>10. ASSUME NEW i \in Milestones, NEW a \in Agents, NEW c \in BOOLEAN,
              ReleaseMilestone(i, a, c)
       PROVE  ScheduleInv'
  <2>1. at_front(i, a) /\ i \notin milestones_done
    BY <1>10 DEF ReleaseMilestone, may_release, milestone_released
  <2>2. i \in Schedule /\ status \notin {"Uncreated", "Funding"}
    BY <2>1 DEF TypeInv, Bookkeeping, at_front, Schedule, Milestones
  <2>3. PICK gross \in Nat :
            /\ gross = gross_of(i) /\ released' = released + gross
            /\ milestones_done' = milestones_done \union {i}
            /\ UNCHANGED <<terms, total_pledged>>
    BY <1>10, ReleaseSums
  <2>4. status' \in {status, "Delivered"} /\ submissions' = submissions
    BY <1>10 DEF ReleaseMilestone
  <2>5. Schedule' = Schedule /\ milestones_done \in SUBSET Schedule
    BY <2>3 DEF Schedule, milestone_count, ScheduleInv
  <2>6. ASSUME milestones_done' # Schedule
        PROVE  BPS_DENOMINATOR * released' <= total_pledged' * slices_paid'
    <3>1. milestones_done # Schedule
      BY <2>2, <2>3, <2>6
    <3>2. gross = mul_div(total_pledged, terms.milestone_bps[i], BPS_DENOMINATOR)
      BY <2>3, <2>6 DEF gross_of, completes_schedule, Schedule
    <3>3. /\ slices_paid \in Nat
          /\ SumFunctionOnSet(terms.milestone_bps, milestones_done \union {i})
                = terms.milestone_bps[i] + slices_paid
      BY <2>1, <2>2, <2>5, SlicesSum DEF slices_paid, TypeInv
    <3>4. slices_paid' = terms.milestone_bps[i] + slices_paid
      BY <2>3, <3>3 DEF slices_paid
    <3>5. terms.milestone_bps[i] \in Nat
      <4>1. terms.milestone_bps \in Seq(Nat)
        BY DEF TypeInv, TypeOK
      <4> QED
        BY <2>2, <4>1 DEF Schedule, milestone_count
    <3>6. BPS_DENOMINATOR * released <= total_pledged * slices_paid
      BY <3>1 DEF ScheduleInv, Schedule
    <3>7. BPS_DENOMINATOR * (released + gross)
             <= total_pledged * (terms.milestone_bps[i] + slices_paid)
      BY <1>0, <3>2, <3>3, <3>5, <3>6, SliceWithin
    <3> QED
      BY <2>3, <3>4, <3>7
  <2> QED
    BY <2>2, <2>3, <2>4, <2>5, <2>6 DEF ScheduleInv, Schedule, milestone_count
<1>11. CASE UNCHANGED vars
  BY <1>1, <1>11 DEF vars
<1> QED
  BY <1>2, <1>3, <1>4, <1>5, <1>6, <1>7, <1>8, <1>9, <1>10, <1>11
  DEF Next, AgentStep, BackerStep

-----------------------------------------------------------------------------
SumsInv == Conservation /\ ShareInv /\ ScheduleInv
\* The three sums hold in every state.
LEMMA SumsAlways == Spec => [](TypeInv /\ MoneyInv /\ FeeInv /\ SumsInv)
<1>1. Init => TypeInv /\ MoneyInv /\ SumsInv
  BY InitTypeInv, InitMoneyInv, InitSums DEF SumsInv
<1>2. /\ TypeInv /\ MoneyInv /\ SumsInv
      /\ [Next]_vars
      => (TypeInv /\ MoneyInv /\ SumsInv)'
  BY StepTypeInv, StepMoneyInv, StepConservation, StepShareInv, StepScheduleInv DEF SumsInv
<1>3. Spec => [](TypeInv /\ MoneyInv /\ SumsInv)
  BY <1>1, <1>2, PTL DEF Spec
<1> QED
  BY <1>3, LedgerAlways, PTL

(* However many payouts of whatever size, and however their fees round,    *)
(* what left the escrow is what the parties got.                           *)
THEOREM NothingLostInFees == Spec => []Conservation
<1>1. SumsInv => Conservation
  BY DEF SumsInv
<1> QED
  BY <1>1, SumsAlways, PTL

(* The last backer sweeps what is left, and however releases and refunds   *)
(* interleaved before, that is at most its pledge and a lamport for each   *)
(* refund before it; any other refund is at most its pledge.               *)
THEOREM RefundsWithinDust == Spec => RefundWithinDust
<1>1. TypeInv /\ MoneyInv /\ ShareInv /\ [Next]_vars =>
        [ \A b \in Backers :
            pledges[b] # 0 /\ pledges'[b] = 0 =>
              refunded' - refunded <= pledges[b] + pledger_count - 1 ]_vars
  <2> SUFFICES ASSUME TypeInv, MoneyInv, ShareInv, Next,
                      NEW b \in Backers, pledges[b] # 0, pledges'[b] = 0
               PROVE  refunded' - refunded <= pledges[b] + pledger_count - 1
    BY DEF vars
  <2>0. /\ pledges \in [Backers -> Nat] /\ pledges[b] \in Nat
        /\ total_pledged \in Nat /\ released \in Nat /\ refunded \in Nat
        /\ refunded_pledger_count \in Nat /\ pledger_count \in Nat
        /\ released + refunded <= total_pledged /\ pledges[b] <= total_pledged
    BY DEF TypeInv, TypeOK, Bookkeeping
  <2>1. pledger_count - 1 \in Nat /\ refunded_pledger_count + Cardinality(live_pledges) = pledger_count
    <3>1. b \in live_pledges
      BY DEF live_pledges
    <3>2. Cardinality(live_pledges) \in Nat /\ Cardinality(live_pledges) # 0
      BY <3>1, LivePledgesFinite, FS_EmptySet
    <3> QED
      BY <2>0, <3>2 DEF MoneyInv
  <2>2. CASE UNCHANGED refunded
    BY <2>0, <2>1, <2>2
  <2>3. ASSUME NEW c \in Backers, Refund(c)
        PROVE  refunded' - refunded <= pledges[b] + pledger_count - 1
    <3>1. PICK amount \in Nat :
              /\ amount = refund_amount(c) /\ amount <= escrow_remaining
              /\ refunded' = refunded + amount /\ pledges' = [pledges EXCEPT ![c] = 0]
      BY <2>3, RefundSums
    <3>2. c = b
      BY <2>0, <3>1
    <3>3. CASE refunded_pledger_count + 1 # pledger_count
      <4>1. total_pledged - released \in Nat /\ total_pledged \in Nat \ {0}
        BY <2>0
      <4>2. amount <= entitled(b)
        <5>1. entitled(b) \in Nat
          BY <2>0, <4>1, ScaledDown DEF entitled
        <5> QED
          BY <3>1, <3>2, <3>3, <5>1 DEF refund_amount, clamped
      <4>3. entitled(b) <= pledges[b] /\ entitled(b) \in Nat
        <5>1. (total_pledged - released) * pledges[b] = pledges[b] * (total_pledged - released)
          BY <2>0
        <5>2. /\ mul_div(pledges[b], total_pledged - released, total_pledged) \in Nat
              /\ mul_div(pledges[b], total_pledged - released, total_pledged) <= pledges[b]
          BY <2>0, <4>1, ScaledDown
        <5> QED
          BY <5>1, <5>2 DEF entitled, mul_div
      <4> QED
        BY <2>0, <2>1, <3>1, <4>2, <4>3
    <3>4. CASE refunded_pledger_count + 1 = pledger_count
      <4>1. Cardinality(live_pledges) = 1 /\ IsFiniteSet(live_pledges)
        BY <2>0, <2>1, <3>4, LivePledgesFinite
      <4>2. live_pledges = {b}
        <5>1. b \in live_pledges
          BY DEF live_pledges
        <5>2. PICK x : live_pledges = {x}
          BY <4>1, FS_Singleton
        <5> QED
          BY <5>1, <5>2
      <4>3. SumFunction(pledges) = pledges[b]
        <5>1. \A d \in Backers \ {b} : pledges[d] = 0
          BY <4>2 DEF live_pledges
        <5>2. IsFiniteSet(Backers) /\ IsFiniteSet(Backers \ {b})
          BY PartyAssumption, FS_RemoveElement
        <5>3. SumFunctionOnSet(pledges, Backers \ {b}) = 0
          BY <5>1, <5>2, SumOfZeros
        <5>4. SumFunctionOnSet(pledges, Backers)
                  = pledges[b] + SumFunctionOnSet(pledges, Backers \ {b})
          BY <2>0, <5>2, SumTerm
        <5>5. SumFunction(pledges) = SumFunctionOnSet(pledges, Backers)
          BY <2>0 DEF SumFunction
        <5> QED
          BY <2>0, <5>3, <5>4, <5>5
      <4>4. /\ total_pledged * escrow_remaining
                 <= (total_pledged - released) * pledges[b]
                    + total_pledged * refunded_pledger_count
            /\ escrow_remaining \in Nat /\ total_pledged \in Nat \ {0}
        BY <2>0, <4>3 DEF ShareInv, escrow_remaining
      <4>5. escrow_remaining <= pledges[b] + refunded_pledger_count
        BY <2>0, <4>4, LastShare
      <4> QED
        BY <2>0, <3>1, <3>4, <4>4, <4>5
    <3> QED
      BY <3>3, <3>4
  <2>4. ASSUME NEW c \in Backers, BackerStep(c) PROVE Refund(c) \/ UNCHANGED refunded
    BY <2>4 DEF BackerStep, Pledge, ClosePledge, may_close_pledge
  <2>5. ASSUME NEW i \in Milestones, NEW a \in Agents, NEW c \in BOOLEAN, ReleaseMilestone(i, a, c)
        PROVE  UNCHANGED refunded
    BY <2>5 DEF ReleaseMilestone
  <2> QED
    BY <2>2, <2>3, <2>4, <2>5, NextSums DEF SumsStay
<1> QED
  BY <1>1, SumsAlways, PTL DEF Spec, SumsInv, RefundWithinDust

(* While no refund was taken, the floors of the slices paid before leave   *)
(* the slice of any milestone whose front is not yet paid.                 *)
LEMMA SliceIsLeft ==
    ASSUME TypeInv, FeeInv, ScheduleInv, NEW i \in Milestones, NEW a \in Agents,
           at_front(i, a), i \notin milestones_done, refunded = 0
    PROVE  \E slice \in Nat :
              /\ slice = mul_div(total_pledged, terms.milestone_bps[i], BPS_DENOMINATOR)
              /\ slice # 0 /\ slice <= escrow_remaining
<1>1. i \in Schedule /\ milestones_done \in SUBSET Schedule /\ status # "Uncreated"
  BY DEF TypeInv, Bookkeeping, at_front, Schedule, Milestones, ScheduleInv
<1>2. submissions # 0
  <2>1. <<i, a>> \in pending
    BY DEF at_front, pending
  <2> QED
    BY <2>1 DEF FeeInv
<1>3. /\ total_pledged \in Nat /\ total_pledged >= BPS_DENOMINATOR
      /\ released \in Nat /\ BPS_DENOMINATOR \in Nat \ {0}
  BY <1>2, FeeAssumption DEF TypeInv, TypeOK, ScheduleInv
<1>4. PICK b \in Nat, s \in Nat :
          /\ b = terms.milestone_bps[i] /\ s = slices_paid
          /\ b # 0 /\ b + s <= BPS_DENOMINATOR
  <2>1. terms.milestone_bps \in Seq(Nat)
    BY DEF TypeInv, TypeOK
  <2>2. terms.milestone_bps[i] \in Nat
    BY <1>1, <2>1 DEF Schedule, milestone_count
  <2>3. terms.milestone_bps[i] # 0 /\ SumFunction(terms.milestone_bps) = BPS_DENOMINATOR
    BY <1>1 DEF ScheduleInv, Schedule
  <2>4. slices_paid \in Nat /\ terms.milestone_bps[i] + slices_paid <= BPS_DENOMINATOR
    BY <1>1, <2>3, SlicesSum DEF slices_paid, TypeInv
  <2> QED
    BY <2>2, <2>3, <2>4
<1>5. BPS_DENOMINATOR * released <= total_pledged * s
  BY <1>1, <1>4 DEF ScheduleInv, Schedule
<1>6. PICK slice \in Nat :
          /\ slice = mul_div(total_pledged, b, BPS_DENOMINATOR)
          /\ BPS_DENOMINATOR * (released + slice) <= total_pledged * (b + s)
  BY <1>3, <1>4, <1>5, SliceWithin
<1>7. released + slice <= total_pledged
  <2>1. total_pledged * (b + s) <= total_pledged * BPS_DENOMINATOR
    BY <1>3, <1>4
  <2>2. BPS_DENOMINATOR * (released + slice) <= BPS_DENOMINATOR * total_pledged
    <3>1. total_pledged * (b + s) \in Nat /\ BPS_DENOMINATOR * (released + slice) \in Nat
      BY <1>3, <1>4, <1>6
    <3> QED
      BY <1>3, <1>6, <2>1, <3>1
  <2> QED
    BY <1>3, <1>6, <2>2
<1>8. slice # 0
  <2>1. PICK x \in Nat : x = total_pledged * b
    BY <1>3, <1>4
  <2>2. x >= BPS_DENOMINATOR
    BY <1>3, <1>4, <2>1
  <2>3. slice = x \div BPS_DENOMINATOR
    BY <1>6, <2>1 DEF mul_div
  <2> QED
    BY <1>3, <2>2, <2>3, DivBounds
<1>9. escrow_remaining = total_pledged - released
  BY <1>3 DEF escrow_remaining
<1> QED
  BY <1>3, <1>4, <1>6, <1>7, <1>8, <1>9

(* While no refund was taken there is money for every milestone that can   *)
(* still be claimed, the floors of the slices paid before notwithstanding. *)
THEOREM SilencePays == Spec => []EarnedClaimPayable
<1>1. TypeInv /\ MoneyInv /\ FeeInv /\ ScheduleInv => EarnedClaimPayable
  <2> SUFFICES ASSUME TypeInv, MoneyInv, FeeInv, ScheduleInv,
                      NEW i \in Milestones, NEW a \in Agents,
                      matured_claim(i, a), refunded = 0
               PROVE  may_release(i, a, FALSE) /\ vault_lamports >= gross_of(i)
    BY DEF EarnedClaimPayable
  <2>1. at_front(i, a) /\ i \notin milestones_done /\ review_expired(submission[i][a])
    BY DEF matured_claim, milestone_released
  <2>2. PICK slice \in Nat :
            /\ slice = mul_div(total_pledged, terms.milestone_bps[i], BPS_DENOMINATOR)
            /\ slice # 0 /\ slice <= escrow_remaining
    BY <2>1, SliceIsLeft
  <2>3. VAULT_RENT \in Nat /\ vault_lamports \in Nat /\ escrow_remaining \in Int
    BY LimitAssumption DEF TypeInv, TypeOK, escrow_remaining
  <2>4. gross_of(i) # 0 /\ gross_of(i) <= escrow_remaining /\ escrow_remaining # 0
    BY <2>2, <2>3 DEF gross_of
  <2>5. vault_owned /\ vault_lamports >= VAULT_RENT + escrow_remaining
    BY <2>4 DEF MoneyInv
  <2>6. vault_lamports >= gross_of(i)
    <3>1. gross_of(i) \in Nat
      BY <2>1, GrossType
    <3> QED
      BY <2>3, <2>4, <2>5, <3>1
  <2> QED
    BY <2>1, <2>4, <2>5, <2>6 DEF may_release, milestone_released
<1> QED
  BY <1>1, SumsAlways, PTL DEF SumsInv
=============================================================================
