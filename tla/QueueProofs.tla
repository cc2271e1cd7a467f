---------------------------- MODULE QueueProofs ----------------------------
(***************************************************************************)
(* Why the line of deliveries is kept, for any number of agents and        *)
(* milestones and any windows, by two counters a milestone.                *)
(*                                                                         *)
(* The argument: a delivery takes the place at the end, and only the place *)
(* at the counter of rejections is judged, so the places that wait lie     *)
(* between the two counters, in the order of their clocks.  A place in the *)
(* middle is given up only once the exits are open, and exits that have    *)
(* opened while the work is closed do not close again.                     *)
(***************************************************************************)
EXTENDS EscrowProofs, SequenceTheorems

waits(i, a) == submission[i][a].state = "Pending"
place(i, a) == submission[i][a].sequence
since(i, a) == submission[i][a].submitted_at

\* The milestone may still be judged, or has nothing to judge yet.
judgeable(i) ==
    /\ status \in {"Uncreated", "Funding", "Funded"}
    /\ ~milestone_released(i)
    /\ work_closed => claim_protected

InLine ==
    \A i \in Milestones, a \in Agents :
        waits(i, a) => /\ milestone_rejected[i] <= place(i, a)
                       /\ place(i, a) < milestone_submitted[i]
                       /\ since(i, a) <= latest_submitted_at

InOrder ==
    \A i \in Milestones, a, b \in Agents :
        waits(i, a) /\ waits(i, b) =>
            /\ place(i, a) = place(i, b) => a = b
            /\ place(i, a) <= place(i, b) => since(i, a) <= since(i, b)

NoGaps ==
    \A i \in Milestones : judgeable(i) =>
        \A k \in milestone_rejected[i] .. milestone_submitted[i] - 1 :
            \E a \in Agents : waits(i, a) /\ place(i, a) = k

QueueInv ==
    /\ latest_submitted_at <= now
    /\ \A i \in Milestones : milestone_rejected[i] <= milestone_submitted[i]
    /\ InLine /\ InOrder /\ NoGaps
    /\ status = "Cancelled" => ~claim_protected
    /\ unresolved_submissions = Cardinality(pending)

-----------------------------------------------------------------------------
(* What a step can do to the line and to the clocks it is judged by.       *)

\* Nothing about deliveries changes, and no clock runs back.
LineStays ==
    /\ UNCHANGED <<queue, milestones_done>>
    /\ now <= now'

\* The four instructions that touch the line.
LineStep(i, a) ==
    \/ SubmitDelivery(i, a) \/ RejectDelivery(i, a) \/ CloseSubmission(i, a)
    \/ \E byCreator \in BOOLEAN : ReleaseMilestone(i, a, byCreator)

(* No other instruction does.                                              *)
LEMMA NextLine ==
    ASSUME TypeOK, Next
    PROVE  LineStays \/ \E i \in Milestones, a \in Agents : LineStep(i, a)
<1>0. now \in Nat
  BY DEF TypeOK
<1>1. CASE Tick \/ InitConfig \/ CloseVault \/ Donate \/ \E p \in BOOLEAN : SetPaused(p)
  BY <1>0, <1>1 DEF LineStays, life, Tick, InitConfig, CloseVault, Donate, SetPaused
<1>4. ASSUME NEW o \in Offers, CreateCommission(o) PROVE LineStays
  BY <1>0, <1>4 DEF LineStays, CreateCommission, may_create
<1>5. CASE \/ \E k \in Agents \union {Creator} : InviteAgent(k)
           \/ \E byCreator \in BOOLEAN : Cancel(byCreator)
  BY <1>0, <1>5 DEF LineStays, life, InviteAgent, Cancel
<1>2. ASSUME NEW b \in Backers, BackerStep(b) PROVE LineStays
  BY <1>0, <1>2 DEF LineStays, life, BackerStep, Pledge, Refund, ClosePledge,
     may_close_pledge
<1>3. ASSUME NEW a \in Agents, AgentStep(a)
      PROVE  LineStays \/ \E i \in Milestones : LineStep(i, a)
  <2>1. CASE SignalIntent(a) \/ WithdrawIntent(a) \/ CloseIntent(a)
    BY <1>0, <2>1 DEF LineStays, life, SignalIntent, WithdrawIntent, CloseIntent
  <2>2. CASE \E i \in Milestones : LineStep(i, a)
    BY <2>2
  <2> QED
    BY <1>3, <2>1, <2>2 DEF AgentStep, LineStep
<1> QED
  BY <1>1, <1>2, <1>3, <1>4, <1>5 DEF Next

\* How the life of a commission goes on.
LifeGoesOn ==
    /\ now <= now'
    /\ status' \in {status, "Funding", "Funded", "Delivered", "Cancelled"}
    /\ status' = "Funding" => status \in {"Uncreated", "Funding"}
    /\ status' = "Funded" => status \in {"Funding", "Funded"}
    /\ status' = "Uncreated" => status = "Uncreated"
    /\ status' = "Cancelled" /\ status # "Cancelled" => ~claim_protected'
    /\ status \notin {"Uncreated", "Funding"} =>
           UNCHANGED <<terms, work_deadline>> /\ status' \notin {"Uncreated", "Funding"}
    /\ status' \in {"Uncreated", "Funding"} => work_deadline' = work_deadline

(* A commission is funded before work starts, and ends once.               *)
LEMMA NextLife == ASSUME TypeOK, Next PROVE LifeGoesOn
<1> USE DEF life, LifeGoesOn
<1>0. now \in Nat /\ status \in {"Uncreated", "Funding", "Funded", "Delivered", "Cancelled"}
  BY DEF TypeOK
<1>1. CASE Tick \/ InitConfig \/ CloseVault \/ Donate \/ \E p \in BOOLEAN : SetPaused(p)
  BY <1>0, <1>1 DEF Tick, InitConfig, CloseVault, Donate, SetPaused
<1>2. ASSUME NEW o \in Offers, CreateCommission(o) PROVE LifeGoesOn
  BY <1>0, <1>2 DEF CreateCommission, may_create
<1>3. ASSUME NEW k \in Agents \union {Creator}, InviteAgent(k) PROVE LifeGoesOn
  BY <1>0, <1>3 DEF InviteAgent
<1>4. ASSUME NEW byCreator \in BOOLEAN, Cancel(byCreator) PROVE LifeGoesOn
  BY <1>0, <1>4 DEF Cancel, may_cancel, queue, claim_protected
<1>5. ASSUME NEW b \in Backers, BackerStep(b) PROVE LifeGoesOn
  <2>1. CASE \E amount \in PledgeAmounts : Pledge(b, amount)
    BY <1>0, <2>1 DEF Pledge, may_pledge
  <2>2. CASE Refund(b) \/ ClosePledge(b)
    BY <1>0, <2>2 DEF Refund, ClosePledge, may_close_pledge
  <2> QED
    BY <1>5, <2>1, <2>2 DEF BackerStep
<1>6. ASSUME NEW a \in Agents, SignalIntent(a) \/ WithdrawIntent(a) \/ CloseIntent(a)
      PROVE  LifeGoesOn
  BY <1>0, <1>6 DEF SignalIntent, WithdrawIntent, CloseIntent
<1>7. ASSUME NEW i \in Milestones, NEW a \in Agents,
             SubmitDelivery(i, a) \/ RejectDelivery(i, a) \/ CloseSubmission(i, a)
      PROVE  LifeGoesOn
  BY <1>0, <1>7 DEF SubmitDelivery, may_submit, RejectDelivery, CloseSubmission,
     may_close_submission
<1>8. ASSUME NEW i \in Milestones, NEW a \in Agents, NEW byCreator \in BOOLEAN,
             ReleaseMilestone(i, a, byCreator)
      PROVE  LifeGoesOn
  BY <1>0, <1>8 DEF ReleaseMilestone
<1> QED
  BY <1>1, <1>2, <1>3, <1>4, <1>5, <1>6, <1>7, <1>8 DEF Next, AgentStep
-----------------------------------------------------------------------------
(* What ages.                                                              *)

\* No delivery is added to those the clock of protection runs for.
NothingAdded ==
    /\ latest_submitted_at' = latest_submitted_at
    /\ unresolved_submissions' <= unresolved_submissions

(* Protection that has ended does not begin again without a delivery.      *)
LEMMA ProtectionFades ==
    ASSUME TypeOK, TypeOK', LifeGoesOn, NothingAdded,
           status \notin {"Uncreated", "Funding"}, claim_protected'
    PROVE  claim_protected
<1>1. /\ now \in Nat /\ now' \in Nat /\ latest_submitted_at \in Nat
      /\ unresolved_submissions \in Nat /\ unresolved_submissions' \in Nat
      /\ terms.review_window \in Nat /\ CLAIM_GRACE_WINDOW \in Nat
  BY WindowAssumption DEF TypeOK
<1>2. terms' = terms /\ now <= now'
  BY DEF LifeGoesOn
<1>3. /\ unresolved_submissions' > 0
      /\ now' < latest_submitted_at + terms.review_window + CLAIM_GRACE_WINDOW
  BY <1>2 DEF claim_protected, NothingAdded
<1> QED
  BY <1>1, <1>2, <1>3 DEF claim_protected, NothingAdded

(* So a milestone that cannot be judged cannot be judged later.            *)
LEMMA JudgingEnds ==
    ASSUME TypeInv, TypeOK', LifeGoesOn, NothingAdded,
           milestones_done \subseteq milestones_done',
           NEW i \in Milestones, judgeable(i)'
    PROVE  judgeable(i)
<1>1. /\ now \in Nat /\ now' \in Nat /\ work_deadline \in Nat
      /\ status \in {"Uncreated", "Funding", "Funded", "Delivered", "Cancelled"}
  BY DEF TypeInv, TypeOK
<1>2. ~milestone_released(i) /\ status' \in {"Uncreated", "Funding", "Funded"}
  BY DEF judgeable, milestone_released
<1>3. status \in {"Uncreated", "Funding", "Funded"}
  BY <1>1, <1>2 DEF LifeGoesOn
<1>4. CASE status \in {"Uncreated", "Funding"}
  <2>1. ~work_closed
    BY <1>1, <1>4 DEF TypeInv, Bookkeeping, work_closed
  <2> QED
    BY <1>2, <1>3, <2>1 DEF judgeable
<1>5. CASE status = "Funded"
  <2>1. work_closed => work_closed'
    BY <1>1, <1>5 DEF LifeGoesOn, work_closed
  <2>2. claim_protected' => claim_protected
    BY <1>5, ProtectionFades DEF TypeInv
  <2>3. work_closed' => claim_protected'
    BY DEF judgeable
  <2> QED
    BY <1>2, <1>3, <2>1, <2>2, <2>3 DEF judgeable
<1> QED
  BY <1>3, <1>4, <1>5

(* A cancelled commission has nothing to wait for.                         *)
LEMMA CancelledStays ==
    ASSUME TypeOK, TypeOK', LifeGoesOn, NothingAdded,
           status = "Cancelled" => ~claim_protected,
           status' = "Cancelled"
    PROVE  ~claim_protected'
<1>1. CASE status = "Cancelled"
  BY <1>1, ProtectionFades
<1>2. CASE status # "Cancelled"
  BY <1>2 DEF LifeGoesOn
<1> QED
  BY <1>1, <1>2

-----------------------------------------------------------------------------
(* The deliveries that wait can be counted.                                *)

\* There are finitely many milestones and agents, so the waiting can be counted.
LEMMA PendingFinite == IsFiniteSet(pending) /\ Cardinality(pending) \in Nat
<1>1. IsFiniteSet(Milestones)
  BY FS_Interval, LimitAssumption DEF Milestones
<1>2. IsFiniteSet(Milestones \X Agents)
  BY <1>1, FS_Product, PartyAssumption
<1>3. pending \subseteq Milestones \X Agents
  BY DEF pending
<1> QED
  BY <1>2, <1>3, FS_Subset, FS_CardinalityType

(* One more, one less.                                                     *)
LEMMA PendingGrown ==
    ASSUME NEW i \in Milestones, NEW a \in Agents, ~waits(i, a), waits(i, a)',
           \A j \in Milestones, b \in Agents :
              (j # i \/ b # a) => submission'[j][b].state = submission[j][b].state
    PROVE  Cardinality(pending') = Cardinality(pending) + 1
<1>1. pending' = pending \union {<<i, a>>} /\ <<i, a>> \notin pending
  BY DEF pending, waits
<1> QED
  BY <1>1, PendingFinite, FS_AddElement

\* One that is judged leaves one fewer waiting.
LEMMA PendingShrunk ==
    ASSUME NEW i \in Milestones, NEW a \in Agents, waits(i, a), ~waits(i, a)',
           \A j \in Milestones, b \in Agents :
              (j # i \/ b # a) => submission'[j][b].state = submission[j][b].state
    PROVE  /\ Cardinality(pending') = Cardinality(pending) - 1
           /\ Cardinality(pending) > 0
<1>1. pending' = pending \ {<<i, a>>} /\ <<i, a>> \in pending
  BY DEF pending, waits
<1>2. Cardinality(pending) # 0
  BY <1>1, PendingFinite, FS_EmptySet
<1>3. Cardinality(pending') = Cardinality(pending) - 1
  BY <1>1, PendingFinite, FS_RemoveElement
<1>4. Cardinality(pending) > 0
  BY <1>2, PendingFinite
<1> QED
  BY <1>3, <1>4

\* Steps that judge and deliver nothing leave the count as it is.
LEMMA PendingSame ==
    ASSUME \A j \in Milestones, b \in Agents :
              submission'[j][b].state = "Pending" <=> submission[j][b].state = "Pending"
    PROVE  Cardinality(pending') = Cardinality(pending)
<1>1. \A p \in Milestones \X Agents : p \in pending' <=> p \in pending
  BY DEF pending
<1>2. pending' \subseteq Milestones \X Agents /\ pending \subseteq Milestones \X Agents
  BY DEF pending
<1>3. pending' = pending
  BY <1>1, <1>2
<1> QED
  BY <1>3

-----------------------------------------------------------------------------
(* The line is kept.                                                       *)

\* There are no queues before the first delivery.
LEMMA InitQueueInv == Init => QueueInv
<1> SUFFICES ASSUME Init PROVE QueueInv
  OBVIOUS
<1>1. \A i \in Milestones, a \in Agents : ~waits(i, a)
  BY DEF Init, waits, NoSubmission
<1>2. pending = {}
  BY <1>1 DEF pending, waits
<1>3. Cardinality(pending) = 0
  BY <1>2, FS_EmptySet
<1>4. InLine /\ InOrder
  BY <1>1 DEF InLine, InOrder
<1>5. \A i \in Milestones : milestone_rejected[i] = 0 /\ milestone_submitted[i] = 0
  BY DEF Init
<1>6. NoGaps
  BY <1>5 DEF NoGaps
<1> QED
  BY <1>3, <1>4, <1>5, <1>6 DEF Init, QueueInv

(* A step that leaves the deliveries alone.                                *)
LEMMA QuietQueueInv ==
    ASSUME TypeInv, TypeOK', QueueInv, LifeGoesOn, LineStays
    PROVE  QueueInv'
<1>1. /\ milestone_submitted' = milestone_submitted
      /\ milestone_rejected' = milestone_rejected
      /\ submission' = submission /\ latest_submitted_at' = latest_submitted_at
      /\ unresolved_submissions' = unresolved_submissions
      /\ milestones_done' = milestones_done /\ now <= now'
  BY DEF LineStays, queue
<1>2. /\ latest_submitted_at \in Nat /\ now \in Nat /\ now' \in Nat
      /\ unresolved_submissions \in Nat
  BY DEF TypeInv, TypeOK
<1>3. NothingAdded
  BY <1>1, <1>2 DEF NothingAdded
<1>4. latest_submitted_at' <= now'
  BY <1>1, <1>2 DEF QueueInv
<1>5. InLine' /\ InOrder'
  BY <1>1 DEF QueueInv, InLine, InOrder, waits, place, since
<1>6. NoGaps'
  <2> SUFFICES ASSUME NEW i \in Milestones, judgeable(i)',
                      NEW k \in milestone_rejected[i] .. milestone_submitted[i] - 1
               PROVE  \E a \in Agents : submission[i][a].state = "Pending"
                                        /\ submission[i][a].sequence = k
    BY <1>1 DEF NoGaps, waits, place
  <2>1. judgeable(i)
    BY <1>1, <1>3, JudgingEnds
  <2> QED
    BY <2>1 DEF QueueInv, NoGaps, waits, place
<1>7. status' = "Cancelled" => ~claim_protected'
  BY <1>3, CancelledStays DEF QueueInv, TypeInv
<1>8. unresolved_submissions' = Cardinality(pending')
  BY <1>1, PendingSame DEF QueueInv
<1> QED
  BY <1>1, <1>4, <1>5, <1>6, <1>7, <1>8 DEF QueueInv

\* What SubmitDelivery puts into the account.
Delivered(i, a) ==
    [ state |-> "Pending", sequence |-> milestone_submitted[i], submitted_at |-> now ]

(* A delivery takes the last place, with the newest clock.                 *)
LEMMA SubmitQueueInv ==
    ASSUME TypeInv, TypeOK', QueueInv, NEW i \in Milestones, NEW a \in Agents,
           SubmitDelivery(i, a)
    PROVE  QueueInv'
<1>typed. /\ submission \in [Milestones -> [Agents -> SubmissionAccounts]]
          /\ milestone_submitted \in [Milestones -> Nat]
          /\ milestone_rejected \in [Milestones -> Nat]
          /\ latest_submitted_at \in Nat /\ now \in Nat
          /\ unresolved_submissions \in Nat
  BY DEF TypeInv, TypeOK
<1>0. /\ status = "Funded" /\ ~work_closed /\ ~milestone_released(i)
      /\ UNCHANGED <<now, terms, status, work_deadline, milestones_done,
                     milestone_rejected>>
      /\ latest_submitted_at' = now
      /\ unresolved_submissions' = unresolved_submissions + 1
      /\ ~waits(i, a)
  BY DEF SubmitDelivery, may_submit, workable, life, waits
<1>1. submission' = [submission EXCEPT ![i] = [@ EXCEPT ![a] = Delivered(i, a)]]
  BY DEF SubmitDelivery, may_submit, Delivered
<1>2. /\ submission'[i][a] = Delivered(i, a)
      /\ \A j \in Milestones, b \in Agents :
            (j # i \/ b # a) => submission'[j][b] = submission[j][b]
  BY <1>1, <1>typed
<1>3. /\ waits(i, a)' /\ place(i, a)' = milestone_submitted[i] /\ since(i, a)' = now
      /\ \A j \in Milestones, b \in Agents : (j # i \/ b # a) =>
            /\ waits(j, b)' <=> waits(j, b)
            /\ place(j, b)' = place(j, b) /\ since(j, b)' = since(j, b)
  BY <1>2 DEF Delivered, waits, place, since
<1>4. /\ milestone_submitted'[i] = milestone_submitted[i] + 1
      /\ \A j \in Milestones : j # i => milestone_submitted'[j] = milestone_submitted[j]
  BY <1>typed DEF SubmitDelivery, may_submit
<1>5. \A j \in Milestones, b \in Agents :
          place(j, b) \in Nat /\ since(j, b) \in Nat
  BY <1>typed DEF place, since, SubmissionAccounts
<1>6. \A j \in Milestones : /\ milestone_rejected[j] \in Nat /\ milestone_submitted[j] \in Nat
                            /\ milestone_rejected[j] <= milestone_submitted[j]
  BY <1>typed DEF QueueInv
<1>7. latest_submitted_at <= now
  BY DEF QueueInv
<1>8. \A j \in Milestones : milestone_rejected'[j] <= milestone_submitted'[j]
  BY <1>0, <1>4, <1>6
<1>9. InLine'
  <2> SUFFICES ASSUME NEW j \in Milestones, NEW b \in Agents, waits(j, b)'
               PROVE  /\ milestone_rejected'[j] <= place(j, b)'
                      /\ place(j, b)' < milestone_submitted'[j]
                      /\ since(j, b)' <= now
    BY <1>0 DEF InLine
  <2>1. CASE j = i /\ b = a
    BY <2>1, <1>0, <1>3, <1>4, <1>6, <1>typed
  <2>2. CASE j # i \/ b # a
    <3>1. /\ milestone_rejected[j] <= place(j, b) /\ place(j, b) < milestone_submitted[j]
          /\ since(j, b) <= latest_submitted_at
      BY <2>2, <1>3 DEF QueueInv, InLine
    <3> QED
      BY <2>2, <3>1, <1>0, <1>3, <1>4, <1>5, <1>6, <1>7, <1>typed
  <2> QED
    BY <2>1, <2>2
<1>10. InOrder'
  <2> SUFFICES ASSUME NEW j \in Milestones, NEW b \in Agents, NEW c \in Agents,
                      waits(j, b)', waits(j, c)'
               PROVE  /\ place(j, b)' = place(j, c)' => b = c
                      /\ place(j, b)' <= place(j, c)' => since(j, b)' <= since(j, c)'
    BY DEF InOrder
  <2>1. CASE (j # i \/ b # a) /\ (j # i \/ c # a)
    BY <2>1, <1>3 DEF QueueInv, InOrder
  <2>2. CASE j = i /\ b = a /\ c = a
    BY <2>2, <1>3, <1>typed
  <2>3. CASE j = i /\ b = a /\ c # a
    <3>1. place(j, c) < milestone_submitted[j]
      BY <2>3, <1>3 DEF QueueInv, InLine
    <3> QED
      BY <2>3, <3>1, <1>3, <1>5, <1>6
  <2>4. CASE j = i /\ b # a /\ c = a
    <3>1. place(j, b) < milestone_submitted[j] /\ since(j, b) <= latest_submitted_at
      BY <2>4, <1>3 DEF QueueInv, InLine
    <3> QED
      BY <2>4, <3>1, <1>3, <1>5, <1>6, <1>7, <1>typed
  <2> QED
    BY <2>1, <2>2, <2>3, <2>4
<1>11. NoGaps'
  <2> SUFFICES ASSUME NEW j \in Milestones, judgeable(j)',
                      NEW k \in milestone_rejected'[j] .. milestone_submitted'[j] - 1
               PROVE  \E b \in Agents : waits(j, b)' /\ place(j, b)' = k
    BY DEF NoGaps
  <2>1. judgeable(j)
    BY <1>0 DEF judgeable, milestone_released
  <2>2. CASE j = i /\ k = milestone_submitted[i]
    BY <2>2, <1>3
  <2>3. CASE ~(j = i /\ k = milestone_submitted[i])
    <3>1. k \in milestone_rejected[j] .. milestone_submitted[j] - 1
      BY <2>3, <1>0, <1>4, <1>6
    <3>2. PICK b \in Agents : waits(j, b) /\ place(j, b) = k
      BY <2>1, <3>1 DEF QueueInv, NoGaps
    <3>3. j # i \/ b # a
      BY <3>2, <1>0
    <3> QED
      BY <3>2, <3>3, <1>3
  <2> QED
    BY <2>2, <2>3
<1>12. unresolved_submissions' = Cardinality(pending')
  <2>1. \A j \in Milestones, b \in Agents :
            (j # i \/ b # a) => submission'[j][b].state = submission[j][b].state
    BY <1>2
  <2>2. Cardinality(pending') = Cardinality(pending) + 1
    BY <2>1, <1>0, <1>3, PendingGrown
  <2> QED
    BY <2>2, <1>0 DEF QueueInv
<1> QED
  BY <1>0, <1>8, <1>9, <1>10, <1>11, <1>12, <1>typed DEF QueueInv

\* The account leaves the line: judged at its front, or given up.
LeavesLine(i, a) ==
    /\ \A j \in Milestones, b \in Agents :
          (j # i \/ b # a) => submission'[j][b] = submission[j][b]
    /\ ~waits(i, a)'
    /\ UNCHANGED <<now, milestone_submitted, latest_submitted_at>>
    /\ milestones_done \subseteq milestones_done'
    /\ unresolved_submissions' = unresolved_without(i, a)
    /\ \A j \in Milestones : j # i => milestone_rejected'[j] = milestone_rejected[j]

\* Judged by a rejection, or out of what can be judged.
MovesOn(i, a) ==
    \/ /\ waits(i, a) /\ place(i, a) = milestone_rejected[i]
       /\ milestone_rejected'[i] = milestone_rejected[i] + 1
    \/ /\ waits(i, a) => ~judgeable(i)'
       /\ milestone_rejected'[i] = milestone_rejected[i]

(* What leaves the line leaves no gap in what can still be judged.         *)
LEMMA LeaveQueueInv ==
    ASSUME TypeInv, TypeOK', QueueInv, LifeGoesOn, NEW i \in Milestones, NEW a \in Agents,
           LeavesLine(i, a), MovesOn(i, a)
    PROVE  QueueInv'
<1>typed. /\ milestone_submitted \in [Milestones -> Nat]
          /\ milestone_rejected \in [Milestones -> Nat]
          /\ submission \in [Milestones -> [Agents -> SubmissionAccounts]]
          /\ unresolved_submissions \in Nat
          /\ latest_submitted_at \in Nat /\ now \in Nat
          /\ milestone_rejected' \in [Milestones -> Nat]
  BY DEF TypeInv, TypeOK
<1>1. \A j \in Milestones, b \in Agents : waits(j, b)' =>
          /\ j # i \/ b # a
          /\ waits(j, b) /\ place(j, b)' = place(j, b) /\ since(j, b)' = since(j, b)
  BY DEF LeavesLine, waits, place, since
<1>2. \A j \in Milestones, b \in Agents : waits(j, b) /\ (j # i \/ b # a) =>
          waits(j, b)' /\ place(j, b)' = place(j, b)
  BY DEF LeavesLine, waits, place
<1>3. \A j \in Milestones, b \in Agents : place(j, b) \in Nat /\ since(j, b) \in Nat
  BY <1>typed DEF place, since, SubmissionAccounts
<1>4. \A j \in Milestones : milestone_rejected[j] \in Nat /\ milestone_submitted[j] \in Nat
  BY <1>typed
<1>5. UNCHANGED <<now, milestone_submitted, latest_submitted_at>>
  BY DEF LeavesLine
<1>6. NothingAdded
  BY <1>5, <1>typed DEF LeavesLine, NothingAdded, unresolved_without, less_one
<1>7. \A j \in Milestones, b \in Agents : waits(j, b)' =>
          /\ milestone_rejected'[j] <= place(j, b)
          /\ place(j, b) < milestone_submitted[j]
          /\ since(j, b) <= latest_submitted_at
  <2> SUFFICES ASSUME NEW j \in Milestones, NEW b \in Agents, waits(j, b)'
               PROVE  /\ milestone_rejected'[j] <= place(j, b)
                      /\ place(j, b) < milestone_submitted[j]
                      /\ since(j, b) <= latest_submitted_at
    OBVIOUS
  <2>1. /\ milestone_rejected[j] <= place(j, b) /\ place(j, b) < milestone_submitted[j]
        /\ since(j, b) <= latest_submitted_at
    BY <1>1 DEF QueueInv, InLine
  <2>2. CASE milestone_rejected'[j] = milestone_rejected[j]
    BY <2>1, <2>2
  <2>3. CASE milestone_rejected'[j] # milestone_rejected[j]
    <3>1. /\ j = i /\ b # a /\ waits(i, a) /\ waits(i, b)
          /\ place(i, a) = milestone_rejected[i]
          /\ milestone_rejected'[i] = milestone_rejected[i] + 1
      BY <2>3, <1>1 DEF LeavesLine, MovesOn
    <3>2. place(i, b) # place(i, a)
      BY <3>1 DEF QueueInv, InOrder
    <3> QED
      BY <2>1, <3>1, <3>2, <1>3, <1>4
  <2> QED
    BY <2>2, <2>3
<1>8. \A j \in Milestones : milestone_rejected'[j] <= milestone_submitted'[j]
  <2> SUFFICES ASSUME NEW j \in Milestones
               PROVE  milestone_rejected'[j] <= milestone_submitted[j]
    BY <1>5
  <2>1. CASE milestone_rejected'[j] = milestone_rejected[j]
    BY <2>1 DEF QueueInv
  <2>2. CASE milestone_rejected'[j] # milestone_rejected[j]
    <3>1. /\ j = i /\ waits(i, a) /\ place(i, a) = milestone_rejected[i]
          /\ milestone_rejected'[i] = milestone_rejected[i] + 1
      BY <2>2 DEF LeavesLine, MovesOn
    <3>2. place(i, a) < milestone_submitted[i]
      BY <3>1 DEF QueueInv, InLine
    <3> QED
      BY <3>1, <3>2, <1>3, <1>4
  <2> QED
    BY <2>1, <2>2
<1>9. InLine'
  BY <1>1, <1>5, <1>7 DEF InLine
<1>10. InOrder'
  BY <1>1 DEF QueueInv, InOrder
<1>11. NoGaps'
  <2> SUFFICES ASSUME NEW j \in Milestones, judgeable(j)',
                      NEW k \in milestone_rejected'[j] .. milestone_submitted[j] - 1
               PROVE  \E b \in Agents : waits(j, b)' /\ place(j, b)' = k
    BY <1>5 DEF NoGaps
  <2>1. judgeable(j)
    BY <1>6, JudgingEnds DEF LeavesLine
  <2>2. /\ milestone_rejected[j] <= milestone_rejected'[j]
        /\ j = i /\ waits(i, a) => place(i, a) < milestone_rejected'[i]
                                   /\ milestone_rejected'[i] \in Nat
    <3>1. j = i => judgeable(i)'
      BY DEF judgeable, milestone_released
    <3>2. j # i => milestone_rejected'[j] = milestone_rejected[j]
      BY DEF LeavesLine
    <3>3. CASE /\ waits(i, a) /\ place(i, a) = milestone_rejected[i]
               /\ milestone_rejected'[i] = milestone_rejected[i] + 1
      BY <3>2, <3>3, <1>4
    <3>4. CASE /\ waits(i, a) => ~judgeable(i)'
               /\ milestone_rejected'[i] = milestone_rejected[i]
      BY <3>1, <3>2, <3>4, <1>4
    <3> QED
      BY <3>3, <3>4 DEF MovesOn
  <2>3. k \in milestone_rejected[j] .. milestone_submitted[j] - 1
    BY <2>2, <1>4, <1>typed
  <2>4. PICK b \in Agents : waits(j, b) /\ place(j, b) = k
    BY <2>1, <2>3 DEF QueueInv, NoGaps
  <2>5. j # i \/ b # a
    <3> SUFFICES ASSUME j = i, b = a PROVE FALSE
      OBVIOUS
    <3>1. k < milestone_rejected'[i] /\ milestone_rejected'[i] \in Nat
      BY <2>2, <2>4
    <3> QED
      BY <3>1, <1>4
  <2> QED
    BY <2>4, <2>5, <1>2
<1>12. status' = "Cancelled" => ~claim_protected'
  BY <1>6, CancelledStays DEF QueueInv, TypeInv
<1>13. unresolved_submissions' = Cardinality(pending')
  <2>1. CASE waits(i, a)
    <3>1. \A j \in Milestones, b \in Agents :
              (j # i \/ b # a) => submission'[j][b].state = submission[j][b].state
      BY DEF LeavesLine
    <3>2. /\ Cardinality(pending') = Cardinality(pending) - 1
          /\ Cardinality(pending) > 0
      BY <2>1, <3>1, PendingShrunk DEF LeavesLine
    <3>3. unresolved_submissions' = less_one(unresolved_submissions)
      BY <2>1 DEF LeavesLine, unresolved_without, waits
    <3> QED
      BY <3>2, <3>3 DEF QueueInv, less_one
  <2>2. CASE ~waits(i, a)
    <3>1. \A j \in Milestones, b \in Agents :
              submission'[j][b].state = "Pending" <=> submission[j][b].state = "Pending"
      BY <2>2 DEF LeavesLine, waits
    <3> QED
      BY <2>2, <3>1, PendingSame DEF QueueInv, LeavesLine, unresolved_without, waits
  <2> QED
    BY <2>1, <2>2
<1> QED
  BY <1>5, <1>8, <1>9, <1>10, <1>11, <1>12, <1>13 DEF QueueInv

(* A rejection moves the front by the one place it judges.                 *)
LEMMA RejectLeaves ==
    ASSUME TypeInv, NEW i \in Milestones, NEW a \in Agents, RejectDelivery(i, a)
    PROVE  LeavesLine(i, a) /\ MovesOn(i, a)
<1>1. Judged(i, a, "Rejected")
  BY DEF RejectDelivery, Judged
<1>2. /\ \A j \in Milestones, b \in Agents :
             (j # i \/ b # a) => submission'[j][b] = submission[j][b]
      /\ submission'[i][a].state = "Rejected"
  BY <1>1, JudgedAccount DEF TypeInv
<1>3. milestone_rejected \in [Milestones -> Nat]
  BY DEF TypeInv, TypeOK
<1>4. /\ waits(i, a) /\ place(i, a) = milestone_rejected[i]
      /\ unresolved_submissions' = unresolved_without(i, a)
  BY DEF RejectDelivery, may_reject, at_front, waits, place, unresolved_without
<1>5. /\ milestone_rejected'[i] = milestone_rejected[i] + 1
      /\ \A j \in Milestones : j # i => milestone_rejected'[j] = milestone_rejected[j]
      /\ UNCHANGED <<now, milestone_submitted, latest_submitted_at, milestones_done>>
  BY <1>3 DEF RejectDelivery, life
<1> QED
  BY <1>2, <1>4, <1>5 DEF LeavesLine, MovesOn, waits

(* A payment ends its milestone.                                           *)
LEMMA ReleaseLeaves ==
    ASSUME TypeInv, NEW i \in Milestones, NEW a \in Agents, NEW byCreator \in BOOLEAN,
           ReleaseMilestone(i, a, byCreator)
    PROVE  LeavesLine(i, a) /\ MovesOn(i, a)
<1>1. Judged(i, a, "Released")
  BY DEF ReleaseMilestone, Judged
<1>2. /\ \A j \in Milestones, b \in Agents :
             (j # i \/ b # a) => submission'[j][b] = submission[j][b]
      /\ submission'[i][a].state = "Released"
  BY <1>1, JudgedAccount DEF TypeInv
<1>3. unresolved_submissions' = unresolved_without(i, a)
  BY DEF ReleaseMilestone, may_release, at_front, unresolved_without
<1>4. /\ UNCHANGED <<now, milestone_submitted, milestone_rejected, latest_submitted_at>>
      /\ milestones_done' = milestones_done \union {i}
  BY DEF ReleaseMilestone
<1>5. ~judgeable(i)'
  BY <1>4 DEF judgeable, milestone_released
<1> QED
  BY <1>2, <1>3, <1>4, <1>5 DEF LeavesLine, MovesOn, waits

(* A delivery is given up only when its milestone cannot be judged.        *)
LEMMA CloseLeaves ==
    ASSUME TypeInv, TypeOK', LifeGoesOn, NEW i \in Milestones, NEW a \in Agents,
           CloseSubmission(i, a)
    PROVE  LeavesLine(i, a) /\ MovesOn(i, a)
<1>1. submission \in [Milestones -> [Agents -> SubmissionAccounts]]
  BY DEF TypeInv, TypeOK
<1>2. submission' = [submission EXCEPT ![i] = [@ EXCEPT ![a] = NoSubmission]]
  BY DEF CloseSubmission, may_close_submission
<1>3. /\ \A j \in Milestones, b \in Agents :
             (j # i \/ b # a) => submission'[j][b] = submission[j][b]
      /\ submission'[i][a].state = "Empty"
  BY <1>1, <1>2 DEF NoSubmission
<1>4. /\ unresolved_submissions' = unresolved_without(i, a)
      /\ UNCHANGED <<now, milestone_submitted, milestone_rejected, latest_submitted_at,
                     milestones_done>>
  BY DEF CloseSubmission, may_close_submission, life
<1>5. unresolved_submissions \in Nat
  BY DEF TypeInv, TypeOK
<1>6. NothingAdded
  BY <1>4, <1>5 DEF NothingAdded, unresolved_without, less_one
<1>7. waits(i, a) => ~judgeable(i)
  BY DEF CloseSubmission, may_close_submission, submission_settled, waits, judgeable
<1>8. waits(i, a) => ~judgeable(i)'
  BY <1>4, <1>6, <1>7, JudgingEnds
<1> QED
  BY <1>3, <1>4, <1>8 DEF LeavesLine, MovesOn, waits

(* One step per kind of instruction.                                       *)
LEMMA StepQueueInv == TypeInv /\ QueueInv /\ [Next]_vars => QueueInv'
<1> SUFFICES ASSUME TypeInv, QueueInv, [Next]_vars PROVE QueueInv'
  OBVIOUS
<1>1. TypeInv' /\ TypeOK'
  BY StepTypeInv DEF TypeInv
<1>2. CASE Next
  <2>1. LifeGoesOn
    BY <1>2, NextLife DEF TypeInv
  <2>2. CASE LineStays
    BY <1>1, <2>1, <2>2, QuietQueueInv
  <2>3. ASSUME NEW i \in Milestones, NEW a \in Agents, LineStep(i, a) PROVE QueueInv'
    <3>1. CASE SubmitDelivery(i, a)
      BY <1>1, <3>1, SubmitQueueInv
    <3>2. CASE RejectDelivery(i, a)
      BY <1>1, <2>1, <3>2, RejectLeaves, LeaveQueueInv
    <3>3. CASE CloseSubmission(i, a)
      BY <1>1, <2>1, <3>3, CloseLeaves, LeaveQueueInv
    <3>4. ASSUME NEW byCreator \in BOOLEAN, ReleaseMilestone(i, a, byCreator)
          PROVE  QueueInv'
      BY <1>1, <2>1, <3>4, ReleaseLeaves, LeaveQueueInv
    <3> QED
      BY <2>3, <3>1, <3>2, <3>3, <3>4 DEF LineStep
  <2> QED
    BY <1>2, <2>2, <2>3, NextLine DEF TypeInv
<1>3. CASE UNCHANGED vars
  <2>1. now \in Nat /\ unresolved_submissions \in Nat
    BY DEF TypeInv, TypeOK
  <2>2. pending' = pending
    BY <1>3 DEF vars, queue, pending
  <2> QED
    BY <1>3, <2>1, <2>2
    DEF vars, life, queue, QueueInv, InLine, InOrder, NoGaps, judgeable, waits, place, since,
        claim_protected, work_closed, milestone_released
<1> QED
  BY <1>2, <1>3

\* The queues are in order in every state.
LEMMA QueueAlways == Spec => [](TypeInv /\ MoneyInv /\ QueueInv)
<1>1. Init => TypeInv /\ QueueInv
  BY InitTypeInv, InitQueueInv
<1>2. (TypeInv /\ QueueInv) /\ [Next]_vars => (TypeInv /\ QueueInv)'
  BY StepTypeInv, StepQueueInv
<1>3. Spec => [](TypeInv /\ QueueInv)
  BY <1>1, <1>2, PTL DEF Spec
<1> QED
  BY <1>3, MoneyAlways, PTL

-----------------------------------------------------------------------------
(* The counter every exit reads counts the deliveries that wait, whatever  *)
(* the order they are judged, beaten or given up in.                       *)
THEOREM CounterIsExact == Spec => []UnresolvedExact
<1>1. TypeInv /\ QueueInv => UnresolvedExact
  BY DEF QueueInv, InLine, UnresolvedExact, pending, waits, since
<1> QED
  BY <1>1, QueueAlways, PTL

(* While a milestone can be judged there is a delivery at each place from  *)
(* its front to its end: no order of closes leaves the front empty.        *)
THEOREM LineIsIntact == Spec => []QueueIntact
<1>1. TypeInv /\ QueueInv => QueueIntact
  <2> SUFFICES ASSUME TypeInv, QueueInv, NEW i \in Milestones,
                      status = "Funded", ~milestone_released(i),
                      work_closed => claim_protected
               PROVE  /\ \A a \in Agents : waits(i, a) =>
                            place(i, a) \in milestone_rejected[i] .. milestone_submitted[i] - 1
                      /\ \A k \in milestone_rejected[i] .. milestone_submitted[i] - 1 :
                            \E a \in Agents : waits(i, a) /\ place(i, a) = k
                      /\ \A a, b \in Agents :
                            waits(i, a) /\ waits(i, b) /\ place(i, a) = place(i, b) => a = b
    BY DEF QueueIntact, waits, place
  <2>1. /\ milestone_rejected[i] \in Nat /\ milestone_submitted[i] \in Nat
        /\ \A a \in Agents : place(i, a) \in Nat
    BY DEF TypeInv, TypeOK, SubmissionAccounts, place
  <2>2. judgeable(i)
    BY DEF judgeable
  <2>3. \A a \in Agents : waits(i, a) =>
            place(i, a) \in milestone_rejected[i] .. milestone_submitted[i] - 1
    BY <2>1 DEF QueueInv, InLine
  <2> QED
    BY <2>2, <2>3 DEF QueueInv, InOrder, NoGaps
<1> QED
  BY <1>1, QueueAlways, PTL

\* What judging a delivery finds at the front of its milestone.
Judges(i, a) == RejectDelivery(i, a) \/ \E c \in BOOLEAN : ReleaseMilestone(i, a, c)

(* What an instruction leaves of a delivery that waits, unless it is the   *)
(* one that judges it or gives it up.                                      *)
LEMMA WaitingStays ==
    ASSUME TypeInv, Next, NEW i \in Milestones, NEW a \in Agents, waits(i, a)
    PROVE  \/ submission'[i][a] = submission[i][a]
           \/ Judges(i, a) \/ CloseSubmission(i, a)
<1>1. submission \in [Milestones -> [Agents -> SubmissionAccounts]]
  BY DEF TypeInv, TypeOK
<1>2. CASE LineStays
  BY <1>2 DEF LineStays, queue
<1>3. ASSUME NEW j \in Milestones, NEW b \in Agents, LineStep(j, b)
      PROVE  \/ submission'[i][a] = submission[i][a]
             \/ Judges(i, a) \/ CloseSubmission(i, a)
  <2>1. CASE SubmitDelivery(j, b)
    <3>1. j # i \/ b # a
      BY <2>1 DEF SubmitDelivery, may_submit, waits
    <3> QED
      BY <1>1, <2>1, <3>1 DEF SubmitDelivery, may_submit
  <2>2. CASE RejectDelivery(j, b)
    <3>1. Judged(j, b, "Rejected")
      BY <2>2 DEF RejectDelivery, Judged
    <3> QED
      BY <2>2, <3>1, JudgedAccount DEF TypeInv, Judges
  <2>3. ASSUME NEW c \in BOOLEAN, ReleaseMilestone(j, b, c)
        PROVE  submission'[i][a] = submission[i][a] \/ Judges(i, a)
    <3>1. Judged(j, b, "Released")
      BY <2>3 DEF ReleaseMilestone, Judged
    <3> QED
      BY <2>3, <3>1, JudgedAccount DEF TypeInv, Judges
  <2>4. CASE CloseSubmission(j, b)
    <3>1. submission' = [submission EXCEPT ![j] = [@ EXCEPT ![b] = NoSubmission]]
      BY <2>4 DEF CloseSubmission, may_close_submission
    <3> QED
      BY <1>1, <2>4, <3>1
  <2> QED
    BY <1>3, <2>1, <2>2, <2>3, <2>4 DEF LineStep
<1> QED
  BY <1>2, <1>3, NextLine DEF TypeInv

(* Only the delivery at the front is judged.                               *)
LEMMA JudgedAtFront ==
    ASSUME NEW i \in Milestones, NEW a \in Agents, Judges(i, a)
    PROVE  waits(i, a) /\ place(i, a) = milestone_rejected[i]
  BY DEF Judges, RejectDelivery, may_reject, ReleaseMilestone, may_release, at_front,
         waits, place

(* However deliveries, rejections and closes interleave, the one judged is *)
(* the earliest of its milestone that still waits.                         *)
THEOREM FirstDeliveredIsJudged == Spec => FirstDeliveredFirstJudged
<1>1. TypeInv /\ QueueInv /\ [Next]_vars =>
        [ \A i \in Milestones, a, b \in Agents :
            /\ submission[i][a].state = "Pending"
            /\ submission'[i][a].state \in {"Released", "Rejected"}
            /\ submission[i][b].state = "Pending"
            => submission[i][a].submitted_at <= submission[i][b].submitted_at ]_vars
  <2> SUFFICES ASSUME TypeInv, QueueInv, Next,
                      NEW i \in Milestones, NEW a \in Agents, NEW b \in Agents,
                      waits(i, a), waits(i, b),
                      submission'[i][a].state \in {"Released", "Rejected"}
               PROVE  since(i, a) <= since(i, b)
    BY DEF vars, waits, since
  <2>1. submission \in [Milestones -> [Agents -> SubmissionAccounts]]
    BY DEF TypeInv, TypeOK
  <2>2. ~CloseSubmission(i, a)
    <3> SUFFICES ASSUME CloseSubmission(i, a) PROVE FALSE
      OBVIOUS
    <3>1. submission' = [submission EXCEPT ![i] = [@ EXCEPT ![a] = NoSubmission]]
      BY DEF CloseSubmission, may_close_submission
    <3>2. submission'[i][a].state = "Empty"
      BY <2>1, <3>1 DEF NoSubmission
    <3> QED
      BY <3>2
  <2>3. Judges(i, a)
    BY <2>2, WaitingStays DEF waits
  <2>4. place(i, a) <= place(i, b)
    BY <2>3, JudgedAtFront DEF QueueInv, InLine
  <2> QED
    BY <2>4 DEF QueueInv, InOrder
<1> QED
  BY <1>1, QueueAlways, PTL DEF Spec, FirstDeliveredFirstJudged

(* While its protection lasts nothing but its own payment touches a claim  *)
(* that silence has earned, nor moves the front it stands at.              *)
THEOREM ClaimIsDurable == Spec => ClaimDurable
<1>1. ASSUME TypeInv, QueueInv, Next, NEW i \in Milestones, NEW a \in Agents,
             matured_claim(i, a), claim_protected
      PROVE  \/ submission'[i][a].state = "Released"
             \/ /\ submission'[i][a] = submission[i][a]
                /\ milestone_rejected'[i] = milestone_rejected[i]
                /\ i \notin milestones_done'
  <2>0. /\ waits(i, a) /\ place(i, a) = milestone_rejected[i]
        /\ i \notin milestones_done /\ review_expired(submission[i][a])
        /\ milestone_rejected \in [Milestones -> Nat]
    BY <1>1 DEF matured_claim, at_front, milestone_released, waits, place, TypeInv, TypeOK
  <2>1. ~RejectDelivery(i, a)
    BY <2>0 DEF RejectDelivery, may_reject
  <2>2. ~CloseSubmission(i, a)
    BY <1>1, <2>0 DEF CloseSubmission, may_close_submission, submission_settled,
       milestone_released, waits, QueueInv
  <2>3. CASE \E c \in BOOLEAN : ReleaseMilestone(i, a, c)
    <3>1. Judged(i, a, "Released")
      BY <2>3 DEF ReleaseMilestone, Judged
    <3> QED
      BY <1>1, <3>1, JudgedAccount DEF TypeInv
  <2>4. CASE ~Judges(i, a)
    <3>1. submission'[i][a] = submission[i][a]
      BY <1>1, <2>0, <2>2, <2>4, WaitingStays
    <3>2. \A b \in Agents : ~Judges(i, b)
      <4> SUFFICES ASSUME NEW b \in Agents, Judges(i, b) PROVE FALSE
        OBVIOUS
      <4>1. waits(i, b) /\ place(i, b) = place(i, a)
        BY <2>0, JudgedAtFront
      <4>2. b = a
        BY <1>1, <2>0, <4>1 DEF QueueInv, InOrder
      <4> QED
        BY <2>4, <4>2
    <3>3. ASSUME NEW j \in Milestones, NEW b \in Agents, LineStep(j, b)
          PROVE  /\ milestone_rejected'[i] = milestone_rejected[i]
                 /\ i \notin milestones_done'
      <4>1. CASE SubmitDelivery(j, b) \/ CloseSubmission(j, b)
        BY <2>0, <4>1 DEF SubmitDelivery, may_submit, CloseSubmission,
           may_close_submission, life
      <4>2. CASE Judges(j, b)
        <5>1. j # i
          BY <3>2, <4>2
        <5> QED
          BY <2>0, <4>2, <5>1 DEF Judges, RejectDelivery, ReleaseMilestone, life
      <4> QED
        BY <3>3, <4>1, <4>2 DEF LineStep, Judges
    <3>4. CASE LineStays
      BY <2>0, <3>4 DEF LineStays, queue
    <3> QED
      BY <1>1, <3>1, <3>3, <3>4, NextLine DEF TypeInv
  <2> QED
    BY <2>1, <2>3, <2>4 DEF Judges
<1>2. TypeInv /\ QueueInv /\ [Next]_vars =>
        [ \A i \in Milestones, a \in Agents :
            matured_claim(i, a) /\ claim_protected =>
              \/ submission'[i][a].state = "Released"
              \/ /\ submission'[i][a] = submission[i][a]
                 /\ milestone_rejected'[i] = milestone_rejected[i]
                 /\ i \notin milestones_done' ]_vars
  BY <1>1
<1> QED
  BY <1>2, QueueAlways, PTL DEF Spec, ClaimDurable

(* Protected claims hold every exit shut.                                  *)
LEMMA ExitsShut ==
    ASSUME Next, claim_protected
    PROVE  refunded' = refunded /\ (status' = "Cancelled" => status = "Cancelled")
<1> USE DEF life, money
<1>1. CASE Tick \/ InitConfig \/ CloseVault \/ Donate \/ \E p \in BOOLEAN : SetPaused(p)
  BY <1>1 DEF Tick, InitConfig, CloseVault, Donate, SetPaused
<1>2. ASSUME NEW o \in Offers, CreateCommission(o)
      PROVE  refunded' = refunded /\ status' # "Cancelled"
  BY <1>2 DEF CreateCommission, may_create
<1>3. CASE \/ \E k \in Agents \union {Creator} : InviteAgent(k)
           \/ \E byCreator \in BOOLEAN : Cancel(byCreator)
  BY <1>3 DEF InviteAgent, Cancel, may_cancel
<1>4. ASSUME NEW b \in Backers, BackerStep(b)
      PROVE  refunded' = refunded /\ (status' = "Cancelled" => status = "Cancelled")
  BY <1>4 DEF BackerStep, Pledge, Refund, may_refund, ClosePledge, may_close_pledge
<1>5. ASSUME NEW a \in Agents, AgentStep(a)
      PROVE  refunded' = refunded /\ (status' = "Cancelled" => status = "Cancelled")
  <2>1. CASE SignalIntent(a) \/ WithdrawIntent(a) \/ CloseIntent(a)
    BY <2>1 DEF SignalIntent, WithdrawIntent, CloseIntent
  <2>2. ASSUME NEW i \in Milestones, LineStep(i, a)
        PROVE  refunded' = refunded /\ (status' = "Cancelled" => status = "Cancelled")
    <3>1. CASE SubmitDelivery(i, a) \/ RejectDelivery(i, a) \/ CloseSubmission(i, a)
      BY <3>1 DEF SubmitDelivery, may_submit, RejectDelivery, CloseSubmission,
         may_close_submission
    <3>2. ASSUME NEW c \in BOOLEAN, ReleaseMilestone(i, a, c)
          PROVE  refunded' = refunded /\ (status' = "Cancelled" => status = "Cancelled")
      BY <3>2 DEF ReleaseMilestone
    <3> QED
      BY <2>2, <3>1, <3>2 DEF LineStep
  <2> QED
    BY <1>5, <2>1, <2>2 DEF AgentStep, LineStep
<1> QED
  BY <1>1, <1>2, <1>3, <1>4, <1>5 DEF Next

(* No exit opens around a delivery inside its own window and grace period, *)
(* whichever other delivery the clock of protection was last set by.       *)
THEOREM ExitsWait == Spec => ExitsWaitForClaims
<1>1. ASSUME TypeInv, QueueInv, NEW i \in Milestones, NEW a \in Agents, waits(i, a),
             now < since(i, a) + terms.review_window + CLAIM_GRACE_WINDOW
      PROVE  claim_protected
  <2>1. <<i, a>> \in pending
    BY <1>1 DEF pending, waits
  <2>2. Cardinality(pending) # 0
    BY <2>1, PendingFinite, FS_EmptySet
  <2>3. unresolved_submissions > 0
    BY <1>1, <2>2, PendingFinite DEF QueueInv
  <2>4. since(i, a) <= latest_submitted_at
    BY <1>1 DEF QueueInv, InLine
  <2>5. /\ since(i, a) \in Nat /\ latest_submitted_at \in Nat /\ now \in Nat
        /\ terms.review_window \in Nat /\ CLAIM_GRACE_WINDOW \in Nat
    BY <1>1, WindowAssumption DEF TypeInv, TypeOK, SubmissionAccounts, since
  <2> QED
    BY <1>1, <2>3, <2>4, <2>5 DEF claim_protected
<1>2. TypeInv /\ QueueInv /\ [Next]_vars =>
        [ (\E p \in pending :
              now < submission[p[1]][p[2]].submitted_at + terms.review_window
                    + CLAIM_GRACE_WINDOW)
          => /\ refunded' = refunded
             /\ status' = "Cancelled" => status = "Cancelled" ]_vars
  <2> SUFFICES ASSUME TypeInv, QueueInv, Next, NEW p \in pending,
                      now < submission[p[1]][p[2]].submitted_at + terms.review_window
                            + CLAIM_GRACE_WINDOW
               PROVE  refunded' = refunded /\ (status' = "Cancelled" => status = "Cancelled")
    OBVIOUS
  <2>1. p[1] \in Milestones /\ p[2] \in Agents /\ waits(p[1], p[2])
    BY DEF pending, waits
  <2>2. claim_protected
    BY <1>1, <2>1 DEF since
  <2> QED
    BY <2>2, ExitsShut
<1> QED
  BY <1>2, QueueAlways, PTL DEF Spec, ExitsWaitForClaims

-----------------------------------------------------------------------------
(* The two counters keep an explicit queue (ImplementsQueues).             *)
(*                                                                         *)
(* The agents that wait are finitely many and no two have the same place,  *)
(* so each has a rank: one more than the number of those ahead.  The rank  *)
(* counts them all through, and line_of lists them by it.                  *)

waiting_at(i) == { a \in Agents : waits(i, a) }
ahead_of(i, a) == { b \in waiting_at(i) : place(i, b) < place(i, a) }
rank(i, a) == Cardinality(ahead_of(i, a)) + 1
line_length(i) == Cardinality(waiting_at(i))

(* All of it can be counted.                                               *)
LEMMA LineFinite ==
    ASSUME NEW i \in Milestones
    PROVE  /\ IsFiniteSet(waiting_at(i)) /\ line_length(i) \in Nat
           /\ \A a \in Agents :
                 /\ IsFiniteSet(ahead_of(i, a)) /\ rank(i, a) \in Nat \ {0}
                 /\ Cardinality(ahead_of(i, a)) \in Nat
<1>1. IsFiniteSet(Agents) /\ waiting_at(i) \in SUBSET Agents
  BY PartyAssumption DEF waiting_at
<1>2. IsFiniteSet(waiting_at(i)) /\ line_length(i) \in Nat
  BY <1>1, FS_Subset, FS_CardinalityType DEF line_length
<1>3. ASSUME NEW a \in Agents
      PROVE  IsFiniteSet(ahead_of(i, a)) /\ Cardinality(ahead_of(i, a)) \in Nat
  <2>1. ahead_of(i, a) \in SUBSET waiting_at(i)
    BY DEF ahead_of
  <2> QED
    BY <1>2, <2>1, FS_Subset, FS_CardinalityType
<1>4. \A a \in Agents : rank(i, a) \in Nat \ {0}
  BY <1>3 DEF rank
<1> QED
  BY <1>2, <1>3, <1>4

(* Who is ahead has the lower rank.                                        *)
LEMMA RankOrder ==
    ASSUME TypeOK, NEW i \in Milestones, NEW a \in waiting_at(i), NEW b \in waiting_at(i),
           place(i, a) < place(i, b)
    PROVE  rank(i, a) < rank(i, b)
<1>0. \A c \in Agents : place(i, c) \in Nat
  BY DEF TypeOK, place, SubmissionAccounts
<1>1. a \in Agents /\ b \in Agents
  BY DEF waiting_at
<1>2. ahead_of(i, a) \in SUBSET ahead_of(i, b)
  BY <1>0, <1>1 DEF ahead_of, waiting_at
<1>3. a \in ahead_of(i, b) /\ a \notin ahead_of(i, a)
  BY <1>0, <1>1 DEF ahead_of
<1>4. /\ Cardinality(ahead_of(i, a)) <= Cardinality(ahead_of(i, b))
      /\ Cardinality(ahead_of(i, a)) # Cardinality(ahead_of(i, b))
  BY <1>1, <1>2, <1>3, LineFinite, FS_Subset
<1> QED
  BY <1>1, <1>4, LineFinite DEF rank

(* Every number up to the length of the line is the rank of one agent.     *)
LEMMA RankOnto ==
    ASSUME TypeOK, InOrder, NEW i \in Milestones
    PROVE  /\ \A a \in waiting_at(i) : rank(i, a) \in 1 .. line_length(i)
           /\ \A a, b \in waiting_at(i) : rank(i, a) = rank(i, b) => a = b
           /\ \A k \in 1 .. line_length(i) : \E a \in waiting_at(i) : rank(i, a) = k
<1> DEFINE f == [a \in waiting_at(i) |-> rank(i, a)]
           T == 1 .. line_length(i)
<1>0. PICK n \in Nat : n = line_length(i)
  BY LineFinite
<1>1. \A a \in waiting_at(i) : rank(i, a) \in T
  <2> SUFFICES ASSUME NEW a \in waiting_at(i) PROVE rank(i, a) \in T
    OBVIOUS
  <2>1. a \in Agents /\ IsFiniteSet(waiting_at(i))
    BY LineFinite DEF waiting_at
  <2>2. place(i, a) \in Nat
    BY <2>1 DEF TypeOK, place, SubmissionAccounts
  <2>3. ahead_of(i, a) \in SUBSET waiting_at(i) /\ a \notin ahead_of(i, a)
    BY <2>2 DEF ahead_of
  <2>4. /\ Cardinality(ahead_of(i, a)) <= Cardinality(waiting_at(i))
        /\ Cardinality(ahead_of(i, a)) # Cardinality(waiting_at(i))
    BY <2>1, <2>3, FS_Subset
  <2> QED
    BY <1>0, <2>1, <2>4, LineFinite DEF rank, line_length
<1>2. \A a, b \in waiting_at(i) : rank(i, a) = rank(i, b) => a = b
  <2> SUFFICES ASSUME NEW a \in waiting_at(i), NEW b \in waiting_at(i),
                      rank(i, a) = rank(i, b)
               PROVE  a = b
    OBVIOUS
  <2>1. /\ a \in Agents /\ b \in Agents /\ waits(i, a) /\ waits(i, b)
        /\ place(i, a) \in Nat /\ place(i, b) \in Nat
        /\ rank(i, a) \in Nat /\ rank(i, b) \in Nat
    BY LineFinite DEF waiting_at, TypeOK, place, SubmissionAccounts
  <2>2. place(i, a) = place(i, b)
    BY <2>1, RankOrder
  <2> QED
    BY <2>1, <2>2 DEF InOrder
<1>3. IsFiniteSet(T) /\ Cardinality(T) = n
  <2>1. IsFiniteSet(1 .. n) /\ Cardinality(1 .. n) = IF 1 > n THEN 0 ELSE n - 1 + 1
    BY FS_Interval
  <2>2. (IF 1 > n THEN 0 ELSE n - 1 + 1) = n
    BY <1>0
  <2> QED
    BY <1>0, <2>1, <2>2
<1>4. f \in Injection(waiting_at(i), T)
  BY <1>1, <1>2 DEF Injection, IsInjective
<1>5. f \in Surjection(waiting_at(i), T)
  BY <1>0, <1>3, <1>4, FS_Injection DEF line_length
<1>6. \A k \in T : \E a \in waiting_at(i) : rank(i, a) = k
  BY <1>5 DEF Surjection
<1> QED
  BY <1>1, <1>2, <1>6

\* The list says who has which rank.
ListedByRank(i) ==
    /\ line_of(i) \in Seq(Agents) /\ Len(line_of(i)) = line_length(i)
    /\ \A a \in waiting_at(i) : /\ rank(i, a) \in 1 .. line_length(i)
                                /\ line_of(i)[rank(i, a)] = a
    /\ \A k \in 1 .. line_length(i) :
          \E a \in waiting_at(i) : line_of(i)[k] = a /\ rank(i, a) = k

\* A queue, as a sequence, lists its agents by how many are ahead of each.
LEMMA LineListed ==
    ASSUME TypeOK, InOrder, NEW i \in Milestones PROVE ListedByRank(i)
<1>1. line_of(i) = [k \in 1 .. line_length(i) |->
                       CHOOSE a \in waiting_at(i) : Cardinality(ahead_of(i, a)) = k - 1]
  BY DEF line_of, waiting_at, ahead_of, line_length, waits, place
<1>2. \A a \in waiting_at(i) : rank(i, a) \in Nat /\ Cardinality(ahead_of(i, a)) \in Nat
  BY LineFinite DEF waiting_at
<1>3. ASSUME NEW k \in 1 .. line_length(i)
      PROVE  line_of(i)[k] \in waiting_at(i) /\ rank(i, line_of(i)[k]) = k
  <2>1. PICK a \in waiting_at(i) : rank(i, a) = k
    BY RankOnto
  <2>2. Cardinality(ahead_of(i, a)) = k - 1
    BY <1>2, <2>1 DEF rank
  <2>3. line_of(i)[k] = CHOOSE c \in waiting_at(i) : Cardinality(ahead_of(i, c)) = k - 1
    BY <1>1
  <2>4. /\ line_of(i)[k] \in waiting_at(i)
        /\ Cardinality(ahead_of(i, line_of(i)[k])) = k - 1
    BY <2>2, <2>3
  <2> QED
    BY <2>4, <1>2 DEF rank
<1>4. line_of(i) \in Seq(Agents) /\ Len(line_of(i)) = line_length(i)
  <2>1. PICK n \in Nat : n = line_length(i)
    BY LineFinite
  <2>2. DOMAIN line_of(i) = 1 .. n
    BY <1>1, <2>1
  <2>3. \A k \in 1 .. n : line_of(i)[k] \in Agents
    BY <1>3, <2>1 DEF waiting_at
  <2>4. line_of(i) \in [1 .. n -> Agents]
    BY <1>1, <2>1, <2>2, <2>3
  <2>5. line_of(i) \in Seq(Agents)
    BY <2>4, SeqDef
  <2> QED
    BY <2>1, <2>4, <2>5
<1>5. \A a \in waiting_at(i) : /\ rank(i, a) \in 1 .. line_length(i)
                               /\ line_of(i)[rank(i, a)] = a
  <2> SUFFICES ASSUME NEW a \in waiting_at(i)
               PROVE  /\ rank(i, a) \in 1 .. line_length(i)
                      /\ line_of(i)[rank(i, a)] = a
    OBVIOUS
  <2>1. rank(i, a) \in 1 .. line_length(i)
    BY RankOnto
  <2>2. /\ line_of(i)[rank(i, a)] \in waiting_at(i)
        /\ rank(i, line_of(i)[rank(i, a)]) = rank(i, a)
    BY <1>3, <2>1
  <2> QED
    BY <2>1, <2>2, RankOnto
<1> QED
  BY <1>3, <1>4, <1>5 DEF ListedByRank

(* It does so in every state, the next one included.                       *)
LEMMA LineListedNext ==
    TypeOK' /\ InOrder' => \A i \in Milestones : ListedByRank(i)'
<1>1. TypeOK /\ InOrder => \A i \in Milestones : ListedByRank(i)
  BY LineListed
<1>2. (TypeOK /\ InOrder => \A i \in Milestones : ListedByRank(i))'
  BY <1>1, PTL
<1> QED
  BY <1>2

\* A queue of the next state has a length too.
LEMMA LineFiniteNext ==
    \A i \in Milestones : line_length(i)' \in Nat
<1>1. \A i \in Milestones : line_length(i) \in Nat
  BY LineFinite
<1>2. (\A i \in Milestones : line_length(i) \in Nat)'
  BY <1>1, PTL
<1> QED
  BY <1>2

\* The others keep their places.
SamePlaces(i, others) == \A b \in others : place(i, b)' = place(i, b)

(* A line nobody joins or leaves stays as it is.                           *)
LEMMA LineKept ==
    ASSUME NEW i \in Milestones, ListedByRank(i), ListedByRank(i)',
           waiting_at(i)' = waiting_at(i), SamePlaces(i, waiting_at(i))
    PROVE  line_of(i)' = line_of(i)
<1>1. ASSUME NEW a \in waiting_at(i) PROVE rank(i, a)' = rank(i, a)
  <2>1. ahead_of(i, a)' = ahead_of(i, a)
    BY DEF ahead_of, SamePlaces
  <2> QED
    BY <2>1 DEF rank
<1>2. line_length(i)' = line_length(i)
  BY DEF line_length
<1>3. PICK n \in Nat : n = line_length(i)
  BY LineFinite
<1>4. ASSUME NEW k \in 1 .. n PROVE line_of(i)'[k] = line_of(i)[k]
  <2>1. line_of(i)[k] \in waiting_at(i) /\ rank(i, line_of(i)[k]) = k
    BY <1>3 DEF ListedByRank
  <2>2. PICK a \in waiting_at(i) : a = line_of(i)[k]
    BY <2>1
  <2>3. rank(i, a)' = k
    BY <1>1, <2>1, <2>2
  <2>4. line_of(i)'[rank(i, a)'] = a
    BY DEF ListedByRank
  <2> QED
    BY <2>2, <2>3, <2>4
<1>5. /\ line_of(i) \in Seq(Agents) /\ line_of(i)' \in Seq(Agents)
      /\ Len(line_of(i)) = n /\ Len(line_of(i)') = n
  BY <1>2, <1>3 DEF ListedByRank
<1> QED
  BY <1>4, <1>5, SeqEqual

(* Whoever takes a place after all the others stands at the end.           *)
LEMMA LineJoined ==
    ASSUME TypeOK, NEW i \in Milestones, ListedByRank(i), ListedByRank(i)',
           NEW a \in Agents, a \notin waiting_at(i),
           waiting_at(i)' = waiting_at(i) \union {a},
           SamePlaces(i, waiting_at(i)),
           NEW p \in Nat, place(i, a)' = p, \A b \in waiting_at(i) : place(i, b) < p
    PROVE  line_of(i)' = Append(line_of(i), a)
<1>0. PICK n \in Nat : n = line_length(i)
  BY LineFinite
<1>1. line_length(i)' = n + 1
  <2>1. Cardinality(waiting_at(i) \union {a}) = Cardinality(waiting_at(i)) + 1
    BY LineFinite, FS_AddElement
  <2> QED
    BY <1>0, <2>1 DEF line_length
<1>2. \A b \in waiting_at(i) :
          place(i, b) \in Nat /\ place(i, b)' = place(i, b) /\ place(i, b) < p
  BY DEF waiting_at, TypeOK, place, SubmissionAccounts, SamePlaces
<1>3. ASSUME NEW b \in waiting_at(i) PROVE rank(i, b)' = rank(i, b)
  <2>1. ahead_of(i, b)' = ahead_of(i, b)
    BY <1>2 DEF ahead_of
  <2> QED
    BY <2>1 DEF rank
<1>4. rank(i, a)' = n + 1
  <2>1. ahead_of(i, a)' = waiting_at(i)
    BY <1>2 DEF ahead_of
  <2> QED
    BY <1>0, <2>1 DEF rank, line_length
<1>5. /\ line_of(i) \in Seq(Agents) /\ line_of(i)' \in Seq(Agents)
      /\ Len(line_of(i)) = n /\ Len(line_of(i)') = n + 1
  BY <1>0, <1>1 DEF ListedByRank
<1>6. /\ Append(line_of(i), a) \in Seq(Agents) /\ Len(Append(line_of(i), a)) = n + 1
      /\ \A k \in 1 .. n : Append(line_of(i), a)[k] = line_of(i)[k]
      /\ Append(line_of(i), a)[n + 1] = a
  BY <1>5, AppendProperties
<1>7. ASSUME NEW k \in 1 .. n + 1 PROVE line_of(i)'[k] = Append(line_of(i), a)[k]
  <2>1. CASE k = n + 1
    <3>1. line_of(i)'[rank(i, a)'] = a
      BY DEF ListedByRank
    <3> QED
      BY <1>4, <1>6, <2>1, <3>1
  <2>2. CASE k \in 1 .. n
    <3>1. line_of(i)[k] \in waiting_at(i) /\ rank(i, line_of(i)[k]) = k
      BY <1>0, <2>2 DEF ListedByRank
    <3>2. PICK b \in waiting_at(i) : b = line_of(i)[k]
      BY <3>1
    <3>3. rank(i, b)' = k
      BY <1>3, <3>1, <3>2
    <3>4. line_of(i)'[rank(i, b)'] = b
      BY DEF ListedByRank
    <3> QED
      BY <1>6, <2>2, <3>2, <3>3, <3>4
  <2>3. k = n + 1 \/ k \in 1 .. n
    BY <1>0
  <2> QED
    BY <2>1, <2>2, <2>3
<1> QED
  BY <1>5, <1>6, <1>7, SeqEqual

(* When one goes, those behind move up by one.                             *)
LEMMA LineClosedUp ==
    ASSUME TypeOK, InOrder, NEW i \in Milestones, ListedByRank(i), ListedByRank(i)',
           NEW a \in waiting_at(i),
           waiting_at(i)' = waiting_at(i) \ {a},
           SamePlaces(i, waiting_at(i) \ {a})
    PROVE  /\ rank(i, a) \in 1 .. Len(line_of(i)) /\ line_of(i)[rank(i, a)] = a
           /\ Len(line_of(i)') = Len(line_of(i)) - 1
           /\ \A k \in 1 .. Len(line_of(i)') :
                 line_of(i)'[k] = IF k < rank(i, a) THEN line_of(i)[k] ELSE line_of(i)[k + 1]
<1>0. PICK n \in Nat : n = line_length(i)
  BY LineFinite
<1>1. rank(i, a) \in 1 .. n /\ line_of(i)[rank(i, a)] = a /\ Len(line_of(i)) = n
  BY <1>0 DEF ListedByRank
<1>2. line_length(i)' = n - 1
  <2>1. Cardinality(waiting_at(i) \ {a}) = Cardinality(waiting_at(i)) - 1
    BY LineFinite, FS_RemoveElement
  <2> QED
    BY <1>0, <2>1 DEF line_length
<1>3. \A b \in waiting_at(i) :
          /\ b \in Agents /\ place(i, b) \in Nat
          /\ b # a => place(i, b)' = place(i, b) /\ place(i, b) # place(i, a)
  <2> SUFFICES ASSUME NEW b \in waiting_at(i)
               PROVE  /\ b \in Agents /\ place(i, b) \in Nat
                      /\ b # a => place(i, b)' = place(i, b) /\ place(i, b) # place(i, a)
    OBVIOUS
  <2>1. a \in Agents /\ b \in Agents
    BY DEF waiting_at
  <2>2. submission[i][b] \in SubmissionAccounts
    BY <2>1 DEF TypeOK
  <2>3. place(i, b) \in Nat
    BY <2>2 DEF place, SubmissionAccounts
  <2>4. b # a => place(i, b)' = place(i, b)
    BY <2>1 DEF SamePlaces
  <2>5. b # a => place(i, b) # place(i, a)
    BY <2>1 DEF waiting_at, InOrder
  <2> QED
    BY <2>1, <2>3, <2>4, <2>5
<1>4. ASSUME NEW k \in 1 .. n - 1
      PROVE  line_of(i)'[k] = IF k < rank(i, a) THEN line_of(i)[k] ELSE line_of(i)[k + 1]
  <2>1. \E b \in waiting_at(i)' : line_of(i)'[k] = b /\ rank(i, b)' = k
    BY <1>2 DEF ListedByRank
  <2>2. PICK b \in waiting_at(i) : b = line_of(i)'[k] /\ b # a /\ rank(i, b)' = k
    BY <2>1
  <2>3. ahead_of(i, b)' = ahead_of(i, b) \ {a}
    BY <1>3, <2>2 DEF ahead_of
  <2>4. /\ line_of(i)[rank(i, b)] = b /\ rank(i, b) \in Nat /\ rank(i, a) \in Nat
        /\ IsFiniteSet(ahead_of(i, b)) /\ Cardinality(ahead_of(i, b)) \in Nat
    BY <1>3, LineFinite DEF ListedByRank
  <2>5. CASE place(i, b) < place(i, a)
    <3>1. a \notin ahead_of(i, b)
      BY <1>3, <2>5 DEF ahead_of
    <3>2. rank(i, b) = k
      BY <2>2, <2>3, <3>1 DEF rank
    <3>3. rank(i, b) < rank(i, a)
      BY <2>5, RankOrder
    <3> QED
      BY <2>2, <2>4, <3>2, <3>3
  <2>6. CASE place(i, a) < place(i, b)
    <3>1. a \in ahead_of(i, b)
      BY <2>6 DEF ahead_of
    <3>2. Cardinality(ahead_of(i, b) \ {a}) = Cardinality(ahead_of(i, b)) - 1
      BY <2>4, <3>1, FS_RemoveElement
    <3>3. rank(i, b) = k + 1
      BY <2>2, <2>3, <2>4, <3>2 DEF rank
    <3>4. rank(i, a) < rank(i, b)
      BY <2>6, RankOrder
    <3>5. ~(k < rank(i, a))
      BY <2>4, <3>3, <3>4
    <3> QED
      BY <2>2, <2>4, <3>3, <3>5
  <2>7. place(i, b) < place(i, a) \/ place(i, a) < place(i, b)
    BY <1>3, <2>2
  <2> QED
    BY <2>5, <2>6, <2>7
<1>5. Len(line_of(i)') = n - 1
  BY <1>2 DEF ListedByRank
<1> QED
  BY <1>1, <1>4, <1>5

(* The head is the one that waits at the front.                            *)
LEMMA HeadOfLine ==
    ASSUME TypeOK, QueueInv, NEW i \in Milestones, NEW a \in waiting_at(i),
           place(i, a) = milestone_rejected[i]
    PROVE  rank(i, a) = 1
<1>1. \A b \in waiting_at(i) : /\ b \in Agents /\ milestone_rejected[i] <= place(i, b)
                               /\ milestone_rejected[i] \in Nat /\ place(i, b) \in Nat
  BY DEF waiting_at, QueueInv, InLine, TypeOK, place, SubmissionAccounts
<1>2. ahead_of(i, a) = {}
  BY <1>1 DEF ahead_of
<1> QED
  BY <1>2, FS_EmptySet DEF rank

-----------------------------------------------------------------------------
(* What an instruction does to the lists.                                  *)

\* The queue at work, before a step and after it.
AtWork == TypeInv /\ TypeInv' /\ QueueInv /\ QueueInv' /\ LifeGoesOn

(* Every list is by rank, before the step and after it.                    *)
LEMMA AllListed ==
    ASSUME AtWork
    PROVE  \A i \in Milestones : ListedByRank(i) /\ ListedByRank(i)'
  BY LineListed, LineListedNext DEF AtWork, TypeInv, QueueInv

\* All the lists but one stay.
OtherLinesStay(i) == \A j \in Milestones : j # i => line_of(j)' = line_of(j)

(* One list is moved by what moves one delivery.                           *)
LEMMA OneLine ==
    ASSUME AtWork, NEW i \in Milestones, NEW a \in Agents,
           \A j \in Milestones, b \in Agents :
               (j # i \/ b # a) => submission'[j][b] = submission[j][b]
    PROVE  /\ OtherLinesStay(i) /\ SamePlaces(i, waiting_at(i) \ {a})
           /\ ~waits(i, a)' => waiting_at(i)' = waiting_at(i) \ {a}
<1>1. \A j \in Milestones, b \in Agents :
          (j # i \/ b # a) => /\ waits(j, b)' <=> waits(j, b)
                              /\ place(j, b)' = place(j, b)
  BY DEF waits, place
<1>2. ASSUME NEW j \in Milestones, j # i PROVE line_of(j)' = line_of(j)
  <2>1. waiting_at(j)' = waiting_at(j) /\ SamePlaces(j, waiting_at(j))
    BY <1>1, <1>2 DEF waiting_at, SamePlaces
  <2> QED
    BY <2>1, AllListed, LineKept
<1>3. SamePlaces(i, waiting_at(i) \ {a})
  BY <1>1 DEF SamePlaces, waiting_at
<1>4. ~waits(i, a)' => waiting_at(i)' = waiting_at(i) \ {a}
  BY <1>1 DEF waiting_at
<1> QED
  BY <1>2, <1>3, <1>4 DEF OtherLinesStay

(* A contest that is over does not begin again.                            *)
LEMMA OverStays ==
    ASSUME AtWork, latest_submitted_at' = latest_submitted_at, contest_over
    PROVE  contest_over'
<1>1. /\ now \in Nat /\ now' \in Nat /\ latest_submitted_at \in Nat /\ work_deadline \in Nat
      /\ status \in {"Uncreated", "Funding", "Funded", "Delivered", "Cancelled"}
      /\ terms.review_window \in Nat /\ CLAIM_GRACE_WINDOW \in Nat
      /\ status \in {"Uncreated", "Funding"} => work_deadline = 0
      /\ LifeGoesOn
  BY WindowAssumption DEF AtWork, TypeInv, TypeOK, Bookkeeping
<1>2. CASE status \in {"Delivered", "Cancelled"}
  <2>1. status' \in {"Delivered", "Cancelled"}
    BY <1>1, <1>2 DEF LifeGoesOn
  <2> QED
    BY <2>1 DEF contest_over
<1>3. CASE status \notin {"Delivered", "Cancelled"}
  <2>1. /\ work_deadline > 0 /\ now >= work_deadline
        /\ now >= latest_submitted_at + terms.review_window + CLAIM_GRACE_WINDOW
    BY <1>3 DEF contest_over, work_closed
  <2>2. terms' = terms /\ work_deadline' = work_deadline /\ now <= now'
    BY <1>1, <2>1 DEF LifeGoesOn
  <2>3. /\ now' >= work_deadline
        /\ now' >= latest_submitted_at + terms.review_window + CLAIM_GRACE_WINDOW
    BY <1>1, <2>1, <2>2
  <2> QED
    BY <2>1, <2>2, <2>3 DEF contest_over, work_closed
<1> QED
  BY <1>2, <1>3

(* SubmitDelivery joins at the end.                                        *)
LEMMA SubmitJoins ==
    ASSUME AtWork, NEW i \in Milestones, NEW a \in Agents, SubmitDelivery(i, a)
    PROVE  Queues!Join(i, a)
<1> DEFINE s == [ state |-> "Pending", sequence |-> milestone_submitted[i],
                  submitted_at |-> now ]
<1>1. /\ submission \in [Milestones -> [Agents -> SubmissionAccounts]]
      /\ milestone_submitted[i] \in Nat /\ TypeOK
  BY DEF AtWork, TypeInv, TypeOK
<1>2. submission' = [submission EXCEPT ![i] = [@ EXCEPT ![a] = s]]
  BY DEF SubmitDelivery, may_submit
<1>3. s.state = "Pending" /\ s.sequence = milestone_submitted[i]
  OBVIOUS
<1> HIDE DEF s
<1>4. /\ \A j \in Milestones, b \in Agents :
            (j # i \/ b # a) => submission'[j][b] = submission[j][b]
      /\ waits(i, a)' /\ place(i, a)' = milestone_submitted[i]
  BY <1>1, <1>2, <1>3 DEF waits, place
<1>5. ~waits(i, a)
  BY DEF SubmitDelivery, may_submit, waits
<1>6. a \notin waiting_at(i) /\ waiting_at(i)' = waiting_at(i) \union {a}
  BY <1>4, <1>5 DEF waiting_at, waits
<1>7. OtherLinesStay(i) /\ SamePlaces(i, waiting_at(i))
  BY <1>4, <1>6, OneLine
<1>8. \A b \in waiting_at(i) : place(i, b) < milestone_submitted[i]
  BY DEF AtWork, QueueInv, InLine, waiting_at
<1>9. ListedByRank(i) /\ ListedByRank(i)'
  BY AllListed
<1>10. line_of(i)' = Append(line_of(i), a)
  BY <1>1, <1>4, <1>6, <1>7, <1>8, <1>9, LineJoined
<1>11. a \notin { line_of(i)[k] : k \in DOMAIN line_of(i) }
  <2>1. DOMAIN line_of(i) = 1 .. line_length(i)
    BY <1>9, LenProperties DEF ListedByRank
  <2> QED
    BY <1>6, <1>9, <2>1 DEF ListedByRank
<1>12. ~contest_over /\ ~contest_over' /\ i \notin milestones_done
  BY DEF SubmitDelivery, may_submit, workable, contest_over, work_closed, life,
     milestone_released
<1>13. milestones_done' = milestones_done /\ earned' = earned
  BY DEF SubmitDelivery, may_submit, life, paid
<1>14. [j \in Milestones |-> line_of(j)'] =
          [[j \in Milestones |-> line_of(j)] EXCEPT ![i] = Append(@, a)]
  BY <1>7, <1>10 DEF OtherLinesStay
<1>15. a \notin Queues!standing(i)
  BY <1>11 DEF Queues!standing
<1>16. contest_over' = contest_over
  BY <1>12 DEF contest_over
<1> QED
  BY <1>12, <1>13, <1>14, <1>15, <1>16 DEF Queues!Join

(* The delivery at the front is the head of the list, and when it goes the *)
(* rest of the list is left.                                               *)
LEMMA HeadGone ==
    ASSUME AtWork, NEW i \in Milestones, NEW a \in Agents, LeavesLine(i, a),
           waits(i, a), place(i, a) = milestone_rejected[i]
    PROVE  /\ line_of(i) # <<>> /\ Head(line_of(i)) = a
           /\ OtherLinesStay(i) /\ line_of(i)' = Tail(line_of(i))
<1>1. /\ a \in waiting_at(i) /\ TypeOK /\ InOrder /\ QueueInv
      /\ ListedByRank(i) /\ ListedByRank(i)'
  BY AllListed DEF AtWork, TypeInv, QueueInv, waiting_at
<1>2. /\ OtherLinesStay(i) /\ SamePlaces(i, waiting_at(i) \ {a})
      /\ waiting_at(i)' = waiting_at(i) \ {a}
  BY OneLine DEF LeavesLine
<1>3. rank(i, a) = 1
  BY <1>1, HeadOfLine
<1>4. /\ rank(i, a) \in 1 .. Len(line_of(i)) /\ line_of(i)[rank(i, a)] = a
      /\ Len(line_of(i)') = Len(line_of(i)) - 1
      /\ \A k \in 1 .. Len(line_of(i)') :
            line_of(i)'[k] = IF k < rank(i, a) THEN line_of(i)[k] ELSE line_of(i)[k + 1]
  BY <1>1, <1>2, LineClosedUp
<1>5. line_of(i) \in Seq(Agents) /\ line_of(i)' \in Seq(Agents)
  BY <1>1 DEF ListedByRank
<1>6. line_of(i) # <<>> /\ Head(line_of(i)) = a
  BY <1>3, <1>4, <1>5
<1>7. /\ Tail(line_of(i)) \in Seq(Agents) /\ Len(Tail(line_of(i))) = Len(line_of(i)) - 1
      /\ \A k \in 1 .. Len(Tail(line_of(i))) : Tail(line_of(i))[k] = line_of(i)[k + 1]
  BY <1>5, <1>6, HeadTailProperties
<1>8. \A k \in 1 .. Len(line_of(i)') : line_of(i)'[k] = Tail(line_of(i))[k]
  <2> SUFFICES ASSUME NEW k \in 1 .. Len(line_of(i)')
               PROVE  line_of(i)'[k] = Tail(line_of(i))[k]
    OBVIOUS
  <2>1. k \in 1 .. Len(Tail(line_of(i))) /\ ~(k < 1)
    BY <1>4, <1>7
  <2> QED
    BY <1>3, <1>4, <1>7, <2>1
<1>9. line_of(i)' = Tail(line_of(i))
  BY <1>4, <1>5, <1>7, <1>8, SeqEqual
<1> QED
  BY <1>2, <1>6, <1>9

\* The place at the front of a paid milestone is the one that was paid.
PaidPassed ==
    \A i \in Milestones, a \in Agents :
        i \in milestones_done /\ waits(i, a) => place(i, a) # milestone_rejected[i]

(* RejectDelivery sends the head away.                                     *)
LEMMA RejectsHead ==
    ASSUME AtWork, PaidPassed, NEW i \in Milestones, NEW a \in Agents, RejectDelivery(i, a)
    PROVE  Queues!Reject(i)
<1>1. /\ LeavesLine(i, a) /\ waits(i, a) /\ place(i, a) = milestone_rejected[i]
  BY RejectLeaves, JudgedAtFront DEF AtWork, Judges
<1>2. /\ line_of(i) # <<>> /\ OtherLinesStay(i) /\ line_of(i)' = Tail(line_of(i))
  BY <1>1, HeadGone
<1>3. i \notin milestones_done
  BY <1>1 DEF PaidPassed
<1>4. milestones_done' = milestones_done /\ earned' = earned
  BY DEF RejectDelivery, life, paid
<1>5. contest_over' = contest_over
  BY DEF RejectDelivery, life, contest_over, work_closed
<1>6. [j \in Milestones |-> line_of(j)'] =
          [[j \in Milestones |-> line_of(j)] EXCEPT ![i] = Tail(@)]
  BY <1>2 DEF OtherLinesStay
<1> QED
  BY <1>2, <1>3, <1>4, <1>5, <1>6 DEF Queues!Reject

(* ReleaseMilestone pays the head.                                         *)
LEMMA ReleasePaysHead ==
    ASSUME AtWork, NEW i \in Milestones, NEW a \in Agents, NEW byCreator \in BOOLEAN,
           ReleaseMilestone(i, a, byCreator)
    PROVE  Queues!Pay(i)
<1>1. /\ LeavesLine(i, a) /\ waits(i, a) /\ place(i, a) = milestone_rejected[i]
  BY ReleaseLeaves, JudgedAtFront DEF AtWork, Judges
<1>2. /\ line_of(i) # <<>> /\ Head(line_of(i)) = a
      /\ OtherLinesStay(i) /\ line_of(i)' = Tail(line_of(i))
  BY <1>1, HeadGone
<1>3. i \notin milestones_done /\ milestones_done' = milestones_done \union {i}
  BY DEF ReleaseMilestone, may_release, milestone_released
<1>4. earned' = [earned EXCEPT ![a] = earned'[a]] /\ earned'[a] >= earned[a]
  <2>1. earned \in [Agents -> Nat]
    BY DEF AtWork, TypeInv, TypeOK
  <2>2. PICK n \in Nat : n = split_fee(gross_of(i)).net
    BY GrossType, SplitFee DEF ReleaseMilestone, may_release, AtWork
  <2>3. earned' = [earned EXCEPT ![a] = @ + n]
    BY <2>2 DEF ReleaseMilestone
  <2> QED
    BY <2>1, <2>3
<1>5. contest_over => contest_over'
  BY OverStays DEF ReleaseMilestone
<1>6. contest_over' \in {contest_over, TRUE}
  BY <1>5 DEF contest_over
<1>7. [j \in Milestones |-> line_of(j)'] =
          [[j \in Milestones |-> line_of(j)] EXCEPT ![i] = Tail(@)]
  BY <1>2 DEF OtherLinesStay
<1> QED
  BY <1>2, <1>3, <1>4, <1>6, <1>7 DEF Queues!Pay

(* CloseSubmission lets whoever waits go, from any place of the line.      *)
LEMMA CloseLeavesLine ==
    ASSUME AtWork, NEW i \in Milestones, NEW a \in Agents, CloseSubmission(i, a), waits(i, a)
    PROVE  \E k \in DOMAIN line_of(i) : Queues!Leave(i, k)
<1>1. LeavesLine(i, a)
  BY CloseLeaves DEF AtWork, TypeInv
<1>2. /\ a \in waiting_at(i) /\ TypeOK /\ InOrder
      /\ ListedByRank(i) /\ ListedByRank(i)'
  BY AllListed DEF AtWork, TypeInv, QueueInv, waiting_at
<1>3. /\ OtherLinesStay(i) /\ SamePlaces(i, waiting_at(i) \ {a})
      /\ waiting_at(i)' = waiting_at(i) \ {a}
  BY <1>1, OneLine DEF LeavesLine
<1>4. PICK k : k = rank(i, a)
  OBVIOUS
<1>5. /\ k \in 1 .. Len(line_of(i))
      /\ Len(line_of(i)') = Len(line_of(i)) - 1
      /\ \A n \in 1 .. Len(line_of(i)') :
            line_of(i)'[n] = IF n < k THEN line_of(i)[n] ELSE line_of(i)[n + 1]
  BY <1>2, <1>3, <1>4, LineClosedUp
<1>6. line_of(i) \in Seq(Agents) /\ line_of(i)' \in Seq(Agents)
  BY <1>2 DEF ListedByRank
<1>7. line_of(i)' = [n \in 1 .. Len(line_of(i)) - 1 |->
                        IF n < k THEN line_of(i)[n] ELSE line_of(i)[n + 1]]
  BY <1>5, <1>6
<1>8. k \in DOMAIN line_of(i)
  BY <1>5, <1>6
<1>9. contest_over \/ i \in milestones_done
  <2>1. unresolved_submissions > 0
    <3>1. <<i, a>> \in pending
      BY DEF pending, waits
    <3>2. Cardinality(pending) # 0 /\ Cardinality(pending) \in Nat
      BY <3>1, PendingFinite, FS_EmptySet
    <3> QED
      BY <3>2 DEF AtWork, QueueInv
  <2>2. \/ i \in milestones_done \/ status = "Cancelled"
        \/ work_closed /\ ~claim_protected
    BY DEF CloseSubmission, may_close_submission, submission_settled, waits,
       milestone_released
  <2>3. /\ now \in Nat /\ latest_submitted_at \in Nat /\ terms.review_window \in Nat
        /\ CLAIM_GRACE_WINDOW \in Nat
    BY WindowAssumption DEF AtWork, TypeInv, TypeOK
  <2> QED
    BY <2>1, <2>2, <2>3 DEF contest_over, claim_protected
<1>10. /\ milestones_done' = milestones_done /\ earned' = earned
       /\ contest_over' = contest_over
  BY DEF CloseSubmission, may_close_submission, life, paid, contest_over, work_closed
<1>11. [j \in Milestones |-> line_of(j)'] =
           [[j \in Milestones |-> line_of(j)] EXCEPT ![i] = Queues!closed_up(@, k)]
  BY <1>3, <1>7 DEF OtherLinesStay, Queues!closed_up
<1>12. Queues!Leave(i, k)
  BY <1>8, <1>9, <1>10, <1>11 DEF Queues!Leave
<1> QED
  BY <1>8, <1>12

\* What the queues see of the escrow.
seen == <<[i \in Milestones |-> line_of(i)], milestones_done, earned, contest_over>>

(* The rest moves nobody, and may only end the contest.                    *)
LEMMA NobodyMoves ==
    ASSUME AtWork, \A j \in Milestones : line_of(j)' = line_of(j),
           UNCHANGED <<milestones_done, earned, latest_submitted_at>>
    PROVE  [Queues!Next]_seen
<1>1. [j \in Milestones |-> line_of(j)'] = [j \in Milestones |-> line_of(j)]
  OBVIOUS
<1>2. CASE contest_over' <=> contest_over
  <2>1. contest_over' = contest_over
    BY <1>2 DEF contest_over
  <2> QED
    BY <1>1, <2>1 DEF seen
<1>3. CASE ~(contest_over' <=> contest_over)
  <2>1. ~contest_over /\ contest_over'
    BY <1>3, OverStays
  <2>2. contest_over' = TRUE
    BY <2>1 DEF contest_over
  <2> QED
    BY <1>1, <2>1, <2>2 DEF Queues!Next, Queues!End
<1> QED
  BY <1>2, <1>3

(* Only a release pays an agent.                                           *)
LEMMA NextEarned ==
    ASSUME Next
    PROVE  \/ earned' = earned
           \/ \E i \in Milestones, a \in Agents, byCreator \in BOOLEAN :
                 ReleaseMilestone(i, a, byCreator)
<1> USE DEF paid
<1>1. CASE \/ Tick \/ InitConfig \/ CloseVault \/ Donate
           \/ \E p \in BOOLEAN : SetPaused(p)
           \/ \E o \in Offers : CreateCommission(o)
           \/ \E k \in Agents \union {Creator} : InviteAgent(k)
           \/ \E byCreator \in BOOLEAN : Cancel(byCreator)
  BY <1>1 DEF Tick, InitConfig, CloseVault, Donate, SetPaused, CreateCommission, may_create,
              InviteAgent, Cancel
<1>2. ASSUME NEW b \in Backers, BackerStep(b) PROVE earned' = earned
  BY <1>2 DEF BackerStep, Pledge, Refund, ClosePledge, may_close_pledge
<1>3. ASSUME NEW a \in Agents, SignalIntent(a) \/ WithdrawIntent(a) \/ CloseIntent(a)
      PROVE  earned' = earned
  BY <1>3 DEF SignalIntent, WithdrawIntent, CloseIntent
<1>4. ASSUME NEW i \in Milestones, NEW a \in Agents,
             SubmitDelivery(i, a) \/ RejectDelivery(i, a) \/ CloseSubmission(i, a)
      PROVE  earned' = earned
  BY <1>4 DEF SubmitDelivery, may_submit, RejectDelivery, CloseSubmission,
     may_close_submission
<1> QED
  BY <1>1, <1>2, <1>3, <1>4 DEF Next, AgentStep

(* Every instruction is a step of the queues.                              *)
LEMMA StepQueues ==
    AtWork /\ PaidPassed /\ [Next]_vars => [Queues!Next]_seen
<1> SUFFICES ASSUME AtWork, PaidPassed, [Next]_vars PROVE [Queues!Next]_seen
  OBVIOUS
<1>1. CASE UNCHANGED vars
  <2>1. \A j \in Milestones : line_of(j)' = line_of(j)
    <3> SUFFICES ASSUME NEW j \in Milestones PROVE line_of(j)' = line_of(j)
      OBVIOUS
    <3>1. submission' = submission
      BY <1>1 DEF vars, queue
    <3>2. waiting_at(j)' = waiting_at(j) /\ SamePlaces(j, waiting_at(j))
      BY <3>1 DEF waiting_at, waits, SamePlaces, place
    <3> QED
      BY <3>2, AllListed, LineKept
  <2> QED
    BY <1>1, <2>1, NobodyMoves DEF vars, life, queue, paid
<1>2. ASSUME NEW i \in Milestones, NEW a \in Agents, NEW byCreator \in BOOLEAN,
             ReleaseMilestone(i, a, byCreator)
      PROVE  [Queues!Next]_seen
  <2>1. Queues!Pay(i)
    BY <1>2, ReleasePaysHead
  <2> QED
    BY <2>1 DEF Queues!Next
<1>3. ASSUME NEW i \in Milestones, NEW a \in Agents, SubmitDelivery(i, a)
      PROVE  [Queues!Next]_seen
  <2>1. Queues!Join(i, a)
    BY <1>3, SubmitJoins
  <2> QED
    BY <2>1 DEF Queues!Next
<1>4. ASSUME NEW i \in Milestones, NEW a \in Agents, RejectDelivery(i, a)
      PROVE  [Queues!Next]_seen
  <2>1. Queues!Reject(i)
    BY <1>4, RejectsHead
  <2> QED
    BY <2>1 DEF Queues!Next
<1>5. ASSUME NEW i \in Milestones, NEW a \in Agents, CloseSubmission(i, a)
      PROVE  [Queues!Next]_seen
  <2>1. CASE waits(i, a)
    <3>1. PICK k \in DOMAIN line_of(i) : Queues!Leave(i, k)
      BY <1>5, <2>1, CloseLeavesLine
    <3>2. k \in DOMAIN [j \in Milestones |-> line_of(j)][i]
      OBVIOUS
    <3> QED
      BY <3>1, <3>2 DEF Queues!Next
  <2>2. CASE ~waits(i, a)
    <3>1. LeavesLine(i, a)
      BY <1>5, CloseLeaves DEF AtWork, TypeInv
    <3>2. /\ OtherLinesStay(i) /\ SamePlaces(i, waiting_at(i) \ {a})
          /\ waiting_at(i)' = waiting_at(i) \ {a}
      BY <3>1, OneLine DEF LeavesLine
    <3>3. waiting_at(i)' = waiting_at(i) /\ SamePlaces(i, waiting_at(i))
      BY <2>2, <3>2 DEF waiting_at, SamePlaces
    <3>4. line_of(i)' = line_of(i)
      BY <3>3, AllListed, LineKept
    <3>5. \A j \in Milestones : line_of(j)' = line_of(j)
      BY <3>2, <3>4 DEF OtherLinesStay
    <3>6. UNCHANGED <<milestones_done, earned, latest_submitted_at>>
      BY <1>5 DEF CloseSubmission, may_close_submission, life, paid
    <3> QED
      BY <3>5, <3>6, NobodyMoves
  <2> QED
    BY <2>1, <2>2
<1>6. CASE LineStays /\ earned' = earned
  <2>1. \A j \in Milestones : line_of(j)' = line_of(j)
    <3> SUFFICES ASSUME NEW j \in Milestones PROVE line_of(j)' = line_of(j)
      OBVIOUS
    <3>1. submission' = submission
      BY <1>6 DEF LineStays, queue
    <3>2. waiting_at(j)' = waiting_at(j) /\ SamePlaces(j, waiting_at(j))
      BY <3>1 DEF waiting_at, waits, SamePlaces, place
    <3> QED
      BY <3>2, AllListed, LineKept
  <2> QED
    BY <1>6, <2>1, NobodyMoves DEF LineStays, queue
<1>7. CASE Next
  BY <1>2, <1>3, <1>4, <1>5, <1>6, <1>7, NextLine, NextEarned
  DEF LineStep, AtWork, TypeInv
<1> QED
  BY <1>1, <1>7

(* The paid place stays the last one judged.                               *)
LEMMA StepPaidPassed ==
    TypeInv /\ QueueInv /\ PaidPassed /\ [Next]_vars => PaidPassed'
<1> SUFFICES ASSUME TypeInv, QueueInv, PaidPassed, [Next]_vars,
                    NEW i \in Milestones, NEW a \in Agents,
                    i \in milestones_done', waits(i, a)'
             PROVE  place(i, a)' # milestone_rejected'[i]
  BY DEF PaidPassed
<1>0. /\ submission \in [Milestones -> [Agents -> SubmissionAccounts]]
      /\ milestone_rejected \in [Milestones -> Nat]
  BY DEF TypeInv, TypeOK
<1>1. CASE UNCHANGED <<queue, milestones_done>>
  BY <1>1 DEF queue, PaidPassed, waits, place
<1>2. ASSUME NEW j \in Milestones, NEW b \in Agents, SubmitDelivery(j, b)
      PROVE  place(i, a)' # milestone_rejected'[i]
  <2>1. i # j /\ milestone_rejected' = milestone_rejected /\ i \in milestones_done
    BY <1>2 DEF SubmitDelivery, may_submit, milestone_released, life
  <2>2. submission'[i][a] = submission[i][a]
    BY <1>0, <1>2, <2>1 DEF SubmitDelivery, may_submit
  <2> QED
    BY <2>1, <2>2 DEF PaidPassed, waits, place
<1>3. ASSUME NEW j \in Milestones, NEW b \in Agents, LeavesLine(j, b)
      PROVE  waits(i, a) /\ place(i, a)' = place(i, a) /\ (j # i \/ b # a)
  BY <1>3 DEF LeavesLine, waits, place
<1>4. ASSUME NEW j \in Milestones, NEW b \in Agents, RejectDelivery(j, b)
      PROVE  place(i, a)' # milestone_rejected'[i]
  <2>1. /\ LeavesLine(j, b) /\ waits(j, b) /\ place(j, b) = milestone_rejected[j]
        /\ milestones_done' = milestones_done
    BY <1>4, RejectLeaves, JudgedAtFront DEF Judges, RejectDelivery, life
  <2>2. i # j /\ milestone_rejected'[i] = milestone_rejected[i]
    BY <2>1 DEF PaidPassed, LeavesLine
  <2> QED
    BY <1>3, <2>1, <2>2 DEF PaidPassed
<1>5. ASSUME NEW j \in Milestones, NEW b \in Agents, NEW byCreator \in BOOLEAN,
             ReleaseMilestone(j, b, byCreator)
      PROVE  place(i, a)' # milestone_rejected'[i]
  <2>1. /\ LeavesLine(j, b) /\ waits(j, b) /\ place(j, b) = milestone_rejected[j]
        /\ milestones_done' = milestones_done \union {j}
        /\ milestone_rejected' = milestone_rejected
    BY <1>5, ReleaseLeaves, JudgedAtFront DEF Judges, ReleaseMilestone
  <2> QED
    BY <1>3, <2>1 DEF PaidPassed, QueueInv, InOrder
<1>6. ASSUME NEW j \in Milestones, NEW b \in Agents, CloseSubmission(j, b)
      PROVE  place(i, a)' # milestone_rejected'[i]
  <2>1. submission' = [submission EXCEPT ![j] = [@ EXCEPT ![b] = NoSubmission]]
    BY <1>6 DEF CloseSubmission, may_close_submission
  <2>2. submission'[i][a] = submission[i][a]
    BY <1>0, <2>1 DEF waits, NoSubmission
  <2> QED
    BY <1>6, <2>2 DEF CloseSubmission, may_close_submission, life, PaidPassed, waits, place
<1> QED
  BY <1>1, <1>2, <1>4, <1>5, <1>6, NextLine
  DEF LineStays, LineStep, TypeInv, vars, life, queue

(* Nobody waits at first.                                                  *)
LEMMA InitQueues == Init => Queues!Init /\ PaidPassed
<1> SUFFICES ASSUME Init PROVE Queues!Init /\ PaidPassed
  OBVIOUS
<1>1. /\ \A i \in Milestones, a \in Agents : ~waits(i, a)
      /\ milestones_done = {} /\ earned = [a \in Agents |-> 0]
      /\ status = "Uncreated" /\ work_deadline = 0
  BY DEF Init, NoSubmission, waits
<1>2. ASSUME NEW i \in Milestones PROVE line_of(i) = <<>>
  <2>1. ListedByRank(i)
    BY InitTypeInv, InitQueueInv, LineListed DEF TypeInv, QueueInv
  <2>2. waiting_at(i) = {}
    BY <1>1 DEF waiting_at
  <2>3. line_length(i) = 0
    BY <2>2, FS_EmptySet DEF line_length
  <2> QED
    BY <2>1, <2>3, EmptySeq DEF ListedByRank
<1>3. contest_over = FALSE
  BY <1>1 DEF contest_over, work_closed
<1>4. [i \in Milestones |-> line_of(i)] = [i \in Milestones |-> <<>>]
  BY <1>2
<1> QED
  BY <1>1, <1>3, <1>4 DEF Queues!Init, PaidPassed

(* The escrow implements the queues its agents stand in: a delivery joins  *)
(* at the end of its line, only the head is rejected or paid, a milestone  *)
(* pays once, and nobody leaves unjudged while the contest is on           *)
(* (ImplementsQueues) - for any number of agents, milestones and           *)
(* deliveries.                                                             *)
THEOREM EscrowImplementsQueues == Spec => ImplementsQueues
<1>1. TypeInv /\ TypeInv' /\ QueueInv /\ QueueInv' /\ PaidPassed /\ [Next]_vars
          => [Queues!Next]_seen
  <2> SUFFICES ASSUME TypeInv, TypeInv', QueueInv, QueueInv', PaidPassed, [Next]_vars
               PROVE  [Queues!Next]_seen
    OBVIOUS
  <2>1. LifeGoesOn
    <3>1. CASE Next
      BY <3>1, NextLife DEF TypeInv
    <3>2. CASE UNCHANGED vars
      <4>1. now \in Nat /\ status \in {"Uncreated", "Funding", "Funded", "Delivered", "Cancelled"}
        BY DEF TypeInv, TypeOK
      <4> QED
        BY <3>2, <4>1 DEF LifeGoesOn, vars, life
    <3> QED
      BY <3>1, <3>2
  <2> QED
    BY <2>1, StepQueues DEF AtWork
<1>2. Init => Queues!Init /\ PaidPassed
  BY InitQueues
<1>3. TypeInv /\ QueueInv /\ PaidPassed /\ [Next]_vars => PaidPassed'
  BY StepPaidPassed
<1> QED
  BY <1>1, <1>2, <1>3, QueueAlways, PTL DEF Spec, ImplementsQueues, Queues!Spec, seen
=============================================================================
