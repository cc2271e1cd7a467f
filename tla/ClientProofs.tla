---------------------------- MODULE ClientProofs ----------------------------
(***************************************************************************)
(* What the shared rules, the API and the agent's command line tell about  *)
(* a commission, for any number of agents, milestones and pledges.         *)
(***************************************************************************)
EXTENDS LedgerProofs, ClientPromises

-----------------------------------------------------------------------------
(* Nobody is told about work of its own that it is to judge: the creator   *)
(* has none.                                                               *)
NoneOfTheCreator == \A i \in Milestones, a \in Agents : waits(i, a) => a # Creator

\* A submission is made by one who is not the creator, and no step changes whose it is.
LEMMA StepNoneOfTheCreator ==
    ASSUME TypeInv, NoneOfTheCreator, [Next]_vars PROVE NoneOfTheCreator'
<1>1. submission \in [Milestones -> [Agents -> SubmissionAccounts]]
  BY DEF TypeInv, TypeOK
<1>2. CASE LineStays \/ vars' = vars
  BY <1>2 DEF LineStays, queue, vars, NoneOfTheCreator, waits
<1>3. ASSUME NEW j \in Milestones, NEW b \in Agents, LineStep(j, b),
             NEW i \in Milestones, NEW a \in Agents, waits(i, a)', a = Creator
      PROVE  FALSE
  <2>1. ~waits(i, a)
    BY <1>3 DEF NoneOfTheCreator
  <2>2. CASE SubmitDelivery(j, b)
    <3>1. b # a
      BY <1>3, <2>2 DEF SubmitDelivery, may_submit, workable
    <3> QED
      BY <1>1, <1>3, <2>1, <2>2, <3>1 DEF SubmitDelivery, may_submit, waits
  <2>3. CASE \E state \in {"Rejected", "Released"} : Judged(j, b, state)
    BY <1>3, <2>1, <2>3, JudgedAccount DEF TypeInv, waits
  <2>4. CASE CloseSubmission(j, b)
    <3>1. submission' = [submission EXCEPT ![j] = [@ EXCEPT ![b] = NoSubmission]]
      BY <2>4 DEF CloseSubmission, may_close_submission
    <3> QED
      BY <1>1, <1>3, <2>1, <3>1 DEF waits, NoSubmission
  <2> QED
    BY <1>3, <2>2, <2>3, <2>4 DEF LineStep, RejectDelivery, ReleaseMilestone, Judged
<1> QED
  BY <1>2, <1>3, NextLine DEF TypeInv, NoneOfTheCreator

\* So no queue ever holds work of the creator's own.
LEMMA NoneOfTheCreatorAlways == Spec => []NoneOfTheCreator
<1>1. Init => NoneOfTheCreator
  BY DEF Init, NoneOfTheCreator, waits, NoSubmission
<1>2. TypeInv /\ NoneOfTheCreator /\ [Next]_vars => NoneOfTheCreator'
  BY StepNoneOfTheCreator
<1>3. Spec => []TypeInv
  BY MoneyAlways, PTL
<1> QED
  BY <1>1, <1>2, <1>3, PTL DEF Spec

-----------------------------------------------------------------------------
(* A delivery that may be paid is one of the fronts the rules find.        *)
LEMMA ReleasableIsFront ==
    ASSUME TypeInv, NEW i \in Milestones, NEW a \in Agents, NEW c \in BOOLEAN,
           may_release(i, a, c)
    PROVE  /\ decodeSubmission(i, a) \in fronts(decodeCommission, submissionsFor)
           /\ decodeSubmission(i, a).agent = a
           /\ waits(i, a)
           /\ ~c => reviewExpired(decodeSubmission(i, a), terms.review_window, now)
<1>1. /\ submission[i][a].state = "Pending"
      /\ submission[i][a].sequence = milestone_rejected[i]
      /\ i \notin milestones_done
      /\ ~c => now >= submission[i][a].submitted_at + terms.review_window
  BY DEF may_release, at_front, milestone_released, review_expired
<1>2. i \in DOMAIN terms.milestone_bps
  <2>1. terms.milestone_bps \in Seq(Nat)
    BY DEF TypeInv, TypeOK
  <2>2. i \in 1 .. Len(terms.milestone_bps)
    BY <1>1 DEF TypeInv, Bookkeeping, Milestones, milestone_count
  <2> QED
    BY <2>1, <2>2
<1>3. decodeSubmission(i, a) \in submissionsFor
  <2>1. <<i, a>> \in { q \in Milestones \X Agents : submission[q[1]][q[2]].state # "Empty" }
    BY <1>1
  <2> QED
    BY <2>1 DEF submissionsFor
<1>4. decodeSubmission(i, a) \in frontOfQueue(decodeCommission, submissionsFor, i)
  BY <1>1, <1>3 DEF frontOfQueue, decodeSubmission, decodeCommission
<1>5. i \in unreleased(decodeCommission)
  BY <1>1, <1>2 DEF unreleased, decodeCommission
<1> QED
  BY <1>1, <1>4, <1>5 DEF fronts, decodeSubmission, waits, reviewExpired, reviewEndsAt

(* However many milestones and deliveries there are, the creator is told   *)
(* while its silence can pay one, and the agent once it does.              *)
THEOREM SilenceIsAnnounced == Spec => []SilenceAnnounced
<1>1. ASSUME TypeInv, NoneOfTheCreator, NEW i \in Milestones, NEW a \in Agents
      PROVE  /\ may_release(i, a, TRUE) => attention(Creator) \in {"review", "claimable"}
             /\ may_release(i, a, FALSE) => attention(a) = "claimable"
  <2> DEFINE s == decodeSubmission(i, a)
             found == fronts(decodeCommission, submissionsFor)
  <2>1. decodeCommission.reviewWindow = terms.review_window
    BY DEF decodeCommission
  <2>2. ASSUME may_release(i, a, TRUE) PROVE attention(Creator) \in {"review", "claimable"}
    <3>1. s \in found
      BY <1>1, <2>2, ReleasableIsFront
    <3> HIDE DEF s, found
    <3> QED
      BY <3>1 DEF attention, pendingAttention, found
  <2>3. ASSUME may_release(i, a, FALSE) PROVE attention(a) = "claimable"
    <3>1. /\ s \in found /\ s.agent = a /\ a # Creator
          /\ reviewExpired(s, terms.review_window, now)
      BY <1>1, <2>3, ReleasableIsFront DEF NoneOfTheCreator
    <3> HIDE DEF s, found
    <3> QED
      BY <2>1, <3>1 DEF attention, pendingAttention, found
  <2> QED
    BY <2>2, <2>3
<1>2. TypeInv /\ NoneOfTheCreator => SilenceAnnounced
  BY <1>1 DEF SilenceAnnounced
<1> QED
  BY <1>2, MoneyAlways, NoneOfTheCreatorAlways, PTL

-----------------------------------------------------------------------------
(* What a watching agent is told.                                          *)

\* A delivery of its own, as its command line lists it.
LEMMA ListedIffDelivered ==
    \A a \in Agents :
      /\ \A s \in mine_of(a) : \E i \in Milestones :
            s = decodeSubmission(i, a) /\ submission[i][a].state # "Empty"
      /\ \A i \in Milestones : submission[i][a].state # "Empty" =>
            decodeSubmission(i, a) \in mine_of(a)
<1> TAKE a \in Agents
<1> DEFINE live == { q \in Milestones \X Agents : submission[q[1]][q[2]].state # "Empty" }
<1>1. submissionsFor = { decodeSubmission(p[1], p[2]) : p \in live }
  BY DEF submissionsFor
<1>2. ASSUME NEW s \in mine_of(a)
      PROVE  \E i \in Milestones :
                 s = decodeSubmission(i, a) /\ submission[i][a].state # "Empty"
  <2>1. PICK p \in live : s = decodeSubmission(p[1], p[2])
    BY <1>1 DEF mine_of
  <2>2. s.agent = a /\ s.agent = p[2]
    BY <2>1 DEF mine_of, decodeSubmission
  <2> QED
    BY <2>1, <2>2
<1>3. ASSUME NEW i \in Milestones, submission[i][a].state # "Empty"
      PROVE  decodeSubmission(i, a) \in mine_of(a)
  <2>1. <<i, a>> \in live
    BY <1>3
  <2>2. decodeSubmission(i, a) \in submissionsFor
    BY <1>1, <2>1
  <2> QED
    BY <2>2 DEF mine_of, decodeSubmission
<1> QED
  BY <1>2, <1>3

\* A page of the next state lists what an agent has delivered by then.
LEMMA ListedNext ==
    \A a \in Agents, i \in Milestones :
        submission'[i][a].state # "Empty" => decodeSubmission(i, a)' \in mine_of(a)'
<1>1. \A a \in Agents, i \in Milestones :
          submission[i][a].state # "Empty" => decodeSubmission(i, a) \in mine_of(a)
  BY ListedIffDelivered
<1>2. (\A a \in Agents, i \in Milestones :
          submission[i][a].state # "Empty" => decodeSubmission(i, a) \in mine_of(a))'
  BY <1>1, PTL
<1> QED
  BY <1>2

\* One entry of the material state: a delivery, with where it stands and whether
\* it has matured.
entry(s) == << s.milestoneIndex, s.state, IF ahead(s) > 0 THEN ahead(s) ELSE 0, expired(s) >>
entries(a) == { entry(s) : s \in mine_of(a) }

(* A verdict is an entry, so a new one changes the material state.         *)
LEMMA VerdictIsEntry ==
    ASSUME NEW a \in Agents, entries(a)' = entries(a)
    PROVE  judged(a)' \subseteq judged(a)
<1> SUFFICES ASSUME NEW v \in judged(a)' PROVE v \in judged(a)
  OBVIOUS
<1>1. PICK s \in (mine_of(a) \ pending_mine(a))' : v = << s.milestoneIndex, s.state >>
  BY DEF judged
<1>2. s \in mine_of(a)' /\ s.state # "Pending"
  BY <1>1 DEF pending_mine
<1>3. entry(s)' \in entries(a)
  BY <1>2 DEF entries
<1>4. PICK r \in mine_of(a) : entry(s)' = entry(r)
  BY <1>3 DEF entries
<1>5. r.milestoneIndex = s.milestoneIndex /\ r.state = s.state
  BY <1>4 DEF entry
<1> QED
  BY <1>1, <1>2, <1>4, <1>5 DEF judged, pending_mine

(* A delivery that waits is not behind the front: what is shown as no      *)
(* place to wait for is the front itself.                                  *)
LEMMA FrontIsEntry ==
    ASSUME TypeInv, QueueInv, NEW a \in Agents, NEW i \in Milestones,
           << i, "Pending", 0, TRUE >> \in entries(a)
    PROVE  at_front(i, a) /\ review_expired(submission[i][a])
<1>1. PICK s \in mine_of(a) : << i, "Pending", 0, TRUE >> = entry(s)
  BY DEF entries
<1>2. PICK j \in Milestones : s = decodeSubmission(j, a)
  BY <1>1, ListedIffDelivered
<1>3. /\ s.milestoneIndex = j /\ s.state = submission[j][a].state
      /\ s.sequence = place(j, a) /\ s.submittedAt = since(j, a)
  BY <1>2 DEF decodeSubmission, place, since
<1>4. i = j /\ s.state = "Pending" /\ ~(ahead(s) > 0) /\ expired(s)
  <2>1. i = s.milestoneIndex /\ s.state = "Pending" /\ expired(s)
    BY <1>1 DEF entry
  <2>2. 0 = IF ahead(s) > 0 THEN ahead(s) ELSE 0
    BY <1>1 DEF entry
  <2>3. ahead(s) \in Int
    BY <1>3 DEF ahead, TypeInv, TypeOK, place, SubmissionAccounts
  <2> QED
    BY <1>3, <2>1, <2>2, <2>3
<1>5. waits(i, a) /\ milestone_rejected[i] <= place(i, a)
  BY <1>3, <1>4 DEF waits, QueueInv, InLine
<1>6. place(i, a) = milestone_rejected[i]
  <2>1. place(i, a) \in Nat /\ milestone_rejected[i] \in Nat
    BY DEF TypeInv, TypeOK, place, SubmissionAccounts
  <2>2. ahead(s) = place(i, a) - milestone_rejected[i]
    BY <1>3, <1>4 DEF ahead
  <2> QED
    BY <1>4, <1>5, <2>1, <2>2
<1>7. now >= since(i, a) + terms.review_window
  BY <1>3, <1>4 DEF expired, reviewExpired, reviewEndsAt
<1> QED
  BY <1>5, <1>6, <1>7 DEF at_front, review_expired, waits, place, since

(* What else a payment asks for only gets scarcer while deliveries wait.   *)
LEMMA PaymentOnlyFades ==
    ASSUME TypeInv, MoneyInv, TypeInv', Next, status # "Uncreated",
           NEW i \in Milestones, NEW a \in Agents,
           at_front(i, a), review_expired(submission[i][a]),
           milestones_done' = milestones_done, may_release(i, a, FALSE)'
    PROVE  may_release(i, a, FALSE)
<1>1. status \notin {"Uncreated", "Funding"}
  BY DEF at_front, TypeInv, Bookkeeping
<1>2. UNCHANGED <<terms, work_deadline>>
  BY <1>1, NextLife DEF LifeGoesOn, TypeInv
<1>3. total_pledged' = total_pledged
  <2>1. \A b \in Backers, amount \in PledgeAmounts : ~Pledge(b, amount)
    BY <1>1 DEF Pledge, may_pledge
  <2>2. CASE SumsStay
    BY <2>2 DEF SumsStay
  <2>3. CASE \E j \in Milestones, b \in Agents, c \in BOOLEAN : ReleaseMilestone(j, b, c)
    BY <2>3 DEF ReleaseMilestone
  <2>4. CASE \E b \in Backers : Refund(b) \/ ClosePledge(b)
    BY <2>4 DEF Refund, ClosePledge, may_close_pledge
  <2> QED
    BY <2>1, <2>2, <2>3, <2>4, NextSums DEF BackerStep
<1>4. /\ total_pledged \in Nat /\ released \in Nat /\ refunded \in Nat
      /\ released' \in Nat /\ refunded' \in Nat
      /\ released' + refunded' >= released + refunded
  BY OutflowsGrow DEF TypeInv, TypeOK
<1>5. vault_owned
  <2>1. vault_owned' => vault_owned
    <3>1. CASE LineStays /\ \A o \in Offers : ~CreateCommission(o)
      <4>1. ASSUME NEW b \in Backers, BackerStep(b) PROVE vault_owned' => vault_owned
        BY <4>1 DEF BackerStep, Pledge, Refund, ClosePledge, may_close_pledge, vault
      <4>2. ASSUME NEW b \in Agents,
                   SignalIntent(b) \/ WithdrawIntent(b) \/ CloseIntent(b) \/
                   \E j \in Milestones :
                      \/ SubmitDelivery(j, b) \/ RejectDelivery(j, b) \/ CloseSubmission(j, b)
                      \/ \E c \in BOOLEAN : ReleaseMilestone(j, b, c)
            PROVE  vault_owned' => vault_owned
        BY <4>2 DEF SignalIntent, WithdrawIntent, CloseIntent, SubmitDelivery,
           may_submit, RejectDelivery,
           CloseSubmission, may_close_submission, ReleaseMilestone, vault
      <4> QED
        BY <3>1, <4>1, <4>2 DEF Next, AgentStep, Tick, InitConfig, SetPaused, InviteAgent,
           Cancel, CloseVault, Donate, vault
    <3>2. CASE \E j \in Milestones, b \in Agents : LineStep(j, b)
      BY <3>2 DEF LineStep, SubmitDelivery, may_submit, RejectDelivery, CloseSubmission,
         may_close_submission, ReleaseMilestone,
         vault
    <3> QED
      BY <1>1, <3>1, <3>2, NextLine DEF TypeInv, CreateCommission, may_create
  <2> QED
    BY <2>1 DEF may_release
<1>6. gross_of(i) # 0 /\ gross_of(i) <= escrow_remaining
  <2>1. PICK here \in Nat, there \in Nat :
            /\ here = escrow_remaining /\ there = escrow_remaining' /\ there <= here
    <3>1. PICK p \in Nat, out \in Nat, more \in Nat :
              /\ p = total_pledged /\ p = total_pledged' /\ out = released + refunded
              /\ more = released' + refunded' /\ out <= more /\ more <= p
      <4>1. released' + refunded' <= total_pledged'
        BY DEF TypeInv, Bookkeeping
      <4>2. PICK r \in Nat, f \in Nat : r = released' /\ f = refunded'
        BY <1>4
      <4>3. r + f \in Nat /\ released + refunded \in Nat
        BY <1>4
      <4>4. released + refunded <= r + f /\ r + f <= total_pledged
        BY <1>3, <1>4, <4>1, <4>2
      <4> QED
        BY <1>3, <1>4, <4>2, <4>3, <4>4
    <3>2. escrow_remaining = p - out /\ escrow_remaining' = p - more
      BY <1>4, <3>1 DEF escrow_remaining
    <3>3. p - out \in Nat /\ p - more \in Nat /\ p - more <= p - out
      BY <3>1
    <3> QED
      BY <3>2, <3>3
  <2>2. completes_schedule(i)' <=> completes_schedule(i)
    BY <1>2 DEF completes_schedule, milestone_count
  <2>3. CASE completes_schedule(i)
    <3>1. gross_of(i) = here /\ gross_of(i)' = there
      BY <2>1, <2>2, <2>3 DEF gross_of
    <3>2. there # 0 /\ there <= here
      BY <2>1, <3>1 DEF may_release
    <3> QED
      BY <2>1, <3>1, <3>2
  <2>4. CASE ~completes_schedule(i)
    <3>1. gross_of(i) = gross_of(i)'
      BY <1>2, <1>3, <2>2, <2>4 DEF gross_of
    <3>2. gross_of(i)' # 0 /\ gross_of(i)' <= there
      BY <2>1 DEF may_release
    <3>3. gross_of(i)' \in Nat
      <4>1. at_front(i, a)'
        BY DEF may_release
      <4>2. gross_of(i) \in Nat
        BY GrossType
      <4> QED
        BY <3>1, <4>2
    <3> QED
      BY <2>1, <3>1, <3>2, <3>3
  <2> QED
    BY <2>3, <2>4
<1>7. ~milestone_released(i)
  BY DEF may_release, milestone_released
<1> QED
  BY <1>5, <1>6, <1>7 DEF may_release

(* Leaving out every countdown leaves out no news: whatever lets the agent *)
(* work, judges a delivery of its own or lets it collect is announced.     *)
THEOREM NoNewsLeftOut == Spec => NewsIsMaterial
<1>1. ASSUME TypeInv, MoneyInv, QueueInv, TypeInv', QueueInv', Next, status # "Uncreated",
             NEW a \in Agents,
             \/ collectable(a)' \ collectable(a) # {}
             \/ judged(a)' \ judged(a) # {}
             \/ open_to(a)' /\ ~open_to(a)
      PROVE  relevant(a)' /\ materialState(a)' # materialState(a)
  <2>0. \A i \in Milestones : submission'[i][a].state # "Empty" =>
            decodeSubmission(i, a)' \in mine_of(a)'
    BY ListedNext
  <2>1. relevant(a)'
    <3>1. ASSUME NEW i \in collectable(a)' PROVE mine_of(a)' # {}
      <4>1. i \in Milestones /\ submission'[i][a].state = "Pending"
        BY <3>1 DEF collectable, may_release, at_front
      <4>2. decodeSubmission(i, a)' \in mine_of(a)'
        BY <2>0, <4>1
      <4> QED
        BY <4>2
    <3>2. ASSUME NEW v \in judged(a)' PROVE mine_of(a)' # {}
      BY <3>2 DEF judged
    <3> QED
      BY <1>1, <3>1, <3>2 DEF relevant
  <2>2. ASSUME materialState(a)' = materialState(a) PROVE FALSE
    <3>1. /\ open_to(a)' = open_to(a)
          /\ milestones_done' = milestones_done
          /\ entries(a)' = entries(a)
      BY <2>2 DEF materialState, entries, entry
    <3>2. judged(a)' \subseteq judged(a)
      BY <3>1, VerdictIsEntry
    <3>3. ASSUME NEW i \in collectable(a)' PROVE i \in collectable(a)
      <4>1. i \in Milestones /\ may_release(i, a, FALSE)'
        BY <3>3 DEF collectable
      <4>2. << i, "Pending", 0, TRUE >> \in entries(a)'
        <5>0. PICK s : s = decodeSubmission(i, a)'
          OBVIOUS
        <5>1. /\ submission'[i][a].state = "Pending"
              /\ submission'[i][a].sequence = milestone_rejected'[i]
              /\ now' >= submission'[i][a].submitted_at + terms'.review_window
          BY <4>1 DEF may_release, at_front, review_expired
        <5>2. s \in mine_of(a)'
          BY <2>0, <4>1, <5>0, <5>1
        <5>3. /\ s.milestoneIndex = i /\ s.state = "Pending"
              /\ s.sequence = milestone_rejected'[i]
              /\ s.submittedAt = submission'[i][a].submitted_at
          BY <5>0, <5>1 DEF decodeSubmission
        <5>4. milestone_rejected'[i] \in Nat
          BY <1>1, <4>1 DEF TypeInv, TypeOK
        <5>5. entry(s)' = << i, "Pending", 0, TRUE >>
          <6>1. ahead(s)' = 0
            BY <5>3, <5>4 DEF ahead
          <6>2. expired(s)' = TRUE
            BY <5>1, <5>3 DEF expired, reviewExpired, reviewEndsAt
          <6> QED
            BY <5>3, <6>1, <6>2 DEF entry
        <5> QED
          BY <5>2, <5>5 DEF entries
      <4>3. at_front(i, a) /\ review_expired(submission[i][a])
        BY <1>1, <3>1, <4>1, <4>2, FrontIsEntry
      <4>4. may_release(i, a, FALSE)
        BY <1>1, <3>1, <4>1, <4>3, PaymentOnlyFades
      <4> QED
        BY <4>1, <4>4 DEF collectable
    <3> QED
      BY <1>1, <3>1, <3>2, <3>3
  <2> QED
    BY <2>1, <2>2
<1>2. TypeInv /\ MoneyInv /\ QueueInv /\ (TypeInv /\ QueueInv)' /\ [Next]_vars =>
        [ status # "Uncreated" => \A a \in Agents :
            \/ collectable(a)' \ collectable(a) # {}
            \/ judged(a)' \ judged(a) # {}
            \/ open_to(a)' /\ ~open_to(a)
            => relevant(a)' /\ materialState(a)' # materialState(a) ]_vars
  BY <1>1
<1> QED
  BY <1>2, QueueAlways, PTL DEF Spec, NewsIsMaterial

-----------------------------------------------------------------------------
(***************************************************************************)
(* What the rules offer, and what the program's guards let through.        *)
(*                                                                         *)
(* First the two are compared as predicates of one commission; then the    *)
(* transactions the builders and the API make of an offer are followed     *)
(* through the accounts they name to the guards they meet.                 *)
(***************************************************************************)

\* Whatever is offered, by the right clock or (an exit, a payment, a deposit) by
\* one that lags, passes the guard of its instruction.
OffersMeetGuards ==
    status # "Uncreated" =>
      \A w \in Wallets :
        /\ "cancel" \in offered(w, now) => may_cancel(w = Creator)
        /\ "refund" \in offered(w, now) /\ w \in live_pledges /\ status # "Delivered"
              => may_refund(w) /\ vault_lamports >= refund_amount(w)
        /\ \A s \in settled_by(w, now) :
              /\ s.agent = w /\ submission[s.milestoneIndex][w].state # "Empty"
              /\ submission_settled(s.milestoneIndex, w)
        /\ \A s \in fronts(decodeCommission, submissionsFor) :
              IF s \in matured(now)
              THEN refunded = 0 =>
                     /\ may_release(s.milestoneIndex, s.agent, w = Creator)
                     /\ vault_lamports >= gross_of(s.milestoneIndex)
              ELSE "rejectDelivery" \in offers(w, now) =>
                     w = Creator /\ may_reject(s.milestoneIndex, s.agent)
        /\ "closePledge" \in offers(w, now) => status = "Delivered" /\ escrow_remaining = 0
        /\ "closeVault" \in offers(w, now) => vault_settled
        /\ \A s \in nextToJudge : judgeable_and_paid(s)
        /\ w \in Agents => \A i \in Milestones :
              /\ may_release(i, w, FALSE) => claim(w, i) # {}
              /\ claim(w, i) # {} /\ refunded = 0 =>
                    /\ may_release(i, w, FALSE) /\ vault_lamports >= gross_of(i)
                    /\ << i, "claimable now" >> \in describe(w)

\* Whatever passes the guard of an instruction is offered to the wallet it is for.
GuardsAreOffered ==
    status # "Uncreated" =>
      \A w \in Wallets :
        LET on_offer == offers(w, now) IN
        /\ (\E amount \in PledgeAmounts : may_pledge(amount)) => "pledge" \in on_offer
        /\ workable(w) => "signalIntent" \in on_offer /\ "submitDelivery" \in on_offer
        /\ w \in Backers /\ may_refund(w) => "refund" \in on_offer
        /\ may_cancel(w = Creator) => "cancel" \in on_offer
        /\ vault_settled => "closeVault" \in on_offer
        /\ status = "Delivered" /\ escrow_remaining = 0 /\ live_pledges # {}
              => "closePledge" \in on_offer
        /\ \A i \in Milestones, a \in Agents :
              /\ a = w /\ submission[i][a].state # "Empty" /\ submission_settled(i, a)
                    => "closeSubmission" \in on_offer
              /\ may_release(i, a, w = Creator) => "releaseMilestone" \in on_offer
              /\ w = Creator /\ may_reject(i, a) => "rejectDelivery" \in on_offer

(* The decoded account says what the program's own account says.           *)
LEMMA ReadsOff ==
    ASSUME TypeInv, status # "Uncreated", NEW u
    PROVE  /\ claimProtected(decodeCommission, u) <=>
                 /\ unresolved_submissions > 0
                 /\ u < latest_submitted_at + terms.review_window + CLAIM_GRACE_WINDOW
           /\ workClosed(decodeCommission, u) <=> work_deadline > 0 /\ u >= work_deadline
           /\ decodeCommission.status = "funding" <=> status = "Funding"
           /\ decodeCommission.status = "funded" <=> status = "Funded"
           /\ decodeCommission.status = "shipped" <=> status = "Delivered"
           /\ decodeCommission.status = "refunded" <=> status = "Cancelled"
           /\ unreleased(decodeCommission) = Schedule \ milestones_done
<1>1. /\ claimProtected(decodeCommission, u) <=>
            /\ unresolved_submissions > 0
            /\ u < latest_submitted_at + terms.review_window + CLAIM_GRACE_WINDOW
      /\ workClosed(decodeCommission, u) <=> work_deadline > 0 /\ u >= work_deadline
  BY DEF claimProtected, workClosed, decodeCommission
<1>2. decodeCommission.status = STATUS[status]
  BY DEF decodeCommission
<1>3. status \in {"Funding", "Funded", "Delivered", "Cancelled"}
  BY DEF TypeInv, TypeOK
<1>4. unreleased(decodeCommission) = Schedule \ milestones_done
  <2>1. terms.milestone_bps \in Seq(Nat)
    BY DEF TypeInv, TypeOK
  <2>2. DOMAIN terms.milestone_bps = Schedule
    BY <2>1 DEF Schedule, milestone_count
  <2> QED
    BY <2>2 DEF unreleased, decodeCommission
<1> QED
  BY <1>1, <1>2, <1>3, <1>4 DEF STATUS

(* Which rule offers what.                                                 *)
LEMMA OfferKinds ==
    ASSUME NEW w, NEW u
    PROVE  LET c == decodeCommission
               on_offer == offers(w, u)
               leaving == actions_for_leaving(c, w, u)
               judging == actions_for_judging(c, w, submissionsFor, u)
               deposits == actions_for_deposits(c, w, submissionsFor, u)
           IN  /\ "pledge" \in on_offer <=> c.status = "funding" /\ u < c.deadline
               /\ canWork(c, w, u) /\ unreleased(c) # {}
                     => "signalIntent" \in on_offer /\ "submitDelivery" \in on_offer
               /\ "inviteAgent" \in on_offer <=>
                     w = Creator /\ c.status \in {"funding", "funded"}
               /\ "cancel" \in on_offer <=> "cancel" \in leaving
               /\ "refund" \in on_offer <=> "refund" \in leaving
               /\ "releaseMilestone" \in on_offer <=> "releaseMilestone" \in judging
               /\ "rejectDelivery" \in on_offer <=> "rejectDelivery" \in judging
               /\ "closeSubmission" \in on_offer <=> "closeSubmission" \in deposits
               /\ "closePledge" \in on_offer <=> "closePledge" \in deposits
               /\ "closeVault" \in on_offer <=> "closeVault" \in deposits
<1> DEFINE c == decodeCommission
           pledging == IF c.status = "funding" /\ u < c.deadline THEN {"pledge"} ELSE {}
           work == actions_for_work(c, w, u)
           inviting == IF w = Creator /\ c.status \in {"funding", "funded"}
                       THEN {"inviteAgent"} ELSE {}
           judging == actions_for_judging(c, w, submissionsFor, u)
           leaving == actions_for_leaving(c, w, u)
           deposits == actions_for_deposits(c, w, submissionsFor, u)
<1>1. offers(w, u) = UNION {pledging, work, inviting, judging, leaving, deposits}
  BY DEF offers, availableActions
<1>2. pledging \subseteq {"pledge"} /\ inviting \subseteq {"inviteAgent"}
  OBVIOUS
<1>3. /\ work \subseteq {"submitDelivery", "signalIntent"}
      /\ canWork(c, w, u) /\ unreleased(c) # {} => work = {"submitDelivery", "signalIntent"}
  BY DEF actions_for_work
<1>4. judging \subseteq {"releaseMilestone", "rejectDelivery"}
  BY DEF actions_for_judging
<1>5. leaving \subseteq {"cancel", "refund"}
  BY DEF actions_for_leaving
<1>6. deposits \subseteq {"closeSubmission", "closePledge", "closeVault"}
  BY DEF actions_for_deposits
<1>7. /\ "pledge" \in pledging <=> c.status = "funding" /\ u < c.deadline
      /\ "inviteAgent" \in inviting <=>
            w = Creator /\ c.status \in {"funding", "funded"}
  OBVIOUS
<1> HIDE DEF pledging, work, inviting, judging, leaving, deposits, c
<1>8. /\ "pledge" \in offers(w, u) <=> "pledge" \in pledging
      /\ "signalIntent" \in work => "signalIntent" \in offers(w, u)
      /\ "submitDelivery" \in work => "submitDelivery" \in offers(w, u)
      /\ "inviteAgent" \in offers(w, u) <=> "inviteAgent" \in inviting
      /\ "cancel" \in offers(w, u) <=> "cancel" \in leaving
      /\ "refund" \in offers(w, u) <=> "refund" \in leaving
      /\ "releaseMilestone" \in offers(w, u) <=> "releaseMilestone" \in judging
      /\ "rejectDelivery" \in offers(w, u) <=> "rejectDelivery" \in judging
      /\ "closeSubmission" \in offers(w, u) <=> "closeSubmission" \in deposits
      /\ "closePledge" \in offers(w, u) <=> "closePledge" \in deposits
      /\ "closeVault" \in offers(w, u) <=> "closeVault" \in deposits
  BY <1>1, <1>2, <1>3, <1>4, <1>5, <1>6
<1> QED
  BY <1>3, <1>7, <1>8 DEF c, work, leaving, judging, deposits

\* The clocks that end a commission, read at u.
closed_by(u) == work_deadline > 0 /\ u >= work_deadline
shielded_at(u) ==
    /\ unresolved_submissions > 0
    /\ u < latest_submitted_at + terms.review_window + CLAIM_GRACE_WINDOW

(* When a way out, or a deposit, is offered, said of the program's state.  *)
LEMMA OfferedWhen ==
    ASSUME TypeInv, status # "Uncreated", NEW w, NEW u \in Nat
    PROVE  /\ "cancel" \in offers(w, u) <=>
                 /\ ~shielded_at(u)
                 /\ \/ w = Creator /\ status = "Funding"
                    \/ /\ status \in {"Funding", "Funded"}
                       /\ u >= terms.deadline \/ closed_by(u)
           /\ "refund" \in offers(w, u) <=>
                 /\ ~shielded_at(u)
                 /\ \/ status = "Cancelled"
                    \/ u >= terms.deadline /\ status \in {"Funding", "Funded"}
                    \/ closed_by(u)
           /\ "closePledge" \in offers(w, u) <=>
                 status = "Delivered" /\ released + refunded >= total_pledged /\ pledger_count > 0
           /\ "closeVault" \in offers(w, u) <=>
                 /\ released + refunded >= total_pledged
                 /\ \/ status = "Delivered"
                    \/ status = "Cancelled" /\ refunded_pledger_count >= pledger_count
           /\ "closeSubmission" \in offers(w, u) <=>
                 settledForMe(decodeCommission, w, submissionsFor, u) # {}
<1> DEFINE c == decodeCommission
<1>1. /\ claimProtected(c, u) <=> shielded_at(u)
      /\ workClosed(c, u) <=> closed_by(u)
      /\ c.status = "funding" <=> status = "Funding"
      /\ c.status = "funded" <=> status = "Funded"
      /\ c.status = "shipped" <=> status = "Delivered"
      /\ c.status = "refunded" <=> status = "Cancelled"
  BY ReadsOff DEF shielded_at, closed_by
<1>2. /\ c.deadline = terms.deadline /\ c.released = released /\ c.refunded = refunded
      /\ c.pledged = total_pledged /\ c.pledgerCount = pledger_count
      /\ c.refundedPledgerCount = refunded_pledger_count
  BY DEF decodeCommission
<1> HIDE DEF c
<1>3. /\ "cancel" \in actions_for_leaving(c, w, u) <=>
            /\ ~claimProtected(c, u)
            /\ \/ w = Creator /\ c.status = "funding"
               \/ /\ c.status \in {"funding", "funded"}
                  /\ u >= c.deadline \/ workClosed(c, u)
      /\ "refund" \in actions_for_leaving(c, w, u) <=>
            /\ ~claimProtected(c, u)
            /\ \/ c.status = "refunded"
               \/ u >= c.deadline /\ c.status \in {"funding", "funded"}
               \/ workClosed(c, u)
  BY DEF actions_for_leaving
<1>4. /\ "pledge" \in reclaimableRent(c) <=>
            c.status = "shipped" /\ c.released + c.refunded >= c.pledged /\ c.pledgerCount > 0
      /\ "vault" \in reclaimableRent(c) <=>
            /\ c.released + c.refunded >= c.pledged
            /\ \/ c.status = "shipped"
               \/ c.status = "refunded" /\ c.refundedPledgerCount >= c.pledgerCount
  BY DEF reclaimableRent
<1>5. /\ "closePledge" \in actions_for_deposits(c, w, submissionsFor, u) <=>
            "pledge" \in reclaimableRent(c)
      /\ "closeVault" \in actions_for_deposits(c, w, submissionsFor, u) <=>
            "vault" \in reclaimableRent(c)
      /\ "closeSubmission" \in actions_for_deposits(c, w, submissionsFor, u) <=>
            settledForMe(c, w, submissionsFor, u) # {}
  BY DEF actions_for_deposits
<1>6. /\ "cancel" \in offers(w, u) <=> "cancel" \in actions_for_leaving(c, w, u)
      /\ "refund" \in offers(w, u) <=> "refund" \in actions_for_leaving(c, w, u)
      /\ "closeSubmission" \in offers(w, u) <=>
            "closeSubmission" \in actions_for_deposits(c, w, submissionsFor, u)
      /\ "closePledge" \in offers(w, u) <=>
            "closePledge" \in actions_for_deposits(c, w, submissionsFor, u)
      /\ "closeVault" \in offers(w, u) <=>
            "closeVault" \in actions_for_deposits(c, w, submissionsFor, u)
  BY OfferKinds DEF c
<1>7. /\ "cancel" \in offers(w, u) <=>
            /\ ~shielded_at(u)
            /\ \/ w = Creator /\ status = "Funding"
               \/ /\ status \in {"Funding", "Funded"}
                  /\ u >= terms.deadline \/ closed_by(u)
      /\ "refund" \in offers(w, u) <=>
            /\ ~shielded_at(u)
            /\ \/ status = "Cancelled"
               \/ u >= terms.deadline /\ status \in {"Funding", "Funded"}
               \/ closed_by(u)
  BY <1>1, <1>2, <1>3, <1>6
<1>8. /\ "closePledge" \in offers(w, u) <=>
            status = "Delivered" /\ released + refunded >= total_pledged /\ pledger_count > 0
      /\ "closeVault" \in offers(w, u) <=>
            /\ released + refunded >= total_pledged
            /\ \/ status = "Delivered"
               \/ status = "Cancelled" /\ refunded_pledger_count >= pledger_count
      /\ "closeSubmission" \in offers(w, u) <=> settledForMe(c, w, submissionsFor, u) # {}
  BY <1>1, <1>2, <1>4, <1>5, <1>6
<1> QED
  BY <1>7, <1>8 DEF c

(* The deliveries listed are those that have an account.                   *)
LEMMA ListedAccounts ==
    /\ \A s \in submissionsFor : \E i \in Milestones, a \in Agents :
          s = decodeSubmission(i, a) /\ submission[i][a].state # "Empty"
    /\ \A i \in Milestones, a \in Agents :
          submission[i][a].state # "Empty" => decodeSubmission(i, a) \in submissionsFor
<1> DEFINE live == { q \in Milestones \X Agents : submission[q[1]][q[2]].state # "Empty" }
<1>1. submissionsFor = { decodeSubmission(p[1], p[2]) : p \in live }
  BY DEF submissionsFor
<1>2. ASSUME NEW s \in submissionsFor
      PROVE  \E i \in Milestones, a \in Agents :
                 s = decodeSubmission(i, a) /\ submission[i][a].state # "Empty"
  <2>1. PICK p \in live : s = decodeSubmission(p[1], p[2])
    BY <1>1
  <2> QED
    BY <2>1
<1>3. ASSUME NEW i \in Milestones, NEW a \in Agents, submission[i][a].state # "Empty"
      PROVE  decodeSubmission(i, a) \in submissionsFor
  <2>1. <<i, a>> \in live
    BY <1>3
  <2> QED
    BY <1>1, <2>1
<1> QED
  BY <1>2, <1>3

(* The one delivery a milestone can have judged is the one the program     *)
(* would judge, and every milestone not yet paid is looked at.             *)
LEMMA FrontsAreFronts ==
    ASSUME TypeInv, status # "Uncreated"
    PROVE  /\ \A k : \A s \in frontOfQueue(decodeCommission, submissionsFor, k) :
                 \E i \in Milestones, a \in Agents :
                    i = k /\ s = decodeSubmission(i, a) /\ at_front(i, a)
           /\ \A i \in Milestones, a \in Agents : at_front(i, a) =>
                 decodeSubmission(i, a) \in frontOfQueue(decodeCommission, submissionsFor, i)
           /\ \A s \in fronts(decodeCommission, submissionsFor) :
                 \E i \in Milestones, a \in Agents :
                    s = decodeSubmission(i, a) /\ at_front(i, a) /\ ~milestone_released(i)
           /\ \A i \in Milestones, a \in Agents : at_front(i, a) /\ ~milestone_released(i) =>
                 decodeSubmission(i, a) \in fronts(decodeCommission, submissionsFor)
<1>1. ASSUME NEW k, NEW s \in frontOfQueue(decodeCommission, submissionsFor, k)
      PROVE  \E i \in Milestones, a \in Agents :
                 i = k /\ s = decodeSubmission(i, a) /\ at_front(i, a)
  <2>1. /\ s \in submissionsFor /\ s.milestoneIndex = k /\ s.state = "Pending"
        /\ s.sequence = milestone_rejected[k]
    BY <1>1 DEF frontOfQueue, decodeCommission
  <2>2. PICK i \in Milestones, a \in Agents : s = decodeSubmission(i, a)
    BY <2>1, ListedAccounts
  <2> QED
    BY <2>1, <2>2 DEF decodeSubmission, at_front
<1>2. ASSUME NEW i \in Milestones, NEW a \in Agents, at_front(i, a)
      PROVE  decodeSubmission(i, a) \in frontOfQueue(decodeCommission, submissionsFor, i)
  <2>1. decodeSubmission(i, a) \in submissionsFor
    BY <1>2, ListedAccounts DEF at_front
  <2> QED
    BY <1>2, <2>1 DEF frontOfQueue, decodeCommission, decodeSubmission, at_front
<1>3. unreleased(decodeCommission) = Schedule \ milestones_done
  BY ReadsOff
<1>4. ASSUME NEW s \in fronts(decodeCommission, submissionsFor)
      PROVE  \E i \in Milestones, a \in Agents :
                 s = decodeSubmission(i, a) /\ at_front(i, a) /\ ~milestone_released(i)
  <2>1. PICK k \in Schedule \ milestones_done :
            s \in frontOfQueue(decodeCommission, submissionsFor, k)
    BY <1>3, <1>4 DEF fronts
  <2> QED
    BY <1>1, <2>1 DEF milestone_released
<1>5. ASSUME NEW i \in Milestones, NEW a \in Agents, at_front(i, a), ~milestone_released(i)
      PROVE  decodeSubmission(i, a) \in fronts(decodeCommission, submissionsFor)
  <2>1. i \in Schedule \ milestones_done
    BY <1>5 DEF TypeInv, Bookkeeping, at_front, Schedule, Milestones, milestone_released
  <2> QED
    BY <1>2, <1>3, <1>5, <2>1 DEF fronts
<1> QED
  BY <1>1, <1>2, <1>4, <1>5

(* Deliveries whose deposit is offered home are ones the program is done   *)
(* with, by any clock that lags, and all of them are found.                *)
LEMMA SettledWhen ==
    ASSUME TypeInv, status # "Uncreated", NEW w
    PROVE  /\ \A u \in 0 .. now :
                \A s \in settledForMe(decodeCommission, w, submissionsFor, u) :
                   \E i \in Milestones :
                      /\ w \in Agents /\ s = decodeSubmission(i, w)
                      /\ submission[i][w].state # "Empty" /\ submission_settled(i, w)
           /\ \A i \in Milestones :
                w \in Agents /\ submission[i][w].state # "Empty" /\ submission_settled(i, w)
                => decodeSubmission(i, w)
                      \in settledForMe(decodeCommission, w, submissionsFor, now)
<1>0. /\ now \in Nat /\ work_deadline \in Nat /\ latest_submitted_at \in Nat
      /\ terms.review_window \in Nat /\ CLAIM_GRACE_WINDOW \in Nat
      /\ unresolved_submissions \in Nat
  BY WindowAssumption DEF TypeInv, TypeOK
<1>1. ASSUME NEW u \in 0 .. now,
             NEW s \in settledForMe(decodeCommission, w, submissionsFor, u)
      PROVE  \E i \in Milestones :
                /\ w \in Agents /\ s = decodeSubmission(i, w)
                /\ submission[i][w].state # "Empty" /\ submission_settled(i, w)
  <2>1. /\ s \in submissionsFor /\ s.agent = w
        /\ \/ s.state # "Pending"
           \/ s.milestoneIndex \in milestones_done
           \/ decodeCommission.status = "refunded"
           \/ workClosed(decodeCommission, u) /\ ~claimProtected(decodeCommission, u)
    BY <1>1 DEF settledForMe, decodeCommission
  <2>2. PICK i \in Milestones, a \in Agents :
            s = decodeSubmission(i, a) /\ submission[i][a].state # "Empty"
    BY <2>1, ListedAccounts
  <2>3. /\ a = w /\ s.state = submission[i][w].state /\ s.milestoneIndex = i
    BY <2>1, <2>2 DEF decodeSubmission
  <2>4. ASSUME workClosed(decodeCommission, u), ~claimProtected(decodeCommission, u)
        PROVE  work_closed /\ ~claim_protected
    <3>1. work_deadline > 0 /\ u >= work_deadline
      BY <2>4, ReadsOff
    <3>2. ~(/\ unresolved_submissions > 0
            /\ u < latest_submitted_at + terms.review_window + CLAIM_GRACE_WINDOW)
      BY <2>4, ReadsOff
    <3> QED
      BY <1>0, <1>1, <3>1, <3>2 DEF work_closed, claim_protected
  <2>5. decodeCommission.status = "refunded" => status = "Cancelled"
    BY ReadsOff
  <2>6. submission_settled(i, w)
    BY <2>1, <2>3, <2>4, <2>5 DEF submission_settled, milestone_released
  <2> QED
    BY <2>2, <2>3, <2>6
<1>2. ASSUME NEW i \in Milestones, w \in Agents, submission[i][w].state # "Empty",
             submission_settled(i, w)
      PROVE  decodeSubmission(i, w) \in settledForMe(decodeCommission, w, submissionsFor, now)
  <2>1. decodeSubmission(i, w) \in submissionsFor
    BY <1>2, ListedAccounts
  <2>2. /\ status = "Cancelled" => decodeCommission.status = "refunded"
        /\ work_closed => workClosed(decodeCommission, now)
        /\ ~claim_protected => ~claimProtected(decodeCommission, now)
    BY ReadsOff DEF work_closed, claim_protected
  <2>3. \/ decodeSubmission(i, w).state # "Pending"
        \/ decodeSubmission(i, w).milestoneIndex \in decodeCommission.milestonesDone
        \/ decodeCommission.status = "refunded"
        \/ workClosed(decodeCommission, now) /\ ~claimProtected(decodeCommission, now)
    BY <1>2, <2>2
    DEF submission_settled, milestone_released, decodeSubmission, decodeCommission
  <2>4. decodeSubmission(i, w).agent = w
    BY DEF decodeSubmission
  <2> QED
    BY <2>1, <2>3, <2>4 DEF settledForMe
<1> QED
  BY <1>1, <1>2

-----------------------------------------------------------------------------
\* There is something left to deliver as long as work is open.
WorkLeft == status = "Funded" => milestones_done # Schedule

\* A release takes one milestone off what is left, and the last one completes.
LEMMA StepWorkLeft == TypeInv /\ ScheduleInv /\ WorkLeft /\ [Next]_vars => WorkLeft'
<1> SUFFICES ASSUME TypeInv, ScheduleInv, WorkLeft, [Next]_vars PROVE WorkLeft'
  OBVIOUS
<1> DEFINE quiet == /\ UNCHANGED <<terms, milestones_done>>
                    /\ status' # "Funded" \/ status' = status
<1>1. ASSUME quiet PROVE WorkLeft'
  BY <1>1 DEF WorkLeft, Schedule, milestone_count
<1> USE DEF life, money, queue
<1>2. CASE Tick \/ InitConfig \/ CloseVault \/ Donate \/ \E p \in BOOLEAN : SetPaused(p)
  BY <1>1, <1>2 DEF Tick, InitConfig, CloseVault, Donate, SetPaused
<1>3. CASE \/ \E k \in Agents \union {Creator} : InviteAgent(k)
           \/ \E c \in BOOLEAN : Cancel(c)
  BY <1>1, <1>3 DEF InviteAgent, Cancel
<1>4. ASSUME NEW a \in Agents, SignalIntent(a) \/ WithdrawIntent(a) \/ CloseIntent(a)
      PROVE  WorkLeft'
  BY <1>1, <1>4 DEF SignalIntent, WithdrawIntent, CloseIntent
<1>5. ASSUME NEW a \in Agents, NEW i \in Milestones,
             SubmitDelivery(i, a) \/ RejectDelivery(i, a) \/ CloseSubmission(i, a)
      PROVE  WorkLeft'
  BY <1>1, <1>5 DEF SubmitDelivery, may_submit, RejectDelivery, CloseSubmission,
     may_close_submission
<1>6. ASSUME NEW b \in Backers, Refund(b) \/ ClosePledge(b) PROVE WorkLeft'
  BY <1>1, <1>6 DEF Refund, ClosePledge, may_close_pledge
<1>7. ASSUME NEW o \in Offers, CreateCommission(o) PROVE WorkLeft'
  BY <1>7 DEF CreateCommission, may_create, WorkLeft
<1>8. ASSUME NEW b \in Backers, NEW amount \in PledgeAmounts, Pledge(b, amount)
      PROVE  WorkLeft'
  <2>1. status = "Funding" /\ UNCHANGED <<terms, milestones_done>>
    BY <1>8 DEF Pledge, may_pledge
  <2>2. milestones_done = {}
    BY <2>1 DEF ScheduleInv
  <2>3. Schedule # {}
    <3>1. terms.milestone_bps \in Seq(Nat) /\ SumFunction(terms.milestone_bps) = BPS_DENOMINATOR
      BY <2>1 DEF TypeInv, TypeOK, ScheduleInv
    <3>2. DOMAIN terms.milestone_bps = Schedule
      BY <3>1 DEF Schedule, milestone_count
    <3>3. SumFunction(terms.milestone_bps) = SumFunctionOnSet(terms.milestone_bps, Schedule)
      BY <3>2 DEF SumFunction
    <3>4. Schedule = {} => SumFunction(terms.milestone_bps) = 0
      BY <3>3, SumEmpty
    <3> QED
      BY <3>1, <3>4, FeeAssumption
  <2>4. Schedule' = Schedule
    BY <2>1 DEF Schedule, milestone_count
  <2> QED
    BY <2>1, <2>2, <2>3, <2>4 DEF WorkLeft
<1>9. ASSUME NEW i \in Milestones, NEW a \in Agents, NEW c \in BOOLEAN,
             ReleaseMilestone(i, a, c)
      PROVE  WorkLeft'
  <2>1. /\ milestones_done' = milestones_done \union {i} /\ terms' = terms
        /\ status' = IF completes_schedule(i) THEN "Delivered" ELSE status
    BY <1>9 DEF ReleaseMilestone
  <2> QED
    BY <2>1 DEF WorkLeft, completes_schedule, Schedule, milestone_count
<1>10. CASE UNCHANGED vars
  BY <1>1, <1>10 DEF vars
<1> QED
  BY <1>2, <1>3, <1>4, <1>5, <1>6, <1>7, <1>8, <1>9, <1>10 DEF Next, AgentStep, BackerStep

\* What the offers rest on.
OfferInv ==
    /\ TypeInv /\ MoneyInv /\ FeeInv /\ ScheduleInv
    /\ EarnedClaimPayable /\ PaidPassed /\ WorkLeft

\* All that the offers rest on holds in every state.
LEMMA OffersAlways == Spec => []OfferInv
<1>1. Init => PaidPassed /\ WorkLeft
  BY InitQueues DEF Init, WorkLeft
<1>2. TypeInv /\ QueueInv /\ PaidPassed /\ [Next]_vars => PaidPassed'
  BY StepPaidPassed
<1>3. TypeInv /\ ScheduleInv /\ WorkLeft /\ [Next]_vars => WorkLeft'
  BY StepWorkLeft
<1>4. Spec => [](TypeInv /\ MoneyInv /\ FeeInv /\ ScheduleInv)
  BY SumsAlways, PTL DEF SumsInv
<1>5. Spec => [](TypeInv /\ QueueInv)
  BY QueueAlways, PTL
<1> QED
  BY <1>1, <1>2, <1>3, <1>4, <1>5, SilencePays, PTL DEF Spec, OfferInv

(* A larger payout leaves its agent at least as much after the fee.        *)
LEMMA NetGrows ==
    ASSUME NEW x \in Nat, NEW y \in Nat, y <= x
    PROVE  y - (y * FEE_BPS) \div BPS_DENOMINATOR <= x - (x * FEE_BPS) \div BPS_DENOMINATOR
<1>1. PICK f \in Nat, d \in Nat \ {0} : f = FEE_BPS /\ d = BPS_DENOMINATOR /\ f <= d
  BY FeeAssumption
<1>2. PICK more \in Nat : x = y + more
  OBVIOUS
<1>3. PICK xf \in Nat, yf \in Nat, mf \in Nat :
          xf = x * f /\ yf = y * f /\ mf = more * f /\ xf = yf + mf
  BY <1>1, <1>2
<1>4. mf <= d * more
  BY <1>1, <1>2, <1>3
<1>5. PICK p \in Nat, q \in Nat :
          /\ p = xf \div d /\ q = yf \div d
          /\ d * p <= xf /\ yf < d * q + d
  BY <1>1, <1>3, DivBounds
<1>6. d * p < d * (q + more + 1)
  <2>1. d * (q + more + 1) = d * q + d * more + d
    BY <1>1, <1>2, <1>5
  <2>2. d * p \in Nat /\ d * q \in Nat /\ d * more \in Nat
    BY <1>1, <1>2, <1>5
  <2> QED
    BY <1>1, <1>3, <1>4, <1>5, <2>1, <2>2
<1>7. p < q + more + 1
  BY <1>1, <1>2, <1>5, <1>6
<1>8. y - q <= x - p
  BY <1>2, <1>5, <1>7
<1> QED
  BY <1>1, <1>3, <1>5, <1>8

(* What a front is said to pay is at most what the program pays its agent, *)
(* as long as no refund was taken.                                         *)
LEMMA PayoutPromised ==
    ASSUME OfferInv, NEW i \in Milestones, NEW a \in Agents,
           at_front(i, a), ~milestone_released(i), refunded = 0
    PROVE  split_fee(gross_of(i)).net >= milestonePayout(i)
<1>1. PICK slice \in Nat :
          /\ slice = mul_div(total_pledged, terms.milestone_bps[i], BPS_DENOMINATOR)
          /\ slice # 0 /\ slice <= escrow_remaining
  BY SliceIsLeft DEF OfferInv, milestone_released
<1>2. gross_of(i) \in Nat
  BY GrossType DEF OfferInv
<1>3. slice <= gross_of(i)
  BY <1>1, <1>2 DEF gross_of
<1>4. split_fee(gross_of(i)).net =
          gross_of(i) - (gross_of(i) * FEE_BPS) \div BPS_DENOMINATOR
  BY DEF split_fee, mul_div
<1>5. milestonePayout(i) = slice - (slice * FEE_BPS) \div BPS_DENOMINATOR
  BY <1>1 DEF milestonePayout
<1>6. slice - (slice * FEE_BPS) \div BPS_DENOMINATOR
          <= gross_of(i) - (gross_of(i) * FEE_BPS) \div BPS_DENOMINATOR
  BY <1>1, <1>2, <1>3, NetGrows
<1>7. split_fee(gross_of(i)).net \in Nat
  BY <1>2, SplitFee
<1>8. /\ split_fee(gross_of(i)).net \in Int
      /\ milestonePayout(i) <= split_fee(gross_of(i)).net
  BY <1>4, <1>5, <1>6, <1>7
<1>9. milestonePayout(i) \in Int
  <2>1. (slice * FEE_BPS) \div BPS_DENOMINATOR \in Int
    BY <1>1, FeeAssumption
  <2> QED
    BY <1>1, <1>5, <2>1
<1> QED
  BY <1>8, <1>9

(* Every way out, payment and deposit the rules offer, to anyone and by    *)
(* any clock that lags, passes the guard of the instruction it stands for; *)
(* the API names only deliveries that would be judged, at a payout that is *)
(* paid; and an agent's claims are exactly what can be paid to it.         *)
THEOREM OffersPassGuards == Spec => []OffersMeetGuards
<1>1. OfferInv => OffersMeetGuards
  <2> SUFFICES ASSUME OfferInv, status # "Uncreated", NEW w \in Wallets
               PROVE
        /\ "cancel" \in offered(w, now) => may_cancel(w = Creator)
        /\ "refund" \in offered(w, now) /\ w \in live_pledges /\ status # "Delivered"
              => may_refund(w) /\ vault_lamports >= refund_amount(w)
        /\ \A s \in settled_by(w, now) :
              /\ s.agent = w /\ submission[s.milestoneIndex][w].state # "Empty"
              /\ submission_settled(s.milestoneIndex, w)
        /\ \A s \in fronts(decodeCommission, submissionsFor) :
              IF s \in matured(now)
              THEN refunded = 0 =>
                     /\ may_release(s.milestoneIndex, s.agent, w = Creator)
                     /\ vault_lamports >= gross_of(s.milestoneIndex)
              ELSE "rejectDelivery" \in offers(w, now) =>
                     w = Creator /\ may_reject(s.milestoneIndex, s.agent)
        /\ "closePledge" \in offers(w, now) => status = "Delivered" /\ escrow_remaining = 0
        /\ "closeVault" \in offers(w, now) => vault_settled
        /\ \A s \in nextToJudge : judgeable_and_paid(s)
        /\ w \in Agents => \A i \in Milestones :
              /\ may_release(i, w, FALSE) => claim(w, i) # {}
              /\ claim(w, i) # {} /\ refunded = 0 =>
                    /\ may_release(i, w, FALSE) /\ vault_lamports >= gross_of(i)
                    /\ << i, "claimable now" >> \in describe(w)
    BY DEF OffersMeetGuards
  <2>0. /\ now \in Nat /\ work_deadline \in Nat /\ latest_submitted_at \in Nat
        /\ terms.review_window \in Nat /\ terms.deadline \in Nat /\ CLAIM_GRACE_WINDOW \in Nat
        /\ unresolved_submissions \in Nat /\ VAULT_RENT \in Nat /\ vault_lamports \in Nat
        /\ total_pledged \in Nat /\ released \in Nat /\ refunded \in Nat
        /\ released + refunded <= total_pledged
        /\ pledger_count \in Nat /\ refunded_pledger_count \in Nat
    BY WindowAssumption, LimitAssumption DEF OfferInv, TypeInv, TypeOK, Bookkeeping
  <2>1. ASSUME "cancel" \in offered(w, now) PROVE may_cancel(w = Creator)
    <3>1. PICK u \in 0 .. now : "cancel" \in offers(w, u)
      BY <2>1 DEF offered
    <3>2. /\ u \in Nat /\ u <= now /\ ~shielded_at(u)
          /\ \/ w = Creator /\ status = "Funding"
             \/ status \in {"Funding", "Funded"} /\ (u >= terms.deadline \/ closed_by(u))
      BY <2>0, <3>1, OfferedWhen DEF OfferInv
    <3>3. ~claim_protected
      BY <2>0, <3>2 DEF shielded_at, claim_protected
    <3>4. u >= terms.deadline \/ closed_by(u) => now >= cancel_expiry
      BY <2>0, <3>2 DEF closed_by, cancel_expiry
    <3> QED
      BY <3>2, <3>3, <3>4 DEF may_cancel
  <2>2. ASSUME "refund" \in offered(w, now), w \in live_pledges, status # "Delivered"
        PROVE  may_refund(w) /\ vault_lamports >= refund_amount(w)
    <3>1. PICK u \in 0 .. now : "refund" \in offers(w, u)
      BY <2>2 DEF offered
    <3>2. /\ u \in Nat /\ u <= now /\ ~shielded_at(u)
          /\ \/ status = "Cancelled"
             \/ u >= terms.deadline /\ status \in {"Funding", "Funded"}
             \/ closed_by(u)
      BY <2>0, <3>1, OfferedWhen DEF OfferInv
    <3>3. ~claim_protected /\ refundable
      BY <2>0, <3>2 DEF shielded_at, claim_protected, closed_by, work_closed, refundable
    <3>4. w \in Backers /\ pledges[w] # 0 /\ vault_owned
      BY <2>2 DEF live_pledges, OfferInv, MoneyInv
    <3>5. refund_amount(w) \in Nat /\ refund_amount(w) <= escrow_remaining
      BY <3>4, RefundType DEF OfferInv
    <3>6. vault_lamports >= VAULT_RENT + escrow_remaining /\ escrow_remaining \in Int
      BY <2>0, <3>4 DEF OfferInv, MoneyInv, escrow_remaining
    <3> QED
      BY <2>0, <3>3, <3>4, <3>5, <3>6 DEF may_refund
  <2>3. ASSUME NEW s \in settled_by(w, now)
        PROVE  /\ s.agent = w /\ submission[s.milestoneIndex][w].state # "Empty"
               /\ submission_settled(s.milestoneIndex, w)
    <3>1. PICK u \in 0 .. now : s \in settledForMe(decodeCommission, w, submissionsFor, u)
      BY <2>3 DEF settled_by
    <3>2. PICK i \in Milestones :
              /\ s = decodeSubmission(i, w)
              /\ submission[i][w].state # "Empty" /\ submission_settled(i, w)
      BY <3>1, SettledWhen DEF OfferInv
    <3>3. s.agent = w /\ s.milestoneIndex = i
      BY <3>2 DEF decodeSubmission
    <3> QED
      BY <3>2, <3>3
  <2>4. ASSUME NEW s \in fronts(decodeCommission, submissionsFor)
        PROVE  IF s \in matured(now)
               THEN refunded = 0 =>
                      /\ may_release(s.milestoneIndex, s.agent, w = Creator)
                      /\ vault_lamports >= gross_of(s.milestoneIndex)
               ELSE "rejectDelivery" \in offers(w, now) =>
                      w = Creator /\ may_reject(s.milestoneIndex, s.agent)
    <3>1. PICK i \in Milestones, a \in Agents :
              s = decodeSubmission(i, a) /\ at_front(i, a) /\ ~milestone_released(i)
      BY <2>4, FrontsAreFronts DEF OfferInv
    <3>2. s.agent = a /\ s.milestoneIndex = i
      BY <3>1 DEF decodeSubmission
    <3>3. s \in matured(now) <=> review_expired(submission[i][a])
      BY <2>4, <3>1
      DEF matured, reviewExpired, reviewEndsAt, decodeSubmission, review_expired
    <3>4. ASSUME s \in matured(now), refunded = 0
          PROVE  may_release(i, a, w = Creator) /\ vault_lamports >= gross_of(i)
      <4>1. may_release(i, a, FALSE) /\ vault_lamports >= gross_of(i)
        BY <3>1, <3>3, <3>4 DEF OfferInv, EarnedClaimPayable, matured_claim
      <4> QED
        BY <4>1 DEF may_release
    <3>5. ASSUME s \notin matured(now), "rejectDelivery" \in offers(w, now)
          PROVE  w = Creator /\ may_reject(i, a)
      <4>1. "rejectDelivery"
                \in actions_for_judging(decodeCommission, w, submissionsFor, now)
        BY <3>5, OfferKinds
      <4>2. w = Creator
        BY <4>1 DEF actions_for_judging
      <4> QED
        BY <3>1, <3>3, <3>5, <4>2 DEF may_reject
    <3> QED
      BY <3>2, <3>4, <3>5
  <2>5. ASSUME "closePledge" \in offers(w, now)
        PROVE  status = "Delivered" /\ escrow_remaining = 0
    <3>1. status = "Delivered" /\ released + refunded >= total_pledged
      BY <2>0, <2>5, OfferedWhen DEF OfferInv
    <3> QED
      BY <2>0, <3>1 DEF escrow_remaining
  <2>6. ASSUME "closeVault" \in offers(w, now) PROVE vault_settled
    <3>1. /\ released + refunded >= total_pledged
          /\ \/ status = "Delivered"
             \/ status = "Cancelled" /\ refunded_pledger_count >= pledger_count
      BY <2>0, <2>6, OfferedWhen DEF OfferInv
    <3>2. refunded_pledger_count <= pledger_count
      BY <2>0, LivePledgesFinite DEF OfferInv, MoneyInv
    <3> QED
      BY <2>0, <3>1, <3>2 DEF vault_settled, escrow_remaining
  <2>7. ASSUME NEW s \in nextToJudge PROVE judgeable_and_paid(s)
    <3>1. PICK k : s \in frontOfQueue(decodeCommission, submissionsFor, k)
      BY <2>7 DEF nextToJudge
    <3>2. PICK i \in Milestones, a \in Agents : s = decodeSubmission(i, a) /\ at_front(i, a)
      BY <3>1, FrontsAreFronts DEF OfferInv
    <3>3. s.agent = a /\ s.milestoneIndex = i
      BY <3>2 DEF decodeSubmission
    <3>4. ~milestone_released(i)
      BY <3>2 DEF OfferInv, PaidPassed, at_front, waits, place, milestone_released
    <3>5. refunded = 0 => split_fee(gross_of(i)).net >= milestonePayout(i)
      BY <3>2, <3>4, PayoutPromised
    <3> QED
      BY <3>2, <3>3, <3>4, <3>5 DEF judgeable_and_paid
  <2>8. ASSUME w \in Agents, NEW i \in Milestones
        PROVE  /\ may_release(i, w, FALSE) => claim(w, i) # {}
               /\ claim(w, i) # {} /\ refunded = 0 =>
                     /\ may_release(i, w, FALSE) /\ vault_lamports >= gross_of(i)
                     /\ << i, "claimable now" >> \in describe(w)
    <3> DEFINE s == decodeSubmission(i, w)
    <3>0. /\ s.milestoneIndex = i /\ s.agent = w /\ s.state = submission[i][w].state
          /\ s.sequence = submission[i][w].sequence
          /\ s.submittedAt = submission[i][w].submitted_at
      BY DEF decodeSubmission
    <3>1. /\ submission[i][w].sequence \in Nat /\ milestone_rejected[i] \in Nat
      <4>1. submission[i][w] \in SubmissionAccounts /\ milestone_rejected[i] \in Nat
        BY <2>8 DEF OfferInv, TypeInv, TypeOK
      <4> QED
        BY <4>1 DEF SubmissionAccounts
    <3>2. expired(s) <=> review_expired(submission[i][w])
      BY <3>0 DEF expired, reviewExpired, reviewEndsAt, review_expired
    <3>3. ahead(s) = 0 <=> submission[i][w].sequence = milestone_rejected[i]
      BY <3>0, <3>1 DEF ahead
    <3> HIDE DEF s
    <3>4. ASSUME may_release(i, w, FALSE) PROVE claim(w, i) # {}
      <4>1. at_front(i, w) /\ review_expired(submission[i][w])
        BY <3>4 DEF may_release
      <4>2. s \in submissionsFor
        BY <2>8, <4>1, ListedAccounts DEF at_front, s
      <4>3. s \in claim(w, i)
        BY <3>0, <3>2, <3>3, <4>1, <4>2 DEF claim, pending_mine, mine_of, at_front
      <4> QED
        BY <4>3
    <3>5. ASSUME claim(w, i) # {}, refunded = 0
          PROVE  /\ may_release(i, w, FALSE) /\ vault_lamports >= gross_of(i)
                 /\ << i, "claimable now" >> \in describe(w)
      <4>1. PICK r \in claim(w, i) : TRUE
        BY <3>5
      <4>2. /\ r \in submissionsFor /\ r.agent = w /\ r.milestoneIndex = i
            /\ r.state = "Pending" /\ ahead(r) = 0 /\ expired(r)
            /\ r \in pending_mine(w)
        BY <4>1 DEF claim, pending_mine, mine_of
      <4>3. r = s
        <5>1. PICK j \in Milestones, a \in Agents : r = decodeSubmission(j, a)
          BY <4>2, ListedAccounts
        <5> QED
          BY <4>2, <5>1 DEF decodeSubmission, s
      <4>4. at_front(i, w) /\ review_expired(submission[i][w])
        BY <3>0, <3>2, <3>3, <4>2, <4>3 DEF at_front
      <4>5. ~milestone_released(i)
        BY <2>8, <4>4 DEF OfferInv, PaidPassed, at_front, waits, place, milestone_released
      <4>6. may_release(i, w, FALSE) /\ vault_lamports >= gross_of(i)
        BY <2>8, <3>5, <4>4, <4>5 DEF OfferInv, EarnedClaimPayable, matured_claim
      <4>7. << i, "claimable now" >> \in describe(w)
        <5>1. << r.milestoneIndex, IF ahead(r) > 0 THEN "ahead of mine"
                                   ELSE IF expired(r) THEN "claimable now" ELSE "in review" >>
                  \in describe(w)
          BY <4>2 DEF describe
        <5>2. ~(ahead(r) > 0) /\ expired(r) /\ r.milestoneIndex = i
          BY <4>2
        <5> QED
          BY <5>1, <5>2, Zenon
      <4> QED
        BY <4>6, <4>7
    <3> QED
      BY <3>4, <3>5
  <2> QED
    BY <2>1, <2>2, <2>3, <2>4, <2>5, <2>6, <2>7, <2>8
<1> QED
  BY <1>1, OffersAlways, PTL

(* Whatever the guard of an instruction lets a wallet do, the rules offer  *)
(* that wallet, whatever anybody else did before.                          *)
THEOREM GuardsPassToOffers == Spec => []GuardsAreOffered
<1>1. OfferInv => GuardsAreOffered
  <2> SUFFICES ASSUME OfferInv, status # "Uncreated", NEW w \in Wallets
               PROVE
        LET on_offer == offers(w, now) IN
        /\ (\E amount \in PledgeAmounts : may_pledge(amount)) => "pledge" \in on_offer
        /\ workable(w) => "signalIntent" \in on_offer /\ "submitDelivery" \in on_offer
        /\ w \in Backers /\ may_refund(w) => "refund" \in on_offer
        /\ may_cancel(w = Creator) => "cancel" \in on_offer
        /\ vault_settled => "closeVault" \in on_offer
        /\ status = "Delivered" /\ escrow_remaining = 0 /\ live_pledges # {}
              => "closePledge" \in on_offer
        /\ \A i \in Milestones, a \in Agents :
              /\ a = w /\ submission[i][a].state # "Empty" /\ submission_settled(i, a)
                    => "closeSubmission" \in on_offer
              /\ may_release(i, a, w = Creator) => "releaseMilestone" \in on_offer
              /\ w = Creator /\ may_reject(i, a) => "rejectDelivery" \in on_offer
    BY DEF GuardsAreOffered
  <2>0. /\ now \in Nat /\ work_deadline \in Nat /\ latest_submitted_at \in Nat
        /\ terms.review_window \in Nat /\ terms.deadline \in Nat /\ CLAIM_GRACE_WINDOW \in Nat
        /\ total_pledged \in Nat /\ released \in Nat /\ refunded \in Nat
        /\ pledger_count \in Nat /\ refunded_pledger_count \in Nat
    BY WindowAssumption DEF OfferInv, TypeInv, TypeOK
  <2>1. ASSUME NEW amount \in PledgeAmounts, may_pledge(amount) PROVE "pledge" \in offers(w, now)
    <3>1. decodeCommission.status = "funding" /\ now < decodeCommission.deadline
      <4>1. status = "Funding" /\ now < terms.deadline
        BY <2>1 DEF may_pledge
      <4>2. decodeCommission.status = "funding"
        BY <4>1, ReadsOff DEF OfferInv
      <4> QED
        BY <4>1, <4>2 DEF decodeCommission
    <3> QED
      BY <3>1, OfferKinds
  <2>2. ASSUME workable(w)
        PROVE  "signalIntent" \in offers(w, now) /\ "submitDelivery" \in offers(w, now)
    <3>1. canWork(decodeCommission, w, now)
      <4>1. decodeCommission.status = "funded" /\ ~workClosed(decodeCommission, now)
        BY <2>2, ReadsOff DEF OfferInv, workable, work_closed
      <4>2. decodeCommission.invitedAgent = invited_agent
        BY DEF decodeCommission
      <4> QED
        BY <2>2, <4>1, <4>2 DEF canWork, workable
    <3>2. unreleased(decodeCommission) # {}
      <4>1. milestones_done # Schedule /\ milestones_done \subseteq Schedule
        BY <2>2 DEF workable, OfferInv, WorkLeft, ScheduleInv, Schedule
      <4>2. unreleased(decodeCommission) = Schedule \ milestones_done
        BY ReadsOff DEF OfferInv
      <4> QED
        BY <4>1, <4>2
    <3> QED
      BY <3>1, <3>2, OfferKinds
  <2>3. ASSUME may_refund(w) PROVE "refund" \in offers(w, now)
    <3>1. ~shielded_at(now)
      BY <2>3 DEF may_refund, claim_protected, shielded_at
    <3>2. \/ status = "Cancelled"
          \/ now >= terms.deadline /\ status \in {"Funding", "Funded"}
          \/ closed_by(now)
      BY <2>3 DEF may_refund, refundable, work_closed, closed_by
    <3> QED
      BY <2>0, <3>1, <3>2, OfferedWhen DEF OfferInv
  <2>4. ASSUME may_cancel(w = Creator) PROVE "cancel" \in offers(w, now)
    <3>1. ~shielded_at(now)
      BY <2>4 DEF may_cancel, claim_protected, shielded_at
    <3>2. now >= cancel_expiry => now >= terms.deadline \/ closed_by(now)
      BY <2>0 DEF cancel_expiry, closed_by
    <3>3. \/ w = Creator /\ status = "Funding"
          \/ status \in {"Funding", "Funded"} /\ (now >= terms.deadline \/ closed_by(now))
      BY <2>4, <3>2 DEF may_cancel
    <3> QED
      BY <2>0, <3>1, <3>3, OfferedWhen DEF OfferInv
  <2>5. ASSUME vault_settled PROVE "closeVault" \in offers(w, now)
    <3>1. /\ released + refunded >= total_pledged
          /\ \/ status = "Delivered"
             \/ status = "Cancelled" /\ refunded_pledger_count >= pledger_count
      BY <2>0, <2>5 DEF vault_settled, escrow_remaining
    <3> QED
      BY <2>0, <3>1, OfferedWhen DEF OfferInv
  <2>6. ASSUME status = "Delivered", escrow_remaining = 0, live_pledges # {}
        PROVE  "closePledge" \in offers(w, now)
    <3>1. released + refunded >= total_pledged
      BY <2>0, <2>6 DEF escrow_remaining
    <3>2. Cardinality(live_pledges) # 0
      BY <2>6, LivePledgesFinite, FS_EmptySet
    <3>3. pledger_count > 0
      BY <2>0, <3>2, LivePledgesFinite DEF OfferInv, MoneyInv
    <3> QED
      BY <2>0, <2>6, <3>1, <3>3, OfferedWhen DEF OfferInv
  <2>7. ASSUME NEW i \in Milestones, w \in Agents, submission[i][w].state # "Empty",
               submission_settled(i, w)
        PROVE  "closeSubmission" \in offers(w, now)
    <3>1. settledForMe(decodeCommission, w, submissionsFor, now) # {}
      BY <2>7, SettledWhen DEF OfferInv
    <3> QED
      BY <2>0, <3>1, OfferedWhen DEF OfferInv
  <2>8. ASSUME NEW i \in Milestones, NEW a \in Agents, at_front(i, a), ~milestone_released(i)
        PROVE  /\ w = Creator \/ review_expired(submission[i][a])
                     => "releaseMilestone" \in offers(w, now)
               /\ w = Creator /\ ~review_expired(submission[i][a])
                     => "rejectDelivery" \in offers(w, now)
    <3> DEFINE s == decodeSubmission(i, a)
               found == fronts(decodeCommission, submissionsFor)
               matures == reviewExpired(s, decodeCommission.reviewWindow, now)
    <3>1. s \in found
      BY <2>8, FrontsAreFronts DEF OfferInv
    <3>2. matures <=> review_expired(submission[i][a])
      BY DEF reviewExpired, reviewEndsAt, decodeSubmission, decodeCommission, review_expired
    <3>3. (IF w = Creator \/ matures THEN {"releaseMilestone"} ELSE {})
          \union (IF w = Creator /\ ~matures THEN {"rejectDelivery"} ELSE {})
              \subseteq actions_for_judging(decodeCommission, w, submissionsFor, now)
      BY <3>1 DEF actions_for_judging
    <3>4. /\ w = Creator \/ matures =>
                "releaseMilestone"
                   \in actions_for_judging(decodeCommission, w, submissionsFor, now)
          /\ w = Creator /\ ~matures =>
                "rejectDelivery"
                   \in actions_for_judging(decodeCommission, w, submissionsFor, now)
      BY <3>3
    <3> HIDE DEF s, found, matures
    <3> QED
      BY <3>2, <3>4, OfferKinds
  <2>9. ASSUME NEW i \in Milestones, NEW a \in Agents
        PROVE  /\ may_release(i, a, w = Creator) => "releaseMilestone" \in offers(w, now)
               /\ w = Creator /\ may_reject(i, a) => "rejectDelivery" \in offers(w, now)
    <3>1. may_release(i, a, w = Creator) =>
              /\ at_front(i, a) /\ ~milestone_released(i)
              /\ w = Creator \/ review_expired(submission[i][a])
      BY DEF may_release
    <3>2. at_front(i, a) => ~milestone_released(i)
      BY DEF OfferInv, PaidPassed, at_front, waits, place, milestone_released
    <3> QED
      BY <2>8, <3>1, <3>2 DEF may_reject
  <2> QED
    BY <2>1, <2>2, <2>3, <2>4, <2>5, <2>6, <2>7, <2>9
<1> QED
  BY <1>1, OffersAlways, PTL

-----------------------------------------------------------------------------
(***************************************************************************)
(* What the API shows of a commission, and the terms it builds one for.    *)
(***************************************************************************)

\* A page is about the program's own guards, and a listing hides nothing they let by.
PagesMeetGuards ==
    status # "Uncreated" =>
      \A w \in Wallets : \A item \in GET_commission(w) :
        /\ \A s \in item.submissions :
              /\ may_release(s.milestoneIndex, s.agent, FALSE) => s.releasableByAnyone
              /\ s.releasableByAnyone /\ refunded = 0
                    => may_release(s.milestoneIndex, s.agent, FALSE)
        /\ item.openForWork /\ w # Creator /\ item.invitedAgent \in {NoAgent, w} <=> workable(w)
        /\ GET_commissions("openForWork", w) = {} => ~workable(w)
        /\ GET_commissions("actionable", w) = {} =>
              /\ ~workable(w) /\ ~may_cancel(w = Creator)
              /\ \A amount \in PledgeAmounts : ~may_pledge(amount)
              /\ w \in Backers => ~may_refund(w)

\* What the API asks of terms is what the program asks, but for the cap.
PostingMeetsGuards ==
    \A o \in Offers :
      LET asked == [o EXCEPT !.milestone_bps = default_schedule(@)] IN
      /\ offer_accepted(o) => asked = o /\ tx_create_terms(o)
      /\ tx_create_terms(asked) /\ o.goal <= MAX_COMMISSION_LAMPORTS => offer_accepted(asked)

(* What needs no delivery is offered without the deliveries.               *)
LEMMA OfferedUnseen ==
    ASSUME NEW w
    PROVE  {"pledge", "signalIntent", "submitDelivery", "cancel", "refund"}
               \cap offers(w, now) \subseteq walletActions(w)
<1> DEFINE c == decodeCommission
           pledging == IF c.status = "funding" /\ now < c.deadline THEN {"pledge"} ELSE {}
           work == actions_for_work(c, w, now)
           inviting == IF w = Creator /\ c.status \in {"funding", "funded"}
                       THEN {"inviteAgent"} ELSE {}
           leaving == actions_for_leaving(c, w, now)
           judging(subs) == actions_for_judging(c, w, subs, now)
           deposits(subs) == actions_for_deposits(c, w, subs, now)
<1>1. /\ offers(w, now) = UNION {pledging, work, inviting, judging(submissionsFor), leaving,
                                 deposits(submissionsFor)}
      /\ walletActions(w) = UNION {pledging, work, inviting, judging({}), leaving, deposits({})}
  BY DEF offers, walletActions, availableActions
<1>2. judging(submissionsFor) \subseteq {"releaseMilestone", "rejectDelivery"}
  BY DEF actions_for_judging
<1>3. deposits(submissionsFor) \subseteq {"closeSubmission", "closePledge", "closeVault"}
  BY DEF actions_for_deposits
<1> HIDE DEF pledging, work, inviting, judging, leaving, deposits, c
<1> QED
  BY <1>1, <1>2, <1>3

(* "True for the delivery at the front of its queue, once its own review   *)
(* window has run", and "can I work on this right now": for every          *)
(* commission, at any time, the page says what the program would do, and   *)
(* no listing leaves out a commission a wallet could move.                 *)
THEOREM PagesShowGuards == Spec => []PagesMeetGuards
<1>1. OfferInv /\ GuardsAreOffered => PagesMeetGuards
  <2> SUFFICES ASSUME OfferInv, GuardsAreOffered, status # "Uncreated", NEW w \in Wallets,
                      NEW item \in GET_commission(w)
               PROVE
        /\ \A s \in item.submissions :
              /\ may_release(s.milestoneIndex, s.agent, FALSE) => s.releasableByAnyone
              /\ s.releasableByAnyone /\ refunded = 0
                    => may_release(s.milestoneIndex, s.agent, FALSE)
        /\ item.openForWork /\ w # Creator /\ item.invitedAgent \in {NoAgent, w} <=> workable(w)
        /\ GET_commissions("openForWork", w) = {} => ~workable(w)
        /\ GET_commissions("actionable", w) = {} =>
              /\ ~workable(w) /\ ~may_cancel(w = Creator)
              /\ \A amount \in PledgeAmounts : ~may_pledge(amount)
              /\ w \in Backers => ~may_refund(w)
    BY DEF PagesMeetGuards
  <2>1. item = presentCommission(w) /\ GET_commission(w) = {item}
    BY DEF GET_commission
  <2>2. /\ item.submissions = { presentSubmission(decodeCommission, s) : s \in submissionsFor }
        /\ item.invitedAgent = decodeCommission.invitedAgent
        /\ item.walletActions = walletActions(w)
        /\ item.openForWork = (/\ decodeCommission.status = "funded"
                               /\ ~workClosed(decodeCommission, now))
    BY <2>1 DEF presentCommission
  <2>3. item.openForWork /\ w # Creator /\ item.invitedAgent \in {NoAgent, w} <=> workable(w)
    <3>1. decodeCommission.invitedAgent = invited_agent
      BY DEF decodeCommission
    <3>2. /\ decodeCommission.status = "funded" <=> status = "Funded"
          /\ workClosed(decodeCommission, now) <=> work_closed
      BY ReadsOff DEF OfferInv, work_closed
    <3> QED
      BY <2>2, <3>1, <3>2 DEF workable
  <2>4. ASSUME GET_commissions("openForWork", w) = {} PROVE ~workable(w)
    <3>1. ~item.openForWork
      BY <2>1, <2>4 DEF GET_commissions, kept_by
    <3> QED
      BY <2>3, <3>1
  <2>5. ASSUME GET_commissions("actionable", w) = {}
        PROVE  /\ ~workable(w) /\ ~may_cancel(w = Creator)
               /\ \A amount \in PledgeAmounts : ~may_pledge(amount)
               /\ w \in Backers => ~may_refund(w)
    <3>1. item.walletActions = {}
      BY <2>1, <2>5 DEF GET_commissions, kept_by
    <3>2. \A act \in {"pledge", "signalIntent", "submitDelivery", "cancel", "refund"} :
              act \notin offers(w, now)
      BY <2>2, <3>1, OfferedUnseen
    <3> QED
      BY <3>2 DEF GuardsAreOffered
  <2>6. ASSUME NEW s \in item.submissions
        PROVE  /\ may_release(s.milestoneIndex, s.agent, FALSE) => s.releasableByAnyone
               /\ s.releasableByAnyone /\ refunded = 0
                     => may_release(s.milestoneIndex, s.agent, FALSE)
    <3>1. PICK d \in submissionsFor : s = presentSubmission(decodeCommission, d)
      BY <2>2
    <3>2. PICK i \in Milestones, a \in Agents : d = decodeSubmission(i, a)
      BY ListedAccounts
    <3>3. /\ d.milestoneIndex = i /\ d.agent = a /\ d.state = submission[i][a].state
          /\ d.sequence = submission[i][a].sequence
          /\ d.submittedAt = submission[i][a].submitted_at
      BY <3>2 DEF decodeSubmission
    <3>4. /\ s.milestoneIndex = i /\ s.agent = a
          /\ s.releasableByAnyone = (/\ d.sequence = decodeCommission.milestoneRejected[i]
                                     /\ reviewExpired(d, decodeCommission.reviewWindow, now))
      BY <3>1, <3>3 DEF presentSubmission
    <3>5. s.releasableByAnyone <=> at_front(i, a) /\ review_expired(submission[i][a])
      <4>1. /\ decodeCommission.milestoneRejected = milestone_rejected
            /\ decodeCommission.reviewWindow = terms.review_window
        BY DEF decodeCommission
      <4> QED
        BY <3>3, <3>4, <4>1 DEF reviewExpired, reviewEndsAt, review_expired, at_front
    <3>6. may_release(i, a, FALSE) => at_front(i, a) /\ review_expired(submission[i][a])
      BY DEF may_release
    <3>7. ASSUME at_front(i, a), review_expired(submission[i][a]), refunded = 0
          PROVE  may_release(i, a, FALSE)
      <4>1. ~milestone_released(i)
        BY <3>7 DEF OfferInv, PaidPassed, at_front, waits, place, milestone_released
      <4> QED
        BY <3>7, <4>1 DEF OfferInv, EarnedClaimPayable, matured_claim
    <3> QED
      BY <3>4, <3>5, <3>6, <3>7
  <2> QED
    BY <2>3, <2>4, <2>5, <2>6
<1> QED
  BY <1>1, OffersAlways, GuardsPassToOffers, PTL

(* create-commission answers with a transaction for just the terms that    *)
(* create_commission takes, the cap on the goal left aside: the empty      *)
(* schedule and the zero windows are filled in on the way, never refused   *)
(* by one side alone.                                                      *)
THEOREM PostingAgrees == Spec => []PostingMeetsGuards
<1>1. PostingMeetsGuards
  <2> SUFFICES ASSUME NEW o \in Offers
               PROVE  LET asked == [o EXCEPT !.milestone_bps = default_schedule(@)] IN
                      /\ offer_accepted(o) => asked = o /\ tx_create_terms(o)
                      /\ tx_create_terms(asked) /\ o.goal <= MAX_COMMISSION_LAMPORTS
                            => offer_accepted(asked)
    BY DEF PostingMeetsGuards
  <2> DEFINE asked == [o EXCEPT !.milestone_bps = default_schedule(@)]
  <2>1. o \in [ goal : Nat, milestone_bps : Seq(Nat), deadline : Int,
                work_window : Int, review_window : Int ]
    BY PartyAssumption
  <2>2. /\ asked.goal = o.goal /\ asked.deadline = o.deadline
        /\ asked.work_window = o.work_window /\ asked.review_window = o.review_window
        /\ asked.milestone_bps = default_schedule(o.milestone_bps)
    BY <2>1
  <2>3. ASSUME NEW window \in Int, NEW least \in Nat \ {0}, NEW most \in Nat,
               NEW default \in least .. most
        PROVE  zero_or_within(window, least, most)
                  <=> or_default(window, default) \in least .. most
    BY <2>3 DEF zero_or_within, or_default
  <2>4. /\ zero_or_within(o.work_window, MIN_WORK_WINDOW, MAX_WORK_WINDOW)
              <=> or_default(o.work_window, DEFAULT_WORK_WINDOW)
                      \in MIN_WORK_WINDOW .. MAX_WORK_WINDOW
        /\ zero_or_within(o.review_window, MIN_REVIEW_WINDOW, MAX_REVIEW_WINDOW)
              <=> or_default(o.review_window, DEFAULT_REVIEW_WINDOW)
                      \in MIN_REVIEW_WINDOW .. MAX_REVIEW_WINDOW
    BY <2>1, <2>3, WindowAssumption
  <2>5. /\ default_schedule(o.milestone_bps) \in Seq(Nat)
        /\ Len(default_schedule(o.milestone_bps)) \in Nat \ {0}
        /\ Len(o.milestone_bps) # 0 => default_schedule(o.milestone_bps) = o.milestone_bps
    <3>1. CASE o.milestone_bps = <<>>
      BY <3>1, FeeAssumption DEF default_schedule
    <3>2. CASE o.milestone_bps # <<>>
      BY <2>1, <3>2 DEF default_schedule
    <3> QED
      BY <3>1, <3>2
  <2>6. ASSUME NEW bps \in Seq(Nat), NEW j \in DOMAIN bps PROVE bps[j] > 0 <=> bps[j] # 0
    BY <2>6
  <2>7. ASSUME offer_accepted(o) PROVE asked = o /\ tx_create_terms(o)
    <3>1. Len(o.milestone_bps) # 0 /\ Len(o.milestone_bps) <= MAX_MILESTONES
      BY <2>1, <2>7, LimitAssumption DEF offer_accepted, Milestones
    <3>2. asked = o
      BY <2>1, <2>5, <3>1
    <3>3. \A j \in DOMAIN o.milestone_bps : o.milestone_bps[j] > 0
      BY <2>1, <2>6, <2>7 DEF offer_accepted
    <3>4. tx_create_terms(o)
      BY <2>4, <2>7, <3>1, <3>3 DEF offer_accepted, tx_create_terms
    <3> QED
      BY <3>2, <3>4
  <2>8. ASSUME tx_create_terms(asked), o.goal <= MAX_COMMISSION_LAMPORTS
        PROVE  offer_accepted(asked)
    <3>1. Len(asked.milestone_bps) \in Milestones
      BY <2>2, <2>5, <2>8, LimitAssumption DEF tx_create_terms, Milestones
    <3>2. \A j \in DOMAIN asked.milestone_bps : asked.milestone_bps[j] # 0
      BY <2>2, <2>5, <2>6, <2>8 DEF tx_create_terms
    <3> HIDE DEF asked
    <3> QED
      BY <2>2, <2>4, <2>8, <3>1, <3>2 DEF tx_create_terms, offer_accepted
  <2> QED
    BY <2>7, <2>8
<1> QED
  BY <1>1, PTL

-----------------------------------------------------------------------------
(***************************************************************************)
(* From an offer to the transaction sent for it.                           *)
(***************************************************************************)

(* Two wallets, or two records, never share an address.                    *)
LEMMA AddressesDiffer ==
    /\ \A v, w : Wallet(v) = Wallet(w) <=> v = w
    /\ \A v, w : pledgePda(v) = pledgePda(w) <=> v = w
    /\ \A v, w : intentPda(v) = intentPda(w) <=> v = w
    /\ \A i, j, v, w : submissionPda(i, v) = submissionPda(j, w) <=> i = j /\ v = w
  BY DEF Wallet, pledgePda, intentPda, submissionPda

\* tx asks what built asks: the same accounts, with no flag taken away.
asks(tx, built) ==
    /\ tx.name = built.name /\ tx.data = built.data
    /\ \A n \in DOMAIN built.keys :
          /\ account(tx, n) = account(built, n)
          /\ built.keys[n].isSigner => tx.keys[n].isSigner
          /\ built.keys[n].isWritable => tx.keys[n].isWritable

\* A transaction asks for what it was built for.
LEMMA BuiltAsks == \A built : asks(built, built)
  BY DEF asks

\* What the API adds, the fee payer's signature, changes no account and no data.
LEMMA PostedAsks ==
    ASSUME NEW action, NEW w, NEW data, NEW name, NEW d, NEW keys,
           TX_BUILDERS(action, w, data) = ix(name, d, keys), name # "refused",
           1 \in DOMAIN keys
    PROVE  asks(POST_tx(action, w, data), ix(name, d, keys))
<1> DEFINE tx == [name |-> name, data |-> d,
                  keys |-> [keys EXCEPT ![1] = Pays(keys[1].account)]]
<1>1. POST_tx(action, w, data) = tx
  <2>1. POST_tx(action, w, data) = [ix(name, d, keys) EXCEPT !.keys[1] = Pays(@.account)]
    BY DEF POST_tx, is_refused, Refused, ix
  <2> QED
    BY <2>1 DEF ix
<1>2. /\ \A n \in DOMAIN keys : n # 1 => tx.keys[n] = keys[n]
      /\ tx.keys[1] = Pays(keys[1].account)
  OBVIOUS
<1>3. /\ tx.keys[1].account = keys[1].account
      /\ tx.keys[1].isSigner /\ tx.keys[1].isWritable
  BY <1>2 DEF Pays, meta
<1>4. tx.name = name /\ tx.data = d
  OBVIOUS
<1> HIDE DEF tx
<1> QED
  BY <1>1, <1>2, <1>3, <1>4 DEF asks, account, ix

\* A creation is accepted from the creator, with terms the program takes.
LEMMA CreateAsks ==
    ASSUME NEW tx, NEW w, NEW o, asks(tx, build_createCommission(w, o))
    PROVE  Accepts(tx) <=> w = Creator /\ may_create(o)
<1>1. /\ tx.name = "createCommission"
      /\ account(tx, 1) = Wallet(w) /\ account(tx, 2) = configPda
      /\ account(tx, 3) = commissionPda /\ account(tx, 4) = vaultPda
      /\ account(tx, 5) = systemProgram
      /\ tx.data = o /\ tx.keys[1].isSigner /\ \A n \in {1, 3, 4} : tx.keys[n].isWritable
  BY DEF asks, build_createCommission, ix, meta, Pays, Reads, Writes, account
<1>2. Accepts(tx) <=>
        /\ signed(tx, 1, Creator) /\ account(tx, 2) = configPda
        /\ account(tx, 4) = vaultPda /\ account(tx, 5) = systemProgram
        /\ changes(tx, {1, 3, 4}) /\ may_create(tx.data)
  BY <1>1 DEF Accepts, passes, commission_place
<1> QED
  BY <1>1, <1>2, AddressesDiffer DEF signed, changes

\* A pledge is accepted from a backer, for an amount the program takes.
LEMMA PledgeAsks ==
    ASSUME NEW tx, NEW w, asks(tx, build_pledge(w))
    PROVE  Accepts(tx) <=> /\ w \in Backers
                           /\ \E amount \in PledgeAmounts : may_pledge(amount)
<1>1. /\ tx.name = "pledge"
      /\ account(tx, 1) = Wallet(w) /\ account(tx, 2) = configPda
      /\ account(tx, 3) = commissionPda /\ account(tx, 4) = pledgePda(w)
      /\ account(tx, 5) = vaultPda /\ account(tx, 6) = systemProgram
      /\ tx.keys[1].isSigner /\ \A n \in {1, 3, 4, 5} : tx.keys[n].isWritable
  BY DEF asks, build_pledge, ix, meta, Pays, Reads, Writes, account
<1>2. Accepts(tx) <=>
        /\ account(tx, 2) = configPda /\ account(tx, 5) = vaultPda
        /\ account(tx, 6) = systemProgram /\ changes(tx, {1, 3, 4, 5})
        /\ \E b \in Backers : signed(tx, 1, b) /\ account(tx, 4) = pledgePda(b)
        /\ \E amount \in PledgeAmounts : may_pledge(amount)
  BY <1>1 DEF Accepts, passes, commission_place
<1> QED
  BY <1>1, <1>2, AddressesDiffer DEF signed, changes

\* An invitation is accepted under the guard of InviteAgent.
LEMMA InviteAsks ==
    ASSUME NEW tx, NEW w, NEW a, asks(tx, build_inviteAgent(w, a))
    PROVE  Accepts(tx) <=> /\ w = Creator /\ a \in Agents \union {Creator}
                           /\ status \in {"Funding", "Funded"}
<1>1. /\ tx.name = "inviteAgent"
      /\ account(tx, 1) = Wallet(w) /\ account(tx, 2) = commissionPda
      /\ account(tx, 3) = Wallet(a)
      /\ tx.keys[1].isSigner /\ tx.keys[2].isWritable
  BY DEF asks, build_inviteAgent, ix, meta, Signs, Reads, Writes, account
<1>2. Accepts(tx) <=>
        /\ signed(tx, 1, Creator) /\ changes(tx, {2})
        /\ \E k \in Agents \union {Creator} : account(tx, 3) = Wallet(k)
        /\ status \in {"Funding", "Funded"}
  BY <1>1 DEF Accepts, passes, commission_place
<1> QED
  BY <1>1, <1>2, AddressesDiffer DEF signed, changes

\* A sign-up is accepted under the guard of SignalIntent.
LEMMA SignalAsks ==
    ASSUME NEW tx, NEW w, asks(tx, build_signalIntent(w))
    PROVE  Accepts(tx) <=> w \in Agents /\ workable(w)
<1>1. /\ tx.name = "signalIntent"
      /\ account(tx, 1) = Wallet(w) /\ account(tx, 2) = commissionPda
      /\ account(tx, 3) = intentPda(w) /\ account(tx, 4) = systemProgram
      /\ tx.keys[1].isSigner /\ \A n \in {1, 2, 3} : tx.keys[n].isWritable
  BY DEF asks, build_signalIntent, ix, meta, Pays, Reads, Writes, account
<1>2. Accepts(tx) <=>
        /\ account(tx, 4) = systemProgram /\ changes(tx, {1, 2, 3})
        /\ \E a \in Agents :
              signed(tx, 1, a) /\ account(tx, 3) = intentPda(a) /\ workable(a)
  BY <1>1 DEF Accepts, passes, commission_place
<1> QED
  BY <1>1, <1>2, AddressesDiffer DEF signed, changes

\* A withdrawn sign-up is accepted under the guard of WithdrawIntent.
LEMMA WithdrawAsks ==
    ASSUME NEW tx, NEW w, asks(tx, build_withdrawIntent(w))
    PROVE  Accepts(tx) <=> w \in Agents /\ intent[w] # "Empty"
<1>1. /\ tx.name = "withdrawIntent"
      /\ account(tx, 1) = Wallet(w) /\ account(tx, 2) = commissionPda
      /\ account(tx, 3) = intentPda(w)
      /\ tx.keys[1].isSigner /\ tx.keys[3].isWritable
  BY DEF asks, build_withdrawIntent, ix, meta, Signs, Writes, account
<1>2. Accepts(tx) <=>
        \E a \in Agents : /\ signed(tx, 1, a) /\ changes(tx, {3})
                          /\ account(tx, 3) = intentPda(a) /\ intent[a] # "Empty"
  BY <1>1 DEF Accepts, passes, commission_place
<1> QED
  BY <1>1, <1>2, AddressesDiffer DEF signed, changes

\* A delivery is accepted under the guard of SubmitWork.
LEMMA SubmitAsks ==
    ASSUME NEW tx, NEW w, NEW i, asks(tx, build_submitDelivery(w, i))
    PROVE  Accepts(tx) <=> w \in Agents /\ i \in Milestones /\ may_submit(i, w)
<1>1. /\ tx.name = "submitDelivery"
      /\ account(tx, 1) = Wallet(w) /\ account(tx, 2) = commissionPda
      /\ account(tx, 3) = submissionPda(i, w) /\ account(tx, 4) = systemProgram
      /\ tx.data = i /\ tx.keys[1].isSigner /\ \A n \in {1, 2, 3} : tx.keys[n].isWritable
  BY DEF asks, build_submitDelivery, ix, meta, Pays, Reads, Writes, account
<1>2. Accepts(tx) <=>
        /\ account(tx, 4) = systemProgram /\ changes(tx, {1, 2, 3})
        /\ \E a \in Agents, j \in Milestones :
              /\ signed(tx, 1, a) /\ tx.data = j
              /\ account(tx, 3) = submissionPda(j, a) /\ may_submit(j, a)
  BY <1>1 DEF Accepts, passes, commission_place
<1> QED
  BY <1>1, <1>2, AddressesDiffer DEF signed, changes

\* A rejection is accepted under the guard of RejectSubmission.
LEMMA RejectAsks ==
    ASSUME NEW tx, NEW w, NEW a, NEW i, asks(tx, build_rejectDelivery(w, a, i))
    PROVE  Accepts(tx) <=> /\ w = Creator /\ a \in Agents /\ i \in Milestones
                           /\ may_reject(i, a)
<1>1. /\ tx.name = "rejectDelivery"
      /\ account(tx, 1) = Wallet(w) /\ account(tx, 2) = commissionPda
      /\ account(tx, 3) = submissionPda(i, a)
      /\ tx.keys[1].isSigner /\ tx.keys[2].isWritable /\ tx.keys[3].isWritable
  BY DEF asks, build_rejectDelivery, ix, meta, Signs, Writes, account
<1>2. Accepts(tx) <=>
        /\ signed(tx, 1, Creator) /\ changes(tx, {2, 3})
        /\ \E b \in Agents, j \in Milestones :
              account(tx, 3) = submissionPda(j, b) /\ may_reject(j, b)
  BY <1>1 DEF Accepts, passes, commission_place
<1> QED
  BY <1>1, <1>2, AddressesDiffer DEF signed, changes

\* A release is accepted under the guard of ReleaseMilestone.
LEMMA ReleaseAsks ==
    ASSUME NEW tx, NEW w \in Wallets, NEW a, NEW i, asks(tx, build_releaseMilestone(w, a, i))
    PROVE  Accepts(tx) <=> /\ a \in Agents /\ i \in Milestones
                           /\ may_release(i, a, w = Creator)
                           /\ vault_lamports >= gross_of(i)
<1>1. /\ tx.name = "releaseMilestone"
      /\ account(tx, 1) = Wallet(w) /\ account(tx, 2) = commissionPda
      /\ account(tx, 3) = submissionPda(i, a) /\ account(tx, 4) = vaultPda
      /\ account(tx, 5) = Wallet(a) /\ account(tx, 6) = treasury
      /\ tx.keys[1].isSigner /\ \A n \in 2 .. 6 : tx.keys[n].isWritable
  BY DEF asks, build_releaseMilestone, ix, meta, Signs, Writes, account
<1>2. Accepts(tx) <=>
        \E v \in Wallets, b \in Agents, j \in Milestones :
           /\ pays_delivery(tx, v, j, b) /\ may_release(j, b, v = Creator)
           /\ vault_lamports >= gross_of(j)
  BY <1>1 DEF Accepts, passes, commission_place
<1> QED
  BY <1>1, <1>2, AddressesDiffer DEF signed, changes, pays_delivery

\* A refund is accepted under the guard of Refund.
LEMMA RefundAsks ==
    ASSUME NEW tx, NEW w, asks(tx, build_refund(w))
    PROVE  Accepts(tx) <=> /\ w \in Backers /\ may_refund(w)
                           /\ vault_lamports >= refund_amount(w)
<1>1. /\ tx.name = "refund"
      /\ account(tx, 1) = Wallet(w) /\ account(tx, 2) = commissionPda
      /\ account(tx, 3) = pledgePda(w) /\ account(tx, 4) = vaultPda
      /\ account(tx, 5) = treasury
      /\ tx.keys[1].isSigner /\ \A n \in 1 .. 5 : tx.keys[n].isWritable
  BY DEF asks, build_refund, ix, meta, Pays, Writes, account
<1>2. Accepts(tx) <=>
        /\ account(tx, 4) = vaultPda /\ account(tx, 5) = treasury /\ changes(tx, 1 .. 5)
        /\ \E b \in Backers :
              /\ signed(tx, 1, b) /\ account(tx, 3) = pledgePda(b)
              /\ may_refund(b) /\ vault_lamports >= refund_amount(b)
  BY <1>1 DEF Accepts, passes, commission_place
<1> QED
  BY <1>1, <1>2, AddressesDiffer DEF signed, changes

\* A cancellation is accepted under the guard of CancelCommission.
LEMMA CancelAsks ==
    ASSUME NEW tx, NEW w \in Wallets, asks(tx, build_cancel(w))
    PROVE  Accepts(tx) <=> may_cancel(w = Creator)
<1>1. /\ tx.name = "cancel"
      /\ account(tx, 1) = Wallet(w) /\ account(tx, 2) = commissionPda
      /\ tx.keys[1].isSigner /\ tx.keys[2].isWritable
  BY DEF asks, build_cancel, ix, meta, Signs, Writes, account
<1>2. Accepts(tx) <=>
        \E v \in Wallets : signed(tx, 1, v) /\ changes(tx, {2}) /\ may_cancel(v = Creator)
  BY <1>1 DEF Accepts, passes, commission_place
<1> QED
  BY <1>1, <1>2, AddressesDiffer DEF signed, changes

\* The sweep of a pledge is accepted under the guard of ClosePledge.
LEMMA ClosePledgeAsks ==
    ASSUME NEW tx, NEW b, asks(tx, build_closePledge(b))
    PROVE  Accepts(tx) <=> b \in Backers /\ may_close_pledge(b)
<1>1. /\ tx.name = "closePledge"
      /\ account(tx, 1) = Wallet(b) /\ account(tx, 2) = commissionPda
      /\ account(tx, 3) = pledgePda(b)
      /\ \A n \in 1 .. 3 : tx.keys[n].isWritable
  BY DEF asks, build_closePledge, ix, meta, Writes, account
<1>2. Accepts(tx) <=>
        \E v \in Backers : /\ account(tx, 1) = Wallet(v) /\ changes(tx, 1 .. 3)
                           /\ account(tx, 3) = pledgePda(v) /\ may_close_pledge(v)
  BY <1>1 DEF Accepts, passes, commission_place
<1> QED
  BY <1>1, <1>2, AddressesDiffer DEF signed, changes

\* The sweep of the vault is accepted under the guard of CloseVault.
LEMMA CloseVaultAsks ==
    ASSUME NEW tx, NEW w \in Wallets, asks(tx, build_closeVault(w))
    PROVE  Accepts(tx) <=> vault_owned /\ vault_settled
<1>1. /\ tx.name = "closeVault"
      /\ account(tx, 1) = Wallet(w) /\ account(tx, 2) = commissionPda
      /\ account(tx, 3) = vaultPda /\ account(tx, 4) = Wallet(Creator)
      /\ tx.keys[1].isSigner /\ tx.keys[3].isWritable /\ tx.keys[4].isWritable
  BY DEF asks, build_closeVault, ix, meta, Signs, Writes, account
<1>2. Accepts(tx) <=>
        /\ \E v \in Wallets : signed(tx, 1, v)
        /\ account(tx, 3) = vaultPda /\ account(tx, 4) = Wallet(Creator)
        /\ changes(tx, {3, 4}) /\ vault_owned /\ vault_settled
  BY <1>1 DEF Accepts, passes, commission_place
<1> QED
  BY <1>1, <1>2, AddressesDiffer DEF signed, changes

\* The sweep of a submission is accepted under the guard of CloseSubmission.
LEMMA CloseSubmissionAsks ==
    ASSUME NEW tx, NEW a, NEW i, asks(tx, build_closeSubmission(a, i))
    PROVE  Accepts(tx) <=> /\ a \in Agents /\ i \in Milestones
                           /\ may_close_submission(i, a)
<1>1. /\ tx.name = "closeSubmission"
      /\ account(tx, 1) = Wallet(a) /\ account(tx, 2) = commissionPda
      /\ account(tx, 3) = submissionPda(i, a)
      /\ \A n \in 1 .. 3 : tx.keys[n].isWritable
  BY DEF asks, build_closeSubmission, ix, meta, Writes, account
<1>2. Accepts(tx) <=>
        \E b \in Agents, j \in Milestones :
           /\ account(tx, 1) = Wallet(b) /\ account(tx, 3) = submissionPda(j, b)
           /\ changes(tx, 1 .. 3) /\ may_close_submission(j, b)
  BY <1>1 DEF Accepts, passes, commission_place
<1> QED
  BY <1>1, <1>2, AddressesDiffer DEF signed, changes

\* The sweep of a sign-up is accepted under the guard of CloseIntent.
LEMMA CloseIntentAsks ==
    ASSUME NEW tx, NEW a, asks(tx, build_closeIntent(a))
    PROVE  Accepts(tx) <=> a \in Agents /\ intent[a] # "Empty" /\ intent_over(a)
<1>1. /\ tx.name = "closeIntent"
      /\ account(tx, 1) = Wallet(a) /\ account(tx, 2) = commissionPda
      /\ account(tx, 3) = intentPda(a)
      /\ tx.keys[1].isWritable /\ tx.keys[3].isWritable
  BY DEF asks, build_closeIntent, ix, meta, Writes, account
<1>2. Accepts(tx) <=>
        \E b \in Agents : /\ account(tx, 1) = Wallet(b) /\ account(tx, 3) = intentPda(b)
                          /\ changes(tx, {1, 3}) /\ intent[b] # "Empty" /\ intent_over(b)
  BY <1>1 DEF Accepts, passes, commission_place
<1> QED
  BY <1>1, <1>2, AddressesDiffer DEF signed, changes

(* What POST /api/v1/tx/:action answers asks what its builder asks.        *)
LEMMA PostedAre ==
    ASSUME NEW w, NEW data
    PROVE  /\ asks(POST_tx("pledge", w, data), build_pledge(w))
           /\ asks(POST_tx("invite-agent", w, data), build_inviteAgent(w, data))
           /\ asks(POST_tx("signal-intent", w, data), build_signalIntent(w))
           /\ data \in Milestones =>
                 asks(POST_tx("submit-delivery", w, data), build_submitDelivery(w, data))
           /\ asks(POST_tx("refund", w, data), build_refund(w))
           /\ asks(POST_tx("cancel", w, data), build_cancel(w))
           /\ asks(POST_tx("close-pledge", w, data), build_closePledge(w))
           /\ asks(POST_tx("close-vault", w, data), build_closeVault(w))
           /\ asks(POST_tx("close-submission", w, data), build_closeSubmission(w, data))
<1>1. asks(POST_tx("pledge", w, data), build_pledge(w))
  <2> DEFINE keys == << Pays(Wallet(w)), Reads(configPda), Writes(commissionPda), Writes(pledgePda(w)),
                       Writes(vaultPda), Reads(systemProgram) >>
  <2>1. TX_BUILDERS("pledge", w, data) = ix("pledge", 0, keys) /\ 1 \in DOMAIN keys
    BY DEF TX_BUILDERS, build_pledge
  <2>2. build_pledge(w) = ix("pledge", 0, keys)
    BY DEF build_pledge
  <2> HIDE DEF keys
  <2> QED
    BY <2>1, <2>2, PostedAsks
<1>2. asks(POST_tx("invite-agent", w, data), build_inviteAgent(w, data))
  <2> DEFINE keys == << Signs(Wallet(w)), Writes(commissionPda), Reads(Wallet(data)) >>
  <2>1. TX_BUILDERS("invite-agent", w, data) = ix("inviteAgent", 0, keys) /\ 1 \in DOMAIN keys
    BY DEF TX_BUILDERS, build_inviteAgent
  <2>2. build_inviteAgent(w, data) = ix("inviteAgent", 0, keys)
    BY DEF build_inviteAgent
  <2> HIDE DEF keys
  <2> QED
    BY <2>1, <2>2, PostedAsks
<1>3. asks(POST_tx("signal-intent", w, data), build_signalIntent(w))
  <2> DEFINE keys == << Pays(Wallet(w)), Writes(commissionPda), Writes(intentPda(w)), Reads(systemProgram) >>
  <2>1. TX_BUILDERS("signal-intent", w, data) = ix("signalIntent", 0, keys) /\ 1 \in DOMAIN keys
    BY DEF TX_BUILDERS, build_signalIntent
  <2>2. build_signalIntent(w) = ix("signalIntent", 0, keys)
    BY DEF build_signalIntent
  <2> HIDE DEF keys
  <2> QED
    BY <2>1, <2>2, PostedAsks
<1>4. ASSUME data \in Milestones PROVE asks(POST_tx("submit-delivery", w, data), build_submitDelivery(w, data))
  <2> DEFINE keys == << Pays(Wallet(w)), Writes(commissionPda), Writes(submissionPda(data, w)),
                       Reads(systemProgram) >>
  <2>1. TX_BUILDERS("submit-delivery", w, data) = ix("submitDelivery", data, keys) /\ 1 \in DOMAIN keys
    BY <1>4 DEF TX_BUILDERS, build_submitDelivery
  <2>2. build_submitDelivery(w, data) = ix("submitDelivery", data, keys)
    BY DEF build_submitDelivery
  <2> HIDE DEF keys
  <2> QED
    BY <2>1, <2>2, PostedAsks
<1>5. asks(POST_tx("refund", w, data), build_refund(w))
  <2> DEFINE keys == << Pays(Wallet(w)), Writes(commissionPda), Writes(pledgePda(w)), Writes(vaultPda),
                       Writes(treasury) >>
  <2>1. TX_BUILDERS("refund", w, data) = ix("refund", 0, keys) /\ 1 \in DOMAIN keys
    BY DEF TX_BUILDERS, build_refund
  <2>2. build_refund(w) = ix("refund", 0, keys)
    BY DEF build_refund
  <2> HIDE DEF keys
  <2> QED
    BY <2>1, <2>2, PostedAsks
<1>6. asks(POST_tx("cancel", w, data), build_cancel(w))
  <2> DEFINE keys == << Signs(Wallet(w)), Writes(commissionPda) >>
  <2>1. TX_BUILDERS("cancel", w, data) = ix("cancel", 0, keys) /\ 1 \in DOMAIN keys
    BY DEF TX_BUILDERS, build_cancel
  <2>2. build_cancel(w) = ix("cancel", 0, keys)
    BY DEF build_cancel
  <2> HIDE DEF keys
  <2> QED
    BY <2>1, <2>2, PostedAsks
<1>7. asks(POST_tx("close-pledge", w, data), build_closePledge(w))
  <2> DEFINE keys == << Writes(Wallet(w)), Writes(commissionPda), Writes(pledgePda(w)) >>
  <2>1. TX_BUILDERS("close-pledge", w, data) = ix("closePledge", 0, keys) /\ 1 \in DOMAIN keys
    BY DEF TX_BUILDERS, build_closePledge
  <2>2. build_closePledge(w) = ix("closePledge", 0, keys)
    BY DEF build_closePledge
  <2> HIDE DEF keys
  <2> QED
    BY <2>1, <2>2, PostedAsks
<1>8. asks(POST_tx("close-vault", w, data), build_closeVault(w))
  <2> DEFINE keys == << Signs(Wallet(w)), Writes(commissionPda), Writes(vaultPda), Writes(Wallet(Creator)) >>
  <2>1. TX_BUILDERS("close-vault", w, data) = ix("closeVault", 0, keys) /\ 1 \in DOMAIN keys
    BY DEF TX_BUILDERS, build_closeVault
  <2>2. build_closeVault(w) = ix("closeVault", 0, keys)
    BY DEF build_closeVault
  <2> HIDE DEF keys
  <2> QED
    BY <2>1, <2>2, PostedAsks
<1>9. asks(POST_tx("close-submission", w, data), build_closeSubmission(w, data))
  <2> DEFINE keys == << Writes(Wallet(w)), Writes(commissionPda), Writes(submissionPda(data, w)) >>
  <2>1. TX_BUILDERS("close-submission", w, data) = ix("closeSubmission", 0, keys) /\ 1 \in DOMAIN keys
    BY DEF TX_BUILDERS, build_closeSubmission
  <2>2. build_closeSubmission(w, data) = ix("closeSubmission", 0, keys)
    BY DEF build_closeSubmission
  <2> HIDE DEF keys
  <2> QED
    BY <2>1, <2>2, PostedAsks
<1> QED
  BY <1>1, <1>2, <1>3, <1>4, <1>5, <1>6, <1>7, <1>8, <1>9

\* Each builder, and what the program has to find before it carries its transaction out.
BuildersMeetGuards ==
    \A w \in Wallets :
      /\ \A o \in Offers :
            Accepts(build_createCommission(w, o)) <=> w = Creator /\ may_create(o)
      /\ Accepts(build_pledge(w)) <=>
            w \in Backers /\ \E amount \in PledgeAmounts : may_pledge(amount)
      /\ Accepts(build_signalIntent(w)) <=> w \in Agents /\ workable(w)
      /\ Accepts(build_withdrawIntent(w)) <=> w \in Agents /\ intent[w] # "Empty"
      /\ Accepts(build_refund(w)) <=>
            w \in Backers /\ may_refund(w) /\ vault_lamports >= refund_amount(w)
      /\ Accepts(build_cancel(w)) <=> may_cancel(w = Creator)
      /\ Accepts(build_closePledge(w)) <=> w \in Backers /\ may_close_pledge(w)
      /\ Accepts(build_closeVault(w)) <=> vault_owned /\ vault_settled
      /\ Accepts(build_closeIntent(w)) <=>
            w \in Agents /\ intent[w] # "Empty" /\ intent_over(w)
      /\ \A k \in Agents \union {Creator} :
            Accepts(build_inviteAgent(w, k)) <=>
                  w = Creator /\ status \in {"Funding", "Funded"}
      /\ \A i \in Milestones :
            /\ Accepts(build_submitDelivery(w, i)) <=> w \in Agents /\ may_submit(i, w)
            /\ Accepts(build_closeSubmission(w, i)) <=>
                  w \in Agents /\ may_close_submission(i, w)
      /\ \A i \in Milestones, a \in Agents :
            /\ Accepts(build_rejectDelivery(w, a, i)) <=> w = Creator /\ may_reject(i, a)
            /\ Accepts(build_releaseMilestone(w, a, i)) <=>
                  may_release(i, a, w = Creator) /\ vault_lamports >= gross_of(i)

(* The builders and the program agree on the order of the accounts, on who *)
(* signs and on what is written: a transaction is carried out just when    *)
(* the guard of its instruction holds for the wallet and the record it was *)
(* built for, and never for another's.                                     *)
THEOREM BuildersAgree == BuildersMeetGuards
<1> SUFFICES ASSUME NEW w \in Wallets
             PROVE
      /\ \A o \in Offers :
            Accepts(build_createCommission(w, o)) <=> w = Creator /\ may_create(o)
      /\ Accepts(build_pledge(w)) <=>
            w \in Backers /\ \E amount \in PledgeAmounts : may_pledge(amount)
      /\ Accepts(build_signalIntent(w)) <=> w \in Agents /\ workable(w)
      /\ Accepts(build_withdrawIntent(w)) <=> w \in Agents /\ intent[w] # "Empty"
      /\ Accepts(build_refund(w)) <=>
            w \in Backers /\ may_refund(w) /\ vault_lamports >= refund_amount(w)
      /\ Accepts(build_cancel(w)) <=> may_cancel(w = Creator)
      /\ Accepts(build_closePledge(w)) <=> w \in Backers /\ may_close_pledge(w)
      /\ Accepts(build_closeVault(w)) <=> vault_owned /\ vault_settled
      /\ Accepts(build_closeIntent(w)) <=>
            w \in Agents /\ intent[w] # "Empty" /\ intent_over(w)
      /\ \A k \in Agents \union {Creator} :
            Accepts(build_inviteAgent(w, k)) <=>
                  w = Creator /\ status \in {"Funding", "Funded"}
      /\ \A i \in Milestones :
            /\ Accepts(build_submitDelivery(w, i)) <=> w \in Agents /\ may_submit(i, w)
            /\ Accepts(build_closeSubmission(w, i)) <=>
                  w \in Agents /\ may_close_submission(i, w)
      /\ \A i \in Milestones, a \in Agents :
            /\ Accepts(build_rejectDelivery(w, a, i)) <=> w = Creator /\ may_reject(i, a)
            /\ Accepts(build_releaseMilestone(w, a, i)) <=>
                  may_release(i, a, w = Creator) /\ vault_lamports >= gross_of(i)
  BY DEF BuildersMeetGuards
<1>1. \A o : Accepts(build_createCommission(w, o)) <=> w = Creator /\ may_create(o)
  BY BuiltAsks, CreateAsks
<1>2. /\ Accepts(build_pledge(w)) <=>
            w \in Backers /\ \E amount \in PledgeAmounts : may_pledge(amount)
      /\ Accepts(build_signalIntent(w)) <=> w \in Agents /\ workable(w)
      /\ Accepts(build_withdrawIntent(w)) <=> w \in Agents /\ intent[w] # "Empty"
  BY BuiltAsks, PledgeAsks, SignalAsks, WithdrawAsks
<1>3. /\ Accepts(build_refund(w)) <=>
            w \in Backers /\ may_refund(w) /\ vault_lamports >= refund_amount(w)
      /\ Accepts(build_cancel(w)) <=> may_cancel(w = Creator)
  BY BuiltAsks, RefundAsks, CancelAsks
<1>4. /\ Accepts(build_closePledge(w)) <=> w \in Backers /\ may_close_pledge(w)
      /\ Accepts(build_closeVault(w)) <=> vault_owned /\ vault_settled
      /\ Accepts(build_closeIntent(w)) <=>
            w \in Agents /\ intent[w] # "Empty" /\ intent_over(w)
  BY BuiltAsks, ClosePledgeAsks, CloseVaultAsks, CloseIntentAsks
<1>5. \A k \in Agents \union {Creator} :
          Accepts(build_inviteAgent(w, k)) <=> w = Creator /\ status \in {"Funding", "Funded"}
  BY BuiltAsks, InviteAsks
<1>6. \A i \in Milestones :
          /\ Accepts(build_submitDelivery(w, i)) <=> w \in Agents /\ may_submit(i, w)
          /\ Accepts(build_closeSubmission(w, i)) <=>
                w \in Agents /\ may_close_submission(i, w)
  BY BuiltAsks, SubmitAsks, CloseSubmissionAsks
<1>7. \A i \in Milestones, a \in Agents :
          /\ Accepts(build_rejectDelivery(w, a, i)) <=> w = Creator /\ may_reject(i, a)
          /\ Accepts(build_releaseMilestone(w, a, i)) <=>
                may_release(i, a, w = Creator) /\ vault_lamports >= gross_of(i)
  BY BuiltAsks, RejectAsks, ReleaseAsks
<1> QED
  BY <1>1, <1>2, <1>3, <1>4, <1>5, <1>6, <1>7

\* Each step a party takes, and the transaction it would be asked for by.
StepsAsked ==
    /\ \A o \in Offers : CreateCommission(o) => Accepts(build_createCommission(Creator, o))
    /\ \A b \in Backers :
          /\ (\E amount \in PledgeAmounts : Pledge(b, amount)) => Accepts(build_pledge(b))
          /\ Refund(b) => Accepts(build_refund(b))
          /\ ClosePledge(b) => Accepts(build_closePledge(b))
    /\ \A a \in Agents :
          /\ SignalIntent(a) => Accepts(build_signalIntent(a))
          /\ WithdrawIntent(a) => Accepts(build_withdrawIntent(a))
          /\ CloseIntent(a) => Accepts(build_closeIntent(a))
    /\ \A i \in Milestones, a \in Agents :
          /\ SubmitDelivery(i, a) => Accepts(build_submitDelivery(a, i))
          /\ RejectDelivery(i, a) => Accepts(build_rejectDelivery(Creator, a, i))
          /\ CloseSubmission(i, a) => Accepts(build_closeSubmission(a, i))
          /\ ReleaseMilestone(i, a, TRUE) => Accepts(build_releaseMilestone(Creator, a, i))
          /\ ReleaseMilestone(i, a, FALSE) =>
                \A w \in Wallets : Accepts(build_releaseMilestone(w, a, i))
    /\ \A k \in Agents \union {Creator} :
          InviteAgent(k) => Accepts(build_inviteAgent(Creator, k))
    /\ Cancel(TRUE) => Accepts(build_cancel(Creator))
    /\ Cancel(FALSE) => \A w \in Wallets : Accepts(build_cancel(w))
    /\ CloseVault => \A w \in Wallets : Accepts(build_closeVault(w))

(* Whatever the program can do to a commission, some builder asks for; and *)
(* what it does for a passer-by, it does for every wallet.                 *)
THEOREM EveryStepCanBeAsked == Spec => [][StepsAsked]_vars
<1>1. \A o \in Offers : CreateCommission(o) => Accepts(build_createCommission(Creator, o))
  BY BuiltAsks, CreateAsks DEF CreateCommission
<1>2. \A b \in Backers :
         /\ (\E amount \in PledgeAmounts : Pledge(b, amount)) => Accepts(build_pledge(b))
         /\ Refund(b) => Accepts(build_refund(b))
         /\ ClosePledge(b) => Accepts(build_closePledge(b))
  BY BuildersAgree DEF BuildersMeetGuards, Wallets, Pledge, Refund, ClosePledge
<1>3. \A a \in Agents :
         /\ SignalIntent(a) => Accepts(build_signalIntent(a))
         /\ WithdrawIntent(a) => Accepts(build_withdrawIntent(a))
         /\ CloseIntent(a) => Accepts(build_closeIntent(a))
  BY BuildersAgree DEF BuildersMeetGuards, Wallets, SignalIntent, WithdrawIntent, CloseIntent
<1>4. \A i \in Milestones, a \in Agents :
         /\ SubmitDelivery(i, a) => Accepts(build_submitDelivery(a, i))
         /\ CloseSubmission(i, a) => Accepts(build_closeSubmission(a, i))
         /\ RejectDelivery(i, a) => Accepts(build_rejectDelivery(Creator, a, i))
  BY BuildersAgree
  DEF BuildersMeetGuards, Wallets, SubmitDelivery, CloseSubmission, RejectDelivery
<1>5. ASSUME NEW i \in Milestones, NEW a \in Agents, NEW c \in BOOLEAN,
             ReleaseMilestone(i, a, c), NEW w \in Wallets, c => w = Creator
      PROVE  Accepts(build_releaseMilestone(w, a, i))
  <2>1. may_release(i, a, c) /\ vault_lamports >= gross_of(i)
    BY <1>5 DEF ReleaseMilestone
  <2>2. may_release(i, a, w = Creator)
    BY <1>5, <2>1 DEF may_release
  <2> QED
    BY <2>1, <2>2, BuildersAgree DEF BuildersMeetGuards
<1>6. ASSUME NEW c \in BOOLEAN, Cancel(c), NEW w \in Wallets, c => w = Creator
      PROVE  Accepts(build_cancel(w))
  <2>1. may_cancel(w = Creator)
    BY <1>6 DEF Cancel, may_cancel
  <2> QED
    BY <2>1, BuildersAgree DEF BuildersMeetGuards
<1>7. /\ \A k \in Agents \union {Creator} :
            InviteAgent(k) => Accepts(build_inviteAgent(Creator, k))
      /\ CloseVault => \A w \in Wallets : Accepts(build_closeVault(w))
  BY BuildersAgree DEF BuildersMeetGuards, Wallets, InviteAgent, CloseVault
<1>8. Creator \in Wallets
  BY DEF Wallets
<1>9. StepsAsked
  BY <1>1, <1>2, <1>3, <1>4, <1>5, <1>6, <1>7, <1>8 DEF StepsAsked
<1> QED
  BY <1>9, PTL

(* What the API posts meets the guard its builder's transaction meets.     *)
LEMMA PostedMeetGuards ==
    ASSUME NEW w \in Wallets
    PROVE  /\ Accepts(POST_tx("pledge", w, 0)) <=>
                 w \in Backers /\ \E amount \in PledgeAmounts : may_pledge(amount)
           /\ Accepts(POST_tx("signal-intent", w, 0)) <=> w \in Agents /\ workable(w)
           /\ Accepts(POST_tx("refund", w, 0)) <=>
                 w \in Backers /\ may_refund(w) /\ vault_lamports >= refund_amount(w)
           /\ Accepts(POST_tx("cancel", w, 0)) <=> may_cancel(w = Creator)
           /\ Accepts(POST_tx("close-pledge", w, 0)) <=> w \in Backers /\ may_close_pledge(w)
           /\ Accepts(POST_tx("close-vault", w, 0)) <=> vault_owned /\ vault_settled
           /\ \A k \in Agents \union {Creator} :
                 Accepts(POST_tx("invite-agent", w, k)) <=>
                       w = Creator /\ status \in {"Funding", "Funded"}
           /\ \A i \in Milestones :
                 /\ Accepts(POST_tx("submit-delivery", w, i)) <=>
                       w \in Agents /\ may_submit(i, w)
                 /\ Accepts(POST_tx("close-submission", w, i)) <=>
                       w \in Agents /\ may_close_submission(i, w)
<1>1. /\ Accepts(POST_tx("pledge", w, 0)) <=>
            w \in Backers /\ \E amount \in PledgeAmounts : may_pledge(amount)
      /\ Accepts(POST_tx("signal-intent", w, 0)) <=> w \in Agents /\ workable(w)
  BY PostedAre, PledgeAsks, SignalAsks
<1>2. /\ Accepts(POST_tx("refund", w, 0)) <=>
            w \in Backers /\ may_refund(w) /\ vault_lamports >= refund_amount(w)
      /\ Accepts(POST_tx("cancel", w, 0)) <=> may_cancel(w = Creator)
  BY PostedAre, RefundAsks, CancelAsks
<1>3. /\ Accepts(POST_tx("close-pledge", w, 0)) <=> w \in Backers /\ may_close_pledge(w)
      /\ Accepts(POST_tx("close-vault", w, 0)) <=> vault_owned /\ vault_settled
  BY PostedAre, ClosePledgeAsks, CloseVaultAsks
<1>4. \A k \in Agents \union {Creator} :
          Accepts(POST_tx("invite-agent", w, k)) <=>
                w = Creator /\ status \in {"Funding", "Funded"}
  BY PostedAre, InviteAsks
<1>5. \A i \in Milestones :
          /\ Accepts(POST_tx("submit-delivery", w, i)) <=> w \in Agents /\ may_submit(i, w)
          /\ Accepts(POST_tx("close-submission", w, i)) <=>
                w \in Agents /\ may_close_submission(i, w)
  BY PostedAre, SubmitAsks, CloseSubmissionAsks
<1> QED
  BY <1>1, <1>2, <1>3, <1>4, <1>5

(* The form for a new commission.                                          *)
LEMMA CreationHonoured ==
    ASSUME OfferInv, PostingMeetsGuards, status = "Uncreated"
    PROVE  PostingHonoured
<1> SUFFICES ASSUME config = "Open", NEW o \in Offers
             PROVE  LET tx == POST_tx("create-commission", Creator, o) IN
                    /\ is_refused(tx) => ~offer_accepted(o)
                    /\ ~is_refused(tx) /\ o.goal <= MAX_COMMISSION_LAMPORTS => Accepts(tx)
  BY DEF PostingHonoured
<1> DEFINE asked == [o EXCEPT !.milestone_bps = default_schedule(@)]
           tx == POST_tx("create-commission", Creator, o)
           keys == << Pays(Wallet(Creator)), Reads(configPda), Writes(commissionPda),
                      Writes(vaultPda), Reads(systemProgram) >>
<1>1. /\ offer_accepted(o) => asked = o /\ tx_create_terms(o)
      /\ tx_create_terms(asked) /\ o.goal <= MAX_COMMISSION_LAMPORTS => offer_accepted(asked)
  BY DEF PostingMeetsGuards
<1>2. TX_BUILDERS("create-commission", Creator, o) =
          IF tx_create_terms(asked) THEN build_createCommission(Creator, asked) ELSE Refused
  BY DEF TX_BUILDERS, tx_create_commission
<1>3. /\ build_createCommission(Creator, asked) = ix("createCommission", asked, keys)
      /\ 1 \in DOMAIN keys
  BY DEF build_createCommission
<1> HIDE DEF asked, keys
<1>4. ASSUME tx_create_terms(asked)
      PROVE  ~is_refused(tx) /\ asks(tx, build_createCommission(Creator, asked))
  <2>1. asks(tx, ix("createCommission", asked, keys))
    BY <1>2, <1>3, <1>4, PostedAsks
  <2>2. tx.name = "createCommission"
    BY <2>1 DEF asks, ix
  <2> QED
    BY <1>3, <2>1, <2>2 DEF is_refused, Refused, ix
<1>5. ASSUME ~tx_create_terms(asked) PROVE is_refused(tx)
  BY <1>2, <1>5 DEF POST_tx, is_refused
<1>6. may_create(asked) <=> offer_accepted(asked)
  BY DEF may_create, OfferInv, MoneyInv
<1> QED
  BY <1>1, <1>4, <1>5, <1>6, CreateAsks

(* What the rules offer, sent off.                                         *)
LEMMA RulesAreHonoured ==
    ASSUME OfferInv, OffersMeetGuards, status # "Uncreated", NEW w \in Wallets
    PROVE  RulesHonoured(w)
<1>1. /\ "cancel" \in offered(w, now) => may_cancel(w = Creator)
      /\ "refund" \in offered(w, now) /\ w \in live_pledges /\ status # "Delivered"
            => may_refund(w) /\ vault_lamports >= refund_amount(w)
      /\ \A s \in fronts(decodeCommission, submissionsFor) :
            IF s \in matured(now)
            THEN refunded = 0 =>
                   /\ may_release(s.milestoneIndex, s.agent, w = Creator)
                   /\ vault_lamports >= gross_of(s.milestoneIndex)
            ELSE "rejectDelivery" \in offers(w, now) =>
                   w = Creator /\ may_reject(s.milestoneIndex, s.agent)
      /\ "closePledge" \in offers(w, now) => status = "Delivered" /\ escrow_remaining = 0
      /\ "closeVault" \in offers(w, now) => vault_settled
  BY DEF OffersMeetGuards
<1>2. ASSUME NEW act \in offered(w, now)
      PROVE  /\ act = "cancel" => Accepts(POST_tx("cancel", w, 0))
             /\ act = "refund" /\ w \in live_pledges /\ status # "Delivered"
                   => Accepts(POST_tx("refund", w, 0))
  <2>1. w \in live_pledges => w \in Backers
    BY DEF live_pledges
  <2> QED
    BY <1>1, <1>2, <2>1, PostedMeetGuards
<1>3. ASSUME NEW s \in settled_by(w, now)
      PROVE  Accepts(POST_tx("close-submission", w, s.milestoneIndex))
  <2>1. PICK u \in 0 .. now : s \in settledForMe(decodeCommission, w, submissionsFor, u)
    BY <1>3 DEF settled_by
  <2>2. PICK i \in Milestones :
            /\ w \in Agents /\ s = decodeSubmission(i, w)
            /\ submission[i][w].state # "Empty" /\ submission_settled(i, w)
    BY <2>1, SettledWhen DEF OfferInv
  <2>3. s.milestoneIndex = i /\ may_close_submission(i, w)
    BY <2>2 DEF decodeSubmission, may_close_submission
  <2> QED
    BY <2>2, <2>3, PostedMeetGuards
<1>4. ASSUME NEW s \in fronts(decodeCommission, submissionsFor)
      PROVE  s.milestoneIndex \in Milestones /\ s.agent \in Agents
  <2>1. PICK i \in Milestones, a \in Agents : s = decodeSubmission(i, a)
    BY <1>4, FrontsAreFronts DEF OfferInv
  <2> QED
    BY <2>1 DEF decodeSubmission
<1>5. ASSUME NEW s \in matured(now), refunded = 0
      PROVE  Accepts(build_releaseMilestone(w, s.agent, s.milestoneIndex))
  <2>1. s \in fronts(decodeCommission, submissionsFor)
    BY <1>5 DEF matured
  <2> QED
    BY <1>1, <1>4, <1>5, <2>1, BuildersAgree DEF BuildersMeetGuards
<1>6. ASSUME "rejectDelivery" \in offers(w, now),
             NEW s \in fronts(decodeCommission, submissionsFor) \ matured(now)
      PROVE  Accepts(build_rejectDelivery(w, s.agent, s.milestoneIndex))
  BY <1>1, <1>4, <1>6, BuildersAgree DEF BuildersMeetGuards
<1>7. ASSUME "inviteAgent" \in offers(w, now), NEW a \in Agents \union {Creator}
      PROVE  Accepts(POST_tx("invite-agent", w, a))
  <2>1. w = Creator /\ decodeCommission.status \in {"funding", "funded"}
    BY <1>7, OfferKinds
  <2>2. status \in {"Funding", "Funded"}
    BY <2>1, ReadsOff DEF OfferInv
  <2> QED
    BY <2>1, <2>2, PostedMeetGuards
<1>8. ASSUME "closePledge" \in offers(w, now), w \in live_pledges
      PROVE  Accepts(POST_tx("close-pledge", w, 0))
  <2>1. w \in Backers /\ may_close_pledge(w)
    BY <1>1, <1>8 DEF live_pledges, may_close_pledge
  <2> QED
    BY <2>1, PostedMeetGuards
<1>9. ASSUME "closeVault" \in offers(w, now), vault_owned
      PROVE  Accepts(POST_tx("close-vault", w, 0))
  BY <1>1, <1>9, PostedMeetGuards
<1> QED
  BY <1>2, <1>3, <1>5, <1>6, <1>7, <1>8, <1>9 DEF RulesHonoured

(* What the API shows and lists, sent off.                                 *)
LEMMA PagesAreHonoured ==
    ASSUME OfferInv, OffersMeetGuards, PagesMeetGuards, status # "Uncreated",
           NEW w \in Wallets
    PROVE  PagesHonoured(w)
<1> SUFFICES ASSUME NEW item \in GET_commission(w)
             PROVE
      /\ \A s \in item.nextToJudge : judgeable_and_paid(s)
      /\ \A s \in item.submissions :
            /\ may_release(s.milestoneIndex, s.agent, FALSE) => s.releasableByAnyone
            /\ s.releasableByAnyone /\ refunded = 0
                  => may_release(s.milestoneIndex, s.agent, FALSE)
      /\ item.openForWork /\ w \in Agents \ {Creator} /\ item.invitedAgent \in {NoAgent, w}
            => Accepts(POST_tx("signal-intent", w, 0))
      /\ ~kept_by("actionable", w, item) =>
            \A action \in {"pledge", "refund", "cancel"} :
               ~Accepts(POST_tx(action, w, 0))
      /\ ~kept_by("openForWork", w, item) =>
            /\ ~Accepts(POST_tx("signal-intent", w, 0))
            /\ \A i \in Milestones : ~Accepts(POST_tx("submit-delivery", w, i))
  BY DEF PagesHonoured
<1>1. /\ \A s \in item.submissions :
            /\ may_release(s.milestoneIndex, s.agent, FALSE) => s.releasableByAnyone
            /\ s.releasableByAnyone /\ refunded = 0
                  => may_release(s.milestoneIndex, s.agent, FALSE)
      /\ item.openForWork /\ w # Creator /\ item.invitedAgent \in {NoAgent, w} <=> workable(w)
      /\ GET_commissions("openForWork", w) = {} => ~workable(w)
      /\ GET_commissions("actionable", w) = {} =>
            /\ ~may_cancel(w = Creator)
            /\ \A amount \in PledgeAmounts : ~may_pledge(amount)
            /\ w \in Backers => ~may_refund(w)
  BY DEF PagesMeetGuards
<1>2. item = presentCommission(w) /\ GET_commission(w) = {item}
  BY DEF GET_commission
<1>3. \A s \in item.nextToJudge : judgeable_and_paid(s)
  <2>1. item.nextToJudge = nextToJudge
    BY <1>2 DEF presentCommission
  <2> QED
    BY <2>1 DEF OffersMeetGuards
<1>4. \A query : ~kept_by(query, w, item) => GET_commissions(query, w) = {}
  BY <1>2 DEF GET_commissions
<1>5. ASSUME ~kept_by("actionable", w, item), NEW action \in {"pledge", "refund", "cancel"}
      PROVE  ~Accepts(POST_tx(action, w, 0))
  BY <1>1, <1>4, <1>5, PostedMeetGuards
<1>6. ASSUME ~kept_by("openForWork", w, item)
      PROVE  /\ ~Accepts(POST_tx("signal-intent", w, 0))
             /\ \A i \in Milestones : ~Accepts(POST_tx("submit-delivery", w, i))
  BY <1>1, <1>4, <1>6, PostedMeetGuards DEF may_submit
<1>7. item.openForWork /\ w \in Agents \ {Creator} /\ item.invitedAgent \in {NoAgent, w}
          => Accepts(POST_tx("signal-intent", w, 0))
  BY <1>1, PostedMeetGuards
<1> QED
  BY <1>1, <1>3, <1>5, <1>6, <1>7

(* For any number of wallets, milestones and deliveries, and by any clock  *)
(* not ahead of the cluster's: what availableActions offers, a page says   *)
(* or the command line claims, the transaction built for it gets; and the  *)
(* listings leave out no commission a wallet could move.                   *)
THEOREM OffersAreHonoured == Spec => []OffersHonoured
<1>1. OfferInv /\ OffersMeetGuards /\ PagesMeetGuards /\ PostingMeetsGuards => OffersHonoured
  <2> SUFFICES ASSUME OfferInv, OffersMeetGuards, PagesMeetGuards, PostingMeetsGuards
               PROVE  OffersHonoured
    OBVIOUS
  <2>1. ASSUME status # "Uncreated", NEW a \in Agents PROVE CliHonoured(a)
    <3>1. a \in Wallets
      BY DEF Wallets
    <3>2. \A i \in Milestones :
             /\ may_release(i, a, FALSE) => claim(a, i) # {}
             /\ claim(a, i) # {} /\ refunded = 0 =>
                   /\ may_release(i, a, FALSE) /\ vault_lamports >= gross_of(i)
                   /\ << i, "claimable now" >> \in describe(a)
      BY <2>1, <3>1 DEF OffersMeetGuards
    <3>3. \A i \in Milestones : may_release(i, a, FALSE) => may_release(i, a, a = Creator)
      BY DEF may_release
    <3> QED
      BY <3>1, <3>2, <3>3, BuildersAgree DEF BuildersMeetGuards, CliHonoured
  <2> QED
    BY <2>1, CreationHonoured, RulesAreHonoured, PagesAreHonoured DEF OffersHonoured
<1> QED
  BY <1>1, OffersAlways, OffersPassGuards, PagesShowGuards, PostingAgrees, PTL

(* And nothing is missing from the list: of the instructions a browser can *)
(* offer, one that is not offered to a wallet would be refused from it,    *)
(* for every milestone and agent it could be sent for.                     *)
THEOREM NothingIsHidden == Spec => []NothingHidden
<1>1. GuardsAreOffered => NothingHidden
  <2> SUFFICES ASSUME GuardsAreOffered, status # "Uncreated", NEW w \in Wallets
               PROVE  \A act \in { "pledge", "signalIntent", "refund", "cancel", "closeVault",
                         "closePledge", "submitDelivery", "closeSubmission",
                         "releaseMilestone", "rejectDelivery" } \ offers(w, now) :
                        \A tx \in transactions(act, w) : ~Accepts(tx)
    BY DEF NothingHidden
  <2> DEFINE hidden(act) == act \notin offers(w, now)
  <2>1. /\ (\E amount \in PledgeAmounts : may_pledge(amount)) => ~hidden("pledge")
        /\ workable(w) => ~hidden("signalIntent") /\ ~hidden("submitDelivery")
        /\ w \in Backers /\ may_refund(w) => ~hidden("refund")
        /\ may_cancel(w = Creator) => ~hidden("cancel")
        /\ vault_settled => ~hidden("closeVault")
        /\ status = "Delivered" /\ escrow_remaining = 0 /\ live_pledges # {}
              => ~hidden("closePledge")
        /\ \A i \in Milestones, a \in Agents :
              /\ a = w /\ submission[i][a].state # "Empty" /\ submission_settled(i, a)
                    => ~hidden("closeSubmission")
              /\ may_release(i, a, w = Creator) => ~hidden("releaseMilestone")
              /\ w = Creator /\ may_reject(i, a) => ~hidden("rejectDelivery")
    BY DEF GuardsAreOffered
  <2> HIDE DEF hidden
  <2>2. /\ hidden("pledge") => ~Accepts(build_pledge(w))
        /\ hidden("signalIntent") => ~Accepts(build_signalIntent(w))
        /\ hidden("refund") => ~Accepts(build_refund(w))
        /\ hidden("cancel") => ~Accepts(build_cancel(w))
        /\ hidden("closeVault") => ~Accepts(build_closeVault(w))
    BY <2>1, BuildersAgree DEF BuildersMeetGuards
  <2>3. hidden("closePledge") => ~Accepts(build_closePledge(w))
    <3>1. w \in Backers /\ may_close_pledge(w) =>
             status = "Delivered" /\ escrow_remaining = 0 /\ live_pledges # {}
      BY DEF may_close_pledge, live_pledges
    <3> QED
      BY <2>1, <3>1, BuildersAgree DEF BuildersMeetGuards
  <2>4. \A i \in Milestones :
           /\ hidden("submitDelivery") => ~Accepts(build_submitDelivery(w, i))
           /\ hidden("closeSubmission") => ~Accepts(build_closeSubmission(w, i))
    BY <2>1, BuildersAgree DEF BuildersMeetGuards, may_submit, may_close_submission
  <2>5. \A i \in Milestones, a \in Agents :
           /\ hidden("releaseMilestone") => ~Accepts(build_releaseMilestone(w, a, i))
           /\ hidden("rejectDelivery") => ~Accepts(build_rejectDelivery(w, a, i))
    BY <2>1, BuildersAgree DEF BuildersMeetGuards
  <2>6. /\ transactions("pledge", w) = {build_pledge(w)}
        /\ transactions("signalIntent", w) = {build_signalIntent(w)}
        /\ transactions("refund", w) = {build_refund(w)}
        /\ transactions("cancel", w) = {build_cancel(w)}
        /\ transactions("closeVault", w) = {build_closeVault(w)}
        /\ transactions("closePledge", w) = {build_closePledge(w)}
    BY DEF transactions
  <2>7. /\ transactions("submitDelivery", w) =
               { build_submitDelivery(w, i) : i \in Milestones }
        /\ transactions("closeSubmission", w) =
               { build_closeSubmission(w, i) : i \in Milestones }
    BY DEF transactions
  <2>8. /\ transactions("releaseMilestone", w) =
               { build_releaseMilestone(w, a, i) : a \in Agents, i \in Milestones }
        /\ transactions("rejectDelivery", w) =
               { build_rejectDelivery(w, a, i) : a \in Agents, i \in Milestones }
    BY DEF transactions
  <2>9. ASSUME NEW act \in {"pledge", "signalIntent", "refund", "cancel", "closeVault",
                            "closePledge"}, hidden(act), NEW tx \in transactions(act, w)
        PROVE  ~Accepts(tx)
    BY <2>2, <2>3, <2>6, <2>9
  <2>10. ASSUME NEW act \in {"submitDelivery", "closeSubmission"}, hidden(act),
                NEW tx \in transactions(act, w)
         PROVE  ~Accepts(tx)
    BY <2>4, <2>7, <2>10
  <2>11. ASSUME NEW act \in {"releaseMilestone", "rejectDelivery"}, hidden(act),
                NEW tx \in transactions(act, w)
         PROVE  ~Accepts(tx)
    BY <2>5, <2>8, <2>11
  <2> QED
    BY <2>9, <2>10, <2>11 DEF hidden
<1> QED
  BY <1>1, GuardsPassToOffers, PTL

\* Every window of the commission has run out.
windows_over ==
    now >= terms.deadline + terms.work_window + terms.review_window + CLAIM_GRACE_WINDOW

\* The way out of each party: it is told of it, and what the API builds for it is taken.
WayOutOpen ==
    status # "Uncreated" /\ windows_over =>
      /\ \A b \in live_pledges :
            \/ "refund" \in offers(b, now) /\ Accepts(POST_tx("refund", b, 0))
            \/ "closePledge" \in offers(b, now) /\ Accepts(POST_tx("close-pledge", b, 0))
      /\ \A i \in Milestones, a \in Agents : submission[i][a].state # "Empty" =>
            /\ "closeSubmission" \in offers(a, now)
            /\ Accepts(POST_tx("close-submission", a, i))
      /\ \A a \in Agents : intent[a] # "Empty" => Accepts(build_closeIntent(a))
      /\ vault_owned /\ live_pledges = {} => \A w \in Wallets :
            \/ "closeVault" \in offers(w, now) /\ Accepts(POST_tx("close-vault", w, 0))
            \/ "cancel" \in offers(w, now) /\ Accepts(POST_tx("cancel", w, 0))

(* From the program to the page: once the four windows are over, whatever  *)
(* happened before, every backer and agent is offered the way to what is   *)
(* its own, and the transaction the API builds for that is carried out.    *)
THEOREM WayOutIsOffered == Spec => []WayOutOpen
<1>1. OfferInv /\ WorstCaseHold /\ GuardsAreOffered => WayOutOpen
  <2> SUFFICES ASSUME OfferInv, WorstCaseHold, GuardsAreOffered, status # "Uncreated",
                      windows_over
               PROVE
      /\ \A b \in live_pledges :
            \/ "refund" \in offers(b, now) /\ Accepts(POST_tx("refund", b, 0))
            \/ "closePledge" \in offers(b, now) /\ Accepts(POST_tx("close-pledge", b, 0))
      /\ \A i \in Milestones, a \in Agents : submission[i][a].state # "Empty" =>
            /\ "closeSubmission" \in offers(a, now)
            /\ Accepts(POST_tx("close-submission", a, i))
      /\ \A a \in Agents : intent[a] # "Empty" => Accepts(build_closeIntent(a))
      /\ vault_owned /\ live_pledges = {} => \A w \in Wallets :
            \/ "closeVault" \in offers(w, now) /\ Accepts(POST_tx("close-vault", w, 0))
            \/ "cancel" \in offers(w, now) /\ Accepts(POST_tx("cancel", w, 0))
    BY DEF WayOutOpen
  <2>1. /\ \A b \in live_pledges :
              \/ may_refund(b) /\ vault_lamports >= refund_amount(b)
              \/ may_close_pledge(b)
        /\ \A i \in Milestones, a \in Agents :
              submission[i][a].state # "Empty" => may_close_submission(i, a)
        /\ \A a \in Agents : intent[a] # "Empty" => intent_over(a)
        /\ vault_owned /\ live_pledges = {} => vault_settled \/ may_cancel(FALSE)
    BY DEF WorstCaseHold, windows_over
  <2>2. \A w \in Backers \union Agents : w \in Wallets
    BY DEF Wallets
  <2>3. ASSUME NEW b \in live_pledges
        PROVE  \/ "refund" \in offers(b, now) /\ Accepts(POST_tx("refund", b, 0))
               \/ "closePledge" \in offers(b, now) /\ Accepts(POST_tx("close-pledge", b, 0))
    <3>1. b \in Backers /\ b \in Wallets
      BY <2>2 DEF live_pledges
    <3>2. ASSUME may_refund(b), vault_lamports >= refund_amount(b)
          PROVE  "refund" \in offers(b, now) /\ Accepts(POST_tx("refund", b, 0))
      BY <3>1, <3>2, PostedMeetGuards DEF GuardsAreOffered
    <3>3. ASSUME may_close_pledge(b)
          PROVE  "closePledge" \in offers(b, now) /\ Accepts(POST_tx("close-pledge", b, 0))
      <4>1. status = "Delivered" /\ escrow_remaining = 0 /\ live_pledges # {}
        BY <3>3 DEF may_close_pledge
      <4>2. "closePledge" \in offers(b, now)
        BY <3>1, <4>1 DEF GuardsAreOffered
      <4> QED
        BY <3>1, <3>3, <4>2, PostedMeetGuards
    <3> QED
      BY <2>1, <3>2, <3>3
  <2>4. ASSUME NEW i \in Milestones, NEW a \in Agents, submission[i][a].state # "Empty"
        PROVE  /\ "closeSubmission" \in offers(a, now)
               /\ Accepts(POST_tx("close-submission", a, i))
    <3>1. may_close_submission(i, a) /\ submission_settled(i, a)
      BY <2>1, <2>4 DEF may_close_submission
    <3>2. "closeSubmission" \in offers(a, now)
      BY <2>2, <2>4, <3>1 DEF GuardsAreOffered
    <3> QED
      BY <2>2, <3>1, <3>2, PostedMeetGuards
  <2>5. ASSUME NEW a \in Agents, intent[a] # "Empty" PROVE Accepts(build_closeIntent(a))
    BY <2>1, <2>2, <2>5, BuildersAgree DEF BuildersMeetGuards
  <2>6. ASSUME vault_owned, live_pledges = {}, NEW w \in Wallets
        PROVE  \/ "closeVault" \in offers(w, now) /\ Accepts(POST_tx("close-vault", w, 0))
               \/ "cancel" \in offers(w, now) /\ Accepts(POST_tx("cancel", w, 0))
    <3>1. may_cancel(FALSE) => may_cancel(w = Creator)
      BY DEF may_cancel
    <3> QED
      BY <2>1, <2>6, <3>1, PostedMeetGuards DEF GuardsAreOffered
  <2> QED
    BY <2>3, <2>4, <2>5, <2>6
<1> QED
  BY <1>1, OffersAlways, HoldIsBounded, GuardsPassToOffers, PTL
=============================================================================
