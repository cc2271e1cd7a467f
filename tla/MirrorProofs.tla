---------------------------- MODULE MirrorProofs ----------------------------
(***************************************************************************)
(* Why the mirror tells nothing the chain did not decide, for any number   *)
(* of agents, milestones and deliveries, whatever scans and writes fail.   *)
(*                                                                         *)
(* The argument: places in a queue are handed out once, so a place names   *)
(* one agent wherever it is kept; the chain's counter of rejections only   *)
(* grows, and stops for good when its milestone is paid.  A place compared *)
(* with an older counter therefore says only what is true already.         *)
(***************************************************************************)
EXTENDS MirrorProperties, EscrowProofs

Accounts == [Milestones -> [Agents -> Seen]]
Notices == [ kind : Kinds, milestone : Milestones, agent : Agents, sequence : Nat ]
Verdicts == [ milestone : Milestones, agent : Agents, sequence : Nat,
              state : {"Rejected", "Released"} ]

(* A verdict names the place it judged.                                    *)
LEMMA NewVerdictsTyped ==
    ASSUME TypeOK, TypeOK' PROVE new_verdicts \subseteq Verdicts
<1> SUFFICES ASSUME NEW i \in Milestones, NEW a \in Agents,
                    submission'[i][a].state \in {"Rejected", "Released"}
             PROVE  [ milestone |-> i, agent |-> a, sequence |-> submission[i][a].sequence,
                      state |-> submission'[i][a].state ] \in Verdicts
  BY DEF new_verdicts, Pairs
<1>1. submission \in [Milestones -> [Agents -> SubmissionAccounts]]
  BY DEF TypeOK
<1>2. submission[i][a].sequence \in Nat
  BY <1>1 DEF SubmissionAccounts
<1> QED
  BY <1>2 DEF Verdicts

(* The upsert writes rows.                                                 *)
LEMMA RememberedTyped ==
    ASSUME NEW row \in Rows, NEW s \in Seen PROVE remembered(row, s) \in Rows
<1>1. CASE s.state \in {"Empty", row.last_state}
  BY <1>1 DEF remembered
<1>2. CASE s.state \notin {"Empty", row.last_state}
  <2> DEFINE e == IF row.last_state = "Empty" THEN s.sequence ELSE row.evidence
  <2>1. /\ s.state \in {"Pending", "Rejected", "Released"}
        /\ s.sequence \in Nat /\ e \in Nat
    BY <1>2 DEF Rows, Seen
  <2>2. remembered(row, s) = [ last_state |-> s.state, sequence |-> s.sequence, evidence |-> e ]
    BY <1>2 DEF remembered
  <2> HIDE DEF e
  <2> QED
    BY <2>1, <2>2 DEF Rows
<1> QED
  BY <1>1, <1>2

(* Every event of a scan is a notice.                                      *)
LEMMA EventsTyped ==
    ASSUME NEW c, NEW b \in Accounts, NEW h \in [Milestones -> [Agents -> Rows]]
    PROVE  detectEvents(c, b, h) \subseteq Notices
<1>1. \A kind \in Kinds, i \in Milestones, a \in Agents, q \in Nat :
          Event(kind, i, a, q) \in Notices
  BY DEF Event, Notices
<1>2. \A i \in Milestones, a \in Agents :
          b[i][a].sequence \in Nat /\ h[i][a].sequence \in Nat
  BY DEF Accounts, Seen, Rows
<1>3. verdict_events(c, b, h) \subseteq Notices
  <2> SUFFICES ASSUME NEW i \in Milestones, NEW a \in Agents
               PROVE  verdict_event(c, b, i, a, h[i][a]) \in Notices
    BY DEF verdict_events, Pairs
  <2> QED
    BY <1>1, <1>2 DEF verdict_event, Kinds
<1>4. front_events(c, b) \subseteq Notices
  <2> SUFFICES ASSUME NEW i \in Milestones, NEW a \in Agents
               PROVE  /\ Event("review-lapsed", i, a, b[i][a].sequence) \in Notices
                      /\ Event("claimable", i, a, b[i][a].sequence) \in Notices
                      /\ Event("delivery-waiting", i, a, b[i][a].sequence) \in Notices
    BY DEF front_events, Pairs
  <2> QED
    BY <1>1, <1>2 DEF Kinds
<1> QED
  BY <1>3, <1>4 DEF detectEvents

-----------------------------------------------------------------------------
(* Types.                                                                  *)

(* Before the first scan nothing is known.                                 *)
LEMMA InitMirrorType == MirrorInit => MirrorTypeOK
<1>1. NoCommission \in Scanned /\ NoAccounts \in [Milestones -> [Agents -> Seen]]
  BY DEF NoCommission, NoAccounts, NoSubmission, Scanned, Seen
<1>2. [i \in Milestones |-> [a \in Agents |-> NoRow]] \in [Milestones -> [Agents -> Rows]]
  BY DEF NoRow, Rows
<1> SUFFICES ASSUME MirrorInit PROVE MirrorTypeOK
  OBVIOUS
<1>3. /\ value \in Scanned /\ cached_value \in Scanned
      /\ accounts \in [Milestones -> [Agents -> Seen]]
      /\ cached_accounts \in [Milestones -> [Agents -> Seen]]
      /\ delivery_history \in [Milestones -> [Agents -> Rows]]
  BY <1>1, <1>2 DEF MirrorInit
<1>4. /\ verdicts = {} /\ read = {} /\ notifications = {} /\ disputes = {}
      /\ inflight = FALSE /\ cached = FALSE /\ cached_at = 0
  BY DEF MirrorInit
<1> QED
  BY <1>3, <1>4 DEF MirrorTypeOK

(* Every step of the server keeps the types.                               *)
LEMMA StepMirrorType ==
    TypeOK /\ TypeOK' /\ MirrorTypeOK /\ [MirrorNext]_mvars => MirrorTypeOK'
<1> SUFFICES ASSUME TypeOK, TypeOK', MirrorTypeOK, [MirrorNext]_mvars
             PROVE  MirrorTypeOK'
  OBVIOUS
<1> USE DEF scan_vars, cache_vars, database, mirror_vars
<1>0. NoCommission \in Scanned /\ NoAccounts \in Accounts
  BY DEF NoCommission, NoAccounts, NoSubmission, Scanned, Accounts, Seen
<1>1. CASE ChainStep
  BY <1>1, NewVerdictsTyped DEF ChainStep, MirrorTypeOK, Verdicts
<1>2. CASE StartScan
  BY <1>2 DEF StartScan, MirrorTypeOK
<1>3. CASE ReadCommissions
  <2>1. value' \in Scanned
    BY <1>3 DEF ReadCommissions, Scanned, TypeOK
  <2>2. read' \subseteq {"commissions", "submissions"}
    BY <1>3 DEF ReadCommissions, MirrorTypeOK
  <2> QED
    BY <1>3, <2>1, <2>2 DEF ReadCommissions, MirrorTypeOK
<1>4. CASE ReadSubmissions
  <2>1. accounts' \in Accounts
    BY <1>4 DEF ReadSubmissions, Accounts, Seen, TypeOK, SubmissionAccounts
  <2>2. read' \subseteq {"commissions", "submissions"}
    BY <1>4 DEF ReadSubmissions, MirrorTypeOK
  <2> QED
    BY <1>4, <2>1, <2>2 DEF ReadSubmissions, MirrorTypeOK, Accounts
<1>5. CASE FailScan
  BY <1>5, <1>0 DEF FailScan, NoScan, MirrorTypeOK, Accounts
<1>6. ASSUME NEW remembers \in BOOLEAN, NEW tells \in BOOLEAN,
             FinishScan(remembers, tells)
      PROVE  MirrorTypeOK'
  <2>1. delivery_history' \in [Milestones -> [Agents -> Rows]]
    <3>1. CASE remembers
      <4>1. \A i \in Milestones, a \in Agents :
                remembered(delivery_history[i][a], accounts[i][a]) \in Rows
        BY RememberedTyped DEF MirrorTypeOK
      <4> QED
        BY <1>6, <3>1, <4>1 DEF FinishScan
    <3>2. CASE ~remembers
      BY <1>6, <3>2 DEF FinishScan, MirrorTypeOK
    <3> QED
      BY <3>1, <3>2
  <2>2. notifications' \subseteq Notices
    <3>1. detectEvents(value, accounts, delivery_history') \subseteq Notices
      BY <2>1, EventsTyped DEF MirrorTypeOK, Accounts
    <3> QED
      BY <1>6, <3>1 DEF FinishScan, recorded, MirrorTypeOK, Notices
  <2> QED
    BY <1>6, <1>0, <2>1, <2>2
    DEF FinishScan, NoScan, MirrorTypeOK, Accounts, Notices, TypeOK
<1>7. ASSUME NEW i \in Milestones, NEW a \in Agents, FileDispute(i, a)
      PROVE  MirrorTypeOK'
  <2>1. Event("dispute-opened", i, a, delivery_history[i][a].sequence) \in Notices
    BY DEF Event, Notices, Kinds, MirrorTypeOK, Rows
  <2>2. notifications' \subseteq Notices
    BY <1>7, <2>1 DEF FileDispute, recorded, MirrorTypeOK, Notices
  <2>3. disputes' \subseteq Pairs
    BY <1>7 DEF FileDispute, MirrorTypeOK, Pairs
  <2> QED
    BY <1>7, <2>2, <2>3 DEF FileDispute, MirrorTypeOK, Notices
<1>8. CASE Restart
  BY <1>8, <1>0 DEF Restart, NoScan, NoCache, MirrorTypeOK, Accounts
<1>9. CASE UNCHANGED mvars
  BY <1>9 DEF mvars, MirrorTypeOK
<1> QED
  BY <1>1, <1>2, <1>3, <1>4, <1>5, <1>6, <1>7, <1>8, <1>9
  DEF MirrorNext, WorkingStep

(* What the server does never moves the chain.                             *)
LEMMA ChainAlone == [MirrorNext]_mvars => [Next]_vars
  BY DEF MirrorNext, WorkingStep, ChainStep, StartScan, ReadCommissions,
         ReadSubmissions, FailScan, FinishScan, FileDispute, Restart, mvars

(* The mirror's variables keep their types whatever fails (MirrorTypeOK),  *)
(* and behind it the escrow keeps the types of its own.                    *)
THEOREM MirrorTypeCorrect == MirrorSpec => [](TypeInv /\ MirrorTypeOK)
<1>1. MirrorInit => TypeInv /\ MirrorTypeOK
  BY InitTypeInv, InitMirrorType DEF MirrorInit
<1>2. TypeInv /\ MirrorTypeOK /\ [MirrorNext]_mvars => (TypeInv /\ MirrorTypeOK)'
  BY ChainAlone, StepTypeInv, StepMirrorType DEF TypeInv
<1> QED
  BY <1>1, <1>2, PTL DEF MirrorSpec

-----------------------------------------------------------------------------
(* The invariant.                                                          *)

\* Some account or row, now or as a scan had it, gives agent a place q.
keeps(i, a, q) ==
    \/ submission[i][a].state # "Empty" /\ submission[i][a].sequence = q
    \/ accounts[i][a].state # "Empty" /\ accounts[i][a].sequence = q
    \/ cached_accounts[i][a].state # "Empty" /\ cached_accounts[i][a].sequence = q
    \/ /\ delivery_history[i][a].last_state # "Empty"
       /\ delivery_history[i][a].sequence = q

Counted == \A i \in Milestones : milestone_rejected[i] <= milestone_submitted[i]

InLine ==
    \A i \in Milestones, a \in Agents, q \in Nat :
        keeps(i, a, q) => q < milestone_submitted[i]

OneOwner ==
    \A i \in Milestones, a, b \in Agents, q \in Nat :
        keeps(i, a, q) /\ keeps(i, b, q) => a = b

RefusedRuled ==
    \A i \in Milestones, a \in Agents, q \in Nat :
        keeps(i, a, q) /\ q < milestone_rejected[i] => ruled(i, a, q, "Rejected")

PaidRuled ==
    \A i \in Milestones, a \in Agents :
        i \in milestones_done /\ keeps(i, a, milestone_rejected[i])
        => ruled(i, a, milestone_rejected[i], "Released")

PaidIsLast ==
    \A i \in Milestones, a \in Agents :
        i \in milestones_done /\ submission[i][a].state = "Pending"
        => submission[i][a].sequence # milestone_rejected[i]

AheadRefused ==
    \A i \in Milestones, q \in Nat :
        q < milestone_rejected[i] => \E a \in Agents : ruled(i, a, q, "Rejected")

\* A place has one owner, and what the counters say of it has been ruled.
Places ==
    /\ Counted /\ InLine /\ OneOwner /\ RefusedRuled /\ PaidRuled /\ PaidIsLast
    /\ AheadRefused

judged_truly(b) ==
    \A i \in Milestones, a \in Agents :
        b[i][a].state \in {"Rejected", "Released"}
        => ruled(i, a, b[i][a].sequence, b[i][a].state)

\* A counter once read is never ahead, and exact where the milestone was paid.
behind(c) ==
    \A i \in Milestones :
        /\ c.milestone_rejected[i] <= milestone_rejected[i]
        /\ i \in c.milestones_done =>
             i \in milestones_done /\ c.milestone_rejected[i] = milestone_rejected[i]

Knowledge ==
    /\ Places
    /\ judged_truly(submission) /\ judged_truly(accounts) /\ judged_truly(cached_accounts)
    /\ RowsObserved
    /\ behind(value) /\ behind(cached_value)

Notified == PaidNoticeTrue /\ RefusedNoticeTrue /\ FrontNoticeTrue /\ DisputesGrounded

MirrorInv == TypeInv /\ MirrorTypeOK /\ Knowledge /\ Notified

-----------------------------------------------------------------------------
(* What an instruction can do to a queue.                                  *)

counts == <<milestone_submitted, milestone_rejected, milestones_done>>

QueueStays == submission' = submission /\ UNCHANGED counts

PlaceTaken(i, a) ==
    /\ i \notin milestones_done
    /\ submission' = [submission EXCEPT ![i][a] =
           [ state |-> "Pending", sequence |-> milestone_submitted[i],
             submitted_at |-> now ]]
    /\ milestone_submitted' = [milestone_submitted EXCEPT ![i] = @ + 1]
    /\ UNCHANGED <<milestone_rejected, milestones_done>>

PlaceRefused(i, a) ==
    /\ at_front(i, a)
    /\ Judged(i, a, "Rejected")
    /\ milestone_rejected' = [milestone_rejected EXCEPT ![i] = @ + 1]
    /\ UNCHANGED <<milestone_submitted, milestones_done>>

PlacePaid(i, a) ==
    /\ at_front(i, a)
    /\ i \notin milestones_done
    /\ Judged(i, a, "Released")
    /\ milestones_done' = milestones_done \union {i}
    /\ UNCHANGED <<milestone_submitted, milestone_rejected>>

PlaceLeft(i, a) ==
    /\ submission' = [submission EXCEPT ![i][a] = NoSubmission]
    /\ UNCHANGED counts

QueueStep(i, a) ==
    PlaceTaken(i, a) \/ PlaceRefused(i, a) \/ PlacePaid(i, a) \/ PlaceLeft(i, a)

(* Four instructions move a place, no other touches the queue.             *)
LEMMA NextQueue ==
    ASSUME Next PROVE QueueStays \/ \E i \in Milestones, a \in Agents : QueueStep(i, a)
<1> USE DEF life, queue, counts
<1>1. CASE \/ Tick \/ InitConfig \/ CloseVault \/ Donate
           \/ \E p \in BOOLEAN : SetPaused(p)
           \/ \E o \in Offers : CreateCommission(o)
           \/ \E k \in Agents \union {Creator} : InviteAgent(k)
           \/ \E byCreator \in BOOLEAN : Cancel(byCreator)
  BY <1>1 DEF QueueStays, Tick, InitConfig, CloseVault, Donate, SetPaused,
              CreateCommission, may_create, InviteAgent, Cancel
<1>2. ASSUME NEW b \in Backers, BackerStep(b) PROVE QueueStays
  BY <1>2 DEF QueueStays, BackerStep, Pledge, Refund, ClosePledge, may_close_pledge
<1>3. ASSUME NEW a \in Agents, SignalIntent(a) \/ WithdrawIntent(a) \/ CloseIntent(a)
      PROVE  QueueStays
  BY <1>3 DEF QueueStays, SignalIntent, WithdrawIntent, CloseIntent
<1>4. ASSUME NEW i \in Milestones, NEW a \in Agents, SubmitDelivery(i, a)
      PROVE  PlaceTaken(i, a)
  BY <1>4 DEF PlaceTaken, SubmitDelivery, may_submit, milestone_released
<1>5. ASSUME NEW i \in Milestones, NEW a \in Agents, RejectDelivery(i, a)
      PROVE  PlaceRefused(i, a)
  BY <1>5 DEF PlaceRefused, RejectDelivery, may_reject, Judged
<1>6. ASSUME NEW i \in Milestones, NEW a \in Agents, NEW byCreator \in BOOLEAN,
             ReleaseMilestone(i, a, byCreator)
      PROVE  PlacePaid(i, a)
  BY <1>6 DEF PlacePaid, ReleaseMilestone, may_release, milestone_released, Judged
<1>7. ASSUME NEW i \in Milestones, NEW a \in Agents, CloseSubmission(i, a)
      PROVE  PlaceLeft(i, a)
  BY <1>7 DEF PlaceLeft, CloseSubmission, may_close_submission
<1> QED
  BY <1>1, <1>2, <1>3, <1>4, <1>5, <1>6, <1>7 DEF Next, AgentStep, QueueStep

(* A verdict is written down with the place it judged.                     *)
LEMMA JudgmentWritten ==
    ASSUME TypeOK, NEW i \in Milestones, NEW a \in Agents,
           NEW st \in {"Released", "Rejected"},
           submission[i][a].state = "Pending", Judged(i, a, st)
    PROVE  [ milestone |-> i, agent |-> a, sequence |-> submission[i][a].sequence,
             state |-> st ] \in new_verdicts
<1>1. submission'[i][a].state = st
  BY JudgedAccount
<1>2. <<i, a>> \in { q \in Pairs :
                       /\ submission[q[1]][q[2]].state = "Pending"
                       /\ submission'[q[1]][q[2]].state \in {"Rejected", "Released"} }
  BY <1>1 DEF Pairs
<1> QED
  BY <1>1, <1>2 DEF new_verdicts

(* Verdicts are never taken back.                                          *)
LEMMA RuledForGood ==
    ASSUME verdicts \subseteq verdicts', NEW i, NEW a, NEW q, NEW s, ruled(i, a, q, s)
    PROVE  ruled(i, a, q, s)'
  BY DEF ruled

(* A new delivery takes the next place, which nobody kept before.          *)
LEMMA TakenPlaces ==
    ASSUME TypeOK, Places, verdicts \subseteq verdicts', UNCHANGED mirror_vars,
           NEW i \in Milestones, NEW a \in Agents, PlaceTaken(i, a)
    PROVE  Places'
<1> DEFINE s == [ state |-> "Pending", sequence |-> milestone_submitted[i],
                  submitted_at |-> now ]
<1>1. /\ milestone_submitted \in [Milestones -> Nat]
      /\ milestone_rejected \in [Milestones -> Nat]
      /\ submission \in [Milestones -> [Agents -> SubmissionAccounts]]
  BY DEF TypeOK
<1>2. submission' = [submission EXCEPT ![i] = [@ EXCEPT ![a] = s]]
  BY DEF PlaceTaken
<1>3. s.state = "Pending" /\ s.sequence = milestone_submitted[i]
  OBVIOUS
<1> HIDE DEF s
<1>4. \A j \in Milestones, b \in Agents :
          submission'[j][b] = IF j = i /\ b = a THEN s ELSE submission[j][b]
  BY <1>1, <1>2
<1>5. /\ \A j \in Milestones :
            milestone_submitted'[j] = IF j = i THEN milestone_submitted[i] + 1
                                      ELSE milestone_submitted[j]
      /\ milestone_rejected' = milestone_rejected
      /\ milestones_done' = milestones_done /\ i \notin milestones_done
  BY <1>1 DEF PlaceTaken
<1>6. \A j \in Milestones, b \in Agents, q \in Nat :
          keeps(j, b, q)' => \/ keeps(j, b, q)
                             \/ j = i /\ b = a /\ q = milestone_submitted[i]
  BY <1>3, <1>4 DEF keeps, mirror_vars, scan_vars, cache_vars, database
<1>7. Counted' /\ InLine'
  BY <1>1, <1>5, <1>6 DEF Places, Counted, InLine
<1>8. OneOwner'
  BY <1>1, <1>6 DEF Places, OneOwner, InLine
<1>9. RefusedRuled'
  BY <1>1, <1>5, <1>6, RuledForGood DEF Places, RefusedRuled, Counted
<1>10. PaidRuled'
  BY <1>1, <1>5, <1>6, RuledForGood DEF Places, PaidRuled
<1>11. PaidIsLast'
  BY <1>4, <1>5 DEF Places, PaidIsLast
<1>12. AheadRefused'
  BY <1>5, RuledForGood DEF Places, AheadRefused
<1> QED
  BY <1>7, <1>8, <1>9, <1>10, <1>11, <1>12 DEF Places

(* A judgment and a closing give no place away, and a refusal or a payment *)
(* is ruled upon the one agent that keeps the place at the front.          *)
LEMMA JudgedPlaces ==
    ASSUME TypeOK, Places, verdicts' = verdicts \union new_verdicts,
           UNCHANGED mirror_vars,
           NEW i \in Milestones, NEW a \in Agents,
           PlaceRefused(i, a) \/ PlacePaid(i, a)
    PROVE  Places'
<1>1. /\ milestone_submitted \in [Milestones -> Nat]
      /\ milestone_rejected \in [Milestones -> Nat]
      /\ submission \in [Milestones -> [Agents -> SubmissionAccounts]]
      /\ verdicts \subseteq verdicts'
  BY DEF TypeOK
<1>0. PICK front \in Nat : front = milestone_rejected[i]
  BY <1>1
<1>2. PICK st \in {"Released", "Rejected"} :
          /\ Judged(i, a, st)
          /\ st = "Rejected" => PlaceRefused(i, a)
          /\ st = "Released" => PlacePaid(i, a)
  BY DEF PlaceRefused, PlacePaid
<1>3. /\ submission[i][a].state = "Pending" /\ submission[i][a].sequence = front
      /\ front \in Nat /\ keeps(i, a, front)
  BY <1>0, <1>1, <1>2 DEF PlaceRefused, PlacePaid, at_front, keeps
<1>4. \A j \in Milestones, b \in Agents :
          /\ submission'[j][b].state = IF j = i /\ b = a THEN st ELSE submission[j][b].state
          /\ submission'[j][b].sequence = submission[j][b].sequence
  BY <1>2, JudgedAccount
<1>5. ruled(i, a, front, st)'
  BY <1>2, <1>3, JudgmentWritten DEF ruled
<1>6. \A j \in Milestones, b \in Agents, q \in Nat : keeps(j, b, q)' => keeps(j, b, q)
  BY <1>3, <1>4 DEF keeps, mirror_vars, scan_vars, cache_vars, database
<1>7. \A b \in Agents : keeps(i, b, front)' => b = a
  BY <1>3, <1>6 DEF Places, OneOwner
<1>8. i \notin milestones_done
  BY <1>0, <1>2, <1>3 DEF PlacePaid, Places, PaidIsLast
<1>9. front < milestone_submitted[i]
  BY <1>3 DEF Places, InLine
<1>10. OneOwner'
  BY <1>6 DEF Places, OneOwner
<1>11. CASE st = "Rejected"
  <2>1. /\ \A j \in Milestones :
              milestone_rejected'[j] = IF j = i THEN front + 1 ELSE milestone_rejected[j]
        /\ milestone_submitted' = milestone_submitted
        /\ milestones_done' = milestones_done
    BY <1>0, <1>1, <1>2, <1>11 DEF PlaceRefused
  <2>2. Counted' /\ InLine'
    BY <1>1, <1>6, <1>9, <2>1 DEF Places, Counted, InLine
  <2>3. RefusedRuled'
    <3> SUFFICES ASSUME NEW j \in Milestones, NEW b \in Agents, NEW q \in Nat,
                        keeps(j, b, q)', q < milestone_rejected'[j]
                 PROVE  ruled(j, b, q, "Rejected")'
      BY DEF RefusedRuled
    <3>1. CASE q < milestone_rejected[j]
      BY <1>1, <1>6, <3>1, RuledForGood DEF Places, RefusedRuled
    <3>2. CASE ~(q < milestone_rejected[j])
      <4>1. j = i /\ q < front + 1 /\ ~(q < front)
        BY <1>0, <2>1, <3>2
      <4>2. q = front
        BY <4>1, <1>0
      <4> QED
        BY <1>5, <1>7, <1>11, <4>1, <4>2
    <3> QED
      BY <3>1, <3>2
  <2>4. PaidRuled'
    BY <1>1, <1>6, <1>8, <2>1, RuledForGood DEF Places, PaidRuled
  <2>5. PaidIsLast'
    BY <1>4, <1>8, <2>1 DEF Places, PaidIsLast
  <2>6. AheadRefused'
    <3> SUFFICES ASSUME NEW j \in Milestones, NEW q \in Nat, q < milestone_rejected'[j]
                 PROVE  \E b \in Agents : ruled(j, b, q, "Rejected")'
      BY DEF AheadRefused
    <3>1. CASE q < milestone_rejected[j]
      BY <1>1, <3>1, RuledForGood DEF Places, AheadRefused
    <3>2. CASE ~(q < milestone_rejected[j])
      <4>1. j = i /\ q < front + 1 /\ ~(q < front)
        BY <1>0, <2>1, <3>2
      <4>2. q = front
        BY <4>1, <1>0
      <4> QED
        BY <1>5, <1>11, <4>1, <4>2
    <3> QED
      BY <3>1, <3>2
  <2> QED
    BY <1>10, <2>2, <2>3, <2>4, <2>5, <2>6 DEF Places
<1>12. CASE st = "Released"
  <2>1. /\ milestone_rejected' = milestone_rejected
        /\ milestone_submitted' = milestone_submitted
        /\ milestones_done' = milestones_done \union {i}
    BY <1>2, <1>12 DEF PlacePaid
  <2>2. Counted' /\ InLine'
    BY <1>6, <2>1 DEF Places, Counted, InLine
  <2>3. RefusedRuled'
    BY <1>1, <1>6, <2>1, RuledForGood DEF Places, RefusedRuled
  <2>4. PaidRuled'
    <3> SUFFICES ASSUME NEW j \in Milestones, NEW b \in Agents,
                        j \in milestones_done', keeps(j, b, milestone_rejected[j])'
                 PROVE  ruled(j, b, milestone_rejected[j], "Released")'
      BY <2>1 DEF PaidRuled
    <3> QED
      BY <1>0, <1>1, <1>5, <1>6, <1>7, <1>12, <2>1, RuledForGood DEF Places, PaidRuled
  <2>5. PaidIsLast'
    <3> SUFFICES ASSUME NEW j \in Milestones, NEW b \in Agents,
                        j \in milestones_done', submission'[j][b].state = "Pending",
                        submission'[j][b].sequence = milestone_rejected[j]
                 PROVE  FALSE
      BY <2>1 DEF PaidIsLast
    <3>1. CASE j = i
      <4>1. keeps(i, b, front)
        BY <1>0, <1>3, <1>4, <3>1 DEF keeps
      <4>2. b = a
        BY <1>3, <4>1 DEF Places, OneOwner
      <4> QED
        BY <1>4, <1>12, <3>1, <4>2
    <3>2. CASE j # i
      BY <1>4, <2>1, <3>2 DEF Places, PaidIsLast
    <3> QED
      BY <3>1, <3>2
  <2>6. AheadRefused'
    BY <2>1, RuledForGood, <1>1 DEF Places, AheadRefused
  <2> QED
    BY <1>10, <2>2, <2>3, <2>4, <2>5, <2>6 DEF Places
<1> QED
  BY <1>11, <1>12

(* A step that moves no counter and gives no place away keeps all this.    *)
LEMMA KeptPlaces ==
    ASSUME Places, verdicts \subseteq verdicts', UNCHANGED counts,
           \A j \in Milestones, b \in Agents, q \in Nat : keeps(j, b, q)' => keeps(j, b, q),
           \A j \in Milestones, b \in Agents :
               submission'[j][b].state = "Pending" => submission'[j][b] = submission[j][b],
           milestone_rejected \in [Milestones -> Nat]
    PROVE  Places'
<1>1. /\ milestone_rejected' = milestone_rejected
      /\ milestone_submitted' = milestone_submitted
      /\ milestones_done' = milestones_done
  BY DEF counts
<1>2. Counted' /\ InLine' /\ OneOwner'
  BY <1>1 DEF Places, Counted, InLine, OneOwner
<1>3. RefusedRuled'
  BY <1>1, RuledForGood DEF Places, RefusedRuled
<1>4. PaidRuled'
  BY <1>1, RuledForGood DEF Places, PaidRuled
<1>5. PaidIsLast'
  BY <1>1 DEF Places, PaidIsLast
<1>6. AheadRefused'
  BY <1>1, RuledForGood DEF Places, AheadRefused
<1> QED
  BY <1>2, <1>3, <1>4, <1>5, <1>6 DEF Places

(* An account closed leaves its place to nobody.                           *)
LEMMA LeftAccount ==
    ASSUME TypeOK, NEW i \in Milestones, NEW a \in Agents, PlaceLeft(i, a)
    PROVE  \A j \in Milestones, b \in Agents :
               submission'[j][b] = submission[j][b] \/ submission'[j][b].state = "Empty"
<1>1. submission \in [Milestones -> [Agents -> SubmissionAccounts]]
  BY DEF TypeOK
<1>2. submission' = [submission EXCEPT ![i] = [@ EXCEPT ![a] = NoSubmission]]
  BY DEF PlaceLeft
<1>3. NoSubmission.state = "Empty"
  BY DEF NoSubmission
<1> QED
  BY <1>1, <1>2, <1>3

(* The chain's own steps.                                                  *)
LEMMA ChainPlaces == ASSUME TypeOK, Places, ChainStep PROVE Places'
<1>1. /\ milestone_rejected \in [Milestones -> Nat]
      /\ verdicts' = verdicts \union new_verdicts /\ UNCHANGED mirror_vars
      /\ verdicts \subseteq verdicts'
  BY DEF ChainStep, TypeOK
<1>2. CASE QueueStays
  BY <1>1, <1>2, KeptPlaces
  DEF QueueStays, keeps, mirror_vars, scan_vars, cache_vars, database
<1>3. ASSUME NEW i \in Milestones, NEW a \in Agents, QueueStep(i, a)
      PROVE  Places'
  <2>1. CASE PlaceTaken(i, a)
    BY <1>1, <2>1, TakenPlaces
  <2>2. CASE PlaceRefused(i, a) \/ PlacePaid(i, a)
    BY <1>1, <2>2, JudgedPlaces
  <2>3. CASE PlaceLeft(i, a)
    <3>1. \A j \in Milestones, b \in Agents :
              submission'[j][b] = submission[j][b] \/ submission'[j][b].state = "Empty"
      BY <2>3, LeftAccount
    <3>2. \A j \in Milestones, b \in Agents, q \in Nat :
              keeps(j, b, q)' => keeps(j, b, q)
      BY <1>1, <3>1 DEF keeps, mirror_vars, scan_vars, cache_vars, database
    <3>3. UNCHANGED counts
      BY <2>3 DEF PlaceLeft
    <3> QED
      BY <1>1, <3>1, <3>2, <3>3, KeptPlaces
  <2> QED
    BY <1>3, <2>1, <2>2, <2>3 DEF QueueStep
<1>4. Next
  BY DEF ChainStep
<1> QED
  BY <1>2, <1>3, <1>4, NextQueue

(* Every account judged has its verdict written down.                      *)
LEMMA ChainJudges ==
    ASSUME TypeOK, judged_truly(submission), ChainStep PROVE judged_truly(submission)'
<1>1. /\ submission \in [Milestones -> [Agents -> SubmissionAccounts]]
      /\ verdicts' = verdicts \union new_verdicts /\ verdicts \subseteq verdicts'
      /\ Next
  BY DEF ChainStep, TypeOK
<1> SUFFICES ASSUME NEW j \in Milestones, NEW b \in Agents,
                    submission'[j][b].state \in {"Rejected", "Released"}
             PROVE  ruled(j, b, submission[j][b].sequence, submission[j][b].state)'
  BY DEF judged_truly
<1>2. CASE submission'[j][b] = submission[j][b]
  BY <1>1, <1>2, RuledForGood DEF judged_truly
<1>3. ASSUME NEW i \in Milestones, NEW a \in Agents, QueueStep(i, a),
             submission'[j][b] # submission[j][b]
      PROVE  ruled(j, b, submission[j][b].sequence, submission[j][b].state)'
  <2>1. CASE PlaceTaken(i, a)
    <3>1. submission' = [submission EXCEPT ![i] = [@ EXCEPT ![a] =
              [ state |-> "Pending", sequence |-> milestone_submitted[i],
                submitted_at |-> now ]]]
      BY <2>1 DEF PlaceTaken
    <3>2. submission'[j][b].state = "Pending"
      BY <1>1, <1>3, <3>1
    <3> QED
      BY <3>2
  <2>2. CASE PlaceRefused(i, a) \/ PlacePaid(i, a)
    <3>1. PICK st \in {"Released", "Rejected"} : Judged(i, a, st)
      BY <2>2 DEF PlaceRefused, PlacePaid
    <3>2. submission[i][a].state = "Pending"
      BY <2>2 DEF PlaceRefused, PlacePaid, at_front
    <3>3. j = i /\ b = a
      BY <1>1, <1>3, <3>1 DEF Judged
    <3>4. submission'[i][a].state = st /\ submission'[i][a].sequence = submission[i][a].sequence
      BY <3>1, JudgedAccount
    <3> QED
      BY <1>1, <3>1, <3>2, <3>3, <3>4, JudgmentWritten DEF ruled
  <2>3. CASE PlaceLeft(i, a)
    BY <1>3, <2>3, LeftAccount
  <2> QED
    BY <1>3, <2>1, <2>2, <2>3 DEF QueueStep
<1> QED
  BY <1>1, <1>2, <1>3, NextQueue DEF QueueStays

(* The counter of a paid milestone stands still, the others only grow.     *)
LEMMA CountersGrow ==
    ASSUME TypeOK, Places, ChainStep, NEW c,
           \A i \in Milestones : c.milestone_rejected[i] \in Nat, behind(c)
    PROVE  /\ \A i \in Milestones : c.milestone_rejected[i] <= milestone_rejected'[i]
           /\ \A i \in Milestones :
                 i \in c.milestones_done =>
                   i \in milestones_done' /\ c.milestone_rejected[i] = milestone_rejected'[i]
<1>1. milestone_rejected \in [Milestones -> Nat] /\ Next
  BY DEF ChainStep, TypeOK
<1>2. CASE UNCHANGED counts
  BY <1>2 DEF counts, behind
<1>3. ASSUME NEW i \in Milestones, NEW a \in Agents, PlaceTaken(i, a) \/ PlacePaid(i, a)
      PROVE  milestone_rejected' = milestone_rejected /\ milestones_done \subseteq milestones_done'
  BY <1>3 DEF PlaceTaken, PlacePaid
<1>4. ASSUME NEW i \in Milestones, NEW a \in Agents, PlaceRefused(i, a)
      PROVE  /\ i \notin milestones_done /\ milestones_done' = milestones_done
             /\ milestone_rejected' = [milestone_rejected EXCEPT ![i] = @ + 1]
  BY <1>4 DEF PlaceRefused, at_front, Places, PaidIsLast
<1>5. UNCHANGED counts \/ \E i \in Milestones, a \in Agents :
          PlaceTaken(i, a) \/ PlacePaid(i, a) \/ PlaceRefused(i, a)
  BY <1>1, NextQueue DEF QueueStays, QueueStep, PlaceLeft
<1>6. CASE milestone_rejected' = milestone_rejected /\ milestones_done \subseteq milestones_done'
  BY <1>6 DEF behind
<1>7. ASSUME NEW i \in Milestones, i \notin milestones_done,
             milestones_done' = milestones_done,
             milestone_rejected' = [milestone_rejected EXCEPT ![i] = @ + 1]
      PROVE  \A j \in Milestones :
               /\ c.milestone_rejected[j] <= milestone_rejected'[j]
               /\ j \in c.milestones_done =>
                    j \in milestones_done' /\ c.milestone_rejected[j] = milestone_rejected'[j]
  BY <1>1, <1>7 DEF behind
<1> QED
  BY <1>2, <1>3, <1>4, <1>5, <1>6, <1>7

-----------------------------------------------------------------------------
(* What a scan concludes.                                                  *)

\* A row is the one before, or its state and place are those of the account seen.
from_either(row, old, s) ==
    \/ row = old
    \/ s.state # "Empty" /\ row.last_state = s.state /\ row.sequence = s.sequence

(* The upsert makes nothing up.                                            *)
LEMMA UpsertKeepsOrSees ==
    ASSUME NEW old, NEW s PROVE from_either(remembered(old, s), old, s)
<1>1. CASE s.state \in {"Empty", old.last_state}
  <2>1. remembered(old, s) = old
    BY <1>1 DEF remembered
  <2> QED
    BY <2>1 DEF from_either
<1>2. CASE s.state \notin {"Empty", old.last_state}
  <2> DEFINE row == [ last_state |-> s.state, sequence |-> s.sequence,
                      evidence |-> IF old.last_state = "Empty" THEN s.sequence
                                   ELSE old.evidence ]
  <2>1. remembered(old, s) = row
    BY <1>2 DEF remembered
  <2>2. row.last_state = s.state /\ row.sequence = s.sequence
    OBVIOUS
  <2> QED
    BY <1>2, <2>1, <2>2 DEF from_either
<1> QED
  BY <1>1, <1>2

\* A row that this much may be concluded from.
row_sound(i, a, row) ==
    /\ row \in Rows
    /\ row.last_state # "Empty" => keeps(i, a, row.sequence)
    /\ row.last_state \in {"Rejected", "Released"}
         => ruled(i, a, row.sequence, row.last_state)

\* The place an outcome is concluded for.
judged_place(b, i, a, row) ==
    IF b[i][a].state # "Empty" THEN b[i][a].sequence ELSE row.sequence

(* A scan that calls a delivery refused or paid is right, although         *)
(* counters, accounts and row were each read at another moment.            *)
LEMMA OutcomeTrue ==
    ASSUME Places, milestone_rejected \in [Milestones -> Nat],
           NEW c, \A i \in Milestones : c.milestone_rejected[i] \in Nat, behind(c),
           NEW b, judged_truly(b),
           NEW i \in Milestones, NEW a \in Agents, NEW row, row_sound(i, a, row),
           row.last_state # "Empty",
           outcome(c, b, i, a, row) \in {"Rejected", "Released"}
    PROVE  ruled(i, a, judged_place(b, i, a, row), outcome(c, b, i, a, row))
<1>1. CASE b[i][a].state # "Empty"
  BY <1>1 DEF outcome, judged_truly, judged_place
<1>2. CASE b[i][a].state = "Empty"
  <2>1. /\ judged_place(b, i, a, row) = row.sequence
        /\ outcome(c, b, i, a, row) = settledState(c, i, row)
    BY <1>2 DEF outcome, judged_place
  <2>2. CASE row.last_state \in {"Released", "Rejected"}
    BY <2>1, <2>2 DEF settledState, row_sound
  <2>3. CASE row.last_state \notin {"Released", "Rejected"}
    <3>1. /\ row.sequence \in Nat /\ keeps(i, a, row.sequence)
          /\ c.milestone_rejected[i] \in Nat /\ milestone_rejected[i] \in Nat
          /\ c.milestone_rejected[i] <= milestone_rejected[i]
      BY DEF row_sound, Rows, behind
    <3>2. CASE row.sequence < c.milestone_rejected[i]
      <4>1. settledState(c, i, row) = "Rejected"
        BY <2>3, <3>2 DEF settledState
      <4>2. row.sequence < milestone_rejected[i]
        BY <3>1, <3>2
      <4> QED
        BY <2>1, <3>1, <4>1, <4>2 DEF Places, RefusedRuled
    <3>3. CASE /\ ~(row.sequence < c.milestone_rejected[i])
               /\ row.sequence = c.milestone_rejected[i] /\ i \in c.milestones_done
      <4>1. settledState(c, i, row) = "Released"
        BY <2>3, <3>3 DEF settledState
      <4>2. i \in milestones_done /\ row.sequence = milestone_rejected[i]
        BY <3>3 DEF behind
      <4> QED
        BY <2>1, <3>1, <4>1, <4>2 DEF Places, PaidRuled
    <3>4. CASE /\ ~(row.sequence < c.milestone_rejected[i])
               /\ ~(row.sequence = c.milestone_rejected[i] /\ i \in c.milestones_done)
      <4>1. settledState(c, i, row) \in {"Superseded", "Pending"}
        BY <2>3, <3>4 DEF settledState
      <4> QED
        BY <2>1, <4>1
    <3> QED
      BY <3>2, <3>3, <3>4
  <2> QED
    BY <2>2, <2>3
<1> QED
  BY <1>1, <1>2

\* What a notice says is so.
says_true(n) ==
    /\ n.kind = "delivery-paid" => ruled(n.milestone, n.agent, n.sequence, "Released")
    /\ n.kind = "delivery-rejected" => ruled(n.milestone, n.agent, n.sequence, "Rejected")
    /\ n.kind \in {"delivery-waiting", "review-lapsed", "claimable"}
         => \A q \in 0 .. n.sequence - 1 :
                \E a \in Agents : ruled(n.milestone, a, q, "Rejected")

(* Every event a scan derives is true.                                     *)
LEMMA EventsTrue ==
    ASSUME Places, milestone_rejected \in [Milestones -> Nat],
           NEW c, \A i \in Milestones : c.milestone_rejected[i] \in Nat, behind(c),
           NEW b, judged_truly(b),
           NEW h, \A i \in Milestones, a \in Agents : row_sound(i, a, h[i][a]),
           NEW e \in detectEvents(c, b, h)
    PROVE  says_true(e)
<1>1. ASSUME NEW i \in Milestones, NEW a \in Agents, h[i][a].last_state # "Empty",
             outcome(c, b, i, a, h[i][a]) \in {"Rejected", "Released"},
             e = verdict_event(c, b, i, a, h[i][a])
      PROVE  says_true(e)
  <2> DEFINE q == judged_place(b, i, a, h[i][a])
             st == outcome(c, b, i, a, h[i][a])
  <2>1. ruled(i, a, q, st)
    BY <1>1, OutcomeTrue
  <2>2. e = Event(IF st = "Rejected" THEN "delivery-rejected" ELSE "delivery-paid", i, a, q)
    BY <1>1 DEF verdict_event, judged_place
  <2>3. st \in {"Rejected", "Released"}
    BY <1>1
  <2> HIDE DEF q, st
  <2> QED
    BY <2>1, <2>2, <2>3 DEF Event, says_true
<1>2. ASSUME NEW i \in Milestones, NEW a \in Agents, first_in_line(c, i, b[i][a]),
             NEW kind \in {"delivery-waiting", "review-lapsed", "claimable"},
             e = Event(kind, i, a, b[i][a].sequence)
      PROVE  says_true(e)
  <2>1. b[i][a].sequence = c.milestone_rejected[i]
    BY <1>2 DEF first_in_line
  <2>2. \A q \in 0 .. c.milestone_rejected[i] - 1 : q \in Nat /\ q < milestone_rejected[i]
    BY DEF behind
  <2>3. \A q \in 0 .. c.milestone_rejected[i] - 1 : \E k \in Agents : ruled(i, k, q, "Rejected")
    BY <2>2 DEF Places, AheadRefused
  <2> QED
    BY <1>2, <2>1, <2>3 DEF Event, says_true
<1>3. e \in verdict_events(c, b, h) \/ e \in front_events(c, b)
  BY DEF detectEvents
<1>4. CASE e \in verdict_events(c, b, h)
  BY <1>1, <1>4 DEF verdict_events, Pairs
<1>5. CASE e \in front_events(c, b)
  BY <1>2, <1>5 DEF front_events, Pairs
<1> QED
  BY <1>3, <1>4, <1>5

-----------------------------------------------------------------------------
(* The invariant holds at every step.                                      *)

(* Everything the invariant says but the notices, at a step of the chain.  *)
LEMMA ChainKnowledge ==
    ASSUME TypeInv, MirrorTypeOK, Knowledge, ChainStep PROVE Knowledge'
<1>1. /\ TypeOK /\ UNCHANGED mirror_vars /\ verdicts \subseteq verdicts'
      /\ Places /\ judged_truly(submission)
  BY DEF TypeInv, ChainStep, Knowledge
<1>2. Places' /\ judged_truly(submission)'
  BY <1>1, ChainPlaces, ChainJudges
<1>3. /\ accounts' = accounts /\ cached_accounts' = cached_accounts
      /\ value' = value /\ cached_value' = cached_value
      /\ delivery_history' = delivery_history
  BY <1>1 DEF mirror_vars, scan_vars, cache_vars, database
<1>4. judged_truly(accounts)' /\ judged_truly(cached_accounts)'
  BY <1>1, <1>3, RuledForGood DEF Knowledge, judged_truly
<1>5. RowsObserved'
  BY <1>1, <1>3, RuledForGood DEF Knowledge, RowsObserved
<1>6. behind(value)'
  <2>1. \A i \in Milestones : value.milestone_rejected[i] \in Nat
    BY DEF MirrorTypeOK, Scanned
  <2> QED
    BY <1>1, <1>3, <2>1, CountersGrow DEF Knowledge, behind
<1>7. behind(cached_value)'
  <2>1. \A i \in Milestones : cached_value.milestone_rejected[i] \in Nat
    BY DEF MirrorTypeOK, Scanned
  <2> QED
    BY <1>1, <1>3, <2>1, CountersGrow DEF Knowledge, behind
<1> QED
  BY <1>2, <1>4, <1>5, <1>6, <1>7 DEF Knowledge

(* ... and at a step of the server, which learns and forgets, and rules    *)
(* nothing.                                                                *)
LEMMA ServerKnowledge ==
    ASSUME TypeInv, MirrorTypeOK, Knowledge, UNCHANGED <<vars, verdicts>>,
           \A i \in Milestones, a \in Agents :
               from_either(delivery_history'[i][a], delivery_history[i][a], accounts[i][a]),
           accounts' \in {accounts, submission, NoAccounts},
           cached_accounts' \in {cached_accounts, accounts, NoAccounts},
           behind(value'), behind(cached_value')
    PROVE  Knowledge'
<1>1. /\ UNCHANGED <<submission, counts, verdicts>>
      /\ milestone_rejected' = milestone_rejected /\ milestones_done' = milestones_done
      /\ milestone_rejected \in [Milestones -> Nat]
  BY DEF vars, life, queue, counts, TypeInv, TypeOK
<1>2. \A i \in Milestones, a \in Agents : NoAccounts[i][a].state = "Empty"
  BY DEF NoAccounts, NoSubmission
<1>3. \A i \in Milestones, a \in Agents, q \in Nat : keeps(i, a, q)' => keeps(i, a, q)
  BY <1>1, <1>2 DEF keeps, from_either
<1>4. Places'
  BY <1>1, <1>3, KeptPlaces DEF Knowledge
<1>5. /\ judged_truly(submission)' /\ judged_truly(accounts)'
      /\ judged_truly(cached_accounts)'
  BY <1>1, <1>2 DEF judged_truly, ruled, Knowledge
<1>6. RowsObserved'
  BY <1>1 DEF RowsObserved, judged_truly, ruled, Knowledge, from_either
<1>7. behind(value)' /\ behind(cached_value)'
  BY <1>1 DEF behind
<1> QED
  BY <1>4, <1>5, <1>6, <1>7 DEF Knowledge

(* What the table remembers may be concluded from, also after an upsert.   *)
LEMMA RowsSound ==
    ASSUME Knowledge, NEW h \in [Milestones -> [Agents -> Rows]],
           \A i \in Milestones, a \in Agents :
               from_either(h[i][a], delivery_history[i][a], accounts[i][a])
    PROVE  \A i \in Milestones, a \in Agents : row_sound(i, a, h[i][a])
<1> SUFFICES ASSUME NEW i \in Milestones, NEW a \in Agents
             PROVE  row_sound(i, a, h[i][a])
  OBVIOUS
<1>1. CASE h[i][a] = delivery_history[i][a]
  BY <1>1 DEF row_sound, keeps, Knowledge, RowsObserved
<1>2. CASE /\ accounts[i][a].state # "Empty" /\ h[i][a].last_state = accounts[i][a].state
           /\ h[i][a].sequence = accounts[i][a].sequence
  BY <1>2 DEF row_sound, keeps, Knowledge, judged_truly
<1> QED
  BY <1>1, <1>2 DEF from_either

(* The upsert, failing or not.                                             *)
LEMMA FinishedRows ==
    ASSUME MirrorTypeOK, NEW remembers \in BOOLEAN, NEW tells \in BOOLEAN,
           FinishScan(remembers, tells)
    PROVE  \A i \in Milestones, a \in Agents :
               from_either(delivery_history'[i][a], delivery_history[i][a], accounts[i][a])
<1>1. CASE remembers
  <2>1. delivery_history' = [i \in Milestones |-> [a \in Agents |->
                                remembered(delivery_history[i][a], accounts[i][a])]]
    BY <1>1 DEF FinishScan
  <2>2. \A i \in Milestones, a \in Agents :
            delivery_history'[i][a] = remembered(delivery_history[i][a], accounts[i][a])
    BY <2>1
  <2> QED
    BY <2>2, UpsertKeepsOrSees
<1>2. CASE ~remembers
  BY <1>2 DEF FinishScan, from_either
<1> QED
  BY <1>1, <1>2

(* Nothing known is known before the chain decided it.                     *)
LEMMA InitKnowledge == MirrorInit => Knowledge /\ Notified
<1> SUFFICES ASSUME MirrorInit PROVE Knowledge /\ Notified
  OBVIOUS
<1>1. /\ \A i \in Milestones, a \in Agents :
            /\ submission[i][a].state = "Empty" /\ accounts[i][a].state = "Empty"
            /\ cached_accounts[i][a].state = "Empty"
            /\ delivery_history[i][a].last_state = "Empty"
      /\ \A i \in Milestones : milestone_rejected[i] = 0 /\ milestone_submitted[i] = 0
      /\ milestones_done = {} /\ notifications = {} /\ disputes = {}
  BY DEF MirrorInit, Init, NoAccounts, NoSubmission, NoRow
<1>2. /\ \A i \in Milestones :
            value.milestone_rejected[i] = 0 /\ cached_value.milestone_rejected[i] = 0
      /\ value.milestones_done = {} /\ cached_value.milestones_done = {}
  BY DEF MirrorInit, NoCommission
<1>3. Places
  BY <1>1 DEF Places, Counted, InLine, OneOwner, RefusedRuled, PaidRuled, PaidIsLast,
              AheadRefused, keeps
<1>4. /\ judged_truly(submission) /\ judged_truly(accounts)
      /\ judged_truly(cached_accounts) /\ RowsObserved
  BY <1>1 DEF judged_truly, RowsObserved
<1>5. behind(value) /\ behind(cached_value)
  BY <1>1, <1>2 DEF behind
<1>6. Notified
  BY <1>1 DEF Notified, PaidNoticeTrue, RefusedNoticeTrue, FrontNoticeTrue, DisputesGrounded
<1> QED
  BY <1>3, <1>4, <1>5, <1>6 DEF Knowledge

(* Every step keeps the knowledge true.                                    *)
LEMMA StepKnowledge ==
    TypeInv /\ MirrorTypeOK /\ Knowledge /\ [MirrorNext]_mvars => Knowledge'
<1> SUFFICES ASSUME TypeInv, MirrorTypeOK, Knowledge, [MirrorNext]_mvars PROVE Knowledge'
  OBVIOUS
<1> USE DEF scan_vars, cache_vars, database, from_either
<1>0. behind(NoCommission) /\ behind(value) /\ behind(cached_value)
  BY DEF NoCommission, behind, Knowledge, TypeInv, TypeOK
<1>1. CASE ChainStep
  BY <1>1, ChainKnowledge
<1>2. CASE StartScan
  BY <1>0, <1>2, ServerKnowledge DEF StartScan
<1>3. CASE ReadCommissions
  <2>1. behind(value')
    BY <1>3 DEF ReadCommissions, behind, TypeInv, TypeOK
  <2> QED
    BY <1>0, <1>3, <2>1, ServerKnowledge DEF ReadCommissions
<1>4. CASE ReadSubmissions
  BY <1>0, <1>4, ServerKnowledge DEF ReadSubmissions
<1>5. CASE FailScan
  BY <1>0, <1>5, ServerKnowledge DEF FailScan, NoScan
<1>6. ASSUME NEW remembers \in BOOLEAN, NEW tells \in BOOLEAN,
             FinishScan(remembers, tells)
      PROVE  Knowledge'
  BY <1>0, <1>6, FinishedRows, ServerKnowledge DEF FinishScan, NoScan
<1>7. ASSUME NEW i \in Milestones, NEW a \in Agents, FileDispute(i, a)
      PROVE  Knowledge'
  BY <1>0, <1>7, ServerKnowledge DEF FileDispute
<1>8. CASE Restart
  BY <1>0, <1>8, ServerKnowledge DEF Restart, NoScan, NoCache
<1>9. CASE UNCHANGED mvars
  BY <1>0, <1>9, ServerKnowledge DEF mvars, mirror_vars
<1> QED
  BY <1>1, <1>2, <1>3, <1>4, <1>5, <1>6, <1>7, <1>8, <1>9
  DEF MirrorNext, WorkingStep

(* What was true stays true.                                               *)
LEMMA TrueForGood ==
    ASSUME verdicts \subseteq verdicts', NEW n, says_true(n) PROVE says_true(n)'
  BY RuledForGood DEF says_true

(* The three promises on notices are one ...                               *)
LEMMA TruthfulNotices ==
    ASSUME Notified PROVE (\A n \in notifications : says_true(n)) /\ DisputesGrounded
  BY DEF Notified, PaidNoticeTrue, RefusedNoticeTrue, FrontNoticeTrue, says_true

(* ... and kept together.                                                  *)
LEMMA NoticesStayTrue ==
    ASSUME \A n \in notifications' : says_true(n)', DisputesGrounded'
    PROVE  Notified'
  BY DEF Notified, PaidNoticeTrue, RefusedNoticeTrue, FrontNoticeTrue, says_true, ruled

(* Every step tells the truth only.                                        *)
LEMMA StepNotified ==
    /\ TypeInv /\ MirrorTypeOK /\ MirrorTypeOK' /\ Knowledge /\ Notified
    /\ [MirrorNext]_mvars
    => Notified'
<1> SUFFICES ASSUME TypeInv, MirrorTypeOK, MirrorTypeOK', Knowledge, Notified,
                    [MirrorNext]_mvars
             PROVE  Notified'
  OBVIOUS
<1>0. /\ milestone_rejected \in [Milestones -> Nat]
      /\ \A i \in Milestones : /\ value.milestone_rejected[i] \in Nat
                               /\ cached_value.milestone_rejected[i] \in Nat
      /\ Places /\ behind(value) /\ behind(cached_value)
      /\ judged_truly(accounts) /\ judged_truly(cached_accounts)
      /\ \A n \in notifications : says_true(n)
      /\ DisputesGrounded
  BY TruthfulNotices DEF TypeInv, TypeOK, MirrorTypeOK, Scanned, Knowledge
<1>1. ASSUME verdicts \subseteq verdicts', notifications' = notifications,
             disputes' = disputes
      PROVE  Notified'
  <2>1. \A n \in notifications' : says_true(n)'
    BY <1>0, <1>1, TrueForGood
  <2>2. DisputesGrounded'
    BY <1>0, <1>1 DEF DisputesGrounded
  <2> QED
    BY <2>1, <2>2, NoticesStayTrue
<1>2. ASSUME NEW remembers \in BOOLEAN, NEW tells \in BOOLEAN,
             FinishScan(remembers, tells)
      PROVE  Notified'
  <2>1. verdicts' = verdicts /\ disputes' = disputes
    BY <1>2 DEF FinishScan
  <2>2. PICK h \in [Milestones -> [Agents -> Rows]] : h = delivery_history'
    BY DEF MirrorTypeOK
  <2>3. \A i \in Milestones, a \in Agents : row_sound(i, a, h[i][a])
    BY <1>2, <2>2, FinishedRows, RowsSound
  <2>4. \A e \in detectEvents(value, accounts, h) : says_true(e)
    BY <1>0, <2>3, EventsTrue
  <2>5. notifications' \subseteq notifications \union detectEvents(value, accounts, h)
    BY <1>2, <2>2 DEF FinishScan, recorded
  <2>6. \A n \in notifications' : says_true(n)'
    BY <1>0, <2>1, <2>4, <2>5, TrueForGood
  <2>7. DisputesGrounded'
    BY <1>0, <2>1 DEF DisputesGrounded
  <2> QED
    BY <2>6, <2>7, NoticesStayTrue
<1>3. ASSUME NEW i \in Milestones, NEW a \in Agents, FileDispute(i, a)
      PROVE  Notified'
  <2>1. /\ verdicts' = verdicts
        /\ disputes' = disputes \union {<<i, a>>}
        /\ notifications' \subseteq notifications
              \union {Event("dispute-opened", i, a, delivery_history[i][a].sequence)}
    BY <1>3 DEF FileDispute, recorded
  <2>2. says_true(Event("dispute-opened", i, a, delivery_history[i][a].sequence))
    BY DEF says_true, Event
  <2>3. \A n \in notifications' : says_true(n)'
    BY <1>0, <2>1, <2>2, TrueForGood
  <2>4. row_sound(i, a, delivery_history[i][a])
    BY RowsSound DEF MirrorTypeOK, from_either
  <2>5. /\ delivery_history[i][a].last_state # "Empty"
        /\ outcome(cached_value, cached_accounts, i, a, delivery_history[i][a]) = "Rejected"
    BY <1>3 DEF FileDispute, contestable
  <2>6. ruled(i, a, judged_place(cached_accounts, i, a, delivery_history[i][a]), "Rejected")
    BY <1>0, <2>4, <2>5, OutcomeTrue
  <2>7. \E v \in verdicts : v.milestone = i /\ v.agent = a /\ v.state = "Rejected"
    BY <2>6 DEF ruled
  <2>8. DisputesGrounded'
    BY <1>0, <2>1, <2>7 DEF DisputesGrounded
  <2> QED
    BY <2>3, <2>8, NoticesStayTrue
<1>4. \/ \E remembers, tells \in BOOLEAN : FinishScan(remembers, tells)
      \/ \E i \in Milestones, a \in Agents : FileDispute(i, a)
      \/ /\ verdicts \subseteq verdicts'
         /\ notifications' = notifications /\ disputes' = disputes
  BY DEF MirrorNext, WorkingStep, ChainStep, StartScan, ReadCommissions, ReadSubmissions,
         FailScan, Restart, mvars, mirror_vars, database
<1> QED
  BY <1>1, <1>2, <1>3, <1>4

(* The invariant of every server that mirrors the chain.                   *)
LEMMA MirrorAlwaysInv == MirrorSpec => []MirrorInv
<1>1. MirrorInit => MirrorInv
  BY InitTypeInv, InitMirrorType, InitKnowledge DEF MirrorInit, MirrorInv
<1>2. MirrorInv /\ [MirrorNext]_mvars => MirrorInv'
  <2> SUFFICES ASSUME MirrorInv, [MirrorNext]_mvars PROVE MirrorInv'
    OBVIOUS
  <2>1. TypeInv'
    BY ChainAlone, StepTypeInv DEF MirrorInv
  <2>2. MirrorTypeOK'
    BY <2>1, StepMirrorType DEF MirrorInv, TypeInv
  <2>3. Knowledge'
    BY StepKnowledge DEF MirrorInv
  <2>4. Notified'
    BY <2>2, StepNotified DEF MirrorInv
  <2> QED
    BY <2>1, <2>2, <2>3, <2>4 DEF MirrorInv
<1> QED
  BY <1>1, <1>2, PTL DEF MirrorSpec

(* "You were paid" is told of no attempt the chain did not pay             *)
(* (PaidNoticeTrue), however many agents deliver, whichever scans fail.    *)
THEOREM PaidNoticesTrue == MirrorSpec => []PaidNoticeTrue
<1>1. MirrorInv => PaidNoticeTrue
  BY DEF MirrorInv, Notified
<1> QED
  BY <1>1, MirrorAlwaysInv, PTL

(* "Your delivery was refused" is told of no attempt that was not refused  *)
(* (RefusedNoticeTrue).                                                    *)
THEOREM RefusedNoticesTrue == MirrorSpec => []RefusedNoticeTrue
<1>1. MirrorInv => RefusedNoticeTrue
  BY DEF MirrorInv, Notified
<1> QED
  BY <1>1, MirrorAlwaysInv, PTL

(* A place is announced only when every place ahead of it was refused      *)
(* (FrontNoticeTrue).                                                      *)
THEOREM FrontNoticesTrue == MirrorSpec => []FrontNoticeTrue
<1>1. MirrorInv => FrontNoticeTrue
  BY DEF MirrorInv, Notified
<1> QED
  BY <1>1, MirrorAlwaysInv, PTL

(* Only an agent the chain refused contests a refusal (DisputesGrounded).  *)
THEOREM DisputesAlwaysGrounded == MirrorSpec => []DisputesGrounded
<1>1. MirrorInv => DisputesGrounded
  BY DEF MirrorInv, Notified
<1> QED
  BY <1>1, MirrorAlwaysInv, PTL

(* A row with a verdict names an attempt that got it (RowsObserved).       *)
THEOREM RowsAlwaysObserved == MirrorSpec => []RowsObserved
<1>1. MirrorInv => RowsObserved
  BY DEF MirrorInv, Knowledge
<1> QED
  BY <1>1, MirrorAlwaysInv, PTL
=============================================================================
