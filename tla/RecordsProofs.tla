--------------------------- MODULE RecordsProofs ---------------------------
(***************************************************************************)
(* Why what is said of an agent is not taken back, for any number of       *)
(* agents, milestones and deliveries, whatever scans and writes fail.      *)
(*                                                                         *)
(* The argument: a milestone is paid once, at the place its counter of     *)
(* rejections has then reached for good, and every refusal is of a place   *)
(* the counter has passed.  A row is never about a later attempt than an   *)
(* account beside it.  And a scan that follows one which showed the        *)
(* payment began after it, so it shows the payment as well.                *)
(*                                                                         *)
(* At the end, the rows a start of the server makes of the recorded texts, *)
(* and the words of a commission under deliveries that wait.               *)
(***************************************************************************)
EXTENDS MirrorProofs, Records, EvidenceIndex, Amendments

\* A payment is the last ruling on a milestone ...
PaidIsFinal ==
    \A i \in Milestones, a \in Agents, q \in Nat :
        ruled(i, a, q, "Released") => i \in milestones_done /\ q = milestone_rejected[i]

\* ... goes to one agent ...
PaidToOne ==
    \A i \in Milestones, a, b \in Agents, p, q \in Nat :
        ruled(i, a, p, "Released") /\ ruled(i, b, q, "Released") => a = b

\* ... and leaves that agent no other account than the one paid.
settled(i, a, s) ==
    \A q \in Nat : ruled(i, a, q, "Released") => s \in {"Released", "Empty"}

AfterPayment ==
    \A i \in Milestones, a \in Agents : settled(i, a, submission[i][a].state)

\* A refusal is of a place the counter has passed.
RefusedIsPast ==
    \A i \in Milestones, a \in Agents, q \in Nat :
        ruled(i, a, q, "Rejected") => q < milestone_rejected[i]

Rulings == PaidIsFinal /\ PaidToOne /\ AfterPayment /\ RefusedIsPast

\* A row is about no later an attempt than an account seen beside it.
not_before(b, h) ==
    \A i \in Milestones, a \in Agents :
        b[i][a].state # "Empty" => h[i][a].sequence <= b[i][a].sequence

SeenBefore ==
    \A i \in Milestones, a \in Agents :
        accounts[i][a].state # "Empty" /\ submission[i][a].state # "Empty"
        => accounts[i][a].sequence <= submission[i][a].sequence

Older ==
    /\ \A i \in Milestones, a \in Agents :
          delivery_history[i][a].last_state = "Empty" => delivery_history[i][a].sequence = 0
    /\ not_before(submission, delivery_history)
    /\ not_before(accounts, delivery_history)
    /\ not_before(cached_accounts, delivery_history)
    /\ SeenBefore

\* A payment that a finished scan showed is in whatever the next one has read.
shown_paid(i) ==
    \/ i \in cached_value.milestones_done
    \/ \E a \in Agents : \/ cached_accounts[i][a].state = "Released"
                         \/ delivery_history[i][a].last_state = "Released"

Follows ==
    \A i \in Milestones :
        shown_paid(i) =>
            /\ i \in milestones_done
            /\ \A a \in Agents : settled(i, a, accounts[i][a].state)
            /\ "commissions" \in read => i \in value.milestones_done

FinalInv == MirrorInv /\ Rulings /\ Older /\ Follows

-----------------------------------------------------------------------------
(* The chain's rulings.                                                    *)

(* What one step can make of one submission account.                       *)
LEMMA AccountMoves ==
    ASSUME TypeOK, Places, ChainStep, NEW i \in Milestones, NEW a \in Agents
    PROVE  \/ submission'[i][a] = submission[i][a]
           \/ submission'[i][a].state = "Empty"
           \/ /\ i \notin milestones_done
              /\ submission'[i][a].state = "Pending"
              /\ submission'[i][a].sequence = milestone_submitted[i]
           \/ /\ i \notin milestones_done
              /\ submission[i][a].state = "Pending"
              /\ submission[i][a].sequence = milestone_rejected[i]
              /\ submission'[i][a].sequence = submission[i][a].sequence
              /\ \/ PlaceRefused(i, a) /\ submission'[i][a].state = "Rejected"
                 \/ PlacePaid(i, a) /\ submission'[i][a].state = "Released"
<1>1. submission \in [Milestones -> [Agents -> SubmissionAccounts]] /\ Next
  BY DEF ChainStep, TypeOK
<1>2. CASE submission'[i][a] = submission[i][a]
  BY <1>2
<1>3. ASSUME NEW j \in Milestones, NEW b \in Agents, QueueStep(j, b),
             submission'[i][a] # submission[i][a]
      PROVE  \/ submission'[i][a].state = "Empty"
             \/ /\ i \notin milestones_done
                /\ submission'[i][a].state = "Pending"
                /\ submission'[i][a].sequence = milestone_submitted[i]
             \/ /\ i \notin milestones_done
                /\ submission[i][a].state = "Pending"
                /\ submission[i][a].sequence = milestone_rejected[i]
                /\ submission'[i][a].sequence = submission[i][a].sequence
                /\ \/ PlaceRefused(i, a) /\ submission'[i][a].state = "Rejected"
                   \/ PlacePaid(i, a) /\ submission'[i][a].state = "Released"
  <2>1. CASE PlaceTaken(j, b)
    <3> DEFINE s == [ state |-> "Pending", sequence |-> milestone_submitted[j],
                      submitted_at |-> now ]
    <3>1. submission' = [submission EXCEPT ![j] = [@ EXCEPT ![b] = s]]
      BY <2>1 DEF PlaceTaken
    <3>2. s.state = "Pending" /\ s.sequence = milestone_submitted[j]
      OBVIOUS
    <3> HIDE DEF s
    <3>3. i = j /\ a = b /\ submission'[i][a] = s
      BY <1>1, <1>3, <3>1
    <3>4. j \notin milestones_done
      BY <2>1 DEF PlaceTaken
    <3> QED
      BY <3>2, <3>3, <3>4
  <2>2. CASE PlaceRefused(j, b) \/ PlacePaid(j, b)
    <3>1. PICK st \in {"Released", "Rejected"} :
              /\ Judged(j, b, st)
              /\ st = "Rejected" => PlaceRefused(j, b)
              /\ st = "Released" => PlacePaid(j, b)
      BY <2>2 DEF PlaceRefused, PlacePaid
    <3>2. /\ submission[j][b].state = "Pending"
          /\ submission[j][b].sequence = milestone_rejected[j]
      BY <2>2 DEF PlaceRefused, PlacePaid, at_front
    <3>3. i = j /\ a = b
      BY <1>1, <1>3, <3>1 DEF Judged
    <3>4. submission'[j][b].state = st /\ submission'[j][b].sequence = submission[j][b].sequence
      BY <3>1, JudgedAccount
    <3>5. j \notin milestones_done
      BY <3>2 DEF Places, PaidIsLast
    <3> QED
      BY <3>1, <3>2, <3>3, <3>4, <3>5
  <2>3. CASE PlaceLeft(j, b)
    BY <1>3, <2>3, LeftAccount
  <2> QED
    BY <1>3, <2>1, <2>2, <2>3 DEF QueueStep
<1> QED
  BY <1>1, <1>2, <1>3, NextQueue DEF QueueStays

(* A ruling is of the attempt at the front of a milestone not yet paid.    *)
LEMMA NewRuling ==
    ASSUME TypeOK, Places, ChainStep, NEW i, NEW a, NEW q, NEW s,
           ruled(i, a, q, s)', ~ruled(i, a, q, s)
    PROVE  /\ i \in Milestones /\ a \in Agents
           /\ i \notin milestones_done /\ q = milestone_rejected[i]
           /\ \/ s = "Rejected" /\ PlaceRefused(i, a)
              \/ s = "Released" /\ PlacePaid(i, a) /\ submission'[i][a].state = "Released"
<1> DEFINE v == [ milestone |-> i, agent |-> a, sequence |-> q, state |-> s ]
<1>1. v \in new_verdicts
  BY DEF ChainStep, ruled
<1>2. PICK p \in Pairs :
          /\ submission[p[1]][p[2]].state = "Pending"
          /\ submission'[p[1]][p[2]].state \in {"Rejected", "Released"}
          /\ v = [ milestone |-> p[1], agent |-> p[2],
                   sequence |-> submission[p[1]][p[2]].sequence,
                   state |-> submission'[p[1]][p[2]].state ]
  BY <1>1 DEF new_verdicts
<1>3. v.milestone = i /\ v.agent = a /\ v.sequence = q /\ v.state = s
  OBVIOUS
<1> HIDE DEF v
<1>4. /\ p[1] = i /\ p[2] = a /\ q = submission[i][a].sequence /\ s = submission'[i][a].state
      /\ i \in Milestones /\ a \in Agents
  BY <1>2, <1>3 DEF Pairs
<1>5. /\ submission[i][a].state = "Pending"
      /\ submission'[i][a].state \in {"Rejected", "Released"}
  BY <1>2, <1>4
<1> QED
  BY <1>4, <1>5, AccountMoves

(* A milestone paid stays paid, at the place it was paid for.              *)
LEMMA PaidForGood ==
    ASSUME TypeOK, Places, ChainStep, NEW i \in Milestones
    PROVE  i \in milestones_done =>
               i \in milestones_done' /\ milestone_rejected'[i] = milestone_rejected[i]
<1> DEFINE c == [ milestones_done |-> milestones_done, milestone_rejected |-> milestone_rejected ]
<1>1. c.milestones_done = milestones_done /\ c.milestone_rejected = milestone_rejected
  OBVIOUS
<1> HIDE DEF c
<1>2. /\ milestone_rejected \in [Milestones -> Nat]
      /\ \A j \in Milestones : c.milestone_rejected[j] \in Nat
  BY <1>1 DEF TypeOK
<1>3. behind(c)
  BY <1>1, <1>2 DEF behind
<1>4. \A j \in Milestones :
          j \in c.milestones_done =>
            j \in milestones_done' /\ c.milestone_rejected[j] = milestone_rejected'[j]
  BY <1>2, <1>3, CountersGrow
<1> QED
  BY <1>1, <1>4

(* The chain keeps its rulings.                                            *)
LEMMA ChainRulings ==
    ASSUME TypeOK, Places, Rulings, ChainStep PROVE Rulings'
<1>1. milestone_rejected \in [Milestones -> Nat]
  BY DEF TypeOK
<1>2. PaidIsFinal'
  <2> SUFFICES ASSUME NEW i \in Milestones, NEW a \in Agents, NEW q \in Nat,
                      ruled(i, a, q, "Released")'
               PROVE  i \in milestones_done' /\ q = milestone_rejected'[i]
    BY DEF PaidIsFinal
  <2>1. CASE ruled(i, a, q, "Released")
    BY <2>1, PaidForGood DEF Rulings, PaidIsFinal
  <2>2. CASE ~ruled(i, a, q, "Released")
    <3>1. q = milestone_rejected[i] /\ PlacePaid(i, a)
      BY <2>2, NewRuling
    <3> QED
      BY <3>1 DEF PlacePaid
  <2> QED
    BY <2>1, <2>2
<1>3. PaidToOne'
  <2> SUFFICES ASSUME NEW i \in Milestones, NEW a \in Agents, NEW b \in Agents,
                      NEW p \in Nat, NEW q \in Nat,
                      ruled(i, a, p, "Released")', ruled(i, b, q, "Released")'
               PROVE  a = b
    BY DEF PaidToOne
  <2>1. CASE ruled(i, a, p, "Released") /\ ruled(i, b, q, "Released")
    BY <2>1 DEF Rulings, PaidToOne
  <2>2. CASE ~ruled(i, a, p, "Released") /\ ~ruled(i, b, q, "Released")
    <3>1. PlacePaid(i, a) /\ PlacePaid(i, b)
      BY <2>2, NewRuling
    <3>2. keeps(i, a, milestone_rejected[i]) /\ keeps(i, b, milestone_rejected[i])
      BY <3>1 DEF PlacePaid, at_front, keeps
    <3> QED
      BY <1>1, <3>2 DEF Places, OneOwner
  <2>3. CASE ruled(i, a, p, "Released") /\ ~ruled(i, b, q, "Released")
    BY <2>3, NewRuling DEF Rulings, PaidIsFinal
  <2>4. CASE ~ruled(i, a, p, "Released") /\ ruled(i, b, q, "Released")
    BY <2>4, NewRuling DEF Rulings, PaidIsFinal
  <2> QED
    BY <2>1, <2>2, <2>3, <2>4
<1>4. AfterPayment'
  <2> SUFFICES ASSUME NEW i \in Milestones, NEW a \in Agents, NEW q \in Nat,
                      ruled(i, a, q, "Released")'
               PROVE  submission'[i][a].state \in {"Released", "Empty"}
    BY DEF AfterPayment, settled
  <2>1. CASE ruled(i, a, q, "Released")
    <3>1. i \in milestones_done /\ submission[i][a].state \in {"Released", "Empty"}
      BY <2>1 DEF Rulings, PaidIsFinal, AfterPayment, settled
    <3> QED
      BY <3>1, AccountMoves
  <2>2. CASE ~ruled(i, a, q, "Released")
    BY <2>2, NewRuling
  <2> QED
    BY <2>1, <2>2
<1>5. RefusedIsPast'
  <2> SUFFICES ASSUME NEW i \in Milestones, NEW a \in Agents, NEW q \in Nat,
                      ruled(i, a, q, "Rejected")'
               PROVE  q < milestone_rejected'[i]
    BY DEF RefusedIsPast
  <2>1. CASE ruled(i, a, q, "Rejected")
    <3>1. q < milestone_rejected[i]
      BY <2>1 DEF Rulings, RefusedIsPast
    <3>2. \/ milestone_rejected'[i] = milestone_rejected[i]
          \/ milestone_rejected'[i] = milestone_rejected[i] + 1
      BY <1>1, NextQueue DEF ChainStep, QueueStays, QueueStep, PlaceTaken, PlaceRefused,
                             PlacePaid, PlaceLeft, counts
    <3> QED
      BY <1>1, <3>1, <3>2
  <2>2. CASE ~ruled(i, a, q, "Rejected")
    <3>1. q = milestone_rejected[i] /\ PlaceRefused(i, a)
      BY <2>2, NewRuling
    <3> QED
      BY <1>1, <3>1 DEF PlaceRefused
  <2> QED
    BY <2>1, <2>2
<1> QED
  BY <1>2, <1>3, <1>4, <1>5 DEF Rulings

(* ... and so does every step of the server.                               *)
LEMMA StepRulings ==
    MirrorInv /\ Rulings /\ [MirrorNext]_mvars => Rulings'
<1> SUFFICES ASSUME MirrorInv, Rulings, [MirrorNext]_mvars PROVE Rulings'
  OBVIOUS
<1>1. CASE ChainStep
  BY <1>1, ChainRulings DEF MirrorInv, TypeInv, Knowledge
<1>2. CASE UNCHANGED <<vars, verdicts>>
  <2>1. /\ milestone_rejected' = milestone_rejected /\ milestones_done' = milestones_done
        /\ submission' = submission /\ verdicts' = verdicts
    BY <1>2 DEF vars, life, queue
  <2> QED
    BY <2>1 DEF Rulings, PaidIsFinal, PaidToOne, AfterPayment, RefusedIsPast, settled, ruled
<1> QED
  BY <1>1, <1>2 DEF MirrorNext, WorkingStep, StartScan, ReadCommissions, ReadSubmissions,
                    FailScan, FinishScan, FileDispute, Restart, mvars

-----------------------------------------------------------------------------
(* Rows and accounts.                                                      *)

(* A delivery that follows is at a later place than all before it.         *)
LEMMA ChainOlder ==
    ASSUME TypeOK, MirrorTypeOK, Places, Older, ChainStep PROVE Older'
<1>1. /\ milestone_submitted \in [Milestones -> Nat]
      /\ accounts' = accounts /\ cached_accounts' = cached_accounts
      /\ delivery_history' = delivery_history
  BY DEF TypeOK, ChainStep, mirror_vars, scan_vars, cache_vars, database
<1>2. \A i \in Milestones, a \in Agents :
          /\ delivery_history[i][a] \in Rows /\ accounts[i][a] \in Seen
          /\ milestone_submitted[i] \in Nat
  BY <1>1 DEF MirrorTypeOK
<1>3. ASSUME NEW i \in Milestones, NEW a \in Agents, submission'[i][a].state # "Empty"
      PROVE  \/ /\ submission[i][a].state # "Empty"
                /\ submission'[i][a].sequence = submission[i][a].sequence
             \/ submission'[i][a].sequence = milestone_submitted[i]
  BY <1>3, AccountMoves
<1>4. not_before(submission, delivery_history)'
  <2> SUFFICES ASSUME NEW i \in Milestones, NEW a \in Agents,
                      submission'[i][a].state # "Empty"
               PROVE  delivery_history[i][a].sequence <= submission'[i][a].sequence
    BY <1>1 DEF not_before
  <2>1. delivery_history[i][a].sequence <= milestone_submitted[i]
    <3>1. CASE delivery_history[i][a].last_state = "Empty"
      BY <1>2, <3>1 DEF Older
    <3>2. CASE delivery_history[i][a].last_state # "Empty"
      <4>1. /\ keeps(i, a, delivery_history[i][a].sequence)
            /\ delivery_history[i][a].sequence \in Nat
        BY <1>2, <3>2 DEF keeps, Rows
      <4> QED
        BY <1>2, <4>1 DEF Places, InLine
    <3> QED
      BY <3>1, <3>2
  <2> QED
    BY <1>3, <2>1 DEF Older, not_before
<1>5. SeenBefore'
  <2> SUFFICES ASSUME NEW i \in Milestones, NEW a \in Agents,
                      accounts[i][a].state # "Empty", submission'[i][a].state # "Empty"
               PROVE  accounts[i][a].sequence <= submission'[i][a].sequence
    BY <1>1 DEF SeenBefore
  <2>1. keeps(i, a, accounts[i][a].sequence) /\ accounts[i][a].sequence \in Nat
    BY <1>2 DEF keeps, Seen
  <2>2. accounts[i][a].sequence <= milestone_submitted[i]
    BY <1>2, <2>1 DEF Places, InLine
  <2> QED
    BY <1>3, <2>2 DEF Older, SeenBefore
<1> QED
  BY <1>1, <1>4, <1>5 DEF Older, not_before

(* A scan reads the chain, and a row takes its place from what was read.   *)
LEMMA ServerOlder ==
    ASSUME MirrorTypeOK, TypeOK, Older, submission' = submission,
           \A i \in Milestones, a \in Agents :
               from_either(delivery_history'[i][a], delivery_history[i][a], accounts[i][a]),
           accounts' \in {accounts, submission, NoAccounts},
           \/ /\ delivery_history' = delivery_history
              /\ cached_accounts' \in {cached_accounts, NoAccounts}
           \/ cached_accounts' = accounts /\ accounts' = NoAccounts
    PROVE  Older'
<1>1. \A i \in Milestones, a \in Agents :
          /\ NoAccounts[i][a].state = "Empty"
          /\ delivery_history[i][a] \in Rows /\ accounts[i][a] \in Seen
          /\ submission[i][a] \in SubmissionAccounts
  BY DEF NoAccounts, NoSubmission, MirrorTypeOK, TypeOK
<1>2. \A i \in Milestones, a \in Agents :
          /\ delivery_history[i][a].sequence \in Nat
          /\ accounts[i][a].sequence \in Nat /\ submission[i][a].sequence \in Nat
  BY <1>1 DEF Rows, Seen, SubmissionAccounts
<1>3. \A i \in Milestones, a \in Agents :
          delivery_history'[i][a].last_state = "Empty" => delivery_history'[i][a].sequence = 0
  BY DEF from_either, Older
<1>4. not_before(submission, delivery_history)'
  BY <1>2 DEF from_either, Older, not_before, SeenBefore
<1>5. not_before(accounts, delivery_history)'
  BY <1>1, <1>2 DEF from_either, Older, not_before
<1>6. not_before(cached_accounts, delivery_history)'
  BY <1>1, <1>2 DEF from_either, Older, not_before
<1>7. SeenBefore'
  BY <1>1, <1>2 DEF Older, SeenBefore
<1> QED
  BY <1>3, <1>4, <1>5, <1>6, <1>7 DEF Older

(* Every step keeps rows behind accounts.                                  *)
LEMMA StepOlder ==
    MirrorInv /\ Older /\ [MirrorNext]_mvars => Older'
<1> SUFFICES ASSUME MirrorInv, Older, [MirrorNext]_mvars PROVE Older'
  OBVIOUS
<1>0. TypeOK /\ MirrorTypeOK /\ Places
  BY DEF MirrorInv, TypeInv, Knowledge
<1>1. CASE ChainStep
  BY <1>0, <1>1, ChainOlder
<1>2. ASSUME NEW remembers \in BOOLEAN, NEW tells \in BOOLEAN,
             FinishScan(remembers, tells)
      PROVE  Older'
  <2>1. \A i \in Milestones, a \in Agents :
            from_either(delivery_history'[i][a], delivery_history[i][a], accounts[i][a])
    BY <1>0, <1>2, FinishedRows
  <2>2. /\ submission' = submission /\ cached_accounts' = accounts
        /\ accounts' = NoAccounts
    BY <1>2 DEF FinishScan, NoScan, vars, queue
  <2> QED
    BY <1>0, <2>1, <2>2, ServerOlder
<1>3. ASSUME \/ StartScan \/ ReadCommissions \/ ReadSubmissions \/ FailScan \/ Restart
             \/ \E i \in Milestones, a \in Agents : FileDispute(i, a)
             \/ UNCHANGED mvars
      PROVE  Older'
  <2>1. /\ submission' = submission /\ delivery_history' = delivery_history
        /\ accounts' \in {accounts, submission, NoAccounts}
        /\ cached_accounts' \in {cached_accounts, NoAccounts}
    BY <1>3 DEF StartScan, ReadCommissions, ReadSubmissions, FailScan, Restart, FileDispute,
                NoScan, NoCache, mvars, mirror_vars, scan_vars, cache_vars, database,
                vars, queue
  <2> QED
    BY <1>0, <2>1, ServerOlder DEF from_either
<1> QED
  BY <1>1, <1>2, <1>3 DEF MirrorNext, WorkingStep

-----------------------------------------------------------------------------
(* Scans one after another.                                                *)

(* The chain rules no more on a milestone once it is paid.                 *)
LEMMA ChainFollows ==
    ASSUME TypeOK, Places, Follows, ChainStep PROVE Follows'
<1>1. /\ value' = value /\ cached_value' = cached_value /\ read' = read
      /\ accounts' = accounts /\ cached_accounts' = cached_accounts
      /\ delivery_history' = delivery_history
  BY DEF ChainStep, mirror_vars, scan_vars, cache_vars, database
<1> SUFFICES ASSUME NEW i \in Milestones, shown_paid(i)'
             PROVE  /\ i \in milestones_done'
                    /\ \A a \in Agents : settled(i, a, accounts[i][a].state)'
                    /\ "commissions" \in read => i \in value.milestones_done
  BY <1>1 DEF Follows
<1>2. shown_paid(i)
  BY <1>1 DEF shown_paid
<1>3. /\ i \in milestones_done
      /\ \A a \in Agents : settled(i, a, accounts[i][a].state)
      /\ "commissions" \in read => i \in value.milestones_done
  BY <1>2 DEF Follows
<1>4. ASSUME NEW a \in Agents PROVE settled(i, a, accounts[i][a].state)'
  <2> SUFFICES ASSUME NEW q \in Nat, ruled(i, a, q, "Released")'
               PROVE  accounts[i][a].state \in {"Released", "Empty"}
    BY <1>1 DEF settled
  <2>1. ruled(i, a, q, "Released")
    BY <1>3, NewRuling
  <2> QED
    BY <1>3, <2>1 DEF settled
<1> QED
  BY <1>3, <1>4, PaidForGood

(* What a finished scan shows paid has been paid.                          *)
LEMMA ShownIsPaid ==
    ASSUME MirrorTypeOK, PaidIsFinal, NEW c, behind(c), NEW b \in Accounts, judged_truly(b),
           NEW h \in [Milestones -> [Agents -> Rows]],
           \A i \in Milestones, a \in Agents : row_sound(i, a, h[i][a]),
           NEW i \in Milestones,
           \/ i \in c.milestones_done
           \/ \E a \in Agents : b[i][a].state = "Released" \/ h[i][a].last_state = "Released"
    PROVE  i \in milestones_done
<1>1. CASE i \in c.milestones_done
  BY <1>1 DEF behind
<1>2. ASSUME NEW a \in Agents, b[i][a].state = "Released" PROVE i \in milestones_done
  <2>1. ruled(i, a, b[i][a].sequence, "Released") /\ b[i][a].sequence \in Nat
    BY <1>2 DEF judged_truly, Accounts, Seen
  <2> QED
    BY <2>1 DEF PaidIsFinal
<1>3. ASSUME NEW a \in Agents, h[i][a].last_state = "Released" PROVE i \in milestones_done
  <2>1. ruled(i, a, h[i][a].sequence, "Released") /\ h[i][a].sequence \in Nat
    BY <1>3 DEF row_sound, Rows
  <2> QED
    BY <2>1 DEF PaidIsFinal
<1> QED
  BY <1>1, <1>2, <1>3

(* A scan that begins after a payment was shown cannot miss it.            *)
LEMMA StepFollows ==
    MirrorInv /\ Rulings /\ Follows /\ [MirrorNext]_mvars => Follows'
<1> SUFFICES ASSUME MirrorInv, Rulings, Follows, [MirrorNext]_mvars PROVE Follows'
  OBVIOUS
<1>0. /\ TypeOK /\ MirrorTypeOK /\ Knowledge /\ Places /\ PaidIsFinal /\ AfterPayment
      /\ \A i \in Milestones, a \in Agents : NoAccounts[i][a].state = "Empty"
      /\ NoCommission.milestones_done = {}
  BY DEF MirrorInv, TypeInv, Knowledge, Rulings, NoAccounts, NoSubmission, NoCommission
<1>1. CASE ChainStep
  BY <1>0, <1>1, ChainFollows
<1>2. ASSUME UNCHANGED <<vars, verdicts, cached_value, cached_accounts, delivery_history>>,
             accounts' \in {accounts, submission, NoAccounts},
             "commissions" \in read' =>
                 \/ "commissions" \in read /\ value' = value
                 \/ value'.milestones_done = milestones_done
      PROVE  Follows'
  <2>1. milestones_done' = milestones_done /\ verdicts' = verdicts
    BY <1>2 DEF vars, life, queue
  <2> SUFFICES ASSUME NEW i \in Milestones, shown_paid(i)'
               PROVE  /\ i \in milestones_done
                      /\ \A a \in Agents : settled(i, a, accounts'[i][a].state)
                      /\ "commissions" \in read' => i \in value'.milestones_done
    BY <2>1 DEF Follows, settled, ruled
  <2>2. shown_paid(i)
    BY <1>2 DEF shown_paid
  <2>3. /\ i \in milestones_done
        /\ \A a \in Agents : settled(i, a, accounts[i][a].state)
        /\ "commissions" \in read => i \in value.milestones_done
    BY <2>2 DEF Follows
  <2>4. \A a \in Agents : settled(i, a, submission[i][a].state)
    BY <1>0 DEF AfterPayment
  <2>5. \A a \in Agents : settled(i, a, NoAccounts[i][a].state)
    BY <1>0 DEF settled
  <2> QED
    BY <1>2, <2>3, <2>4, <2>5
<1>3. ASSUME UNCHANGED <<vars, verdicts>>, read' = {}, accounts' = NoAccounts,
             \A i \in Milestones : shown_paid(i)' => i \in milestones_done
      PROVE  Follows'
  <2>1. milestones_done' = milestones_done /\ verdicts' = verdicts
    BY <1>3 DEF vars, life, queue
  <2> QED
    BY <1>0, <1>3, <2>1 DEF Follows, settled
<1>4. ASSUME NEW remembers \in BOOLEAN, NEW tells \in BOOLEAN,
             FinishScan(remembers, tells)
      PROVE  Follows'
  <2>1. MirrorTypeOK'
    BY StepMirrorType, StepTypeInv, ChainAlone DEF MirrorInv, TypeInv
  <2>2. PICK h \in [Milestones -> [Agents -> Rows]] : h = delivery_history'
    BY <2>1 DEF MirrorTypeOK
  <2>3. \A i \in Milestones, a \in Agents :
            from_either(h[i][a], delivery_history[i][a], accounts[i][a])
    BY <1>0, <1>4, <2>2, FinishedRows
  <2>4. \A i \in Milestones, a \in Agents : row_sound(i, a, h[i][a])
    BY <1>0, <2>3, RowsSound
  <2>5. /\ behind(value) /\ judged_truly(accounts) /\ accounts \in Accounts
    BY <1>0 DEF Knowledge, MirrorTypeOK, Accounts
  <2>6. /\ UNCHANGED <<vars, verdicts>> /\ read' = {} /\ accounts' = NoAccounts
        /\ cached_value' = value /\ cached_accounts' = accounts
    BY <1>4 DEF FinishScan, NoScan
  <2>7. ASSUME NEW i \in Milestones, shown_paid(i)' PROVE i \in milestones_done
    <3>1. \/ i \in value.milestones_done
          \/ \E a \in Agents : \/ accounts[i][a].state = "Released"
                               \/ h[i][a].last_state = "Released"
      BY <2>2, <2>6, <2>7 DEF shown_paid
    <3> QED
      BY <1>0, <2>4, <2>5, <3>1, ShownIsPaid
  <2> QED
    BY <1>3, <2>6, <2>7
<1>5. CASE Restart
  <2>1. /\ UNCHANGED <<vars, verdicts>> /\ read' = {} /\ accounts' = NoAccounts
        /\ cached_value' = NoCommission /\ cached_accounts' = NoAccounts
        /\ delivery_history' = delivery_history
    BY <1>5 DEF Restart, NoScan, NoCache, database
  <2>2. \A i \in Milestones : shown_paid(i)' => shown_paid(i)
    BY <1>0, <2>1 DEF shown_paid
  <2> QED
    BY <1>3, <2>1, <2>2 DEF Follows
<1>6. CASE StartScan \/ FailScan \/ UNCHANGED mvars
           \/ \E i \in Milestones, a \in Agents : FileDispute(i, a)
  BY <1>2, <1>6 DEF StartScan, FailScan, NoScan, FileDispute, mvars, mirror_vars,
                    scan_vars, cache_vars, database
<1>7. CASE ReadCommissions
  BY <1>2, <1>7 DEF ReadCommissions, cache_vars, database
<1>8. CASE ReadSubmissions
  BY <1>2, <1>8 DEF ReadSubmissions, cache_vars, database
<1> QED
  BY <1>1, <1>4, <1>5, <1>6, <1>7, <1>8 DEF MirrorNext, WorkingStep

-----------------------------------------------------------------------------
(* The invariant of what is said.                                          *)

\* Nothing is settled before the first scan.
LEMMA InitFinal == MirrorInit => FinalInv
<1> SUFFICES ASSUME MirrorInit PROVE FinalInv
  OBVIOUS
<1>1. MirrorInv
  BY InitTypeInv, InitMirrorType, InitKnowledge DEF MirrorInit, MirrorInv
<1>2. /\ verdicts = {}
      /\ cached_value.milestones_done = {}
      /\ \A i \in Milestones, a \in Agents :
            /\ submission[i][a].state = "Empty" /\ accounts[i][a].state = "Empty"
            /\ cached_accounts[i][a].state = "Empty"
            /\ delivery_history[i][a].last_state = "Empty"
            /\ delivery_history[i][a].sequence = 0
  BY DEF MirrorInit, Init, NoAccounts, NoSubmission, NoRow, NoCommission
<1>3. Rulings
  BY <1>2 DEF Rulings, PaidIsFinal, PaidToOne, AfterPayment, RefusedIsPast, settled, ruled
<1>4. Older
  BY <1>2 DEF Older, not_before, SeenBefore
<1>5. Follows
  BY <1>2 DEF Follows, shown_paid
<1> QED
  BY <1>1, <1>3, <1>4, <1>5 DEF FinalInv

\* Every step of the chain or of a scan keeps it.
LEMMA StepFinal == FinalInv /\ [MirrorNext]_mvars => FinalInv'
<1> SUFFICES ASSUME FinalInv, [MirrorNext]_mvars PROVE FinalInv'
  OBVIOUS
<1>1. MirrorInv /\ Rulings /\ Older /\ Follows
  BY DEF FinalInv
<1>2. MirrorInv'
  <2>1. TypeInv'
    BY <1>1, ChainAlone, StepTypeInv DEF MirrorInv
  <2>2. MirrorTypeOK'
    BY <1>1, <2>1, StepMirrorType DEF MirrorInv, TypeInv
  <2>3. Knowledge' /\ Notified'
    BY <1>1, <2>2, StepKnowledge, StepNotified DEF MirrorInv
  <2> QED
    BY <2>1, <2>2, <2>3 DEF MirrorInv
<1> QED
  BY <1>1, <1>2, StepRulings, StepOlder, StepFollows DEF FinalInv

(* It holds of every server that mirrors the chain ...                     *)
LEMMA MirrorFinal == MirrorSpec => []FinalInv
  BY InitFinal, StepFinal, PTL DEF MirrorSpec

(* ... the one that answers for agents among them.                         *)
LEMMA RecordsMirror == [RecordsNext]_rvars => [MirrorNext]_mvars
  BY DEF RecordsNext, MirrorNext, WorkingStep, ReadIntents, FinishRecords, Aborted, rvars

\* So it holds in every state.
LEMMA RecordsFinal == RecordsSpec => []FinalInv
<1>1. RecordsInit => MirrorInit
  BY DEF RecordsInit
<1> QED
  BY <1>1, RecordsMirror, InitFinal, StepFinal, PTL DEF RecordsSpec

-----------------------------------------------------------------------------
(* The theorems.                                                           *)

(* A refusal concluded for an agent that was paid is of an earlier place.  *)
LEMMA RefusedBefore ==
    ASSUME FinalInv, NEW i \in Milestones, NEW a \in Agents, NEW p \in Nat, NEW q \in Nat,
           ruled(i, a, p, "Released"), ruled(i, a, q, "Rejected")
    PROVE  q < p
  BY DEF FinalInv, Rulings, PaidIsFinal, RefusedIsPast

(* An agent told it was paid is not told afterwards that the milestone     *)
(* refused it, nor may it contest, while the record names the paid attempt *)
(* (PaidVerdictStands).                                                    *)
THEOREM PaidStands == MirrorSpec => PaidVerdictStands
<1>1. FinalInv /\ FinalInv' /\ [MirrorNext]_mvars =>
      [ \A n \in notifications :
          ( /\ n.kind = "delivery-paid"
            /\ delivery_history[n.milestone][n.agent].sequence = n.sequence )
          => /\ told(n.milestone, n.agent, "delivery-rejected")'
                 => told(n.milestone, n.agent, "delivery-rejected")
             /\ <<n.milestone, n.agent>> \notin disputes' \ disputes ]_mvars
  <2> SUFFICES ASSUME FinalInv, FinalInv', [MirrorNext]_mvars,
                      NEW n \in notifications, n.kind = "delivery-paid",
                      delivery_history[n.milestone][n.agent].sequence = n.sequence
               PROVE  /\ told(n.milestone, n.agent, "delivery-rejected")'
                          => told(n.milestone, n.agent, "delivery-rejected")
                      /\ <<n.milestone, n.agent>> \notin disputes' \ disputes
    OBVIOUS
  <2>1. PICK i \in Milestones, a \in Agents, q \in Nat :
            i = n.milestone /\ a = n.agent /\ q = n.sequence
    BY DEF FinalInv, MirrorInv, MirrorTypeOK
  <2>2. ruled(i, a, q, "Released") /\ delivery_history[i][a].sequence = q
    BY <2>1 DEF FinalInv, MirrorInv, Notified, PaidNoticeTrue
  <2>3. /\ MirrorInv /\ Knowledge /\ Places /\ Older /\ MirrorTypeOK /\ MirrorTypeOK'
        /\ milestone_rejected \in [Milestones -> Nat]
        /\ \A j \in Milestones : /\ value.milestone_rejected[j] \in Nat
                                 /\ cached_value.milestone_rejected[j] \in Nat
        /\ behind(value) /\ behind(cached_value)
        /\ judged_truly(accounts) /\ judged_truly(cached_accounts)
    BY DEF FinalInv, MirrorInv, Knowledge, TypeInv, TypeOK, MirrorTypeOK, Scanned
  <2>4. /\ accounts[i][a].state # "Empty" => q <= accounts[i][a].sequence
        /\ cached_accounts[i][a].state # "Empty" => q <= cached_accounts[i][a].sequence
        /\ accounts[i][a].sequence \in Nat /\ cached_accounts[i][a].sequence \in Nat
    BY <2>2, <2>3 DEF Older, not_before, MirrorTypeOK, Seen
  <2>5. ASSUME NEW remembers \in BOOLEAN, NEW tells \in BOOLEAN,
               FinishScan(remembers, tells)
        PROVE  /\ told(i, a, "delivery-rejected")' => told(i, a, "delivery-rejected")
               /\ disputes' = disputes
    <3>1. disputes' = disputes
      BY <2>5 DEF FinishScan
    <3>2. PICK h \in [Milestones -> [Agents -> Rows]] : h = delivery_history'
      BY <2>3 DEF MirrorTypeOK
    <3>3. \A j \in Milestones, b \in Agents :
              from_either(h[j][b], delivery_history[j][b], accounts[j][b])
      BY <2>3, <2>5, <3>2, FinishedRows
    <3>4. \A j \in Milestones, b \in Agents : row_sound(j, b, h[j][b])
      BY <2>3, <3>3, RowsSound
    <3> SUFFICES ASSUME NEW e \in notifications', e.milestone = i, e.agent = a,
                        e.kind = "delivery-rejected", e \notin notifications
                 PROVE  FALSE
      BY <3>1 DEF told
    <3>5. e \in detectEvents(value, accounts, h)
      BY <2>5, <3>2 DEF FinishScan, recorded
    <3>6. says_true(e)
      BY <2>3, <3>4, <3>5, EventsTrue
    <3>7. ruled(i, a, e.sequence, "Rejected") /\ e.sequence \in Nat
      BY <2>3, <3>6 DEF says_true, MirrorTypeOK
    <3>8. e.sequence < q
      BY <2>2, <3>7, RefusedBefore
    <3>9. e.sequence = judged_place(accounts, i, a, h[i][a])
      <4>1. e \in verdict_events(value, accounts, h) \/ e \in front_events(value, accounts)
        BY <3>5 DEF detectEvents
      <4>2. e \notin front_events(value, accounts)
        BY DEF front_events, Event
      <4>3. PICK p \in Pairs : e = verdict_event(value, accounts, p[1], p[2], h[p[1]][p[2]])
        BY <4>1, <4>2 DEF verdict_events
      <4>4. /\ e.milestone = p[1] /\ e.agent = p[2]
            /\ e.sequence = judged_place(accounts, p[1], p[2], h[p[1]][p[2]])
        BY <4>3 DEF verdict_event, Event, judged_place
      <4> QED
        BY <4>4
    <3>10. q <= judged_place(accounts, i, a, h[i][a])
      BY <2>2, <2>4, <3>3 DEF from_either, judged_place
    <3> QED
      BY <2>4, <3>7, <3>8, <3>9, <3>10
  <2>6. ASSUME NEW j \in Milestones, NEW b \in Agents, FileDispute(j, b)
        PROVE  /\ told(i, a, "delivery-rejected")' => told(i, a, "delivery-rejected")
               /\ <<i, a>> \notin disputes' \ disputes
    <3>1. /\ disputes' = disputes \union {<<j, b>>}
          /\ notifications' \subseteq notifications
                \union {Event("dispute-opened", j, b, delivery_history[j][b].sequence)}
      BY <2>6 DEF FileDispute, recorded
    <3>2. told(i, a, "delivery-rejected")' => told(i, a, "delivery-rejected")
      BY <3>1 DEF told, Event
    <3>3. CASE i = j /\ a = b
      <4>1. row_sound(i, a, delivery_history[i][a])
        BY <2>3, RowsSound DEF MirrorTypeOK, from_either
      <4>2. /\ delivery_history[i][a].last_state # "Empty"
            /\ outcome(cached_value, cached_accounts, i, a, delivery_history[i][a])
                 = "Rejected"
        BY <2>6, <3>3 DEF FileDispute, contestable
      <4> DEFINE p == judged_place(cached_accounts, i, a, delivery_history[i][a])
      <4>3. ruled(i, a, p, "Rejected")
        BY <2>3, <4>1, <4>2, OutcomeTrue
      <4>4. p \in Nat /\ q <= p
        BY <2>2, <2>4 DEF judged_place
      <4> HIDE DEF p
      <4>5. p < q
        BY <2>2, <4>3, <4>4, RefusedBefore
      <4> QED
        BY <4>4, <4>5
    <3>4. CASE ~(i = j /\ a = b)
      <4>1. <<i, a>> # <<j, b>>
        BY <3>4
      <4>2. <<i, a>> \notin disputes' \ disputes
        BY <3>1, <4>1
      <4> QED
        BY <3>2, <4>2
    <3> QED
      BY <3>2, <3>3, <3>4
  <2>7. CASE notifications' = notifications /\ disputes' = disputes
    BY <2>7 DEF told
  <2>8. \/ \E remembers, tells \in BOOLEAN : FinishScan(remembers, tells)
        \/ \E j \in Milestones, b \in Agents : FileDispute(j, b)
        \/ notifications' = notifications /\ disputes' = disputes
    BY DEF MirrorNext, WorkingStep, ChainStep, StartScan, ReadCommissions, ReadSubmissions,
           FailScan, Restart, mvars, mirror_vars, database
  <2> QED
    BY <2>1, <2>5, <2>6, <2>7, <2>8
<1> QED
  BY <1>1, MirrorFinal, PTL DEF MirrorSpec, PaidVerdictStands

(* A payment a page shows was made.                                        *)
LEMMA WonIsPaid ==
    ASSUME FinalInv, NEW i \in Milestones, NEW a \in Agents, i \in in_state(a, "Released")
    PROVE  \E q \in 0 .. milestone_submitted[i] : ruled(i, a, q, "Released")
<1> DEFINE row == delivery_history[i][a]
           q == judged_place(cached_accounts, i, a, row)
<1>1. /\ Knowledge /\ Places /\ PaidIsFinal
      /\ milestone_rejected \in [Milestones -> Nat]
      /\ milestone_submitted \in [Milestones -> Nat]
      /\ \A j \in Milestones : cached_value.milestone_rejected[j] \in Nat
      /\ behind(cached_value) /\ judged_truly(cached_accounts)
      /\ cached_accounts[i][a] \in Seen /\ row \in Rows
  BY DEF FinalInv, Rulings, MirrorInv, Knowledge, TypeInv, TypeOK, MirrorTypeOK, Scanned
<1>2. row.last_state # "Empty" /\ outcome(cached_value, cached_accounts, i, a, row) = "Released"
  BY DEF in_state, delivered_by
<1>3. row_sound(i, a, row)
  BY <1>1, RowsSound DEF FinalInv, MirrorInv, MirrorTypeOK, from_either
<1>4. ruled(i, a, q, "Released")
  BY <1>1, <1>2, <1>3, OutcomeTrue
<1>5. q \in Nat
  BY <1>1 DEF judged_place, Seen, Rows
<1> HIDE DEF q
<1>6. q = milestone_rejected[i] /\ q <= milestone_submitted[i]
  BY <1>1, <1>4, <1>5 DEF PaidIsFinal, Places, Counted
<1> QED
  BY <1>1, <1>4, <1>5, <1>6

(* Whoever a page credits with a milestone was paid for it, and nobody     *)
(* else is credited with it (CreditsArePayments).                          *)
THEOREM CreditsEarned == RecordsSpec => []CreditsArePayments
<1>1. FinalInv => CreditsArePayments
  <2> SUFFICES ASSUME FinalInv, NEW i \in Milestones
               PROVE  LET credited == { a \in Agents : i \in directory(a).won } IN
                      /\ \A a \in credited : \E q \in 0 .. milestone_submitted[i] :
                            ruled(i, a, q, "Released")
                      /\ Cardinality(credited) <= 1
    BY DEF CreditsArePayments
  <2> DEFINE credited == { a \in Agents : i \in directory(a).won }
  <2>1. \A a \in credited : a \in Agents /\ i \in in_state(a, "Released")
    BY DEF directory
  <2>2. \A a \in credited : \E q \in 0 .. milestone_submitted[i] : ruled(i, a, q, "Released")
    BY <2>1, WonIsPaid
  <2>3. milestone_submitted[i] \in Nat
    BY DEF FinalInv, MirrorInv, TypeInv, TypeOK
  <2>4. \A a, b \in credited : a = b
    BY <2>1, <2>2, <2>3 DEF FinalInv, Rulings, PaidToOne
  <2> HIDE DEF credited
  <2>5. Cardinality(credited) <= 1
    <3>1. CASE credited = {}
      BY <3>1, FS_EmptySet
    <3>2. ASSUME NEW a \in credited PROVE Cardinality(credited) <= 1
      <4>1. credited = {a}
        BY <2>4, <3>2
      <4>2. Cardinality({a}) = 1
        BY FS_Singleton
      <4> QED
        BY <4>1, <4>2
    <3> QED
      BY <3>1, <3>2
  <2> QED
    BY <2>2, <2>5 DEF credited
<1> QED
  BY <1>1, RecordsFinal, PTL

(* No row is emptied.                                                      *)
LEMMA RowsStay ==
    ASSUME FinalInv, [MirrorNext]_mvars, NEW i \in Milestones, NEW a \in Agents,
           delivery_history[i][a].last_state # "Empty"
    PROVE  delivery_history'[i][a].last_state # "Empty"
<1>1. ASSUME NEW remembers \in BOOLEAN, NEW tells \in BOOLEAN, FinishScan(remembers, tells)
      PROVE  delivery_history'[i][a].last_state # "Empty"
  <2>1. from_either(delivery_history'[i][a], delivery_history[i][a], accounts[i][a])
    BY <1>1, FinishedRows DEF FinalInv, MirrorInv
  <2> QED
    BY <2>1 DEF from_either
<1>2. \/ \E remembers, tells \in BOOLEAN : FinishScan(remembers, tells)
      \/ delivery_history' = delivery_history
  BY DEF MirrorNext, WorkingStep, ChainStep, StartScan, ReadCommissions, ReadSubmissions,
         FileDispute, FailScan, Restart, mvars, mirror_vars, database
<1> QED
  BY <1>1, <1>2

(* No intent is forgotten.                                                 *)
LEMMA IntentsStay ==
    ASSUME [RecordsNext]_rvars, NEW a \in Agents, intent_history[a] # "Empty"
    PROVE  intent_history'[a] # "Empty"
<1>1. ASSUME NEW remembers \in BOOLEAN, NEW tells \in BOOLEAN,
             FinishRecords(remembers, tells)
      PROVE  intent_history'[a] # "Empty"
  BY <1>1 DEF FinishRecords, rememberIntent
<1>2. \/ \E remembers, tells \in BOOLEAN : FinishRecords(remembers, tells)
      \/ intent_history' = intent_history
  BY DEF RecordsNext, ReadIntents, Aborted, rvars, records_vars
<1> QED
  BY <1>1, <1>2

(* A milestone a page credits is credited by the next scan as well.        *)
LEMMA CreditStays ==
    ASSUME FinalInv, FinalInv', NEW remembers \in BOOLEAN, NEW tells \in BOOLEAN,
           FinishScan(remembers, tells), NEW i \in Milestones, NEW a \in Agents,
           i \in in_state(a, "Released"),
           ruled(i, a, delivery_history[i][a].sequence, "Released")
    PROVE  /\ delivery_history'[i][a].last_state # "Empty"
           /\ outcome(value, accounts, i, a, delivery_history'[i][a]) = "Released"
<1> DEFINE row == delivery_history[i][a]
<1>1. /\ Knowledge /\ Follows /\ PaidIsFinal /\ behind(value)
      /\ row \in Rows /\ accounts[i][a] \in Seen
      /\ value.milestone_rejected[i] \in Nat /\ "commissions" \in read
  BY DEF FinalInv, Rulings, MirrorInv, Knowledge, MirrorTypeOK, Scanned, FinishScan
<1>2. row.last_state # "Empty" /\ outcome(cached_value, cached_accounts, i, a, row) = "Released"
  BY DEF in_state, delivered_by
<1>3. row.sequence \in Nat /\ row.last_state # "Rejected"
  <2>1. row.sequence \in Nat
    BY <1>1 DEF Rows
  <2>2. ASSUME row.last_state = "Rejected" PROVE FALSE
    <3>1. ruled(i, a, row.sequence, "Rejected")
      BY <1>1, <2>2 DEF Knowledge, RowsObserved
    <3>2. row.sequence < row.sequence
      BY <2>1, <3>1, RefusedBefore
    <3> QED
      BY <2>1, <3>2
  <2> QED
    BY <2>1, <2>2
<1>4. i \in milestones_done /\ row.sequence = milestone_rejected[i]
  BY <1>1, <1>3 DEF PaidIsFinal
<1>5. shown_paid(i)
  <2>1. \/ cached_accounts[i][a].state = "Released" \/ row.last_state = "Released"
        \/ i \in cached_value.milestones_done
    BY <1>2 DEF outcome, settledState
  <2> QED
    BY <2>1 DEF shown_paid
<1>6. /\ i \in value.milestones_done
      /\ settled(i, a, accounts[i][a].state)
  BY <1>1, <1>5 DEF Follows
<1>7. row.sequence = value.milestone_rejected[i]
  BY <1>1, <1>4, <1>6 DEF behind
<1>8. accounts[i][a].state \in {"Released", "Empty"}
  BY <1>3, <1>6 DEF settled
<1>9. from_either(delivery_history'[i][a], row, accounts[i][a])
  BY FinishedRows DEF FinalInv, MirrorInv
<1>10. CASE accounts[i][a].state = "Released"
  BY <1>2, <1>9, <1>10 DEF from_either, outcome
<1>11. CASE accounts[i][a].state = "Empty"
  <2>1. delivery_history'[i][a] = row
    BY <1>9, <1>11 DEF from_either
  <2>2. outcome(value, accounts, i, a, row) = settledState(value, i, row)
    BY <1>11 DEF outcome
  <2>3. settledState(value, i, row) = "Released"
    BY <1>1, <1>3, <1>6, <1>7 DEF settledState
  <2> QED
    BY <1>2, <2>1, <2>2, <2>3
<1> QED
  BY <1>8, <1>10, <1>11

(* A page shows on whatever it showed once, through sweeps, failed scans   *)
(* and restarts: a delivery, a word kept, and a milestone credited while   *)
(* the record names the attempt that was paid (HistoryStays).              *)
THEOREM HistoryNeverEmpties == RecordsSpec => HistoryStays
<1>1. FinalInv /\ FinalInv' /\ [RecordsNext]_rvars =>
      [ \A a \in Agents :
          /\ delivered_by(a) \subseteq delivered_by(a)'
          /\ "honoured" \in activity(a).signalled => "honoured" \in activity(a).signalled'
          /\ \A i \in in_state(a, "Released") :
                ( /\ cached /\ cached'
                  /\ ruled(i, a, delivery_history[i][a].sequence, "Released") )
                => i \in in_state(a, "Released")' ]_rvars
  <2> SUFFICES ASSUME FinalInv, FinalInv', [RecordsNext]_rvars, NEW a \in Agents
               PROVE  /\ delivered_by(a) \subseteq delivered_by(a)'
                      /\ "honoured" \in activity(a).signalled
                           => "honoured" \in activity(a).signalled'
                      /\ \A i \in in_state(a, "Released") :
                            ( /\ cached /\ cached'
                              /\ ruled(i, a, delivery_history[i][a].sequence, "Released") )
                            => i \in in_state(a, "Released")'
    OBVIOUS
  <2>0. [MirrorNext]_mvars
    BY RecordsMirror
  <2>1. delivered_by(a) \subseteq delivered_by(a)'
    BY <2>0, RowsStay DEF delivered_by
  <2>2. ASSUME "honoured" \in activity(a).signalled
        PROVE  "honoured" \in activity(a).signalled'
    <3>1. intent_history[a] # "Empty" /\ signal_outcome(a) = "honoured"
      BY <2>2 DEF activity
    <3>2. delivered_by(a) # {}
      BY <3>1 DEF signal_outcome
    <3>3. delivered_by(a)' # {}
      BY <2>1, <3>2
    <3>4. signal_outcome(a)' = "honoured"
      BY <3>3 DEF signal_outcome
    <3>5. intent_history'[a] # "Empty"
      BY <3>1, IntentsStay
    <3> QED
      BY <3>4, <3>5 DEF activity
  <2>3. ASSUME NEW i \in in_state(a, "Released"), cached, cached',
               ruled(i, a, delivery_history[i][a].sequence, "Released")
        PROVE  i \in in_state(a, "Released")'
    <3>1. i \in Milestones
      BY DEF in_state, delivered_by
    <3>2. ASSUME NEW remembers \in BOOLEAN, NEW tells \in BOOLEAN,
                 FinishScan(remembers, tells)
          PROVE  i \in in_state(a, "Released")'
      <4>1. cached_value' = value /\ cached_accounts' = accounts
        BY <3>2 DEF FinishScan
      <4>2. /\ delivery_history'[i][a].last_state # "Empty"
            /\ outcome(value, accounts, i, a, delivery_history'[i][a]) = "Released"
        BY <2>3, <3>1, <3>2, CreditStays
      <4> QED
        BY <3>1, <4>1, <4>2 DEF in_state, delivered_by, outcome, settledState
    <3>3. CASE UNCHANGED <<cached_value, cached_accounts, delivery_history>>
      BY <2>3, <3>3 DEF in_state, delivered_by, outcome, settledState
    <3>4. \/ \E remembers, tells \in BOOLEAN : FinishScan(remembers, tells)
          \/ UNCHANGED <<cached_value, cached_accounts, delivery_history>>
      BY <2>0, <2>3 DEF MirrorNext, WorkingStep, ChainStep, StartScan, ReadCommissions,
         ReadSubmissions, FileDispute, FailScan, Restart, NoCache, mvars, mirror_vars,
         cache_vars, database
    <3> QED
      BY <3>2, <3>3, <3>4
  <2> QED
    BY <2>1, <2>2, <2>3
<1> QED
  BY <1>1, RecordsFinal, PTL DEF RecordsSpec, HistoryStays

-----------------------------------------------------------------------------
(***************************************************************************)
(* The texts of deliveries.                                                *)
(*                                                                         *)
(* A place in a milestone's queue is given to one attempt, in the order of *)
(* time.  So once all attempts are recorded, as many are recorded before   *)
(* one of them as there are places before its own, if only the clock tells *)
(* them apart.                                                             *)
(***************************************************************************)

AllAttempts ==
    [ milestone : Milestones, agent : Agents, sequence : Nat, submitted_at : Nat ]

EvidenceTypeOK == attempts \subseteq AllAttempts /\ deliveries \in Seq(AllAttempts)

\* The attempts at a milestone are numbered without gaps, as they came.
Numbered ==
    /\ \A t \in attempts :
          t.sequence < milestone_submitted[t.milestone] /\ t.submitted_at <= now
    /\ \A i \in Milestones, q \in Nat :
          q < milestone_submitted[i] =>
              \E t \in attempts : t.milestone = i /\ t.sequence = q
    /\ \A s, t \in attempts :
          s.milestone = t.milestone =>
              /\ s.sequence = t.sequence => s = t
              /\ s.sequence < t.sequence => s.submitted_at <= t.submitted_at

WaitingAttempted ==
    \A i \in Milestones, a \in Agents :
        submission[i][a].state = "Pending" => Attempt(i, a, submission[i][a]) \in attempts

RecordedOnce ==
    /\ \A n \in DOMAIN deliveries : deliveries[n] \in attempts
    /\ \A m, n \in DOMAIN deliveries : deliveries[m] = deliveries[n] => m = n

EvidenceInv ==
    TypeInv /\ EvidenceTypeOK /\ Numbered /\ WaitingAttempted /\ RecordedOnce

\* No evidence is indexed before the first scan.
LEMMA InitEvidence == EvidenceInit => EvidenceInv
<1> SUFFICES ASSUME EvidenceInit PROVE EvidenceInv
  OBVIOUS
<1>1. TypeInv
  BY InitTypeInv DEF EvidenceInit, MirrorInit
<1>2. attempts = {} /\ deliveries = <<>>
  BY DEF EvidenceInit
<1>3. /\ \A i \in Milestones : milestone_submitted[i] = 0
      /\ \A i \in Milestones, a \in Agents : submission[i][a].state # "Pending"
  BY DEF EvidenceInit, MirrorInit, Init, NoSubmission
<1>4. EvidenceTypeOK /\ RecordedOnce
  BY <1>2 DEF EvidenceTypeOK, RecordedOnce
<1>5. Numbered /\ WaitingAttempted
  BY <1>2, <1>3 DEF Numbered, WaitingAttempted
<1> QED
  BY <1>1, <1>4, <1>5 DEF EvidenceInv

(* The clock of the chain does not run back.                               *)
LEMMA TimeGoesOn == ASSUME TypeOK, [Next]_vars PROVE now <= now'
<1>0. now \in Nat
  BY DEF TypeOK
<1>1. CASE Tick
  BY <1>0, <1>1 DEF Tick
<1>2. CASE Next /\ ~Tick
  <2>1. now' = now
    <3>1. ASSUME NEW b \in Backers, BackerStep(b) PROVE now' = now
      BY <3>1 DEF BackerStep, Pledge, Refund, ClosePledge, may_close_pledge
    <3>2. ASSUME NEW a \in Agents, AgentStep(a) PROVE now' = now
      BY <3>2 DEF AgentStep, SignalIntent, WithdrawIntent, CloseIntent, SubmitDelivery,
         may_submit,
                  RejectDelivery, CloseSubmission, may_close_submission, ReleaseMilestone
    <3> QED
      BY <1>2, <3>1, <3>2 DEF Next, InitConfig, SetPaused, CreateCommission, may_create,
         InviteAgent,
                              Cancel, CloseVault, Donate
  <2> QED
    BY <1>0, <2>1
<1>3. CASE UNCHANGED vars
  BY <1>0, <1>3 DEF vars
<1> QED
  BY <1>1, <1>2, <1>3

(* Only a submission makes an attempt.                                     *)
LEMMA NewAttempt ==
    ASSUME TypeOK, WaitingAttempted, [Next]_vars
    PROVE  \/ /\ new_attempts \subseteq attempts
              /\ milestone_submitted' = milestone_submitted
              /\ \A i \in Milestones, a \in Agents :
                    submission'[i][a].state = "Pending" => submission'[i][a] = submission[i][a]
           \/ \E i \in Milestones, a \in Agents : PlaceTaken(i, a)
<1> DEFINE Stays == \A i \in Milestones, a \in Agents :
              submission'[i][a].state = "Pending" => submission'[i][a] = submission[i][a]
<1>0. submission \in [Milestones -> [Agents -> SubmissionAccounts]]
  BY DEF TypeOK
<1>1. ASSUME Stays PROVE new_attempts \subseteq attempts
  <2> SUFFICES ASSUME NEW i \in Milestones, NEW a \in Agents,
                      submission'[i][a].state = "Pending"
               PROVE  Attempt(i, a, submission'[i][a]) \in attempts
    BY DEF new_attempts, Pairs
  <2> QED
    BY <1>1 DEF WaitingAttempted
<1>2. CASE QueueStays \/ UNCHANGED vars
  BY <1>1, <1>2 DEF QueueStays, counts, vars, queue
<1>3. ASSUME NEW i \in Milestones, NEW a \in Agents,
             PlaceRefused(i, a) \/ PlacePaid(i, a) \/ PlaceLeft(i, a)
      PROVE  Stays /\ milestone_submitted' = milestone_submitted
  <2>1. CASE PlaceLeft(i, a)
    BY <1>0, <2>1 DEF PlaceLeft, NoSubmission, counts
  <2>2. CASE PlaceRefused(i, a) \/ PlacePaid(i, a)
    BY <1>0, <2>2 DEF PlaceRefused, PlacePaid, Judged, SubmissionAccounts
  <2> QED
    BY <1>3, <2>1, <2>2
<1> QED
  BY <1>1, <1>2, <1>3, NextQueue DEF QueueStep

(* Every attempt the chain accepts gets the next number of its milestone.  *)
LEMMA ChainEvidence ==
    ASSUME EvidenceInv, TypeInv', [Next]_vars, attempts' = attempts \union new_attempts,
           UNCHANGED deliveries
    PROVE  EvidenceInv'
<1>0. /\ now <= now' /\ now \in Nat /\ now' \in Nat
      /\ milestone_submitted \in [Milestones -> Nat]
      /\ submission \in [Milestones -> [Agents -> SubmissionAccounts]]
      /\ attempts \subseteq AllAttempts
  BY TimeGoesOn DEF EvidenceInv, EvidenceTypeOK, TypeInv, TypeOK
<1>1. \A t \in attempts : /\ t.milestone \in Milestones /\ t.agent \in Agents
                          /\ t.sequence \in Nat /\ t.submitted_at \in Nat
  BY <1>0 DEF AllAttempts
<1>2. CASE /\ new_attempts \subseteq attempts
           /\ milestone_submitted' = milestone_submitted
           /\ \A i \in Milestones, a \in Agents :
                 submission'[i][a].state = "Pending" => submission'[i][a] = submission[i][a]
  <2>1. attempts' = attempts
    BY <1>2
  <2>2. EvidenceTypeOK' /\ RecordedOnce'
    BY <2>1 DEF EvidenceInv, EvidenceTypeOK, RecordedOnce
  <2>3. Numbered'
    <3>1. \A t \in attempts : t.submitted_at <= now'
      BY <1>0, <1>1 DEF EvidenceInv, Numbered
    <3> QED
      BY <1>2, <2>1, <3>1 DEF EvidenceInv, Numbered
  <2>4. WaitingAttempted'
    BY <1>2, <2>1 DEF EvidenceInv, WaitingAttempted
  <2> QED
    BY <2>2, <2>3, <2>4 DEF EvidenceInv
<1>3. ASSUME NEW i \in Milestones, NEW a \in Agents, PlaceTaken(i, a)
      PROVE  EvidenceInv'
  <2> DEFINE new == [ milestone |-> i, agent |-> a, sequence |-> milestone_submitted[i],
                      submitted_at |-> now ]
  <2>1. /\ new.milestone = i /\ new.sequence = milestone_submitted[i]
        /\ new.submitted_at = now /\ new \in AllAttempts
    BY <1>0 DEF AllAttempts
  <2>2. \A j \in Milestones, b \in Agents :
           submission'[j][b] = IF j = i /\ b = a
                               THEN [ state |-> "Pending", sequence |-> milestone_submitted[i],
                                      submitted_at |-> now ]
                               ELSE submission[j][b]
    BY <1>0, <1>3 DEF PlaceTaken
  <2>3. \A j \in Milestones, b \in Agents :
           submission'[j][b].state = "Pending" =>
               \/ j = i /\ b = a /\ Attempt(j, b, submission'[j][b]) = new
               \/ Attempt(j, b, submission'[j][b]) \in attempts
    BY <2>2 DEF EvidenceInv, WaitingAttempted, Attempt
  <2>4. new \in new_attempts
    <3>1. submission'[i][a].state = "Pending" /\ Attempt(i, a, submission'[i][a]) = new
      BY <2>2 DEF Attempt
    <3>2. <<i, a>> \in { q \in Pairs : submission'[q[1]][q[2]].state = "Pending" }
      BY <3>1 DEF Pairs
    <3> QED
      BY <3>1, <3>2 DEF new_attempts
  <2>5. new_attempts \subseteq attempts \union {new}
    <3> SUFFICES ASSUME NEW p \in Pairs, submission'[p[1]][p[2]].state = "Pending"
                 PROVE  Attempt(p[1], p[2], submission'[p[1]][p[2]]) \in attempts \union {new}
      BY DEF new_attempts
    <3> QED
      BY <2>3 DEF Pairs
  <2>6. attempts' = attempts \union {new}
    BY <2>4, <2>5
  <2>7. \A j \in Milestones :
           milestone_submitted'[j] = IF j = i THEN milestone_submitted[i] + 1
                                     ELSE milestone_submitted[j]
    BY <1>0, <1>3 DEF PlaceTaken
  <2> HIDE DEF new
  <2>8. EvidenceTypeOK' /\ RecordedOnce'
    BY <1>0, <2>1, <2>6 DEF EvidenceInv, EvidenceTypeOK, RecordedOnce
  <2>9. Numbered'
    <3>1. \A t \in attempts' : t.sequence < milestone_submitted'[t.milestone]
                               /\ t.submitted_at <= now'
      BY <1>0, <1>1, <2>1, <2>6, <2>7 DEF EvidenceInv, Numbered
    <3>2. ASSUME NEW j \in Milestones, NEW q \in Nat, q < milestone_submitted'[j]
          PROVE  \E t \in attempts' : t.milestone = j /\ t.sequence = q
      <4>1. CASE j = i /\ q = milestone_submitted[i]
        BY <2>1, <2>6, <4>1
      <4>2. CASE ~(j = i /\ q = milestone_submitted[i])
        <5>1. q < milestone_submitted[j]
          <6>1. PICK n \in Nat : n = milestone_submitted[j]
            BY <1>0
          <6>2. milestone_submitted'[j] = IF j = i THEN n + 1 ELSE n
            BY <2>7, <6>1
          <6> QED
            BY <3>2, <4>2, <6>1, <6>2
        <5> QED
          BY <2>6, <5>1 DEF EvidenceInv, Numbered
      <4> QED
        BY <4>1, <4>2
    <3>3. \A t \in attempts : /\ t.milestone = i => t.sequence < new.sequence
                              /\ t.submitted_at <= new.submitted_at
      BY <2>1 DEF EvidenceInv, Numbered
    <3>4. ASSUME NEW s \in attempts', NEW t \in attempts', s.milestone = t.milestone
          PROVE  /\ s.sequence = t.sequence => s = t
                 /\ s.sequence < t.sequence => s.submitted_at <= t.submitted_at
      <4>1. CASE s \in attempts /\ t \in attempts
        BY <3>4, <4>1 DEF EvidenceInv, Numbered
      <4>2. CASE s = new /\ t = new
        BY <1>0, <2>1, <4>2
      <4>3. CASE s = new /\ t \in attempts
        BY <1>0, <1>1, <2>1, <3>3, <3>4, <4>3
      <4>4. CASE s \in attempts /\ t = new
        BY <1>0, <1>1, <2>1, <3>3, <3>4, <4>4
      <4> QED
        BY <2>6, <4>1, <4>2, <4>3, <4>4
    <3> QED
      BY <3>1, <3>2, <3>4 DEF Numbered
  <2>10. WaitingAttempted'
    BY <2>3, <2>6 DEF WaitingAttempted
  <2> QED
    BY <2>8, <2>9, <2>10 DEF EvidenceInv
<1> QED
  BY <1>2, <1>3, NewAttempt DEF EvidenceInv, TypeInv

\* Every step of the chain, of a scan or of the index keeps it.
LEMMA StepEvidence == EvidenceInv /\ [EvidenceNext]_evars => EvidenceInv'
<1> SUFFICES ASSUME EvidenceInv, [EvidenceNext]_evars PROVE EvidenceInv'
  OBVIOUS
<1>1. [Next]_vars
  <2>1. MirrorStep => [Next]_vars
    BY DEF MirrorStep, WorkingStep, ChainStep, StartScan, ReadCommissions, ReadSubmissions,
           FinishScan, FileDispute, FailScan
  <2>2. (\E t \in attempts : PostEvidence(t)) \/ OpenDatabase \/ UNCHANGED evars
        => UNCHANGED vars
    BY DEF PostEvidence, OpenDatabase, evars, mvars
  <2> QED
    BY <2>1, <2>2 DEF EvidenceNext
<1>2. TypeInv'
  BY <1>1, StepTypeInv DEF EvidenceInv
<1>3. CASE MirrorStep
  BY <1>1, <1>2, <1>3, ChainEvidence DEF MirrorStep
<1>4. CASE (\E t \in attempts : PostEvidence(t)) \/ OpenDatabase \/ UNCHANGED evars
  <2>1. UNCHANGED <<vars, attempts>>
    BY <1>4 DEF PostEvidence, OpenDatabase, evars, mvars
  <2>2. Numbered' /\ WaitingAttempted'
    BY <2>1 DEF vars, queue, EvidenceInv, Numbered, WaitingAttempted
  <2>3. CASE OpenDatabase \/ UNCHANGED evars
    <3>1. UNCHANGED deliveries
      BY <2>3 DEF OpenDatabase, evars
    <3> QED
      BY <1>2, <2>1, <2>2, <3>1 DEF EvidenceInv, EvidenceTypeOK, RecordedOnce
  <2>4. ASSUME NEW t \in attempts, PostEvidence(t)
        PROVE  EvidenceInv'
    <3>1. /\ deliveries' = Append(deliveries, t)
          /\ \A n \in DOMAIN deliveries : deliveries[n] # t
      BY <2>4 DEF PostEvidence
    <3>2. deliveries \in Seq(AllAttempts) /\ t \in AllAttempts
      BY DEF EvidenceInv, EvidenceTypeOK
    <3>3. EvidenceTypeOK'
      BY <2>1, <3>1, <3>2 DEF EvidenceInv, EvidenceTypeOK
    <3>4. /\ DOMAIN deliveries' = DOMAIN deliveries \union {Len(deliveries) + 1}
          /\ deliveries'[Len(deliveries) + 1] = t
          /\ \A n \in DOMAIN deliveries : deliveries'[n] = deliveries[n]
      BY <3>1, <3>2
    <3>5. RecordedOnce'
      BY <2>1, <3>1, <3>4 DEF EvidenceInv, RecordedOnce
    <3> QED
      BY <1>2, <2>2, <3>3, <3>5 DEF EvidenceInv
  <2> QED
    BY <1>4, <2>3, <2>4
<1> QED
  BY <1>3, <1>4 DEF EvidenceNext

\* So it holds in every state.
LEMMA EvidenceAlways == EvidenceSpec => []EvidenceInv
  BY InitEvidence, StepEvidence, PTL DEF EvidenceSpec

(* What is recorded of a complete milestone: each of its attempts, once.   *)
LEMMA RecordedAttempts ==
    ASSUME EvidenceInv, NEW i \in Milestones, complete(i)
    PROVE  /\ IsFiniteSet(DOMAIN deliveries) /\ DOMAIN deliveries \subseteq Nat
           /\ \A n \in DOMAIN deliveries :
                 /\ deliveries[n] \in attempts
                 /\ deliveries[n].agent \in Agents
                 /\ deliveries[n].sequence \in Nat /\ deliveries[n].submitted_at \in Nat
           /\ \A m, n \in DOMAIN deliveries :
                 deliveries[m].milestone = i /\ deliveries[n].milestone = i =>
                     /\ \/ deliveries[m].sequence = deliveries[n].sequence
                        \/ deliveries[m].submitted_at = deliveries[n].submitted_at
                        => m = n
                     /\ deliveries[m].sequence < deliveries[n].sequence
                        => deliveries[m].submitted_at < deliveries[n].submitted_at
<1>1. deliveries \in Seq(AllAttempts) /\ attempts \subseteq AllAttempts
  BY DEF EvidenceInv, EvidenceTypeOK
<1>2. PICK k \in Nat : DOMAIN deliveries = 1 .. k
  BY <1>1
<1>3. IsFiniteSet(1 .. k)
  BY FS_Interval
<1>4. \A n \in DOMAIN deliveries :
         /\ deliveries[n] \in attempts
         /\ deliveries[n].agent \in Agents
         /\ deliveries[n].sequence \in Nat /\ deliveries[n].submitted_at \in Nat
  BY <1>1 DEF EvidenceInv, RecordedOnce, AllAttempts
<1>5. ASSUME NEW m \in DOMAIN deliveries, NEW n \in DOMAIN deliveries,
             deliveries[m].milestone = i, deliveries[n].milestone = i
      PROVE  /\ \/ deliveries[m].sequence = deliveries[n].sequence
                \/ deliveries[m].submitted_at = deliveries[n].submitted_at
                => m = n
             /\ deliveries[m].sequence < deliveries[n].sequence
                => deliveries[m].submitted_at < deliveries[n].submitted_at
  <2>1. PICK s \in attempts, t \in attempts : s = deliveries[m] /\ t = deliveries[n]
    BY <1>4
  <2>2. s.sequence = t.sequence \/ s.submitted_at = t.submitted_at => s = t
    BY <1>5, <2>1 DEF EvidenceInv, Numbered, complete
  <2>3. s.sequence < t.sequence => s.submitted_at <= t.submitted_at
    BY <1>5, <2>1 DEF EvidenceInv, Numbered
  <2>4. s = t => m = n
    BY <2>1 DEF EvidenceInv, RecordedOnce
  <2>5. s.sequence \in Nat /\ t.sequence \in Nat
        /\ s.submitted_at \in Nat /\ t.submitted_at \in Nat
    BY <1>4, <2>1
  <2>6. s.sequence < t.sequence => s.submitted_at < t.submitted_at
    <3> SUFFICES ASSUME s.sequence < t.sequence PROVE s.submitted_at < t.submitted_at
      OBVIOUS
    <3>1. s # t
      BY <2>5
    <3> QED
      BY <2>2, <2>3, <2>5, <3>1
  <2> QED
    BY <2>1, <2>2, <2>4, <2>6
<1> QED
  BY <1>2, <1>3, <1>4, <1>5

(* The place worked out for a recorded delivery of such a milestone is the *)
(* number the chain gave it.                                               *)
LEMMA PlaceIsNumber ==
    ASSUME EvidenceInv, NEW i \in Milestones, complete(i),
           NEW n \in DOMAIN deliveries, deliveries[n].milestone = i
    PROVE  place(n) = deliveries[n].sequence
<1> DEFINE M == { m \in DOMAIN deliveries : arrived_before(m, n) }
           f == [m \in M |-> deliveries[m].sequence]
<1>1. PICK q \in Nat : q = deliveries[n].sequence
  BY RecordedAttempts
<1>2. \A m \in DOMAIN deliveries :
         m \in M <=> deliveries[m].milestone = i /\ deliveries[m].sequence < q
  <2> TAKE m \in DOMAIN deliveries
  <2>1. /\ deliveries[m].sequence \in Nat /\ deliveries[m].submitted_at \in Nat
        /\ deliveries[n].sequence \in Nat /\ deliveries[n].submitted_at \in Nat
        /\ m \in Nat /\ n \in Nat
    BY RecordedAttempts
  <2>2. m \in M <=> arrived_before(m, n)
    OBVIOUS
  <2>3. CASE deliveries[m].milestone # i
    BY <2>2, <2>3 DEF arrived_before
  <2>4. CASE deliveries[m].milestone = i
    <3>1. /\ \/ deliveries[m].sequence = deliveries[n].sequence
             \/ deliveries[m].submitted_at = deliveries[n].submitted_at
             => m = n
          /\ deliveries[m].sequence < deliveries[n].sequence
             => deliveries[m].submitted_at < deliveries[n].submitted_at
          /\ deliveries[n].sequence < deliveries[m].sequence
             => deliveries[n].submitted_at < deliveries[m].submitted_at
      BY <2>4, RecordedAttempts
    <3>2. arrived_before(m, n) <=> deliveries[m].submitted_at < deliveries[n].submitted_at
      BY <2>1, <2>4, <3>1 DEF arrived_before
    <3>3. deliveries[m].submitted_at < deliveries[n].submitted_at
          <=> deliveries[m].sequence < deliveries[n].sequence
      BY <2>1, <3>1
    <3> QED
      BY <1>1, <2>2, <2>4, <3>2, <3>3
  <2> QED
    BY <2>3, <2>4
<1>3. IsFiniteSet(M)
  <2>1. M \in SUBSET DOMAIN deliveries /\ IsFiniteSet(DOMAIN deliveries)
    BY RecordedAttempts
  <2> QED
    BY <2>1, FS_Subset
<1>4. \A m \in M : m \in DOMAIN deliveries /\ deliveries[m].milestone = i
                   /\ deliveries[m].sequence \in 0 .. q - 1
  BY <1>1, <1>2, RecordedAttempts
<1> HIDE DEF M
<1>5. f \in Injection(M, 0 .. q - 1)
  <2>1. \A m, k \in M : deliveries[m].sequence = deliveries[k].sequence => m = k
    BY <1>4, RecordedAttempts
  <2> QED
    BY <1>4, <2>1 DEF Injection, IsInjective
<1>6. f \in Surjection(M, 0 .. q - 1)
  <2>1. ASSUME NEW p \in 0 .. q - 1 PROVE \E m \in M : deliveries[m].sequence = p
    <3>1. deliveries[n] \in attempts
      BY RecordedAttempts
    <3>2. q < milestone_submitted[i]
      BY <1>1, <3>1 DEF EvidenceInv, Numbered
    <3>3. milestone_submitted[i] \in Nat /\ p \in Nat /\ p < q
      BY <1>1, <2>1 DEF EvidenceInv, TypeInv, TypeOK
    <3>4. PICK t \in attempts : t.milestone = i /\ t.sequence = p
      BY <1>1, <3>2, <3>3 DEF EvidenceInv, Numbered
    <3>5. PICK m \in DOMAIN deliveries : deliveries[m] = t
      BY <3>4 DEF complete
    <3> QED
      BY <1>2, <3>3, <3>4, <3>5
  <2> QED
    BY <1>4, <2>1 DEF Surjection
<1>7. ExistsBijection(M, 0 .. q - 1)
  BY <1>5, <1>6 DEF ExistsBijection, Bijection
<1>8. Cardinality(0 .. q - 1) = q
  <2>1. 0 \in Int /\ q - 1 \in Int
    BY <1>1
  <2>2. Cardinality(0 .. q - 1) = IF 0 > q - 1 THEN 0 ELSE q - 1 - 0 + 1
    BY <2>1, FS_Interval
  <2> QED
    BY <1>1, <2>2
<1>9. Cardinality(M) = q
  BY <1>3, <1>7, <1>8, FS_Bijection
<1> QED
  BY <1>1, <1>9 DEF place, M

(* There is a least of any numbers.                                        *)
LEMMA LeastNumber ==
    ASSUME NEW S \in SUBSET Nat, S # {} PROVE \E m \in S : \A n \in S : m <= n
<1>1. PICK m \in S : \A n \in S : <<n, m>> \notin OpToRel(<, Nat)
  BY NatLessThanWellFounded, WFMin
<1>2. \A n \in S : n \in Nat /\ m \in Nat /\ ~(n < m)
  BY <1>1 DEF OpToRel
<1>3. \A n \in S : m <= n
  BY <1>2
<1> QED
  BY <1>3

(* Of an agent's recorded deliveries one came first.                       *)
LEMMA FirstRecorded ==
    ASSUME EvidenceInv, NEW i \in Milestones, NEW a \in Agents, complete(i),
           recorded_of(i, a) # {}
    PROVE  \E n \in recorded_of(i, a) :
              \A m \in recorded_of(i, a) : m = n \/ arrived_before(n, m)
<1> DEFINE R == recorded_of(i, a)
           T == { deliveries[n].submitted_at : n \in R }
<1>1. \A n \in R : /\ n \in DOMAIN deliveries /\ deliveries[n].milestone = i
                   /\ deliveries[n].submitted_at \in Nat
  BY RecordedAttempts DEF recorded_of
<1>2. T \in SUBSET Nat /\ T # {}
  BY <1>1
<1>3. PICK first \in T : \A t \in T : first <= t
  BY <1>2, LeastNumber
<1>4. PICK n \in R : deliveries[n].submitted_at = first
  BY <1>3
<1>5. ASSUME NEW m \in R PROVE m = n \/ arrived_before(n, m)
  <2>1. deliveries[n].submitted_at <= deliveries[m].submitted_at
    BY <1>3, <1>4, <1>5
  <2>2. deliveries[n].submitted_at = deliveries[m].submitted_at => m = n
    BY <1>1, <1>5, RecordedAttempts
  <2> QED
    BY <1>1, <1>5, <2>1, <2>2 DEF arrived_before
<1> QED
  BY <1>4, <1>5

(* Where every delivery of a milestone is recorded, a start of the server  *)
(* gives each agent the row of an attempt of its own                       *)
(* (CompleteBackfillExact).                                                *)
THEOREM BackfillIsExact == EvidenceSpec => CompleteBackfillExact
<1>1. EvidenceInv /\ [EvidenceNext]_evars =>
      [ OpenDatabase =>
          \A i \in Milestones, a \in Agents :
            /\ complete(i)
            /\ delivery_history[i][a].last_state = "Empty"
            /\ delivery_history'[i][a].last_state # "Empty"
            => names_attempt(i, a, delivery_history'[i][a].sequence) ]_evars
  <2> SUFFICES ASSUME EvidenceInv, OpenDatabase, NEW i \in Milestones, NEW a \in Agents,
                      complete(i), delivery_history[i][a].last_state = "Empty",
                      delivery_history'[i][a].last_state # "Empty"
               PROVE  names_attempt(i, a, delivery_history'[i][a].sequence)
    OBVIOUS
  <2> DEFINE n == CHOOSE n \in recorded_of(i, a) :
                     \A m \in recorded_of(i, a) : m = n \/ arrived_before(n, m)
  <2>1. delivery_history'[i][a] = backfilled(i, a)
    BY DEF OpenDatabase
  <2>2. /\ recorded_of(i, a) # {}
        /\ backfilled(i, a) = [ last_state |-> "Pending", sequence |-> place(n),
                                evidence |-> deliveries[n].sequence ]
    BY <2>1 DEF backfilled
  <2>3. n \in recorded_of(i, a)
    BY <2>2, FirstRecorded
  <2>4. n \in DOMAIN deliveries /\ deliveries[n].milestone = i /\ deliveries[n].agent = a
    BY <2>3 DEF recorded_of
  <2> HIDE DEF n
  <2>5. delivery_history'[i][a].sequence = deliveries[n].sequence
    BY <2>1, <2>2, <2>4, PlaceIsNumber
  <2>6. deliveries[n] \in attempts
    BY <2>4, RecordedAttempts
  <2> QED
    BY <2>4, <2>5, <2>6 DEF names_attempt
<1> QED
  BY <1>1, EvidenceAlways, PTL DEF EvidenceSpec, CompleteBackfillExact

-----------------------------------------------------------------------------
(***************************************************************************)
(* The words of a commission.                                              *)
(*                                                                         *)
(* The chain counts a delivery in before it can count it as unresolved, so *)
(* what is unresolved when an edit is written came in after the chain was  *)
(* asked.  And while one request is in flight, nobody else can have put    *)
(* another wording in the row it read.                                     *)
(***************************************************************************)

Patches ==
    [ phase : {"Idle", "Asking", "Permitted"}, existing : [Fields -> Nat], checked : Nat ]

AmendTypeOK ==
    /\ wording \in [Fields -> Nat] /\ edits \in Nat
    /\ patch \in [Requests -> Patches]

NothingWaited ==
    \A r \in Requests :
        patch[r].phase = "Permitted" => unresolved_submissions <= submissions - patch[r].checked

AmendInv == TypeInv /\ AmendTypeOK /\ NothingWaited

\* No request is under way at first.
LEMMA InitAmend == AmendInit => AmendInv
<1> SUFFICES ASSUME AmendInit PROVE AmendInv
  OBVIOUS
<1>1. TypeInv
  BY InitTypeInv DEF AmendInit
<1>2. Idle \in Patches /\ NoText \in [Fields -> Nat]
  BY DEF Idle, NoText, Patches
<1>3. AmendTypeOK
  BY <1>2 DEF AmendInit, AmendTypeOK
<1>4. NothingWaited
  BY DEF AmendInit, NothingWaited, Idle
<1> QED
  BY <1>1, <1>3, <1>4 DEF AmendInv

(* The counter of unresolved deliveries grows no faster than the other.    *)
LEMMA DeliveriesCounted ==
    ASSUME TypeOK, [Next]_vars
    PROVE  unresolved_submissions' + submissions <= unresolved_submissions + submissions'
<1>0. unresolved_submissions \in Nat /\ submissions \in Nat
  BY DEF TypeOK
<1>1. ASSUME UNCHANGED <<submissions, unresolved_submissions>>
      PROVE  unresolved_submissions' + submissions <= unresolved_submissions + submissions'
  BY <1>0, <1>1
<1>2. CASE \/ Tick \/ InitConfig \/ CloseVault \/ Donate \/ UNCHANGED vars
           \/ \E p \in BOOLEAN : SetPaused(p)
           \/ \E o \in Offers : CreateCommission(o)
           \/ \E k \in Agents \union {Creator} : InviteAgent(k)
           \/ \E byCreator \in BOOLEAN : Cancel(byCreator)
  <2>1. UNCHANGED queue
    BY <1>2 DEF Tick, InitConfig, CloseVault, Donate, vars, SetPaused, CreateCommission,
       may_create,
                InviteAgent, Cancel
  <2> QED
    BY <1>1, <2>1 DEF queue
<1>3. ASSUME NEW b \in Backers, BackerStep(b)
      PROVE  unresolved_submissions' + submissions <= unresolved_submissions + submissions'
  <2>1. UNCHANGED queue
    BY <1>3 DEF BackerStep, Pledge, Refund, ClosePledge, may_close_pledge
  <2> QED
    BY <1>1, <2>1 DEF queue
<1>4. ASSUME NEW a \in Agents, SignalIntent(a) \/ WithdrawIntent(a) \/ CloseIntent(a)
      PROVE  unresolved_submissions' + submissions <= unresolved_submissions + submissions'
  <2>1. UNCHANGED queue
    BY <1>4 DEF SignalIntent, WithdrawIntent, CloseIntent
  <2> QED
    BY <1>1, <2>1 DEF queue
<1>5. ASSUME NEW i \in Milestones, NEW a \in Agents,
             \/ SubmitDelivery(i, a) \/ RejectDelivery(i, a) \/ CloseSubmission(i, a)
             \/ \E byCreator \in BOOLEAN : ReleaseMilestone(i, a, byCreator)
      PROVE  unresolved_submissions' + submissions <= unresolved_submissions + submissions'
  <2>1. CASE SubmitDelivery(i, a)
    BY <1>0, <2>1 DEF SubmitDelivery, may_submit
  <2>2. CASE ~SubmitDelivery(i, a)
    <3>1. /\ submissions' = submissions
          /\ \/ unresolved_submissions' = less_one(unresolved_submissions)
             \/ unresolved_submissions' = unresolved_submissions
      BY <1>5, <2>2 DEF RejectDelivery, CloseSubmission, may_close_submission,
         unresolved_without, ReleaseMilestone
    <3> QED
      BY <1>0, <3>1 DEF less_one
  <2> QED
    BY <2>1, <2>2
<1> QED
  BY <1>2, <1>3, <1>4, <1>5 DEF Next, AgentStep

(* Editing leaves the chain alone.                                         *)
LEMMA AmendChain == [AmendNext]_avars => [Next]_vars
  BY DEF AmendNext, CommissionStep, PostText, BeginPatch, ReadChain, PatchFails, WritePatch,
         ServerStops, avars

\* Every step of the chain or of a request keeps it.
LEMMA StepAmend == AmendInv /\ [AmendNext]_avars => AmendInv'
<1> SUFFICES ASSUME AmendInv, [AmendNext]_avars PROVE AmendInv'
  OBVIOUS
<1>1. TypeInv'
  BY AmendChain, StepTypeInv DEF AmendInv
<1>2. Idle \in Patches
  BY DEF Idle, NoText, Patches
<1>3. /\ unresolved_submissions \in Nat /\ submissions \in Nat
      /\ unresolved_submissions' \in Nat /\ submissions' \in Nat
  BY <1>1 DEF AmendInv, TypeInv, TypeOK
<1>4. /\ wording \in [Fields -> Nat] /\ edits \in Nat /\ patch \in [Requests -> Patches]
      /\ \A r \in Requests : patch[r].checked \in Nat /\ patch[r].existing \in [Fields -> Nat]
  BY DEF AmendInv, AmendTypeOK, Patches
<1>5. CASE CommissionStep \/ UNCHANGED avars
  <2>1. UNCHANGED text_vars
    BY <1>5 DEF CommissionStep, avars
  <2>2. unresolved_submissions' + submissions <= unresolved_submissions + submissions'
    BY AmendChain, DeliveriesCounted DEF AmendInv, TypeInv
  <2>3. NothingWaited'
    <3> SUFFICES ASSUME NEW r \in Requests, patch[r].phase = "Permitted"
                 PROVE  unresolved_submissions' <= submissions' - patch[r].checked
      BY <2>1 DEF NothingWaited, text_vars
    <3>1. unresolved_submissions <= submissions - patch[r].checked
      BY DEF AmendInv, NothingWaited
    <3> QED
      BY <1>3, <1>4, <2>2, <3>1
  <2> QED
    BY <1>1, <2>1, <2>3 DEF AmendInv, AmendTypeOK, text_vars
<1>6. CASE PostText
  BY <1>1, <1>4, <1>6 DEF PostText, AmendInv, AmendTypeOK, NothingWaited, vars, queue
<1>7. ASSUME NEW r \in Requests, BeginPatch(r) \/ ReadChain(r) \/ PatchFails(r)
      PROVE  AmendInv'
  <2>1. UNCHANGED <<vars, wording, edits>>
    BY <1>7 DEF BeginPatch, ReadChain, PatchFails
  <2>2. PICK p \in Patches :
           /\ patch' = [patch EXCEPT ![r] = p]
           /\ p.phase = "Permitted" => mayAmend /\ p.checked = submissions
    <3>1. CASE BeginPatch(r)
      <4>1. [ phase |-> "Asking", existing |-> wording, checked |-> 0 ] \in Patches
        BY <1>4 DEF Patches
      <4> QED
        BY <3>1, <4>1 DEF BeginPatch
    <3>2. CASE ReadChain(r) /\ mayAmend
      <4>1. [patch[r] EXCEPT !.phase = "Permitted", !.checked = submissions] \in Patches
        BY <1>3, <1>4 DEF Patches
      <4>2. [patch[r] EXCEPT !.phase = "Permitted", !.checked = submissions].checked
            = submissions
        BY <1>4 DEF Patches
      <4> QED
        BY <3>2, <4>1, <4>2 DEF ReadChain
    <3>3. CASE (ReadChain(r) /\ ~mayAmend) \/ PatchFails(r)
      BY <1>2, <3>3 DEF ReadChain, PatchFails, Idle
    <3> QED
      BY <1>7, <3>1, <3>2, <3>3
  <2>3. \A s \in Requests : patch'[s] = IF s = r THEN p ELSE patch[s]
    BY <1>4, <2>2
  <2>4. AmendTypeOK'
    BY <1>4, <2>1, <2>2 DEF AmendTypeOK
  <2>5. mayAmend => unresolved_submissions = 0
    BY DEF mayAmend
  <2>6. NothingWaited'
    BY <1>3, <2>1, <2>2, <2>3, <2>5 DEF NothingWaited, AmendInv, vars, queue
  <2> QED
    BY <1>1, <2>4, <2>6 DEF AmendInv
<1>8. ASSUME NEW r \in Requests, NEW fields \in SUBSET Fields, WritePatch(r, fields)
      PROVE  AmendInv'
  <2>1. amendmentRecord(r, fields) \in [Fields -> Nat] /\ edits' \in Nat
    BY <1>4, <1>8 DEF amendmentRecord, WritePatch
  <2>2. AmendTypeOK'
    BY <1>2, <1>4, <1>8, <2>1 DEF WritePatch, AmendTypeOK
  <2>3. \A s \in Requests : patch'[s] = IF s = r THEN Idle ELSE patch[s]
    BY <1>4, <1>8 DEF WritePatch
  <2>4. NothingWaited'
    BY <1>8, <2>3 DEF WritePatch, NothingWaited, AmendInv, Idle, vars, queue
  <2> QED
    BY <1>1, <2>2, <2>4 DEF AmendInv
<1>9. CASE ServerStops
  <2>1. patch' = [r \in Requests |-> Idle]
    BY <1>9 DEF ServerStops
  <2> QED
    BY <1>1, <1>2, <1>4, <1>9, <2>1 DEF ServerStops, AmendInv, AmendTypeOK, NothingWaited, Idle
<1> QED
  BY <1>5, <1>6, <1>7, <1>8, <1>9 DEF AmendNext

\* So it holds in every state.
LEMMA AmendAlways == AmendSpec => []AmendInv
  BY InitAmend, StepAmend, PTL DEF AmendSpec

(* A wording in the row is replaced by an edit only, and leaves the chain  *)
(* where it was.                                                           *)
LEMMA OnlyEditsAmend ==
    ASSUME [AmendNext]_avars, amends(wording, wording')
    PROVE  \E r \in Requests, fields \in SUBSET Fields : WritePatch(r, fields)
  BY DEF amends, AmendNext, CommissionStep, PostText, BeginPatch, ReadChain, PatchFails,
         ServerStops, avars, text_vars

(* However many edits are in flight, none is written under a delivery that *)
(* already waited when the chain was asked (mayAmend).                     *)
THEOREM EditsSpareDeliveries ==
    AmendSpec =>
        [][ amends(wording, wording') =>
              \A r \in Requests :
                 patch[r].phase = "Permitted" /\ patch'[r].phase = "Idle"
                 => unresolved_submissions <= submissions - patch[r].checked ]_avars
<1>1. AmendInv =>
      [ amends(wording, wording') =>
          \A r \in Requests :
             patch[r].phase = "Permitted" /\ patch'[r].phase = "Idle"
             => unresolved_submissions <= submissions - patch[r].checked ]_avars
  BY DEF AmendInv, NothingWaited
<1> QED
  BY <1>1, AmendAlways, PTL

\* What a request read is in the row still.
ReadIsCurrent ==
    \A r \in Requests :
        patch[r].phase # "Idle" => patch[r].existing = wording /\ wording # NoText

\* A request that is alone writes over what it read, and nothing newer.
LEMMA OneRequestReads ==
    ASSUME \A r, s \in Requests : r = s
    PROVE  AmendSpec => []ReadIsCurrent
<1>1. AmendInit => ReadIsCurrent
  BY DEF AmendInit, ReadIsCurrent, Idle
<1>2. AmendInv /\ ReadIsCurrent /\ [AmendNext]_avars => ReadIsCurrent'
  <2> SUFFICES ASSUME AmendInv, ReadIsCurrent, [AmendNext]_avars PROVE ReadIsCurrent'
    OBVIOUS
  <2>0. patch \in [Requests -> Patches]
    BY DEF AmendInv, AmendTypeOK
  <2>1. CASE CommissionStep \/ UNCHANGED avars
    BY <2>1 DEF CommissionStep, avars, text_vars, ReadIsCurrent
  <2>2. CASE ServerStops
    BY <2>2 DEF ServerStops, ReadIsCurrent, Idle
  <2>3. ASSUME NEW r \in Requests, BeginPatch(r) \/ ReadChain(r) \/ PatchFails(r)
        PROVE  ReadIsCurrent'
    <3>1. wording' = wording
      BY <2>3 DEF BeginPatch, ReadChain, PatchFails
    <3>2. patch'[r].phase # "Idle" => patch'[r].existing = wording /\ wording # NoText
      <4>1. CASE BeginPatch(r)
        BY <2>0, <4>1 DEF BeginPatch
      <4>2. CASE ReadChain(r)
        <5>1. patch[r].phase # "Idle"
          BY <4>2 DEF ReadChain
        <5>2. patch'[r].existing = patch[r].existing \/ patch'[r] = Idle
          BY <2>0, <4>2 DEF ReadChain, Patches
        <5> QED
          BY <5>1, <5>2 DEF Idle, ReadIsCurrent
      <4>3. CASE PatchFails(r)
        BY <2>0, <4>3 DEF PatchFails, Idle
      <4> QED
        BY <2>3, <4>1, <4>2, <4>3
    <3> QED
      BY <3>1, <3>2 DEF ReadIsCurrent
  <2>4. ASSUME NEW r \in Requests, NEW fields \in SUBSET Fields, WritePatch(r, fields)
        PROVE  ReadIsCurrent'
    <3>1. patch'[r].phase = "Idle"
      BY <2>0, <2>4 DEF WritePatch, Idle
    <3> QED
      BY <3>1 DEF ReadIsCurrent
  <2>5. CASE PostText
    BY <2>5 DEF PostText, ReadIsCurrent
  <2> QED
    BY <2>1, <2>2, <2>3, <2>4, <2>5 DEF AmendNext
<1> QED
  BY <1>1, <1>2, AmendAlways, PTL DEF AmendSpec

(* Where one request of the creator is in flight at a time, no wording     *)
(* leaves the row without being in the archive, and none leaves it under a *)
(* delivery that waited (AmendmentsKeepFaith).  With two in flight the     *)
(* first of these fails, as the run lost_wording shows.                    *)
THEOREM AmendmentsAreFaithful ==
    ASSUME \A r, s \in Requests : r = s
    PROVE  AmendSpec => AmendmentsKeepFaith
<1>1. AmendInv /\ ReadIsCurrent /\ [AmendNext]_avars =>
      [ amends(wording, wording') =>
          /\ wording \in archive'
          /\ \A r \in Requests :
                patch[r].phase = "Permitted" /\ patch'[r].phase = "Idle"
                => unresolved_submissions <= submissions - patch[r].checked ]_avars
  <2> SUFFICES ASSUME AmendInv, ReadIsCurrent, [AmendNext]_avars, amends(wording, wording')
               PROVE  wording \in archive'
    BY DEF AmendInv, NothingWaited
  <2>1. PICK r \in Requests, fields \in SUBSET Fields : WritePatch(r, fields)
    BY OnlyEditsAmend
  <2>2. patch[r].existing = wording
    BY <2>1 DEF WritePatch, ReadIsCurrent
  <2> QED
    BY <2>1, <2>2 DEF WritePatch, superseded
<1> QED
  BY <1>1, AmendAlways, OneRequestReads, PTL DEF AmendSpec, AmendmentsKeepFaith
=============================================================================
