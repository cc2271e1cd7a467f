-------------------------- MODULE MirrorProperties --------------------------
(***************************************************************************)
(* What the mirror may tell: nothing the chain did not decide.             *)
(***************************************************************************)
EXTENDS ChainMirror

Seen == [ state : {"Empty", "Pending", "Rejected", "Released"},
          sequence : Nat, submitted_at : Nat ]
Scanned ==
    [ status : {"Uncreated", "Funding", "Funded", "Delivered", "Cancelled"},
      milestones_done : SUBSET Milestones,
      milestone_rejected : [Milestones -> Nat] ]
Rows == [ last_state : {"Empty", "Pending", "Rejected", "Released"},
          sequence : Nat, evidence : Nat ]
Kinds == {"delivery-rejected", "delivery-paid", "review-lapsed", "claimable",
          "delivery-waiting", "dispute-opened"}

(* The mirror's variables keep their types, whatever scans fail; the chain *)
(* behind it has its own invariant.                                        *)
MirrorTypeOK ==
    /\ verdicts \subseteq [ milestone : Milestones, agent : Agents, sequence : Nat,
                            state : {"Rejected", "Released"} ]
    /\ inflight \in BOOLEAN
    /\ read \subseteq {"commissions", "submissions"}
    /\ value \in Scanned /\ cached_value \in Scanned
    /\ accounts \in [Milestones -> [Agents -> Seen]]
    /\ cached_accounts \in [Milestones -> [Agents -> Seen]]
    /\ cached \in BOOLEAN /\ cached_at \in Nat
    /\ delivery_history \in [Milestones -> [Agents -> Rows]]
    /\ notifications \subseteq [ kind : Kinds, milestone : Milestones,
                                 agent : Agents, sequence : Nat ]
    /\ disputes \subseteq Pairs

ruled(i, a, q, s) ==
    [milestone |-> i, agent |-> a, sequence |-> q, state |-> s] \in verdicts

(* detectEvents: "You were paid" is told of no attempt the chain did not   *)
(* pay, although the payment is inferred from two counters that may have   *)
(* been read at another moment than the accounts.                          *)
PaidNoticeTrue ==
    \A n \in notifications :
        n.kind = "delivery-paid" => ruled(n.milestone, n.agent, n.sequence, "Released")

(* detectEvents: "Your delivery was refused" is told of no attempt that    *)
(* was not refused.                                                        *)
RefusedNoticeTrue ==
    \A n \in notifications :
        n.kind = "delivery-rejected"
        => ruled(n.milestone, n.agent, n.sequence, "Rejected")

(* POST /api/v1/disputes: a refusal on a creator's public record is        *)
(* contested only by an agent whom the chain refused on that milestone.    *)
DisputesGrounded ==
    \A p \in disputes : \E v \in verdicts :
        v.milestone = p[1] /\ v.agent = p[2] /\ v.state = "Rejected"

(* rememberDelivery: "every row is a verbatim observation" - a row with a  *)
(* verdict names an attempt that got it.                                   *)
RowsObserved ==
    \A i \in Milestones, a \in Agents :
        LET row == delivery_history[i][a] IN
        row.last_state \in {"Rejected", "Released"}
        => ruled(i, a, row.sequence, row.last_state)

(* detectEvents: nobody hears of a delivery that cannot be acted on; a     *)
(* place in a queue is announced only after every place ahead of it was    *)
(* refused, even when counters and queue were read at different moments.   *)
FrontNoticeTrue ==
    \A n \in notifications :
        n.kind \in {"delivery-waiting", "review-lapsed", "claimable"}
        => \A q \in 0 .. n.sequence - 1 :
               \E a \in Agents : ruled(n.milestone, a, q, "Rejected")

told(i, a, kind) ==
    \E n \in notifications : n.milestone = i /\ n.agent = a /\ n.kind = kind

(* settledState: an agent told it is paid is never told afterwards that    *)
(* the milestone refused it, nor may it contest, as long as the record     *)
(* names the paid attempt - although every later outcome is inferred anew. *)
PaidVerdictStands ==
    [][ \A n \in notifications :
          ( /\ n.kind = "delivery-paid"
            /\ delivery_history[n.milestone][n.agent].sequence = n.sequence )
          => /\ told(n.milestone, n.agent, "delivery-rejected")'
                 => told(n.milestone, n.agent, "delivery-rejected")
             /\ <<n.milestone, n.agent>> \notin disputes' \ disputes ]_mvars

(* Readers keep polling, the database refuses a write only some of the     *)
(* time, and the RPC nodes and the server fail only for so long.           *)
MirrorFairness ==
    /\ WF_mvars(StartScan)
    /\ WF_mvars(ReadCommissions) /\ WF_mvars(ReadSubmissions)
    /\ SF_mvars(FinishScan(TRUE, TRUE))
    /\ <>[][WorkingStep]_mvars
FairMirrorSpec == MirrorSpec /\ MirrorFairness

\* The attempt on record is judged, its agent is not at work on another account,
\* and no notice says how that attempt ended.
unheard(i, a) ==
    LET row == delivery_history[i][a]
        heard(kind) == \E n \in notifications :
            n.milestone = i /\ n.agent = a /\ n.kind = kind /\ n.sequence = row.sequence
    IN  /\ row.last_state # "Empty" /\ submission[i][a].state # "Pending"
        /\ \/ ruled(i, a, row.sequence, "Released") /\ ~heard("delivery-paid")
           \/ /\ ruled(i, a, row.sequence, "Rejected") /\ ~heard("delivery-rejected")
              /\ ~told(i, a, "delivery-rejected")

(* An agent whose attempt is on record hears how that attempt was judged,  *)
(* although its account may be gone before the next scan - unless it       *)
(* delivers again, or the record moves on to another attempt, first.  A    *)
(* refusal is told once per milestone: the key of server.js:523 names no   *)
(* attempt.  A payment is told whatever was told before it.                *)
VerdictReachesAgent == \A i \in Milestones, a \in Agents : []<>~unheard(i, a)
=============================================================================
