------------------------------ MODULE AgentCli ------------------------------
(***************************************************************************)
(* The command line of a working agent, _agent.cjs: it reads the chain by  *)
(* itself every few seconds, says what has changed, and collects what has  *)
(* matured.                                                                *)
(***************************************************************************)
EXTENDS TxApi

mine_of(a) == { s \in submissionsFor : s.agent = a }
pending_mine(a) == { s \in mine_of(a) : s.state = "Pending" }
ahead(s) == s.sequence - milestone_rejected[s.milestoneIndex]
expired(s) == reviewExpired(s, terms.review_window, now)

\* scan: what it would list.
open_to(a) == canWork(decodeCommission, a, now)

\* SLIP: where a delivery stands and how its clock runs are taken for countdowns.
materialState_unplaced(a) ==
    << decodeCommission.status, open_to(a),
       Cardinality({ s \in submissionsFor : s.state = "Pending" }), milestones_done,
       { << s.milestoneIndex, s.state >> : s \in mine_of(a) } >>

\* What is materially true: every countdown is left out.
materialState(a) ==
    << decodeCommission.status, open_to(a),
       Cardinality({ s \in submissionsFor : s.state = "Pending" }), milestones_done,
       { << s.milestoneIndex, s.state, IF ahead(s) > 0 THEN ahead(s) ELSE 0, expired(s) >> :
         s \in mine_of(a) } >>

\* watch: a commission is looked at, and announced when its state is another.
relevant(a) == open_to(a) \/ mine_of(a) # {}

\* The lines about deliveries of one's own.
describe(a) ==
    { << s.milestoneIndex, IF ahead(s) > 0 THEN "ahead of mine"
                           ELSE IF expired(s) THEN "claimable now" ELSE "in review" >> :
      s \in pending_mine(a) }

\* claim with the milestone named: what it sends a release for.
claim(a, i) ==
    { s \in pending_mine(a) : s.milestoneIndex = i /\ ahead(s) = 0 /\ expired(s) }
=============================================================================
