--------------------------- MODULE ClientPromises ---------------------------
(***************************************************************************)
(* What the shared rules, the builders, the API and the agent's command    *)
(* line promise of each other and of the program.                          *)
(***************************************************************************)
EXTENDS AgentCli, EscrowProperties

offers(w, t) == availableActions(decodeCommission, w, submissionsFor, t)
matured(t) ==
    { s \in fronts(decodeCommission, submissionsFor) : reviewExpired(s, terms.review_window, t) }

\* Offered by a clock that shows t, or by one that lags behind it.
offered(w, t) == UNION { offers(w, u) : u \in 0 .. t }
settled_by(w, t) ==
    UNION { settledForMe(decodeCommission, w, submissionsFor, u) : u \in 0 .. t }

judgeable_and_paid(s) ==
    /\ at_front(s.milestoneIndex, s.agent) /\ ~milestone_released(s.milestoneIndex)
    /\ refunded = 0 =>
          split_fee(gross_of(s.milestoneIndex)).net >= milestonePayout(s.milestoneIndex)

\* What the rules offer a wallet, sent through the API or by the builders.
RulesHonoured(w) ==
    /\ \A act \in offered(w, now) :
          /\ act = "cancel" => Accepts(POST_tx("cancel", w, 0))
          /\ act = "refund" /\ w \in live_pledges /\ status # "Delivered"
                => Accepts(POST_tx("refund", w, 0))
    /\ \A s \in settled_by(w, now) :
          Accepts(POST_tx("close-submission", w, s.milestoneIndex))
    /\ \A s \in matured(now) :
          refunded = 0 => Accepts(build_releaseMilestone(w, s.agent, s.milestoneIndex))
    /\ \A act \in offers(w, now) :
          /\ act = "rejectDelivery" =>
                \A s \in fronts(decodeCommission, submissionsFor) \ matured(now) :
                   Accepts(build_rejectDelivery(w, s.agent, s.milestoneIndex))
          /\ act = "inviteAgent" =>
                \A a \in Agents \union {Creator} : Accepts(POST_tx("invite-agent", w, a))
          /\ act = "closePledge" /\ w \in live_pledges
                => Accepts(POST_tx("close-pledge", w, 0))
          /\ act = "closeVault" /\ vault_owned => Accepts(POST_tx("close-vault", w, 0))

\* What the API shows of a commission, and what its listings leave out.
PagesHonoured(w) ==
    \A item \in GET_commission(w) :
      /\ \A s \in item.nextToJudge : judgeable_and_paid(s)
      /\ \A s \in item.submissions :
            /\ may_release(s.milestoneIndex, s.agent, FALSE) => s.releasableByAnyone
            /\ s.releasableByAnyone /\ refunded = 0
                  => may_release(s.milestoneIndex, s.agent, FALSE)
      /\ item.openForWork /\ w \in Agents \ {Creator} /\ item.invitedAgent \in {NoAgent, w}
            => Accepts(POST_tx("signal-intent", w, 0))
      /\ ~kept_by("actionable", w, item) =>
            \A action \in {"pledge", "refund", "cancel"} :
               ~Accepts(POST_tx(action, w, 0))
      /\ ~kept_by("openForWork", w, item) =>
            /\ ~Accepts(POST_tx("signal-intent", w, 0))
            /\ \A i \in Milestones : ~Accepts(POST_tx("submit-delivery", w, i))

\* What the agent's command line says can be collected.
CliHonoured(a) ==
    \A i \in Milestones :
      /\ may_release(i, a, FALSE) => claim(a, i) # {}
      /\ claim(a, i) # {} /\ refunded = 0 =>
            /\ Accepts(build_releaseMilestone(a, a, i))
            /\ << i, "claimable now" >> \in describe(a)

\* The terms the API builds for are the ones the program takes, but for its cap.
PostingHonoured ==
    config = "Open" =>
      \A o \in Offers :
        LET tx == POST_tx("create-commission", Creator, o) IN
        /\ is_refused(tx) => ~offer_accepted(o)
        /\ ~is_refused(tx) /\ o.goal <= MAX_COMMISSION_LAMPORTS => Accepts(tx)

(* availableActions, "what a given wallet is allowed to do right now": an  *)
(* exit, a matured payment or a deposit that it offers by any clock not    *)
(* ahead of the cluster's, built by the builders, the program carries out; *)
(* and a rejection or an invitation offered by the right clock.  The API   *)
(* names a delivery that the program would judge, a payment anyone may     *)
(* complete, and a payout that is paid in full while no backer took money  *)
(* out; "can I work on this right now" is the program's own answer, and    *)
(* its listings leave out no commission that a wallet could move.  What    *)
(* the agent's command line claims is paid, and all that can be paid it    *)
(* can claim.  And a commission is built for just the terms the program    *)
(* takes, the cap on its size left aside.                                  *)
OffersHonoured ==
    IF status = "Uncreated" THEN PostingHonoured
    ELSE /\ \A w \in Wallets : RulesHonoured(w) /\ PagesHonoured(w)
         /\ \A a \in Agents : CliHonoured(a)

\* The transactions an action stands for.
transactions(act, w) ==
    CASE act = "pledge" -> {build_pledge(w)}
      [] act = "signalIntent" -> {build_signalIntent(w)}
      [] act = "refund" -> {build_refund(w)}
      [] act = "cancel" -> {build_cancel(w)}
      [] act = "closeVault" -> {build_closeVault(w)}
      [] act = "closePledge" -> {build_closePledge(w)}
      [] act = "submitDelivery" -> { build_submitDelivery(w, i) : i \in Milestones }
      [] act = "closeSubmission" -> { build_closeSubmission(w, i) : i \in Milestones }
      [] act = "releaseMilestone" ->
           { build_releaseMilestone(w, a, i) : a \in Agents, i \in Milestones }
      [] act = "rejectDelivery" ->
           { build_rejectDelivery(w, a, i) : a \in Agents, i \in Milestones }

(* Nothing the program would do for a wallet is missing from the list, but *)
(* the two instructions about intents the browser never offers.            *)
NothingHidden ==
    status # "Uncreated" =>
      \A w \in Wallets :
        \A act \in { "pledge", "signalIntent", "refund", "cancel", "closeVault",
                     "closePledge", "submitDelivery", "closeSubmission",
                     "releaseMilestone", "rejectDelivery" } \ offers(w, now) :
          \A tx \in transactions(act, w) : ~Accepts(tx)

attention(w) == pendingAttention(decodeCommission, w, submissionsFor, now)

(* pendingAttention, "silence pays the agent, so not noticing is           *)
(* expensive": as long as the creator's silence can cost the escrow, the   *)
(* creator is told, and the agent that can collect is told.                *)
SilenceAnnounced ==
    \A i \in Milestones, a \in Agents :
      /\ may_release(i, a, TRUE) => attention(Creator) \in {"review", "claimable"}
      /\ may_release(i, a, FALSE) => attention(a) = "claimable"

collectable(a) == { i \in Milestones : may_release(i, a, FALSE) }
judged(a) == { << s.milestoneIndex, s.state >> : s \in mine_of(a) \ pending_mine(a) }

(* materialState, "an agent that announces something every eight seconds   *)
(* is one an operator stops reading - which costs them the one             *)
(* announcement that mattered": leaving out the countdowns leaves out no   *)
(* step that lets an agent work, judges it or lets it collect.             *)
NewsIsMaterial ==
    [][ status # "Uncreated" => \A a \in Agents :
          \/ collectable(a)' \ collectable(a) # {}
          \/ judged(a)' \ judged(a) # {}
          \/ open_to(a)' /\ ~open_to(a)
          => relevant(a)' /\ materialState(a)' # materialState(a) ]_vars
=============================================================================
