------------------------------- MODULE TxApi -------------------------------
(***************************************************************************)
(* Unsigned transactions: the instruction builders of shared/escrow.js, the*)
(* accounts each handler of program/src/lib.rs takes, and the two doors of *)
(* server/server.js built on them - what GET /api/v1/commissions says a    *)
(* wallet may do, and what POST /api/v1/tx/:action builds.                 *)
(*                                                                         *)
(* An account is named by what its address is derived from.  Of the data   *)
(* of an instruction only what no account tells is kept: the milestone of  *)
(* SubmitDelivery and the terms of CreateCommission.                       *)
(***************************************************************************)
EXTENDS ClientRules

Wallet(w) == <<"wallet", w>>
configPda == <<"config">>
commissionPda == <<"commission">>
vaultPda == <<"vault">>
treasury == <<"treasury">>
systemProgram == <<"system">>
pledgePda(b) == <<"pledge", b>>
submissionPda(i, a) == <<"submission", i, a>>
intentPda(a) == <<"intent", a>>

meta(account, isSigner, isWritable) ==
    [ account |-> account, isSigner |-> isSigner, isWritable |-> isWritable ]
Signs(account) == meta(account, TRUE, FALSE)
Pays(account) == meta(account, TRUE, TRUE)
Reads(account) == meta(account, FALSE, FALSE)
Writes(account) == meta(account, FALSE, TRUE)

ix(name, data, keys) == [ name |-> name, data |-> data, keys |-> keys ]

-----------------------------------------------------------------------------
(* The builders.  w signs, or is the wallet paid where nobody need sign; a *)
(* is the other wallet named, i the milestone.                             *)

build_createCommission(w, o) ==
    ix("createCommission", o, << Pays(Wallet(w)), Reads(configPda), Writes(commissionPda),
                                 Writes(vaultPda), Reads(systemProgram) >>)
build_pledge(w) ==
    ix("pledge", 0, << Pays(Wallet(w)), Reads(configPda), Writes(commissionPda),
                       Writes(pledgePda(w)), Writes(vaultPda), Reads(systemProgram) >>)
build_inviteAgent(w, a) ==
    ix("inviteAgent", 0, << Signs(Wallet(w)), Writes(commissionPda), Reads(Wallet(a)) >>)
build_signalIntent(w) ==
    ix("signalIntent", 0, << Pays(Wallet(w)), Writes(commissionPda),
                             Writes(intentPda(w)), Reads(systemProgram) >>)
build_withdrawIntent(w) ==
    ix("withdrawIntent", 0, << Signs(Wallet(w)), Writes(commissionPda), Writes(intentPda(w)) >>)
build_submitDelivery(w, i) ==
    ix("submitDelivery", i, << Pays(Wallet(w)), Writes(commissionPda),
                               Writes(submissionPda(i, w)), Reads(systemProgram) >>)

\* SLIP: the account of the wallet that signs, not of the agent to be judged.
build_rejectDelivery_signer(w, a, i) ==
    ix("rejectDelivery", 0, << Signs(Wallet(w)), Writes(commissionPda),
                               Writes(submissionPda(i, w)) >>)

build_rejectDelivery(w, a, i) ==
    ix("rejectDelivery", 0, << Signs(Wallet(w)), Writes(commissionPda),
                               Writes(submissionPda(i, a)) >>)
build_releaseMilestone(w, a, i) ==
    ix("releaseMilestone", 0, << Signs(Wallet(w)), Writes(commissionPda),
                                 Writes(submissionPda(i, a)), Writes(vaultPda),
                                 Writes(Wallet(a)), Writes(treasury) >>)
build_refund(w) ==
    ix("refund", 0, << Pays(Wallet(w)), Writes(commissionPda), Writes(pledgePda(w)),
                       Writes(vaultPda), Writes(treasury) >>)
build_cancel(w) == ix("cancel", 0, << Signs(Wallet(w)), Writes(commissionPda) >>)
build_closePledge(b) ==
    ix("closePledge", 0, << Writes(Wallet(b)), Writes(commissionPda), Writes(pledgePda(b)) >>)
build_closeVault(w) ==
    ix("closeVault", 0, << Signs(Wallet(w)), Writes(commissionPda), Writes(vaultPda),
                           Writes(Wallet(Creator)) >>)
build_closeSubmission(a, i) ==
    ix("closeSubmission", 0, << Writes(Wallet(a)), Writes(commissionPda),
                                Writes(submissionPda(i, a)) >>)
build_closeIntent(a) ==
    ix("closeIntent", 0, << Writes(Wallet(a)), Writes(commissionPda), Writes(intentPda(a)) >>)

-----------------------------------------------------------------------------
(* The program reads its accounts in order and acts for the wallet and on  *)
(* the records it finds there.                                             *)

account(tx, n) == tx.keys[n].account
signed(tx, n, w) == account(tx, n) = Wallet(w) /\ tx.keys[n].isSigner
changes(tx, places) == \A n \in places : tx.keys[n].isWritable
Wallets == {Creator} \union Backers \union Agents

\* The signer of a payment, and the delivery the accounts name.
pays_delivery(tx, w, i, a) ==
    /\ signed(tx, 1, w)
    /\ account(tx, 3) = submissionPda(i, a) /\ account(tx, 4) = vaultPda
    /\ account(tx, 5) = Wallet(a) /\ account(tx, 6) = treasury
    /\ changes(tx, 2 .. 6)

commission_place(tx) == IF tx.name \in {"createCommission", "pledge"} THEN 3 ELSE 2

\* The accounts pass the handler's own section, and the instruction its guard for them.
passes(tx) ==
    /\ account(tx, commission_place(tx)) = commissionPda
    /\ CASE tx.name = "createCommission" ->
             /\ signed(tx, 1, Creator) /\ account(tx, 2) = configPda
             /\ account(tx, 4) = vaultPda /\ account(tx, 5) = systemProgram
             /\ changes(tx, {1, 3, 4}) /\ may_create(tx.data)
        [] tx.name = "pledge" ->
             /\ account(tx, 2) = configPda /\ account(tx, 5) = vaultPda
             /\ account(tx, 6) = systemProgram /\ changes(tx, {1, 3, 4, 5})
             /\ \E b \in Backers : signed(tx, 1, b) /\ account(tx, 4) = pledgePda(b)
             /\ \E amount \in PledgeAmounts : may_pledge(amount)
        [] tx.name = "inviteAgent" ->
             /\ signed(tx, 1, Creator) /\ changes(tx, {2})
             /\ \E k \in Agents \union {Creator} : account(tx, 3) = Wallet(k)
             /\ status \in {"Funding", "Funded"}
        [] tx.name = "signalIntent" ->
             /\ account(tx, 4) = systemProgram /\ changes(tx, {1, 2, 3})
             /\ \E a \in Agents :
                   signed(tx, 1, a) /\ account(tx, 3) = intentPda(a) /\ workable(a)
        [] tx.name = "withdrawIntent" ->
             \E a \in Agents : /\ signed(tx, 1, a) /\ changes(tx, {3})
                               /\ account(tx, 3) = intentPda(a) /\ intent[a] # "Empty"
        [] tx.name = "submitDelivery" ->
             /\ account(tx, 4) = systemProgram /\ changes(tx, {1, 2, 3})
             /\ \E a \in Agents, i \in Milestones :
                   /\ signed(tx, 1, a) /\ tx.data = i
                   /\ account(tx, 3) = submissionPda(i, a) /\ may_submit(i, a)
        [] tx.name = "rejectDelivery" ->
             /\ signed(tx, 1, Creator) /\ changes(tx, {2, 3})
             /\ \E a \in Agents, i \in Milestones :
                   account(tx, 3) = submissionPda(i, a) /\ may_reject(i, a)
        [] tx.name = "releaseMilestone" ->
             \E w \in Wallets, a \in Agents, i \in Milestones :
                /\ pays_delivery(tx, w, i, a) /\ may_release(i, a, w = Creator)
                /\ vault_lamports >= gross_of(i)
        [] tx.name = "refund" ->
             /\ account(tx, 4) = vaultPda /\ account(tx, 5) = treasury /\ changes(tx, 1 .. 5)
             /\ \E b \in Backers :
                   /\ signed(tx, 1, b) /\ account(tx, 3) = pledgePda(b)
                   /\ may_refund(b) /\ vault_lamports >= refund_amount(b)
        [] tx.name = "cancel" ->
             \E w \in Wallets : signed(tx, 1, w) /\ changes(tx, {2}) /\ may_cancel(w = Creator)
        [] tx.name = "closePledge" ->
             \E b \in Backers : /\ account(tx, 1) = Wallet(b) /\ changes(tx, 1 .. 3)
                                /\ account(tx, 3) = pledgePda(b) /\ may_close_pledge(b)
        [] tx.name = "closeVault" ->
             /\ \E w \in Wallets : signed(tx, 1, w)
             /\ account(tx, 3) = vaultPda /\ account(tx, 4) = Wallet(Creator)
             /\ changes(tx, {3, 4}) /\ vault_owned /\ vault_settled
        [] tx.name = "closeSubmission" ->
             \E a \in Agents, i \in Milestones :
                /\ account(tx, 1) = Wallet(a) /\ account(tx, 3) = submissionPda(i, a)
                /\ changes(tx, 1 .. 3) /\ may_close_submission(i, a)
        [] tx.name = "closeIntent" ->
             \E a \in Agents : /\ account(tx, 1) = Wallet(a) /\ account(tx, 3) = intentPda(a)
                               /\ changes(tx, {1, 3}) /\ intent[a] # "Empty" /\ intent_over(a)
        [] OTHER -> FALSE

\* The program would carry it out; the transaction is worked out once.
Accepts(tx) == \E built \in {tx} : passes(built)

-----------------------------------------------------------------------------
(* The server's answer to "what can I do": GET /api/v1/commissions.         *)

\* presentCommission hands availableActions no submissions.
walletActions(w) == availableActions(decodeCommission, w, {}, now)

\* What a milestone is said to pay, or to have paid, its agent.
milestonePayout(i) ==
    LET gross == mul_div(total_pledged, terms.milestone_bps[i], BPS_DENOMINATOR)
    IN  gross - (gross * FEE_BPS) \div BPS_DENOMINATOR

\* The delivery of each milestone that can be acted on, released ones not left out.
nextToJudge ==
    UNION { frontOfQueue(decodeCommission, submissionsFor, i) : i \in 1 .. milestone_count }

presentSubmission(c, s) ==
    [ agent |-> s.agent, milestoneIndex |-> s.milestoneIndex, state |-> s.state,
      queuePosition |-> s.sequence - c.milestoneRejected[s.milestoneIndex],
      releasableByAnyone |->
          /\ s.sequence = c.milestoneRejected[s.milestoneIndex]
          /\ reviewExpired(s, c.reviewWindow, now) ]

presentCommission(w) ==
    LET c == decodeCommission IN
    [ status |-> c.status, invitedAgent |-> c.invitedAgent,
      escrowRemaining |-> escrowRemaining(c),
      agentLamports |-> [i \in 1 .. milestone_count |-> milestonePayout(i)],
      expired |-> now >= c.deadline,
      openForWork |-> c.status = "funded" /\ ~workClosed(c, now),
      submissions |-> { presentSubmission(c, s) : s \in submissionsFor },
      nextToJudge |-> nextToJudge,
      refundFeeApplies |-> refundCarriesFee(c),
      reclaimable |-> reclaimableRent(c),
      walletActions |-> walletActions(w) ]

\* The commission, if the cluster has it.
GET_commission(w) == IF status = "Uncreated" THEN {} ELSE {presentCommission(w)}

\* Whether a query keeps a commission; w is the wallet it names.
kept_by(query, w, item) ==
    CASE query = "openForWork" -> item.openForWork
      [] query = "agent" -> w \in { s.agent : s \in item.submissions } \union
                                  {item.invitedAgent}
      [] query = "creator" -> w = Creator
      [] query = "openOnly" -> ~item.expired /\ item.status \in {"funding", "funded"}
      [] query = "actionable" -> item.walletActions # {}
      [] OTHER -> TRUE

GET_commissions(query, w) == { item \in GET_commission(w) : kept_by(query, w, item) }

-----------------------------------------------------------------------------
(* Its builders: POST /api/v1/tx/:action.                                  *)

Refused == ix("refused", 0, <<>>)
is_refused(tx) == tx.name = Refused.name

default_schedule(bps) == IF bps = <<>> THEN <<BPS_DENOMINATOR>> ELSE bps
zero_or_within(window, least, most) == window = 0 \/ window \in least .. most

\* Terms the API builds for; it has no word on MAX_COMMISSION_LAMPORTS.
tx_create_terms(o) ==
    /\ Len(o.milestone_bps) <= MAX_MILESTONES
    /\ \A i \in DOMAIN o.milestone_bps : o.milestone_bps[i] > 0
    /\ SumFunction(o.milestone_bps) = BPS_DENOMINATOR
    /\ o.goal >= BPS_DENOMINATOR
    /\ o.deadline > now /\ o.deadline <= now + MAX_FUNDING_DURATION
    /\ zero_or_within(o.work_window, MIN_WORK_WINDOW, MAX_WORK_WINDOW)
    /\ zero_or_within(o.review_window, MIN_REVIEW_WINDOW, MAX_REVIEW_WINDOW)

tx_create_commission(creator, o) ==
    LET terms_asked == [o EXCEPT !.milestone_bps = default_schedule(@)]
    IN  IF tx_create_terms(terms_asked) THEN build_createCommission(creator, terms_asked)
        ELSE Refused

\* The agent is read off the cached commission, which has no such field.
tx_release_milestone(creator, i) ==
    IF "agent" \in DOMAIN decodeCommission
    THEN build_releaseMilestone(creator, decodeCommission.agent, i)
    ELSE Refused

\* The body names neither agent nor milestone, and no key is made of nothing.
tx_reject_delivery(creator) == Refused

\* For the wallet that is to sign; data is the terms, agent or milestone of the body.
TX_BUILDERS(action, w, data) ==
    CASE action = "create-commission" -> tx_create_commission(w, data)
      [] action = "pledge" -> build_pledge(w)
      [] action = "invite-agent" -> build_inviteAgent(w, data)
      [] action = "signal-intent" -> build_signalIntent(w)
      [] action = "withdraw-intent" -> build_withdrawIntent(w)
      [] action = "submit-delivery" ->
           IF data \in Milestones THEN build_submitDelivery(w, data) ELSE Refused
      [] action = "close-submission" -> build_closeSubmission(w, data)
      [] action = "release-milestone" -> tx_release_milestone(w, data)
      [] action = "reject-delivery" -> tx_reject_delivery(w)
      [] action = "refund" -> build_refund(w)
      [] action = "cancel" -> build_cancel(w)
      [] action = "close-pledge" -> build_closePledge(w)
      [] action = "close-vault" -> build_closeVault(w)
      [] OTHER -> Refused

\* The first account pays for the transaction, so it signs and is charged.
POST_tx(action, w, data) ==
    LET built == TX_BUILDERS(action, w, data) IN
    IF is_refused(built) THEN built
    ELSE [built EXCEPT !.keys[1] = Pays(@.account)]
=============================================================================
