----------------------------- MODULE Settlement -----------------------------
(***************************************************************************)
(* The end of a commission and the deposits that come home after it:       *)
(* simpleAction, cleanupInstructions and send of client/app.js, and        *)
(* scripts/sweep-deposits.mjs, against what the program allows.            *)
(*                                                                         *)
(* One milestone is left and one delivery stands before the creator.  A    *)
(* browser puts the closes of every finished account into the payment's    *)
(* own transaction, which takes effect as a whole or not at all.  If that  *)
(* attempt fails, however it fails, it sends the payment alone.  Others    *)
(* pay, refund, sweep and close meanwhile, and deadlines pass.             *)
(***************************************************************************)
EXTENDS Naturals, SequencesExt

CONSTANTS
    Payers,         \* browsers that may send a payment
    Pledges,        \* pledge accounts not refunded yet
    Due,            \* the delivery at the front of the last milestone
    Judged,         \* deliveries refused, or of milestones won by another
    Superseded,     \* the latter, which were never judged
    Intents,        \* intent accounts
    MaySign,        \* per browser: release, as the creator, or collect, as anybody,
                    \* what the delivery earned; or a refund of its wallet's pledge
    Past,           \* deadlines behind the commission when the story begins
    BUNDLE_CAP,     \* closes one payment may carry
    SWEEP_BATCH     \* closes one sweep transaction carries

Claims == {Due} \union Judged \union Intents

ASSUME SettlementAssumption ==
    /\ Pledges # {} /\ Due \notin Judged \union Intents /\ Judged \intersect Intents = {}
    /\ Superseded \subseteq Judged
    /\ Pledges \intersect Claims = {}
    /\ {"vault", "release", "collect"} \intersect (Pledges \union Claims) = {}
    /\ MaySign \in [Payers -> SUBSET ({"release", "collect"} \union Pledges)]
    /\ Past \subseteq {"funding", "work"}
    /\ BUNDLE_CAP \in Nat \ {0} /\ SWEEP_BATCH \in Nat \ {0}

VARIABLES
    status,         \* of the commission: Funded, Cancelled, Delivered
    passed,         \* which of the Times are over
    unworthy,       \* the creator refused the delivery
    paid,           \* how often the money of each pledge left the vault
    deposits,       \* accounts still open
    desk,           \* what each browser is doing
    flying,         \* transactions submitted and not yet landed or expired
    sweep           \* the batches a sweep has still to send

settle_vars == <<status, passed, unworthy, paid, deposits, desk, flying, sweep>>
chain_vars == <<status, passed, unworthy, paid, deposits>>

\* The two deadlines, and what is counted from the delivery.
Times == {"funding", "work", "review", "grace"}

Deposits == {"vault"} \union Pledges \union Claims
AtRest == [ stage |-> "Idle", pays |-> "", closes |-> <<>> ]

SettlementInit ==
    /\ status = "Funded" /\ passed = Past /\ unworthy = FALSE
    /\ paid = [p \in Pledges |-> 0]
    /\ deposits = Deposits
    /\ desk = [w \in Payers |-> AtRest]
    /\ flying = {}
    /\ sweep = <<>>

-----------------------------------------------------------------------------
(* What the program does with a payment and its closes, in order.          *)

\* Unjudged work inside its review window and the grace after it.
claim_protected ==
    /\ "grace" \notin passed
    /\ \/ Due \in deposits /\ ~unworthy /\ status # "Delivered"
       \/ Superseded \intersect deposits # {}

\* The pledges whose money has been neither released nor refunded.
escrow_remaining(open, st) == IF st = "Delivered" THEN {} ELSE Pledges \intersect open

refundable ==
    \/ status = "Cancelled" \/ "work" \in passed
    \/ status = "Funded" /\ "funding" \in passed

\* The creator pays until the work window ends, and then what matured, like anybody.
too_early(a) == "review" \notin passed /\ (a = "collect" \/ "work" \in passed)

payable(a) ==
    /\ "vault" \in deposits
    /\ IF a \in Pledges
       THEN a \in deposits /\ refundable /\ ~claim_protected
       ELSE /\ Due \in deposits /\ ~unworthy /\ status # "Delivered" /\ ~too_early(a)
            /\ escrow_remaining(deposits, status) # {}

status_after(a) == IF a \in Pledges THEN status ELSE "Delivered"
\* A refund closes the pledge it pays back.
open_after(a) == IF a \in Pledges THEN deposits \ {a} ELSE deposits
taken_by(a) == escrow_remaining(deposits, status) \ escrow_remaining(open_after(a), status_after(a))

\* SLIP: a pledge is settled once its commission is over, paid back or not.
pledge_settled_if_over(open, st) == st \in {"Delivered", "Cancelled"}

pledge_settled(open, st) == st = "Delivered" /\ escrow_remaining(open, st) = {}

vault_settled(open, st) ==
    /\ escrow_remaining(open, st) = {} /\ st \in {"Delivered", "Cancelled"}
    /\ st = "Cancelled" => Pledges \intersect open = {}

\* Judged, left behind on a commission that ended, or past all its windows.
submission_settled(d, st) ==
    \/ d \in Judged \/ unworthy \/ st \in {"Delivered", "Cancelled"}
    \/ "work" \in passed /\ ~claim_protected

closable(d, open, st) ==
    /\ d \in open
    /\ \/ d = "vault" /\ vault_settled(open, st)
       \/ d \in Pledges /\ pledge_settled(open, st)
       \/ d \in {Due} \union Judged /\ submission_settled(d, st)
       \/ d \in Intents /\ (st \in {"Delivered", "Cancelled"} \/ "work" \in passed)

accepted(a, closes) ==
    /\ payable(a)
    /\ \A d \in Range(closes) : closable(d, open_after(a), status_after(a))

Land(tx) ==
    /\ accepted(tx.pays, tx.closes)
    /\ status' = status_after(tx.pays)
    /\ deposits' = open_after(tx.pays) \ Range(tx.closes)
    /\ paid' = [p \in Pledges |-> IF p \in taken_by(tx.pays) THEN paid[p] + 1 ELSE paid[p]]
    /\ UNCHANGED <<passed, unworthy>>

-----------------------------------------------------------------------------
(* The browser.                                                            *)

at_desk(w, stage) == desk[w].stage = stage
turn(w, d) == desk' = [desk EXCEPT ![w] = d]

account_order ==
    <<"vault">> \o SetToSeq(Pledges) \o SetToSeq(Judged) \o <<Due>> \o SetToSeq(Intents)

\* The vault is never looked at: its close is always among them.
finished == SelectSeq(account_order, LAMBDA d : d = "vault" \/ d \in deposits)

cleanupInstructions ==
    SubSeq(finished, 1, IF Len(finished) < BUNDLE_CAP THEN Len(finished) ELSE BUNDLE_CAP)

\* A stale page may not know that this payment is the last; a failed scan gives none.
BeginAction(w) ==
    /\ at_desk(w, "Idle")
    /\ \E a \in MaySign[w], closes \in {cleanupInstructions, <<>>} :
          turn(w, [ stage |-> "Simulate", pays |-> a, closes |-> closes ])
    /\ UNCHANGED <<chain_vars, flying, sweep>>

\* SLIP: an attempt that was refused is not followed by another.
gives_up_at_once(w, end) ==
    IF desk[w].closes = <<>> \/ end = "Refused"
    THEN [AtRest EXCEPT !.stage = end]
    ELSE [desk[w] EXCEPT !.stage = "Simulate", !.closes = <<>>]

\* Whatever the error, a payment with closes is sent again without them; without
\* any, it ends there.
retried(w, end) ==
    IF desk[w].closes = <<>>
    THEN [AtRest EXCEPT !.stage = end]
    ELSE [desk[w] EXCEPT !.stage = "Simulate", !.closes = <<>>]

desk_accepted(w) == accepted(desk[w].pays, desk[w].closes)

\* A node that does not answer gives no verdict, and the wallet may try.
Simulate(w) ==
    /\ at_desk(w, "Simulate")
    /\ \/ turn(w, [desk[w] EXCEPT !.stage = "Sign"])
       \/ ~desk_accepted(w) /\ turn(w, retried(w, "Refused"))
    /\ UNCHANGED <<chain_vars, flying, sweep>>

Decline(w) ==
    /\ at_desk(w, "Sign")
    /\ turn(w, retried(w, "Over"))
    /\ UNCHANGED <<chain_vars, flying, sweep>>

Submit(w) ==
    /\ at_desk(w, "Sign")
    /\ turn(w, [desk[w] EXCEPT !.stage = "Confirm"])
    /\ flying' = flying \union {[by |-> w, pays |-> desk[w].pays, closes |-> desk[w].closes]}
    /\ UNCHANGED <<chain_vars, sweep>>

\* Only the latest transaction of a browser is the one it polls for.
polls(w, tx) ==
    tx.by = w /\ at_desk(w, "Confirm") /\ tx.pays = desk[w].pays /\ tx.closes = desk[w].closes

LandsAtLast(tx) ==
    /\ tx \in flying
    /\ flying' = flying \ {tx}
    /\ Land(tx)
    /\ IF polls(tx.by, tx)
       THEN turn(tx.by, [AtRest EXCEPT !.stage = "Over"]) ELSE UNCHANGED desk
    /\ UNCHANGED sweep

\* Refused on chain, or too old to be included.
Drops(tx) ==
    /\ tx \in flying
    /\ flying' = flying \ {tx}
    /\ IF ~accepted(tx.pays, tx.closes) /\ polls(tx.by, tx)
       THEN turn(tx.by, retried(tx.by, "Refused")) ELSE UNCHANGED desk
    /\ UNCHANGED <<chain_vars, sweep>>

\* A minute without a confirmation: the transaction may still land.
PollTimesOut(w) ==
    /\ at_desk(w, "Confirm")
    /\ turn(w, retried(w, "Over"))
    /\ UNCHANGED <<chain_vars, flying, sweep>>

-----------------------------------------------------------------------------
(* Everybody else.                                                         *)

TimePasses(t) ==
    /\ t \notin passed /\ (t = "grace" => "review" \in passed)
    /\ passed' = passed \union {t}
    /\ UNCHANGED <<status, unworthy, paid, deposits, desk, flying, sweep>>

\* Past either deadline, by anybody, unless a claim is protected.
Cancel ==
    /\ status = "Funded" /\ {"funding", "work"} \intersect passed # {} /\ ~claim_protected
    /\ status' = "Cancelled"
    /\ UNCHANGED <<passed, unworthy, paid, deposits, desk, flying, sweep>>

\* The creator refuses what stands before them and has not matured.
RejectDelivery ==
    /\ Due \in deposits /\ ~unworthy /\ status # "Delivered" /\ "review" \notin passed
    /\ unworthy' = TRUE
    /\ UNCHANGED <<status, passed, paid, deposits, desk, flying, sweep>>

CrankClose(d) ==
    /\ closable(d, deposits, status)
    /\ deposits' = deposits \ {d}
    /\ UNCHANGED <<status, passed, unworthy, paid, desk, flying, sweep>>

\* SLIP: the sweep knows only what was delivered.
sweepable_if_shipped(d) == d # "vault" /\ d \in deposits /\ status = "Delivered"

\* The sweep never closes a vault.
sweepable(d) == d # "vault" /\ closable(d, deposits, status)

SweepScan ==
    /\ sweep = <<>>
    /\ sweep' = SelectSeq(account_order, LAMBDA d : sweepable(d))
    /\ sweep' # <<>>
    /\ UNCHANGED <<chain_vars, desk, flying>>

batch == SubSeq(sweep, 1, IF Len(sweep) < SWEEP_BATCH THEN Len(sweep) ELSE SWEEP_BATCH)

\* One account that is gone fails the batch it is in; the sweep goes on with the next.
SweepBatch ==
    /\ sweep # <<>>
    /\ sweep' = SubSeq(sweep, Len(batch) + 1, Len(sweep))
    /\ deposits' = IF \A d \in Range(batch) : closable(d, deposits, status)
                   THEN deposits \ Range(batch) ELSE deposits
    /\ UNCHANGED <<status, passed, unworthy, paid, desk, flying>>

PayerStep(w) ==
    BeginAction(w) \/ Simulate(w) \/ Decline(w) \/ Submit(w) \/ PollTimesOut(w)

SettlementNext ==
    \/ \E w \in Payers : PayerStep(w)
    \/ \E tx \in flying : LandsAtLast(tx) \/ Drops(tx)
    \/ \E t \in Times : TimePasses(t)
    \/ Cancel
    \/ RejectDelivery
    \/ \E d \in Deposits : CrankClose(d)
    \/ SweepScan
    \/ SweepBatch

SettlementSpec ==
    /\ SettlementInit /\ [][SettlementNext]_settle_vars
    /\ WF_settle_vars(SweepScan) /\ WF_settle_vars(SweepBatch)

-----------------------------------------------------------------------------
(* "so you do not pay twice": however many copies of a release, a          *)
(* collection and refunds are in flight, from however many browsers, what  *)
(* a backer pledged leaves the vault once; and neither the account that    *)
(* records a pledge nor the vault goes before the money has.               *)
PaidOnce ==
    \A p \in Pledges :
        /\ paid[p] <= 1
        /\ p \notin deposits \/ "vault" \notin deposits => paid[p] = 1

\* The delivery's own account was closed unjudged, which its grace period put off.
lapsed ==
    /\ Due \notin deposits /\ {"review", "grace"} \subseteq passed
    /\ status = "Cancelled" \/ "work" \in passed

\* Why a payment may be refused when it comes alone.
beyond_housekeeping(a) ==
    IF a \in Pledges
    THEN paid[a] = 1 \/ ~refundable \/ claim_protected
    ELSE (\A p \in Pledges : paid[p] = 1) \/ unworthy \/ too_early(a) \/ lapsed

(* "Money must never be blocked by housekeeping": a browser gives up on a  *)
(* refusal only where the money is gone already, the creator refused the   *)
(* delivery, or its time has not come; a close that was faster ends it in  *)
(* one case, that of a delivery left unpaid beyond its grace period.       *)
NeverBlockedByHousekeeping ==
    [][\A w \in Payers :
         desk[w].stage # "Refused" /\ desk'[w].stage = "Refused" => beyond_housekeeping(desk[w].pays)]_settle_vars

(* sweep-deposits: batches that fail because somebody was faster lose no   *)
(* deposit; while sweeps go on, again and again nothing is left open that  *)
(* may be closed, whatever became of the commission.                       *)
DepositsSwept ==
    []<>(\A d \in Pledges \union Claims : ~closable(d, deposits, status))
=============================================================================
