---------------------------- MODULE EscrowState ----------------------------
(***************************************************************************)
(* The state one commission keeps across the program's accounts, and what  *)
(* the handlers of program/src/lib.rs read off it before they act.         *)
(***************************************************************************)
EXTENDS EscrowMath, FiniteSets, Sequences, Functions

CONSTANTS
    Creator,                \* the wallet that posts the commission
    Backers,                \* wallets that may pledge
    Agents,                 \* wallets that may deliver
    NoAgent,                \* has_invite = false
    Offers,                 \* the terms the creator may ask for
    PledgeAmounts,          \* the amounts a backer may ask to pledge
    MAX_MILESTONES,
    MAX_COMMISSION_LAMPORTS,
    MAX_FUNDING_DURATION,
    MIN_WORK_WINDOW, MAX_WORK_WINDOW, DEFAULT_WORK_WINDOW,
    MIN_REVIEW_WINDOW, MAX_REVIEW_WINDOW, DEFAULT_REVIEW_WINDOW,
    MAX_SUBMISSIONS_PER_MILESTONE,
    CLAIM_GRACE_WINDOW,
    VAULT_RENT,             \* rent-exempt minimum of the empty vault account
    MaxDonation,            \* bound: lamports strangers send to the vault
    MaxTime                 \* bound: the last value of the clock

ASSUME WindowAssumption ==
    /\ MAX_FUNDING_DURATION \in Nat \ {0}
    /\ MIN_WORK_WINDOW \in Nat \ {0}
    /\ MAX_WORK_WINDOW \in Nat
    /\ DEFAULT_WORK_WINDOW \in MIN_WORK_WINDOW .. MAX_WORK_WINDOW
    /\ MIN_REVIEW_WINDOW \in Nat \ {0}
    /\ MAX_REVIEW_WINDOW \in Nat
    /\ DEFAULT_REVIEW_WINDOW \in MIN_REVIEW_WINDOW .. MAX_REVIEW_WINDOW
    /\ CLAIM_GRACE_WINDOW \in Nat
ASSUME LimitAssumption ==
    /\ MAX_MILESTONES \in Nat \ {0}
    /\ MAX_COMMISSION_LAMPORTS \in Nat
    /\ MAX_SUBMISSIONS_PER_MILESTONE \in Nat
    /\ VAULT_RENT \in Nat
    /\ MaxDonation \in Nat
    /\ MaxTime \in Nat
ASSUME PartyAssumption ==
    /\ NoAgent \notin Agents
    /\ IsFiniteSet(Backers)
    /\ IsFiniteSet(Agents)
    /\ PledgeAmounts \subseteq Nat
    /\ Offers \subseteq [ goal : Nat, milestone_bps : Seq(Nat), deadline : Int,
                          work_window : Int, review_window : Int ]

Milestones == 1 .. MAX_MILESTONES

VARIABLES
    now,                        \* Clock::get().unix_timestamp
    config,                     \* the singleton: absent, or the pause switch
    terms,                      \* what create_commission fixes for good
    status,
    work_deadline,              \* 0 until the goal is met
    milestones_done,            \* the bitmap, as a set
    auto_releases,
    total_pledged, released, refunded,
    pledger_count, refunded_pledger_count,
    pledges,                    \* amount of each live Pledge account, 0 if none
    invited_agent,
    intent, intents,            \* Intent accounts, and how many ever existed
    milestone_submitted, milestone_rejected,
    unresolved_submissions, latest_submitted_at,
    submissions, rejections,
    submission,                 \* the Submission account of a milestone and agent
    vault_owned,                \* the vault belongs to this program
    vault_lamports,
    earned,                     \* net lamports each agent was paid
    returned,                   \* net lamports each backer got back
    fees                        \* lamports the treasury received

life   == <<status, work_deadline, milestones_done, auto_releases>>
money  == <<total_pledged, released, refunded,
            pledger_count, refunded_pledger_count, pledges>>
board  == <<invited_agent, intent, intents>>
queue  == <<milestone_submitted, milestone_rejected, unresolved_submissions,
            latest_submitted_at, submissions, rejections, submission>>
vault  == <<vault_owned, vault_lamports>>
paid   == <<earned, returned, fees>>
vars   == <<now, config, terms, life, money, board, queue, vault, paid>>

-----------------------------------------------------------------------------
(* State the accounts hold, and what the handlers read off it.             *)

NoTerms == [ goal |-> 0, milestone_bps |-> <<>>, deadline |-> 0,
             work_window |-> 0, review_window |-> 0 ]
NoSubmission == [ state |-> "Empty", sequence |-> 0, submitted_at |-> 0 ]

milestone_count == Len(terms.milestone_bps)
escrow_remaining == total_pledged - released - refunded
work_closed == work_deadline > 0 /\ now >= work_deadline

\* SLIP: protection that nothing ends.
claim_protected_unbounded == unresolved_submissions > 0

claim_protected ==
    /\ unresolved_submissions > 0
    /\ now < latest_submitted_at + terms.review_window + CLAIM_GRACE_WINDOW
milestone_released(i) == i \in milestones_done
review_expired(s) ==
    s.state = "Pending" /\ now >= s.submitted_at + terms.review_window

\* assert_workable: the one gate on working at all.
workable(a) ==
    /\ status = "Funded"
    /\ ~work_closed
    /\ a # Creator
    /\ invited_agent \in {NoAgent, a}

\* saturating_sub(1)
less_one(n) == IF n > 0 THEN n - 1 ELSE 0
=============================================================================
