------------------------------ MODULE MCMirror ------------------------------
EXTENDS MirrorComments, TLC

MCOffers == { [ goal |-> 10000, milestone_bps |-> <<10000>>, deadline |-> 2,
                work_window |-> 2, review_window |-> 1 ] }
MCAmounts == {10000}

\* Intents, invitations, the pause switch and the settling of backers leave
\* everything the mirror reads as it is.
QuietChain ==
    /\ config # "Paused" /\ intents = 0 /\ invited_agent = NoAgent
    /\ refunded_pledger_count = 0
    /\ status # "Uncreated" => vault_owned

\* A dispute changes nothing a scan reads; the runs about notices leave it out.
NoDisputes == disputes = {}

MCSymmetry == Permutations(Agents)
=============================================================================
