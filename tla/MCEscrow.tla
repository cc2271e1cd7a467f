------------------------------ MODULE MCEscrow ------------------------------
EXTENDS ClientPromises, EscrowRefinement, TLC

MCTerms(goal, bps, deadline, work, review) ==
    [ goal |-> goal, milestone_bps |-> bps, deadline |-> deadline,
      work_window |-> work, review_window |-> review ]

MCMoneyOffers == { MCTerms(10000, bps, 3, 2, 1) : bps \in {<<1, 9999>>, <<6000, 4000>>} }
MCMoneyAmounts == {3400, 6601}

MCQueueOffers == { MCTerms(10000, <<2500, 7500>>, 2, 3, 2) }
MCQueueAmounts == {10001}

MCLiveAmounts == {6601}
MCOneOffer == { MCTerms(10000, <<10000>>, 2, 3, 2) }
\* Beside it terms the API refuses, or completes, or builds past the cap.
MCRaceOffers ==
    MCOneOffer \union
    { MCTerms(10000, <<>>, 2, 3, 2), MCTerms(20000, <<10000>>, 2, 3, 2),
      MCTerms(9999, <<10000>>, 2, 3, 2), MCTerms(10000, <<2000, 8000>>, 2, 3, 2),
      MCTerms(10000, <<10000>>, 10, 3, 2), MCTerms(10000, <<10000>>, 2, 4, 2),
      MCTerms(10000, <<10000>>, 2, 3, 3), MCTerms(10000, <<10000>>, 2, 0, 0) }

\* The money runs leave the board alone: it never moves a lamport.
QuietBoard == config # "Paused" /\ intents = 0 /\ invited_agent = NoAgent
QuietSpec == Init /\ [][Next /\ QuietBoard']_vars

\* Offers create_commission must refuse beside two it accepts.
MCLiveOffers ==
    MCOneOffer \union
    { MCTerms(10000, <<10000>>, 2, 0, 0), MCTerms(10000, <<10000>>, 10, 1, 1),
      MCTerms(10000, <<9999>>, 2, 1, 1), MCTerms(10000, <<0, 10000>>, 2, 1, 1),
      MCTerms(9999, <<10000>>, 2, 1, 1), MCTerms(10000, <<10000>>, 2, 9, 1) }

MCSymmetry == Permutations(Backers) \union Permutations(Agents)
=============================================================================
