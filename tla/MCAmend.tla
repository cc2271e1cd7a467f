------------------------------ MODULE MCAmend ------------------------------
EXTENDS Amendments, TLC

MCOffers == { [ goal |-> 10000, milestone_bps |-> <<10000>>, deadline |-> 2,
                work_window |-> 2, review_window |-> 1 ] }
MCAmounts == {10000}

\* Intents, invitations, the pause switch and backers are not looked at.
QuietChain ==
    /\ config # "Paused" /\ intents = 0 /\ invited_agent = NoAgent
    /\ refunded_pledger_count = 0
    /\ status # "Uncreated" => vault_owned

(* "So an edit never overwrites: the superseded wording is copied here     *)
(* first": what the comments of db.js and server.js say of any number of   *)
(* amendments, several in flight included.                                 *)
EveryWordingKept == [][ amends(wording, wording') => wording \in archive' ]_avars

MCSymmetry == Permutations(Requests)
=============================================================================
