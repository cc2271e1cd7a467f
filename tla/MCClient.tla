------------------------------ MODULE MCClient ------------------------------
(***************************************************************************)
(* The protocols that must get somewhere and share no state with one       *)
(* another: settlement and sweep, the RPC pool of a page, names, and the   *)
(* inbox.  focus says which of them moves; the others rest.                *)
(***************************************************************************)
EXTENDS Settlement, RpcPool, Handles, Inbox, TLC

CONSTANTS p1, p2, k1, k2, k3, creator, backer

VARIABLE focus

MCMaySign == creator :> {"release"} @@ backer :> Pledges
MCAddressedTo == k1 :> p1 @@ k2 :> p1 @@ k3 :> p2

client_vars == <<focus, settle_vars, pool_vars, handle_vars, inbox_vars>>

\* While another protocol moves, the commission is settled and swept.
AllSettled ==
    /\ status = "Delivered" /\ passed = Times /\ unworthy = FALSE
    /\ paid = [p \in Pledges |-> 1] /\ deposits = {}
    /\ desk = [w \in Payers |-> AtRest] /\ flying = {} /\ sweep = <<>>

ClientInit ==
    /\ focus \in { "settle", "pool", "handles", "inbox" }
    /\ IF focus = "settle" THEN SettlementInit ELSE AllSettled
    /\ PoolInit
    /\ HandleInit /\ (focus = "handles" \/ handle_claims = {})
    /\ InboxInit

Settling(step) ==
    /\ focus = "settle" /\ step
    /\ UNCHANGED <<focus, pool_vars, handle_vars, inbox_vars>>
Calling(step) ==
    /\ focus = "pool" /\ step
    /\ UNCHANGED <<focus, settle_vars, handle_vars, inbox_vars>>
Naming(step) ==
    /\ focus = "handles" /\ step
    /\ UNCHANGED <<focus, settle_vars, pool_vars, inbox_vars>>
Telling(step) ==
    /\ focus = "inbox" /\ step
    /\ UNCHANGED <<focus, settle_vars, pool_vars, handle_vars>>
ClientNext ==
    \/ Settling(SettlementNext)
    \/ Calling(PoolNext)
    \/ Naming(HandleNext)
    \/ Telling(InboxNext)

\* The fairness of each protocol, while it is the one that moves.
ClientFairness ==
    /\ WF_client_vars(Settling(SweepScan \/ SweepBatch))
    /\ \A c \in Calls : WF_client_vars(Calling(CallEnds(c)))
    /\ SF_client_vars(Telling(\E l \in Loads : LoadServed(l)))
    /\ SF_client_vars(Telling(\E l \in Loads : LoadAnswered(l)))

ClientSpec == ClientInit /\ [][ClientNext]_client_vars /\ ClientFairness
=============================================================================
