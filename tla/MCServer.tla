------------------------------ MODULE MCServer ------------------------------
(***************************************************************************)
(* The protocols of the server that share no state with one another: the   *)
(* texts of deliveries, the pages about a wallet, the words of a           *)
(* commission, sign-in and backups.  focus says which of them moves; the   *)
(* others rest.                                                            *)
(***************************************************************************)
EXTENDS EvidenceIndex, Records, Amendments, Sessions, Backups, TLC

VARIABLE focus

MCOffers == { [ goal |-> 10000, milestone_bps |-> <<10000>>, deadline |-> 2,
                work_window |-> w, review_window |-> 1 ] : w \in {1, 2, 3} }
MCAmounts == {10000}

evidence_only == <<attempts, deliveries>>
mirror_only == <<verdicts, mirror_vars>>
server_vars == <<focus, evars, records_vars, text_vars, sign_in_vars, backup_vars>>

ServerInit ==
    /\ focus \in { "evidence", "records", "amend", "sign_in", "backups" }
    /\ EvidenceInit /\ RecordsInit
    /\ wording = NoText /\ edits = 0 /\ archive = {} /\ patch = [r \in Requests |-> Idle]
    /\ SignInInit
    /\ BackupInit /\ (focus = "backups" \/ rows = 0)

ServerNext ==
    /\ UNCHANGED focus
    /\ \/ /\ focus = "evidence" /\ EvidenceNext
          /\ UNCHANGED <<records_vars, text_vars, sign_in_vars, backup_vars>>
       \/ /\ focus = "records" /\ RecordsNext
          /\ UNCHANGED <<evidence_only, text_vars, sign_in_vars, backup_vars>>
       \/ /\ focus = "amend" /\ AmendNext
          /\ UNCHANGED <<mirror_only, evidence_only, records_vars,
                         sign_in_vars, backup_vars>>
       \/ /\ focus = "sign_in" /\ SignInNext
          /\ UNCHANGED <<evars, records_vars, text_vars, backup_vars>>
       \/ /\ focus = "backups" /\ BackupNext
          /\ UNCHANGED <<evars, records_vars, text_vars, sign_in_vars>>

ServerSpec == ServerInit /\ [][ServerNext]_server_vars

\* Invitations, the pause switch and backers play no part in the texts, and
\* only the pages are about intents.
QuietChain ==
    /\ config # "Paused" /\ invited_agent = NoAgent
    /\ refunded_pledger_count = 0
    /\ status # "Uncreated" => vault_owned
    /\ focus # "records" => intents = 0

\* The words are edited in a short commission and the pages read in a shorter one;
\* deliveries need a longer one, and no reader asks before the database is
\* opened: all rows come from evidence.
WindowOfFocus ==
    terms.work_window \in CASE focus = "records"  -> {0, 1}
                            [] focus = "amend"    -> {0, 2}
                            [] focus = "evidence" -> {0, 3}
                            [] OTHER -> {0}
Unseen == focus = "evidence" => ~inflight /\ ~cached

involved(a) ==
    \/ intent[a] # "Empty" \/ intent_history[a] # "Empty"
    \/ \E i \in Milestones : submission[i][a].state # "Empty"
                           \/ delivery_history[i][a].last_state # "Empty"

\* The pages are read until the work is closed, about two attempts or about an
\* attempt and an intent of one agent, once there is one; nobody is told.
OnTheRecord ==
    focus = "records" =>
        /\ submissions + intents <= 2 /\ now <= 2
        /\ intents > 0 => Cardinality({ a \in Agents : involved(a) }) = 1
        /\ inflight => submissions + intents > 0
        /\ notifications = {} /\ disputes = {}

MCSymmetry == Permutations(Agents) \union Permutations(Accounts)
=============================================================================
