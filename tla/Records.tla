------------------------------ MODULE Records ------------------------------
(***************************************************************************)
(* What strangers read of a wallet, server/server.js: the directory of     *)
(* agents, a profile, an activity page and a reputation, worked out anew   *)
(* at every request from the last finished scan and from the tables        *)
(* delivery_history and intent_history, which outlive the accounts.        *)
(*                                                                         *)
(* A request is answered from memory while the scan is fresh.  Between     *)
(* the scan and the answer the clock goes on, and a work deadline may      *)
(* pass that the scan knows nothing of.                                    *)
(***************************************************************************)
EXTENDS MirrorProperties

VARIABLES
    intent_accounts,    \* what the scan of Intent accounts answered
    intent_history      \* the row of an agent

records_vars == <<intent_accounts, intent_history>>
rvars == <<mvars, records_vars>>

NotScanned == [a \in Agents |-> "NotScanned"]

RecordsInit ==
    /\ MirrorInit
    /\ intent_accounts = NotScanned
    /\ intent_history = [a \in Agents |-> "Empty"]

-----------------------------------------------------------------------------
(* The third account scan, and the table it fills.                         *)

ReadIntents ==
    /\ inflight
    /\ intent_accounts = NotScanned
    /\ intent_accounts' = intent
    /\ UNCHANGED <<mvars, intent_history>>

\* The upsert of an account that exists; one that was closed leaves its row.
rememberIntent(a) ==
    IF intent_accounts[a] = "Empty" THEN intent_history[a] ELSE intent_accounts[a]

\* Deliveries and intents are written in one transaction.
FinishRecords(remembers, tells) ==
    /\ intent_accounts # NotScanned
    /\ FinishScan(remembers, tells)
    /\ intent_history' = IF remembers THEN [a \in Agents |-> rememberIntent(a)]
                         ELSE intent_history
    /\ intent_accounts' = NotScanned

-----------------------------------------------------------------------------
(* One agent's record.                                                     *)

\* SLIP: only what is still on chain counts.
delivered_by_live(a) == { i \in Milestones : cached_accounts[i][a].state # "Empty" }

\* Every row: swept accounts are still in the table.
delivered_by(a) == { i \in Milestones : delivery_history[i][a].last_state # "Empty" }

in_state(a, s) ==
    { i \in delivered_by(a) :
      outcome(cached_value, cached_accounts, i, a, delivery_history[i][a]) = s }

\* GET /api/v1/agents, an entry of the directory.
directory(a) ==
    [ delivered |-> delivered_by(a), won |-> in_state(a, "Released"),
      rejected |-> in_state(a, "Rejected"), pending |-> in_state(a, "Pending") ]

\* GET /api/v1/profile: the deliveries with their states.
profile(a) == { d \in Milestones \X {"Pending", "Rejected", "Released", "Superseded"} :
                d[1] \in in_state(a, d[2]) }

\* A deadline is set when the goal is met, once and for all.
workClosed(c) == c.status \notin {"Uncreated", "Funding"} /\ work_closed

\* GET /api/v1/activity: a page, with what became of the agent's word.
signal_outcome(a) ==
    IF delivered_by(a) # {} THEN "honoured"
    ELSE IF intent_history[a] = "Withdrawn" THEN "withdrawn"
    ELSE IF cached_value.status \in {"Delivered", "Cancelled"} \/ workClosed(cached_value)
         THEN "abandoned"
    ELSE "working"

activity(a) ==
    [ inPlay |-> in_state(a, "Pending"), won |-> in_state(a, "Released"),
      lost |-> in_state(a, "Rejected") \union in_state(a, "Superseded"),
      signalled |-> IF intent_history[a] = "Empty" THEN {} ELSE {signal_outcome(a)} ]

\* GET /api/v1/reputation: an intent may count as honoured and as withdrawn.
reputation_intent(a) ==
    (IF delivered_by(a) # {} THEN {"honoured"} ELSE {})
    \union (IF intent_history[a] = "Withdrawn" THEN {"withdrawn"} ELSE {})
    \union (IF /\ intent_history[a] # "Withdrawn" /\ delivered_by(a) = {}
               /\ workClosed(cached_value)
            THEN {"abandoned"} ELSE {})

reputation(a) ==
    [ deliveries |-> delivered_by(a), won |-> in_state(a, "Released"),
      rejected |-> in_state(a, "Rejected"), superseded |-> in_state(a, "Superseded"),
      pending |-> in_state(a, "Pending"),
      intent |-> IF intent_history[a] = "Empty" THEN {} ELSE reputation_intent(a) ]

-----------------------------------------------------------------------------
Aborted == (FailScan \/ Restart) /\ intent_accounts' = NotScanned

RecordsNext ==
    \/ /\ ChainStep \/ StartScan \/ ReadCommissions \/ ReadSubmissions
       /\ UNCHANGED records_vars
    \/ ReadIntents
    \/ \E remembers, tells \in BOOLEAN : FinishRecords(remembers, tells)
    \/ Aborted /\ UNCHANGED intent_history

RecordsSpec == RecordsInit /\ [][RecordsNext]_rvars

-----------------------------------------------------------------------------
(* "Ranked by what they earned, because that is the number neither side    *)
(* can inflate": whoever a page credits with a milestone was paid for it,  *)
(* and a milestone is credited to one agent only, whatever the scans read, *)
(* failed to write or lost.                                                *)
CreditsArePayments ==
    cached => \A i \in Milestones :
        LET credited == { a \in Agents : i \in directory(a).won } IN
        /\ \A a \in credited : \E q \in 0 .. milestone_submitted[i] :
              ruled(i, a, q, "Released")
        /\ Cardinality(credited) <= 1

(* "anything derived only from live accounts would show a wallet's history *)
(* emptying out exactly as they finish things": a delivery a page shows is *)
(* on every later page, after sweeps, failed scans and restarts, so an     *)
(* agent said to have kept its word is never said to have dropped it, and  *)
(* a milestone once credited stays credited while the record names the     *)
(* attempt that was paid.                                                  *)
HistoryStays ==
    [][ \A a \in Agents :
          /\ delivered_by(a) \subseteq delivered_by(a)'
          /\ "honoured" \in activity(a).signalled => "honoured" \in activity(a).signalled'
          /\ \A i \in in_state(a, "Released") :
                ( /\ cached /\ cached'
                  /\ ruled(i, a, delivery_history[i][a].sequence, "Released") )
                => i \in in_state(a, "Released")' ]_rvars
=============================================================================
