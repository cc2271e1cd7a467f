---------------------------- MODULE ChainMirror ----------------------------
(***************************************************************************)
(* The server's mirror of the chain, server/server.js: chainCommissions    *)
(* scans the program's accounts, remembers every delivery it saw in the    *)
(* table delivery_history, works out what became of deliveries whose       *)
(* accounts are gone (settledState), and tells wallets about it            *)
(* (detectEvents, recordEvents).  An agent contests a refusal on the same  *)
(* evidence.                                                               *)
(*                                                                         *)
(* A scan is not a snapshot: commissions and submissions are two RPC calls *)
(* in flight together, the chain moves between them and before their       *)
(* results are used, and any of them may fail.  The database outlives a    *)
(* restart of the server; the cache and a scan in flight do not.           *)
(*                                                                         *)
(* One commission is followed, the one of Escrow.  Outcomes are named as   *)
(* in Escrow; escrow.js writes them in lower case and calls the status     *)
(* Cancelled "refunded".                                                   *)
(***************************************************************************)
EXTENDS Escrow

CONSTANT CHAIN_CACHE    \* ticks of the clock a cached scan may be served for

ASSUME CacheAssumption == CHAIN_CACHE \in Nat

VARIABLES
    verdicts,           \* every judgment the chain ever made of an attempt
    inflight,           \* a scan is under way; concurrent readers share it
    read,               \* the account scans that have answered
    value, accounts,       \* what they answered: the commission, its submissions
    cached,             \* a finished scan can be served from memory
    cached_at, cached_value, cached_accounts,
    delivery_history,   \* the row of a milestone and agent
    notifications,
    disputes

scan_vars   == <<inflight, read, value, accounts>>
cache_vars  == <<cached, cached_at, cached_value, cached_accounts>>
database    == <<delivery_history, notifications, disputes>>
mirror_vars == <<scan_vars, cache_vars, database>>
mvars       == <<vars, verdicts, mirror_vars>>

Pairs == Milestones \X Agents
NoCommission == [ status |-> "Uncreated", milestones_done |-> {},
             milestone_rejected |-> [i \in Milestones |-> 0] ]
NoAccounts == [i \in Milestones |-> [a \in Agents |-> NoSubmission]]

\* A row keeps the evidence hash of the first attempt it saw: its sequence here.
NoRow == [ last_state |-> "Empty", sequence |-> 0, evidence |-> 0 ]

MirrorInit ==
    /\ Init
    /\ verdicts = {}
    /\ inflight = FALSE /\ read = {}
    /\ value = NoCommission /\ accounts = NoAccounts
    /\ cached = FALSE /\ cached_at = 0
    /\ cached_value = NoCommission /\ cached_accounts = NoAccounts
    /\ delivery_history = [i \in Milestones |-> [a \in Agents |-> NoRow]]
    /\ notifications = {}
    /\ disputes = {}

-----------------------------------------------------------------------------
(* The chain moves by itself; verdicts only writes down what it decided.   *)

new_verdicts ==
    { [ milestone |-> p[1], agent |-> p[2],
        sequence |-> submission[p[1]][p[2]].sequence,
        state |-> submission'[p[1]][p[2]].state ] :
      p \in { q \in Pairs :
                /\ submission[q[1]][q[2]].state = "Pending"
                /\ submission'[q[1]][q[2]].state \in {"Rejected", "Released"} } }

ChainStep ==
    /\ Next
    /\ verdicts' = verdicts \union new_verdicts
    /\ UNCHANGED mirror_vars

-----------------------------------------------------------------------------
(* A scan.                                                                 *)

\* The cache expires in less than a tick, so a reader may start a scan at any time.
StartScan ==
    /\ ~inflight
    /\ inflight' = TRUE
    /\ UNCHANGED <<vars, verdicts, read, value, accounts, cache_vars, database>>

ReadCommissions ==
    /\ inflight
    /\ "commissions" \notin read
    /\ read' = read \union {"commissions"}
    /\ value' = [ status |-> status, milestones_done |-> milestones_done,
                  milestone_rejected |-> milestone_rejected ]
    /\ UNCHANGED <<vars, verdicts, inflight, accounts, cache_vars, database>>

ReadSubmissions ==
    /\ inflight
    /\ "submissions" \notin read
    /\ read' = read \union {"submissions"}
    /\ accounts' = submission
    /\ UNCHANGED <<vars, verdicts, inflight, value, cache_vars, database>>

NoScan ==
    /\ inflight' = FALSE
    /\ read' = {}
    /\ value' = NoCommission
    /\ accounts' = NoAccounts

\* One RPC call failing fails the scan; the last good cache stays.
FailScan ==
    /\ inflight
    /\ NoScan
    /\ UNCHANGED <<vars, verdicts, cache_vars, database>>

\* SLIP: the upsert leaves the sequence out of its columns.
remembered_in_place(row, s) ==
    IF s.state \in {"Empty", row.last_state} THEN row
    ELSE IF row.last_state = "Empty"
         THEN [ last_state |-> s.state, sequence |-> s.sequence, evidence |-> s.sequence ]
    ELSE [row EXCEPT !.last_state = s.state]

\* The upsert: a row whose state did not change keeps its sequence.
remembered(row, s) ==
    IF s.state \in {"Empty", row.last_state} THEN row
    ELSE [ last_state |-> s.state, sequence |-> s.sequence,
           evidence |-> IF row.last_state = "Empty" THEN s.sequence ELSE row.evidence ]

\* SLIP: a position that was refused counts as the winner of a paid milestone.
settledState_paid_first(c, i, row) ==
    IF row.last_state \in {"Released", "Rejected"} THEN row.last_state
    ELSE IF row.sequence <= c.milestone_rejected[i] /\ i \in c.milestones_done
         THEN "Released"
    ELSE IF row.sequence < c.milestone_rejected[i] THEN "Rejected"
    ELSE IF i \in c.milestones_done \/ c.status = "Cancelled" THEN "Superseded"
    ELSE "Pending"

\* SLIP: the position at the front counts as refused.
settledState_off_by_one(c, i, row) ==
    IF row.last_state \in {"Released", "Rejected"} THEN row.last_state
    ELSE IF row.sequence <= c.milestone_rejected[i] THEN "Rejected"
    ELSE IF i \in c.milestones_done \/ c.status = "Cancelled" THEN "Superseded"
    ELSE "Pending"

\* What became of a delivery whose account is gone: a state seen wins, else
\* its place against the milestone's counter of rejections decides.
settledState(c, i, row) ==
    IF row.last_state \in {"Released", "Rejected"} THEN row.last_state
    ELSE IF row.sequence < c.milestone_rejected[i] THEN "Rejected"
    ELSE IF row.sequence = c.milestone_rejected[i] /\ i \in c.milestones_done
         THEN "Released"
    ELSE IF i \in c.milestones_done \/ c.status = "Cancelled" THEN "Superseded"
    ELSE "Pending"

\* The account if the scan saw one, else the inference.
outcome(c, b, i, a, row) ==
    IF b[i][a].state # "Empty" THEN b[i][a].state ELSE settledState(c, i, row)

-----------------------------------------------------------------------------
(* Telling wallets.  A notification carries the attempt it speaks of; its  *)
(* dedupe key is what same_event compares.                                 *)

\* SLIP: the milestone and the agent change columns.
Event_swapped(kind, i, a, q) ==
    [ kind |-> kind, milestone |-> a, agent |-> i, sequence |-> q ]

Event(kind, i, a, q) == [ kind |-> kind, milestone |-> i, agent |-> a, sequence |-> q ]

\* SLIP: one key for all verdicts on a milestone.
same_event_one_verdict(m, n) ==
    LET verdict(k) == k \in {"delivery-rejected", "delivery-paid"} IN
    /\ m.kind = n.kind \/ (verdict(m.kind) /\ verdict(n.kind))
    /\ m.milestone = n.milestone
    /\ IF m.kind \in {"delivery-waiting", "review-lapsed"}
       THEN m.sequence = n.sequence
       ELSE m.agent = n.agent

\* Keys of what concerns the creator name the place in the queue, the others the agent.
same_event(m, n) ==
    /\ m.kind = n.kind
    /\ m.milestone = n.milestone
    /\ IF m.kind \in {"delivery-waiting", "review-lapsed"}
       THEN m.sequence = n.sequence
       ELSE m.agent = n.agent

verdict_event(c, b, i, a, row) ==
    Event(IF outcome(c, b, i, a, row) = "Rejected" THEN "delivery-rejected" ELSE "delivery-paid",
          i, a, IF b[i][a].state # "Empty" THEN b[i][a].sequence ELSE row.sequence)

verdict_events(c, b, history) ==
    { verdict_event(c, b, p[1], p[2], history[p[1]][p[2]]) :
      p \in { q \in Pairs :
                /\ history[q[1]][q[2]].last_state # "Empty"
                /\ outcome(c, b, q[1], q[2], history[q[1]][q[2]])
                       \in {"Rejected", "Released"} } }

\* SLIP: a place ahead of the counter is announced as well.
first_in_line_or_later(c, i, s) ==
    s.state = "Pending" /\ i \notin c.milestones_done /\ s.sequence >= c.milestone_rejected[i]

first_in_line(c, i, s) ==
    s.state = "Pending" /\ i \notin c.milestones_done /\ s.sequence = c.milestone_rejected[i]

front_events(c, b) ==
    UNION { LET i == p[1]
                a == p[2]
                s == b[i][a]
            IN  IF review_expired(s)
                THEN { Event("review-lapsed", i, a, s.sequence), Event("claimable", i, a, s.sequence) }
                ELSE { Event("delivery-waiting", i, a, s.sequence) } :
            p \in { q \in Pairs : first_in_line(c, q[1], b[q[1]][q[2]]) } }

detectEvents(c, b, history) ==
    IF c.status = "Uncreated" THEN {}
    ELSE verdict_events(c, b, history) \union front_events(c, b)

recorded(events) ==
    notifications \union { e \in events : \A n \in notifications : ~same_event(n, e) }

\* Either write to the database may fail without failing the scan.
FinishScan(remembers, tells) ==
    /\ inflight
    /\ read = {"commissions", "submissions"}
    /\ delivery_history' =
           IF remembers
           THEN [i \in Milestones |-> [a \in Agents |->
                     remembered(delivery_history[i][a], accounts[i][a])]]
           ELSE delivery_history
    /\ notifications' =
           IF tells THEN recorded(detectEvents(value, accounts, delivery_history'))
           ELSE notifications
    /\ cached' = TRUE
    /\ cached_at' = now
    /\ cached_value' = value
    /\ cached_accounts' = accounts
    /\ NoScan
    /\ UNCHANGED <<vars, verdicts, disputes>>

-----------------------------------------------------------------------------
\* SLIP: whoever was not paid may contest.
contestable_unpaid(i, a) ==
    outcome(cached_value, cached_accounts, i, a, delivery_history[i][a]) # "Released"

\* Only a delivery the mirror reports refused can be contested.
contestable(i, a) ==
    outcome(cached_value, cached_accounts, i, a, delivery_history[i][a]) = "Rejected"

FileDispute(i, a) ==
    /\ cached
    /\ now <= cached_at + CHAIN_CACHE
    /\ cached_value.status # "Uncreated"
    /\ delivery_history[i][a].last_state # "Empty"
    /\ contestable(i, a)
    /\ disputes' = disputes \union {<<i, a>>}
    /\ notifications' =
           recorded({Event("dispute-opened", i, a, delivery_history[i][a].sequence)})
    /\ UNCHANGED <<vars, verdicts, scan_vars, cache_vars, delivery_history>>

\* deliveriesFor: the outcome shown beside the text of attempt q.
text_outcome(i, a, q) ==
    LET row == delivery_history[i][a] IN
    IF row.last_state # "Empty" /\ row.evidence = q THEN row.last_state ELSE "Pending"

NoCache ==
    /\ cached' = FALSE
    /\ cached_at' = 0
    /\ cached_value' = NoCommission
    /\ cached_accounts' = NoAccounts

\* A crash or a deployment: memory is gone, the database stays.  What the
\* next start adds to delivery_history from recorded evidence is EvidenceIndex.
Restart ==
    /\ NoScan
    /\ NoCache
    /\ UNCHANGED <<vars, verdicts, database>>

\* What happens when neither the RPC nodes nor the server fail.
WorkingStep ==
    \/ ChainStep
    \/ StartScan
    \/ ReadCommissions
    \/ ReadSubmissions
    \/ \E remembers, tells \in BOOLEAN : FinishScan(remembers, tells)
    \/ \E i \in Milestones, a \in Agents : FileDispute(i, a)

MirrorNext == WorkingStep \/ FailScan \/ Restart

MirrorSpec == MirrorInit /\ [][MirrorNext]_mvars
=============================================================================
