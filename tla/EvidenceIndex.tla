--------------------------- MODULE EvidenceIndex ---------------------------
(***************************************************************************)
(* What agents delivered, POST /api/deliveries of server/server.js and the *)
(* tail of openDatabase in server/db.js.                                   *)
(*                                                                         *)
(* A text is recorded once it hashes to a commitment on chain: that of a   *)
(* live submission, or that of the transaction which made it, so any       *)
(* attempt can be recorded at any later time, or never.  Each start of the *)
(* server gives a row of delivery_history to every recorded delivery the   *)
(* scans never saw, with a place in the queue worked out from the recorded *)
(* deliveries alone.                                                       *)
(***************************************************************************)
EXTENDS ChainMirror

VARIABLES
    attempts,       \* every attempt the chain ever accepted
    deliveries      \* the table of recorded texts, in the order of created_at

evars == <<mvars, attempts, deliveries>>

EvidenceInit ==
    /\ MirrorInit
    /\ attempts = {}
    /\ deliveries = <<>>

Attempt(i, a, s) == [ milestone |-> i, agent |-> a, sequence |-> s.sequence,
                      submitted_at |-> s.submitted_at ]

new_attempts ==
    { Attempt(p[1], p[2], submission'[p[1]][p[2]]) :
      p \in { q \in Pairs : submission'[q[1]][q[2]].state = "Pending" } }

MirrorStep ==
    /\ WorkingStep \/ FailScan
    /\ attempts' = attempts \union new_attempts
    /\ UNCHANGED deliveries

\* Idempotent: a text already recorded is a no-op.
PostEvidence(t) ==
    /\ t \in attempts
    /\ \A n \in DOMAIN deliveries : deliveries[n] # t
    /\ deliveries' = Append(deliveries, t)
    /\ UNCHANGED <<mvars, attempts>>

\* ORDER BY submitted_at, created_at
arrived_before(m, n) ==
    /\ deliveries[m].milestone = deliveries[n].milestone
    /\ \/ deliveries[m].submitted_at < deliveries[n].submitted_at
       \/ deliveries[m].submitted_at = deliveries[n].submitted_at /\ m < n

\* SLIP: ROW_NUMBER counts from one.
place_from_one(n) ==
    Cardinality({ m \in DOMAIN deliveries : arrived_before(m, n) }) + 1

\* ROW_NUMBER() - 1
place(n) == Cardinality({ m \in DOMAIN deliveries : arrived_before(m, n) })

recorded_of(i, a) ==
    { n \in DOMAIN deliveries : deliveries[n].milestone = i /\ deliveries[n].agent = a }

\* INSERT OR IGNORE: rows that exist stay, of an agent's deliveries the first counts.
backfilled(i, a) ==
    IF delivery_history[i][a].last_state # "Empty" \/ recorded_of(i, a) = {}
    THEN delivery_history[i][a]
    ELSE LET n == CHOOSE n \in recorded_of(i, a) :
                      \A m \in recorded_of(i, a) : m = n \/ arrived_before(n, m)
         IN  [ last_state |-> "Pending", sequence |-> place(n),
               evidence |-> deliveries[n].sequence ]

OpenDatabase ==
    /\ NoScan
    /\ NoCache
    /\ delivery_history' = [i \in Milestones |-> [a \in Agents |-> backfilled(i, a)]]
    /\ UNCHANGED <<vars, verdicts, notifications, disputes, attempts, deliveries>>

EvidenceNext ==
    \/ MirrorStep
    \/ \E t \in attempts : PostEvidence(t)
    \/ OpenDatabase

EvidenceSpec == EvidenceInit /\ [][EvidenceNext]_evars

-----------------------------------------------------------------------------
names_attempt(i, a, q) ==
    \E t \in attempts : t.milestone = i /\ t.agent = a /\ t.sequence = q

\* Every attempt at a milestone is recorded, and no two came in the same second.
complete(i) ==
    /\ \A t \in attempts :
          t.milestone = i => \E n \in DOMAIN deliveries : deliveries[n] = t
    /\ \A s, t \in attempts :
          s.milestone = i /\ t.milestone = i /\ s.submitted_at = t.submitted_at => s = t

(* openDatabase: where every delivery of a milestone is recorded, ordering *)
(* them by the chain's timestamps gives each agent the row of an attempt   *)
(* of its own.                                                             *)
CompleteBackfillExact ==
    [][ OpenDatabase =>
          \A i \in Milestones, a \in Agents :
            /\ complete(i)
            /\ delivery_history[i][a].last_state = "Empty"
            /\ delivery_history'[i][a].last_state # "Empty"
            => names_attempt(i, a, delivery_history'[i][a].sequence) ]_evars
=============================================================================
