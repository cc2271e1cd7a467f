--------------------------- MODULE MirrorComments ---------------------------
(***************************************************************************)
(* Statements that comments of server/server.js make and the mirror does   *)
(* not keep.  Each is checked by a run that must find it violated.         *)
(***************************************************************************)
EXTENDS MirrorProperties

(* settledState: "This needs no stored verdict [...] the commission's own  *)
(* two counters settle it".  A delivery the record last saw pending, whose *)
(* account is gone and whose agent won, is reported as released.           *)
OutcomeDeterminedByCounters ==
    \A i \in Milestones, a \in Agents :
        ( /\ cached /\ i \in cached_value.milestones_done
          /\ delivery_history[i][a].last_state = "Pending"
          /\ cached_accounts[i][a].state = "Empty"
          /\ \E q \in 0 .. milestone_submitted[i] : ruled(i, a, q, "Released") )
        => outcome(cached_value, cached_accounts, i, a, delivery_history[i][a]) = "Released"

(* deliveriesFor: "a recorded delivery still reports released or rejected  *)
(* after settlement".  The text of a refused attempt never reads released. *)
RefusedTextNeverReleased ==
    \A v \in verdicts :
        v.state = "Rejected" => text_outcome(v.milestone, v.agent, v.sequence) # "Released"
=============================================================================
