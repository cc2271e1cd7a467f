--------------------------- MODULE JudgingQueues ---------------------------
(***************************************************************************)
(* What the board promises the agents competing for its milestones: they   *)
(* stand in line in the order they delivered, only the head of a line is   *)
(* judged, each milestone pays one agent at most, that agent was the head, *)
(* and nobody is sent away unjudged while the contest is on.               *)
(***************************************************************************)
EXTENDS Integers, Sequences

CONSTANTS Milestones, Agents

VARIABLES
    lines,      \* who waits at each milestone, first come first
    won,        \* the milestones that paid an agent
    paid,       \* what each agent was paid
    over        \* nobody joins any more

Init ==
    /\ lines = [i \in Milestones |-> <<>>]
    /\ won = {}
    /\ paid = [a \in Agents |-> 0]
    /\ over = FALSE

standing(i) == {lines[i][k] : k \in DOMAIN lines[i]}

Join(i, a) ==
    /\ ~over /\ i \notin won
    /\ a \notin standing(i)
    /\ lines' = [lines EXCEPT ![i] = Append(@, a)]
    /\ UNCHANGED <<won, paid, over>>

Reject(i) ==
    /\ lines[i] # <<>> /\ i \notin won
    /\ lines' = [lines EXCEPT ![i] = Tail(@)]
    /\ UNCHANGED <<won, paid, over>>

\* Paying the last milestone ends the contest.
Pay(i) ==
    /\ lines[i] # <<>> /\ i \notin won
    /\ lines' = [lines EXCEPT ![i] = Tail(@)]
    /\ won' = won \union {i}
    /\ \E a \in Agents :
          /\ a = Head(lines[i])
          /\ paid'[a] >= paid[a]
          /\ paid' = [paid EXCEPT ![a] = paid'[a]]
    /\ over' \in {over, TRUE}

End ==
    /\ ~over
    /\ over' = TRUE
    /\ UNCHANGED <<lines, won, paid>>

\* The line without the one at place k, behind whom all move up.
closed_up(line, k) ==
    [n \in 1 .. Len(line) - 1 |-> IF n < k THEN line[n] ELSE line[n + 1]]

Leave(i, k) ==
    /\ over \/ i \in won
    /\ k \in DOMAIN lines[i]
    /\ lines' = [lines EXCEPT ![i] = closed_up(@, k)]
    /\ UNCHANGED <<won, paid, over>>

Next ==
    \/ \E i \in Milestones :
          \/ \E a \in Agents : Join(i, a)
          \/ \E k \in DOMAIN lines[i] : Leave(i, k)
          \/ Reject(i) \/ Pay(i)
    \/ End

Spec == Init /\ [][Next]_<<lines, won, paid, over>>
=============================================================================
