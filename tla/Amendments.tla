----------------------------- MODULE Amendments -----------------------------
(***************************************************************************)
(* The words of a commission: POST and PATCH /api/commissions of           *)
(* server/server.js, over the tables commissions and commission_amendments.*)
(*                                                                         *)
(* The chain fixes the money and the clocks, the server keeps the text.  A *)
(* creator may rewrite it while nothing is waiting to be judged.  A        *)
(* request reads its row, waits for the chain, and only then archives the  *)
(* row it read and writes the new one; the chain, and another request of   *)
(* the same creator, move in between.                                      *)
(***************************************************************************)
EXTENDS Escrow

CONSTANTS
    Requests,       \* PATCH requests that may be in flight together
    MaxEdits        \* bound: wordings ever written

ASSUME EditAssumption == MaxEdits \in Nat

Fields == {"title", "description"}

VARIABLES
    wording,        \* the row: which edit each field comes from; 0, no row
    edits,          \* edits asked for so far
    archive,        \* commission_amendments
    patch           \* a request: how far it got, and what it goes on with

text_vars == <<wording, edits, archive, patch>>
avars == <<vars, text_vars>>

NoText == [f \in Fields |-> 0]
Idle == [ phase |-> "Idle", existing |-> NoText, checked |-> 0 ]

AmendInit ==
    /\ Init
    /\ wording = NoText
    /\ edits = 0
    /\ archive = {}
    /\ patch = [r \in Requests |-> Idle]

CommissionStep == Next /\ UNCHANGED text_vars

\* The creator indexes its commission once it is on chain; the address is unique.
PostText ==
    /\ status # "Uncreated"
    /\ wording = NoText
    /\ edits < MaxEdits
    /\ edits' = edits + 1
    /\ wording' = [f \in Fields |-> edits']
    /\ UNCHANGED <<vars, archive, patch>>

\* The row is read before the chain is asked.
BeginPatch(r) ==
    /\ patch[r].phase = "Idle"
    /\ wording # NoText
    /\ patch' = [patch EXCEPT ![r] =
           [ phase |-> "Asking", existing |-> wording, checked |-> 0 ]]
    /\ UNCHANGED <<vars, wording, edits, archive>>

\* SLIP: only the status is looked at.
mayAmend_while_judging == status \in {"Funding", "Funded"}

mayAmend == unresolved_submissions = 0 /\ status \in {"Funding", "Funded"}

\* The account as the RPC node has it; checked notes how many deliveries there were.
ReadChain(r) ==
    /\ patch[r].phase = "Asking"
    /\ patch' = [patch EXCEPT ![r] =
           IF mayAmend THEN [@ EXCEPT !.phase = "Permitted", !.checked = submissions]
           ELSE Idle]
    /\ UNCHANGED <<vars, wording, edits, archive>>

\* The RPC node does not answer.
PatchFails(r) ==
    /\ patch[r].phase = "Asking"
    /\ patch' = [patch EXCEPT ![r] = Idle]
    /\ UNCHANGED <<vars, wording, edits, archive>>

\* SLIP: the new wording is archived instead of the one it replaces.
superseded_new(r, fields) ==
    [f \in Fields |-> IF f \in fields THEN edits + 1 ELSE patch[r].existing[f]]

superseded(r, fields) == patch[r].existing

\* Fields the caller did not send stay as the request read them.
amendmentRecord(r, fields) ==
    [f \in Fields |-> IF f \in fields THEN edits + 1 ELSE patch[r].existing[f]]

\* One database transaction: archive, then update.
WritePatch(r, fields) ==
    /\ patch[r].phase = "Permitted"
    /\ edits < MaxEdits
    /\ edits' = edits + 1
    /\ archive' = archive \union {superseded(r, fields)}
    /\ wording' = amendmentRecord(r, fields)
    /\ patch' = [patch EXCEPT ![r] = Idle]
    /\ UNCHANGED vars

\* The server stops: what waits for the chain is lost.
ServerStops ==
    /\ patch' = [r \in Requests |-> Idle]
    /\ UNCHANGED <<vars, wording, edits, archive>>

AmendNext ==
    \/ CommissionStep
    \/ PostText
    \/ \E r \in Requests :
          \/ BeginPatch(r) \/ ReadChain(r) \/ PatchFails(r)
          \/ \E fields \in SUBSET Fields : WritePatch(r, fields)
    \/ ServerStops

AmendSpec == AmendInit /\ [][AmendNext]_avars

-----------------------------------------------------------------------------
amends(old, new) == old # NoText /\ old # new

(* mayAmend, and "So an edit never overwrites: the superseded wording is   *)
(* copied here first": no wording leaves the row without being in the      *)
(* archive, and none leaves it under a delivery that was already waiting   *)
(* when the chain was asked: what is unjudged then came in after that.     *)
AmendmentsKeepFaith ==
    [][ amends(wording, wording') =>
          /\ wording \in archive'
          /\ \A r \in Requests :
                patch[r].phase = "Permitted" /\ patch'[r].phase = "Idle"
                => unresolved_submissions <= submissions - patch[r].checked ]_avars
=============================================================================
