---------------------------- MODULE CommissionPot ----------------------------
(***************************************************************************)
(* What the escrow promises about its money, seen from outside: lamports   *)
(* are put in, then taken out, never more than were put in, and nothing is *)
(* put in once anything was taken out.                                     *)
(***************************************************************************)
EXTENDS Integers

VARIABLES put_in, taken_out

Init == put_in = 0 /\ taken_out = 0

PutIn ==
    /\ taken_out = 0
    /\ put_in' \in Nat /\ put_in' > put_in
    /\ taken_out' = taken_out

TakeOut ==
    /\ taken_out' \in taken_out .. put_in
    /\ put_in' = put_in

Next == PutIn \/ TakeOut

Spec == Init /\ [][Next]_<<put_in, taken_out>>
=============================================================================
