--------------------------- MODULE ServiceProofs ---------------------------
(***************************************************************************)
(* What holds around the escrow for any number of wallets, browsers, nodes *)
(* and runs: names, the last payment and its deposits, sessions, and the   *)
(* copies of the database; and, of a page, its way to an endpoint and its  *)
(* list of notifications.  The six share no state with one another.        *)
(***************************************************************************)
EXTENDS Handles, Settlement, Sessions, Backups, RpcPool, Inbox, TLAPS, FiniteSetTheorems

-----------------------------------------------------------------------------
(***************************************************************************)
(* Why a name never changes hands, for any number of wallets and names,    *)
(* and however often the database is lost.                                 *)
(*                                                                         *)
(* The argument: a claim is made once and never goes away, and everything  *)
(* else - a node's view, a scan under way, the rows of the table, those of *)
(* its backup, what was shown - is a part of the claims.  The chain gives  *)
(* a name to one wallet, so nothing taken from it can name two.            *)
(***************************************************************************)

OneWallet == \A n \in Names, v, w \in Wallets : holds(n, v) /\ holds(n, w) => v = w

claimed_rows(table) == \A w \in Wallets : table[w] # NoName => holds(table[w], w)

HandleInv ==
    /\ HandleTypeOK
    /\ OneWallet
    /\ claimed_rows(handles) /\ claimed_rows(saved_handles)
    /\ shown \subseteq claims

(* A claim adds one pair and takes none away, and keeps one wallet a name. *)
LEMMA ClaimKeeps ==
    ASSUME HandleInv, NEW n \in Names, NEW w \in Wallets, ClaimHandle(n, w)
    PROVE  claims \subseteq claims' /\ claims' \subseteq Names \X Wallets /\ OneWallet'
<1>1. claims \subseteq Names \X Wallets
  BY DEF HandleInv, HandleTypeOK
<1>2. \A p \in claims : p[1] # n
  BY <1>1 DEF ClaimHandle, claimable, taken, holds
<1>3. claims' = claims \union {<<n, w>>}
  BY <1>2 DEF ClaimHandle
<1>4. OneWallet'
  <2> SUFFICES ASSUME NEW m \in Names, NEW u \in Wallets, NEW v \in Wallets,
                      <<m, u>> \in claims', <<m, v>> \in claims'
               PROVE  u = v
    BY DEF OneWallet, holds
  <2>1. CASE m = n
    <3>1. <<m, u>> \notin claims /\ <<m, v>> \notin claims
      BY <1>2, <2>1
    <3> QED
      BY <3>1, <1>3
  <2>2. CASE m # n
    <3>1. <<m, u>> \in claims /\ <<m, v>> \in claims
      BY <1>3, <2>2
    <3> QED
      BY <3>1 DEF HandleInv, OneWallet, holds
  <2> QED
    BY <2>1, <2>2
<1> QED
  BY <1>1, <1>3, <1>4

(* Growing claims leave everything that is a part of them a part of them.  *)
LEMMA GrowthKeeps ==
    ASSUME HandleInv, claims \subseteq claims', claims' \subseteq Names \X Wallets, OneWallet',
           node_claims' \in {node_claims, claims'},
           saver' \in [Wallets -> Desks], UNCHANGED <<tables, claims_scan, shown>>
    PROVE  HandleInv'
<1>1. HandleTypeOK'
  BY DEF HandleInv, HandleTypeOK, tables
<1>2. claimed_rows(handles)' /\ claimed_rows(saved_handles)'
  BY DEF HandleInv, claimed_rows, holds, tables
<1>3. shown' \subseteq claims'
  BY DEF HandleInv
<1> QED
  BY <1>1, <1>2, <1>3 DEF HandleInv

(* A step that claims nothing keeps the invariant if what it writes comes  *)
(* from the claims.                                                        *)
LEMMA WritingKeeps ==
    ASSUME HandleInv, UNCHANGED chain_side,
           handles' \in [Wallets -> Names \union {NoName}],
           saved_handles' \in [Wallets -> Names \union {NoName}],
           claims_scan'.found \subseteq claims, saver' \in [Wallets -> Desks],
           claimed_rows(handles'), claimed_rows(saved_handles'),
           shown' \subseteq claims
    PROVE  HandleInv'
<1>1. HandleTypeOK'
  BY DEF HandleInv, HandleTypeOK, chain_side
<1>2. OneWallet'
  BY DEF HandleInv, OneWallet, holds, chain_side
<1>3. claimed_rows(handles)' /\ claimed_rows(saved_handles)'
  BY DEF claimed_rows, holds, chain_side
<1>4. shown' \subseteq claims'
  BY DEF chain_side
<1> QED
  BY <1>1, <1>2, <1>3, <1>4 DEF HandleInv

(* Nothing is claimed, recorded or shown in the beginning.                 *)
LEMMA HandleInitInv == ASSUME HandleInit PROVE HandleInv
<1>1. HandleTypeOK
  BY DEF HandleInit, HandleTypeOK, NoHandles, NoClaimsScan, AtDesk, Desks
<1>2. OneWallet /\ shown \subseteq claims
  BY DEF HandleInit, OneWallet, holds
<1>3. claimed_rows(handles) /\ claimed_rows(saved_handles)
  BY DEF HandleInit, claimed_rows, NoHandles
<1> QED
  BY <1>1, <1>2, <1>3 DEF HandleInv

(* Every step of chain, pages and server keeps the invariant.              *)
LEMMA HandleStepInv == ASSUME HandleInv, [HandleNext]_handle_vars PROVE HandleInv'
<1>typed. /\ handles \in [Wallets -> Names \union {NoName}]
          /\ saved_handles \in [Wallets -> Names \union {NoName}]
          /\ node_claims \subseteq claims /\ claims \subseteq Names \X Wallets
          /\ claims_scan.found \subseteq claims
          /\ saver \in [Wallets -> Desks]
  BY DEF HandleInv, HandleTypeOK
<1>rows. /\ claimed_rows(handles) /\ claimed_rows(saved_handles)
         /\ shown \subseteq claims /\ OneWallet
  BY DEF HandleInv
<1>1. ASSUME NEW n \in Names, NEW w \in Wallets, ClaimElsewhere(n, w) PROVE HandleInv'
  BY <1>1, <1>typed, ClaimKeeps, GrowthKeeps DEF ClaimElsewhere
<1>2. ASSUME NEW n \in Names, NEW w \in Wallets, saveHandle(w, n) PROVE HandleInv'
  <2>1. saver' \in [Wallets -> Desks]
    BY <1>2, <1>typed DEF saveHandle, Desks
  <2> QED
    BY <1>2, <2>1, <1>typed, <1>rows, WritingKeeps DEF saveHandle, tables
<1>3. ASSUME NEW n \in Names, NEW w \in Wallets, PostHandle(n, w) PROVE HandleInv'
  <2>1. saver' \in [Wallets -> Desks]
    BY <1>3, <1>typed DEF PostHandle, AtDesk, Desks
  <2>2. handles' = [handles EXCEPT ![w] = n] /\ holds(n, w)
    BY <1>3, <1>typed DEF PostHandle, recordable, holds
  <2>3. handles' \in [Wallets -> Names \union {NoName}]
    BY <2>2, <1>typed
  <2>4. claimed_rows(handles')
    BY <2>2, <1>typed, <1>rows DEF claimed_rows
  <2>5. UNCHANGED <<chain_side, saved_handles, claims_scan, shown>>
    BY <1>3 DEF PostHandle
  <2> QED
    BY <2>1, <2>3, <2>4, <2>5, <1>typed, <1>rows, WritingKeeps
<1>4. ASSUME NEW w \in Wallets, PageClaims(w) PROVE HandleInv'
  <2>1. saver[w] \in [ stage : {"Claim", "Record"}, name : Names ]
    BY <1>4, <1>typed DEF PageClaims, Desks
  <2>2. PICK n \in Names : n = saver[w].name
    BY <2>1
  <2>3. ClaimHandle(n, w) /\ UNCHANGED <<node_claims, tables, claims_scan, shown>>
    BY <1>4, <2>2 DEF PageClaims
  <2>4. saver' \in [Wallets -> Desks]
    BY <1>4, <2>1, <1>typed DEF PageClaims, turn_to, Desks
  <2> QED
    BY <2>3, <2>4, ClaimKeeps, GrowthKeeps
<1>5. ASSUME NEW w \in Wallets, PageGivesUp(w) PROVE HandleInv'
  <2>1. saver' \in [Wallets -> Desks]
    BY <1>5, <1>typed DEF PageGivesUp, AtDesk, Desks
  <2> QED
    BY <1>5, <2>1, <1>typed, <1>rows, WritingKeeps DEF PageGivesUp, tables
<1>6. ASSUME NEW w \in Wallets, Show(w) PROVE HandleInv'
  <2>1. handlesFor(w) \subseteq claims
    BY <1>rows DEF handlesFor, claimed_rows, holds
  <2> QED
    BY <1>6, <2>1, <1>typed, <1>rows, WritingKeeps DEF Show, tables
<1>7. ASSUME NodeCatchesUp PROVE HandleInv'
  <2>1. OneWallet'
    BY <1>7, <1>rows DEF NodeCatchesUp, OneWallet, holds
  <2> QED
    BY <1>7, <2>1, <1>typed, GrowthKeeps DEF NodeCatchesUp
<1>8. ASSUME ScanReads PROVE HandleInv'
  BY <1>8, <1>typed, <1>rows, WritingKeeps DEF ScanReads, tables
<1>9. ASSUME ScanWrites PROVE HandleInv'
  BY <1>9, <1>typed, <1>rows, WritingKeeps DEF ScanWrites, NoClaimsScan
<1>10. ASSUME BackupHandles PROVE HandleInv'
  BY <1>10, <1>typed, <1>rows, WritingKeeps DEF BackupHandles
<1>11. ASSUME DatabaseLost PROVE HandleInv'
  <2>1. claimed_rows(NoHandles) /\ NoHandles \in [Wallets -> Names \union {NoName}]
    BY DEF claimed_rows, NoHandles
  <2> QED
    BY <1>11, <2>1, <1>typed, <1>rows, WritingKeeps DEF DatabaseLost, NoClaimsScan
<1>12. ASSUME UNCHANGED handle_vars PROVE HandleInv'
  BY <1>12, <1>typed, <1>rows, WritingKeeps DEF handle_vars, tables
<1> QED
  BY <1>1, <1>2, <1>3, <1>4, <1>5, <1>6, <1>7, <1>8, <1>9, <1>10, <1>11, <1>12
  DEF HandleNext

(* The invariant holds throughout, and with it the types.                  *)
THEOREM HandleInvariant == HandleSpec => [](HandleInv /\ HandleTypeOK)
<1>1. HandleInv => HandleTypeOK
  BY DEF HandleInv
<1> QED
  BY <1>1, HandleInitInv, HandleStepInv, PTL DEF HandleSpec

(* NameNeverInherited: a name once shown for a wallet is never shown for   *)
(* another, for every number of wallets and names and every loss of the    *)
(* database (ClaimHandle, POST /api/v1/handle and handlesFor).             *)
THEOREM NamesAreForLife == HandleSpec => []NameNeverInherited
<1>1. HandleInv => NameNeverInherited
  <2> SUFFICES ASSUME HandleInv, NEW p \in shown, NEW q \in shown, p[1] = q[1]
               PROVE  p[2] = q[2]
    BY DEF NameNeverInherited
  <2>1. p \in Names \X Wallets /\ q \in Names \X Wallets
    BY DEF HandleInv, HandleTypeOK
  <2>2. holds(p[1], p[2]) /\ holds(q[1], q[2])
    BY <2>1 DEF HandleInv, holds
  <2> QED
    BY <2>1, <2>2 DEF HandleInv, OneWallet
<1> QED
  BY <1>1, HandleInvariant, PTL

(* RecordNeverClashes: the unique key of the handles table never refuses a *)
(* wallet whose claim the server's node confirms.                          *)
THEOREM ClaimsCanBeRecorded == HandleSpec => []RecordNeverClashes
<1>1. HandleInv => RecordNeverClashes
  <2> SUFFICES ASSUME HandleInv, NEW n \in Names, NEW w \in Wallets, recordable(n, w),
                      NEW v \in Wallets \ {w}, handles[v] = n
               PROVE  FALSE
    BY DEF RecordNeverClashes, unique_in
  <2>1. holds(n, w)
    BY DEF recordable, holds, HandleInv, HandleTypeOK
  <2>2. n # NoName
    BY HandleAssumption
  <2>3. holds(n, v)
    BY <2>2 DEF HandleInv, claimed_rows
  <2> QED
    BY <2>1, <2>3 DEF HandleInv, OneWallet
<1> QED
  BY <1>1, HandleInvariant, PTL

-----------------------------------------------------------------------------
(***************************************************************************)
(* However many browsers, copies in flight, cranks and sweeps there are:   *)
(* no pledge is paid twice or lost, and housekeeping refuses no payment    *)
(* but that of a delivery left unpaid beyond its grace period.             *)
(***************************************************************************)

\* What the accounts say of the money: a pledge account is open until its money is
\* out, unless the milestone was released; and the delivery's account goes only
\* once it is judged, or unprotected on a commission that ended.
true_to_money(st, open, pd) ==
    /\ st \in {"Funded", "Cancelled", "Delivered"}
    /\ open \subseteq Deposits
    /\ pd \in [Pledges -> {0, 1}]
    /\ st # "Delivered" => \A p \in Pledges : pd[p] = 0 <=> p \in open
    /\ st = "Delivered" \/ "vault" \notin open => \A p \in Pledges : pd[p] = 1
    /\ Due \notin open =>
          \/ unworthy \/ st = "Delivered"
          \/ "grace" \in passed /\ (st = "Cancelled" \/ "work" \in passed)
    /\ st = "Cancelled" => unworthy \/ "grace" \in passed

MoneyOK ==
    /\ true_to_money(status, deposits, paid)
    /\ "grace" \in passed => "review" \in passed

\* What a browser is doing is a record, whatever the list of closes it carries.
DeskOK ==
    /\ DOMAIN desk = Payers
    /\ \A w \in Payers : DOMAIN desk[w] = {"stage", "pays", "closes"}
    /\ \A tx \in flying : tx.by \in Payers

SettlementInv == MoneyOK /\ DeskOK

\* Every payer is at rest and nothing is in flight at first.
LEMMA InitSettlementInv == SettlementInit => SettlementInv
<1> SUFFICES ASSUME SettlementInit PROVE SettlementInv
  OBVIOUS
<1>1. DOMAIN AtRest = {"stage", "pays", "closes"}
  BY DEF AtRest
<1>2. DOMAIN desk = Payers /\ \A w \in Payers : desk[w] = AtRest
  BY DEF SettlementInit
<1>3. DeskOK
  BY <1>1, <1>2 DEF DeskOK, SettlementInit
<1>4. "vault" \in Deposits /\ Due \in Deposits /\ Pledges \subseteq Deposits
  BY DEF Deposits, Claims
<1>5. "grace" \notin passed
  BY SettlementAssumption DEF SettlementInit
<1>6. true_to_money(status, deposits, paid)
  BY <1>4 DEF SettlementInit, true_to_money
<1> QED
  BY <1>3, <1>5, <1>6 DEF SettlementInv, MoneyOK

paid_after(a) == [p \in Pledges |-> IF p \in taken_by(a) THEN paid[p] + 1 ELSE paid[p]]

(* A payment the program accepts takes what had not been paid yet.         *)
LEMMA PaymentSound ==
    ASSUME MoneyOK, NEW a, payable(a)
    PROVE  true_to_money(status_after(a), open_after(a), paid_after(a))
<1> USE DEF MoneyOK, true_to_money
<1>0. \A p \in Pledges : paid[p] \in {0, 1}
  OBVIOUS
<1>1. CASE a \in Pledges
  <2>1. /\ status_after(a) = status /\ open_after(a) = deposits \ {a}
        /\ a \in deposits /\ "vault" \in deposits
    BY <1>1 DEF status_after, open_after, payable
  <2>2. a # "vault" /\ a # Due
    BY <1>1, SettlementAssumption DEF Claims
  <2>3. CASE status = "Delivered"
    <3>1. taken_by(a) = {}
      BY <2>1, <2>3 DEF taken_by, escrow_remaining
    <3>2. \A p \in Pledges : paid_after(a)[p] = 1
      BY <2>3, <3>1 DEF paid_after
    <3>3. paid_after(a) \in [Pledges -> {0, 1}]
      BY <3>2 DEF paid_after
    <3> QED
      BY <2>1, <2>2, <2>3, <3>2, <3>3
  <2>4. CASE status # "Delivered"
    <3>1. taken_by(a) = {a}
      BY <1>1, <2>1, <2>4 DEF taken_by, escrow_remaining
    <3>2. paid[a] = 0
      BY <1>1, <2>1, <2>4
    <3>3. \A p \in Pledges : paid_after(a)[p] = IF p = a THEN 1 ELSE paid[p]
      BY <3>1, <3>2 DEF paid_after
    <3>4. paid_after(a) \in [Pledges -> {0, 1}]
      BY <1>0, <3>3 DEF paid_after
    <3> QED
      BY <2>1, <2>2, <2>4, <3>3, <3>4
  <2> QED
    BY <2>3, <2>4
<1>2. CASE a \notin Pledges
  <2>1. /\ status_after(a) = "Delivered" /\ open_after(a) = deposits
        /\ status # "Delivered"
    BY <1>2 DEF status_after, open_after, payable
  <2>2. taken_by(a) = Pledges \intersect deposits
    BY <2>1 DEF taken_by, escrow_remaining
  <2>3. \A p \in Pledges : paid_after(a)[p] = 1
    BY <1>0, <2>1, <2>2 DEF paid_after
  <2>4. paid_after(a) \in [Pledges -> {0, 1}]
    BY <2>3 DEF paid_after
  <2> QED
    BY <2>1, <2>3, <2>4
<1> QED
  BY <1>1, <1>2

(* Closing what may be closed - now, or in a payment's own transaction -   *)
(* forgets no money and no delivery that may still be paid.                *)
LEMMA ClosesSound ==
    ASSUME NEW st, NEW open, NEW pd, true_to_money(st, open, pd),
           open \subseteq deposits, status = "Delivered" => st = "Delivered",
           NEW gone, \A d \in gone : closable(d, open, st)
    PROVE  true_to_money(st, open \ gone, pd)
<1> USE DEF true_to_money
<1>1. \A p \in Pledges : p \in gone => st = "Delivered"
  <2> SUFFICES ASSUME NEW p \in Pledges, p \in gone PROVE st = "Delivered"
    OBVIOUS
  <2>1. p # "vault" /\ p \notin Claims
    BY SettlementAssumption
  <2> QED
    BY <2>1 DEF closable, Claims, pledge_settled
<1>2. "vault" \in gone => \A p \in Pledges : pd[p] = 1
  <2> SUFFICES ASSUME "vault" \in gone, NEW p \in Pledges PROVE pd[p] = 1
    OBVIOUS
  <2>1. "vault" \notin Pledges /\ "vault" \notin Claims
    BY SettlementAssumption
  <2>2. vault_settled(open, st)
    BY <2>1 DEF closable, Claims
  <2>3. st = "Delivered" \/ p \notin open
    BY <2>2 DEF vault_settled
  <2> QED
    BY <2>3
<1>3. Due \in gone =>
          \/ unworthy \/ st = "Delivered"
          \/ "grace" \in passed /\ (st = "Cancelled" \/ "work" \in passed)
  <2> SUFFICES ASSUME Due \in gone, ~unworthy, st # "Delivered"
               PROVE  "grace" \in passed /\ (st = "Cancelled" \/ "work" \in passed)
    OBVIOUS
  <2>1. Due # "vault" /\ Due \notin Pledges /\ Due \notin Judged /\ Due \notin Intents
    BY SettlementAssumption DEF Claims
  <2>2. Due \in open /\ submission_settled(Due, st)
    BY <2>1 DEF closable
  <2>3. CASE st = "Cancelled"
    BY <2>3
  <2>4. CASE "work" \in passed /\ ~claim_protected
    BY <2>2, <2>4 DEF claim_protected
  <2> QED
    BY <2>1, <2>2, <2>3, <2>4 DEF submission_settled
<1> QED
  BY <1>1, <1>2, <1>3

\* Accounts go home that may be closed, and nothing else happens to the money.
Closes(gone) ==
    /\ deposits' = deposits \ gone
    /\ \A d \in gone : closable(d, deposits, status)
    /\ UNCHANGED <<status, passed, unworthy, paid>>

\* Only what may be closed is closed, by whomever.
LEMMA ClosesKeepMoney == ASSUME MoneyOK, NEW gone, Closes(gone) PROVE MoneyOK'
<1>1. true_to_money(status, deposits \ gone, paid)
  BY ClosesSound DEF MoneyOK, Closes
<1> QED
  BY <1>1 DEF MoneyOK, Closes, true_to_money

\* A payment and the closes it carries keep the accounts true to the money.
LEMMA LandKeepsMoney == ASSUME MoneyOK, NEW tx, Land(tx) PROVE MoneyOK'
<1>1. /\ payable(tx.pays)
      /\ \A d \in Range(tx.closes) :
            closable(d, open_after(tx.pays), status_after(tx.pays))
  BY DEF Land, accepted
<1>2. true_to_money(status_after(tx.pays), open_after(tx.pays), paid_after(tx.pays))
  BY <1>1, PaymentSound
<1>3. open_after(tx.pays) \subseteq deposits
  BY DEF open_after
<1>4. status = "Delivered" => status_after(tx.pays) = "Delivered"
  BY DEF status_after
<1>5. true_to_money(status_after(tx.pays), open_after(tx.pays) \ Range(tx.closes),
                    paid_after(tx.pays))
  BY <1>1, <1>2, <1>3, <1>4, ClosesSound
<1>6. /\ status' = status_after(tx.pays) /\ paid' = paid_after(tx.pays)
      /\ deposits' = open_after(tx.pays) \ Range(tx.closes)
      /\ UNCHANGED <<passed, unworthy>>
  BY DEF Land, paid_after
<1> QED
  BY <1>5, <1>6 DEF MoneyOK, true_to_money

\* Time passes, the creator refuses, or anybody cancels.
LEMMA CommissionKeepsMoney ==
    ASSUME MoneyOK, Cancel \/ RejectDelivery \/ \E t \in Times : TimePasses(t)
    PROVE  MoneyOK'
<1> USE DEF MoneyOK, true_to_money
<1>1. CASE Cancel
  <2>1. unworthy \/ "grace" \in passed
    BY <1>1 DEF Cancel, claim_protected
  <2> QED
    BY <1>1, <2>1 DEF Cancel
<1>2. CASE RejectDelivery
  BY <1>2 DEF RejectDelivery
<1>3. ASSUME NEW t \in Times, TimePasses(t) PROVE MoneyOK'
  BY <1>3 DEF TimePasses
<1> QED
  BY <1>1, <1>2, <1>3

-----------------------------------------------------------------------------
\* What turning from one thing to another leaves of a desk.
Turns(w, d) == w \in Payers /\ turn(w, d) /\ DOMAIN d = {"stage", "pays", "closes"}

\* A turn gives its own desk what it says and leaves the others.
LEMMA TurnedDesk ==
    ASSUME DeskOK, NEW w \in Payers, NEW d, Turns(w, d)
    PROVE  /\ desk'[w] = d
           /\ \A v \in Payers : v # w => desk'[v] = desk[v]
           /\ DOMAIN desk' = Payers
           /\ \A v \in Payers : DOMAIN desk'[v] = {"stage", "pays", "closes"}
<1>1. /\ DOMAIN desk' = Payers
      /\ desk'[w] = d
      /\ \A v \in Payers : v # w => desk'[v] = desk[v]
  BY DEF Turns, turn, DeskOK
<1> QED
  BY <1>1 DEF Turns, DeskOK

(* A second attempt is made, or it is given up and the end noted.          *)
LEMMA Retried ==
    ASSUME DeskOK, NEW w \in Payers, NEW end
    PROVE  /\ DOMAIN retried(w, end) = {"stage", "pays", "closes"}
           /\ IF desk[w].closes = <<>> THEN retried(w, end).stage = end
              ELSE retried(w, end).stage = "Simulate"
<1>0. DOMAIN desk[w] = {"stage", "pays", "closes"}
  BY DEF DeskOK
<1>1. CASE desk[w].closes = <<>>
  <2>1. retried(w, end) = [AtRest EXCEPT !.stage = end]
    BY <1>1 DEF retried
  <2> QED
    BY <1>1, <2>1 DEF AtRest
<1>2. CASE desk[w].closes # <<>>
  <2>1. retried(w, end) = [desk[w] EXCEPT !.stage = "Simulate", !.closes = <<>>]
    BY <1>2 DEF retried
  <2> QED
    BY <1>0, <1>2, <2>1
<1> QED
  BY <1>1, <1>2

(* The program refuses a lone payment only for reasons that are beyond     *)
(* housekeeping.                                                           *)
LEMMA RefusedAlone ==
    ASSUME MoneyOK, NEW a, ~accepted(a, <<>>) PROVE beyond_housekeeping(a)
<1> USE DEF MoneyOK, true_to_money
<1>0. ~payable(a)
  BY DEF accepted, Range
<1>1. CASE a \in Pledges
  BY <1>0, <1>1 DEF payable, beyond_housekeeping
<1>2. CASE a \notin Pledges
  <2>1. "vault" \notin deposits \/ status = "Delivered"
        => \A p \in Pledges : paid[p] = 1
    OBVIOUS
  <2>2. escrow_remaining(deposits, status) = {} => \A p \in Pledges : paid[p] = 1
    BY DEF escrow_remaining
  <2>3. Due \notin deposits => unworthy \/ status = "Delivered" \/ lapsed
    BY DEF lapsed
  <2> QED
    BY <1>0, <1>2, <2>1, <2>2, <2>3 DEF payable, beyond_housekeeping
<1> QED
  BY <1>1, <1>2

\* A desk turned by one browser: the others stay, and a refusal has its reason.
Turned(w) ==
    /\ DOMAIN desk' = Payers
    /\ \A v \in Payers : DOMAIN desk'[v] = {"stage", "pays", "closes"}
    /\ \A v \in Payers : v # w => desk'[v] = desk[v]
    /\ desk'[w].stage = "Refused" =>
          desk[w].stage = "Refused" \/ ~accepted(desk[w].pays, <<>>)

\* Giving an attempt up on a refusal means that it went alone.
LEMMA RetryTurns ==
    ASSUME DeskOK, NEW w \in Payers, NEW end, turn(w, retried(w, end)),
           end = "Refused" => ~accepted(desk[w].pays, desk[w].closes)
    PROVE  Turned(w)
<1>1. Turns(w, retried(w, end))
  BY Retried DEF Turns
<1>2. desk'[w] = retried(w, end)
  BY <1>1, TurnedDesk
<1>3. desk'[w].stage = "Refused" => end = "Refused" /\ desk[w].closes = <<>>
  BY <1>2, Retried
<1> QED
  BY <1>1, <1>3, TurnedDesk DEF Turned

\* Any other turn refuses nobody.
LEMMA OtherTurns ==
    ASSUME DeskOK, NEW w \in Payers, NEW d, Turns(w, d), d.stage # "Refused"
    PROVE  Turned(w)
  BY TurnedDesk DEF Turned

\* A step of a browser moves neither money nor deposits.
LEMMA PayerTurns ==
    ASSUME SettlementInv, NEW w \in Payers, PayerStep(w)
    PROVE  /\ UNCHANGED chain_vars
           /\ Turned(w)
           /\ \A tx \in flying' : tx.by \in Payers
<1>0. DeskOK
  BY DEF SettlementInv
<1>1. UNCHANGED chain_vars
  BY DEF PayerStep, BeginAction, Simulate, Decline, Submit, PollTimesOut, chain_vars
<1>2. \A tx \in flying' : tx.by \in Payers
  BY <1>0 DEF DeskOK, PayerStep, BeginAction, Simulate, Decline, Submit, PollTimesOut
<1>3. Turned(w)
  <2>0. DOMAIN desk[w] = {"stage", "pays", "closes"}
    BY <1>0 DEF DeskOK
  <2>1. CASE BeginAction(w)
    <3>1. PICK a, closes :
              turn(w, [ stage |-> "Simulate", pays |-> a, closes |-> closes ])
      BY <2>1 DEF BeginAction
    <3>2. PICK d : d = [ stage |-> "Simulate", pays |-> a, closes |-> closes ]
      OBVIOUS
    <3>3. d.stage = "Simulate" /\ DOMAIN d = {"stage", "pays", "closes"}
      BY <3>2
    <3>4. Turns(w, d)
      BY <3>1, <3>2, <3>3 DEF Turns
    <3> QED
      BY <1>0, <3>3, <3>4, OtherTurns
  <2>2. ASSUME NEW s \in {"Sign", "Confirm"}, turn(w, [desk[w] EXCEPT !.stage = s])
        PROVE  Turned(w)
    <3>1. PICK d : d = [desk[w] EXCEPT !.stage = s]
      OBVIOUS
    <3>2. d.stage # "Refused" /\ DOMAIN d = {"stage", "pays", "closes"}
      BY <2>0, <3>1
    <3>3. Turns(w, d)
      BY <2>2, <3>1, <3>2 DEF Turns
    <3> QED
      BY <1>0, <3>2, <3>3, OtherTurns
  <2>3. CASE ~desk_accepted(w) /\ turn(w, retried(w, "Refused"))
    BY <1>0, <2>3, RetryTurns DEF desk_accepted
  <2>4. CASE turn(w, retried(w, "Over"))
    BY <1>0, <2>4, RetryTurns
  <2> QED
    BY <2>1, <2>2, <2>3, <2>4 DEF PayerStep, Simulate, Decline, Submit, PollTimesOut
<1> QED
  BY <1>1, <1>2, <1>3

\* A transaction that lands or is dropped turns the browser that sent it, if any.
LEMMA FlightTurns ==
    ASSUME SettlementInv, NEW tx \in flying, LandsAtLast(tx) \/ Drops(tx)
    PROVE  (UNCHANGED desk \/ Turned(tx.by)) /\ tx.by \in Payers /\ flying' \subseteq flying
<1>0. DeskOK /\ tx.by \in Payers
  BY DEF SettlementInv, DeskOK
<1>1. flying' \subseteq flying
  BY DEF LandsAtLast, Drops
<1>2. CASE turn(tx.by, [AtRest EXCEPT !.stage = "Over"])
  <2>1. PICK d : d = [AtRest EXCEPT !.stage = "Over"]
    OBVIOUS
  <2>2. d.stage = "Over" /\ DOMAIN d = {"stage", "pays", "closes"}
    BY <2>1 DEF AtRest
  <2>3. Turns(tx.by, d)
    BY <1>0, <1>2, <2>1, <2>2 DEF Turns
  <2>4. Turned(tx.by)
    BY <1>0, <2>2, <2>3, OtherTurns
  <2> QED
    BY <1>0, <1>1, <2>4
<1>3. CASE /\ ~accepted(tx.pays, tx.closes) /\ polls(tx.by, tx)
           /\ turn(tx.by, retried(tx.by, "Refused"))
  <2>1. ~accepted(desk[tx.by].pays, desk[tx.by].closes)
    BY <1>3 DEF polls
  <2>2. Turned(tx.by)
    BY <1>0, <1>3, <2>1, RetryTurns
  <2> QED
    BY <1>0, <1>1, <2>2
<1> QED
  BY <1>0, <1>1, <1>2, <1>3 DEF LandsAtLast, Drops

\* What anybody else does, and what lands, keeps the accounts true to the money.
LEMMA OthersKeepMoney ==
    ASSUME SettlementInv, SettlementNext, \A w \in Payers : ~PayerStep(w)
    PROVE  MoneyOK'
<1>0. MoneyOK
  BY DEF SettlementInv
<1>1. ASSUME NEW tx \in flying, LandsAtLast(tx) PROVE MoneyOK'
  BY <1>0, <1>1, LandKeepsMoney DEF LandsAtLast
<1>2. ASSUME NEW tx \in flying, Drops(tx) PROVE MoneyOK'
  <2>1. UNCHANGED <<status, passed, unworthy, paid, deposits>>
    BY <1>2 DEF Drops, chain_vars
  <2> QED
    BY <1>0, <2>1 DEF MoneyOK, true_to_money
<1>3. CASE Cancel \/ RejectDelivery \/ \E t \in Times : TimePasses(t)
  BY <1>0, <1>3, CommissionKeepsMoney
<1>4. ASSUME NEW d \in Deposits, CrankClose(d) PROVE MoneyOK'
  <2>1. Closes({d})
    BY <1>4 DEF CrankClose, Closes
  <2> QED
    BY <1>0, <2>1, ClosesKeepMoney
<1>5. CASE SweepScan
  <2>1. Closes({})
    BY <1>5 DEF SweepScan, Closes, chain_vars
  <2> QED
    BY <1>0, <2>1, ClosesKeepMoney
<1>6. CASE SweepBatch
  <2>1. Closes(Range(batch)) \/ Closes({})
    BY <1>6 DEF SweepBatch, Closes
  <2> QED
    BY <1>0, <2>1, ClosesKeepMoney
<1> QED
  BY <1>1, <1>2, <1>3, <1>4, <1>5, <1>6 DEF SettlementNext

\* Whoever steps, one desk is turned at most.
LEMMA OneDeskTurns ==
    ASSUME SettlementInv, SettlementNext
    PROVE  /\ UNCHANGED desk \/ \E w \in Payers : Turned(w)
           /\ \A tx \in flying' : tx.by \in Payers
<1>0. \A tx \in flying : tx.by \in Payers
  BY DEF SettlementInv, DeskOK
<1>1. ASSUME NEW w \in Payers, PayerStep(w)
      PROVE  Turned(w) /\ \A tx \in flying' : tx.by \in Payers
  BY <1>1, PayerTurns
<1>2. ASSUME NEW tx \in flying, LandsAtLast(tx) \/ Drops(tx)
      PROVE  (UNCHANGED desk \/ \E w \in Payers : Turned(w)) /\ flying' \subseteq flying
  BY <1>2, FlightTurns
<1>3. CASE \/ \E t \in Times : TimePasses(t)
           \/ Cancel \/ RejectDelivery \/ \E d \in Deposits : CrankClose(d)
           \/ SweepScan \/ SweepBatch
  <2>1. UNCHANGED <<desk, flying>>
    BY <1>3 DEF TimePasses, Cancel, RejectDelivery, CrankClose, SweepScan, SweepBatch
  <2> QED
    BY <1>0, <2>1
<1> QED
  BY <1>0, <1>1, <1>2, <1>3 DEF SettlementNext

\* Every step of a payer, of the sweeper or of the chain keeps it.
LEMMA StepSettlementInv == SettlementInv /\ [SettlementNext]_settle_vars => SettlementInv'
<1> SUFFICES ASSUME SettlementInv, [SettlementNext]_settle_vars PROVE SettlementInv'
  OBVIOUS
<1>1. CASE UNCHANGED settle_vars
  BY <1>1 DEF settle_vars, SettlementInv, MoneyOK, true_to_money, DeskOK
<1>2. CASE SettlementNext
  <2>1. DeskOK'
    BY <1>2, OneDeskTurns DEF SettlementInv, DeskOK, Turned
  <2>2. CASE \E w \in Payers : PayerStep(w)
    <3>1. UNCHANGED <<status, passed, unworthy, paid, deposits>>
      BY <2>2, PayerTurns DEF chain_vars
    <3> QED
      BY <2>1, <3>1 DEF SettlementInv, MoneyOK, true_to_money
  <2>3. CASE \A w \in Payers : ~PayerStep(w)
    BY <1>2, <2>1, <2>3, OthersKeepMoney DEF SettlementInv
  <2> QED
    BY <2>2, <2>3
<1> QED
  BY <1>1, <1>2

\* So it holds in every state.
LEMMA SettlementAlways == SettlementSpec => []SettlementInv
  BY InitSettlementInv, StepSettlementInv, PTL DEF SettlementSpec

(* For any number of browsers and copies in flight - of the creator's      *)
(* release, of the agent's collection, of refunds - the money of a pledge  *)
(* leaves the vault once, and neither the pledge nor the vault is closed   *)
(* before.                                                                 *)
THEOREM OnePayment == SettlementSpec => []PaidOnce
<1>1. SettlementInv => PaidOnce
  BY DEF SettlementInv, MoneyOK, true_to_money, PaidOnce
<1> QED
  BY <1>1, SettlementAlways, PTL

(* Whatever closes, sweeps, deadlines and other browsers did meanwhile, a  *)
(* browser gives up on a refusal only where the money is gone, the creator *)
(* refused, the time has not come, or a delivery left unpaid beyond its    *)
(* grace period was closed.                                                *)
THEOREM NeverBlocked == SettlementSpec => NeverBlockedByHousekeeping
<1>1. SettlementInv /\ [SettlementNext]_settle_vars
      => [\A w \in Payers :
            desk[w].stage # "Refused" /\ desk'[w].stage = "Refused"
            => beyond_housekeeping(desk[w].pays)]_settle_vars
  <2> SUFFICES ASSUME SettlementInv, SettlementNext, NEW w \in Payers,
                      desk[w].stage # "Refused", desk'[w].stage = "Refused"
               PROVE  beyond_housekeeping(desk[w].pays)
    OBVIOUS
  <2>1. PICK v \in Payers : Turned(v)
    BY OneDeskTurns
  <2>2. ~accepted(desk[w].pays, <<>>)
    BY <2>1 DEF Turned
  <2> QED
    BY <2>2, RefusedAlone DEF SettlementInv
<1> QED
  BY <1>1, SettlementAlways, PTL DEF SettlementSpec, NeverBlockedByHousekeeping

-----------------------------------------------------------------------------
(***************************************************************************)
(* Whoever asks for challenges, signs, repeats and connects, and however   *)
(* the answers are delayed: a challenge opens one session, and the page    *)
(* knows whose session its cookie names.                                   *)
(***************************************************************************)

Somebody == Accounts \union {NoAccount}
Nonces == [ nonce : Nat, expires : Nat, used : BOOLEAN ]
Messages == [ wallet : Accounts, nonce : Nat, expires : Nat ]
SessionRows == [ wallet : Accounts, nonce : Nat, expires : Nat, at : Nat ]
Pages == [ wallet : Somebody, provider : Somebody, session : BOOLEAN,
           sessionWallet : Somebody,
           authStatus : {"disconnected", "connected", "signing", "authenticated"},
           leaving_for : Somebody, leaving_with : Nat ]
Boots == [ stage : {"Done", "Session", "Wallet"}, wallet : Somebody, sent_with : Nat,
           late : BOOLEAN ]
AttemptRows == [ stage : {"Idle", "Challenge", "Sign", "Verify"}, wallet : Somebody,
                 nonce : Nat, expires : Nat, signer : Somebody ]

SignInTypeOK ==
    /\ auth_clock \in Nat /\ issued \in Nat /\ cookie \in Nat
    /\ auth_nonces \in [Accounts -> Nonces]
    /\ signatures \subseteq Messages
    /\ opened \subseteq SessionRows
    /\ page \in Pages
    /\ attempt \in [Attempts -> AttemptRows]
    /\ \A f \in Attempts : busy(f) => attempt[f].wallet \in Accounts

\* A nonce is one wallet's, and one that opened a session is spent.
NoncesFresh ==
    /\ \A w \in Accounts : auth_nonces[w].nonce <= issued
    /\ \A w, v \in Accounts :
          auth_nonces[w].nonce = auth_nonces[v].nonce /\ auth_nonces[w].nonce # 0 => w = v
    /\ \A s \in opened : s.nonce <= issued /\ s.nonce # 0
    /\ \A s \in opened, w \in Accounts :
          s.nonce = auth_nonces[w].nonce => auth_nonces[w].used

SessionsEarned ==
    /\ sessions \subseteq opened
    /\ \A s, u \in opened : s.nonce = u.nonce => s = u
    /\ \A s \in opened : \E m \in signatures :
          m.nonce = s.nonce /\ m.wallet = s.wallet /\ m.expires >= s.at

\* A challenge opened a session for a wallet, and while it has not run out it is on file.
named(n, w) == \E s \in opened : s.nonce = n /\ s.wallet = w
lives(n) == \A s \in opened : s.nonce = n /\ s.expires > auth_clock => s \in sessions

PageRight ==
    page.session /\ page.leaving_for = NoAccount /\ ~boot.late =>
        named(cookie, page.sessionWallet) /\ lives(cookie)

\* The answer under way is right as long as the cookie is the one it was sent with.
BootRight ==
    boot.stage = "Session" =>
        /\ ~boot.late
        /\ boot.wallet # NoAccount =>
              /\ named(boot.sent_with, boot.wallet)
              /\ cookie = boot.sent_with => lives(cookie)

PageKnows == boot \in Boots /\ PageRight /\ BootRight

SignInInv == SignInTypeOK /\ NoncesFresh /\ SessionsEarned /\ PageKnows

\* There is no session and no nonce at first.
LEMMA InitSignInInv == SignInInit => SignInInv
<1> SUFFICES ASSUME SignInInit PROVE SignInInv
  OBVIOUS
<1>1. NoNonce \in Nonces /\ Blank \in Pages /\ NoAttempt \in AttemptRows
  BY DEF NoNonce, Nonces, Blank, Pages, NoAttempt, AttemptRows, Somebody
<1>2. ~Blank.session /\ NoAttempt.stage = "Idle" /\ NoNonce.nonce = 0
  BY DEF Blank, NoAttempt, NoNonce
<1>3. SignInTypeOK
  BY <1>1, <1>2 DEF SignInInit, SignInTypeOK, busy
<1>4. Booted \in Boots /\ Booted.stage = "Done"
  BY DEF Booted, Boots, Somebody
<1> QED
  BY <1>2, <1>3, <1>4 DEF SignInInit, SignInInv, NoncesFresh, SessionsEarned, PageKnows,
                          PageRight, BootRight

-----------------------------------------------------------------------------
(* The server's four kinds of step.                                        *)

ServerInv ==
    /\ auth_clock \in Nat /\ issued \in Nat
    /\ auth_nonces \in [Accounts -> Nonces]
    /\ signatures \subseteq Messages
    /\ opened \subseteq SessionRows
    /\ NoncesFresh /\ SessionsEarned

\* A challenge draws a nonce nobody has.
LEMMA ChallengeServer ==
    ASSUME ServerInv, NEW w \in Accounts, Challenge(w), UNCHANGED <<auth_clock, signatures>>,
           SignInAssumption
    PROVE  /\ ServerInv'
           /\ \A s \in sessions : s.expires > auth_clock => s \in sessions'
<1> USE DEF ServerInv
<1>0. auth_clock + NONCE_LIFE \in Nat /\ issued + 1 \in Nat
  BY SignInAssumption
<1>a. [ nonce |-> issued + 1, expires |-> auth_clock + NONCE_LIFE, used |-> FALSE ] \in Nonces
  BY <1>0 DEF Nonces
<1>1. PICK row \in Nonces : /\ row = [ nonce |-> issued + 1,
                                       expires |-> auth_clock + NONCE_LIFE, used |-> FALSE ]
                            /\ row.nonce = issued + 1
  BY <1>a
<1>2. /\ auth_nonces' = [auth_nonces EXCEPT ![w] = row] /\ issued' = issued + 1
      /\ sessions' = purgeExpired(sessions) /\ UNCHANGED opened
  BY <1>1 DEF Challenge
<1>3. /\ auth_nonces' \in [Accounts -> Nonces]
      /\ \A v \in Accounts : auth_nonces'[v] = IF v = w THEN row ELSE auth_nonces[v]
  BY <1>2
<1>4. \A v \in Accounts : auth_nonces[v].nonce \in Nat
  BY DEF Nonces
<1>5. \A s \in opened : s.nonce \in Nat
  BY DEF SessionRows
<1>6. NoncesFresh'
  BY <1>1, <1>2, <1>3, <1>4, <1>5 DEF NoncesFresh
<1>7. \A s \in sessions : s.expires \in Nat
  BY DEF SessionsEarned, SessionRows
<1>8. SessionsEarned'
  BY <1>2 DEF SessionsEarned, purgeExpired
<1> QED
  BY <1>2, <1>3, <1>6, <1>7, <1>8 DEF purgeExpired

\* A verified challenge is spent on the session it opens.
LEMMA VerifyServer ==
    ASSUME ServerInv, NEW m \in Messages, Verify(m), UNCHANGED <<auth_clock, signatures>>
    PROVE  /\ ServerInv'
           /\ new_session(m) \in opened' /\ new_session(m) \in sessions'
           /\ new_session(m).nonce = m.nonce /\ new_session(m).wallet = m.wallet
           /\ opened' = opened \union {new_session(m)}
           /\ sessions' = sessions \union {new_session(m)}
<1> USE DEF ServerInv
<1>0. auth_clock + SESSION_LIFE \in Nat
  BY SignInAssumption
<1>a. /\ m.wallet \in Accounts /\ m.nonce \in Nat
      /\ new_session(m) = [ wallet |-> m.wallet, nonce |-> m.nonce,
                            expires |-> auth_clock + SESSION_LIFE, at |-> auth_clock ]
  BY DEF Messages, new_session
<1>b. new_session(m) \in SessionRows
  BY <1>0, <1>a DEF SessionRows
<1>1. PICK s \in SessionRows : /\ s = new_session(m)
                               /\ s.nonce = m.nonce /\ s.wallet = m.wallet
                               /\ s.at = auth_clock
  BY <1>a, <1>b
<1>2. PICK w \in Accounts : w = m.wallet
  BY DEF Messages
<1>3. /\ ~auth_nonces[w].used /\ auth_nonces[w].nonce # 0
      /\ auth_nonces[w].expires >= auth_clock
      /\ m.nonce = auth_nonces[w].nonce /\ m.expires = auth_nonces[w].expires
      /\ m \in signatures
  BY <1>2 DEF Verify, challenge_valid, challengeMessage
<1>4. /\ opened' = opened \union {s} /\ sessions' = sessions \union {s}
      /\ auth_nonces' = [auth_nonces EXCEPT ![w].used = TRUE] /\ UNCHANGED issued
  BY <1>1, <1>2 DEF Verify
<1>5. /\ auth_nonces' \in [Accounts -> Nonces]
      /\ \A v \in Accounts : /\ auth_nonces'[v].nonce = auth_nonces[v].nonce
                             /\ auth_nonces[v].used => auth_nonces'[v].used
      /\ auth_nonces'[w].used
  BY <1>4 DEF Nonces
<1>6. \A u \in opened : u.nonce # s.nonce
  BY <1>1, <1>3 DEF NoncesFresh
<1>7. NoncesFresh'
  <2>1. \A v \in Accounts : s.nonce = auth_nonces[v].nonce => v = w
    BY <1>1, <1>3 DEF NoncesFresh
  <2>2. s.nonce <= issued /\ s.nonce # 0
    BY <1>1, <1>3 DEF NoncesFresh
  <2> QED
    BY <1>4, <1>5, <2>1, <2>2 DEF NoncesFresh
<1>8. SessionsEarned'
  BY <1>1, <1>2, <1>3, <1>4, <1>6 DEF SessionsEarned
<1> QED
  BY <1>1, <1>4, <1>5, <1>7, <1>8

\* The clock, a signature or a logout takes nothing from the record.
LEMMA QuietServer ==
    ASSUME ServerInv, UNCHANGED <<auth_nonces, issued, opened>>, auth_clock' \in Nat,
           signatures \subseteq signatures', signatures' \subseteq Messages,
           sessions' \subseteq sessions
    PROVE  ServerInv'
  BY DEF ServerInv, NoncesFresh, SessionsEarned

-----------------------------------------------------------------------------
(* The page.                                                               *)

PageTypes ==
    /\ cookie \in Nat /\ page \in Pages
    /\ attempt \in [Attempts -> AttemptRows]
    /\ \A f \in Attempts : busy(f) => attempt[f].wallet \in Accounts

\* The invariant by its parts: the server's, the page's, and what relates them.
LEMMA InvParts ==
    /\ SignInInv <=> ServerInv /\ PageTypes /\ PageKnows
    /\ SignInInv' <=> ServerInv' /\ PageTypes' /\ PageKnows'
  BY DEF SignInInv, SignInTypeOK, ServerInv, PageTypes

\* A page that goes on showing the session of the same cookie.
SameSession ==
    /\ cookie' = cookie /\ boot' = boot
    /\ page'.session /\ page'.leaving_for = NoAccount =>
          /\ page.session /\ page.leaving_for = NoAccount
          /\ page'.sessionWallet = page.sessionWallet

\* Sessions run out; none of those that have not is lost.
SessionsLast ==
    /\ opened \subseteq opened'
    /\ \A s \in opened' : s \in opened \/ s \in sessions'
    /\ \A s \in opened : s \in sessions /\ s.expires > auth_clock' => s \in sessions'
    /\ auth_clock \in Nat /\ auth_clock' \in Nat /\ auth_clock <= auth_clock'

\* A page that shows the same session goes on being right about it.
LEMMA PageKnowsStays ==
    ASSUME PageKnows, SameSession, SessionsLast, opened \subseteq SessionRows
    PROVE  PageKnows'
<1>1. \A s \in opened : s.expires \in Nat
  BY DEF SessionRows
<1>2. \A n, w : (named(n, w) => named(n, w)') /\ (lives(n) => lives(n)')
  BY <1>1 DEF named, lives, SessionsLast
<1>3. PageRight'
  BY <1>2 DEF PageKnows, PageRight, SameSession
<1>4. BootRight'
  BY <1>2 DEF PageKnows, BootRight, SameSession
<1> QED
  BY <1>3, <1>4 DEF PageKnows, SameSession

\* A step that touches no session lets all of them last.
LEMMA QuietSessions ==
    ASSUME auth_clock \in Nat, UNCHANGED <<auth_clock, sessions, opened>>
    PROVE  SessionsLast
  BY DEF SessionsLast

\* What moving an attempt on leaves of the types.
LEMMA AttemptTypes ==
    ASSUME PageTypes, NEW f \in Attempts, NEW r \in AttemptRows,
           attempt' = [attempt EXCEPT ![f] = r],
           r.stage # "Idle" => r.wallet \in Accounts
    PROVE  /\ attempt' \in [Attempts -> AttemptRows]
           /\ \A g \in Attempts : busy(g)' => attempt'[g].wallet \in Accounts
  BY DEF PageTypes, busy

\* Every step of an attempt to sign in keeps it.
LEMMA AttemptStepInv ==
    ASSUME SignInInv, NEW f \in Attempts, AttemptStep(f)
    PROVE  SignInInv'
<1>0. ServerInv /\ PageTypes /\ PageKnows
  BY InvParts
<1>p. /\ attempt \in [Attempts -> AttemptRows] /\ attempt[f] \in AttemptRows
      /\ page \in Pages /\ cookie \in Nat
      /\ auth_clock \in Nat /\ issued \in Nat /\ opened \subseteq SessionRows
  BY <1>0 DEF PageTypes, ServerInv
<1>q. NoAttempt \in AttemptRows /\ NoAttempt.stage = "Idle"
  BY DEF NoAttempt, AttemptRows, Somebody
<1>1. CASE authenticate(f)
  <2>1. page.wallet \in Accounts
    BY <1>1, <1>p DEF authenticate, Pages, Somebody
  <2>a. PICK r : r = [NoAttempt EXCEPT !.stage = "Challenge", !.wallet = page.wallet]
    OBVIOUS
  <2>2. r \in AttemptRows /\ r.wallet = page.wallet
    BY <2>1, <2>a DEF NoAttempt, AttemptRows, Somebody
  <2>3. attempt' = [attempt EXCEPT ![f] = r]
    BY <1>1, <2>a DEF authenticate
  <2>4. page' = [page EXCEPT !.authStatus = "signing"] /\ page' \in Pages
    BY <1>1, <1>p DEF authenticate, Pages
  <2>5. UNCHANGED <<auth_clock, auth_nonces, issued, sessions, opened, signatures, cookie>>
    BY <1>1 DEF authenticate, server_side
  <2>6. PageTypes'
    BY <1>0, <1>p, <2>1, <2>2, <2>3, <2>4, <2>5, AttemptTypes DEF PageTypes
  <2>7. SameSession /\ SessionsLast
    BY <1>1, <1>p, <2>4, <2>5, QuietSessions DEF SameSession, Pages, authenticate
  <2>8. ServerInv'
    BY <1>0, <1>p, <2>5, QuietServer DEF ServerInv
  <2> QED
    BY <1>0, <1>p, <2>6, <2>7, <2>8, PageKnowsStays, InvParts
<1>2. CASE ChallengeAnswered(f)
  <2>0. attempt[f].wallet \in Accounts
    BY <1>0, <1>2 DEF ChallengeAnswered, PageTypes, busy
  <2>1. Challenge(attempt[f].wallet) /\ UNCHANGED <<auth_clock, signatures, page, cookie>>
    BY <1>2 DEF ChallengeAnswered
  <2>2. ServerInv' /\ \A s \in sessions : s.expires > auth_clock => s \in sessions'
    BY <1>0, <2>0, <2>1, ChallengeServer, SignInAssumption
  <2>3. auth_clock + NONCE_LIFE \in Nat /\ issued' \in Nat
    BY <1>p, <2>2, SignInAssumption DEF ServerInv
  <2>4. PICK r : r = [attempt[f] EXCEPT !.stage = "Sign", !.nonce = issued',
                                        !.expires = auth_clock + NONCE_LIFE]
    OBVIOUS
  <2>5. r \in AttemptRows /\ r.wallet = attempt[f].wallet
    BY <1>p, <2>3, <2>4 DEF AttemptRows
  <2>6. attempt' = [attempt EXCEPT ![f] = r]
    BY <1>2, <2>4 DEF ChallengeAnswered
  <2>7. PageTypes'
    BY <1>0, <1>p, <2>0, <2>1, <2>5, <2>6, AttemptTypes DEF PageTypes
  <2>8. SameSession /\ SessionsLast
    BY <1>2, <1>p, <2>1, <2>2 DEF SameSession, SessionsLast, Challenge, ChallengeAnswered
  <2> QED
    BY <1>0, <1>p, <2>2, <2>7, <2>8, PageKnowsStays, InvParts
<1>3. CASE SignMessage(f)
  <2>0. attempt[f].wallet \in Accounts
    BY <1>0, <1>3 DEF SignMessage, PageTypes, busy
  <2>1. PICK r : r = [attempt[f] EXCEPT !.stage = "Verify", !.signer = page.provider]
    OBVIOUS
  <2>2. r \in AttemptRows /\ r.wallet = attempt[f].wallet
    BY <1>p, <2>1 DEF AttemptRows, Pages
  <2>3. attempt' = [attempt EXCEPT ![f] = r]
    <3>1. attempt' = [attempt EXCEPT ![f] = [@ EXCEPT !.stage = "Verify",
                                                      !.signer = page.provider]]
      BY <1>3, <1>p DEF SignMessage, AttemptRows
    <3> QED
      BY <2>1, <3>1
  <2>4. UNCHANGED <<auth_clock, auth_nonces, issued, sessions, opened, page, cookie>>
    BY <1>3 DEF SignMessage, server_side
  <2>5. /\ signatures \subseteq signatures' /\ signatures' \subseteq Messages
    <3>1. challengeMessage(attempt[f].wallet, attempt[f].nonce, attempt[f].expires) \in Messages
      BY <1>p, <2>0 DEF challengeMessage, Messages, AttemptRows
    <3> QED
      BY <1>0, <1>3, <3>1 DEF SignMessage, ServerInv
  <2>6. ServerInv'
    BY <1>0, <1>p, <2>4, <2>5, QuietServer
  <2>7. PageTypes'
    BY <1>0, <1>p, <2>0, <2>2, <2>3, <2>4, AttemptTypes DEF PageTypes
  <2>8. SameSession /\ SessionsLast
    BY <1>3, <1>p, <2>4, QuietSessions DEF SameSession, SignMessage
  <2> QED
    BY <1>0, <1>p, <2>6, <2>7, <2>8, PageKnowsStays, InvParts
<1>4. CASE VerifyAnswered(f)
  <2>1. PICK m : m = challengeMessage(attempt[f].wallet, attempt[f].nonce, attempt[f].expires)
    OBVIOUS
  <2>2. m \in signatures /\ m \in Messages
    BY <1>0, <1>4, <2>1 DEF VerifyAnswered, Verify, ServerInv
  <2>3. /\ Verify(m) /\ cookie' = m.nonce /\ page' = signed_in_as(m.wallet)
        /\ attempt' = [attempt EXCEPT ![f] = NoAttempt]
        /\ UNCHANGED <<auth_clock, signatures>>
    BY <1>4, <2>1 DEF VerifyAnswered, ends
  <2>4. PICK s : s = new_session(m)
    OBVIOUS
  <2>5. /\ ServerInv' /\ s \in opened' /\ s \in sessions'
        /\ s.nonce = m.nonce /\ s.wallet = m.wallet
    BY <1>0, <2>2, <2>3, <2>4, VerifyServer
  <2>6. page' \in Pages /\ page'.sessionWallet = m.wallet /\ cookie' \in Nat
    BY <1>p, <2>2, <2>3 DEF signed_in_as, Pages, Messages, Somebody
  <2>7. PageTypes'
    BY <1>0, <1>p, <1>q, <2>3, <2>6, AttemptTypes DEF PageTypes
  <2>a. /\ boot' = [boot EXCEPT !.late = FALSE] /\ boot \in Boots
        /\ opened \subseteq opened'
    BY <1>0, <1>4, <2>2, <2>3, VerifyServer DEF VerifyAnswered, PageKnows
  <2>b. /\ boot' \in Boots /\ boot'.stage = boot.stage
        /\ boot'.wallet = boot.wallet /\ boot'.sent_with = boot.sent_with
        /\ ~boot'.late
    BY <2>a DEF Boots
  <2>c. PageRight'
    BY <2>3, <2>5, <2>6 DEF PageRight, named, lives, ServerInv, SessionsEarned
  <2>d. \A u \in opened : u.nonce # m.nonce
    BY <1>0, <2>2, <2>3 DEF Verify, challenge_valid, challengeMessage, ServerInv,
                            NoncesFresh, Messages
  <2>e. BootRight'
    BY <1>0, <2>3, <2>a, <2>b, <2>d DEF BootRight, PageKnows, named
  <2>8. PageKnows'
    BY <2>b, <2>c, <2>e DEF PageKnows
  <2> QED
    BY <2>5, <2>7, <2>8, InvParts
<1>5. CASE AttemptFails(f)
  <2>1. page' = [page EXCEPT !.authStatus = "connected"] /\ page' \in Pages
    BY <1>5, <1>p DEF AttemptFails, Pages
  <2>2. /\ attempt' = [attempt EXCEPT ![f] = NoAttempt]
        /\ UNCHANGED <<auth_clock, auth_nonces, issued, sessions, opened, signatures, cookie>>
    BY <1>5 DEF AttemptFails, ends, server_side
  <2>3. PageTypes'
    BY <1>0, <1>p, <1>q, <2>1, <2>2, AttemptTypes DEF PageTypes
  <2>4. SameSession /\ SessionsLast
    BY <1>5, <1>p, <2>1, <2>2, QuietSessions DEF SameSession, Pages, AttemptFails
  <2>5. ServerInv'
    BY <1>0, <1>p, <2>2, QuietServer DEF ServerInv
  <2> QED
    BY <1>0, <1>p, <2>3, <2>4, <2>5, PageKnowsStays, InvParts
<1> QED
  BY <1>1, <1>2, <1>3, <1>4, <1>5 DEF AttemptStep

\* A step of the connected wallet, the page load and the logout.
LEMMA PageStepInv ==
    ASSUME SignInInv,
           \/ \E a \in Accounts : connectWallet(a) \/ reattachProvider(a)
           \/ \E carried_out \in BOOLEAN : LogoutAnswered(carried_out)
           \/ PageLoads \/ restoreSession
           \/ \E p \in Somebody : SilentReattach(p)
    PROVE  SignInInv'
<1>0. ServerInv /\ PageTypes /\ PageKnows
  BY InvParts
<1>p. /\ page \in Pages /\ cookie \in Nat /\ auth_clock \in Nat /\ issued \in Nat
      /\ opened \subseteq SessionRows
  BY <1>0 DEF PageTypes, ServerInv
<1>b. Blank \in Pages /\ ~Blank.session
  BY DEF Blank, Pages, Somebody
<1>1. UNCHANGED <<auth_clock, auth_nonces, issued, opened, signatures, attempt>>
  BY DEF connectWallet, reattachProvider, LogoutAnswered, PageLoads, restoreSession,
         SilentReattach, server_side
<1>2. sessions' \subseteq sessions
  BY DEF connectWallet, reattachProvider, LogoutAnswered, PageLoads, restoreSession,
         SilentReattach, server_side, logout
<1>3. ServerInv'
  BY <1>0, <1>p, <1>1, <1>2, QuietServer DEF ServerInv
<1>4. ASSUME page' \in Pages, cookie' \in Nat, PageKnows' PROVE SignInInv'
  <2>1. PageTypes'
    BY <1>0, <1>1, <1>4 DEF PageTypes, busy
  <2> QED
    BY <1>3, <1>4, <2>1, InvParts
<1>5. ASSUME NEW a \in Accounts, connectWallet(a) PROVE SignInInv'
  <2>1. UNCHANGED <<sessions, cookie>>
    BY <1>5 DEF connectWallet, server_side
  <2>2. page' \in Pages /\ SameSession
    <3>1. CASE page.sessionWallet \in {NoAccount, a}
      <4>1. PICK st \in {"connected", "authenticated"} :
                page' = [page EXCEPT !.wallet = a, !.provider = a, !.authStatus = st]
        BY <1>5, <3>1 DEF connectWallet
      <4>2. /\ page' \in Pages /\ page'.session = page.session
            /\ page'.leaving_for = page.leaving_for
            /\ page'.sessionWallet = page.sessionWallet
        BY <1>p, <4>1 DEF Pages, Somebody
      <4> QED
        BY <1>5, <2>1, <4>2 DEF SameSession, connectWallet
    <3>2. CASE page.sessionWallet \notin {NoAccount, a}
      <4>1. page' = [page EXCEPT !.leaving_for = a, !.leaving_with = cookie]
        BY <1>5, <3>2 DEF connectWallet
      <4>2. page' \in Pages /\ page'.leaving_for = a
        BY <1>p, <4>1 DEF Pages, Somebody
      <4> QED
        BY <1>5, <2>1, <4>2, SignInAssumption DEF SameSession, connectWallet
    <3> QED
      BY <3>1, <3>2
  <2>3. SessionsLast
    BY <1>p, <1>1, <2>1, QuietSessions
  <2> QED
    BY <1>0, <1>p, <1>4, <2>1, <2>2, <2>3, PageKnowsStays
<1>6. ASSUME NEW a \in Accounts, reattachProvider(a) PROVE SignInInv'
  <2>1. UNCHANGED <<sessions, cookie>> /\ page' = [page EXCEPT !.provider = a]
    BY <1>6 DEF reattachProvider, server_side
  <2>2. /\ page' \in Pages /\ page'.session = page.session
        /\ page'.leaving_for = page.leaving_for /\ page'.sessionWallet = page.sessionWallet
    BY <1>p, <2>1 DEF Pages, Somebody
  <2>3. SameSession /\ SessionsLast
    BY <1>6, <1>p, <1>1, <2>1, <2>2, QuietSessions DEF SameSession, reattachProvider
  <2> QED
    BY <1>0, <1>p, <1>4, <2>1, <2>2, <2>3, PageKnowsStays
<1>7. ASSUME NEW carried_out \in BOOLEAN, LogoutAnswered(carried_out) PROVE SignInInv'
  <2>1. page' = [page EXCEPT !.wallet = page.leaving_for, !.provider = page.leaving_for,
                   !.session = FALSE, !.sessionWallet = NoAccount,
                   !.authStatus = "connected", !.leaving_for = NoAccount,
                   !.leaving_with = 0]
    BY <1>7 DEF LogoutAnswered
  <2>2. page' \in Pages /\ ~page'.session
    BY <1>p, <2>1 DEF Pages, Somebody
  <2>3. cookie' \in Nat
    BY <1>p, <1>7 DEF LogoutAnswered
  <2>4. boot \in Boots /\ boot' = [boot EXCEPT !.late = FALSE]
    BY <1>0, <1>7 DEF LogoutAnswered, PageKnows
  <2>5. /\ boot' \in Boots /\ boot'.stage = boot.stage
        /\ boot'.wallet = boot.wallet /\ boot'.sent_with = boot.sent_with
        /\ ~boot'.late
    BY <2>4 DEF Boots
  <2>6. ASSUME boot.stage = "Session", boot.wallet # NoAccount PROVE boot.sent_with # 0
    BY <1>0, <2>6 DEF PageKnows, BootRight, named, ServerInv, NoncesFresh
  <2>7. UNCHANGED <<sessions, cookie>> \/ cookie' = 0
    BY <1>7 DEF LogoutAnswered
  <2>8. BootRight'
    BY <1>0, <1>1, <2>5, <2>6, <2>7 DEF PageKnows, BootRight, named, lives
  <2> QED
    BY <1>4, <2>2, <2>3, <2>5, <2>8 DEF PageKnows, PageRight
<1>8. CASE PageLoads
  <2>1. UNCHANGED <<sessions, cookie>> /\ page' = Blank
    BY <1>8 DEF PageLoads, server_side
  <2>2. PICK w \in {NoAccount} \union { s.wallet : s \in activeSession(cookie) } :
            boot' = [ stage |-> "Session", wallet |-> w, sent_with |-> cookie, late |-> FALSE ]
    BY <1>8 DEF PageLoads
  <2>3. /\ boot'.stage = "Session" /\ boot'.wallet = w /\ boot'.sent_with = cookie
        /\ ~boot'.late
    BY <2>2
  <2>4. ASSUME w # NoAccount PROVE w \in Accounts /\ named(cookie, w) /\ lives(cookie)
    <3>1. PICK s \in activeSession(cookie) : s.wallet = w
      BY <2>4
    <3>2. s \in sessions /\ s \in opened /\ s.nonce = cookie /\ s.wallet \in Accounts
      BY <1>0, <3>1 DEF activeSession, ServerInv, SessionsEarned, SessionRows
    <3>3. \A u \in opened : u.nonce = cookie => u = s
      BY <1>0, <3>2 DEF ServerInv, SessionsEarned
    <3> QED
      BY <3>1, <3>2, <3>3 DEF named, lives
  <2>5. boot' \in Boots
    BY <1>p, <2>2, <2>4 DEF Boots, Somebody
  <2>6. BootRight'
    BY <1>1, <2>1, <2>3, <2>4 DEF BootRight, named, lives
  <2> QED
    BY <1>p, <1>b, <1>4, <2>1, <2>5, <2>6 DEF PageKnows, PageRight
<1>9. CASE restoreSession
  <2>1. UNCHANGED <<sessions, cookie>> /\ boot \in Boots /\ boot.stage = "Session"
    BY <1>0, <1>9 DEF restoreSession, server_side, PageKnows
  <2>2. CASE boot.wallet = NoAccount
    <3>1. boot' = Booted /\ UNCHANGED page
      BY <1>9, <2>2 DEF restoreSession
    <3>2. Booted \in Boots /\ Booted.stage = "Done"
      BY DEF Booted, Boots, Somebody
    <3>3. PageRight'
      BY <1>0, <1>1, <2>1, <3>1 DEF PageKnows, PageRight, BootRight, named, lives
    <3> QED
      BY <1>p, <1>4, <2>1, <3>1, <3>2, <3>3 DEF PageKnows, PageRight, BootRight
  <2>3. CASE boot.wallet # NoAccount
    <3>1. /\ page' = [page EXCEPT !.wallet = boot.wallet, !.session = TRUE,
                                  !.sessionWallet = boot.wallet,
                                  !.authStatus = "authenticated"]
          /\ boot' = [boot EXCEPT !.stage = "Wallet", !.late = (cookie # boot.sent_with)]
      BY <1>9, <2>3 DEF restoreSession
    <3>2. page' \in Pages /\ page'.sessionWallet = boot.wallet
      BY <1>p, <2>1, <3>1 DEF Pages, Boots
    <3>3. boot' \in Boots /\ boot'.stage = "Wallet" /\ boot'.late = (cookie # boot.sent_with)
      BY <2>1, <3>1 DEF Boots
    <3>4. cookie = boot.sent_with => named(cookie, boot.wallet) /\ lives(cookie)
      BY <1>0, <2>1, <2>3 DEF PageKnows, BootRight
    <3>5. PageRight'
      BY <1>1, <2>1, <3>2, <3>3, <3>4 DEF PageRight, named, lives
    <3> QED
      BY <1>p, <1>4, <2>1, <3>2, <3>3, <3>5 DEF PageKnows, BootRight
  <2> QED
    BY <2>2, <2>3
<1>10. ASSUME NEW p \in Somebody, SilentReattach(p) PROVE SignInInv'
  <2>1. /\ UNCHANGED <<sessions, cookie>> /\ boot \in Boots
        /\ boot' = [Booted EXCEPT !.late = boot.late]
        /\ page' = page \/ page' = [page EXCEPT !.provider = p]
    BY <1>0, <1>10 DEF SilentReattach, server_side, PageKnows
  <2>2. boot' \in Boots /\ boot'.stage = "Done" /\ boot'.late = boot.late
    BY <2>1 DEF Booted, Boots, Somebody
  <2>3. /\ page' \in Pages /\ page'.session = page.session
        /\ page'.leaving_for = page.leaving_for /\ page'.sessionWallet = page.sessionWallet
    BY <1>p, <2>1 DEF Pages
  <2>4. PageRight'
    BY <1>0, <1>1, <2>1, <2>2, <2>3 DEF PageKnows, PageRight, named, lives
  <2> QED
    BY <1>p, <1>4, <2>1, <2>2, <2>3, <2>4 DEF PageKnows, BootRight
<1> QED
  BY <1>5, <1>6, <1>7, <1>8, <1>9, <1>10

\* What other clients and the clock do.
LEMMA OtherStepInv ==
    ASSUME SignInInv,
           \/ \E w \in Accounts : OtherChallenge(w) \/ AgentSigns(w)
           \/ \E m \in signatures : OtherVerify(m)
           \/ SignInTick
    PROVE  SignInInv'
<1>0. ServerInv /\ PageTypes /\ PageKnows
  BY InvParts
<1>p. /\ auth_clock \in Nat /\ issued \in Nat /\ opened \subseteq SessionRows
      /\ signatures \subseteq Messages /\ auth_nonces \in [Accounts -> Nonces]
  BY <1>0 DEF ServerInv
<1>1. UNCHANGED <<page, cookie, boot, attempt>>
  BY DEF OtherChallenge, AgentSigns, OtherVerify, SignInTick
<1>2. PageTypes' /\ SameSession
  BY <1>0, <1>1 DEF PageTypes, busy, SameSession
<1>3. ASSUME ServerInv', SessionsLast PROVE SignInInv'
  BY <1>0, <1>p, <1>2, <1>3, PageKnowsStays, InvParts
<1>4. ASSUME NEW w \in Accounts, OtherChallenge(w) PROVE SignInInv'
  <2>1. Challenge(w) /\ UNCHANGED <<auth_clock, signatures>>
    BY <1>4 DEF OtherChallenge
  <2>2. ServerInv' /\ \A s \in sessions : s.expires > auth_clock => s \in sessions'
    BY <1>0, <2>1, ChallengeServer, SignInAssumption
  <2>3. SessionsLast
    BY <1>p, <2>1, <2>2 DEF SessionsLast, Challenge
  <2> QED
    BY <1>3, <2>2, <2>3
<1>5. ASSUME NEW w \in Accounts, AgentSigns(w) PROVE SignInInv'
  <2>1. UNCHANGED <<auth_clock, auth_nonces, issued, sessions, opened>>
    BY <1>5 DEF AgentSigns, server_side
  <2>2. PICK m : m = challengeMessage(w, auth_nonces[w].nonce, auth_nonces[w].expires)
    OBVIOUS
  <2>3. m \in Messages
    BY <1>p, <2>2 DEF challengeMessage, Messages, Nonces
  <2>4. signatures' = signatures \union {m}
    BY <1>5, <2>2 DEF AgentSigns
  <2>5. ServerInv'
    BY <1>0, <1>p, <2>1, <2>3, <2>4, QuietServer
  <2> QED
    BY <1>3, <1>p, <2>1, <2>5, QuietSessions
<1>6. ASSUME NEW m \in signatures, OtherVerify(m) PROVE SignInInv'
  <2>1. Verify(m) /\ UNCHANGED <<auth_clock, signatures>> /\ m \in Messages
    BY <1>p, <1>6 DEF OtherVerify
  <2>2. PICK s : s = new_session(m)
    OBVIOUS
  <2>3. /\ ServerInv' /\ s \in sessions'
        /\ opened' = opened \union {s} /\ sessions' = sessions \union {s}
    BY <1>0, <2>1, <2>2, VerifyServer
  <2>4. SessionsLast
    BY <1>p, <2>1, <2>3 DEF SessionsLast
  <2> QED
    BY <1>3, <2>3, <2>4
<1>7. CASE SignInTick
  <2>1. /\ auth_clock' = auth_clock + 1
        /\ UNCHANGED <<auth_nonces, issued, sessions, opened, signatures>>
    BY <1>7 DEF SignInTick, server_side
  <2>2. ServerInv'
    BY <1>0, <1>p, <2>1, QuietServer
  <2>3. SessionsLast
    BY <1>p, <2>1 DEF SessionsLast
  <2> QED
    BY <1>3, <2>2, <2>3
<1> QED
  BY <1>4, <1>5, <1>6, <1>7

\* Every step of the page, of the server or of the clock keeps it.
LEMMA StepSignInInv == SignInInv /\ [SignInNext]_sign_in_vars => SignInInv'
<1> SUFFICES ASSUME SignInInv, [SignInNext]_sign_in_vars PROVE SignInInv'
  OBVIOUS
<1>1. CASE UNCHANGED sign_in_vars
  BY <1>1 DEF sign_in_vars, server_side, SignInInv, SignInTypeOK, busy, NoncesFresh,
              SessionsEarned, PageKnows, PageRight, BootRight, named, lives
<1>2. CASE SignInNext
  BY <1>2, AttemptStepInv, PageStepInv, OtherStepInv DEF SignInNext, Somebody
<1> QED
  BY <1>1, <1>2

(* A challenge, however often it is asked for again and its signature is   *)
(* repeated, opens one session; and whatever happened between the calls of *)
(* authenticate, the page is right about whose session its cookie names.   *)
THEOREM SignInIsSound == SignInSpec => []SignInSound
<1>1. SignInSpec => []SignInInv
  BY InitSignInInv, StepSignInInv, PTL DEF SignInSpec
<1>2. SignInInv => SignInSound
  BY DEF SignInInv, SessionsEarned, PageKnows, PageRight, named, lives, SignInSound
<1> QED
  BY <1>1, <1>2, PTL

-----------------------------------------------------------------------------
(***************************************************************************)
(* Why a backup that was finished can be restored while it is among the    *)
(* newest, whatever KEEP is and however many runs die or databases are     *)
(* lost between.                                                           *)
(*                                                                         *)
(* The argument: a run leaves at most one archive, so those newer than the *)
(* archive of run r are at most runs - r, dead ones included, and it       *)
(* survives until that is KEEP.  And what a run copied is written down     *)
(* before there is anything of it to read.                                 *)
(***************************************************************************)
Copies == [ run : 1 .. MaxRuns, form : {"plain", "cut", "whole"}, rows : Nat ]
Stages == {"Idle", "Counted", "Copied", "Proved", "Zipping", "Zipped", "Signed"}

BackupTypeOK ==
    /\ rows \in Nat
    /\ runs \in 0 .. MaxRuns
    /\ backup_dir \subseteq Copies
    /\ checksums \subseteq 1 .. MaxRuns
    /\ backup \in [ stage : Stages, before : Nat, after : Nat ]
    /\ receipt \in [ passed : BOOLEAN, run : 0 .. MaxRuns, rows : Nat ]
    /\ history \in [1 .. MaxRuns -> [ copied : Nat, signed : BOOLEAN, done : BOOLEAN ]]

\* Nothing is from a run that has not started.
PastOnly ==
    /\ \A f \in backup_dir : f.run <= runs
    /\ \A r \in 1 .. MaxRuns : history[r].signed \/ history[r].done => r <= runs

\* What an archive holds is what its run copied, and a run has one.
OneArchive == \A f, g \in gz_files : f.run = g.run => f = g
WholeIsCopy == \A f \in backup_dir : f.form = "whole" => f.rows = history[f.run].copied
SignedIsNoted == \A r \in checksums : history[r].signed

\* How far the run under way has come, and what there is of it.
UnderWay ==
    LET of_this_run == { f \in backup_dir : f.run = runs /\ f.form = "whole" } IN
    /\ backup.stage # "Idle" => runs # 0 /\ ~history[runs].done
    /\ backup.stage \notin {"Idle", "Signed"} => ~history[runs].signed
    /\ backup.stage \notin {"Idle", "Counted"} => history[runs].copied = backup.after
    /\ backup.stage \in {"Counted", "Copied", "Proved"} => \A f \in gz_files : f.run # runs
    /\ backup.stage = "Zipping" => of_this_run = {}
    /\ backup.stage \in {"Zipped", "Signed"} => of_this_run # {}
    /\ backup.stage = "Signed" => runs \in checksums

DrillRead == receipt.passed => receipt.run \in 1 .. MaxRuns

BackupInv ==
    /\ BackupTypeOK /\ PastOnly /\ DrillRead
    /\ OneArchive /\ WholeIsCopy /\ SignedIsNoted
    /\ UnderWay
    /\ BackupsHold

(* An archive is not stale before KEEP more runs have started.             *)
LEMMA ArchiveSurvives ==
    ASSUME BackupInv, NEW f \in gz_files, runs < f.run + KEEP
    PROVE  ~stale(f)
<1> DEFINE newer == newer_than(f)
           later == f.run + 1 .. runs
           place == [g \in newer |-> g.run]
<1>1. /\ \A g \in gz_files : g.run \in Nat /\ g.run <= runs
      /\ f.run \in Nat /\ runs \in Nat /\ KEEP \in Nat
  BY BackupAssumption DEF BackupInv, BackupTypeOK, PastOnly, Copies, gz_files
<1>2. \A g \in newer : g \in gz_files /\ g.run \in later
  BY <1>1 DEF newer_than
<1>3. place \in Injection(newer, later)
  <2>1. \A g, h \in newer : g.run = h.run => g = h
    BY <1>2 DEF BackupInv, OneArchive
  <2>2. place \in [newer -> later]
    BY <1>2
  <2> QED
    BY <2>1, <2>2 DEF Injection, IsInjective
<1>4. IsFiniteSet(later) /\ Cardinality(later) < KEEP
  <2>1. PICK first \in Int, last \in Int : first = f.run + 1 /\ last = runs
    BY <1>1
  <2>2. /\ IsFiniteSet(first .. last)
        /\ Cardinality(first .. last) = IF first > last THEN 0 ELSE last - first + 1
    BY FS_Interval
  <2>3. last - first + 1 < KEEP /\ 0 < KEEP
    BY <1>1, <2>1, BackupAssumption
  <2> QED
    BY <1>1, <2>1, <2>2, <2>3
<1> HIDE DEF newer, later, place
<1>5. IsFiniteSet(newer) /\ Cardinality(newer) <= Cardinality(later)
  BY <1>3, <1>4, FS_Injection
<1>6. Cardinality(newer) \in Nat /\ Cardinality(later) \in Nat
  BY <1>4, <1>5, FS_CardinalityType
<1>7. Cardinality(newer) < KEEP
  BY <1>1, <1>4, <1>5, <1>6
<1> QED
  BY <1>1, <1>6, <1>7 DEF stale, newer

(* Nothing was copied yet.                                                 *)
LEMMA InitBackupInv == BackupInit => BackupInv
<1> SUFFICES ASSUME BackupInit PROVE BackupInv
  OBVIOUS
<1>1. /\ rows \in Nat /\ runs = 0 /\ backup_dir = {} /\ checksums = {}
      /\ backup = NoRun /\ receipt = [ passed |-> FALSE, run |-> 0, rows |-> 0 ]
      /\ history = [r \in 1 .. MaxRuns |-> NoOutcome] /\ MaxRuns \in Nat
  BY BackupAssumption DEF BackupInit
<1>2. BackupTypeOK
  BY <1>1 DEF BackupTypeOK, NoRun, NoOutcome, Stages
<1>3. \A r \in 1 .. MaxRuns : ~history[r].signed /\ ~history[r].done
  BY <1>1 DEF NoOutcome
<1>4. backup.stage = "Idle" /\ ~receipt.passed /\ gz_files = {}
  BY <1>1 DEF NoRun, gz_files
<1> QED
  BY <1>1, <1>2, <1>3, <1>4
  DEF BackupInv, PastOnly, OneArchive, WholeIsCopy, SignedIsNoted, UnderWay, BackupsHold,
      DrillRead

(* A row more, or none left: no copy is touched.                           *)
LEMMA RowsInv == ASSUME BackupInv, RowWritten \/ RowsLost PROVE BackupInv'
<1>1. UNCHANGED <<backup_dir, checksums, backup, runs, receipt, history>> /\ rows' \in Nat
  BY DEF RowWritten, RowsLost, BackupInv, BackupTypeOK
<1> QED
  BY <1>1 DEF BackupInv, BackupTypeOK, PastOnly, OneArchive, WholeIsCopy, SignedIsNoted,
              UnderWay, BackupsHold, DrillRead, gz_files, sound

(* A run starts with nothing of its own.                                   *)
LEMMA StartInv == ASSUME BackupInv, BackupStarts PROVE BackupInv'
<1>1. /\ runs \in Nat /\ MaxRuns \in Nat /\ runs' = runs + 1 /\ runs' \in 1 .. MaxRuns
      /\ UNCHANGED <<rows, backup_dir, checksums, receipt, history>>
      /\ backup' = [ stage |-> "Counted", before |-> rows, after |-> 0 ]
  BY BackupAssumption DEF BackupStarts, BackupInv, BackupTypeOK
<1>2. BackupTypeOK'
  BY <1>1 DEF BackupInv, BackupTypeOK, Stages
<1>3. /\ gz_files' = gz_files
      /\ \A f \in backup_dir : f.run \in Nat /\ f.run <= runs
      /\ \A r \in 1 .. MaxRuns : history[r].signed \/ history[r].done => r <= runs
  BY <1>1 DEF BackupInv, BackupTypeOK, PastOnly, Copies, gz_files
<1>4. PastOnly' /\ OneArchive' /\ WholeIsCopy' /\ SignedIsNoted'
  BY <1>1, <1>3 DEF BackupInv, PastOnly, OneArchive, WholeIsCopy, SignedIsNoted
<1>5. UnderWay'
  <2>1. ~history[runs'].signed /\ ~history[runs'].done
    BY <1>1, <1>3
  <2>2. \A f \in gz_files : f.run # runs'
    BY <1>1, <1>3 DEF gz_files
  <2> QED
    BY <1>1, <1>3, <2>1, <2>2 DEF UnderWay
<1>6. BackupsHold'
  <2>1. ASSUME NEW r \in 1 .. runs', history[r].done, runs' < r + KEEP
        PROVE  r \in 1 .. runs /\ runs < r + KEEP
    <3>1. r \in 1 .. MaxRuns /\ KEEP \in Nat
      BY <1>1, <2>1, BackupAssumption
    <3> QED
      BY <1>1, <1>3, <2>1, <3>1
  <2> QED
    BY <1>1, <2>1 DEF BackupInv, BackupsHold, sound
<1> QED
  BY <1>1, <1>2, <1>4, <1>5, <1>6 DEF BackupInv, DrillRead

(* A run that dies leaves what it has, and nobody takes it for finished.   *)
LEMMA DiesInv == ASSUME BackupInv, BackupDies PROVE BackupInv'
<1>1. /\ UNCHANGED <<rows, backup_dir, checksums, runs, receipt, history>>
      /\ backup' = NoRun
  BY DEF BackupDies
<1>2. backup' \in [ stage : Stages, before : Nat, after : Nat ] /\ backup'.stage = "Idle"
  BY <1>1 DEF NoRun, Stages
<1> QED
  BY <1>1, <1>2 DEF BackupInv, BackupTypeOK, PastOnly, OneArchive, WholeIsCopy, SignedIsNoted,
                    UnderWay, BackupsHold, DrillRead, gz_files, sound

(* A drill that passes has read what the run noted.                        *)
LEMMA DrillInv == ASSUME BackupInv, RestoreDrill PROVE BackupInv'
<1>1. PICK f \in newest :
          /\ f.form = "whole"
          /\ receipt' = [ passed |-> sound(f), run |-> f.run, rows |-> f.rows ]
  BY DEF RestoreDrill
<1>2. /\ UNCHANGED <<rows, backup_dir, checksums, backup, runs, history>>
      /\ f \in backup_dir /\ f \in Copies
  BY <1>1 DEF RestoreDrill, newest, gz_files, BackupInv, BackupTypeOK
<1>3. sound(f) \in BOOLEAN /\ f.run \in 0 .. MaxRuns /\ f.rows \in Nat
  BY <1>2 DEF sound, Copies
<1>4. receipt' \in [ passed : BOOLEAN, run : 0 .. MaxRuns, rows : Nat ] /\ receipt'.run = f.run
  BY <1>1, <1>3
<1>5. receipt'.passed => history[receipt'.run].signed /\ history[receipt'.run].copied = receipt'.rows
  <2>1. receipt'.passed = sound(f) /\ receipt'.run = f.run /\ receipt'.rows = f.rows
    BY <1>1
  <2> QED
    BY <1>2, <2>1 DEF sound, BackupInv, SignedIsNoted, WholeIsCopy
<1> QED
  BY <1>2, <1>4, <1>5 DEF BackupInv, BackupTypeOK, PastOnly, OneArchive, WholeIsCopy,
     SignedIsNoted, UnderWay, BackupsHold, DrillRead, Copies, gz_files, sound

\* A step of the run under way, which changes no other run's copies.
OwnStep ==
    /\ UNCHANGED <<rows, runs, receipt>>
    /\ runs \in 1 .. MaxRuns
    /\ \A r \in 1 .. MaxRuns \ {runs} : history'[r] = history[r]
    /\ history[runs].signed =>
          history'[runs].signed /\ history'[runs].copied = history[runs].copied
    /\ \A f \in Copies : f.run # runs => (f \in backup_dir' <=> f \in backup_dir)
    /\ \A r \in 1 .. MaxRuns \ {runs} : r \in checksums' <=> r \in checksums

\* What is left to show of its own.
OwnInv ==
    /\ \A f, g \in gz_files : f.run = runs /\ g.run = runs => f = g
    /\ \A f \in backup_dir : f.run = runs /\ f.form = "whole" => f.rows = history[runs].copied
    /\ runs \in checksums => history[runs].signed
    /\ UnderWay
    /\ ~history[runs].done

(* The other runs keep theirs.                                             *)
LEMMA OwnStepInv ==
    ASSUME BackupInv, OwnStep, BackupTypeOK', OwnInv'
    PROVE  BackupInv'
<1>1. /\ backup_dir \subseteq Copies /\ backup_dir' \subseteq Copies
      /\ checksums \subseteq 1 .. MaxRuns /\ checksums' \subseteq 1 .. MaxRuns
      /\ runs \in Nat /\ runs' = runs
      /\ \A f \in Copies : f.run \in Nat
  BY DEF BackupInv, BackupTypeOK, OwnStep, Copies
<1>2. PastOnly'
  <2>1. \A f \in backup_dir' : f.run # runs => f.run <= runs
    BY <1>1 DEF OwnStep, BackupInv, PastOnly
  <2>2. \A r \in 1 .. MaxRuns : r # runs /\ (history'[r].signed \/ history'[r].done) => r <= runs
    BY <1>1 DEF OwnStep, BackupInv, PastOnly
  <2> QED
    BY <1>1, <2>1, <2>2 DEF PastOnly
<1>3. OneArchive'
  BY <1>1 DEF OwnStep, BackupInv, OneArchive, OwnInv, gz_files
<1>4. WholeIsCopy'
  <2>1. \A f \in backup_dir' : f.run # runs /\ f.form = "whole" => f.rows = history'[f.run].copied
    BY <1>1 DEF OwnStep, BackupInv, WholeIsCopy, Copies
  <2> QED
    BY <1>1, <2>1 DEF WholeIsCopy, OwnInv
<1>5. SignedIsNoted'
  BY <1>1 DEF OwnStep, BackupInv, SignedIsNoted, OwnInv
<1>6. BackupsHold'
  <2>1. ASSUME NEW r \in 1 .. runs, history'[r].done, runs < r + KEEP
        PROVE  \E f \in backup_dir' : f.run = r /\ sound(f)' /\ f.rows = history'[r].copied
    <3>1. r # runs /\ r \in 1 .. MaxRuns
      <4>1. r # runs
        BY <1>1, <2>1 DEF OwnInv
      <4>2. runs \in 1 .. MaxRuns /\ MaxRuns \in Nat
        BY BackupAssumption DEF OwnStep
      <4> QED
        BY <4>1, <4>2
    <3>2. history'[r] = history[r] /\ (r \in checksums' <=> r \in checksums)
      BY <3>1 DEF OwnStep
    <3>3. PICK f \in backup_dir : f.run = r /\ sound(f) /\ f.rows = history[r].copied
      BY <2>1, <3>2 DEF BackupInv, BackupsHold
    <3>4. f \in backup_dir'
      BY <1>1, <3>1, <3>3 DEF OwnStep
    <3> QED
      BY <3>2, <3>3, <3>4 DEF sound
  <2>2. receipt'.passed =>
            history'[receipt'.run].signed /\ history'[receipt'.run].copied = receipt'.rows
    <3>1. /\ receipt' = receipt
          /\ receipt.passed => receipt.run \in 1 .. MaxRuns
          /\ receipt.passed => history[receipt.run].signed /\ history[receipt.run].copied = receipt.rows
      BY DEF OwnStep, BackupInv, DrillRead, BackupsHold
    <3> QED
      BY <3>1 DEF OwnStep
  <2> QED
    BY <1>1, <2>1, <2>2 DEF BackupsHold
<1> QED
  BY <1>2, <1>3, <1>4, <1>5, <1>6 DEF BackupInv, OwnInv, OwnStep, DrillRead

(* The copy is noted before there is an archive of it.                     *)
LEMMA VacuumInv == ASSUME BackupInv, VacuumInto PROVE BackupInv'
<1> DEFINE copy == [ run |-> runs, form |-> "plain", rows |-> rows ]
<1>1. /\ backup.stage = "Counted" /\ backup' = [backup EXCEPT !.stage = "Copied", !.after = rows]
      /\ backup_dir' = backup_dir \union {copy}
      /\ history' = [history EXCEPT ![runs].copied = rows]
      /\ UNCHANGED <<rows, checksums, runs, receipt>>
  BY DEF VacuumInto, file
<1>2. runs \in 1 .. MaxRuns /\ copy \in Copies /\ runs # 0
  BY <1>1, BackupAssumption DEF BackupInv, BackupTypeOK, UnderWay, Copies
<1>3. /\ \A r \in 1 .. MaxRuns \ {runs} : history'[r] = history[r]
      /\ history'[runs].copied = rows
      /\ history'[runs].signed = history[runs].signed
      /\ history'[runs].done = history[runs].done
      /\ history' \in [1 .. MaxRuns -> [ copied : Nat, signed : BOOLEAN, done : BOOLEAN ]]
  BY <1>1, <1>2 DEF BackupInv, BackupTypeOK
<1>4. ~history[runs].signed /\ ~history[runs].done
  BY <1>1 DEF BackupInv, UnderWay
<1>5. /\ backup' \in [ stage : Stages, before : Nat, after : Nat ]
      /\ backup'.stage = "Copied" /\ backup'.after = rows
  BY <1>1 DEF BackupInv, BackupTypeOK, Stages
<1>6. BackupTypeOK'
  BY <1>1, <1>2, <1>3, <1>5 DEF BackupInv, BackupTypeOK
<1>7. \A f \in backup_dir' : f.form # "plain" => f \in backup_dir /\ f.run # runs
  <2>1. \A f \in backup_dir : f.form \in {"plain", "cut", "whole"}
    BY DEF BackupInv, BackupTypeOK, Copies
  <2> QED
    BY <1>1, <2>1 DEF BackupInv, UnderWay, gz_files
<1>8. OwnStep
  BY <1>1, <1>2, <1>3, <1>4 DEF OwnStep
<1>9. OwnInv'
  <2>1. \A f \in gz_files' : f.run # runs
    BY <1>7 DEF gz_files
  <2>2. runs \notin checksums
    BY <1>4 DEF BackupInv, SignedIsNoted
  <2>3. UnderWay'
    BY <1>1, <1>2, <1>3, <1>4, <1>5, <2>1 DEF UnderWay
  <2> QED
    BY <1>1, <1>3, <1>4, <1>7, <2>1, <2>2, <2>3 DEF OwnInv
<1> QED
  BY <1>6, <1>8, <1>9, OwnStepInv

\* What the run under way has on record.
LEMMA RunUnderWay ==
    ASSUME BackupInv, backup.stage # "Idle"
    PROVE  /\ runs \in 1 .. MaxRuns /\ runs # 0 /\ ~history[runs].done
           /\ backup.stage # "Signed" => ~history[runs].signed /\ runs \notin checksums
           /\ \A f \in backup_dir : f \in Copies
           /\ \A form \in {"plain", "cut", "whole"}, n \in Nat : file(form, n) \in Copies
<1>1. runs \in 1 .. MaxRuns /\ runs # 0
  BY BackupAssumption DEF BackupInv, BackupTypeOK, UnderWay
<1>2. ~history[runs].done /\ (backup.stage # "Signed" => ~history[runs].signed)
  BY DEF BackupInv, UnderWay
<1>3. backup.stage # "Signed" => runs \notin checksums
  BY <1>2 DEF BackupInv, SignedIsNoted
<1> QED
  BY <1>1, <1>2, <1>3 DEF BackupInv, BackupTypeOK, Copies, file

(* A copy that came out empty is thrown away; another goes on.             *)
LEMMA ProveInv == ASSUME BackupInv, Prove PROVE BackupInv'
<1>1. /\ backup.stage = "Copied"
      /\ backup' \in {NoRun, [backup EXCEPT !.stage = "Proved"]}
      /\ backup_dir' \in {backup_dir, backup_dir \ mine("plain")}
      /\ UNCHANGED <<rows, checksums, runs, receipt, history>>
  BY DEF Prove
<1>2. /\ runs \in 1 .. MaxRuns /\ ~history[runs].done /\ runs # 0
      /\ ~history[runs].signed /\ runs \notin checksums
      /\ \A f \in backup_dir : f \in Copies
  BY <1>1, RunUnderWay
<1>3. /\ backup' \in [ stage : Stages, before : Nat, after : Nat ]
      /\ backup'.stage \in {"Idle", "Proved"}
      /\ backup'.stage = "Proved" => backup'.after = backup.after
  BY <1>1 DEF BackupInv, BackupTypeOK, Stages, NoRun
<1>4. BackupTypeOK'
  BY <1>1, <1>3 DEF BackupInv, BackupTypeOK
<1>5. /\ \A f \in Copies : f.run # runs => (f \in backup_dir' <=> f \in backup_dir)
      /\ \A f \in backup_dir' : f \in backup_dir
  BY <1>1 DEF mine
<1>6. OwnStep
  BY <1>1, <1>2, <1>5 DEF OwnStep
<1>7. \A f \in gz_files' : f.run # runs
  BY <1>1, <1>5 DEF BackupInv, UnderWay, gz_files
<1>8. OwnInv'
  <2>1. UnderWay'
    BY <1>1, <1>2, <1>3, <1>7 DEF UnderWay, BackupInv
  <2>2. \A f \in backup_dir' : f.form = "whole" => f.run # runs
    BY <1>7 DEF gz_files
  <2> QED
    BY <1>1, <1>2, <1>7, <2>1, <2>2 DEF OwnInv
<1> QED
  BY <1>4, <1>6, <1>8, OwnStepInv

(* An archive is begun where the run has none ...                          *)
LEMMA GzipBeginsInv == ASSUME BackupInv, GzipBegins PROVE BackupInv'
<1> DEFINE cut == file("cut", 0)
<1>1. /\ backup.stage = "Proved" /\ backup' = [backup EXCEPT !.stage = "Zipping"]
      /\ backup_dir' = backup_dir \union {cut}
      /\ UNCHANGED <<rows, checksums, runs, receipt, history>>
  BY DEF GzipBegins, step
<1>2. /\ runs \in 1 .. MaxRuns /\ ~history[runs].done /\ runs # 0
      /\ ~history[runs].signed /\ runs \notin checksums
      /\ \A f \in backup_dir : f \in Copies
      /\ cut \in Copies /\ cut.run = runs /\ cut.form = "cut"
  BY <1>1, RunUnderWay DEF file
<1> HIDE DEF cut
<1>3. /\ backup' \in [ stage : Stages, before : Nat, after : Nat ]
      /\ backup'.stage = "Zipping" /\ backup'.after = backup.after
  BY <1>1 DEF BackupInv, BackupTypeOK, Stages
<1>4. BackupTypeOK'
  BY <1>1, <1>2, <1>3 DEF BackupInv, BackupTypeOK
<1>5. OwnStep
  BY <1>1, <1>2 DEF OwnStep
<1>6. \A f \in gz_files' : f.run = runs => f = cut
  BY <1>1 DEF BackupInv, UnderWay, gz_files
<1>7. \A f \in backup_dir' : f.run = runs => f.form # "whole"
  BY <1>2, <1>6 DEF gz_files
<1>8. OwnInv'
  <2>1. UnderWay'
    BY <1>1, <1>2, <1>3, <1>7 DEF UnderWay, BackupInv
  <2> QED
    BY <1>1, <1>2, <1>6, <1>7, <2>1 DEF OwnInv
<1> QED
  BY <1>4, <1>5, <1>8, OwnStepInv

(* ... and ends as the only one, with the rows that were copied.           *)
LEMMA GzipEndsInv == ASSUME BackupInv, GzipEnds PROVE BackupInv'
<1> DEFINE whole == file("whole", backup.after)
<1>1. /\ backup.stage = "Zipping" /\ backup' = [backup EXCEPT !.stage = "Zipped"]
      /\ backup_dir' = (backup_dir \ (mine("cut") \union mine("plain"))) \union {whole}
      /\ UNCHANGED <<rows, checksums, runs, receipt, history>>
  BY DEF GzipEnds, step
<1>2. /\ runs \in 1 .. MaxRuns /\ ~history[runs].done /\ runs # 0
      /\ ~history[runs].signed /\ runs \notin checksums
      /\ \A f \in backup_dir : f \in Copies
      /\ backup.after \in Nat /\ history[runs].copied = backup.after
  BY <1>1, RunUnderWay DEF BackupInv, BackupTypeOK, UnderWay
<1>3. /\ whole \in Copies /\ whole.run = runs /\ whole.form = "whole"
      /\ whole.rows = backup.after
  BY <1>1, <1>2, RunUnderWay DEF file
<1> HIDE DEF whole
<1>4. /\ backup' \in [ stage : Stages, before : Nat, after : Nat ]
      /\ backup'.stage = "Zipped" /\ backup'.after = backup.after
  BY <1>1 DEF BackupInv, BackupTypeOK, Stages
<1>5. BackupTypeOK'
  BY <1>1, <1>2, <1>3, <1>4 DEF BackupInv, BackupTypeOK
<1>6. OwnStep
  BY <1>1, <1>2, <1>3 DEF OwnStep, mine
<1>7. \A f \in gz_files' : f.run = runs => f = whole
  BY <1>1 DEF BackupInv, UnderWay, gz_files, mine
<1>8. OwnInv'
  <2>1. UnderWay'
    BY <1>1, <1>2, <1>3, <1>4 DEF UnderWay
  <2>2. \A f \in backup_dir' : f.run = runs /\ f.form = "whole" => f = whole
    BY <1>7 DEF gz_files
  <2> QED
    BY <1>1, <1>2, <1>3, <1>7, <2>1, <2>2 DEF OwnInv
<1> QED
  BY <1>5, <1>6, <1>8, OwnStepInv

(* It is signed.                                                           *)
LEMMA SignedInv == ASSUME BackupInv, WriteChecksum PROVE BackupInv'
<1>1. /\ backup.stage = "Zipped" /\ backup' = [backup EXCEPT !.stage = "Signed"]
      /\ checksums' = checksums \union {runs}
      /\ history' = [history EXCEPT ![runs].signed = TRUE]
      /\ UNCHANGED <<rows, backup_dir, runs, receipt>>
  BY DEF WriteChecksum, step
<1>2. /\ runs \in 1 .. MaxRuns /\ ~history[runs].done /\ runs # 0
      /\ \A f \in backup_dir : f \in Copies
      /\ history[runs].copied = backup.after
  BY <1>1, RunUnderWay DEF BackupInv, UnderWay
<1>3. /\ \A r \in 1 .. MaxRuns \ {runs} : history'[r] = history[r]
      /\ history'[runs].copied = history[runs].copied
      /\ history'[runs].signed
      /\ history'[runs].done = history[runs].done
      /\ history' \in [1 .. MaxRuns -> [ copied : Nat, signed : BOOLEAN, done : BOOLEAN ]]
  BY <1>1, <1>2 DEF BackupInv, BackupTypeOK
<1>4. /\ backup' \in [ stage : Stages, before : Nat, after : Nat ]
      /\ backup'.stage = "Signed" /\ backup'.after = backup.after
  BY <1>1 DEF BackupInv, BackupTypeOK, Stages
<1>5. BackupTypeOK'
  BY <1>1, <1>2, <1>3, <1>4 DEF BackupInv, BackupTypeOK
<1>6. OwnStep
  BY <1>1, <1>2, <1>3 DEF OwnStep
<1>7. OwnInv'
  <2>1. /\ \A f, g \in gz_files : f.run = runs /\ g.run = runs => f = g
        /\ \A f \in backup_dir : f.run = runs /\ f.form = "whole" => f.rows = history[runs].copied
        /\ { f \in backup_dir : f.run = runs /\ f.form = "whole" } # {}
    BY <1>1 DEF BackupInv, OneArchive, WholeIsCopy, UnderWay
  <2>2. UnderWay'
    BY <1>1, <1>2, <1>3, <1>4, <2>1 DEF UnderWay
  <2> QED
    BY <1>1, <1>2, <1>3, <2>1, <2>2 DEF OwnInv, gz_files
<1> QED
  BY <1>5, <1>6, <1>7, OwnStepInv

(* Retention takes no archive of the last KEEP runs, nor its checksum.     *)
LEMMA RetentionInv == ASSUME BackupInv, Retention PROVE BackupInv'
<1> DEFINE gone == { f \in gz_files : stale(f) }
<1>1. /\ backup.stage = "Signed" /\ backup' = NoRun
      /\ backup_dir' = backup_dir \ gone
      /\ checksums' = checksums \ { f.run : f \in gone }
      /\ history' = [history EXCEPT ![runs].done = TRUE]
      /\ UNCHANGED <<rows, runs, receipt>>
  BY DEF Retention
<1>2. /\ runs \in 1 .. MaxRuns /\ runs \in Nat
      /\ \A f \in backup_dir : f \in Copies /\ f.run <= runs
      /\ history[runs].copied = backup.after
  BY <1>1, RunUnderWay DEF BackupInv, UnderWay, PastOnly
<1>3. /\ \A r \in 1 .. MaxRuns \ {runs} : history'[r] = history[r]
      /\ \A r \in 1 .. MaxRuns : history'[r].copied = history[r].copied
                                 /\ history'[r].signed = history[r].signed
      /\ history' \in [1 .. MaxRuns -> [ copied : Nat, signed : BOOLEAN, done : BOOLEAN ]]
  BY <1>1, <1>2 DEF BackupInv, BackupTypeOK
<1>4. backup' \in [ stage : Stages, before : Nat, after : Nat ] /\ backup'.stage = "Idle"
  BY <1>1 DEF NoRun, Stages
<1>5. BackupTypeOK'
  BY <1>1, <1>3, <1>4 DEF BackupInv, BackupTypeOK
<1>6. PastOnly'
  <2>1. \A r \in 1 .. MaxRuns : r # runs /\ (history'[r].signed \/ history'[r].done) => r <= runs
    BY <1>3 DEF BackupInv, PastOnly
  <2> QED
    BY <1>1, <1>2, <2>1 DEF PastOnly
<1>7. OneArchive' /\ WholeIsCopy' /\ DrillRead' /\ UnderWay'
  <2>1. OneArchive'
    BY <1>1 DEF BackupInv, OneArchive, gz_files
  <2>2. WholeIsCopy'
    <3>1. \A f \in backup_dir' : f \in backup_dir /\ f.run \in 1 .. MaxRuns
      BY <1>1, <1>2 DEF Copies
    <3> QED
      BY <1>3, <3>1 DEF BackupInv, WholeIsCopy
  <2> QED
    BY <1>1, <1>4, <2>1, <2>2 DEF BackupInv, DrillRead, UnderWay
<1>8. SignedIsNoted'
  <2>1. \A r \in checksums' : r \in checksums /\ r \in 1 .. MaxRuns
    BY <1>1 DEF BackupInv, BackupTypeOK
  <2> QED
    BY <1>3, <2>1 DEF BackupInv, SignedIsNoted
<1>9. ASSUME NEW r \in 1 .. runs, history'[r].done, runs < r + KEEP
      PROVE  \E f \in backup_dir' : f.run = r /\ sound(f)' /\ f.rows = history'[r].copied
  <2>1. r \in 1 .. MaxRuns
    BY <1>2, BackupAssumption
  <2>2. PICK f \in backup_dir : f.run = r /\ sound(f) /\ f.rows = history[r].copied
    <3>1. CASE r = runs
      <4>1. PICK f \in backup_dir : f.run = runs /\ f.form = "whole"
        BY <1>1 DEF BackupInv, UnderWay
      <4>2. runs \in checksums /\ f.rows = history[f.run].copied
        BY <1>1, <4>1 DEF BackupInv, UnderWay, WholeIsCopy
      <4> QED
        BY <3>1, <4>1, <4>2 DEF sound
    <3>2. CASE r # runs
      <4>1. history'[r] = history[r]
        BY <1>3, <2>1, <3>2
      <4> QED
        BY <1>9, <4>1 DEF BackupInv, BackupsHold
    <3> QED
      BY <3>1, <3>2
  <2>3. f \in gz_files /\ ~stale(f)
    <3>1. f \in gz_files
      BY <2>2 DEF sound, gz_files
    <3> QED
      BY <1>9, <2>2, <3>1, ArchiveSurvives
  <2>4. f \in backup_dir'
    BY <1>1, <2>2, <2>3
  <2>5. f.run \notin { g.run : g \in gone }
    <3>1. \A g \in gone : g \in gz_files /\ stale(g)
      OBVIOUS
    <3>2. \A g \in gz_files : g.run = f.run => g = f
      BY <2>3 DEF BackupInv, OneArchive
    <3> HIDE DEF gone
    <3> QED
      BY <2>3, <3>1, <3>2
  <2>6. sound(f)'
    BY <1>1, <2>2, <2>5 DEF sound
  <2> QED
    BY <1>3, <2>1, <2>2, <2>4, <2>6
<1>10. receipt'.passed =>
          history'[receipt'.run].signed /\ history'[receipt'.run].copied = receipt'.rows
  BY <1>1, <1>3 DEF BackupInv, BackupsHold, DrillRead
<1>11. BackupsHold'
  BY <1>1, <1>9, <1>10 DEF BackupsHold
<1> QED
  BY <1>5, <1>6, <1>7, <1>8, <1>11 DEF BackupInv

(* What a finished run copied can be restored while it is among the KEEP   *)
(* newest, and a drill that passed read it (BackupsHold), for every KEEP,  *)
(* wherever runs die and however often the database is lost.               *)
THEOREM BackupsAlwaysHold == BackupSpec => []BackupsHold
<1>1. BackupInv /\ [BackupNext]_backup_vars => BackupInv'
  <2> SUFFICES ASSUME BackupInv, [BackupNext]_backup_vars PROVE BackupInv'
    OBVIOUS
  <2>1. CASE UNCHANGED backup_vars
    BY <2>1 DEF backup_vars, BackupInv, BackupTypeOK, PastOnly, OneArchive, WholeIsCopy,
                SignedIsNoted, UnderWay, BackupsHold, DrillRead, gz_files, sound
  <2> QED
    BY <2>1, RowsInv, StartInv, VacuumInv, ProveInv, GzipBeginsInv, GzipEndsInv, SignedInv,
       RetentionInv, DiesInv, DrillInv DEF BackupNext
<1>2. BackupInv => BackupsHold
  BY DEF BackupInv
<1> QED
  BY <1>1, <1>2, InitBackupInv, PTL DEF BackupSpec

-----------------------------------------------------------------------------
(***************************************************************************)
(* Why a call that is alone finds the endpoint that answers, for any       *)
(* number of endpoints and wherever the shared pointer was left.           *)
(*                                                                         *)
(* The argument: alone, a call has the pointer to itself, so it asks the   *)
(* endpoints in order from where it began.  It never gets past one that    *)
(* answers, and it gives up only once it is back where it began, past all. *)
(***************************************************************************)

\* The k-th endpoint after the one a round began with.
nth_from(start, k) == IF start + k < POOL THEN start + k ELSE start + k - POOL

\* How far round from start an endpoint is.
round_to(start, n) == IF n >= start THEN n - start ELSE n - start + POOL

\* The pointer moves on by one, and from the last endpoint to the first.
LEMMA RotatesByOne ==
    ASSUME connectionIndex \in Pool
    PROVE  rotateRpcPool = IF connectionIndex + 1 = POOL THEN 0 ELSE connectionIndex + 1
<1>1. POOL \in Nat \ {0} /\ connectionIndex \in Nat /\ connectionIndex < POOL
  BY PoolAssumption DEF Pool
<1>2. CASE connectionIndex + 1 = POOL
  BY <1>1, <1>2 DEF rotateRpcPool
<1>3. CASE connectionIndex + 1 # POOL
  BY <1>1, <1>3 DEF rotateRpcPool
<1> QED
  BY <1>2, <1>3

(* A transient error, said without its names.                              *)
LEMMA ErrorMoves ==
    ASSUME NEW c \in Calls, TransientError(c)
    PROVE  /\ under_way(c) /\ endpoint[call[c].on] = "fails" /\ UNCHANGED endpoint
           /\ connectionIndex' = rotateRpcPool
           /\ call' = [call EXCEPT ![c] =
                 IF rotateRpcPool = call[c].start \/ call[c].attempt = POOL
                 THEN [NoCall EXCEPT !.stage = "Failed"]
                 ELSE [call[c] EXCEPT !.on = rotateRpcPool, !.attempt = call[c].attempt + 1]]
<1> DEFINE next == rotateRpcPool
<1>1. /\ under_way(c) /\ endpoint[call[c].on] = "fails" /\ UNCHANGED endpoint
      /\ connectionIndex' = rotateRpcPool
  BY DEF TransientError
<1>2. call' = [call EXCEPT ![c] =
                 IF next = call[c].start \/ call[c].attempt = POOL
                 THEN [NoCall EXCEPT !.stage = "Failed"]
                 ELSE [call[c] EXCEPT !.on = next, !.attempt = call[c].attempt + 1]]
  BY DEF TransientError
<1> QED
  BY <1>1, <1>2

CallStages == {"Idle", "Trying", "Answered", "Failed", "Thrown"}

\* Every call and the pointer stay within the pool, and no call asks more than POOL times.
PoolInv ==
    /\ connectionIndex \in Pool
    /\ endpoint \in [Pool -> Manners]
    /\ call \in [Calls -> [ stage : CallStages, start : Pool,
                            attempt : 0 .. POOL, on : Pool ]]
    /\ \A c \in Calls : under_way(c) => call[c].attempt \in 1 .. POOL

\* The pointer starts within the pool.
LEMMA PoolInitInv == PoolInit => PoolInv
  BY PoolAssumption DEF PoolInit, PoolInv, Pool, Manners, CallStages, NoCall, under_way

\* It stays there, and a call asks each endpoint at most once.
LEMMA PoolStepInv == PoolInv /\ [PoolNext]_pool_vars => PoolInv'
<1> SUFFICES ASSUME PoolInv, [PoolNext]_pool_vars PROVE PoolInv'
  OBVIOUS
<1> DEFINE Record == [ stage : CallStages, start : Pool,
                       attempt : 0 .. POOL, on : Pool ]
<1>0. /\ connectionIndex \in Pool /\ endpoint \in [Pool -> Manners] /\ call \in [Calls -> Record]
      /\ POOL \in Nat \ {0} /\ 0 \in Pool /\ 1 \in 1 .. POOL /\ 1 \in 0 .. POOL
  BY PoolAssumption DEF PoolInv, Pool
<1>1. rotateRpcPool \in Pool
  BY <1>0, RotatesByOne DEF Pool
<1>2. ASSUME NEW n \in Pool, NodeChanges(n) PROVE PoolInv'
  BY <1>0, <1>2 DEF NodeChanges, PoolInv, under_way
<1>3. ASSUME NEW c \in Calls, NEW r \in Record, call' = [call EXCEPT ![c] = r],
             r.stage = "Trying" => r.attempt \in 1 .. POOL,
             connectionIndex' \in Pool, UNCHANGED endpoint
      PROVE  PoolInv'
  <2>1. call' \in [Calls -> Record]
    BY <1>0, <1>3
  <2>2. \A d \in Calls : call'[d] = IF d = c THEN r ELSE call[d]
    BY <1>0, <1>3
  <2> QED
    BY <1>0, <1>3, <2>1, <2>2 DEF PoolInv, under_way
<1>4. ASSUME NEW c \in Calls, BeginCall(c) PROVE PoolInv'
  <2> DEFINE r == [ stage |-> "Trying", start |-> connectionIndex, attempt |-> 1,
                    on |-> connectionIndex ]
  <2>1. /\ r \in Record /\ r.attempt \in 1 .. POOL /\ call' = [call EXCEPT ![c] = r]
        /\ UNCHANGED <<connectionIndex, endpoint>>
    BY <1>0, <1>4 DEF BeginCall, CallStages
  <2> HIDE DEF r
  <2> QED
    BY <1>0, <1>3, <2>1
<1>5. ASSUME NEW c \in Calls, Answered(c) PROVE PoolInv'
  <2> DEFINE r == [NoCall EXCEPT !.stage = "Answered"]
  <2>1. /\ r \in Record /\ r.stage = "Answered" /\ call' = [call EXCEPT ![c] = r]
        /\ UNCHANGED <<connectionIndex, endpoint>>
    BY <1>0, <1>5 DEF Answered, NoCall, CallStages
  <2> HIDE DEF r
  <2> QED
    BY <1>0, <1>3, <2>1
<1>8. ASSUME NEW c \in Calls, ErrorThrown(c) PROVE PoolInv'
  <2> DEFINE r == [NoCall EXCEPT !.stage = "Thrown"]
  <2>1. /\ r \in Record /\ r.stage = "Thrown" /\ call' = [call EXCEPT ![c] = r]
        /\ UNCHANGED <<connectionIndex, endpoint>>
    BY <1>0, <1>8 DEF ErrorThrown, NoCall, CallStages
  <2> HIDE DEF r
  <2> QED
    BY <1>0, <1>3, <2>1
<1>6. ASSUME NEW c \in Calls, TransientError(c) PROVE PoolInv'
  <2> DEFINE over == rotateRpcPool = call[c].start \/ call[c].attempt = POOL
             r == IF over THEN [NoCall EXCEPT !.stage = "Failed"]
                  ELSE [call[c] EXCEPT !.on = rotateRpcPool, !.attempt = call[c].attempt + 1]
  <2>1. /\ call' = [call EXCEPT ![c] = r] /\ UNCHANGED endpoint
        /\ connectionIndex' = rotateRpcPool /\ under_way(c)
    BY <1>6, ErrorMoves
  <2>2. call[c] \in Record /\ call[c].attempt \in 1 .. POOL
    BY <1>0, <2>1 DEF PoolInv
  <2>3. r \in Record /\ (r.stage = "Trying" => r.attempt \in 1 .. POOL)
    <3>1. CASE over
      <4>1. r = [NoCall EXCEPT !.stage = "Failed"]
        BY <3>1
      <4> QED
        BY <1>0, <4>1 DEF NoCall, CallStages
    <3>2. CASE ~over
      <4>1. r = [call[c] EXCEPT !.on = rotateRpcPool, !.attempt = call[c].attempt + 1]
        BY <3>2
      <4>2. call[c].attempt + 1 \in 1 .. POOL /\ call[c].attempt + 1 \in 0 .. POOL
        BY <1>0, <2>2, <3>2
      <4> HIDE DEF r
      <4> QED
        BY <1>1, <2>2, <4>1, <4>2
    <3> QED
      BY <3>1, <3>2
  <2> HIDE DEF r
  <2> QED
    BY <1>1, <1>3, <2>1, <2>3
<1>7. CASE UNCHANGED pool_vars
  BY <1>7 DEF pool_vars, PoolInv, under_way
<1> QED
  BY <1>2, <1>4, <1>5, <1>6, <1>7, <1>8 DEF PoolNext, CallEnds

\* Alone, a call has asked the endpoints from its first on, and n was not among them.
LoneCall(n) ==
    \A c \in Calls :
      /\ call[c].stage # "Failed"
      /\ under_way(c) =>
            /\ connectionIndex = call[c].on
            /\ call[c].on = nth_from(call[c].start, call[c].attempt - 1)
            /\ call[c].attempt - 1 <= round_to(call[c].start, n)

\* Alone, a call goes round in order and does not get past an endpoint that answers.
LEMMA LoneCallStep ==
    ASSUME NEW n \in Pool, \A c, d \in Calls : c = d, PoolInv, LoneCall(n), endpoint[n] = "answers",
           [PoolNext]_pool_vars
    PROVE  LoneCall(n)'
<1>0. /\ POOL \in Nat \ {0} /\ n \in Nat /\ n < POOL
      /\ connectionIndex \in Nat /\ connectionIndex < POOL
  BY PoolAssumption DEF PoolInv, Pool
<1>1. ASSUME NEW m \in Pool, NodeChanges(m) PROVE LoneCall(n)'
  BY <1>1 DEF NodeChanges, LoneCall, under_way
<1>2. ASSUME NEW c \in Calls, BeginCall(c) PROVE LoneCall(n)'
  <2>1. /\ call'[c] = [ stage |-> "Trying", start |-> connectionIndex, attempt |-> 1,
                        on |-> connectionIndex ]
        /\ UNCHANGED connectionIndex
    BY <1>2 DEF BeginCall, PoolInv
  <2>2. /\ connectionIndex = nth_from(connectionIndex, 1 - 1)
        /\ 1 - 1 <= round_to(connectionIndex, n)
    BY <1>0 DEF nth_from, round_to
  <2> QED
    BY <2>1, <2>2 DEF LoneCall, under_way
<1>3. ASSUME NEW c \in Calls, Answered(c) PROVE LoneCall(n)'
  <2>1. call'[c].stage = "Answered"
    BY <1>3 DEF Answered, PoolInv, NoCall
  <2> QED
    BY <2>1 DEF LoneCall, under_way
<1>6. ASSUME NEW c \in Calls, ErrorThrown(c) PROVE LoneCall(n)'
  <2>1. call'[c].stage = "Thrown"
    BY <1>6 DEF ErrorThrown, PoolInv, NoCall
  <2> QED
    BY <2>1 DEF LoneCall, under_way
<1>4. ASSUME NEW c \in Calls, TransientError(c) PROVE LoneCall(n)'
  <2>1. PICK start \in Pool, tries \in 1 .. POOL, on \in Pool :
            /\ start = call[c].start /\ tries = call[c].attempt /\ on = call[c].on
            /\ call[c] \in [ stage : CallStages, start : Pool,
                             attempt : 0 .. POOL, on : Pool ]
            /\ under_way(c) /\ endpoint[on] = "fails"
    BY <1>4 DEF TransientError, PoolInv
  <2>2. /\ connectionIndex = on /\ on = nth_from(start, tries - 1)
        /\ tries - 1 <= round_to(start, n)
    BY <2>1 DEF LoneCall
  <2>3. on # n
    BY <2>1
  <2>4. start \in Nat /\ start < POOL /\ tries \in Nat /\ tries >= 1 /\ tries <= POOL
    BY <1>0, <2>1 DEF Pool
  <2>5. tries - 1 # round_to(start, n)
    BY <1>0, <2>2, <2>3, <2>4 DEF nth_from, round_to
  <2>6. round_to(start, n) \in Nat /\ round_to(start, n) < POOL
    BY <1>0, <2>4 DEF round_to
  <2>7. tries # POOL /\ tries <= round_to(start, n)
    BY <1>0, <2>2, <2>4, <2>5, <2>6
  <2>8. rotateRpcPool = nth_from(start, tries) /\ rotateRpcPool # start
    <3>1. rotateRpcPool = IF on + 1 = POOL THEN 0 ELSE on + 1
      BY <2>2, RotatesByOne DEF PoolInv
    <3> QED
      BY <1>0, <2>2, <2>4, <2>7, <3>1 DEF nth_from
  <2>9. /\ call'[c] = [call[c] EXCEPT !.on = rotateRpcPool, !.attempt = call[c].attempt + 1]
        /\ connectionIndex' = rotateRpcPool
    BY <1>4, <2>1, <2>7, <2>8, ErrorMoves DEF PoolInv
  <2>10. /\ call'[c].stage = "Trying" /\ call'[c].start = start
         /\ call'[c].attempt = tries + 1 /\ call'[c].on = rotateRpcPool
    BY <2>1, <2>9 DEF under_way
  <2>11. tries + 1 - 1 = tries
    BY <2>4
  <2>12. /\ call'[c].stage # "Failed"
         /\ connectionIndex' = call'[c].on
         /\ call'[c].on = nth_from(call'[c].start, call'[c].attempt - 1)
         /\ call'[c].attempt - 1 <= round_to(call'[c].start, n)
    BY <2>7, <2>8, <2>9, <2>10, <2>11
  <2> SUFFICES ASSUME NEW d \in Calls
               PROVE  /\ call'[d].stage # "Failed"
                      /\ connectionIndex' = call'[d].on
                      /\ call'[d].on = nth_from(call'[d].start, call'[d].attempt - 1)
                      /\ call'[d].attempt - 1 <= round_to(call'[d].start, n)
    BY DEF LoneCall, nth_from, round_to
  <2>13. d = c
    OBVIOUS
  <2> QED
    BY <2>12, <2>13
<1>5. CASE UNCHANGED pool_vars
  BY <1>5 DEF pool_vars, LoneCall, under_way
<1> QED
  BY <1>1, <1>2, <1>3, <1>4, <1>5, <1>6 DEF PoolNext, CallEnds

(* callWithFailover, "Try each pool member in order until one succeeds, or *)
(* all fail": however long the pool is and wherever earlier calls left the *)
(* pointer, a page whose calls come one at a time gets an answer to each   *)
(* while some endpoint answers throughout - except from an endpoint that   *)
(* forbids the page to ask, whose error is thrown and tried nowhere else.  *)
THEOREM LoneCallFindsLiveNode ==
    ASSUME NEW n \in Pool, \A c, d \in Calls : c = d
    PROVE  PoolInit /\ [][PoolNext]_pool_vars /\ [](endpoint[n] = "answers")
              => [][\A c \in Calls :
                      under_way(c) /\ ~under_way(c)'
                      => \/ call'[c].stage = "Answered"
                         \/ call'[c].stage = "Thrown" /\ endpoint[call[c].on] = "forbids"]_pool_vars
<1>1. PoolInit => LoneCall(n)
  <2> SUFFICES ASSUME PoolInit PROVE LoneCall(n)
    OBVIOUS
  <2>1. ASSUME NEW c \in Calls PROVE call[c] = NoCall
    BY DEF PoolInit
  <2>2. NoCall.stage = "Idle"
    BY DEF NoCall
  <2> QED
    BY <2>1, <2>2 DEF LoneCall, under_way
<1>2. PoolInv /\ LoneCall(n) /\ endpoint[n] = "answers" /\ [PoolNext]_pool_vars => LoneCall(n)'
  BY LoneCallStep
<1>3. PoolInv /\ LoneCall(n)' /\ [PoolNext]_pool_vars
      => [\A c \in Calls :
            under_way(c) /\ ~under_way(c)'
            => \/ call'[c].stage = "Answered"
               \/ call'[c].stage = "Thrown" /\ endpoint[call[c].on] = "forbids"]_pool_vars
  <2> SUFFICES ASSUME PoolInv, LoneCall(n)', PoolNext,
                      NEW c \in Calls, under_way(c), ~under_way(c)'
               PROVE  \/ call'[c].stage = "Answered"
                      \/ call'[c].stage = "Thrown" /\ endpoint[call[c].on] = "forbids"
    OBVIOUS
  <2>0. call'[c].stage # "Failed" /\ \A d \in Calls : d = c
    BY DEF LoneCall
  <2>1. CASE Answered(c)
    BY <2>1 DEF Answered, PoolInv, NoCall
  <2>2. CASE TransientError(c)
    <3>1. call'[c] = IF rotateRpcPool = call[c].start \/ call[c].attempt = POOL
                     THEN [NoCall EXCEPT !.stage = "Failed"]
                     ELSE [call[c] EXCEPT !.on = rotateRpcPool, !.attempt = call[c].attempt + 1]
      BY <2>2, ErrorMoves DEF PoolInv
    <3>2. [NoCall EXCEPT !.stage = "Failed"].stage = "Failed"
      BY DEF NoCall
    <3>3. call[c].stage = "Trying"
          /\ call[c] \in [ stage : CallStages, start : Pool, attempt : 0 .. POOL, on : Pool ]
      BY DEF PoolInv, under_way
    <3>4. [call[c] EXCEPT !.on = rotateRpcPool, !.attempt = call[c].attempt + 1].stage = "Trying"
      BY <3>3
    <3> QED
      BY <2>0, <3>1, <3>2, <3>4 DEF under_way
  <2>3. CASE ErrorThrown(c)
    BY <2>3 DEF ErrorThrown, PoolInv, NoCall
  <2>4. CASE \E m \in Pool : NodeChanges(m)
    BY <2>4 DEF NodeChanges, under_way
  <2>5. ~BeginCall(c)
    BY DEF BeginCall
  <2> QED
    BY <2>0, <2>1, <2>2, <2>3, <2>4, <2>5 DEF PoolNext, CallEnds
<1> QED
  BY <1>1, <1>2, <1>3, PoolInitInv, PoolStepInv, PTL

-----------------------------------------------------------------------------
(***************************************************************************)
(* Why a list of notifications is never a mix of two wallets', for any     *)
(* number of them, however loads and marks overtake one another.           *)
(*                                                                         *)
(* The argument: a row is never taken away, so whatever list is under way  *)
(* or on the page still holds recorded rows, and all of the one wallet it  *)
(* was asked for; the page may show another wallet's list, never a blend.  *)
(***************************************************************************)

\* A list that one wallet could have been given.
list_of(w, list) == list.rows \subseteq marks(w) /\ list.unread \subseteq list.rows

List == [ rows : SUBSET Events, unread : SUBSET Events ]
Asker == People \union {NoOne}
LoadRecord == [ stage : {"Idle", "Asked", "Answered"}, by : Asker, answer : List ]

InboxInv ==
    /\ notices \in Seq(Events)
    /\ \A i, j \in DOMAIN notices : notices[i] = notices[j] => i = j
    /\ read_at \subseteq ToSet(notices)
    /\ reader \in Asker
    /\ inbox \in List /\ \E w \in Asker : list_of(w, inbox)
    /\ load \in [Loads -> LoadRecord]
    /\ \A l \in Loads : list_of(load[l].by, load[l].answer)

\* What a page shows is one wallet's, its unread part is part of it, and no row is there twice.
ListIsOneWallets ==
    /\ \E w \in Asker : list_of(w, inbox)
    /\ \A i, j \in DOMAIN notices : notices[i] = notices[j] => i = j
    /\ read_at \subseteq ToSet(notices)

(* A list with nothing in it is anyone's.                                  *)
LEMMA NothingIsAnyones == Nothing \in List /\ \A w : list_of(w, Nothing)
  BY DEF Nothing, List, list_of

\* The table and the page are empty at first.
LEMMA InboxInitInv == InboxInit => InboxInv
<1> SUFFICES ASSUME InboxInit PROVE InboxInv
  OBVIOUS
<1>1. notices = <<>> /\ read_at = {} /\ reader = NoOne /\ inbox = Nothing
  BY DEF InboxInit
<1>2. notices \in Seq(Events) /\ DOMAIN notices = {}
  BY <1>1
<1>3. load = [l \in Loads |-> NoLoad]
  BY DEF InboxInit
<1>4. \A l \in Loads : load[l].answer = Nothing
  BY <1>3 DEF NoLoad
<1>5. load \in [Loads -> LoadRecord]
  BY <1>3, NothingIsAnyones DEF NoLoad, LoadRecord, Asker
<1> QED
  BY <1>1, <1>2, <1>4, <1>5, NothingIsAnyones DEF InboxInv, Asker

(* A load that is answered keeps only whom it was for.                     *)
LEMMA AnswerComes ==
    ASSUME NEW r \in LoadRecord, NEW a
    PROVE  [ r EXCEPT !.stage = "Answered", !.answer = a ]
             = [ stage |-> "Answered", by |-> r.by, answer |-> a ]
<1>1. PICK s \in {"Idle", "Asked", "Answered"}, b \in Asker, x \in List :
          r = [ stage |-> s, by |-> b, answer |-> x ]
  BY DEF LoadRecord
<1>2. [ r EXCEPT !.stage = "Answered", !.answer = a ]
        = [ [ r EXCEPT !.stage = "Answered" ] EXCEPT !.answer = a ]
  BY <1>1
<1>3. [ r EXCEPT !.stage = "Answered" ] = [ stage |-> "Answered", by |-> b, answer |-> x ]
  BY <1>1
<1>4. [ [ stage |-> "Answered", by |-> b, answer |-> x ] EXCEPT !.answer = a ]
        = [ stage |-> "Answered", by |-> b, answer |-> a ]
  OBVIOUS
<1> QED
  BY <1>1, <1>2, <1>3, <1>4

(* What the server lists for a wallet are recorded rows of that wallet.    *)
LEMMA ListedAreMarks == \A w : listed(w) \subseteq marks(w)
  BY DEF listed, marks, ToSet

\* Every step of the server or of the page keeps it.
LEMMA InboxStepInv == InboxInv /\ [InboxNext]_inbox_vars => InboxInv'
<1> SUFFICES ASSUME InboxInv, [InboxNext]_inbox_vars PROVE InboxInv'
  OBVIOUS
<1>0. /\ notices \in Seq(Events) /\ read_at \subseteq ToSet(notices) /\ reader \in Asker
      /\ inbox \in List /\ load \in [Loads -> LoadRecord]
      /\ \A l \in Loads : list_of(load[l].by, load[l].answer)
      /\ \A i, j \in DOMAIN notices : notices[i] = notices[j] => i = j
  BY DEF InboxInv
<1>00. PICK w \in Asker : list_of(w, inbox)
  BY DEF InboxInv
<1>r. read_at \subseteq Events
  BY <1>0 DEF ToSet
\* The page's side: the rows of the table stay as they are.
<1>p. ASSUME UNCHANGED <<notices, read_at>>, reader' \in Asker, inbox' \in List,
             \E v \in Asker : list_of(v, inbox'), load' \in [Loads -> LoadRecord],
             \A l \in Loads : list_of(load'[l].by, load'[l].answer)
      PROVE  InboxInv'
  BY <1>0, <1>p DEF InboxInv, list_of, marks
\* One load goes on.
<1>l. ASSUME NEW l \in Loads, NEW r \in LoadRecord, load' = [load EXCEPT ![l] = r],
             list_of(r.by, r.answer)
      PROVE  /\ load' \in [Loads -> LoadRecord]
             /\ \A m \in Loads : list_of(load'[m].by, load'[m].answer)
  <2>1. \A m \in Loads : load'[m] = IF m = l THEN r ELSE load[m]
    BY <1>0, <1>l
  <2> QED
    BY <1>0, <1>l, <2>1
<1>n. NoLoad \in LoadRecord /\ list_of(NoLoad.by, NoLoad.answer)
  BY NothingIsAnyones DEF NoLoad, LoadRecord, Asker
<1>1. ASSUME NEW k \in Events, RecordEvent(k) PROVE InboxInv'
  <2>1. notices' = Append(notices, k) /\ UNCHANGED <<read_at, reader, inbox, load>>
    BY <1>1 DEF RecordEvent
  <2>2. \A i \in DOMAIN notices : notices[i] # k
    BY <1>0, <1>1 DEF RecordEvent, Contains
  <2>3. /\ notices' \in Seq(Events) /\ Len(notices') = Len(notices) + 1
        /\ DOMAIN notices = 1 .. Len(notices) /\ DOMAIN notices' = 1 .. Len(notices) + 1
        /\ Len(notices) \in Nat
        /\ \A i \in 1 .. Len(notices) : notices'[i] = notices[i]
        /\ notices'[Len(notices) + 1] = k
    BY <1>0, <2>1
  <2>4. \A i, j \in DOMAIN notices' : notices'[i] = notices'[j] => i = j
    BY <1>0, <2>2, <2>3
  <2>5. ToSet(notices) \subseteq ToSet(notices')
    BY <2>3 DEF ToSet
  <2>6. \E v \in Asker : list_of(v, inbox)'
    BY <1>00, <2>1, <2>5 DEF list_of, marks
  <2>7. \A l \in Loads : list_of(load[l].by, load[l].answer)'
    BY <1>0, <2>1, <2>5 DEF list_of, marks
  <2> QED
    BY <1>0, <2>1, <2>3, <2>4, <2>5, <2>6, <2>7 DEF InboxInv
<1>2. ASSUME NEW l \in Loads, loadInbox(l) PROVE InboxInv'
  <2>1. CASE reader = NoOne
    <3>1. inbox' = Nothing /\ UNCHANGED <<load, notices, read_at, reader>>
      BY <1>2, <2>1 DEF loadInbox
    <3> QED
      BY <1>0, <1>p, <3>1, NothingIsAnyones
  <2>2. CASE reader # NoOne
    <3> DEFINE r == [NoLoad EXCEPT !.stage = "Asked", !.by = reader]
    <3>1. load' = [load EXCEPT ![l] = r] /\ UNCHANGED <<inbox, notices, read_at, reader>>
      BY <1>2, <2>2 DEF loadInbox
    <3>2. r \in LoadRecord /\ list_of(r.by, r.answer)
      BY <1>0, NothingIsAnyones DEF NoLoad, LoadRecord
    <3> HIDE DEF r
    <3>3. /\ load' \in [Loads -> LoadRecord]
          /\ \A m \in Loads : list_of(load'[m].by, load'[m].answer)
      BY <1>l, <3>1, <3>2
    <3> QED
      BY <1>0, <1>00, <1>p, <3>1, <3>3
  <2> QED
    BY <2>1, <2>2
<1>3. ASSUME NEW l \in Loads, LoadServed(l) PROVE InboxInv'
  <2> DEFINE theirs == listed(load[l].by)
             r == [ stage |-> "Answered", by |-> load[l].by,
                    answer |-> [ rows |-> theirs, unread |-> theirs \ read_at ] ]
  <2>1. load[l] \in LoadRecord
    BY <1>0
  <2>2. load' = [load EXCEPT ![l] = r] /\ UNCHANGED <<inbox, notices, read_at, reader>>
    <3>1. /\ load[l].stage = "Asked" /\ UNCHANGED <<inbox, notices, read_at, reader>>
          /\ load' = [load EXCEPT ![l] = [ load[l] EXCEPT !.stage = "Answered",
                                  !.answer = [ rows |-> theirs, unread |-> theirs \ read_at ] ]]
      BY <1>3 DEF LoadServed
    <3> HIDE DEF theirs
    <3>2. r = [ load[l] EXCEPT !.stage = "Answered",
                               !.answer = [ rows |-> theirs, unread |-> theirs \ read_at ] ]
      BY <2>1, AnswerComes
    <3>3. load' = [load EXCEPT ![l] = r]
      BY <3>1, <3>2
    <3> QED
      BY <3>1, <3>3
  <2>3. theirs \subseteq marks(load[l].by) /\ theirs \subseteq Events
    BY <1>0, ListedAreMarks DEF marks, ToSet
  <2>4. r \in LoadRecord /\ list_of(r.by, r.answer)
    BY <2>1, <2>3 DEF List, list_of, LoadRecord
  <2> HIDE DEF r
  <2>5. /\ load' \in [Loads -> LoadRecord]
        /\ \A m \in Loads : list_of(load'[m].by, load'[m].answer)
    BY <1>l, <2>2, <2>4
  <2> QED
    BY <1>0, <1>00, <1>p, <2>2, <2>5
<1>4. ASSUME NEW l \in Loads, LoadAnswered(l) PROVE InboxInv'
  <2>1. /\ load' = [load EXCEPT ![l] = NoLoad] /\ inbox' = load[l].answer
        /\ UNCHANGED <<notices, read_at, reader>>
    BY <1>4 DEF LoadAnswered
  <2>2. /\ load' \in [Loads -> LoadRecord]
        /\ \A m \in Loads : list_of(load'[m].by, load'[m].answer)
    BY <1>l, <1>n, <2>1
  <2>3. inbox' \in List /\ load[l].by \in Asker /\ list_of(load[l].by, inbox')
    BY <1>0, <2>1 DEF LoadRecord
  <2> QED
    BY <1>0, <1>p, <2>1, <2>2, <2>3
<1>5. CASE RequestFails
  <2>1. ASSUME NEW l \in Loads, load' = [load EXCEPT ![l] = NoLoad] PROVE InboxInv'
    <3>1. /\ load' \in [Loads -> LoadRecord]
          /\ \A m \in Loads : list_of(load'[m].by, load'[m].answer)
      BY <1>l, <1>n, <2>1
    <3> QED
      BY <1>0, <1>00, <1>5, <1>p, <3>1 DEF RequestFails
  <2>2. CASE UNCHANGED load
    BY <1>0, <1>00, <1>5, <1>p, <2>2 DEF RequestFails
  <2> QED
    BY <1>5, <2>1, <2>2 DEF RequestFails
<1>6. CASE MarkServed
  <2>1. /\ read_at' = read_at \union marks(mark.by)
        /\ UNCHANGED <<notices, reader, inbox, load>>
    BY <1>6 DEF MarkServed
  <2>2. read_at' \subseteq ToSet(notices)
    BY <1>0, <2>1 DEF marks
  <2> QED
    BY <1>0, <1>00, <2>1, <2>2 DEF InboxInv, list_of, marks
<1>7. CASE MarkAnswered
  <2>1. /\ inbox' = [inbox EXCEPT !.unread = {}] /\ UNCHANGED <<notices, read_at, reader, load>>
    BY <1>7 DEF MarkAnswered
  <2>2. inbox' \in List /\ list_of(w, inbox')
    BY <1>0, <1>00, <2>1 DEF List, list_of
  <2> QED
    BY <1>0, <1>p, <2>1, <2>2
<1>8. CASE openInbox
  BY <1>0, <1>00, <1>8, <1>p DEF openInbox
<1>9. ASSUME NEW v \in Asker, SignsIn(v) PROVE InboxInv'
  BY <1>0, <1>00, <1>9, <1>p DEF SignsIn
<1>10. CASE UNCHANGED inbox_vars
  BY <1>0, <1>00, <1>10, <1>p DEF inbox_vars
<1> QED
  BY <1>1, <1>2, <1>3, <1>4, <1>5, <1>6, <1>7, <1>8, <1>9, <1>10 DEF InboxNext, Asker

(* loadInbox and the routes: answers that overtake one another, marks that *)
(* come late and a wallet that changes meanwhile never blend two wallets'  *)
(* notices into one list, and a scan that says an event again adds no row. *)
THEOREM ListsAreOneWallets == InboxSpec => []ListIsOneWallets
<1>1. InboxInv => ListIsOneWallets
  BY DEF InboxInv, ListIsOneWallets
<1> QED
  BY <1>1, InboxInitInv, InboxStepInv, PTL DEF InboxSpec
=============================================================================
